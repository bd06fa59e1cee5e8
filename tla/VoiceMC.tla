------------------------------ MODULE VoiceMC ------------------------------
(* An instance of VoiceSession for TLC.                                     *)
EXTENDS VoiceSession, TLC

CONSTANTS j1, l1, w1, u1, g1, g2
AllCallers == Joiners \cup Leavers \cup Writers \cup Updaters
GuildSymmetry == Permutations(Guilds)
=============================================================================
