------------------------------ MODULE StateMC ------------------------------
(* An instance of StateItems and StateMessages for TLC: a behaviour is      *)
(* about the items of one topic, or, of none, about the messages.           *)
EXTENDS StateItems, StateMessages

CONSTANTS a1, b1, g1, u1, r1, c1, t1, d1, p1, e1
OneHome == [c \in {c1, t1} |-> g1]
OneRecipient == [d \in {d1} |-> u1]
SomeIntents == {{"guilds", "emojis", "members", "presences", "voice"}, {"guilds", "members"}, {}}
OneKind ==
    {ItemsOf(k) : k \in {"me", "guild", "emoji", "member", "presence", "role", "voice"}}
    \cup {{i} : i \in ItemsOf("channel")} \cup {{}}

StateInit ==
    /\ Init /\ MessagesInit
    /\ intents # {} /\ "presences" \notin intents => \A i \in items : i.kind = "member"
    /\ IF items = {} THEN account = "bot" /\ intents = {} ELSE theme = "list" /\ tracked
StateNext ==
    \/ items # {} /\ Next /\ UNCHANGED messageVars
    \/ items = {} /\ MessagesNext /\ UNCHANGED vars
StateSpec == StateInit /\ [][StateNext]_<<vars, messageVars>>
=============================================================================
