---------------------------- MODULE VoiceSession ----------------------------
(***************************************************************************)
(* voice.Session: goroutines that join a voice channel, leave it and write  *)
(* to it, and those that handle the main gateway's voice events, which make *)
(* a session that is connected connect again.  A connection is a voice      *)
(* gateway, seen from above, and the connection of a UDPManager.            *)
(***************************************************************************)
EXTENDS UDPManager

CONSTANTS
    Joiners, Leavers, Writers, Updaters,  \* kinds of goroutines
    Guilds,
    WSMaxRetry,
    MaxGateways,  \* bound: voice gateways that run, most of them ending
    Nobody,       \* nobody holds Session.mut
    None          \* no guild

ASSUME VoiceAssumption ==
    /\ Callers = Joiners \cup Leavers \cup Writers \cup Updaters
    /\ Joiners \cap Leavers = {} /\ Joiners \cap Writers = {} /\ Joiners \cap Updaters = {}
    /\ Leavers \cap Writers = {} /\ Leavers \cap Updaters = {} /\ Writers \cap Updaters = {}
    /\ None \notin Guilds /\ Nobody \notin Callers /\ WSMaxRetry \in Nat \ {0} /\ MaxGateways \in Nat

VARIABLES
    mut,        \* who holds Session.mut
    joining,    \* Session.joining
    attached,   \* detachReconnect is not nil: updates are handled
    guild,      \* state.GuildID
    token,      \* the guild that state.Token and state.Endpoint are for
    gateway,    \* Session.gateway, 0 for nil
    gwCancel,   \* Session.gwCancel is not nil
    running,    \* voice gateways, named by numbers, whose event loop runs
    cancelled,  \* those of them whose context has been cancelled
    pc, try, expired,  \* where a goroutine is, its attempt, its context's end
    heard,      \* joiner |-> what it has been told: "server", "state"
    event,      \* updater |-> the event it handles: a guild
    left,       \* history: Leave was the last to return, and nobody joins
    panicked

ours == <<mut, joining, attached, guild, token, gateway, gwCancel>>
gates == <<running, cancelled>>
procs == <<pc, try, expired, heard, event>>
vars == <<udp, ours, gates, procs, left, panicked>>

Init ==
    /\ NewManager
    /\ mut = Nobody /\ joining = FALSE /\ attached = FALSE /\ guild = None /\ token = None
    /\ gateway = 0 /\ gwCancel = FALSE
    /\ running = {} /\ cancelled = {}
    /\ pc = [c \in Callers |-> "idle"] /\ try = [c \in Callers |-> 0]
    /\ expired = [c \in Callers |-> FALSE] /\ heard = [c \in Callers |-> {}]
    /\ event = [c \in Callers |-> None]
    /\ left = FALSE /\ panicked = FALSE

-----------------------------------------------------------------------------
Goto(c, l) == pc' = [pc EXCEPT ![c] = l]
Lock(c) == mut = Nobody /\ mut' = c
Idle(c) ==
    /\ Goto(c, "idle")
    /\ try' = [try EXCEPT ![c] = 0] /\ expired' = [expired EXCEPT ![c] = FALSE]
    /\ heard' = [heard EXCEPT ![c] = {}] /\ event' = [event EXCEPT ![c] = None]

(* ensureClosed: the manager, and the gateway that gwCancel is for.         *)
CancelGateway_Kept == UNCHANGED cancelled
CancelGateway == cancelled' = IF gwCancel THEN cancelled \cup ({gateway} \cap running) ELSE cancelled

NewGateway == CHOOSE n \in 1..MaxGateways : n \notin running

(* The goroutine returns from the method it was called for.                 *)
Return(c) ==
    /\ mut' = Nobody /\ Idle(c)
    /\ joining' = (joining /\ c \notin Joiners)
Ours == <<attached, guild, token, gateway, gwCancel>>

-----------------------------------------------------------------------------
(* JoinChannel.                                                             *)

CallJoin(c) ==
    /\ c \in Joiners /\ pc[c] = "idle" /\ Goto(c, "join") /\ left' = FALSE
    /\ UNCHANGED <<udp, ours, gates, try, expired, heard, event, panicked>>

Join(c) ==
    /\ pc[c] = "join" /\ Lock(c)
    /\ joining' = TRUE /\ attached' = TRUE
    /\ guild' \in Guilds \cup {None}
    /\ Close /\ CancelGateway
    /\ Goto(c, "ask") /\ try' = [try EXCEPT ![c] = 1]
    /\ UNCHANGED <<token, gateway, gwCancel, running, expired, heard, event, left, panicked>>

(* waitForIncoming: of the events for this guild, the token and the state;  *)
(* a token from before counts.                                              *)
Known(c) == heard[c] \cup (IF token # None THEN {"server"} ELSE {})
Asked(c) ==
    /\ pc[c] = "ask" /\ Known(c) = {"server", "state"}
    /\ Goto(c, "pause")
    /\ UNCHANGED <<udp, ours, gates, try, expired, heard, event, left, panicked>>

(* The command cannot be sent, or the events do not come in time.           *)
AskFails(c) ==
    /\ pc[c] = "ask"
    /\ IF try[c] = 1 /\ expired[c]
       THEN IF WSMaxRetry = 1 THEN Goto(c, "pause") /\ UNCHANGED try
            ELSE try' = [try EXCEPT ![c] = 2] /\ UNCHANGED pc
       ELSE Goto(c, "retry") /\ UNCHANGED try
    /\ heard' = [heard EXCEPT ![c] = {}]
    /\ UNCHANGED <<udp, ours, gates, expired, event, left, panicked>>

(* After the last attempt it goes on as if the events had come.             *)
Retry(c) ==
    /\ pc[c] = "retry"
    /\ IF try[c] = WSMaxRetry THEN Goto(c, "pause") /\ UNCHANGED try
       ELSE Goto(c, "ask") /\ try' = [try EXCEPT ![c] = @ + 1]
    /\ UNCHANGED <<udp, ours, gates, expired, heard, event, left, panicked>>

JoinGivesUp(c) ==
    /\ pc[c] = "retry" /\ expired[c]
    /\ Return(c)
    /\ UNCHANGED <<udp, Ours, gates, left, panicked>>

-----------------------------------------------------------------------------
(* reconnectCtx.                                                            *)

StartPause(c) ==
    /\ pc[c] = "pause"
    /\ \/ Pause /\ Goto(c, "start") /\ UNCHANGED <<mut, joining, try, expired, heard, event>>
       \/ expired[c] /\ Return(c) /\ UNCHANGED udp
    /\ UNCHANGED <<Ours, gates, left, panicked>>

StartGateway(c) ==
    /\ pc[c] = "start" /\ running # 1..MaxGateways
    /\ Close
    /\ LET n == NewGateway IN
       /\ gateway' = n /\ gwCancel' = TRUE
       /\ running' = running \cup {n}
       /\ CancelGateway
    /\ Goto(c, "spin")
    /\ UNCHANGED <<mut, joining, attached, guild, token, try, expired, heard, event, left, panicked>>

(* spinGateway: READY makes it dial, the answer to SelectProtocol ends it;  *)
(* it fails when the context ends, or the gateway or a connection of it.    *)
Failed(c) ==
    /\ CancelGateway /\ gwCancel' = FALSE
    /\ Goto(c, "continue")
    /\ UNCHANGED <<mut, joining, attached, guild, token, gateway, running, try, expired, heard, event, left, panicked>>

SpinFails(c) ==
    /\ pc[c] \in {"spin", "select"}
    /\ Failed(c) /\ UNCHANGED udp

SpinReady(c) ==
    /\ pc[c] = "spin" /\ gateway \in running
    /\ Goto(c, "dial")
    /\ UNCHANGED <<udp, ours, gates, try, expired, heard, event, left, panicked>>

Dials(c) == pc[c] = "dial" /\ DialDone /\ Goto(c, "send")
            /\ UNCHANGED <<ours, gates, try, expired, heard, event, left, panicked>>
CannotDial(c) == pc[c] = "dial" /\ (DialRefused \/ DialFailed) /\ Failed(c)

SelectProtocol(c) ==
    /\ pc[c] = "send"
    /\ \/ Goto(c, "select") /\ UNCHANGED <<ours, gates, try, expired, heard, event, left, panicked>>
       \/ Failed(c)
    /\ UNCHANGED udp

SessionDescription(c) ==
    /\ pc[c] = "select" /\ gateway \in running
    /\ Goto(c, "continue")
    /\ UNCHANGED <<udp, ours, gates, try, expired, heard, event, left, panicked>>

(* The deferred Continue, which panics unless it finds a token.             *)
Resume(c) ==
    /\ pc[c] = "continue"
    /\ Continue /\ panicked' = ~Continues
    /\ Return(c)
    /\ UNCHANGED <<Ours, gates, left>>

-----------------------------------------------------------------------------
(* Updates of the main gateway, each handled in a goroutine of its own, and *)
(* offered to a JoinChannel that waits for them.                            *)

Announce(g, what) ==
    /\ \E c \in Joiners : pc[c] = "ask" /\ g = guild /\ heard' = [heard EXCEPT ![c] = @ \cup {what}]
    /\ token' = IF what = "server" THEN g ELSE token
    /\ UNCHANGED <<udp, mut, joining, attached, guild, gateway, gwCancel, gates, pc, try, expired, event, left, panicked>>

Notify(c, g) ==
    /\ c \in Updaters /\ pc[c] = "idle" /\ attached
    /\ event' = [event EXCEPT ![c] = g] /\ Goto(c, "update")
    /\ UNCHANGED <<udp, ours, gates, try, expired, heard, left, panicked>>

(* acquireUpdate.                                                           *)
UpdateStarts(c) ==
    /\ pc[c] = "update"
    /\ IF joining THEN Idle(c) ELSE Goto(c, "update.lock") /\ UNCHANGED <<try, expired, heard, event>>
    /\ UNCHANGED <<udp, ours, gates, left, panicked>>

UpdateLocks(c) ==
    /\ pc[c] = "update.lock" /\ Lock(c) /\ Goto(c, "acquire")
    /\ UNCHANGED <<udp, joining, Ours, gates, try, expired, heard, event, left, panicked>>

(* Ignored by a session that is closed, or in another guild; otherwise its  *)
(* token is taken over, or its channel.                                     *)
Update_WhenClosed(c) ==
    /\ IF event[c] = guild THEN Goto(c, "pause") /\ token' \in {token, guild} /\ UNCHANGED <<mut, joining, try, expired, heard, event>>
       ELSE Return(c) /\ UNCHANGED token
    /\ UNCHANGED <<attached, guild, gateway, gwCancel>>
Update(c) ==
    /\ IF found[c] /\ event[c] = guild
       THEN Goto(c, "pause") /\ token' \in {token, guild} /\ UNCHANGED <<mut, joining, try, expired, heard, event>>
       ELSE Return(c) /\ UNCHANGED token
    /\ UNCHANGED <<attached, guild, gateway, gwCancel>>

-----------------------------------------------------------------------------
(* acquireConn, by a Write or an IsClosed.                                  *)

Acquire(c) ==
    /\ pc[c] = "acquire" /\ AcquireConn(c) /\ Goto(c, "release")
    /\ UNCHANGED <<ours, gates, try, expired, heard, event, left, panicked>>

Release(c) ==
    /\ pc[c] = "release" /\ full /\ full' = FALSE
    /\ UNCHANGED <<conn, prevConn, stopped, open, gates, panicked>>
    /\ \/ c \in Writers /\ Goto(c, "write") /\ UNCHANGED <<ours, try, expired, heard, event, found, left>>
       \/ c \in Updaters /\ Update(c) /\ found' = [found EXCEPT ![c] = FALSE] /\ UNCHANGED left
       \/ c \in Leavers /\ Return(c) /\ left' = (\A j \in Joiners : pc[j] = "idle") /\ found' = [found EXCEPT ![c] = FALSE] /\ UNCHANGED Ours

CallWrite(c) ==
    /\ c \in Writers /\ pc[c] = "idle" /\ Goto(c, "acquire")
    /\ UNCHANGED <<udp, ours, gates, try, expired, heard, event, left, panicked>>
Write(c) ==
    /\ pc[c] = "write" /\ Idle(c) /\ found' = [found EXCEPT ![c] = FALSE]
    /\ UNCHANGED <<full, conn, prevConn, stopped, open, ours, gates, left, panicked>>

-----------------------------------------------------------------------------
(* Leave.                                                                   *)

CallLeave(c) ==
    /\ c \in Leavers /\ pc[c] = "idle" /\ Goto(c, "leave")
    /\ UNCHANGED <<udp, ours, gates, try, expired, heard, event, left, panicked>>

Leave(c) ==
    /\ pc[c] = "leave" /\ Lock(c)
    /\ Close /\ CancelGateway /\ attached' = FALSE
    /\ Goto(c, IF gateway = 0 THEN "acquire" ELSE "leave.cancel")
    /\ UNCHANGED <<joining, guild, token, gateway, gwCancel, running, try, expired, heard, event, left, panicked>>

(* cancelGateway: gwDone is of this gateway whenever gwCancel is there.      *)
LeaveCancels(c) ==
    /\ pc[c] = "leave.cancel"
    /\ CancelGateway /\ gwCancel' = FALSE
    /\ Goto(c, IF gwCancel THEN "leave.wait" ELSE "leave.done")
    /\ UNCHANGED <<udp, mut, joining, attached, guild, token, gateway, running, try, expired, heard, event, left, panicked>>

LeaveReturns(c) ==
    /\ \/ pc[c] = "leave.done"
       \/ pc[c] = "leave.wait" /\ (gateway \notin running \/ expired[c])
    /\ Return(c) /\ left' = (\A j \in Joiners : pc[j] = "idle")
    /\ UNCHANGED <<udp, Ours, gates, panicked>>

-----------------------------------------------------------------------------
(* The voice gateways end when they are cancelled, or by themselves.        *)
GatewayEnds(n) ==
    /\ n \in running /\ running' = running \ {n} /\ cancelled' = cancelled \ {n}
    /\ UNCHANGED <<udp, ours, procs, left, panicked>>

Expire(c) ==
    /\ pc[c] # "idle" /\ c \notin Writers /\ ~expired[c]
    /\ expired' = [expired EXCEPT ![c] = TRUE]
    /\ UNCHANGED <<udp, ours, gates, pc, try, heard, event, left, panicked>>

Joining(c) ==
    CallJoin(c) \/ Join(c) \/ Asked(c) \/ AskFails(c) \/ Retry(c) \/ JoinGivesUp(c)
Reconnecting(c) ==
    \/ StartPause(c) \/ StartGateway(c) \/ SpinFails(c) \/ SpinReady(c) \/ Dials(c) \/ CannotDial(c)
    \/ SelectProtocol(c) \/ SessionDescription(c) \/ Resume(c)
Leaving(c) == CallLeave(c) \/ Leave(c) \/ LeaveCancels(c) \/ LeaveReturns(c)

Next ==
    /\ ~panicked
    /\ \/ \E c \in Callers :
           \/ Joining(c) \/ Reconnecting(c) \/ Leaving(c)
           \/ UpdateStarts(c) \/ UpdateLocks(c) \/ Acquire(c) \/ Release(c)
           \/ CallWrite(c) \/ Write(c) \/ Expire(c)
           \/ \E g \in Guilds : Notify(c, g)
       \/ \E g \in Guilds, what \in {"server", "state"} : Announce(g, what)
       \/ \E n \in running : GatewayEnds(n)

Spec == Init /\ [][Next]_vars

-----------------------------------------------------------------------------
(* Properties.                                                              *)

(* Whatever fails in the middle of a reconnect, when nobody is between      *)
(* Pause and Continue no socket that the manager was given is open but its  *)
(* current connection.                                                      *)
Connecting(c) == pc[c] \in {"start", "spin", "dial", "send", "select", "continue"}
SocketsOwned == (\A c \in Callers : ~Connecting(c)) => open \subseteq {conn}

(* Reconnects, joins and leaves leave no voice gateway behind: one that has *)
(* not been cancelled is the session's, and there is something to cancel it *)
(* with.                                                                    *)
OneGateway == running \ cancelled \subseteq IF gwCancel THEN {gateway} ELSE {}

(* Once Leave has returned, with nobody joining, no update that was under   *)
(* way connects the session again.                                          *)
LeftStaysLeft ==
    left => stopped /\ running \subseteq cancelled /\ \A c \in Updaters : ~Connecting(c)

(* The assertion in reconnectCtx: whoever has paused the manager continues  *)
(* it.                                                                      *)
NoPanic == ~panicked

(* The comment in waitForIncoming: with a token and an endpoint there is no *)
(* need to wait for others.  So the gateway is asked for the right guild.   *)
RightServer == \A c \in Joiners : pc[c] = "start" => token = guild
=============================================================================
