----------------------------- MODULE GatewayLoop -----------------------------
(***************************************************************************)
(* The gateway: the event loop of utils/ws (Gateway.spin), the handler of   *)
(* package gateway (gatewayImpl) that it calls, the connection it dials and *)
(* re-dials, a user who reads the event channel, cancels and connects       *)
(* again, and Discord's side of the connection (external): sessions of      *)
(* numbered events that can be resumed.                                     *)
(*                                                                          *)
(* Everything the loop does between two of its blocking points is one step. *)
(* The blocking points are the select, the sends into the event channel,    *)
(* Dial, and the two timers.  Time is counted in heartbeat intervals.       *)
(***************************************************************************)
EXTENDS Integers, Sequences

CONSTANTS
    Sessions,          \* identifiers the server has for sessions
    None,              \* no session: SessionID = ""
    MaxSeq,            \* bound: events of one session
    MaxNet,            \* bound: ops of one connection not yet received
    MaxRuns,           \* bound: calls of Connect that start the loop
    ReconnectAttempt,  \* GatewayOpts.ReconnectAttempt; 0 is unlimited
    Undecodable,       \* numbers of the events that cannot be decoded
    DeadBeat,          \* deadbeatDuration, in heartbeat intervals
    Faults             \* what may go wrong, see Fault

(* "drop": the connection is lost; "reconnect", "request", "invalid": the   *)
(* server asks for a reconnect, for a heartbeat, or refuses the session;    *)
(* "sequence", "fatal": it closes with 4007 or with a fatal code; "mute":   *)
(* it says nothing any more; "dial", "close": Dial or Conn.Close fails;     *)
(* "slow": acknowledgements, and the loop itself, may take longer than a    *)
(* heartbeat interval.                                                      *)
Fault == {"drop", "reconnect", "request", "invalid", "sequence", "fatal", "mute",
          "dial", "close", "slow"}

NoEcho == -1   \* echoBeat.IsZero()

ASSUME ConstantsAssumption ==
    /\ None \notin Sessions
    /\ MaxSeq \in Nat \ {0} /\ MaxNet \in Nat \ {0} /\ MaxRuns \in Nat
    /\ ReconnectAttempt \in Nat
    /\ Undecodable \subseteq 2..MaxSeq
    /\ DeadBeat \in Nat /\ DeadBeat > 3
    /\ Faults \subseteq Fault

VARIABLES
    \* the loop: ws.Gateway
    pc,          \* where spin is
    todo,        \* what it still has to send into the event channel here
    after,       \* where it goes when todo is sent
    try,         \* attempts of the reconnect loop
    reconnect,   \* the token in the reconnect channel
    srcOp,       \* srcOp is not nil
    ticking,     \* the heart ticker runs
    beat,        \* heart.C is ready
    lastError,   \* "nil", "error" or "fatal"
    \* the handler: gateway.Gateway and gatewayImpl
    sessionID,   \* state.SessionID
    sequence,    \* state.Sequence
    echo,        \* heartbeat intervals since echoBeat, up to DeadBeat, or NoEcho
    greeted,     \* heartrate # 0
    \* the connection: ws.Conn, its reader and its channel
    sock,        \* "open", "lost" (the reader will find out) or "closed" by us
    src,         \* ops on their way to the loop: socket, reader and channel
    srcClosed,   \* the reader sent its CloseEvent and closed the channel
    code,        \* the close code of a lost connection
    \* the user
    cancelled,   \* the context given to Connect is done
    started,     \* outer.started
    runs,        \* times the loop was started
    outer,       \* outer.ch, of capacity one
    got,         \* session and position of the events taken from outer.ch
    fatalSeen,   \* a CloseEvent with a fatal code was sent to outer.ch
    \* the server
    srv,         \* what it expects on this connection
    on, pos,     \* the session of this connection, its last event sent on it
    last,        \* the last event of every session, 0 if there is none
    ackOwed, resumedOwed

loop    == <<todo, after, try, reconnect, srcOp, ticking, beat, lastError>>
handler == <<sessionID, sequence, echo, greeted>>
conn    == <<sock, src, srcClosed, code>>
user    == <<cancelled, started, runs, outer, got, fatalSeen>>
server  == <<srv, on, pos, last, ackOwed, resumedOwed>>
vars    == <<pc, loop, handler, conn, user, server>>

Op(kind, sid, seq) == [kind |-> kind, sid |-> sid, seq |-> seq]
Plain(kind) == Op(kind, None, 0)
Error == Plain("error")

Init ==
    /\ pc = "idle" /\ todo = <<>> /\ after = "idle" /\ try = 0
    /\ reconnect = FALSE /\ srcOp = FALSE
    /\ ticking = FALSE /\ beat = FALSE /\ lastError = "nil"
    /\ sessionID = None /\ sequence = 0 /\ echo = NoEcho /\ greeted = FALSE
    /\ sock = "closed" /\ src = <<>> /\ srcClosed = FALSE /\ code = "other"
    /\ cancelled = FALSE /\ started = FALSE /\ runs = 0
    /\ outer = <<>> /\ got = [sid |-> None, at |-> 0] /\ fatalSeen = FALSE
    /\ srv = "none" /\ on = None /\ pos = 0
    /\ last = [s \in Sessions |-> 0]
    /\ ackOwed = FALSE /\ resumedOwed = FALSE

-----------------------------------------------------------------------------
(* The user.                                                                *)

(* Gateway.Connect with a fresh context and a fresh gatewayImpl.            *)
Connect ==
    /\ ~started /\ outer = <<>>
    /\ runs < MaxRuns
    /\ started' = TRUE /\ runs' = runs + 1
    /\ cancelled' = FALSE /\ fatalSeen' = FALSE
    /\ greeted' = FALSE
    /\ reconnect' = TRUE
    /\ pc' = "select"
    /\ UNCHANGED <<todo, after, try, srcOp, ticking, beat, lastError, sessionID,
                   sequence, echo, conn, outer, got, server>>

Cancel ==
    /\ started /\ ~cancelled
    /\ cancelled' = TRUE
    /\ UNCHANGED <<pc, loop, handler, conn, started, runs, outer, got, fatalSeen, server>>

(* Where a reader of the channel is in the stream of events.                *)
Advance(g, op) ==
    CASE op.kind \in {"ready", "event"} -> [sid |-> op.sid, at |-> op.seq]
      [] op.kind = "unknown" /\ op.seq > g.at -> [g EXCEPT !.at = op.seq]
      [] OTHER -> g

Take ==
    /\ outer # <<>>
    /\ outer' = Tail(outer)
    /\ got' = Advance(got, Head(outer))
    /\ UNCHANGED <<pc, loop, handler, conn, cancelled, started, runs, fatalSeen, server>>

-----------------------------------------------------------------------------
(* Building blocks of the loop.                                             *)

(* Send ops into the event channel one after the other, then go on.         *)
Emit(ops, next) ==
    IF ops = <<>>
    THEN pc' = next /\ UNCHANGED <<todo, after>>
    ELSE pc' = "emit" /\ todo' = ops /\ after' = next

EmitNext ==
    /\ pc = "emit"
    /\ Len(outer) = 0
    /\ outer' = <<Head(todo)>>
    /\ todo' = Tail(todo)
    /\ pc' = IF Len(todo) = 1 THEN after ELSE "emit"
    /\ after' = IF Len(todo) = 1 THEN "idle" ELSE after
    /\ UNCHANGED <<try, reconnect, srcOp, ticking, beat, lastError, handler, conn,
                   cancelled, started, runs, got, fatalSeen, server>>

QueueReconnect_OnlyStops == ticking' = FALSE /\ beat' = FALSE /\ UNCHANGED reconnect
QueueReconnect == reconnect' = TRUE /\ ticking' = FALSE /\ beat' = FALSE
KeepHeart == UNCHANGED <<reconnect, ticking, beat>>

invalidate == sessionID' = None /\ sequence' = 0

(* Gateway.Send: the rate limiters fail on a done context; a lost           *)
(* connection may or may not be noticed.                                    *)
SendOK   == ~cancelled /\ sock \in {"open", "lost"}
SendErr  == cancelled \/ sock \in {"lost", "closed"}
Heard    == sock = "open" /\ srv # "mute"

sendIdentify ==
    /\ SendOK
    /\ srv' = IF Heard THEN "identify" ELSE srv
    /\ UNCHANGED <<on, pos, last, ackOwed, resumedOwed>>

sendResume_FromZero ==
    /\ SendOK
    /\ IF Heard THEN srv' = "resume" /\ on' = sessionID /\ pos' = 0
                ELSE UNCHANGED <<srv, on, pos>>
    /\ UNCHANGED <<last, ackOwed, resumedOwed>>

sendResume ==
    /\ SendOK
    /\ IF Heard THEN srv' = "resume" /\ on' = sessionID /\ pos' = sequence
                ELSE UNCHANGED <<srv, on, pos>>
    /\ UNCHANGED <<last, ackOwed, resumedOwed>>

isDead_Never == FALSE
isDead_FirstMiss == greeted /\ echo # NoEcho /\ echo > 0
isDead == greeted /\ echo # NoEcho /\ echo > 2

(* SendHeartbeat; ops is what has to be delivered after it.                 *)
HeartbeatFails(ops) ==
    /\ isDead \/ SendErr
    /\ QueueReconnect
    /\ Emit(<<Error>> \o ops, "select")
    /\ UNCHANGED server

HeartbeatSent(ops) ==
    /\ ~isDead /\ SendOK
    /\ ackOwed' = (ackOwed \/ Heard)
    /\ Emit(ops, "select")
    /\ UNCHANGED <<srv, on, pos, last, resumedOwed>>

-----------------------------------------------------------------------------
(* gatewayImpl.OnOp, one operator per case.  Every op is delivered to the   *)
(* event channel after its case.                                            *)

Dispatch == {"ready", "event", "resumed"}
SequenceAfter_NeverBack(op) ==
    IF op.kind \in Dispatch /\ op.seq > sequence THEN op.seq ELSE sequence
SequenceAfter(op) == IF op.kind \in Dispatch THEN op.seq ELSE sequence

OnClose(op) ==
    /\ op.kind \in {"closeOther", "closeSequence"}
    /\ IF op.kind = "closeSequence" THEN invalidate ELSE UNCHANGED <<sessionID, sequence>>
    /\ QueueReconnect
    /\ Emit(<<op>>, "select")
    /\ UNCHANGED <<echo, greeted, server>>

resumable == echo = NoEcho \/ echo < DeadBeat

OnHello(op) ==
    LET fresh == ~resumable \/ sessionID = None \/ sequence = 0 IN
    /\ op.kind = "hello"
    /\ greeted' = TRUE
    /\ echo' = NoEcho
    /\ \/ /\ IF fresh THEN sendIdentify ELSE sendResume
          /\ ticking' = TRUE /\ beat' = FALSE
          /\ UNCHANGED reconnect
          /\ Emit(<<op>>, "select")
       \/ /\ SendErr
          /\ QueueReconnect
          /\ Emit(<<Error, op>>, "select")
          /\ UNCHANGED server
    /\ UNCHANGED <<sessionID, sequence>>

OnInvalidSession(op) ==
    /\ op.kind \in {"invalid", "invalidResumable"}
    /\ invalidate
    /\ IF op.kind = "invalid"
       THEN QueueReconnect /\ Emit(<<op>>, "select")
       ELSE /\ KeepHeart
            /\ pc' = "retryTimer" /\ todo' = <<op>> /\ UNCHANGED after
    /\ UNCHANGED <<echo, greeted, server>>

OnHeartbeatCommand(op) ==
    /\ op.kind = "request"
    /\ HeartbeatFails(<<op>>) \/ (HeartbeatSent(<<op>>) /\ KeepHeart)
    /\ UNCHANGED handler

OnReconnect(op) ==
    /\ op.kind = "reconnect"
    /\ QueueReconnect
    /\ Emit(<<op>>, "select")
    /\ UNCHANGED <<handler, server>>

(* Dispatched events, of which READY and RESUMED count as an answer to the  *)
(* heart, and the acknowledgements themselves.                              *)
OnEvent(op) ==
    /\ op.kind \in Dispatch \cup {"unknown", "ack"}
    /\ sequence' = SequenceAfter(op)
    /\ sessionID' = IF op.kind = "ready" THEN op.sid ELSE sessionID
    /\ echo' = IF op.kind \in {"ready", "resumed", "ack"} THEN 0 ELSE echo
    /\ KeepHeart
    /\ Emit(<<op>>, "select")
    /\ UNCHANGED <<greeted, server>>

OnOp(op) ==
    \/ OnClose(op) \/ OnHello(op) \/ OnInvalidSession(op) \/ OnHeartbeatCommand(op)
    \/ OnReconnect(op) \/ OnEvent(op)

(* ... the rest of case InvalidSessionEvent, after its timer.               *)
RetryIdentify ==
    /\ pc = "retryTimer"
    /\ \/ /\ sendIdentify
          /\ KeepHeart
          /\ Emit(todo, "select")
       \/ /\ SendErr
          /\ QueueReconnect
          /\ Emit(<<Error>> \o todo, "select")
          /\ UNCHANGED server
    /\ UNCHANGED <<try, srcOp, lastError, handler, conn, user>>

-----------------------------------------------------------------------------
(* Gateway.spin.                                                            *)

CtxDone ==
    /\ pc = "select" /\ cancelled
    /\ pc' = "finalize"
    /\ UNCHANGED <<loop, handler, conn, user, server>>

CloseKind == CASE code = "fatal" -> "closeFatal"
               [] code = "sequence" -> "closeSequence"
               [] OTHER -> "closeOther"

(* The next op of srcOp.  The reader's last one is the CloseEvent.          *)
NextOp(op) ==
    /\ srcOp
    /\ \/ /\ src # <<>>
          /\ op = Head(src)
          /\ src' = Tail(src)
          /\ UNCHANGED srcClosed
       \/ /\ src = <<>> /\ sock # "open" /\ ~srcClosed
          /\ op = Plain(CloseKind)
          /\ srcClosed' = TRUE
          /\ UNCHANGED src
    /\ UNCHANGED <<sock, code>>

ReceiveOp(op) ==
    /\ pc = "select"
    /\ NextOp(op)
    /\ op.kind # "closeFatal"
    /\ OnOp(op)
    /\ lastError' = "nil"
    /\ UNCHANGED <<try, srcOp, user>>

ReceiveFatal_Reconnects(op) ==
    /\ pc = "select"
    /\ NextOp(op)
    /\ op.kind = "closeFatal"
    /\ QueueReconnect
    /\ Emit(<<op>>, "select")
    /\ lastError' = "fatal"
    /\ fatalSeen' = TRUE
    /\ UNCHANGED <<try, srcOp, handler, cancelled, started, runs, outer, got, server>>

ReceiveFatal(op) ==
    /\ pc = "select"
    /\ NextOp(op)
    /\ op.kind = "closeFatal"
    /\ Emit(<<op>>, "finalize")
    /\ lastError' = "fatal"
    /\ fatalSeen' = TRUE
    /\ UNCHANGED <<try, reconnect, srcOp, ticking, beat, handler, cancelled, started,
                   runs, outer, got, server>>

Receive ==
    LET op == IF src # <<>> THEN Head(src) ELSE Plain(CloseKind) IN
    ReceiveOp(op) \/ ReceiveFatal(op)

Heartbeat ==
    /\ pc = "select" /\ beat
    /\ \/ HeartbeatFails(<<>>) /\ lastError' = "error"
       \/ /\ HeartbeatSent(<<>>)
          /\ beat' = FALSE
          /\ UNCHANGED <<reconnect, ticking, lastError>>
    /\ UNCHANGED <<try, srcOp, handler, conn, user>>

(* The server's side of a connection that has ended.                        *)
Forget ==
    /\ srv' = "none" /\ on' = None /\ pos' = 0
    /\ ackOwed' = FALSE /\ resumedOwed' = FALSE
    /\ UNCHANGED last

(* Conn.Close when there is a connection: what it was still to deliver is   *)
(* lost, and so is the server's side of it.                                 *)
CloseConn ==
    /\ sock' = "closed"
    /\ Forget

CloseErr == sock # "closed" /\ "close" \in Faults

(* case <-g.reconnect: the old connection is closed and forgotten ...       *)
Reconnect ==
    /\ pc = "select" /\ reconnect
    /\ reconnect' = FALSE
    /\ CloseConn
    /\ srcOp' = FALSE /\ src' = <<>> /\ srcClosed' = FALSE
    /\ try' = 0
    /\ \/ Emit(<<>>, "dial") /\ UNCHANGED lastError
       \/ CloseErr /\ Emit(<<Error>>, "dial") /\ lastError' = "error"
    /\ UNCHANGED <<ticking, beat, handler, code, user>>

(* ... and a new one is dialed until that succeeds,                         *)
DialOK ==
    /\ pc = "dial" /\ ~cancelled
    /\ sock' = "open" /\ srcOp' = TRUE
    /\ srv' = "greet"
    /\ code' = "other"
    /\ pc' = "select"
    /\ UNCHANGED <<todo, after, try, reconnect, ticking, beat, lastError, handler, src,
                   srcClosed, user, on, pos, last, ackOwed, resumedOwed>>

LastAttempt == ReconnectAttempt # 0 /\ try + 1 = ReconnectAttempt

DialFailed_KeepsTrying ==
    /\ pc = "dial"
    /\ cancelled \/ "dial" \in Faults
    /\ Emit(<<Error>>, "backoff")
    /\ lastError' = "error"
    /\ UNCHANGED <<try, reconnect, srcOp, ticking, beat, handler, conn, user, server>>

(* the context ends, or the attempts run out.                               *)
DialFailed ==
    /\ pc = "dial"
    /\ \/ cancelled /\ Emit(<<Error>>, "finalize")
       \/ ~cancelled /\ "dial" \in Faults /\ Emit(<<Error>>, "backoff")
    /\ lastError' = "error"
    /\ UNCHANGED <<try, reconnect, srcOp, ticking, beat, handler, conn, user, server>>

Backoff ==
    /\ pc = "backoff"
    /\ \/ /\ cancelled \/ LastAttempt
          /\ Emit(<<Error>>, "finalize")
          /\ lastError' = "error"
          /\ UNCHANGED try
       \/ /\ ~LastAttempt
          /\ try' = IF ReconnectAttempt = 0 THEN 0 ELSE try + 1
          /\ Emit(<<>>, "dial")
          /\ UNCHANGED lastError
    /\ UNCHANGED <<reconnect, srcOp, ticking, beat, handler, conn, user, server>>

(* finalize: the reader may still have passed on an op or two of a          *)
(* connection closed here; srcOp and the ticker stay as they are.           *)
Finalize ==
    /\ pc = "finalize"
    /\ CloseConn
    /\ \E k \in 0..2 : src' = SubSeq(src, 1, IF k < Len(src) THEN k ELSE Len(src))
    /\ invalidate
    /\ \/ sock # "closed" /\ Emit(<<>>, "exit") /\ UNCHANGED lastError
       \/ (sock = "closed" \/ CloseErr) /\ Emit(<<Error>>, "exit") /\ lastError' = "error"
    /\ UNCHANGED <<try, reconnect, srcOp, ticking, beat, echo, greeted, srcClosed, code, user>>

(* close(g.outer.ch); g.outer.started = false                               *)
Exit ==
    /\ pc = "exit"
    /\ pc' = "idle"
    /\ started' = FALSE
    /\ UNCHANGED <<loop, handler, conn, cancelled, runs, outer, got, fatalSeen, server>>

spin ==
    \/ CtxDone \/ Receive \/ Heartbeat \/ Reconnect \/ DialOK \/ DialFailed \/ Backoff
    \/ RetryIdentify \/ EmitNext \/ Finalize \/ Exit

-----------------------------------------------------------------------------
(* The server and the network (external).                                   *)

Room == sock = "open" /\ Len(src) < MaxNet
Push(op) == src' = Append(src, op)
Rest == <<pc, loop, handler, sock, srcClosed, code, user>>

ServerHello ==
    /\ srv = "greet" /\ Room
    /\ Push(Plain("hello"))
    /\ srv' = "wait"
    /\ UNCHANGED <<Rest, on, pos, last, ackOwed, resumedOwed>>

(* A new session gets an identifier that nobody at this end still holds.    *)
InUse ==
    {got.sid, sessionID}
    \cup {todo[i].sid : i \in DOMAIN todo} \cup {outer[i].sid : i \in DOMAIN outer}
    \cup {src[i].sid : i \in DOMAIN src}

AcceptIdentify ==
    /\ srv = "identify" /\ sock = "open"
    /\ \E s \in Sessions \ InUse :
           /\ on' = s
           /\ last' = [x \in Sessions |-> IF x = s THEN 1
                                          ELSE IF x \in InUse THEN last[x] ELSE 0]
    /\ pos' = 0
    /\ srv' = "live"
    /\ UNCHANGED <<Rest, src, ackOwed, resumedOwed>>

AcceptResume ==
    /\ srv = "resume" /\ sock = "open"
    /\ pos <= last[on]
    /\ srv' = "live"
    /\ resumedOwed' = TRUE
    /\ UNCHANGED <<Rest, src, on, pos, last, ackOwed>>

(* The server refuses an Identify or a Resume, or drops a live session.     *)
Refuse ==
    /\ "invalid" \in Faults /\ Room
    /\ srv \in {"identify", "resume", "live"}
    /\ \E kind \in {"invalid", "invalidResumable"} : Push(Plain(kind))
    /\ srv' = "wait"
    /\ resumedOwed' = FALSE
    /\ UNCHANGED <<Rest, on, pos, last, ackOwed>>

(* Something happens in a session, connected or not.                        *)
NewEvent ==
    /\ \E s \in {on, sessionID} \ {None} :
           /\ last[s] \in 1..(MaxSeq - 1)
           /\ last' = [last EXCEPT ![s] = @ + 1]
    /\ UNCHANGED <<Rest, src, srv, on, pos, ackOwed, resumedOwed>>

KindOf(n) == IF n = 1 THEN "ready" ELSE IF n \in Undecodable THEN "unknown" ELSE "event"

SendEvent ==
    /\ srv = "live" /\ Room
    /\ pos < last[on]
    /\ Push(Op(KindOf(pos + 1), on, pos + 1))
    /\ pos' = pos + 1
    /\ UNCHANGED <<Rest, srv, on, last, ackOwed, resumedOwed>>

(* RESUMED closes the replay and repeats the number of the last event.      *)
SendResumed ==
    /\ srv = "live" /\ resumedOwed /\ Room
    /\ pos = last[on]
    /\ Push(Op("resumed", on, pos))
    /\ resumedOwed' = FALSE
    /\ UNCHANGED <<Rest, srv, on, pos, last, ackOwed>>

SendAck ==
    /\ ackOwed /\ srv # "mute" /\ Room
    /\ Push(Plain("ack"))
    /\ ackOwed' = FALSE
    /\ UNCHANGED <<Rest, srv, on, pos, last, resumedOwed>>

Ask ==
    /\ srv = "live" /\ Room
    /\ \E kind \in {"reconnect", "request"} \cap Faults : Push(Plain(kind))
    /\ UNCHANGED <<Rest, srv, on, pos, last, ackOwed, resumedOwed>>

(* The connection ends at the server or on the way; part of what was on its *)
(* way arrives.                                                             *)
Drop ==
    /\ sock = "open"
    /\ \/ "drop" \in Faults /\ code' = "other"
       \/ {"sequence", "fatal"} \cap Faults # {} /\ srv \notin {"greet", "mute"}
          /\ code' \in {"sequence", "fatal"} \cap Faults
    /\ sock' = "lost"
    /\ \E k \in 0..Len(src) : src' = SubSeq(src, 1, k)
    /\ Forget
    /\ UNCHANGED <<pc, loop, handler, srcClosed, user>>

Mute ==
    /\ "mute" \in Faults
    /\ sock = "open" /\ srv \notin {"none", "mute"}
    /\ srv' = "mute"
    /\ UNCHANGED <<Rest, src, on, pos, last, ackOwed, resumedOwed>>

(* A heartbeat interval passes.  Unless something is slow, everybody has    *)
(* done by then what there is to do.                                        *)
Prompt ==
    /\ pc \notin {"emit", "finalize", "exit"} /\ outer = <<>>
    /\ src = <<>> /\ ~beat /\ (srv = "mute" \/ ~(ackOwed \/ resumedOwed))
    /\ pc = "select" => ~reconnect /\ ~cancelled
    /\ srv \notin {"greet", "identify", "resume"}

Tick ==
    /\ "slow" \in Faults \/ Prompt
    /\ beat' = (beat \/ ticking)
    /\ echo' = IF echo = NoEcho \/ echo = DeadBeat THEN echo ELSE echo + 1
    /\ UNCHANGED <<pc, todo, after, try, reconnect, srcOp, ticking, lastError, sessionID,
                   sequence, greeted, conn, user, server>>

Reply == ServerHello \/ AcceptIdentify \/ AcceptResume \/ SendEvent \/ SendResumed \/ SendAck
Server == Reply \/ Refuse \/ NewEvent \/ Ask \/ Drop \/ Mute

(* The user is done with the gateway: the one way for everything to stop.   *)
Stopped == ~started /\ outer = <<>> /\ runs = MaxRuns /\ UNCHANGED vars

Next == Connect \/ Cancel \/ Take \/ spin \/ Server \/ Tick \/ Stopped

Spec == Init /\ [][Next]_vars

(* The scheduler runs the loop's goroutine and the reader of its channel;   *)
(* select picks among ready cases at random, so none is passed over for     *)
(* ever; a network that is dialed again and again answers once; an honest   *)
(* server replies.  Nobody has to cancel, and nothing has to fail.          *)
FairSpec ==
    /\ Spec
    /\ WF_vars(spin) /\ WF_vars(Take) /\ WF_vars(Reply) /\ WF_vars(Tick)
    /\ SF_vars(CtxDone) /\ SF_vars(Receive) /\ SF_vars(Heartbeat) /\ SF_vars(Reconnect)
    /\ SF_vars(DialOK)

-----------------------------------------------------------------------------
(* Types.                                                                   *)

OpKinds == {"hello", "ready", "event", "unknown", "resumed", "ack", "request", "reconnect",
            "invalid", "invalidResumable", "closeOther", "closeSequence", "closeFatal", "error"}
OpType == [kind: OpKinds, sid: Sessions \cup {None}, seq: 0..MaxSeq]

ASSUME NoneAssumption == None \notin OpType

(* Every variable keeps its type and every channel its capacity.            *)
TypeOK ==
    /\ pc \in {"idle", "select", "emit", "retryTimer", "dial", "backoff", "finalize", "exit"}
    /\ todo \in Seq(OpType) /\ Len(todo) <= 2
    /\ after \in {"idle", "select", "dial", "backoff", "finalize", "exit"}
    /\ try \in Nat /\ (ReconnectAttempt # 0 => try < ReconnectAttempt)
    /\ {reconnect, srcOp, ticking, beat, greeted, srcClosed, cancelled, started, fatalSeen,
        ackOwed, resumedOwed} \subseteq BOOLEAN
    /\ lastError \in {"nil", "error", "fatal"}
    /\ sessionID \in Sessions \cup {None} /\ sequence \in 0..MaxSeq
    /\ echo \in NoEcho..DeadBeat
    /\ sock \in {"open", "lost", "closed"}
    /\ src \in Seq(OpType) /\ Len(src) <= MaxNet
    /\ code \in {"other", "sequence", "fatal"}
    /\ runs \in 0..MaxRuns
    /\ outer \in Seq(OpType) /\ Len(outer) <= 1
    /\ got \in [sid: Sessions \cup {None}, at: 0..MaxSeq]
    /\ srv \in {"none", "greet", "wait", "identify", "resume", "live", "mute"}
    /\ on \in Sessions \cup {None} /\ pos \in 0..MaxSeq
    /\ last \in [Sessions -> 0..MaxSeq]

-----------------------------------------------------------------------------
(* Properties.                                                              *)

(* The stream of events survives lost connections, resumes, refused         *)
(* sessions and restarts: the channel implements EventStream, which see.    *)
Offered ==
    IF outer = <<>> \/ outer[1].kind \notin {"ready", "event", "unknown"}
    THEN None ELSE outer[1]
Stream == INSTANCE EventStream WITH session <- got.sid, position <- got.at, offered <- Offered
EventsInOrder == Stream!Spec

(* A session is resumed from where its reader is: as long as the handler    *)
(* holds a session and a number, they are those of the last event it has    *)
(* passed on, so that the server replays exactly what is missing.  Reached  *)
(* and Seen are where the reader is when he has taken what is in the        *)
(* channel, and what the loop is sending (two ops at most).                 *)
AdvanceAt(g, ops, i) == IF i \in DOMAIN ops THEN Advance(g, ops[i]) ELSE g
Reached == AdvanceAt(got, outer, 1)
Seen == AdvanceAt(AdvanceAt(Reached, todo, 1), todo, 2)
ResumesWhereItWas ==
    sessionID # None /\ sequence # 0 =>
        /\ sessionID = Seen.sid
        /\ sequence <= Seen.at
        /\ (sequence + 1)..Seen.at \subseteq Undecodable

(* The loop never goes on without a connection: once the reader has ended,  *)
(* or the loop itself has closed the socket, a reconnect is queued or under *)
(* way.  Otherwise it would spin on a closed channel forever.               *)
NoLimbo ==
    pc \in {"select", "retryTimer"} /\ (srcClosed \/ sock = "closed") => reconnect

(* A fatal close code ends the gateway: it is not dialed again.             *)
FatalEnds == fatalSeen => pc \notin {"dial", "backoff"} /\ sock # "open"

(* The user is told of an error only when something went wrong: with a      *)
(* prompt server and a network without faults that is the end of the        *)
(* context while the gateway connects.                                      *)
ErrorsHaveCauses ==
    Faults = {} =>
        \A i \in DOMAIN outer : outer[i].kind = "error" => cancelled

(* After a fatal close LastError is that close, which is how the session    *)
(* knows not to try again.                                                  *)
FatalReported == fatalSeen /\ ~started => lastError = "fatal"

(* A cancelled gateway closes its channel.                                  *)
Closes == cancelled ~> ~started

(* A lost connection is replaced, unless the gateway is on its way out.     *)
Leaving == cancelled \/ fatalSeen \/ ~started
Recovers == sock = "lost" ~> (sock = "open" \/ Leaving)

(* A server that stops answering after it has acknowledged a heartbeat or   *)
(* a session is found out: the connection is replaced.                      *)
DeadDetected ==
    (srv = "mute" /\ src = <<>> /\ ticking /\ echo # NoEcho)
        ~> (srv # "mute" \/ Leaving)

(* The same for a server that has not acknowledged anything yet: "no ack    *)
(* received yet" is waited out for a bit only.                              *)
MuteDetected ==
    (srv = "mute" /\ src = <<>> /\ ticking) ~> (srv # "mute" \/ Leaving)
=============================================================================
