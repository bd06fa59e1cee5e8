-------------------------- MODULE GatewayLoopProofs --------------------------
(***************************************************************************)
(* Why the loop of GatewayLoop is never left without a connection, why a    *)
(* fatal close code ends it, why it resumes where its reader is, and why    *)
(* its channel implements EventStream.                                      *)
(***************************************************************************)
EXTENDS GatewayLoop, SequenceTheorems, TLAPS

Closing == {"closeOther", "closeSequence", "closeFatal"}

(* What the server and its network put into src: never the CloseEvent,      *)
(* which is the reader's own.                                               *)
Arriving == {op \in OpType : op.kind \notin Closing}

(* The type invariant, by the owner of the state.                           *)
Places == {"idle", "select", "emit", "retryTimer", "dial", "backoff", "finalize", "exit"}
Afters == {"idle", "select", "dial", "backoff", "finalize", "exit"}

LoopType ==
    /\ pc \in Places
    /\ todo \in Seq(OpType) /\ Len(todo) <= 2
    /\ after \in Afters
    /\ try \in Nat /\ (ReconnectAttempt # 0 => try < ReconnectAttempt)
    /\ lastError \in {"nil", "error", "fatal"}
    /\ pc = "retryTimer" => Len(todo) = 1
    /\ pc = "emit" => todo # <<>>

HandlerType ==
    /\ sessionID \in Sessions \cup {None} /\ sequence \in 0..MaxSeq
    /\ echo \in NoEcho..DeadBeat

ConnType ==
    /\ sock \in {"open", "lost", "closed"}
    /\ src \in Seq(Arriving) /\ Len(src) <= MaxNet
    /\ code \in {"other", "sequence", "fatal"}

UserType ==
    /\ runs \in 0..MaxRuns
    /\ outer \in Seq(OpType) /\ Len(outer) <= 1
    /\ got \in [sid: Sessions \cup {None}, at: 0..MaxSeq]

ServerType ==
    /\ srv \in {"none", "greet", "wait", "identify", "resume", "live", "mute"}
    /\ on \in Sessions \cup {None} /\ pos \in 0..MaxSeq
    /\ last \in [Sessions -> 0..MaxSeq]
    /\ srv \in {"resume", "live"} => on \in Sessions

Flags ==
    /\ reconnect \in BOOLEAN /\ srcOp \in BOOLEAN /\ ticking \in BOOLEAN /\ beat \in BOOLEAN
    /\ greeted \in BOOLEAN /\ srcClosed \in BOOLEAN
    /\ cancelled \in BOOLEAN /\ started \in BOOLEAN /\ fatalSeen \in BOOLEAN
    /\ ackOwed \in BOOLEAN /\ resumedOwed \in BOOLEAN

Typed == LoopType /\ HandlerType /\ ConnType /\ UserType /\ ServerType

------------------------------------------------------------------------------
(* The building blocks.                                                     *)

LEMMA PlainTyped ==
  ASSUME NEW kind \in OpKinds
  PROVE  /\ Plain(kind) \in OpType
         /\ kind \notin Closing => Plain(kind) \in Arriving
  BY ConstantsAssumption DEF Plain, Op, OpType, Arriving

LEMMA ErrorTyped == Error \in OpType
  BY PlainTyped DEF Error, OpKinds

LEMMA EmitTyped ==
  ASSUME Typed, NEW ops \in Seq(OpType), Len(ops) <= 2, NEW next \in Afters,
         Emit(ops, next), UNCHANGED try, lastError' \in {"nil", "error", "fatal"}
  PROVE  LoopType'
  BY DEF Typed, LoopType, Emit, Places, Afters

LEMMA OneErrorTyped == <<Error>> \in Seq(OpType) /\ Len(<<Error>>) <= 2
  BY ErrorTyped

LEMMA EmitErrorTyped ==
  ASSUME Typed, NEW ops \in Seq(OpType), Len(ops) <= 1, NEW next \in Afters,
         Emit(<<Error>> \o ops, next), UNCHANGED try,
         lastError' \in {"nil", "error", "fatal"}
  PROVE  LoopType'
  <1>1. /\ (<<Error>> \o ops) \in Seq(OpType)
        /\ Len(<<Error>> \o ops) = Len(<<Error>>) + Len(ops)
    BY OneErrorTyped, ConcatProperties
  <1>2. Len(<<Error>> \o ops) <= 2
    BY <1>1
  <1>3. PICK all : all = <<Error>> \o ops
    OBVIOUS
  <1>4. all \in Seq(OpType) /\ Len(all) <= 2 /\ Emit(all, next)
    BY <1>1, <1>2, <1>3
  <1> QED BY <1>4, EmitTyped

(* The op that Receive takes: one that was on its way, or the CloseEvent    *)
(* of a reader that has ended.                                              *)
LEMMA NextOpTyped ==
  ASSUME Typed, NEW op, NextOp(op)
  PROVE  /\ op \in OpType
         /\ ConnType'
         /\ \/ op.kind \notin Closing /\ UNCHANGED <<sock, srcClosed>>
            \/ op.kind \in Closing /\ sock # "open" /\ UNCHANGED sock
  <1>1. CASE /\ src # <<>>
             /\ op = Head(src)
             /\ src' = Tail(src)
             /\ UNCHANGED srcClosed
    <2>1. op \in Arriving /\ src' \in Seq(Arriving) /\ Len(src') <= MaxNet
      BY <1>1, ConstantsAssumption DEF Typed, ConnType
    <2> QED BY <1>1, <2>1 DEF NextOp, Arriving, Typed, ConnType
  <1>2. CASE /\ src = <<>> /\ sock # "open" /\ ~srcClosed
             /\ op = Plain(CloseKind)
             /\ srcClosed' = TRUE
             /\ UNCHANGED src
    <2>1. CloseKind \in OpKinds /\ CloseKind \in Closing
      BY DEF CloseKind, OpKinds, Closing
    <2>2. op \in OpType /\ op.kind = CloseKind
      BY <1>2, <2>1, PlainTyped DEF Plain, Op
    <2> QED BY <1>2, <2>1, <2>2 DEF NextOp, Typed, ConnType
  <1> QED BY <1>1, <1>2 DEF NextOp

LEMMA PushTyped ==
  ASSUME Typed, Room, NEW op \in Arriving, Push(op), UNCHANGED <<sock, code>>
  PROVE  ConnType'
  BY ConstantsAssumption DEF Typed, ConnType, Room, Push

LEMMA IdentifyTyped ==
  ASSUME Typed, sendIdentify
  PROVE  ServerType'
  BY DEF Typed, ServerType, sendIdentify

LEMMA ResumeTyped ==
  ASSUME Typed, sendResume, sessionID # None
  PROVE  ServerType'
  BY DEF Typed, ServerType, HandlerType, sendResume

------------------------------------------------------------------------------
LEMMA OnOpTyped ==
  ASSUME Typed, NEW op \in OpType, OnOp(op), ConnType', UNCHANGED <<try, user>>,
         lastError' = "nil", pc = "select"
  PROVE  Typed'
  <1>0. UserType'
    BY DEF Typed, UserType, user
  <1>a. UNCHANGED try /\ lastError' \in {"nil", "error", "fatal"}
    OBVIOUS
  <1>1. <<op>> \in Seq(OpType) /\ Len(<<op>>) <= 2
    OBVIOUS
  <1>2. (<<Error>> \o <<op>>) \in Seq(OpType) /\ Len(<<Error>> \o <<op>>) <= 2
    BY ErrorTyped
  <1>3. <<Error, op>> \in Seq(OpType) /\ Len(<<Error, op>>) <= 2
    BY ErrorTyped
  <1>4. "select" \in Afters
    BY DEF Afters
  <1>5. CASE OnClose(op)
    <2>1. LoopType' BY <1>a, <1>1, <1>4, <1>5, EmitTyped DEF OnClose
    <2>2. HandlerType' /\ ServerType'
      BY <1>5, ConstantsAssumption
         DEF OnClose, invalidate, Typed, HandlerType, ServerType, server
    <2> QED BY <1>0, <2>1, <2>2 DEF Typed
  <1>6. CASE OnHello(op)
    <2>1. LoopType' BY <1>a, <1>1, <1>3, <1>4, <1>6, EmitTyped DEF OnHello
    <2>2. HandlerType'
      BY <1>6, ConstantsAssumption DEF OnHello, Typed, HandlerType, NoEcho
    <2>3. ServerType'
      BY <1>6, IdentifyTyped, ResumeTyped DEF OnHello, Typed, ServerType, server
    <2> QED BY <1>0, <2>1, <2>2, <2>3 DEF Typed
  <1>7. CASE OnInvalidSession(op)
    <2>1. LoopType'
      <3>1. CASE Emit(<<op>>, "select") BY <3>1, <1>a, <1>1, <1>4, EmitTyped
      <3>2. CASE pc' = "retryTimer" /\ todo' = <<op>> /\ UNCHANGED after
        BY <3>2, <1>1 DEF Typed, LoopType, Places
      <3> QED BY <1>7, <3>1, <3>2 DEF OnInvalidSession
    <2>2. HandlerType' /\ ServerType'
      BY <1>7, ConstantsAssumption
         DEF OnInvalidSession, invalidate, Typed, HandlerType, ServerType, server
    <2> QED BY <1>0, <2>1, <2>2 DEF Typed
  <1>8. CASE OnHeartbeatCommand(op)
    <2>1. LoopType'
      BY <1>a, <1>1, <1>2, <1>4, <1>8, EmitTyped
         DEF OnHeartbeatCommand, HeartbeatFails, HeartbeatSent
    <2>2. HandlerType' /\ ServerType'
      BY <1>8 DEF OnHeartbeatCommand, HeartbeatFails, HeartbeatSent, Typed, HandlerType,
                  ServerType, server, handler
    <2> QED BY <1>0, <2>1, <2>2 DEF Typed
  <1>9. CASE OnReconnect(op)
    <2>1. LoopType' BY <1>a, <1>1, <1>4, <1>9, EmitTyped DEF OnReconnect
    <2>2. HandlerType' /\ ServerType'
      BY <1>9 DEF OnReconnect, Typed, HandlerType, ServerType, server, handler
    <2> QED BY <1>0, <2>1, <2>2 DEF Typed
  <1>10. CASE OnEvent(op)
    <2>1. LoopType' BY <1>a, <1>1, <1>4, <1>10, EmitTyped DEF OnEvent
    <2>2. HandlerType' /\ ServerType'
      BY <1>10, ConstantsAssumption
         DEF OnEvent, SequenceAfter, OpType, NoEcho, Typed, HandlerType, ServerType, server
    <2> QED BY <1>0, <2>1, <2>2 DEF Typed
  <1> QED BY <1>5, <1>6, <1>7, <1>8, <1>9, <1>10 DEF OnOp

------------------------------------------------------------------------------
LEMMA InitTyped == Init => Typed
  <1> SUFFICES ASSUME Init PROVE Typed
    OBVIOUS
  <1>1. LoopType /\ HandlerType
    BY ConstantsAssumption DEF Init, LoopType, HandlerType, Places, Afters, NoEcho
  <1>2. ConnType /\ UserType /\ ServerType
    BY ConstantsAssumption DEF Init, ConnType, UserType, ServerType
  <1> QED BY <1>1, <1>2 DEF Typed

(* The user's steps.                                                        *)
LEMMA UserTyped == Typed /\ (Connect \/ Cancel \/ Take) => Typed'
  <1> SUFFICES ASSUME Typed, Connect \/ Cancel \/ Take PROVE Typed'
    OBVIOUS
  <1> USE DEF Typed, LoopType, HandlerType, ConnType, UserType, ServerType, loop, handler,
              conn, server, Places
  <1>1. CASE Connect
    BY <1>1, ConstantsAssumption DEF Connect
  <1>2. CASE Cancel
    BY <1>2 DEF Cancel
  <1>3. CASE Take
    <2>1. Head(outer) \in OpType /\ outer' \in Seq(OpType) /\ Len(outer') <= 1
      BY <1>3 DEF Take
    <2>2. got' \in [sid: Sessions \cup {None}, at: 0..MaxSeq]
      BY <1>3, <2>1 DEF Take, Advance, OpType
    <2> QED BY <1>3, <2>1, <2>2 DEF Take
  <1> QED BY <1>1, <1>2, <1>3

LEMMA ReceiveTyped == Typed /\ Receive => Typed'
  <1> SUFFICES ASSUME Typed, NEW op, ReceiveOp(op) \/ ReceiveFatal(op) PROVE Typed'
    BY DEF Receive
  <1>1. op \in OpType /\ ConnType'
    BY NextOpTyped DEF ReceiveOp, ReceiveFatal
  <1>2. CASE ReceiveOp(op)
    BY <1>1, <1>2, OnOpTyped DEF ReceiveOp
  <1>3. CASE ReceiveFatal(op)
    <2>1. <<op>> \in Seq(OpType) /\ Len(<<op>>) <= 2
      BY <1>1
    <2>2. UNCHANGED try /\ lastError' \in {"nil", "error", "fatal"} /\ "finalize" \in Afters
      BY <1>3 DEF ReceiveFatal, Afters
    <2>3. LoopType'
      BY <1>3, <2>1, <2>2, EmitTyped DEF ReceiveFatal
    <2> QED BY <1>1, <1>3, <2>3 DEF ReceiveFatal, Typed, HandlerType, UserType, ServerType,
                                    handler, server
  <1> QED BY <1>2, <1>3

LEMMA CloseTyped ==
  ASSUME Typed, CloseConn
  PROVE  ServerType' /\ sock' = "closed"
  BY ConstantsAssumption DEF CloseConn, Forget, Typed, ServerType

LEMMA EmptyTyped == <<>> \in Seq(OpType) /\ Len(<<>>) <= 2
  OBVIOUS

(* The other steps of the loop.                                             *)
LEMMA SpinTyped == Typed /\ spin => Typed'
  <1> SUFFICES ASSUME Typed, spin PROVE Typed'
    OBVIOUS
  <1>e. /\ "select" \in Afters /\ "finalize" \in Afters /\ "backoff" \in Afters
        /\ "exit" \in Afters /\ "dial" \in Afters
    BY DEF Afters
  <1>s. lastError \in {"nil", "error", "fatal"}
    BY DEF Typed, LoopType
  <1>1. CASE CtxDone
    BY <1>1 DEF CtxDone, Typed, LoopType, HandlerType, ConnType, UserType, ServerType, loop,
                handler, conn, user, server, Places
  <1>2. CASE Receive
    BY <1>2, ReceiveTyped
  <1>3. CASE Heartbeat
    <2>1. UNCHANGED try /\ lastError' \in {"nil", "error", "fatal"}
      BY <1>3, <1>s DEF Heartbeat
    <2>2. <<>> \in Seq(OpType) /\ Len(<<>>) <= 1
      OBVIOUS
    <2>3. LoopType'
      <3>1. CASE Emit(<<Error>> \o <<>>, "select")
        BY <3>1, <1>e, <2>1, <2>2, EmitErrorTyped
      <3>2. CASE Emit(<<>>, "select")
        BY <3>2, <1>e, <2>1, EmptyTyped, EmitTyped
      <3>3. Emit(<<Error>> \o <<>>, "select") \/ Emit(<<>>, "select")
        BY <1>3, Zenon DEF Heartbeat, HeartbeatFails, HeartbeatSent
      <3> QED BY <3>1, <3>2, <3>3
    <2> QED BY <1>3, <2>3 DEF Heartbeat, HeartbeatFails, HeartbeatSent, Typed, HandlerType,
                              ConnType, UserType, ServerType, handler, conn, user, server
  <1>4. CASE Reconnect
    <2>1. ServerType' /\ sock' = "closed"
      BY <1>4, CloseTyped DEF Reconnect
    <2>2. LoopType'
      <3>1. try' = 0 /\ 0 \in Nat /\ (ReconnectAttempt # 0 => 0 < ReconnectAttempt)
        BY <1>4, ConstantsAssumption DEF Reconnect
      <3>2. CASE Emit(<<>>, "dial") /\ UNCHANGED lastError
        BY <3>1, <3>2 DEF Emit, Typed, LoopType, Places
      <3>3. CASE Emit(<<Error>>, "dial") /\ lastError' = "error"
        <4>1. pc' = "emit" /\ todo' = <<Error>> /\ after' = "dial" /\ <<Error>> # <<>>
          BY <3>3 DEF Emit
        <4> QED BY <3>1, <3>3, <4>1, <1>e, OneErrorTyped DEF LoopType, Places
      <3> QED BY <1>4, <3>2, <3>3 DEF Reconnect
    <2> QED BY <1>4, <2>1, <2>2, ConstantsAssumption
            DEF Reconnect, Typed, HandlerType, ConnType, UserType, handler, user
  <1>5. CASE DialOK
    BY <1>5 DEF DialOK, Typed, LoopType, HandlerType, ConnType, UserType, ServerType,
                handler, user, Places
  <1>6. CASE DialFailed
    <2>1. LoopType'
      BY <1>6, <1>e, OneErrorTyped, EmitTyped DEF DialFailed
    <2> QED BY <1>6, <2>1 DEF DialFailed, Typed, HandlerType, ConnType, UserType, ServerType,
                              handler, conn, user, server
  <1>7. CASE Backoff
    <2>1. LoopType'
      <3>1. CASE ~LastAttempt /\ try' = (IF ReconnectAttempt = 0 THEN 0 ELSE try + 1)
                 /\ Emit(<<>>, "dial") /\ UNCHANGED lastError
        <4>1. try' \in Nat /\ (ReconnectAttempt # 0 => try' < ReconnectAttempt)
          BY <3>1, ConstantsAssumption DEF LastAttempt, Typed, LoopType
        <4> QED BY <3>1, <4>1 DEF Emit, Typed, LoopType, Places
      <3>2. CASE Emit(<<Error>>, "finalize") /\ lastError' = "error" /\ UNCHANGED try
        BY <3>2, <1>e, OneErrorTyped, EmitTyped
      <3> QED BY <1>7, <3>1, <3>2 DEF Backoff
    <2> QED BY <1>7, <2>1 DEF Backoff, Typed, HandlerType, ConnType, UserType, ServerType,
                              handler, conn, user, server
  <1>8. CASE RetryIdentify
    <2>1. todo \in Seq(OpType) /\ Len(todo) = 1
      BY <1>8 DEF RetryIdentify, Typed, LoopType
    <2>2. LoopType'
      <3>0. UNCHANGED try /\ lastError' \in {"nil", "error", "fatal"} /\ Len(todo) <= 1
        BY <1>8, <1>s, <2>1 DEF RetryIdentify
      <3>1. CASE Emit(todo, "select")
        <4>1. Len(todo) <= 2 BY <2>1
        <4> QED BY <3>0, <3>1, <4>1, <1>e, <2>1, EmitTyped
      <3>2. CASE Emit(<<Error>> \o todo, "select")
        BY <3>0, <3>2, <1>e, <2>1, EmitErrorTyped
      <3> QED BY <1>8, <3>1, <3>2 DEF RetryIdentify
    <2>3. ServerType'
      BY <1>8, IdentifyTyped DEF RetryIdentify, Typed, ServerType, server
    <2> QED BY <1>8, <2>2, <2>3 DEF RetryIdentify, Typed, HandlerType, ConnType, UserType,
                                    handler, conn, user
  <1>9. CASE EmitNext
    <2>1. CASE todo # <<>>
      <3>1. /\ outer' \in Seq(OpType) /\ Len(outer') = 1
            /\ todo' \in Seq(OpType) /\ Len(todo') <= 2
        BY <1>9, <2>1 DEF EmitNext, Typed, LoopType
      <3>n. Len(todo) # 1 => todo' # <<>>
        <4>1. todo' = Tail(todo) /\ todo \in Seq(OpType) /\ Len(todo) # 0
          BY <1>9, <2>1, EmptySeq DEF EmitNext, Typed, LoopType
        <4>2. Len(todo') = Len(todo) - 1
          BY <4>1, HeadTailProperties, EmptySeq
        <4>3. Len(todo) \in Nat /\ Len(<<>>) = 0
          BY <4>1
        <4> QED BY <4>2, <4>3
      <3>2. LoopType'
        BY <1>9, <3>1, <3>n DEF EmitNext, Typed, LoopType, Places, Afters
      <3> QED BY <1>9, <3>1, <3>2 DEF EmitNext, Typed, HandlerType, ConnType, UserType,
                                      ServerType, handler, conn, server
    <2>2. todo # <<>>
      BY <1>9 DEF EmitNext, Typed, LoopType
    <2> QED BY <2>1, <2>2
  <1>10. CASE Finalize
    <2>1. ServerType' /\ sock' = "closed"
      BY <1>10, CloseTyped DEF Finalize
    <2>2. src' \in Seq(Arriving) /\ Len(src') <= MaxNet
      BY <1>10, ConstantsAssumption DEF Finalize, Typed, ConnType
    <2>3. UNCHANGED try /\ lastError' \in {"nil", "error", "fatal"}
      BY <1>10, <1>s DEF Finalize
    <2>4. LoopType'
      BY <1>10, <1>e, <2>3, EmptyTyped, OneErrorTyped, EmitTyped DEF Finalize
    <2> QED BY <1>10, <2>1, <2>2, <2>4, ConstantsAssumption
            DEF Finalize, invalidate, Typed, HandlerType, ConnType, UserType, user
  <1>11. CASE Exit
    BY <1>11 DEF Exit, Typed, LoopType, HandlerType, ConnType, UserType, ServerType, loop,
                 handler, conn, server, Places
  <1> QED BY <1>1, <1>2, <1>3, <1>4, <1>5, <1>6, <1>7, <1>8, <1>9, <1>10, <1>11 DEF spin

(* The server and time.                                                     *)
LEMMA RestTyped ==
  ASSUME Typed, UNCHANGED Rest
  PROVE  LoopType' /\ HandlerType' /\ UserType' /\ UNCHANGED <<sock, code>>
  BY DEF Typed, Rest, LoopType, HandlerType, UserType, loop, handler, user

LEMMA ReplyTyped == Typed /\ Reply => Typed'
  <1> SUFFICES ASSUME Typed, Reply PROVE Typed'
    OBVIOUS
  <1>1. CASE ServerHello
    <2>1. Plain("hello") \in Arriving
      BY PlainTyped DEF OpKinds, Closing
    <2>2. UNCHANGED Rest
      BY <1>1 DEF ServerHello
    <2>3. ConnType'
      BY <1>1, <2>1, <2>2, PushTyped, RestTyped DEF ServerHello
    <2> QED BY <1>1, <2>2, <2>3, RestTyped DEF ServerHello, Typed, ServerType
  <1>2. CASE AcceptIdentify
    <2>1. last' \in [Sessions -> 0..MaxSeq]
      BY <1>2, ConstantsAssumption DEF AcceptIdentify, Typed, ServerType
    <2>2. UNCHANGED Rest
      BY <1>2 DEF AcceptIdentify
    <2>3. ConnType' /\ ServerType'
      BY <1>2, <2>1, <2>2, RestTyped, ConstantsAssumption
         DEF AcceptIdentify, Typed, ConnType, ServerType
    <2> QED BY <2>2, <2>3, RestTyped DEF Typed
  <1>3. CASE AcceptResume
    <2>1. UNCHANGED Rest
      BY <1>3 DEF AcceptResume
    <2> QED BY <1>3, <2>1, RestTyped DEF AcceptResume, Typed, ConnType, ServerType
  <1>4. CASE SendEvent
    <2>1. on \in Sessions /\ pos + 1 \in 0..MaxSeq
      BY <1>4, ConstantsAssumption DEF SendEvent, Typed, ServerType
    <2>2. KindOf(pos + 1) \in OpKinds \ Closing
      BY DEF KindOf, OpKinds, Closing
    <2>3. Op(KindOf(pos + 1), on, pos + 1) \in Arriving
      BY <2>1, <2>2 DEF Op, OpType, Arriving
    <2>4. UNCHANGED Rest
      BY <1>4 DEF SendEvent
    <2>5. ConnType'
      BY <1>4, <2>3, <2>4, PushTyped, RestTyped DEF SendEvent
    <2> QED BY <1>4, <2>1, <2>4, <2>5, RestTyped DEF SendEvent, Typed, ServerType
  <1>5. CASE SendResumed
    <2>1. Op("resumed", on, pos) \in Arriving
      BY DEF Op, OpType, OpKinds, Closing, Arriving, Typed, ServerType
    <2>2. UNCHANGED Rest
      BY <1>5 DEF SendResumed
    <2>3. ConnType'
      BY <1>5, <2>1, <2>2, PushTyped, RestTyped DEF SendResumed
    <2> QED BY <1>5, <2>2, <2>3, RestTyped DEF SendResumed, Typed, ServerType
  <1>6. CASE SendAck
    <2>1. Plain("ack") \in Arriving
      BY PlainTyped DEF OpKinds, Closing
    <2>2. UNCHANGED Rest
      BY <1>6 DEF SendAck
    <2>3. ConnType'
      BY <1>6, <2>1, <2>2, PushTyped, RestTyped DEF SendAck
    <2> QED BY <1>6, <2>2, <2>3, RestTyped DEF SendAck, Typed, ServerType
  <1> QED BY <1>1, <1>2, <1>3, <1>4, <1>5, <1>6 DEF Reply

LEMMA ServerTyped == Typed /\ Server => Typed'
  <1> SUFFICES ASSUME Typed, Server PROVE Typed'
    OBVIOUS
  <1>1. CASE Reply
    BY <1>1, ReplyTyped
  <1>2. CASE Refuse
    <2>1. PICK kind \in {"invalid", "invalidResumable"} : Push(Plain(kind))
      BY <1>2 DEF Refuse
    <2>2. Plain(kind) \in Arriving
      BY PlainTyped DEF OpKinds, Closing
    <2>3. UNCHANGED Rest
      BY <1>2 DEF Refuse
    <2>4. ConnType'
      BY <1>2, <2>1, <2>2, <2>3, PushTyped, RestTyped DEF Refuse
    <2> QED BY <1>2, <2>3, <2>4, RestTyped DEF Refuse, Typed, ServerType
  <1>3. CASE NewEvent
    <2>1. UNCHANGED Rest
      BY <1>3 DEF NewEvent
    <2>2. last' \in [Sessions -> 0..MaxSeq]
      BY <1>3, ConstantsAssumption DEF NewEvent, Typed, ServerType, HandlerType
    <2> QED BY <1>3, <2>1, <2>2, RestTyped DEF NewEvent, Typed, ConnType, ServerType
  <1>4. CASE Ask
    <2>1. PICK kind \in {"reconnect", "request"} : Push(Plain(kind))
      BY <1>4 DEF Ask
    <2>2. Plain(kind) \in Arriving
      BY PlainTyped DEF OpKinds, Closing
    <2>3. UNCHANGED Rest
      BY <1>4 DEF Ask
    <2>4. ConnType'
      BY <1>4, <2>1, <2>2, <2>3, PushTyped, RestTyped DEF Ask
    <2> QED BY <1>4, <2>3, <2>4, RestTyped DEF Ask, Typed, ServerType
  <1>5. CASE Drop
    <2>1. src' \in Seq(Arriving) /\ Len(src') <= MaxNet
      BY <1>5, ConstantsAssumption DEF Drop, Typed, ConnType
    <2>2. ServerType'
      BY <1>5, ConstantsAssumption DEF Drop, Forget, Typed, ServerType
    <2> QED BY <1>5, <2>1, <2>2
            DEF Drop, Typed, LoopType, HandlerType, UserType, ConnType, loop, handler, user
  <1>6. CASE Mute
    <2>1. UNCHANGED Rest
      BY <1>6 DEF Mute
    <2> QED BY <1>6, <2>1, RestTyped DEF Mute, Typed, ConnType, ServerType
  <1> QED BY <1>1, <1>2, <1>3, <1>4, <1>5, <1>6 DEF Server

LEMMA StepTyped == Typed /\ [Next]_vars => Typed'
  <1> SUFFICES ASSUME Typed, [Next]_vars PROVE Typed'
    OBVIOUS
  <1>1. CASE Connect \/ Cancel \/ Take
    BY <1>1, UserTyped
  <1>2. CASE spin
    BY <1>2, SpinTyped
  <1>3. CASE Server
    BY <1>3, ServerTyped
  <1>4. CASE Tick
    BY <1>4, ConstantsAssumption
       DEF Tick, Typed, LoopType, HandlerType, UserType, ConnType, ServerType, conn, user,
           server, NoEcho
  <1>5. CASE UNCHANGED vars
    BY <1>5 DEF vars, Typed, LoopType, HandlerType, UserType, ConnType, ServerType, loop,
                handler, conn, user, server
  <1> QED BY <1>1, <1>2, <1>3, <1>4, <1>5 DEF Next, Stopped

------------------------------------------------------------------------------
(* Where the loop is, or goes when it has sent what it has to send.         *)
Going(places) == pc \in places \/ (pc = "emit" /\ after \in places)

(* A loop that is about to select has a connection or a token to make one,  *)
(* the reader of a connection that is being dialed has not ended, and after *)
(* a fatal code the loop is on its way out.                                 *)
Connected == Going({"select", "retryTimer"}) /\ (srcClosed \/ sock = "closed") => reconnect
Fresh     == Going({"dial", "backoff"}) => ~srcClosed
Ended     == fatalSeen => sock # "open" /\ Going({"finalize", "exit", "idle"})

IInv == Typed /\ Connected /\ Fresh /\ Ended

LEMMA EmitGoes ==
  ASSUME NEW ops, NEW next, Emit(ops, next)
  PROVE  pc' = next \/ (pc' = "emit" /\ after' = next)
  BY DEF Emit

LEMMA OnOpGoes ==
  ASSUME NEW op, OnOp(op), pc = "select",
         \/ op.kind \notin Closing /\ UNCHANGED <<sock, srcClosed>>
         \/ op.kind \in Closing
  PROVE  /\ \/ pc' = "select" \/ pc' = "retryTimer"
            \/ pc' = "emit" /\ after' = "select"
         /\ \/ UNCHANGED <<reconnect, sock, srcClosed>>
            \/ reconnect'
  <1>1. CASE OnClose(op)
    BY <1>1, EmitGoes DEF OnClose, QueueReconnect
  <1>2. CASE OnHello(op)
    BY <1>2, EmitGoes DEF OnHello, QueueReconnect, Closing
  <1>3. CASE OnInvalidSession(op)
    BY <1>3, EmitGoes DEF OnInvalidSession, QueueReconnect, KeepHeart, Closing
  <1>4. CASE OnHeartbeatCommand(op)
    BY <1>4, EmitGoes
       DEF OnHeartbeatCommand, HeartbeatFails, HeartbeatSent, QueueReconnect, KeepHeart, Closing
  <1>5. CASE OnReconnect(op)
    BY <1>5, EmitGoes DEF OnReconnect, QueueReconnect
  <1>6. CASE OnEvent(op)
    BY <1>6, EmitGoes DEF OnEvent, KeepHeart, Dispatch, Closing
  <1> QED BY <1>1, <1>2, <1>3, <1>4, <1>5, <1>6 DEF OnOp

LEMMA ReceiveGoes == IInv /\ Receive => Connected' /\ Fresh' /\ Ended'
  <1> SUFFICES ASSUME IInv, NEW op, ReceiveOp(op) \/ ReceiveFatal(op)
               PROVE  Connected' /\ Fresh' /\ Ended'
    BY DEF Receive
  <1>1. /\ \/ op.kind \notin Closing /\ UNCHANGED <<sock, srcClosed>>
           \/ op.kind \in Closing /\ sock # "open" /\ UNCHANGED sock
        /\ pc = "select" /\ ~fatalSeen
    BY NextOpTyped DEF ReceiveOp, ReceiveFatal, IInv, Ended, Going
  <1>2. CASE ReceiveOp(op)
    <2>1. UNCHANGED fatalSeen /\ OnOp(op)
      BY <1>2 DEF ReceiveOp, user
    <2> QED BY <1>1, <2>1, OnOpGoes DEF IInv, Connected, Fresh, Ended, Going
  <1>3. CASE ReceiveFatal(op)
    <2>1. pc' = "finalize" \/ (pc' = "emit" /\ after' = "finalize")
      BY <1>3, EmitGoes DEF ReceiveFatal
    <2>2. sock' # "open"
      BY <1>1, <1>3 DEF ReceiveFatal, Closing
    <2> QED BY <2>1, <2>2 DEF Connected, Fresh, Ended, Going
  <1> QED BY <1>2, <1>3

LEMMA SpinGoes == IInv /\ spin => Connected' /\ Fresh' /\ Ended'
  <1> SUFFICES ASSUME IInv, spin PROVE Connected' /\ Fresh' /\ Ended'
    OBVIOUS
  <1> USE DEF IInv, Connected, Fresh, Ended, Going, loop, handler, conn, user, server
  <1>1. CASE CtxDone
    BY <1>1 DEF CtxDone
  <1>2. CASE Receive
    BY <1>2, ReceiveGoes
  <1>3. CASE Heartbeat
    <2>1. /\ pc' = "select" \/ (pc' = "emit" /\ after' = "select")
          /\ UNCHANGED reconnect \/ reconnect'
      BY <1>3, EmitGoes DEF Heartbeat, HeartbeatFails, HeartbeatSent, QueueReconnect
    <2> QED BY <1>3, <2>1 DEF Heartbeat
  <1>4. CASE Reconnect
    <2>1. pc' = "dial" \/ (pc' = "emit" /\ after' = "dial")
      BY <1>4, EmitGoes DEF Reconnect
    <2> QED BY <1>4, <2>1 DEF Reconnect
  <1>5. CASE DialOK
    BY <1>5 DEF DialOK
  <1>6. CASE DialFailed
    <2>1. \/ pc' \in {"backoff", "finalize"}
          \/ pc' = "emit" /\ after' \in {"backoff", "finalize"}
      BY <1>6, EmitGoes DEF DialFailed
    <2> QED BY <1>6, <2>1 DEF DialFailed
  <1>7. CASE Backoff
    <2>1. pc' \in {"dial", "finalize"} \/ (pc' = "emit" /\ after' \in {"dial", "finalize"})
      BY <1>7, EmitGoes DEF Backoff
    <2> QED BY <1>7, <2>1 DEF Backoff
  <1>8. CASE RetryIdentify
    <2>1. /\ pc' = "select" \/ (pc' = "emit" /\ after' = "select")
          /\ UNCHANGED reconnect \/ reconnect'
      BY <1>8, EmitGoes DEF RetryIdentify, KeepHeart, QueueReconnect
    <2> QED BY <1>8, <2>1 DEF RetryIdentify
  <1>9. CASE EmitNext
    BY <1>9 DEF EmitNext, Typed, LoopType, Afters
  <1>10. CASE Finalize
    <2>1. pc' = "exit" \/ (pc' = "emit" /\ after' = "exit")
      BY <1>10, EmitGoes DEF Finalize
    <2>2. sock' = "closed"
      BY <1>10 DEF Finalize, CloseConn
    <2> QED BY <1>10, <2>1, <2>2 DEF Finalize
  <1>11. CASE Exit
    BY <1>11 DEF Exit
  <1> QED BY <1>1, <1>2, <1>3, <1>4, <1>5, <1>6, <1>7, <1>8, <1>9, <1>10, <1>11 DEF spin

LEMMA InitInvariant == Init => IInv
  BY InitTyped DEF Init, IInv, Connected, Fresh, Ended, Going

LEMMA StepInvariant == IInv /\ [Next]_vars => IInv'
  <1> SUFFICES ASSUME IInv, [Next]_vars PROVE IInv'
    OBVIOUS
  <1>t. Typed'
    BY StepTyped DEF IInv
  <1>1. CASE Connect
    BY <1>1, <1>t DEF Connect, conn, IInv, Connected, Fresh, Ended, Going
  <1>2. CASE spin
    BY <1>2, <1>t, SpinGoes DEF IInv
  <1>3. CASE UNCHANGED <<pc, after, reconnect, srcClosed, fatalSeen>>
             /\ (sock' = sock \/ (sock = "open" /\ sock' = "lost"))
    BY <1>3, <1>t DEF IInv, Connected, Fresh, Ended, Going
  <1>4. CASE Cancel \/ Take \/ Tick \/ UNCHANGED vars
    BY <1>3, <1>4 DEF Cancel, Take, Tick, vars, loop, handler, conn, user, server
  <1>5. CASE Server
    BY <1>3, <1>5
       DEF Server, Reply, ServerHello, AcceptIdentify, AcceptResume, SendEvent, SendResumed,
           SendAck, Refuse, NewEvent, Ask, Drop, Mute, Rest, loop, handler, user, conn
  <1> QED BY <1>1, <1>2, <1>4, <1>5 DEF Next, Stopped

------------------------------------------------------------------------------
(* After a fatal close code (such as a token that is not accepted) the loop *)
(* never dials again and keeps no socket, however the faults of the network *)
(* and the user's calls interleave.                                         *)
THEOREM FatalCodesEnd == Spec => []FatalEnds
  <1>1. IInv => FatalEnds
    BY DEF IInv, Ended, Going, FatalEnds
  <1> QED BY <1>1, InitInvariant, StepInvariant, PTL DEF Spec

(* Whenever the loop selects, it has a connection whose reader runs or a    *)
(* reconnect is queued: it is never left polling a closed channel.          *)
THEOREM NeverInLimbo == Spec => []NoLimbo
  <1>1. IInv => NoLimbo
    BY DEF IInv, Connected, Going, NoLimbo
  <1> QED BY <1>1, InitInvariant, StepInvariant, PTL DEF Spec

------------------------------------------------------------------------------
(* The stream of events.  src holds a run of consecutive events of one      *)
(* session, which starts no later than where the reader of the channel is;  *)
(* what it repeats are events that cannot be decoded.                       *)
Streamed == {"ready", "event", "unknown"}
Numbered == Streamed \cup {"resumed"}
Turning  == {"hello", "invalid", "invalidResumable"}
Place    == [sid: Sessions \cup {None}, at: 0..MaxSeq]

(* An op that may be offered to a reader at g.                              *)
Fits(g, e) ==
    CASE e.kind = "ready" -> e.seq = 1 /\ e.sid # g.sid
      [] e.kind = "event" -> e.sid = g.sid /\ e.seq = g.at + 1
      [] OTHER            -> e.sid = g.sid /\ e.seq <= g.at + 1
Offers(g, op) == op.kind \in Streamed => op.sid # None /\ op.seq > 0 /\ Fits(g, op)

(* A connection that has come to p can go on for a reader at g: it repeats  *)
(* undecodable events at most, or it starts another session.                *)
Follows(g, p) == p.sid = g.sid /\ p.at <= g.at /\ (p.at + 1)..g.at \subseteq Undecodable
Joins(g, p) == Follows(g, p) \/ (p.sid # None /\ p.sid # g.sid /\ p.at = 0)

(* What an op does to the place of its connection.                          *)
Moves(p, op, q) ==
    IF op.kind \in Numbered
    THEN /\ op.sid = p.sid /\ q = [sid |-> op.sid, at |-> op.seq]
         /\ op.sid # None /\ op.seq > 0
         /\ IF op.kind = "resumed" THEN op.seq = p.at
            ELSE op.seq = p.at + 1 /\ op.kind = KindOf(op.seq)
    ELSE q = p

Path(s, q) == \A i \in 1..Len(s) : Moves(q[i - 1], s[i], q[i])
Joined(g, s, e) ==
    \E q \in [0..Len(s) -> Place] : Joins(g, q[0]) /\ Path(s, q) /\ q[Len(s)] = e

Quiet(s)   == \A i \in 1..Len(s) : s[i].kind \notin Numbered
Settled(s) == \A i \in 1..Len(s) : s[i].kind \notin Turning

LEMMA NonEmpty ==
  ASSUME NEW S, NEW s \in Seq(S), s # <<>>
  PROVE  Len(s) \in Nat /\ Len(s) > 0
  OBVIOUS

LEMMA OneOrTwo ==
  ASSUME NEW n \in Nat, n > 0
  PROVE  (n <= 1 => n = 1) /\ (n <= 2 => n \in 1..2)
  OBVIOUS

LEMMA JoinedTail ==
  ASSUME NEW s \in Seq(OpType), s # <<>>, NEW g, NEW e, Joined(g, s, e)
  PROVE  \E p, r \in Place :
            /\ Joins(g, p) /\ Moves(p, Head(s), r)
            /\ \A h : Joins(h, r) => Joined(h, Tail(s), e)
  <1>1. PICK q \in [0..Len(s) -> Place] : Joins(g, q[0]) /\ Path(s, q) /\ q[Len(s)] = e
    BY DEF Joined
  <1>2. Len(s) \in Nat /\ Len(s) > 0 /\ Len(Tail(s)) = Len(s) - 1 /\ Head(s) = s[1]
    OBVIOUS
  <1>3. q[0] \in Place /\ q[1] \in Place
    BY <1>2
  <1>4. Moves(q[0], Head(s), q[1])
    <2>1. Moves(q[1 - 1], s[1], q[1])
      BY <1>1, <1>2 DEF Path
    <2> QED BY <1>2, <2>1
  <1>5. ASSUME NEW h, Joins(h, q[1])
        PROVE  Joined(h, Tail(s), e)
    <2> DEFINE n == Len(s) - 1
               r == [i \in 0..n |-> q[i + 1]]
    <2>1. r \in [0..n -> Place] /\ r[0] = q[1] /\ r[n] = q[Len(s)]
      BY <1>2
    <2>2. ASSUME NEW i \in 1..n
          PROVE  Moves(r[i - 1], Tail(s)[i], r[i])
      <3>1. Tail(s)[i] = s[i + 1] /\ r[i - 1] = q[(i + 1) - 1] /\ r[i] = q[i + 1]
            /\ i + 1 \in 1..Len(s)
        BY <1>2
      <3> QED BY <3>1, <1>1 DEF Path
    <2> HIDE DEF r
    <2>3. Path(Tail(s), r)
      BY <2>2, <1>2 DEF Path
    <2> QED BY <1>1, <1>2, <1>5, <2>1, <2>3 DEF Joined
  <1> QED BY <1>1, <1>3, <1>4, <1>5

LEMMA JoinedAppend ==
  ASSUME NEW s \in Seq(OpType), NEW op \in OpType, NEW g, NEW e, NEW f \in Place,
         Joined(g, s, e), Moves(e, op, f)
  PROVE  Joined(g, Append(s, op), f)
  <1>1. PICK q \in [0..Len(s) -> Place] : Joins(g, q[0]) /\ Path(s, q) /\ q[Len(s)] = e
    BY DEF Joined
  <1> DEFINE n == Len(s) + 1
             r == [i \in 0..n |-> IF i = n THEN f ELSE q[i]]
             t == Append(s, op)
  <1>2. Len(s) \in Nat /\ Len(t) = n /\ t[n] = op /\ \A i \in 1..Len(s) : t[i] = s[i]
    OBVIOUS
  <1>3. r \in [0..n -> Place] /\ r[0] = q[0] /\ r[n] = f /\ r[n - 1] = e
    BY <1>1, <1>2
  <1>4. ASSUME NEW i \in 1..n
        PROVE  Moves(r[i - 1], t[i], r[i])
    <2>1. CASE i = n
      BY <1>2, <1>3, <2>1
    <2>2. CASE i # n
      <3>1. i \in 1..Len(s) /\ r[i - 1] = q[i - 1] /\ r[i] = q[i]
        BY <1>2, <2>2
      <3> QED BY <1>1, <1>2, <3>1 DEF Path
    <2> QED BY <2>1, <2>2
  <1> HIDE DEF r, t
  <1>5. Path(t, r)
    BY <1>2, <1>4 DEF Path
  <1>6. Joined(g, t, f)
    BY <1>1, <1>2, <1>3, <1>5 DEF Joined
  <1> QED BY <1>6 DEF t

LEMMA JoinedPrefix ==
  ASSUME NEW s \in Seq(OpType), NEW k \in 0..Len(s), NEW g, NEW e, Joined(g, s, e)
  PROVE  \E f \in Place : Joined(g, SubSeq(s, 1, k), f)
  <1>1. PICK q \in [0..Len(s) -> Place] : Joins(g, q[0]) /\ Path(s, q) /\ q[Len(s)] = e
    BY DEF Joined
  <1> DEFINE r == [i \in 0..k |-> q[i]]
             t == SubSeq(s, 1, k)
  <1>2. Len(s) \in Nat /\ Len(t) = k /\ \A i \in 1..k : t[i] = s[i]
    OBVIOUS
  <1>3. r \in [0..k -> Place] /\ r[0] = q[0] /\ r[k] \in Place
    BY <1>2
  <1>4. ASSUME NEW i \in 1..k
        PROVE  Moves(r[i - 1], t[i], r[i])
    <2>1. i \in 1..Len(s) /\ r[i - 1] = q[i - 1] /\ r[i] = q[i]
      BY <1>2
    <2> QED BY <1>1, <1>2, <2>1 DEF Path
  <1> HIDE DEF r, t
  <1>5. Path(t, r)
    BY <1>2, <1>4 DEF Path
  <1>6. Joined(g, t, r[k])
    BY <1>1, <1>2, <1>3, <1>5 DEF Joined
  <1> QED BY <1>3, <1>6 DEF t

LEMMA JoinedQuiet ==
  ASSUME NEW s \in Seq(OpType), Quiet(s), NEW g, NEW e \in Place, Joins(g, e)
  PROVE  Joined(g, s, e)
  <1> DEFINE q == [i \in 0..Len(s) |-> e]
  <1>1. q \in [0..Len(s) -> Place] /\ q[0] = e /\ q[Len(s)] = e
    OBVIOUS
  <1>2. ASSUME NEW i \in 1..Len(s)
        PROVE  Moves(q[i - 1], s[i], q[i])
    <2>1. q[i - 1] = e /\ q[i] = e
      OBVIOUS
    <2> QED BY <2>1 DEF Moves, Quiet
  <1> HIDE DEF q
  <1>3. Path(s, q)
    BY <1>2 DEF Path
  <1> QED BY <1>1, <1>3 DEF Joined

(* The reader has had the first event of its session.                       *)
Rooted(g) == g.sid # None => g.at > 0

(* What the next op of a connection means to its reader: it fits, and the   *)
(* rest of the connection goes on from there.                               *)
LEMMA ReadyFits ==
  ASSUME NEW g \in Place, NEW p \in Place, NEW r \in Place, NEW op \in OpType,
         op.kind = "ready", Rooted(g), Joins(g, p), Moves(p, op, r)
  PROVE  /\ op.seq = 1 /\ op.sid # None /\ op.sid # g.sid
         /\ Advance(g, op) = [sid |-> op.sid, at |-> 1]
         /\ r = [sid |-> op.sid, at |-> 1]
  <1>1. op.seq = p.at + 1 /\ KindOf(op.seq) = "ready" /\ op.sid = p.sid /\ op.sid # None
        /\ r = [sid |-> op.sid, at |-> op.seq]
    BY DEF Moves, Numbered, Streamed
  <1>2. op.seq = 1 /\ p.at = 0
    BY <1>1 DEF KindOf, Place
  <1>3. ~Follows(g, p)
    <2>1. CASE g.at = 0
      BY <1>1, <2>1 DEF Follows, Rooted
    <2>2. CASE g.at # 0
      <3>1. 1 \in (p.at + 1)..g.at /\ 1 \notin Undecodable
        BY <1>2, <2>2, ConstantsAssumption DEF Place
      <3> QED BY <3>1 DEF Follows
    <2> QED BY <2>1, <2>2
  <1>4. op.sid # g.sid
    BY <1>1, <1>3 DEF Joins
  <1> QED BY <1>1, <1>2, <1>4 DEF Advance

LEMMA EventFits ==
  ASSUME NEW g \in Place, NEW p \in Place, NEW r \in Place, NEW op \in OpType,
         op.kind = "event", Joins(g, p), Moves(p, op, r)
  PROVE  /\ op.seq = g.at + 1 /\ op.sid # None /\ op.sid = g.sid /\ op.seq > 0
         /\ Advance(g, op) = [sid |-> op.sid, at |-> op.seq]
         /\ r = [sid |-> op.sid, at |-> op.seq]
  <1>1. op.seq = p.at + 1 /\ KindOf(op.seq) = "event" /\ op.sid = p.sid /\ op.sid # None
        /\ r = [sid |-> op.sid, at |-> op.seq] /\ op.seq > 0
    BY DEF Moves, Numbered, Streamed
  <1>2. p.at # 0 /\ p.at + 1 \notin Undecodable
    BY <1>1 DEF KindOf, Place
  <1>3. Follows(g, p)
    BY <1>2 DEF Joins
  <1>4. p.at = g.at
    BY <1>2, <1>3 DEF Follows, Place
  <1> QED BY <1>1, <1>3, <1>4 DEF Advance, Follows

LEMMA UnknownFits ==
  ASSUME NEW g \in Place, NEW p \in Place, NEW r \in Place, NEW op \in OpType,
         op.kind = "unknown", Joins(g, p), Moves(p, op, r)
  PROVE  /\ op.seq <= g.at + 1 /\ op.sid # None /\ op.sid = g.sid /\ op.seq > 0
         /\ op.seq \in Undecodable
         /\ Advance(g, op) = [sid |-> g.sid, at |-> IF op.seq > g.at THEN op.seq ELSE g.at]
         /\ Follows(Advance(g, op), r)
         /\ \A h \in Place : Follows(g, h) => Follows(Advance(g, op), h)
  <1>1. op.seq = p.at + 1 /\ KindOf(op.seq) = "unknown" /\ op.sid = p.sid /\ op.sid # None
        /\ r = [sid |-> op.sid, at |-> op.seq] /\ op.seq > 0
    BY DEF Moves, Numbered, Streamed
  <1>2. p.at # 0 /\ op.seq \in Undecodable /\ op.seq \in Nat
    BY <1>1 DEF KindOf, Place
  <1>3. Follows(g, p)
    BY <1>2 DEF Joins
  <1>4. op.seq <= g.at + 1 /\ op.sid = g.sid
    BY <1>1, <1>3 DEF Follows, Place
  <1> DEFINE n == IF op.seq > g.at THEN op.seq ELSE g.at
  <1>5. Advance(g, op) = [sid |-> g.sid, at |-> n]
    BY DEF Advance, Place
  <1>6. n \in Nat /\ n >= op.seq /\ n >= g.at /\ \A i \in Int : i > g.at /\ i <= n => i = op.seq
    BY <1>2, <1>4 DEF Place
  <1> HIDE DEF n
  <1>7. Follows(Advance(g, op), r)
    BY <1>1, <1>2, <1>3, <1>4, <1>5, <1>6 DEF Follows, Place
  <1>8. ASSUME NEW h \in Place, Follows(g, h) PROVE Follows(Advance(g, op), h)
    BY <1>2, <1>5, <1>6, <1>8 DEF Follows, Place
  <1> QED BY <1>1, <1>2, <1>4, <1>5, <1>7, <1>8 DEF n

LEMMA ResumedFits ==
  ASSUME NEW g \in Place, NEW p \in Place, NEW r \in Place, NEW op \in OpType,
         op.kind = "resumed", Joins(g, p), Moves(p, op, r)
  PROVE  /\ op.sid # None /\ op.sid = g.sid /\ op.seq > 0
         /\ Advance(g, op) = g
         /\ r = [sid |-> op.sid, at |-> op.seq]
         /\ Follows(g, r)
  <1>1. op.seq = p.at /\ op.sid = p.sid /\ op.sid # None
        /\ r = [sid |-> op.sid, at |-> op.seq] /\ op.seq > 0
    BY DEF Moves, Numbered, Streamed
  <1>2. Follows(g, p)
    BY <1>1 DEF Joins
  <1> QED BY <1>1, <1>2 DEF Advance, Follows

(* A connection turns when it greets or refuses: nothing of a session is    *)
(* behind that on its way until the loop has answered.                      *)
Turned(s) ==
    \A i \in 1..Len(s) : s[i].kind \in Turning =>
        \A j \in (i + 1)..Len(s) : s[j].kind \notin Numbered \cup Turning

LEMMA TurnedTail ==
  ASSUME NEW s \in Seq(OpType), s # <<>>, Turned(s)
  PROVE  /\ Turned(Tail(s))
         /\ Quiet(s) => Quiet(Tail(s))
         /\ Settled(s) => Settled(Tail(s)) /\ Head(s).kind \notin Turning
         /\ Head(s).kind \in Turning => Quiet(Tail(s)) /\ Settled(Tail(s))
  <1>1. /\ Len(s) \in Nat /\ Len(s) > 0 /\ Len(Tail(s)) = Len(s) - 1 /\ Head(s) = s[1]
        /\ \A i \in 1..Len(Tail(s)) : Tail(s)[i] = s[i + 1]
    OBVIOUS
  <1>2. \A i \in 1..Len(Tail(s)) : i + 1 \in 1..Len(s)
    BY <1>1
  <1>3. PICK t : t = Tail(s)
    OBVIOUS
  <1>4. Turned(t)
    <2>1. ASSUME NEW i \in 1..Len(t), t[i].kind \in Turning, NEW j \in (i + 1)..Len(t)
          PROVE  t[j].kind \notin Numbered \cup Turning
      <3>1. s[i + 1].kind \in Turning /\ i + 1 \in 1..Len(s)
        BY <1>1, <1>2, <1>3, <2>1
      <3>2. j + 1 \in (i + 1 + 1)..Len(s) /\ t[j] = s[j + 1]
        BY <1>1, <1>3
      <3> QED BY <3>1, <3>2 DEF Turned
    <2> QED BY <2>1 DEF Turned
  <1>5. Quiet(s) => Quiet(t)
    BY <1>1, <1>2, <1>3 DEF Quiet
  <1>6. Settled(s) => Settled(t) /\ Head(s).kind \notin Turning
    BY <1>1, <1>2, <1>3 DEF Settled
  <1>7. ASSUME Head(s).kind \in Turning
        PROVE  Quiet(t) /\ Settled(t)
    <2>1. \A i \in 1..Len(t) : i + 1 \in (1 + 1)..Len(s) /\ t[i] = s[i + 1]
      BY <1>1, <1>3
    <2>2. 1 \in 1..Len(s) /\ s[1].kind \in Turning
      BY <1>1, <1>7
    <2>3. \A j \in (1 + 1)..Len(s) : s[j].kind \notin Numbered \cup Turning
      BY <2>2 DEF Turned
    <2> QED BY <2>1, <2>3 DEF Quiet, Settled
  <1> QED BY <1>3, <1>4, <1>5, <1>6, <1>7

LEMMA TurnedAppend ==
  ASSUME NEW s \in Seq(OpType), NEW op \in OpType, Turned(s),
         Settled(s) \/ op.kind \notin Numbered \cup Turning
  PROVE  /\ Turned(Append(s, op))
         /\ Quiet(s) /\ op.kind \notin Numbered => Quiet(Append(s, op))
         /\ Settled(s) /\ op.kind \notin Turning => Settled(Append(s, op))
  <1>1. PICK t : t = Append(s, op)
    OBVIOUS
  <1>2. Len(s) \in Nat /\ Len(t) = Len(s) + 1 /\ t[Len(t)] = op /\ \A i \in 1..Len(s) : t[i] = s[i]
    BY <1>1
  <1>3. Turned(t)
    <2>1. ASSUME NEW i \in 1..Len(t), t[i].kind \in Turning, NEW j \in (i + 1)..Len(t)
          PROVE  t[j].kind \notin Numbered \cup Turning
      <3>1. i \in 1..Len(s) /\ s[i].kind \in Turning
        BY <1>2, <2>1
      <3>2. CASE j = Len(t)
        BY <1>2, <3>1, <3>2 DEF Settled
      <3>3. CASE j # Len(t)
        <4>1. j \in (i + 1)..Len(s) /\ t[j] = s[j]
          BY <1>2, <3>3
        <4> QED BY <3>1, <4>1 DEF Turned
      <3> QED BY <3>2, <3>3
    <2> QED BY <2>1 DEF Turned
  <1>4. \A i \in 1..Len(t) : i = Len(t) \/ i \in 1..Len(s)
    BY <1>2
  <1> QED BY <1>1, <1>2, <1>3, <1>4 DEF Quiet, Settled

LEMMA TurnedPrefix ==
  ASSUME NEW s \in Seq(OpType), NEW k \in 0..Len(s), Turned(s)
  PROVE  /\ Turned(SubSeq(s, 1, k))
         /\ Quiet(s) => Quiet(SubSeq(s, 1, k))
         /\ Settled(s) => Settled(SubSeq(s, 1, k))
  <1>1. PICK t : t = SubSeq(s, 1, k)
    OBVIOUS
  <1>2. Len(t) = k /\ \A i \in 1..k : i \in 1..Len(s) /\ t[i] = s[i]
    BY <1>1
  <1>3. \A i \in 1..k : (i + 1)..k \subseteq (i + 1)..Len(s)
    OBVIOUS
  <1>4. Turned(t)
    <2>1. ASSUME NEW i \in 1..Len(t), t[i].kind \in Turning, NEW j \in (i + 1)..Len(t)
          PROVE  t[j].kind \notin Numbered \cup Turning
      <3>1. s[i].kind \in Turning /\ i \in 1..Len(s) /\ j \in (i + 1)..Len(s) /\ t[j] = s[j]
        BY <1>2, <1>3, <2>1
      <3> QED BY <3>1 DEF Turned
    <2> QED BY <2>1 DEF Turned
  <1> QED BY <1>1, <1>2, <1>4 DEF Quiet, Settled

------------------------------------------------------------------------------
(* What is in the channel, and what the loop is about to send, fits the     *)
(* reader; only the last thing the loop sends at a time is of the stream.   *)
Pending ==
    /\ pc \notin {"emit", "retryTimer"} => todo = <<>>
    /\ pc = "retryTimer" => todo[1].kind \notin Streamed
    /\ \A i \in 1..Len(outer) : Offers(got, outer[i])
    /\ \A i \in 1..Len(todo) : Offers(Reached, todo[i])
    /\ \A i \in 1..Len(todo) : i # Len(todo) => todo[i].kind \notin Streamed

LEMMA AdvanceTyped ==
  ASSUME NEW g \in Place, NEW op \in OpType
  PROVE  Advance(g, op) \in Place
  BY DEF Advance, Place, OpType

LEMMA AdvancePlain ==
  ASSUME NEW g \in Place, NEW op, op.kind \notin Streamed
  PROVE  Advance(g, op) = g
  BY DEF Advance, Streamed

LEMMA AdvanceAtTyped ==
  ASSUME NEW g \in Place, NEW s \in Seq(OpType), NEW i
  PROVE  AdvanceAt(g, s, i) \in Place
  BY AdvanceTyped DEF AdvanceAt

LEMMA SeenTyped ==
  ASSUME Typed
  PROVE  Reached \in Place /\ Seen \in Place
  <1>1. got \in Place /\ outer \in Seq(OpType) /\ todo \in Seq(OpType)
    BY DEF Typed, UserType, LoopType, Place
  <1> QED BY <1>1, AdvanceAtTyped DEF Reached, Seen

LEMMA SeenKept ==
  ASSUME UNCHANGED <<got, outer, todo>>
  PROVE  Reached' = Reached /\ Seen' = Seen
  BY DEF Reached, Seen, AdvanceAt

LEMMA PendingKept ==
  ASSUME Pending, UNCHANGED <<got, outer, todo>>,
         pc' = pc \/ (pc \notin {"emit", "retryTimer"} /\ pc' \notin {"emit", "retryTimer"})
  PROVE  Pending'
  BY SeenKept DEF Pending

(* The loop starts to send ops and goes on to next.                         *)
LEMMA Emits ==
  ASSUME Typed, Pending, NEW ops \in Seq(OpType), NEW next \in Afters, Emit(ops, next),
         ops = <<>> => todo = <<>>, UNCHANGED <<outer, got>>,
         \A i \in 1..Len(ops) : Offers(Reached, ops[i]),
         \A i \in 1..Len(ops) : i # Len(ops) => ops[i].kind \notin Streamed
  PROVE  /\ Pending'
         /\ todo' = ops
         /\ Reached' = Reached
         /\ Seen' = AdvanceAt(AdvanceAt(Reached, ops, 1), ops, 2)
  <1>1. todo' = ops /\ pc' \in {next, "emit"} /\ (ops # <<>> => pc' = "emit")
    BY DEF Emit
  <1>2. Reached' = Reached
    BY DEF Reached, AdvanceAt
  <1>3. pc' # "retryTimer"
    BY <1>1 DEF Afters
  <1>4. Pending'
    BY <1>1, <1>2, <1>3 DEF Pending
  <1>5. Seen' = AdvanceAt(AdvanceAt(Reached', todo', 1), todo', 2)
    BY DEF Seen, Reached, AdvanceAt
  <1> QED BY <1>1, <1>2, <1>4, <1>5

LEMMA EmitsNothing ==
  ASSUME Typed, Pending, pc \notin {"emit", "retryTimer"}, NEW next \in Afters,
         Emit(<<>>, next) \/ Emit(<<Error>>, next), UNCHANGED <<outer, got>>
  PROVE  Pending' /\ Seen' = Seen
  <1>1. todo = <<>> /\ Seen = Reached
    BY DEF Pending, Seen, AdvanceAt
  <1>2. CASE Emit(<<>>, next)
    <2>1. PICK ops : ops = <<>>
      OBVIOUS
    <2>2. ops \in Seq(OpType) /\ Emit(ops, next) /\ DOMAIN ops = {}
          /\ \A i \in 1..Len(ops) : FALSE
      BY <1>2, <2>1
    <2>3. Pending' /\ Seen' = AdvanceAt(AdvanceAt(Reached, ops, 1), ops, 2)
      BY <1>1, <2>2, Emits
    <2> QED BY <1>1, <2>2, <2>3 DEF AdvanceAt
  <1>3. CASE Emit(<<Error>>, next)
    <2>1. Error.kind \notin Streamed
      BY DEF Error, Plain, Op, Streamed
    <2>2. PICK ops : ops = <<Error>>
      OBVIOUS
    <2>3. /\ ops \in Seq(OpType) /\ Emit(ops, next) /\ DOMAIN ops = {1} /\ ops # <<>>
          /\ \A i \in 1..Len(ops) : i = Len(ops) /\ ops[i] = Error
          /\ ops[1] = Error
      BY <1>3, <2>2, ErrorTyped
    <2>4. Pending' /\ Seen' = AdvanceAt(AdvanceAt(Reached, ops, 1), ops, 2)
      <3>1. \A i \in 1..Len(ops) : Offers(Reached, ops[i])
        BY <2>1, <2>3 DEF Offers
      <3> QED BY <2>3, <3>1, Emits
    <2>5. AdvanceAt(Reached, ops, 1) = Reached
      BY <2>1, <2>3, SeenTyped, AdvancePlain DEF AdvanceAt
    <2> QED BY <1>1, <2>3, <2>4, <2>5 DEF AdvanceAt
  <1> QED BY <1>2, <1>3

LEMMA EmitsOne ==
  ASSUME Typed, Pending, NEW op \in OpType, Offers(Reached, op),
         \/ Emit(<<op>>, "select") \/ Emit(<<Error, op>>, "select")
         \/ Emit(<<op>>, "finalize"),
         UNCHANGED <<outer, got>>
  PROVE  Pending' /\ Seen' = Advance(Reached, op)
  <1>0. "select" \in Afters /\ "finalize" \in Afters
    BY DEF Afters
  <1>1. CASE Emit(<<op>>, "select") \/ Emit(<<op>>, "finalize")
    <2>1. <<op>> \in Seq(OpType) /\ Len(<<op>>) = 1 /\ <<op>>[1] = op
      OBVIOUS
    <2>2. /\ \A i \in 1..Len(<<op>>) : Offers(Reached, <<op>>[i])
          /\ \A i \in 1..Len(<<op>>) : i = Len(<<op>>)
      BY <2>1
    <2>3. Pending' /\ Seen' = AdvanceAt(AdvanceAt(Reached, <<op>>, 1), <<op>>, 2)
      BY <1>0, <1>1, <2>1, <2>2, Emits
    <2> QED BY <2>1, <2>3 DEF AdvanceAt
  <1>2. CASE Emit(<<Error, op>>, "select")
    <2>1. PICK ops : ops = <<Error, op>>
      OBVIOUS
    <2>2. ops \in Seq(OpType) /\ Len(ops) = 2 /\ ops[1] = Error /\ ops[2] = op
          /\ DOMAIN ops = 1..2
      BY <2>1, ErrorTyped
    <2>3. Error.kind \notin Streamed
      BY DEF Error, Plain, Op, Streamed
    <2>4. /\ \A i \in 1..Len(ops) : Offers(Reached, ops[i])
          /\ \A i \in 1..Len(ops) : i # Len(ops) => ops[i].kind \notin Streamed
      BY <2>2, <2>3 DEF Offers
    <2>5. Pending' /\ Seen' = AdvanceAt(AdvanceAt(Reached, ops, 1), ops, 2)
      BY <1>0, <1>2, <2>1, <2>2, <2>4, Emits
    <2>6. AdvanceAt(Reached, ops, 1) = Reached
      BY <2>2, <2>3, SeenTyped, AdvancePlain DEF AdvanceAt
    <2> QED BY <2>2, <2>5, <2>6 DEF AdvanceAt
  <1> QED BY <1>1, <1>2

------------------------------------------------------------------------------
(* The invariant: what the server may be doing while the loop is where it   *)
(* is, that src goes on where the reader is, and what the handler holds.    *)
Greeting == {"greet", "identify", "resume"}

Phases ==
    /\ Turned(src)
    /\ sock # "open" => srv = "none"
    /\ Going({"dial", "backoff"}) => src = <<>> /\ sock = "closed"
    /\ srv \in Greeting => Quiet(src)
    /\ srv \in Greeting \cup {"live"} => pc # "retryTimer" /\ Settled(src)
    /\ pc = "retryTimer" => Quiet(src) /\ Settled(src)
    /\ srv = "resume" => pos > 0
    /\ resumedOwed => srv \in {"live", "mute"} /\ pos > 0
    /\ ~started => pc = "idle"

Continuous ==
    \E e \in Place :
        /\ Joined(Seen, src, e)
        /\ srv \in {"resume", "live"} => e = [sid |-> on, at |-> pos]

Held ==
    /\ Rooted(Seen)
    /\ sessionID # None =>
           sequence > 0 /\ Follows(Seen, [sid |-> sessionID, at |-> sequence])

StreamInv == Typed /\ Phases /\ Pending /\ Continuous /\ Held

LEMMA SrcTyped ==
  ASSUME Typed
  PROVE  src \in Seq(OpType)
  <1>1. src \in Seq(Arriving) /\ Arriving \subseteq OpType
    BY DEF Typed, ConnType, Arriving
  <1> QED BY <1>1

LEMMA ContinuousKept ==
  ASSUME Continuous, UNCHANGED src, Seen' = Seen,
         srv' \in {"resume", "live"} =>
             srv \in {"resume", "live"} /\ on' = on /\ pos' = pos
  PROVE  Continuous'
  BY DEF Continuous

LEMMA ContinuousCut ==
  ASSUME Typed, Continuous, Phases, NEW k \in 0..Len(src), src' = SubSeq(src, 1, k), Seen' = Seen,
         srv' = "none"
  PROVE  Continuous' /\ Turned(src')
  <1>1. PICK e \in Place : Joined(Seen, src, e)
    BY DEF Continuous
  <1>2. PICK f \in Place : Joined(Seen, SubSeq(src, 1, k), f)
    BY <1>1, SrcTyped, JoinedPrefix
  <1>3. Turned(SubSeq(src, 1, k))
    BY SrcTyped, TurnedPrefix DEF Phases
  <1> QED BY <1>2, <1>3 DEF Continuous

LEMMA HeldKept ==
  ASSUME Held, Seen' = Seen, UNCHANGED <<sessionID, sequence>> \/ sessionID' = None
  PROVE  Held'
  BY DEF Held, Rooted, Follows

(* Ops that are no events of a session.                                     *)
LEMMA PushPlain ==
  ASSUME Typed, Phases, Continuous, Room, NEW op \in Arriving, op.kind \notin Numbered, Push(op),
         Seen' = Seen,
         srv' \in {"resume", "live"} =>
             srv \in {"resume", "live"} /\ on' = on /\ pos' = pos,
         op.kind \in Turning => Settled(src)
  PROVE  /\ Continuous' /\ Turned(src')
         /\ Quiet(src) => Quiet(src')
         /\ Settled(src) /\ op.kind \notin Turning => Settled(src')
  <1>1. op \in OpType /\ src \in Seq(OpType) /\ src' = Append(src, op)
    BY SrcTyped DEF Arriving, Push
  <1>2. PICK e \in Place :
           /\ Joined(Seen, src, e)
           /\ srv \in {"resume", "live"} => e = [sid |-> on, at |-> pos]
    BY DEF Continuous
  <1>3. Moves(e, op, e)
    BY DEF Moves
  <1>4. Joined(Seen, Append(src, op), e)
    BY <1>1, <1>2, <1>3, JoinedAppend
  <1>5. Continuous'
    BY <1>1, <1>2, <1>4 DEF Continuous
  <1>6. Settled(src) \/ op.kind \notin Numbered \cup Turning
    OBVIOUS
  <1> QED BY <1>1, <1>5, <1>6, TurnedAppend DEF Phases

LEMMA SeenInUse ==
  ASSUME Typed
  PROVE  Seen.sid \in InUse
  <1>1. ASSUME NEW g \in Place, NEW op \in OpType
        PROVE  Advance(g, op).sid \in {g.sid, op.sid}
    BY DEF Advance, Place, OpType
  <1>2. ASSUME NEW g \in Place, NEW s \in Seq(OpType), NEW i
        PROVE  AdvanceAt(g, s, i).sid \in {g.sid} \cup {s[j].sid : j \in DOMAIN s}
    <2>1. CASE i \in DOMAIN s
      <3>1. s[i] \in OpType
        BY <2>1
      <3> QED BY <1>1, <2>1, <3>1 DEF AdvanceAt
    <2> QED BY <2>1 DEF AdvanceAt
  <1>3. got \in Place /\ outer \in Seq(OpType) /\ todo \in Seq(OpType)
    BY DEF Typed, UserType, LoopType, Place
  <1>4. Reached \in Place /\ AdvanceAt(Reached, todo, 1) \in Place
    BY <1>3, SeenTyped, AdvanceAtTyped
  <1>5. Seen.sid \in {Reached.sid} \cup {todo[j].sid : j \in DOMAIN todo}
    BY <1>2, <1>3, <1>4 DEF Seen
  <1>6. Reached.sid \in {got.sid} \cup {outer[j].sid : j \in DOMAIN outer}
    BY <1>2, <1>3 DEF Reached
  <1> QED BY <1>5, <1>6 DEF InUse

(* The server's steps.                                                      *)
LEMMA RestKeeps ==
  ASSUME StreamInv, UNCHANGED Rest
  PROVE  /\ Pending' /\ Held' /\ Seen' = Seen
         /\ UNCHANGED <<pc, after, sock, todo, started>>
         /\ Going({"dial", "backoff"})' = Going({"dial", "backoff"})
  <1>1. UNCHANGED <<pc, after, sock, todo, got, outer, sessionID, sequence, started>>
    BY DEF Rest, loop, handler, user
  <1>2. Seen' = Seen
    BY <1>1, SeenKept
  <1> QED BY <1>1, <1>2, PendingKept, HeldKept DEF StreamInv, Going

LEMMA ReplyStream ==
  ASSUME StreamInv, Reply
  PROVE  Phases' /\ Pending' /\ Continuous' /\ Held'
  <1>0. UNCHANGED Rest
    BY DEF Reply, ServerHello, AcceptIdentify, AcceptResume, SendEvent, SendResumed, SendAck
  <1>k. /\ Pending' /\ Held' /\ Seen' = Seen
        /\ UNCHANGED <<pc, after, sock, todo, started>>
        /\ Going({"dial", "backoff"})' = Going({"dial", "backoff"})
    BY <1>0, RestKeeps
  <1>i. Typed /\ Phases /\ Pending /\ Continuous /\ Held
    BY DEF StreamInv
  <1>1. CASE ServerHello
    <2>1. /\ Plain("hello") \in Arriving /\ Plain("hello").kind = "hello"
          /\ "hello" \in Turning /\ "hello" \notin Numbered
      BY PlainTyped DEF OpKinds, Closing, Plain, Op, Turning, Numbered, Streamed
    <2>2. /\ srv = "greet" /\ Room /\ Push(Plain("hello")) /\ srv' = "wait"
          /\ UNCHANGED <<on, pos, resumedOwed>> /\ sock = "open" /\ Settled(src)
      BY <1>1, <1>i DEF ServerHello, Room, Phases, Greeting
    <2>3. Continuous' /\ Turned(src')
      BY <1>i, <1>k, <2>1, <2>2, PushPlain
    <2> QED BY <1>i, <1>k, <2>2, <2>3 DEF Phases, Greeting
  <1>2. CASE AcceptIdentify
    <2>1. PICK s \in Sessions \ InUse : on' = s
      BY <1>2 DEF AcceptIdentify
    <2>2. srv = "identify" /\ sock = "open" /\ pos' = 0 /\ srv' = "live"
          /\ UNCHANGED <<src, resumedOwed>>
      BY <1>2 DEF AcceptIdentify
    <2>3. [sid |-> s, at |-> 0] \in Place /\ Joins(Seen, [sid |-> s, at |-> 0])
      BY <1>i, SeenInUse, ConstantsAssumption DEF Place, Joins
    <2>4. Quiet(src)
      BY <1>i, <2>2 DEF Phases, Greeting
    <2>5. Joined(Seen, src, [sid |-> s, at |-> 0])
      BY <1>i, <2>3, <2>4, SrcTyped, JoinedQuiet
    <2>6. Continuous'
      BY <1>k, <2>1, <2>2, <2>3, <2>5 DEF Continuous
    <2> QED BY <1>i, <1>k, <2>2, <2>6 DEF Phases, Greeting
  <1>3. CASE AcceptResume
    <2>1. srv = "resume" /\ sock = "open" /\ srv' = "live" /\ UNCHANGED <<src, on, pos>>
      BY <1>3 DEF AcceptResume
    <2>2. Continuous'
      BY <1>i, <1>k, <2>1, ContinuousKept
    <2> QED BY <1>i, <1>k, <2>1, <2>2 DEF Phases, Greeting
  <1>4. CASE SendEvent
    <2>1. /\ srv = "live" /\ sock = "open" /\ src' = Append(src, Op(KindOf(pos + 1), on, pos + 1))
          /\ pos' = pos + 1 /\ UNCHANGED <<srv, on, resumedOwed>>
      BY <1>4 DEF SendEvent, Room, Push
    <2>2. on \in Sessions /\ pos \in Nat /\ pos + 1 \in 0..MaxSeq /\ on # None
      BY <1>4, <1>i, ConstantsAssumption DEF SendEvent, Typed, ServerType
    <2>3. PICK op : op = Op(KindOf(pos + 1), on, pos + 1)
      OBVIOUS
    <2>4. /\ op.kind \in Streamed /\ op.sid = on /\ op.seq = pos + 1 /\ op.kind = KindOf(op.seq)
          /\ op \in OpType
      BY <2>2, <2>3 DEF Op, KindOf, Streamed, OpType, OpKinds
    <2>5. PICK e \in Place : Joined(Seen, src, e) /\ e = [sid |-> on, at |-> pos]
      BY <1>i, <2>1 DEF Continuous
    <2> DEFINE f == [sid |-> on, at |-> pos + 1]
    <2>6. f \in Place /\ Moves(e, op, f)
      BY <2>2, <2>4, <2>5 DEF Moves, Place, Numbered, Streamed
    <2>7. Joined(Seen, src', f)
      BY <1>i, <2>1, <2>3, <2>4, <2>5, <2>6, SrcTyped, JoinedAppend
    <2>8. Continuous'
      BY <1>k, <2>1, <2>6, <2>7 DEF Continuous
    <2>9. Turned(src') /\ Settled(src')
      <3>1. Settled(src) /\ Turned(src) /\ op.kind \notin Turning
        BY <1>i, <2>1, <2>4 DEF Phases, Greeting, Turning, Streamed
      <3> QED BY <1>i, <2>1, <2>3, <2>4, <3>1, SrcTyped, TurnedAppend
    <2>10. pc # "retryTimer"
      BY <1>i, <2>1 DEF Phases
    <2> QED BY <1>i, <1>k, <2>1, <2>2, <2>8, <2>9, <2>10 DEF Phases, Greeting
  <1>5. CASE SendResumed
    <2>1. /\ srv = "live" /\ sock = "open" /\ src' = Append(src, Op("resumed", on, pos))
          /\ UNCHANGED <<srv, on, pos>> /\ resumedOwed' = FALSE /\ pos > 0
      BY <1>5, <1>i DEF SendResumed, Room, Push, Phases
    <2>2. on \in Sessions /\ pos \in 0..MaxSeq /\ on # None
      BY <2>1, <1>i, ConstantsAssumption DEF Typed, ServerType
    <2>3. PICK op : op = Op("resumed", on, pos)
      OBVIOUS
    <2>4. op.kind = "resumed" /\ op.sid = on /\ op.seq = pos /\ op \in OpType
      BY <2>2, <2>3 DEF Op, OpType, OpKinds
    <2>5. PICK e \in Place : Joined(Seen, src, e) /\ e = [sid |-> on, at |-> pos]
      BY <1>i, <2>1 DEF Continuous
    <2>6. Moves(e, op, e)
      BY <2>1, <2>2, <2>4, <2>5 DEF Moves, Numbered, Streamed
    <2>7. Joined(Seen, src', e)
      BY <1>i, <2>1, <2>3, <2>4, <2>5, <2>6, SrcTyped, JoinedAppend
    <2>8. Continuous'
      BY <1>k, <2>1, <2>5, <2>7 DEF Continuous
    <2>9. Turned(src') /\ Settled(src')
      <3>1. Settled(src) /\ Turned(src) /\ op.kind \notin Turning
        BY <1>i, <2>1, <2>4 DEF Phases, Greeting, Turning
      <3> QED BY <1>i, <2>1, <2>3, <2>4, <3>1, SrcTyped, TurnedAppend
    <2> QED BY <1>i, <1>k, <2>1, <2>8, <2>9 DEF Phases, Greeting
  <1>6. CASE SendAck
    <2>1. /\ Plain("ack") \in Arriving /\ Plain("ack").kind = "ack"
          /\ "ack" \notin Turning /\ "ack" \notin Numbered
      BY PlainTyped DEF OpKinds, Closing, Plain, Op, Turning, Numbered, Streamed
    <2>2. Room /\ Push(Plain("ack")) /\ UNCHANGED <<srv, on, pos, resumedOwed>> /\ sock = "open"
      BY <1>6 DEF SendAck, Room
    <2>3. /\ Continuous' /\ Turned(src')
          /\ Quiet(src) => Quiet(src')
          /\ Settled(src) => Settled(src')
      BY <1>i, <1>k, <2>1, <2>2, PushPlain
    <2> QED BY <1>i, <1>k, <2>2, <2>3 DEF Phases
  <1> QED BY <1>k, <1>1, <1>2, <1>3, <1>4, <1>5, <1>6 DEF Reply

LEMMA ServerStream ==
  ASSUME StreamInv, Server
  PROVE  Phases' /\ Pending' /\ Continuous' /\ Held'
  <1>i. Typed /\ Phases /\ Pending /\ Continuous /\ Held
    BY DEF StreamInv
  <1>1. CASE Reply
    BY <1>1, ReplyStream
  <1>2. CASE Refuse \/ Ask
    <2>1. PICK kind \in {"invalid", "invalidResumable", "reconnect", "request"} :
             /\ Push(Plain(kind)) /\ Room /\ UNCHANGED <<Rest, on, pos>>
             /\ \/ /\ srv \in {"identify", "resume", "live"} /\ srv' = "wait" /\ ~resumedOwed'
                \/ /\ srv = "live" /\ UNCHANGED <<srv, resumedOwed>>
                   /\ kind \in {"reconnect", "request"}
      BY <1>2 DEF Refuse, Ask
    <2>2. /\ Plain(kind) \in Arriving /\ Plain(kind).kind = kind /\ kind \notin Numbered
          /\ kind \in {"reconnect", "request"} => kind \notin Turning
      BY PlainTyped DEF OpKinds, Closing, Plain, Op, Turning, Numbered, Streamed
    <2>3. Settled(src) /\ sock = "open"
      BY <1>i, <2>1 DEF Phases, Greeting, Room
    <2>4. /\ Pending' /\ Held' /\ Seen' = Seen
          /\ UNCHANGED <<pc, after, sock, todo, started>>
          /\ Going({"dial", "backoff"})' = Going({"dial", "backoff"})
      BY <2>1, RestKeeps
    <2>5. /\ Continuous' /\ Turned(src')
          /\ kind \notin Turning => Settled(src')
      BY <1>i, <2>1, <2>2, <2>3, <2>4, PushPlain
    <2> QED BY <1>i, <2>1, <2>2, <2>3, <2>4, <2>5 DEF Phases, Greeting
  <1>3. CASE NewEvent \/ Mute
    <2>1. /\ UNCHANGED <<Rest, src, on, pos, resumedOwed>>
          /\ srv' = srv \/ (srv' = "mute" /\ srv # "none")
      BY <1>3 DEF NewEvent, Mute
    <2>2. /\ Pending' /\ Held' /\ Seen' = Seen
          /\ UNCHANGED <<pc, after, sock, todo, started>>
          /\ Going({"dial", "backoff"})' = Going({"dial", "backoff"})
      BY <2>1, RestKeeps
    <2>3. Continuous'
      BY <1>i, <2>1, <2>2, ContinuousKept
    <2> QED BY <1>i, <2>1, <2>2, <2>3 DEF Phases, Greeting
  <1>4. CASE Drop
    <2>1. PICK k \in 0..Len(src) : src' = SubSeq(src, 1, k)
      BY <1>4 DEF Drop
    <2>2. /\ sock = "open" /\ sock' = "lost" /\ srv' = "none" /\ resumedOwed' = FALSE
          /\ UNCHANGED <<pc, after, todo, got, outer, sessionID, sequence, started>>
      BY <1>4 DEF Drop, Forget, loop, handler, user
    <2>3. Pending' /\ Held' /\ Seen' = Seen
      BY <1>i, <2>2, SeenKept, PendingKept, HeldKept
    <2>4. Continuous' /\ Turned(src')
      BY <1>i, <2>1, <2>2, <2>3, ContinuousCut
    <2>5. (Quiet(src) => Quiet(src')) /\ (Settled(src) => Settled(src'))
      BY <1>i, <2>1, SrcTyped, TurnedPrefix DEF Phases
    <2> QED BY <1>i, <2>2, <2>3, <2>4, <2>5 DEF Phases, Greeting, Going
  <1> QED BY <1>1, <1>2, <1>3, <1>4 DEF Server

(* The user's steps, and time.                                              *)
LEMMA TakeStream ==
  ASSUME StreamInv, Take
  PROVE  Phases' /\ Pending' /\ Continuous' /\ Held'
  <1>i. Typed /\ Phases /\ Pending /\ Continuous /\ Held
    BY DEF StreamInv
  <1>1. /\ outer # <<>> /\ outer' = Tail(outer) /\ got' = Advance(got, Head(outer))
        /\ UNCHANGED <<pc, after, sock, todo, started, src, sessionID, sequence, srv, on, pos,
                       resumedOwed>>
    BY DEF Take, loop, handler, conn, server
  <1>2. outer \in Seq(OpType) /\ Len(outer) <= 1
    BY <1>i DEF Typed, UserType
  <1>3. outer' = <<>> /\ DOMAIN outer = {1} /\ Head(outer) = outer[1] /\ DOMAIN outer' = {}
        /\ 1..Len(outer') = {}
    <2>0. outer # <<>> /\ Len(outer) \in Nat /\ Len(outer) > 0
      BY <1>1, <1>2, NonEmpty
    <2>1. Len(outer) = 1
      BY <1>2, <2>0, OneOrTwo, Zenon
    <2>2. Head(outer) = outer[1] /\ Len(Tail(outer)) = 0 /\ Tail(outer) \in Seq(OpType)
      BY <1>2, <2>0, <2>1, HeadTailProperties
    <2>3. Tail(outer) = <<>>
      BY <2>2, EmptySeq
    <2> QED BY <1>1, <1>2, <2>1, <2>2, <2>3
  <1>4. Reached' = Reached
    BY <1>1, <1>3 DEF Reached, AdvanceAt
  <1>5. Seen' = Seen
    BY <1>1, <1>4 DEF Seen, AdvanceAt
  <1>6. Pending'
    BY <1>i, <1>1, <1>3, <1>4 DEF Pending
  <1>7. Continuous' /\ Held'
    BY <1>i, <1>1, <1>5, ContinuousKept, HeldKept
  <1> QED BY <1>i, <1>1, <1>6, <1>7 DEF Phases, Going

LEMMA UserStream ==
  ASSUME StreamInv, Connect \/ Cancel \/ Take \/ Tick \/ UNCHANGED vars
  PROVE  Phases' /\ Pending' /\ Continuous' /\ Held'
  <1>i. Typed /\ Phases /\ Pending /\ Continuous /\ Held
    BY DEF StreamInv
  <1>1. CASE Take
    BY <1>1, TakeStream
  <1>2. CASE Connect \/ Cancel \/ Tick \/ UNCHANGED vars
    <2>1. /\ UNCHANGED <<after, sock, todo, got, outer, src, sessionID, sequence, srv, on, pos,
                         resumedOwed>>
          /\ \/ pc' = pc /\ started' = started
             \/ ~started /\ pc' = "select" /\ started'
      BY <1>2 DEF Connect, Cancel, Tick, vars, loop, handler, conn, user, server
    <2>2. pc' = pc \/ (pc = "idle" /\ pc' = "select")
      BY <1>i, <2>1 DEF Phases
    <2>3. Seen' = Seen
      BY <2>1, SeenKept
    <2>4. Pending'
      BY <1>i, <2>1, <2>2, PendingKept
    <2>5. Continuous' /\ Held'
      BY <1>i, <2>1, <2>3, ContinuousKept, HeldKept
    <2> QED BY <1>i, <2>1, <2>2, <2>4, <2>5 DEF Phases, Going
  <1> QED BY <1>1, <1>2

(* The loop's steps.  First the ones that have nothing to do with the       *)
(* stream: they may tell the user of an error.                              *)
LEMMA LoopKeeps ==
  ASSUME StreamInv, NEW next \in Afters, Emit(<<>>, next) \/ Emit(<<Error>>, next),
         pc \notin {"emit", "retryTimer", "idle"},
         UNCHANGED <<sock, src, srv, on, pos, resumedOwed, started, outer, got>>,
         UNCHANGED <<sessionID, sequence>>,
         next \in {"dial", "backoff"} => Going({"dial", "backoff"})
  PROVE  Phases' /\ Pending' /\ Continuous' /\ Held'
  <1>i. Typed /\ Phases /\ Pending /\ Continuous /\ Held
    BY DEF StreamInv
  <1>1. Pending' /\ Seen' = Seen
    BY <1>i, EmitsNothing
  <1>2. Continuous' /\ Held'
    BY <1>i, <1>1, ContinuousKept, HeldKept
  <1>3. pc' = next \/ (pc' = "emit" /\ after' = next)
    BY EmitGoes
  <1>4. pc' # "retryTimer" /\ (Going({"dial", "backoff"})' => Going({"dial", "backoff"}))
    BY <1>3 DEF Going, Afters
  <1> QED BY <1>i, <1>1, <1>2, <1>4 DEF Phases

LEMMA DialStream ==
  ASSUME StreamInv, Heartbeat \/ DialFailed \/ Backoff
  PROVE  Phases' /\ Pending' /\ Continuous' /\ Held'
  <1>1. "select" \in Afters /\ "dial" \in Afters /\ "backoff" \in Afters /\ "finalize" \in Afters
    BY DEF Afters
  <1>2. CASE Heartbeat
    <2>1. /\ pc = "select"
          /\ UNCHANGED <<sock, src, srv, on, pos, resumedOwed, started, outer, got>>
          /\ UNCHANGED <<sessionID, sequence>>
      BY <1>2 DEF Heartbeat, HeartbeatFails, HeartbeatSent, handler, conn, user, server
    <2>2. Emit(<<Error>> \o <<>>, "select") \/ Emit(<<>>, "select")
      BY <1>2, Zenon DEF Heartbeat, HeartbeatFails, HeartbeatSent
    <2>3. <<Error>> \o <<>> = <<Error>>
      BY ErrorTyped
    <2>4. Emit(<<Error>>, "select") \/ Emit(<<>>, "select")
      BY <2>2, <2>3
    <2> QED BY <1>1, <2>1, <2>4, LoopKeeps
  <1>3. CASE DialFailed \/ Backoff
    <2>1. /\ pc \in {"dial", "backoff"}
          /\ UNCHANGED <<sock, src, srv, on, pos, resumedOwed, started, outer, got>>
          /\ UNCHANGED <<sessionID, sequence>>
      BY <1>3 DEF DialFailed, Backoff, handler, conn, user, server
    <2>2. Going({"dial", "backoff"})
      BY <2>1 DEF Going
    <2>3. \/ Emit(<<Error>>, "finalize") \/ Emit(<<Error>>, "backoff") \/ Emit(<<>>, "dial")
      BY <1>3 DEF DialFailed, Backoff
    <2> QED BY <1>1, <2>1, <2>2, <2>3, LoopKeeps
  <1> QED BY <1>2, <1>3

(* ... the ones that only go on,                                            *)
LEMMA EndStream ==
  ASSUME StreamInv, CtxDone \/ Exit \/ DialOK
  PROVE  Phases' /\ Pending' /\ Continuous' /\ Held'
  <1>i. Typed /\ Phases /\ Pending /\ Continuous /\ Held
    BY DEF StreamInv
  <1>1. /\ pc \in {"select", "exit", "dial"} /\ pc' \in {"finalize", "idle", "select"}
        /\ UNCHANGED <<after, src, todo, got, outer, sessionID, sequence, on, pos, resumedOwed>>
    BY DEF CtxDone, Exit, DialOK, loop, handler, conn, user, server
  <1>2. Pending' /\ Seen' = Seen
    BY <1>i, <1>1, SeenKept, PendingKept
  <1>3. Held'
    BY <1>i, <1>1, <1>2, HeldKept
  <1>4. CASE CtxDone \/ Exit
    <2>1. UNCHANGED <<sock, srv>> /\ (~started' => pc' = "idle")
      BY <1>i, <1>4 DEF CtxDone, Exit, loop, handler, conn, user, server, Phases
    <2>2. Continuous'
      BY <1>i, <1>1, <1>2, <2>1, ContinuousKept
    <2> QED BY <1>i, <1>1, <1>2, <1>3, <2>1, <2>2 DEF Phases, Going
  <1>5. CASE DialOK
    <2>1. pc = "dial" /\ pc' = "select" /\ sock' = "open" /\ srv' = "greet" /\ started' = started
      BY <1>5 DEF DialOK, user
    <2>2. src = <<>> /\ srv = "none" /\ started
      BY <1>i, <2>1 DEF Phases, Going
    <2>3. Turned(src') /\ Quiet(src') /\ Settled(src')
      BY <1>1, <2>2 DEF Turned, Quiet, Settled
    <2>4. Continuous'
      BY <1>i, <1>1, <1>2, <2>1, ContinuousKept
    <2> QED BY <1>i, <1>1, <1>2, <1>3, <2>1, <2>2, <2>3, <2>4 DEF Phases, Going, Greeting
  <1> QED BY <1>4, <1>5

(* ... and the ones that close the connection.                              *)
LEMMA CloseStream ==
  ASSUME StreamInv, Reconnect \/ Finalize
  PROVE  Phases' /\ Pending' /\ Continuous' /\ Held'
  <1>i. Typed /\ Phases /\ Pending /\ Continuous /\ Held
    BY DEF StreamInv
  <1>1. /\ pc \in {"select", "finalize"} /\ sock' = "closed" /\ srv' = "none" /\ resumedOwed' = FALSE
        /\ UNCHANGED <<got, outer, started>>
        /\ UNCHANGED <<sessionID, sequence>> \/ sessionID' = None
    BY DEF Reconnect, Finalize, CloseConn, Forget, invalidate, handler, user
  <1>2. Emit(<<>>, "dial") \/ Emit(<<Error>>, "dial") \/ Emit(<<>>, "exit") \/ Emit(<<Error>>, "exit")
    BY DEF Reconnect, Finalize
  <1>3. PICK next \in {"dial", "exit"} : Emit(<<>>, next) \/ Emit(<<Error>>, next)
    BY <1>2
  <1>4. next \in Afters
    BY DEF Afters
  <1>5. Pending' /\ Seen' = Seen
    BY <1>i, <1>1, <1>3, <1>4, EmitsNothing
  <1>6. Held'
    BY <1>i, <1>1, <1>5, HeldKept
  <1>7. pc' \in {"emit", "dial", "exit"} /\ (pc' = "emit" => after' \in {"dial", "exit"})
    BY <1>3, EmitGoes
  <1>8. started
    BY <1>i, <1>1 DEF Phases
  <1>9. CASE Reconnect
    <2>1. src' = <<>> /\ src' = SubSeq(src, 1, 0) /\ 0 \in 0..Len(src)
      BY <1>i, <1>9, SrcTyped DEF Reconnect
    <2>2. Continuous' /\ Turned(src')
      BY <1>i, <1>1, <1>5, <2>1, ContinuousCut
    <2> QED BY <1>1, <1>5, <1>6, <1>7, <1>8, <2>1, <2>2 DEF Phases, Greeting
  <1>10. CASE Finalize
    <2>1. PICK k \in 0..Len(src) : src' = SubSeq(src, 1, k)
      <3>1. Len(src) \in Nat
        BY <1>i, SrcTyped
      <3> QED BY <1>10, <3>1 DEF Finalize
    <2>2. Continuous' /\ Turned(src')
      BY <1>i, <1>1, <1>5, <2>1, ContinuousCut
    <2>3. ~Going({"dial", "backoff"})'
      <3>1. Emit(<<>>, "exit") \/ Emit(<<Error>>, "exit")
        BY <1>10 DEF Finalize
      <3> QED BY <3>1, EmitGoes DEF Going
    <2> QED BY <1>1, <1>5, <1>6, <1>7, <1>8, <2>2, <2>3 DEF Phases, Greeting
  <1> QED BY <1>9, <1>10

LEMMA EmitNextStream ==
  ASSUME StreamInv, EmitNext
  PROVE  Phases' /\ Pending' /\ Continuous' /\ Held'
  <1>i. Typed /\ Phases /\ Pending /\ Continuous /\ Held
    BY DEF StreamInv
  <1>1. /\ pc = "emit" /\ Len(outer) = 0 /\ outer' = <<Head(todo)>> /\ todo' = Tail(todo)
        /\ pc' = (IF Len(todo) = 1 THEN after ELSE "emit")
        /\ after' = (IF Len(todo) = 1 THEN "idle" ELSE after)
        /\ UNCHANGED <<sock, src, srv, on, pos, resumedOwed, started, got, sessionID, sequence>>
    BY DEF EmitNext, handler, conn, server
  <1>2. todo \in Seq(OpType) /\ Len(todo) \in 1..2 /\ outer \in Seq(OpType) /\ got \in Place
        /\ after \in Afters
    <2>1. /\ todo \in Seq(OpType) /\ todo # <<>> /\ Len(todo) <= 2
          /\ outer \in Seq(OpType) /\ got \in Place /\ after \in Afters
      BY <1>i, <1>1 DEF Typed, UserType, LoopType, Place
    <2>2. Len(todo) \in Nat /\ Len(todo) > 0
      BY <2>1, NonEmpty
    <2>3. Len(todo) \in 1..2
      BY <2>1, <2>2, OneOrTwo, Zenon
    <2> QED BY <2>1, <2>3, Zenon
  <1>3. PICK op \in OpType : op = Head(todo) /\ op = todo[1] /\ 1 \in DOMAIN todo /\ 1 \in 1..Len(todo)
    BY <1>2
  <1>4. /\ outer' = <<op>> /\ DOMAIN outer' = {1} /\ outer'[1] = op /\ 1..Len(outer') = {1}
        /\ DOMAIN outer = {}
    BY <1>1, <1>2, <1>3
  <1>5. Reached = got /\ Reached' = Advance(got, op)
    BY <1>1, <1>4 DEF Reached, AdvanceAt
  <1>6. Offers(got, op)
    BY <1>i, <1>3, <1>5 DEF Pending
  <1>7. CASE Len(todo) = 1
    <2>1. DOMAIN todo = {1} /\ todo' = <<>> /\ DOMAIN todo' = {} /\ 1..Len(todo') = {}
      BY <1>1, <1>2, <1>7
    <2>2. Seen' = Seen
      BY <1>3, <1>5, <2>1 DEF Seen, AdvanceAt
    <2>3. pc' \notin {"emit", "retryTimer"}
      BY <1>1, <1>2, <1>7 DEF Afters
    <2>4. Pending'
      BY <1>1, <1>4, <1>6, <2>1, <2>3 DEF Pending
    <2>5. Continuous' /\ Held'
      BY <1>i, <1>1, <2>2, ContinuousKept, HeldKept
    <2> QED BY <1>i, <1>1, <1>7, <2>3, <2>4, <2>5 DEF Phases, Going
  <1>8. CASE Len(todo) = 2
    <2>0. todo[2] \in OpType
      BY <1>2, <1>8, ElementOfSeq
    <2>1. PICK o2 \in OpType : o2 = todo[2]
      BY <2>0
    <2>2. /\ DOMAIN todo = {1, 2} /\ DOMAIN todo' = {1} /\ 1..Len(todo') = {1} /\ todo'[1] = o2
          /\ Len(todo') = 1 /\ 2 \in 1..Len(todo)
      BY <1>1, <1>2, <1>8, <2>1
    <2>3. op.kind \notin Streamed
      BY <1>i, <1>3, <1>8 DEF Pending
    <2>4. Reached' = got /\ Offers(got, o2)
      BY <1>i, <1>2, <1>5, <2>1, <2>2, <2>3, AdvancePlain DEF Pending
    <2>5. Seen' = Seen
      BY <1>2, <1>3, <1>5, <2>1, <2>2, <2>3, <2>4, AdvancePlain DEF Seen, AdvanceAt
    <2>6. pc' = "emit" /\ after' = after
      BY <1>1, <1>8
    <2>7. Pending'
      BY <1>1, <1>4, <1>6, <2>2, <2>4, <2>6 DEF Pending
    <2>8. Continuous' /\ Held'
      BY <1>i, <1>1, <2>5, ContinuousKept, HeldKept
    <2> QED BY <1>i, <1>1, <2>6, <2>7, <2>8 DEF Phases, Going
  <1> QED BY <1>2, <1>7, <1>8

(* What the loop answers to a connection that has turned.                   *)
LEMMA Answers ==
  ASSUME StreamInv, Seen' = Seen, src' \in Seq(OpType), Quiet(src'),
         srv \notin Greeting \cup {"live"},
         \/ sendIdentify
         \/ sendResume /\ sessionID # None
         \/ UNCHANGED <<srv, on, pos, resumedOwed>>
  PROVE  /\ Continuous'
         /\ srv' = srv \/ (srv' \in {"identify", "resume"} /\ sock = "open")
         /\ srv' = "resume" => pos' > 0
         /\ resumedOwed' => srv' \in {"live", "mute"} /\ pos' > 0
  <1>i. Typed /\ Phases /\ Continuous /\ Held
    BY DEF StreamInv
  <1>s. Seen \in Place /\ Joins(Seen, Seen)
    <2>1. Seen \in Place /\ Seen.at \in Nat
      BY <1>i, SeenTyped DEF Place
    <2>2. (Seen.at + 1)..Seen.at = {}
      BY <2>1
    <2> QED BY <2>1, <2>2 DEF Joins, Follows
  <1>q. ASSUME NEW e \in Place, Joins(Seen, e),
               srv' \in {"resume", "live"} => e = [sid |-> on', at |-> pos']
        PROVE  Continuous'
    <2>1. Joined(Seen', src', e)
      BY <1>q, JoinedQuiet
    <2> QED BY <1>q, <2>1 DEF Continuous
  <1>1. CASE UNCHANGED <<srv, on, pos, resumedOwed>>
    BY <1>i, <1>s, <1>q, <1>1 DEF Phases, Greeting
  <1>2. CASE sendIdentify
    <2>1. /\ srv' = srv \/ (srv' = "identify" /\ sock = "open" /\ srv # "mute")
          /\ UNCHANGED <<on, pos, resumedOwed>>
      BY <1>2 DEF sendIdentify, Heard
    <2>2. srv' \notin {"resume", "live"}
      BY <2>1 DEF Greeting
    <2>3. Continuous'
      BY <1>s, <1>q, <2>2
    <2> QED BY <1>i, <2>1, <2>2, <2>3 DEF Phases, Greeting
  <1>3. CASE sendResume /\ sessionID # None
    <2>1. UNCHANGED resumedOwed
      BY <1>3 DEF sendResume
    <2>2. CASE Heard
      <3>1. srv' = "resume" /\ on' = sessionID /\ pos' = sequence /\ sock = "open" /\ srv # "mute"
        BY <1>3, <2>2 DEF sendResume, Heard
      <3>2. PICK e : e = [sid |-> sessionID, at |-> sequence]
        OBVIOUS
      <3>3. e \in Place
        BY <1>i, <3>2 DEF Typed, HandlerType, Place
      <3>4. Follows(Seen, e) /\ sequence > 0
        BY <1>i, <1>3, <3>2 DEF Held
      <3>5. Continuous'
        BY <1>q, <3>1, <3>2, <3>3, <3>4 DEF Joins
      <3>6. ~resumedOwed
        BY <1>i, <3>1 DEF Phases, Greeting
      <3> QED BY <2>1, <3>1, <3>4, <3>5, <3>6
    <2>3. CASE ~Heard
      <3>1. UNCHANGED <<srv, on, pos>>
        BY <1>3, <2>3 DEF sendResume
      <3> QED BY <1>1, <2>1, <3>1
    <2> QED BY <2>2, <2>3
  <1> QED BY <1>1, <1>2, <1>3

LEMMA TwoOps ==
  ASSUME NEW a, NEW b
  PROVE  (<<a>> \o <<b>>) = <<a, b>>
  <1>1. PICK s, t, S : s = <<a>> /\ t = <<b>> /\ S = {a, b}
    OBVIOUS
  <1>2. s \in Seq(S) /\ t \in Seq(S) /\ Len(s) = 1 /\ Len(t) = 1 /\ s[1] = a /\ t[1] = b
    BY <1>1
  <1>3. /\ (s \o t) \in Seq(S) /\ Len(s \o t) = 2 /\ (s \o t)[1] = a /\ (s \o t)[2] = b
    BY <1>2, ConcatProperties
  <1>4. PICK u, v : u = s \o t /\ v = <<a, b>>
    OBVIOUS
  <1>5. v \in Seq(S) /\ Len(v) = 2 /\ v[1] = a /\ v[2] = b
    BY <1>1, <1>4
  <1>6. u \in Seq(S) /\ Len(u) = 2 /\ u[1] = a /\ u[2] = b
    BY <1>3, <1>4
  <1>7. Len(u) = Len(v) /\ \A i \in 1..Len(u) : u[i] = v[i]
    BY <1>5, <1>6
  <1>8. u = v
    BY <1>5, <1>6, <1>7, SeqEqual
  <1> QED BY <1>1, <1>4, <1>8

LEMMA RetryStream ==
  ASSUME StreamInv, RetryIdentify
  PROVE  Phases' /\ Pending' /\ Continuous' /\ Held'
  <1>i. Typed /\ Phases /\ Pending /\ Continuous /\ Held
    BY DEF StreamInv
  <1>1. /\ pc = "retryTimer"
        /\ UNCHANGED <<sock, src, started, got, outer, sessionID, sequence>>
        /\ sendIdentify \/ UNCHANGED <<srv, on, pos, resumedOwed>>
        /\ Emit(todo, "select") \/ Emit(<<Error>> \o todo, "select")
    BY Zenon DEF RetryIdentify, handler, conn, user, server
  <1>2. todo \in Seq(OpType) /\ Len(todo) = 1
    BY <1>i, <1>1 DEF Typed, LoopType
  <1>3. PICK op \in OpType : todo = <<op>> /\ op = todo[1]
    <2>1. todo[1] \in OpType /\ todo = <<todo[1]>>
      BY <1>2
    <2> QED BY <2>1
  <1>4. op.kind \notin Streamed
    BY <1>i, <1>1, <1>3 DEF Pending
  <1>5. (<<Error>> \o <<op>>) = <<Error, op>>
    BY TwoOps
  <1>6. Emit(<<op>>, "select") \/ Emit(<<Error, op>>, "select")
    BY <1>1, <1>3, <1>5
  <1>7. Offers(Reached, op) /\ Advance(Reached, op) = Reached
    BY <1>i, <1>4, SeenTyped, AdvancePlain DEF Offers
  <1>8. Seen = Reached
    <2>1. DOMAIN todo = {1}
      BY <1>3
    <2> QED BY <1>3, <1>7, <2>1 DEF Seen, AdvanceAt
  <1>9. Pending' /\ Seen' = Seen
    BY <1>i, <1>1, <1>6, <1>7, <1>8, EmitsOne
  <1>10. Quiet(src') /\ Settled(src') /\ Turned(src') /\ src' \in Seq(OpType)
    BY <1>i, <1>1, SrcTyped DEF Phases
  <1>11. srv \notin Greeting \cup {"live"}
    BY <1>i, <1>1 DEF Phases
  <1>12. /\ Continuous'
         /\ srv' = srv \/ (srv' \in {"identify", "resume"} /\ sock = "open")
         /\ srv' = "resume" => pos' > 0
         /\ resumedOwed' => srv' \in {"live", "mute"} /\ pos' > 0
    BY <1>1, <1>9, <1>10, <1>11, Answers
  <1>13. Held'
    BY <1>i, <1>1, <1>9, HeldKept
  <1>14. pc' \in {"select", "emit"} /\ (pc' = "emit" => after' = "select") /\ started
    BY <1>i, <1>1, <1>6, EmitGoes DEF Phases
  <1> QED BY <1>i, <1>1, <1>9, <1>10, <1>11, <1>12, <1>13, <1>14 DEF Phases, Going

(* The op that the loop takes goes on where the reader is.                  *)
LEMMA TakesNext ==
  ASSUME StreamInv, NEW op, NextOp(op)
  PROVE  /\ op \in OpType /\ src' \in Seq(OpType) /\ Turned(src') /\ UNCHANGED sock
         /\ Quiet(src) => Quiet(src')
         /\ Settled(src) => Settled(src') /\ op.kind \notin Turning
         /\ op.kind \in Turning => Quiet(src') /\ Settled(src')
         /\ \E p, r, e \in Place :
               /\ Joins(Seen, p) /\ Moves(p, op, r)
               /\ \A h : Joins(h, r) => Joined(h, src', e)
               /\ srv \in {"resume", "live"} => e = [sid |-> on, at |-> pos]
  <1>i. Typed /\ Phases /\ Continuous
    BY DEF StreamInv
  <1>0. op \in OpType /\ ConnType' /\ UNCHANGED sock
    BY <1>i, NextOpTyped DEF NextOp
  <1>1. src \in Seq(OpType) /\ Turned(src)
    BY <1>i, SrcTyped DEF Phases
  <1>2. PICK e \in Place :
           Joined(Seen, src, e) /\ (srv \in {"resume", "live"} => e = [sid |-> on, at |-> pos])
    BY <1>i DEF Continuous
  <1>3. CASE src # <<>> /\ op = Head(src) /\ src' = Tail(src)
    <2>1. Tail(src) \in Seq(OpType)
      BY <1>1, <1>3
    <2>2. \E p, r \in Place :
             /\ Joins(Seen, p) /\ Moves(p, op, r)
             /\ \A h : Joins(h, r) => Joined(h, src', e)
      BY <1>1, <1>2, <1>3, JoinedTail
    <2>3. /\ Turned(src')
          /\ Quiet(src) => Quiet(src')
          /\ Settled(src) => Settled(src') /\ op.kind \notin Turning
          /\ op.kind \in Turning => Quiet(src') /\ Settled(src')
      BY <1>1, <1>3, TurnedTail
    <2> QED BY <1>0, <1>2, <1>3, <2>1, <2>2, <2>3
  <1>4. CASE src = <<>> /\ op = Plain(CloseKind) /\ UNCHANGED src
    <2>1. op.kind \notin Numbered \cup Turning
      BY <1>4 DEF Plain, Op, CloseKind, Numbered, Streamed, Turning
    <2>2. PICK q \in [0..Len(src) -> Place] :
             Joins(Seen, q[0]) /\ Path(src, q) /\ q[Len(src)] = e
      BY <1>2 DEF Joined
    <2>3. q[0] \in Place /\ Moves(q[0], op, q[0])
      BY <1>1, <2>1 DEF Moves
    <2>4. ASSUME NEW h, Joins(h, q[0]) PROVE Joined(h, src', e)
      BY <1>4, <2>2, <2>4 DEF Joined
    <2> QED BY <1>0, <1>1, <1>2, <1>4, <2>1, <2>2, <2>3, <2>4
  <1> QED BY <1>3, <1>4 DEF NextOp

LEMMA Advances ==
  ASSUME NEW g \in Place, Rooted(g), NEW p \in Place, NEW r \in Place, NEW op \in OpType,
         Joins(g, p), Moves(p, op, r)
  PROVE  Offers(g, op) /\ Joins(Advance(g, op), r) /\ Rooted(Advance(g, op))
  <1>0. ASSUME NEW s, NEW n \in Nat
        PROVE  Follows([sid |-> s, at |-> n], [sid |-> s, at |-> n])
    <2>1. (n + 1)..n = {}
      OBVIOUS
    <2> QED BY <2>1 DEF Follows
  <1>1. CASE op.kind = "ready"
    BY <1>0, <1>1, ReadyFits DEF Offers, Fits, Joins, Rooted
  <1>2. CASE op.kind = "event"
    <2>1. op.seq \in Nat
      BY DEF OpType
    <2> QED BY <1>0, <1>2, <2>1, EventFits DEF Offers, Fits, Joins, Rooted
  <1>3. CASE op.kind = "unknown"
    <2>1. g.at \in Nat /\ op.seq \in Nat
      BY DEF OpType, Place
    <2> QED BY <1>3, <2>1, UnknownFits DEF Offers, Fits, Joins, Rooted
  <1>4. CASE op.kind = "resumed"
    BY <1>4, ResumedFits DEF Offers, Streamed, Joins
  <1>5. CASE op.kind \notin Numbered
    <2>1. r = p /\ op.kind \notin Streamed
      BY <1>5 DEF Moves, Numbered
    <2> QED BY <2>1, AdvancePlain DEF Offers
  <1> QED BY <1>1, <1>2, <1>3, <1>4, <1>5 DEF Numbered, Streamed

(* What OnOp does to the rest, in the terms of the stream.                  *)
LEMMA OnOpSends ==
  ASSUME NEW op \in OpType, OnOp(op)
  PROVE  /\ \/ Emit(<<op>>, "select") \/ Emit(<<Error, op>>, "select")
            \/ op.kind = "invalidResumable" /\ pc' = "retryTimer" /\ todo' = <<op>>
         /\ UNCHANGED resumedOwed
         /\ \/ UNCHANGED <<srv, on, pos>>
            \/ op.kind = "hello" /\ (sendIdentify \/ (sendResume /\ sessionID # None))
         /\ \/ UNCHANGED <<sessionID, sequence>> /\ op.kind \notin Dispatch
            \/ sessionID' = None /\ op.kind \notin Numbered
            \/ /\ op.kind \in Dispatch /\ sequence' = op.seq
               /\ sessionID' = IF op.kind = "ready" THEN op.sid ELSE sessionID
  <1>0. (<<Error>> \o <<op>>) = <<Error, op>>
    BY TwoOps
  <1>1. CASE OnClose(op)
    BY <1>1 DEF OnClose, invalidate, server, Dispatch, Numbered, Streamed
  <1>2. CASE OnHello(op)
    BY <1>2 DEF OnHello, server, sendIdentify, sendResume, Dispatch
  <1>3. CASE OnInvalidSession(op)
    BY <1>3 DEF OnInvalidSession, invalidate, server, Numbered, Streamed
  <1>4. CASE OnHeartbeatCommand(op)
    BY <1>0, <1>4
       DEF OnHeartbeatCommand, HeartbeatFails, HeartbeatSent, handler, server, Dispatch
  <1>5. CASE OnReconnect(op)
    BY <1>5 DEF OnReconnect, handler, server, Dispatch
  <1>6. CASE OnEvent(op)
    BY <1>6 DEF OnEvent, SequenceAfter, server
  <1> QED BY <1>1, <1>2, <1>3, <1>4, <1>5, <1>6 DEF OnOp

LEMMA ReceiveOpStream ==
  ASSUME StreamInv, NEW op, ReceiveOp(op)
  PROVE  Phases' /\ Pending' /\ Continuous' /\ Held'
  <1>i. Typed /\ Phases /\ Pending /\ Continuous /\ Held
    BY DEF StreamInv
  <1>1. pc = "select" /\ NextOp(op) /\ OnOp(op) /\ UNCHANGED <<started, got, outer>>
    BY DEF ReceiveOp, user
  <1>2. /\ op \in OpType /\ src' \in Seq(OpType) /\ Turned(src') /\ UNCHANGED sock
        /\ Quiet(src) => Quiet(src')
        /\ Settled(src) => Settled(src') /\ op.kind \notin Turning
        /\ op.kind \in Turning => Quiet(src') /\ Settled(src')
    BY <1>1, TakesNext
  <1>3. PICK p \in Place, r \in Place, e \in Place :
           /\ Joins(Seen, p) /\ Moves(p, op, r)
           /\ \A h : Joins(h, r) => Joined(h, src', e)
           /\ srv \in {"resume", "live"} => e = [sid |-> on, at |-> pos]
    BY <1>1, TakesNext
  <1>4. todo = <<>> /\ Seen = Reached /\ Seen \in Place /\ Rooted(Seen)
    BY <1>i, <1>1, SeenTyped DEF Pending, Seen, AdvanceAt, Held
  <1>5. Offers(Seen, op) /\ Joins(Advance(Seen, op), r) /\ Rooted(Advance(Seen, op))
    BY <1>2, <1>3, <1>4, Advances
  <1>6. Pending' /\ Seen' = Advance(Seen, op)
    <2>1. CASE Emit(<<op>>, "select") \/ Emit(<<Error, op>>, "select")
      BY <1>i, <1>1, <1>2, <1>4, <1>5, <2>1, EmitsOne
    <2>2. CASE op.kind = "invalidResumable" /\ pc' = "retryTimer" /\ todo' = <<op>>
      <3>1. op.kind \notin Streamed
        BY <2>2 DEF Streamed
      <3>2. PICK ops : ops = <<op>>
        OBVIOUS
      <3>3. DOMAIN ops = {1} /\ 1..Len(ops) = {1} /\ Len(ops) = 1 /\ ops[1] = op /\ todo' = ops
        BY <2>2, <3>2
      <3>4. Reached' = Reached
        BY <1>1 DEF Reached, AdvanceAt
      <3>5. Advance(Reached, op) = Reached /\ Seen' = Reached
        BY <1>4, <3>1, <3>3, <3>4, AdvancePlain DEF Seen, AdvanceAt
      <3>6. Pending'
        BY <1>i, <1>1, <2>2, <3>1, <3>3, <3>4 DEF Pending, Offers
      <3> QED BY <1>4, <3>5, <3>6
    <2> QED BY <1>1, <1>2, <2>1, <2>2, OnOpSends
  <1>7. /\ UNCHANGED resumedOwed
        /\ \/ UNCHANGED <<srv, on, pos>>
           \/ op.kind = "hello" /\ (sendIdentify \/ (sendResume /\ sessionID # None))
    BY <1>1, <1>2, OnOpSends
  <1>8. /\ Continuous'
        /\ srv' = srv \/ (srv' \in {"identify", "resume"} /\ sock = "open" /\ op.kind \in Turning)
        /\ srv' = "resume" => pos' > 0
        /\ resumedOwed' => srv' \in {"live", "mute"} /\ pos' > 0
    <2>1. CASE UNCHANGED <<srv, on, pos>>
      <3>1. Joined(Seen', src', e)
        BY <1>3, <1>5, <1>6
      <3>2. Continuous'
        BY <1>3, <2>1, <3>1 DEF Continuous
      <3> QED BY <1>i, <1>7, <2>1, <3>2 DEF Phases
    <2>2. CASE op.kind = "hello" /\ (sendIdentify \/ (sendResume /\ sessionID # None))
      <3>1. op.kind \in Turning /\ op.kind \notin Streamed
        BY <2>2 DEF Turning, Streamed
      <3>2. Seen' = Seen
        BY <1>4, <1>6, <3>1, AdvancePlain
      <3>3. Quiet(src') /\ srv \notin Greeting \cup {"live"}
        BY <1>i, <1>2, <3>1 DEF Phases
      <3> QED BY <1>2, <2>2, <3>1, <3>2, <3>3, Answers
    <2> QED BY <1>7, <2>1, <2>2
  <1>9. Held'
    <2>1. CASE op.kind \notin Numbered
      <3>1. Seen' = Seen /\ op.kind \notin Dispatch
        BY <1>4, <1>6, <2>1, AdvancePlain DEF Numbered, Streamed, Dispatch
      <3>2. UNCHANGED <<sessionID, sequence>> \/ sessionID' = None
        BY <1>1, <1>2, <3>1, OnOpSends
      <3> QED BY <1>i, <3>1, <3>2, HeldKept
    <2>2. CASE op.kind = "unknown"
      <3>1. UNCHANGED <<sessionID, sequence>>
        BY <1>1, <1>2, <2>2, OnOpSends DEF Numbered, Streamed, Dispatch
      <3>2. PICK h : h = [sid |-> sessionID, at |-> sequence]
        OBVIOUS
      <3>3. h \in Place
        BY <1>i, <3>2 DEF Typed, HandlerType, Place
      <3>4. Follows(Seen, h) => Follows(Seen', h)
        BY <1>2, <1>3, <1>4, <1>6, <2>2, <3>3, UnknownFits
      <3> QED BY <1>i, <1>5, <1>6, <3>1, <3>2, <3>4 DEF Held
    <2>3. CASE op.kind \in Dispatch
      <3>1. sequence' = op.seq /\ sessionID' = (IF op.kind = "ready" THEN op.sid ELSE sessionID)
        BY <1>1, <1>2, <2>3, OnOpSends DEF Numbered, Streamed, Dispatch
      <3>2. CASE op.kind = "ready"
        <4>1. Seen' = [sid |-> op.sid, at |-> 1] /\ op.seq = 1
          BY <1>2, <1>3, <1>4, <1>6, <3>2, ReadyFits
        <4>2. (1 + 1)..1 = {}
          OBVIOUS
        <4> QED BY <1>5, <1>6, <3>1, <3>2, <4>1, <4>2 DEF Held, Follows
      <3>3. CASE op.kind = "event"
        <4>1. /\ Seen' = [sid |-> op.sid, at |-> op.seq] /\ op.seq > 0 /\ op.sid = Seen.sid
              /\ op.seq \in Nat
          BY <1>2, <1>3, <1>4, <1>6, <3>3, EventFits DEF OpType
        <4>2. (op.seq + 1)..op.seq = {}
          BY <4>1
        <4>3. sessionID' = sessionID
          BY <3>1, <3>3
        <4>4. sessionID # None => sessionID = Seen.sid
          BY <1>i DEF Held, Follows
        <4> QED BY <1>5, <1>6, <3>1, <4>1, <4>2, <4>3, <4>4 DEF Held, Follows
      <3>4. CASE op.kind = "resumed"
        <4>1. /\ Seen' = Seen /\ op.seq > 0 /\ op.sid = Seen.sid
              /\ Follows(Seen, [sid |-> op.sid, at |-> op.seq])
          BY <1>2, <1>3, <1>4, <1>6, <3>4, ResumedFits
        <4>2. sessionID' = sessionID
          BY <3>1, <3>4
        <4>3. sessionID # None => sessionID = op.sid
          BY <1>i, <4>1 DEF Held, Follows
        <4> QED BY <1>4, <3>1, <4>1, <4>2, <4>3 DEF Held
      <3> QED BY <2>3, <3>2, <3>3, <3>4 DEF Dispatch
    <2> QED BY <2>1, <2>2, <2>3 DEF Numbered, Streamed, Dispatch
  <1>10. /\ pc' \in {"select", "emit", "retryTimer"} /\ (pc' = "emit" => after' = "select")
         /\ pc' = "retryTimer" => op.kind \in Turning
    BY <1>1, <1>2, OnOpSends, EmitGoes DEF Turning
  <1>11. op.kind \in Turning => srv \notin Greeting \cup {"live"}
    BY <1>i, <1>2 DEF Phases
  <1>12. started
    BY <1>i, <1>1 DEF Phases
  <1>13. ~Going({"dial", "backoff"})' /\ (pc' = "retryTimer" => Quiet(src') /\ Settled(src'))
    BY <1>2, <1>10 DEF Going
  <1>14. srv' \in Greeting => Quiet(src')
    <2>1. CASE srv' = srv
      BY <1>i, <1>2, <2>1 DEF Phases
    <2>2. CASE op.kind \in Turning
      BY <1>2, <2>2
    <2> QED BY <1>8, <2>1, <2>2
  <1>15. srv' \in Greeting \cup {"live"} => pc' # "retryTimer" /\ Settled(src')
    <2>1. CASE srv' = srv
      BY <1>i, <1>2, <1>10, <1>11, <2>1 DEF Phases
    <2>2. CASE srv' \in {"identify", "resume"} /\ op.kind \in Turning
      <3>1. op.kind # "invalidResumable" \/ srv' = srv
        BY <1>7
      <3>2. srv' # srv
        BY <1>11, <2>2 DEF Greeting
      <3>3. pc' # "retryTimer"
        BY <1>1, <1>2, <3>1, <3>2, OnOpSends, EmitGoes
      <3> QED BY <1>2, <2>2, <3>3
    <2> QED BY <1>8, <2>1, <2>2
  <1>16. sock' # "open" => srv' = "none"
    BY <1>i, <1>2, <1>8 DEF Phases
  <1>17. Phases'
    BY <1>1, <1>2, <1>8, <1>12, <1>13, <1>14, <1>15, <1>16 DEF Phases
  <1> QED BY <1>6, <1>8, <1>9, <1>17

LEMMA ReceiveFatalStream ==
  ASSUME StreamInv, NEW op, ReceiveFatal(op)
  PROVE  Phases' /\ Pending' /\ Continuous' /\ Held'
  <1>i. Typed /\ Phases /\ Pending /\ Continuous /\ Held
    BY DEF StreamInv
  <1>1. /\ pc = "select" /\ NextOp(op) /\ op.kind = "closeFatal" /\ Emit(<<op>>, "finalize")
        /\ UNCHANGED <<started, got, outer, sessionID, sequence, srv, on, pos, resumedOwed>>
    BY DEF ReceiveFatal, handler, server
  <1>2. /\ op \in OpType /\ src' \in Seq(OpType) /\ Turned(src') /\ UNCHANGED sock
        /\ Quiet(src) => Quiet(src')
        /\ Settled(src) => Settled(src')
    BY <1>1, TakesNext
  <1>3. PICK p \in Place, r \in Place, e \in Place :
           /\ Joins(Seen, p) /\ Moves(p, op, r)
           /\ \A h : Joins(h, r) => Joined(h, src', e)
           /\ srv \in {"resume", "live"} => e = [sid |-> on, at |-> pos]
    BY <1>1, TakesNext
  <1>4. op.kind \notin Numbered /\ op.kind \notin Streamed
    BY <1>1 DEF Numbered, Streamed
  <1>5. r = p
    BY <1>3, <1>4 DEF Moves
  <1>6. Seen = Reached /\ Seen \in Place
    BY <1>i, <1>1, SeenTyped DEF Pending, Seen, AdvanceAt
  <1>7. Pending' /\ Seen' = Seen
    <2>1. Offers(Reached, op) /\ Advance(Reached, op) = Reached
      BY <1>4, <1>6, AdvancePlain DEF Offers
    <2> QED BY <1>i, <1>1, <1>2, <1>6, <2>1, EmitsOne
  <1>8. Continuous'
    <2>1. Joined(Seen', src', e)
      BY <1>3, <1>5, <1>7
    <2> QED BY <1>1, <1>3, <2>1 DEF Continuous
  <1>9. Held'
    BY <1>i, <1>1, <1>7, HeldKept
  <1>10. pc' \in {"finalize", "emit"} /\ (pc' = "emit" => after' = "finalize") /\ started
    BY <1>i, <1>1, EmitGoes DEF Phases
  <1> QED BY <1>i, <1>1, <1>2, <1>7, <1>8, <1>9, <1>10 DEF Phases, Going

------------------------------------------------------------------------------
LEMMA StreamInit == Init => StreamInv
  <1> SUFFICES ASSUME Init PROVE StreamInv
    OBVIOUS
  <1>1. Typed
    BY InitTyped
  <1>2. /\ src = <<>> /\ outer = <<>> /\ todo = <<>> /\ got = [sid |-> None, at |-> 0]
        /\ DOMAIN outer = {} /\ DOMAIN todo = {} /\ DOMAIN src = {}
        /\ 1..Len(outer) = {} /\ 1..Len(todo) = {} /\ 1..Len(src) = {}
        /\ pc = "idle" /\ sock = "closed" /\ srv = "none" /\ sessionID = None
        /\ resumedOwed = FALSE
    BY DEF Init
  <1>3. Turned(src) /\ Quiet(src) /\ Settled(src)
    BY <1>2 DEF Turned, Quiet, Settled
  <1>4. Phases
    BY <1>2, <1>3 DEF Phases, Greeting, Going
  <1>5. Pending
    BY <1>2 DEF Pending
  <1>6. Seen = [sid |-> None, at |-> 0] /\ Seen \in Place
    BY <1>1, <1>2, SeenTyped DEF Seen, Reached, AdvanceAt
  <1>7. Held
    BY <1>2, <1>6 DEF Held, Rooted
  <1>8. Continuous
    <2>1. (0 + 1)..0 = {}
      OBVIOUS
    <2>2. Joins(Seen, Seen)
      BY <1>6, <2>1 DEF Joins, Follows
    <2>3. Joined(Seen, src, Seen)
      BY <1>1, <1>3, <1>6, <2>2, SrcTyped, JoinedQuiet
    <2> QED BY <1>2, <1>6, <2>3 DEF Continuous
  <1> QED BY <1>1, <1>4, <1>5, <1>7, <1>8 DEF StreamInv

LEMMA StreamStep == StreamInv /\ [Next]_vars => StreamInv'
  <1> SUFFICES ASSUME StreamInv, [Next]_vars PROVE StreamInv'
    OBVIOUS
  <1>1. Typed'
    BY StepTyped DEF StreamInv
  <1>2. CASE Connect \/ Cancel \/ Take \/ Tick \/ UNCHANGED vars
    BY <1>1, <1>2, UserStream DEF StreamInv
  <1>3. CASE Server
    BY <1>1, <1>3, ServerStream DEF StreamInv
  <1>4. CASE spin
    <2>1. CASE CtxDone \/ Exit \/ DialOK
      BY <1>1, <2>1, EndStream DEF StreamInv
    <2>2. CASE Heartbeat \/ DialFailed \/ Backoff
      BY <1>1, <2>2, DialStream DEF StreamInv
    <2>3. CASE Reconnect \/ Finalize
      BY <1>1, <2>3, CloseStream DEF StreamInv
    <2>4. CASE EmitNext
      BY <1>1, <2>4, EmitNextStream DEF StreamInv
    <2>5. CASE RetryIdentify
      BY <1>1, <2>5, RetryStream DEF StreamInv
    <2>6. CASE Receive
      <3>1. PICK op : ReceiveOp(op) \/ ReceiveFatal(op)
        BY <2>6 DEF Receive
      <3> QED BY <1>1, <3>1, ReceiveOpStream, ReceiveFatalStream DEF StreamInv
    <2> QED BY <1>4, <2>1, <2>2, <2>3, <2>4, <2>5, <2>6 DEF spin
  <1> QED BY <1>2, <1>3, <1>4 DEF Next, Stopped

(* A session is only ever resumed from where the reader of the channel is:  *)
(* what the handler holds is the session of the last event passed on, and   *)
(* a number after which nothing but undecodable events has been passed on.  *)
THEOREM ResumesAtReader == Spec => []ResumesWhereItWas
  <1>1. StreamInv => ResumesWhereItWas
    BY DEF StreamInv, Held, Follows, ResumesWhereItWas
  <1> QED BY <1>1, StreamInit, StreamStep, PTL DEF Spec

------------------------------------------------------------------------------
(* The channel implements EventStream.                                      *)
LEMMA StreamStutter ==
  ASSUME UNCHANGED <<got, outer>>
  PROVE  UNCHANGED Stream!vars
  BY DEF Stream!vars, Offered

LEMMA EmitNextOffers ==
  ASSUME StreamInv, EmitNext
  PROVE  Stream!Offer \/ UNCHANGED Stream!vars
  <1>1. /\ pc = "emit" /\ Len(outer) = 0 /\ outer' = <<Head(todo)>> /\ UNCHANGED got
        /\ todo \in Seq(OpType) /\ todo # <<>> /\ outer \in Seq(OpType)
    BY DEF EmitNext, StreamInv, Typed, UserType, LoopType
  <1>2. outer = <<>> /\ DOMAIN outer = {}
    BY <1>1, EmptySeq
  <1>3. Offered = None
    BY <1>2 DEF Offered
  <1>4. PICK op \in OpType : op = Head(todo) /\ op = todo[1] /\ 1 \in 1..Len(todo)
    BY <1>1
  <1>5. Offered' = IF op.kind \in Streamed THEN op ELSE None
    <2>1. outer' = <<op>>
      BY <1>1, <1>4
    <2>2. outer' # <<>> /\ outer'[1] = op
      BY <2>1
    <2> QED BY <2>2 DEF Offered, Streamed
  <1>6. CASE op.kind \notin Streamed
    BY <1>1, <1>3, <1>5, <1>6 DEF Stream!vars
  <1>7. CASE op.kind \in Streamed
    <2>1. Reached = got
      BY <1>2 DEF Reached, AdvanceAt
    <2>2. op.sid # None /\ op.seq > 0 /\ Fits(got, op)
      BY <1>4, <1>7, <2>1 DEF StreamInv, Pending, Offers
    <2>3. op \in Stream!Event
      BY <1>7, <2>2 DEF OpType, Stream!Event, Stream!Kinds, Streamed
    <2>4. Stream!Fits(op)
      BY <2>2 DEF Fits, Stream!Fits
    <2> QED BY <1>1, <1>3, <1>5, <1>7, <2>3, <2>4 DEF Stream!Offer
  <1> QED BY <1>6, <1>7

LEMMA TakeTakes ==
  ASSUME StreamInv, Take
  PROVE  Stream!Take \/ UNCHANGED Stream!vars
  <1>1. outer # <<>> /\ outer' = Tail(outer) /\ got' = Advance(got, Head(outer))
        /\ outer \in Seq(OpType) /\ Len(outer) <= 1 /\ got \in Place
    BY DEF Take, StreamInv, Typed, UserType, Place
  <1>2. Len(outer) \in Nat /\ Len(outer) > 0
    BY <1>1, NonEmpty
  <1>3. Len(outer) = 1
    BY <1>1, <1>2, OneOrTwo, Zenon
  <1>4. Head(outer) = outer[1] /\ Len(Tail(outer)) = 0 /\ Tail(outer) \in Seq(OpType)
        /\ Head(outer) \in OpType
    BY <1>1, <1>2, <1>3, HeadTailProperties
  <1>5. outer' = <<>>
    BY <1>1, <1>4, EmptySeq
  <1>6. Offered' = None
    BY <1>5 DEF Offered
  <1>7. PICK op \in OpType : op = Head(outer) /\ op = outer[1] /\ 1 \in 1..Len(outer)
    BY <1>3, <1>4
  <1>8. Offered = IF op.kind \in Streamed THEN op ELSE None
    BY <1>1, <1>7 DEF Offered, Streamed
  <1>9. CASE op.kind \notin Streamed
    BY <1>1, <1>6, <1>7, <1>8, <1>9, AdvancePlain DEF Stream!vars
  <1>10. CASE op.kind \in Streamed
    <2>1. op # None
      BY NoneAssumption
    <2>2. Fits(got, op)
      BY <1>7, <1>10 DEF StreamInv, Pending, Offers
    <2>3. got.at \in Nat /\ op.seq \in Nat
      BY <1>1 DEF Place, OpType
    <2>4. /\ got'.sid = op.sid
          /\ got'.at = IF op.kind = "ready" \/ op.seq > got.at THEN op.seq ELSE got.at
      <3>1. CASE op.kind = "ready"
        BY <1>1, <1>7, <3>1 DEF Advance
      <3>2. CASE op.kind = "event"
        BY <1>1, <1>7, <2>2, <2>3, <3>2 DEF Advance, Fits
      <3>3. CASE op.kind = "unknown"
        BY <1>1, <1>7, <2>2, <2>3, <3>3 DEF Advance, Fits, Place
      <3> QED BY <1>10, <3>1, <3>2, <3>3 DEF Streamed
    <2> QED BY <1>6, <1>8, <1>10, <2>1, <2>4 DEF Stream!Take
  <1> QED BY <1>9, <1>10

LEMMA OnlyTheseTouch ==
  ASSUME [Next]_vars
  PROVE  EmitNext \/ Take \/ UNCHANGED <<got, outer>>
  <1>1. CASE spin
    BY <1>1 DEF spin, CtxDone, Receive, ReceiveOp, ReceiveFatal, Heartbeat, Reconnect, DialOK,
                DialFailed, Backoff, RetryIdentify, Finalize, Exit, user
  <1>2. CASE Server
    BY <1>2 DEF Server, Reply, ServerHello, AcceptIdentify, AcceptResume, SendEvent,
                SendResumed, SendAck, Refuse, NewEvent, Ask, Drop, Mute, Rest, user
  <1>3. CASE Connect \/ Cancel \/ Tick \/ UNCHANGED vars
    BY <1>3 DEF Connect, Cancel, Tick, vars, user
  <1> QED BY <1>1, <1>2, <1>3 DEF Next, Stopped

(* Whatever the network, the server and the user do, the reader of the      *)
(* channel sees every event of a session once and in order, an undecodable  *)
(* one at most repeated: each step of the gateway is a step of EventStream  *)
(* or leaves it as it is.                                                   *)
THEOREM ImplementsEventStream == Spec => EventsInOrder
  <1>1. Init => Stream!Init
    BY DEF Init, Stream!Init, Offered
  <1>2. StreamInv /\ [Next]_vars => [Stream!Next]_(Stream!vars)
    <2> SUFFICES ASSUME StreamInv, [Next]_vars
                 PROVE  Stream!Next \/ UNCHANGED Stream!vars
      OBVIOUS
    <2>1. CASE EmitNext
      BY <2>1, EmitNextOffers DEF Stream!Next
    <2>2. CASE Take
      BY <2>2, TakeTakes DEF Stream!Next
    <2>3. CASE UNCHANGED <<got, outer>>
      BY <2>3, StreamStutter
    <2> QED BY <2>1, <2>2, <2>3, OnlyTheseTouch
  <1> QED BY <1>1, <1>2, StreamInit, StreamStep, PTL DEF Spec, EventsInOrder, Stream!Spec
==============================================================================
