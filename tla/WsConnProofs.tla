---------------------------- MODULE WsConnProofs ----------------------------
(***************************************************************************)
(* Why a websocket of WsConn has one writer at a time, the write mutex, and *)
(* one socket in use: whoever dials closes what was there.                  *)
(***************************************************************************)
EXTENDS WsConn, TLAPS

USE DEF Conns, NoConn, Writers, Home, At, Goto, Running

LEMMA TypeInit == Init => TypeOK
  BY ConstantsAssumption DEF Init, TypeOK

(* What a step of a sender, and of anybody else, does to the types.         *)
LEMMA TypeStep == TypeOK /\ WritersHold /\ [Next]_vars => TypeOK'
  <1> SUFFICES ASSUME TypeOK, WritersHold, [Next]_vars PROVE TypeOK'
    OBVIOUS
  <1> USE ConstantsAssumption
  <1>1. ASSUME NEW g \in Writers, Send(g) PROVE TypeOK'
    BY <1>1 DEF Send, TypeOK
  <1>2. ASSUME NEW g \in Writers, Sending(g) \/ GiveUp(g) PROVE TypeOK'
    <2>1. CASE CheckOpen(g) BY <2>1 DEF CheckOpen, TypeOK
    <2>2. CASE Acquire(g) BY <2>2 DEF Acquire, TypeOK
    <2>3. CASE BeginWrite(g) BY <2>3 DEF BeginWrite, TypeOK
    <2>4. CASE EndWrite(g)
      <3>1. conn[g] \in Conns BY <2>4 DEF EndWrite, WritersHold
      <3> QED BY <2>4, <3>1 DEF EndWrite, TypeOK
    <2>5. CASE GiveUp(g) BY <2>5 DEF GiveUp, TypeOK
    <2> QED BY <1>2, <2>1, <2>2, <2>3, <2>4, <2>5 DEF Sending
  <1>3. CASE Dial
    BY <1>3 DEF Dial, DialNext, TypeOK
  <1>4. CASE Receive
    BY <1>4 DEF Receive, TypeOK, WritersHold
  <1>5. ASSUME NEW gracefully \in BOOLEAN, Close(gracefully) PROVE TypeOK'
    BY <1>5 DEF Close, TypeOK
  <1>6. CASE Closing
    <2>1. CASE LockFrame BY <2>1 DEF LockFrame, TypeOK
    <2>2. CASE EndFrame BY <2>2 DEF EndFrame, TypeOK
    <2>3. CASE Shut BY <2>3 DEF Shut, TypeOK
    <2> QED BY <1>6, <2>1, <2>2, <2>3 DEF Closing
  <1>7. ASSUME NEW i \in Conns, readLoop(i) \/ Break(i) PROVE TypeOK'
    <2>1. CASE Read(i) BY <2>1 DEF Read, TypeOK
    <2>2. CASE Deliver(i) BY <2>2 DEF Deliver, TypeOK
    <2>3. CASE DeliverClose(i) BY <2>3 DEF DeliverClose, TypeOK
    <2>4. CASE Break(i) BY <2>4 DEF Break, TypeOK
    <2> QED BY <1>7, <2>1, <2>2, <2>3, <2>4 DEF readLoop
  <1>8. CASE UNCHANGED vars
    BY <1>8 DEF vars, TypeOK
  <1> QED BY <1>1, <1>2, <1>3, <1>4, <1>5, <1>6, <1>7, <1>8 DEF Next, Stopped

LEMMA HoldInit == Init => WritersHold
  BY ConstantsAssumption DEF Init, WritersHold

LEMMA HoldStep == TypeOK /\ WritersHold /\ [Next]_vars => WritersHold'
  <1> SUFFICES ASSUME TypeOK, WritersHold, [Next]_vars PROVE WritersHold'
    OBVIOUS
  <1> USE ConstantsAssumption
  <1>1. ASSUME NEW g \in Writers, Send(g) PROVE WritersHold'
    BY <1>1 DEF Send, TypeOK, WritersHold
  <1>2. ASSUME NEW g \in Writers, Sending(g) \/ GiveUp(g) PROVE WritersHold'
    <2>1. CASE CheckOpen(g) BY <2>1 DEF CheckOpen, TypeOK, WritersHold
    <2>2. CASE Acquire(g) BY <2>2 DEF Acquire, TypeOK, WritersHold
    <2>3. CASE BeginWrite(g) BY <2>3 DEF BeginWrite, TypeOK, WritersHold
    <2>4. CASE EndWrite(g)
      <3>1. conn[g] \in Conns /\ wrmut[conn[g]] = g
        BY <2>4 DEF EndWrite, WritersHold
      <3> QED BY <2>4, <3>1 DEF EndWrite, TypeOK, WritersHold
    <2>5. CASE GiveUp(g) BY <2>5 DEF GiveUp, TypeOK, WritersHold
    <2> QED BY <1>2, <2>1, <2>2, <2>3, <2>4, <2>5 DEF Sending
  <1>3. CASE Dial
    BY <1>3 DEF Dial, DialNext, TypeOK, WritersHold
  <1>4. CASE Receive
    BY <1>4 DEF Receive, TypeOK, WritersHold
  <1>5. ASSUME NEW gracefully \in BOOLEAN, Close(gracefully) PROVE WritersHold'
    BY <1>5 DEF Close, TypeOK, WritersHold
  <1>6. CASE Closing
    <2>1. CASE LockFrame BY <2>1 DEF LockFrame, TypeOK, WritersHold
    <2>2. CASE EndFrame BY <2>2 DEF EndFrame, TypeOK, WritersHold
    <2>3. CASE Shut BY <2>3 DEF Shut, TypeOK, WritersHold
    <2> QED BY <1>6, <2>1, <2>2, <2>3 DEF Closing
  <1>7. ASSUME NEW i \in Conns, readLoop(i) \/ Break(i) PROVE WritersHold'
    BY <1>7 DEF readLoop, Read, Deliver, DeliverClose, Break, WritersHold
  <1>8. CASE UNCHANGED vars
    BY <1>8 DEF vars, WritersHold
  <1> QED BY <1>1, <1>2, <1>3, <1>4, <1>5, <1>6, <1>7, <1>8 DEF Next, Stopped

LEMMA HoldAlways == Spec => [](TypeOK /\ WritersHold)
  <1>1. TypeOK /\ WritersHold /\ [Next]_vars => (TypeOK /\ WritersHold)'
    BY TypeStep, HoldStep
  <1> QED BY TypeInit, HoldInit, <1>1, PTL DEF Spec

(* Whatever the senders, the loop and the network do, a websocket has one   *)
(* writer at a time.                                                        *)
THEOREM WritesAreSerial == Spec => []OneWriter
  <1>1. TypeOK /\ WritersHold => OneWriter
    BY ConstantsAssumption DEF TypeOK, WritersHold, OneWriter, Writing
  <1> QED BY <1>1, HoldAlways, PTL

(* Every variable keeps its type and every channel its capacity.            *)
THEOREM TypeCorrect == Spec => []TypeOK
  BY HoldAlways, PTL

-----------------------------------------------------------------------------
(* Only Dial makes another connection the current one, and it closes the    *)
(* socket of the one before; a socket that breaks was open.                 *)
LEMMA SocketStep == TypeOK /\ WritersHold /\ OneSocket /\ [Next]_vars => OneSocket'
  <1> SUFFICES ASSUME TypeOK, WritersHold, OneSocket, [Next]_vars PROVE OneSocket'
    OBVIOUS
  <1> USE DEF OneSocket
  <1>1. CASE Dial
    BY <1>1 DEF Dial, DialNext, TypeOK
  <1>2. CASE Shut
    BY <1>2 DEF Shut, TypeOK
  <1>3. ASSUME NEW i \in Conns, Break(i) PROVE OneSocket'
    BY <1>3 DEF Break, TypeOK
  <1>4. CASE UNCHANGED <<current, sock>>
    BY <1>4
  <1>5. ASSUME NEW g \in Writers, Send(g) \/ Sending(g) \/ GiveUp(g) PROVE UNCHANGED <<current, sock>>
    BY <1>5 DEF Send, Sending, CheckOpen, Acquire, BeginWrite, EndWrite, GiveUp
  <1>6. ASSUME NEW gracefully \in BOOLEAN, Close(gracefully) PROVE UNCHANGED <<current, sock>>
    BY <1>6 DEF Close
  <1>7. ASSUME NEW i \in Conns, readLoop(i) PROVE UNCHANGED <<current, sock>>
    BY <1>7 DEF readLoop, Read, Deliver, DeliverClose
  <1>8. ASSUME Receive \/ LockFrame \/ EndFrame \/ UNCHANGED vars PROVE UNCHANGED <<current, sock>>
    BY <1>8 DEF Receive, LockFrame, EndFrame, vars
  <1> QED BY <1>1, <1>2, <1>3, <1>4, <1>5, <1>6, <1>7, <1>8 DEF Next, Closing, Stopped

(* The old socket is closed before a new one is dialed.                     *)
THEOREM SocketsAreSerial == Spec => []OneSocket
  <1>1. Init => OneSocket
    BY DEF Init, OneSocket
  <1> QED BY <1>1, HoldAlways, SocketStep, PTL DEF Spec
=============================================================================
