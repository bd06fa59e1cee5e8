---------------------------- MODULE VoiceProofs ----------------------------
(***************************************************************************)
(* Why a voice session that was left stays left, and never loses sight of a *)
(* gateway: whoever dials or starts one holds Session.mut, and whoever gets *)
(* the mutex after Leave finds the manager closed.                          *)
(***************************************************************************)
EXTENDS VoiceSession, TLAPS

(* Where a goroutine can be.                                                *)
Connects == {"pause", "start", "spin", "dial", "send", "select", "continue"}
Leaves == {"leave.cancel", "leave.wait", "leave.done"}
Looks == {"acquire", "release"}
Labels == {"idle", "join", "ask", "retry", "update", "update.lock", "write", "leave"}
          \cup Connects \cup Leaves \cup Looks

VoiceTypes ==
    /\ pc \in [Callers -> Labels] /\ mut \in Callers \cup {Nobody}
    /\ found \in [Callers -> BOOLEAN] /\ stopped \in BOOLEAN /\ left \in BOOLEAN
    /\ expired \in [Callers -> BOOLEAN]

(* Every method keeps to its own labels.                                    *)
Places == \A c \in Callers :
    /\ pc[c] \in {"join", "ask", "retry"} => c \in Joiners
    /\ pc[c] \in Connects => c \in Joiners \cup Updaters
    /\ pc[c] \in Leaves \cup {"leave"} => c \in Leavers
    /\ pc[c] \in {"update", "update.lock"} => c \in Updaters
    /\ pc[c] \in Looks => c \notin Joiners
    /\ pc[c] = "write" => c \in Writers

(* Between Lock and Unlock a goroutine has the mutex.                       *)
Locked(c) == \/ pc[c] \in {"ask", "retry"} \cup Connects \cup Leaves
             \/ pc[c] \in Looks /\ c \notin Writers
MutHeld == \A c \in Callers : Locked(c) => mut = c

(* After Leave has closed the manager and cancelled the gateway both stay   *)
(* so until it returns.                                                     *)
ShutDown == stopped /\ running \subseteq cancelled
LeaverShuts == \A c \in Leavers : pc[c] \in Leaves \cup Looks => ShutDown

(* And from then on: an update that gets the mutex finds no connection.     *)
LeftAlone ==
    left => /\ ShutDown
            /\ \A j \in Joiners : pc[j] = "idle"
            /\ \A c \in Updaters : pc[c] \notin Connects /\ (pc[c] = "release" => ~found[c])

IInv == VoiceTypes /\ Places /\ MutHeld /\ LeaverShuts /\ LeftAlone

-----------------------------------------------------------------------------
(* OneGateway is inductive by itself: whatever replaces or forgets the      *)
(* gateway cancels it first.                                                *)
LEMMA OneGatewayStep == OneGateway /\ [Next]_vars => OneGateway'
  <1> SUFFICES ASSUME OneGateway, [Next]_vars PROVE OneGateway'
    OBVIOUS
  <1> USE DEF OneGateway, CancelGateway, ours, gates, Ours
  <1>1. ASSUME NEW c \in Callers, CallJoin(c) PROVE OneGateway'
    BY <1>1 DEF CallJoin
  <1>2. ASSUME NEW c \in Callers, Join(c) PROVE OneGateway'
    BY <1>2 DEF Join
  <1>3. ASSUME NEW c \in Callers, Asked(c) PROVE OneGateway'
    BY <1>3 DEF Asked
  <1>4. ASSUME NEW c \in Callers, AskFails(c) PROVE OneGateway'
    BY <1>4 DEF AskFails
  <1>5. ASSUME NEW c \in Callers, Retry(c) PROVE OneGateway'
    BY <1>5 DEF Retry
  <1>6. ASSUME NEW c \in Callers, JoinGivesUp(c) PROVE OneGateway'
    BY <1>6 DEF JoinGivesUp, Return
  <1>7. ASSUME NEW c \in Callers, StartPause(c) PROVE OneGateway'
    BY <1>7 DEF StartPause, Return
  <1>8. ASSUME NEW c \in Callers, StartGateway(c) PROVE OneGateway'
    BY <1>8 DEF StartGateway
  <1>9. ASSUME NEW c \in Callers, SpinFails(c) PROVE OneGateway'
    BY <1>9 DEF SpinFails, Failed
  <1>10. ASSUME NEW c \in Callers, SpinReady(c) PROVE OneGateway'
    BY <1>10 DEF SpinReady
  <1>11. ASSUME NEW c \in Callers, Dials(c) PROVE OneGateway'
    BY <1>11 DEF Dials
  <1>12. ASSUME NEW c \in Callers, CannotDial(c) PROVE OneGateway'
    BY <1>12 DEF CannotDial, Failed
  <1>13. ASSUME NEW c \in Callers, SelectProtocol(c) PROVE OneGateway'
    BY <1>13 DEF SelectProtocol, Failed
  <1>14. ASSUME NEW c \in Callers, SessionDescription(c) PROVE OneGateway'
    BY <1>14 DEF SessionDescription
  <1>15. ASSUME NEW c \in Callers, Resume(c) PROVE OneGateway'
    BY <1>15 DEF Resume, Return
  <1>16. ASSUME NEW c \in Callers, CallLeave(c) PROVE OneGateway'
    BY <1>16 DEF CallLeave
  <1>17. ASSUME NEW c \in Callers, Leave(c) PROVE OneGateway'
    BY <1>17 DEF Leave
  <1>18. ASSUME NEW c \in Callers, LeaveCancels(c) PROVE OneGateway'
    BY <1>18 DEF LeaveCancels
  <1>19. ASSUME NEW c \in Callers, LeaveReturns(c) PROVE OneGateway'
    BY <1>19 DEF LeaveReturns, Return
  <1>20. ASSUME NEW c \in Callers, UpdateStarts(c) PROVE OneGateway'
    BY <1>20 DEF UpdateStarts
  <1>21. ASSUME NEW c \in Callers, UpdateLocks(c) PROVE OneGateway'
    BY <1>21 DEF UpdateLocks
  <1>22. ASSUME NEW c \in Callers, Acquire(c) PROVE OneGateway'
    BY <1>22 DEF Acquire
  <1>23. ASSUME NEW c \in Callers, Release(c) PROVE OneGateway'
    <2>1. UNCHANGED <<running, cancelled>>
      BY <1>23 DEF Release
    <2>2. CASE c \in Writers /\ UNCHANGED ours
      BY <2>1, <2>2
    <2>3. CASE Update(c)
      BY <2>1, <2>3 DEF Update
    <2>4. CASE UNCHANGED Ours
      BY <2>1, <2>4
    <2> QED BY <1>23, <2>2, <2>3, <2>4 DEF Release
  <1>24. ASSUME NEW c \in Callers, CallWrite(c) PROVE OneGateway'
    BY <1>24 DEF CallWrite
  <1>25. ASSUME NEW c \in Callers, Write(c) PROVE OneGateway'
    BY <1>25 DEF Write
  <1>26. ASSUME NEW c \in Callers, Expire(c) PROVE OneGateway'
    BY <1>26 DEF Expire
  <1>27. ASSUME NEW c \in Callers, NEW g \in Guilds, Notify(c, g) PROVE OneGateway'
    BY <1>27 DEF Notify
  <1>28. ASSUME NEW g \in Guilds, NEW what \in {"server", "state"}, Announce(g, what) PROVE OneGateway'
    BY <1>28 DEF Announce
  <1>29. ASSUME NEW n \in running, GatewayEnds(n) PROVE OneGateway'
    BY <1>29 DEF GatewayEnds
  <1>30. CASE UNCHANGED vars
    BY <1>30 DEF vars
  <1> QED BY <1>1, <1>2, <1>3, <1>4, <1>5, <1>6, <1>7, <1>8, <1>9, <1>10, <1>11, <1>12, <1>13, <1>14, <1>15, <1>16, <1>17, <1>18, <1>19, <1>20, <1>21, <1>22, <1>23, <1>24, <1>25, <1>26, <1>27, <1>28, <1>29, <1>30 DEF Next, Joining, Reconnecting, Leaving

(* Reconnects, joins and leaves lose sight of no voice gateway.             *)
THEOREM GatewaysOwned == Spec => []OneGateway
  <1>1. Init => OneGateway BY DEF Init, OneGateway
  <1> QED BY <1>1, OneGatewayStep, PTL DEF Spec

-----------------------------------------------------------------------------
(* A new session is idle everywhere.                                        *)
LEMMA InitInvariant == Init => IInv
  BY VoiceAssumption DEF Init, NewManager, IInv, VoiceTypes, Places, Locked, MutHeld, ShutDown, LeaverShuts, LeftAlone,
     Labels, Connects, Leaves, Looks

(* Whoever connects holds the mutex, so does a Leave until it returns, and  *)
(* an update that comes after it finds the manager stopped.                 *)
LEMMA StepInvariant == IInv /\ OneGateway /\ [Next]_vars => IInv'
  <1> SUFFICES ASSUME IInv, OneGateway, [Next]_vars PROVE IInv'
    OBVIOUS
  <1> USE VoiceAssumption DEF IInv, VoiceTypes, Places, Locked, MutHeld, ShutDown, LeaverShuts, LeftAlone,
     Labels, Connects, Leaves, Looks, udp, ours, gates, Ours, Goto, Idle, Lock
  <1>1. ASSUME NEW c \in Callers, CallJoin(c) PROVE IInv'
    <2>1. VoiceTypes' BY <1>1 DEF CallJoin
    <2>2. Places' BY <1>1 DEF CallJoin
    <2>3. MutHeld' BY <1>1 DEF CallJoin
    <2>4. LeaverShuts' BY <1>1 DEF CallJoin
    <2>5. LeftAlone' BY <1>1 DEF CallJoin
    <2> QED BY <2>1, <2>2, <2>3, <2>4, <2>5
  <1>2. ASSUME NEW c \in Callers, Join(c) PROVE IInv'
    BY <1>2 DEF Join, Close, CancelGateway
  <1>3. ASSUME NEW c \in Callers, Asked(c) PROVE IInv'
    BY <1>3 DEF Asked
  <1>4. ASSUME NEW c \in Callers, AskFails(c) PROVE IInv'
    BY <1>4 DEF AskFails
  <1>5. ASSUME NEW c \in Callers, Retry(c) PROVE IInv'
    BY <1>5 DEF Retry
  <1>6. ASSUME NEW c \in Callers, JoinGivesUp(c) PROVE IInv'
    BY <1>6 DEF JoinGivesUp, Return
  <1>7. ASSUME NEW c \in Callers, StartPause(c) PROVE IInv'
    <2>1. CASE Pause /\ Goto(c, "start") /\ UNCHANGED <<mut, joining, try, expired, heard, event>>
      <3>1. VoiceTypes' BY <1>7, <2>1 DEF StartPause, Pause
      <3>2. Places' BY <1>7, <2>1 DEF StartPause, Pause
      <3>3. MutHeld' BY <1>7, <2>1 DEF StartPause, Pause
      <3>4. LeaverShuts' BY <1>7, <2>1 DEF StartPause, Pause
      <3>5. LeftAlone' BY <1>7, <2>1 DEF StartPause, Pause
      <3> QED BY <3>1, <3>2, <3>3, <3>4, <3>5
    <2>2. CASE Return(c) /\ UNCHANGED udp
      BY <1>7, <2>2 DEF StartPause, Return
    <2> QED BY <1>7, <2>1, <2>2 DEF StartPause
  <1>8. ASSUME NEW c \in Callers, StartGateway(c) PROVE IInv'
    BY <1>8 DEF StartGateway, Close, CancelGateway
  <1>9. ASSUME NEW c \in Callers, SpinFails(c) PROVE IInv'
    BY <1>9 DEF SpinFails, Failed, CancelGateway
  <1>10. ASSUME NEW c \in Callers, SpinReady(c) PROVE IInv'
    BY <1>10 DEF SpinReady
  <1>11. ASSUME NEW c \in Callers, Dials(c) PROVE IInv'
    <2>1. VoiceTypes' BY <1>11 DEF Dials, DialDone
    <2>2. Places' BY <1>11 DEF Dials, DialDone
    <2>3. MutHeld' BY <1>11 DEF Dials, DialDone
    <2>4. LeaverShuts' BY <1>11 DEF Dials, DialDone
    <2>5. LeftAlone' BY <1>11 DEF Dials, DialDone
    <2> QED BY <2>1, <2>2, <2>3, <2>4, <2>5
  <1>12. ASSUME NEW c \in Callers, CannotDial(c) PROVE IInv'
    BY <1>12 DEF CannotDial, DialRefused, DialFailed, Failed, CancelGateway
  <1>13. ASSUME NEW c \in Callers, SelectProtocol(c) PROVE IInv'
    BY <1>13 DEF SelectProtocol, Failed, CancelGateway
  <1>14. ASSUME NEW c \in Callers, SessionDescription(c) PROVE IInv'
    BY <1>14 DEF SessionDescription
  <1>15. ASSUME NEW c \in Callers, Resume(c) PROVE IInv'
    BY <1>15 DEF Resume, Continue, Return
  <1>16. ASSUME NEW c \in Callers, CallLeave(c) PROVE IInv'
    BY <1>16 DEF CallLeave
  <1>17. ASSUME NEW c \in Callers, Leave(c) PROVE IInv'
    BY <1>17 DEF Leave, Close, CancelGateway, OneGateway
  <1>18. ASSUME NEW c \in Callers, LeaveCancels(c) PROVE IInv'
    BY <1>18 DEF LeaveCancels, CancelGateway
  <1>19. ASSUME NEW c \in Callers, LeaveReturns(c) PROVE IInv'
    BY <1>19 DEF LeaveReturns, Return
  <1>20. ASSUME NEW c \in Callers, UpdateStarts(c) PROVE IInv'
    <2>1. CASE Idle(c)
      BY <1>20, <2>1 DEF UpdateStarts
    <2>2. CASE Goto(c, "update.lock") /\ UNCHANGED <<try, expired, heard, event>>
      BY <1>20, <2>2 DEF UpdateStarts
    <2> QED BY <1>20, <2>1, <2>2, Zenon DEF UpdateStarts
  <1>21. ASSUME NEW c \in Callers, UpdateLocks(c) PROVE IInv'
    BY <1>21 DEF UpdateLocks
  <1>22. ASSUME NEW c \in Callers, Acquire(c) PROVE IInv'
    <2>1. VoiceTypes' BY <1>22 DEF Acquire, AcquireConn
    <2>2. Places' BY <1>22 DEF Acquire, AcquireConn
    <2>3. MutHeld' BY <1>22 DEF Acquire, AcquireConn
    <2>4. LeaverShuts' BY <1>22 DEF Acquire, AcquireConn
    <2>5. LeftAlone' BY <1>22 DEF Acquire, AcquireConn
    <2> QED BY <2>1, <2>2, <2>3, <2>4, <2>5
  <1>23. ASSUME NEW c \in Callers, Release(c) PROVE IInv'
    <2>1. CASE c \in Writers /\ Goto(c, "write") /\ UNCHANGED <<ours, try, expired, heard, event, found, left>>
      BY <1>23, <2>1 DEF Release
    <2>2. CASE c \in Updaters /\ Update(c) /\ found' = [found EXCEPT ![c] = FALSE] /\ UNCHANGED left
      <3>1. CASE found[c] /\ event[c] = guild
        BY <1>23, <2>2, <3>1 DEF Release, Update
      <3>2. CASE Return(c)
        BY <1>23, <2>2, <3>2 DEF Release, Return
      <3> QED BY <2>2, <3>1, <3>2 DEF Update
    <2>3. CASE /\ c \in Leavers /\ Return(c) /\ left' = (\A j \in Joiners : pc[j] = "idle")
               /\ found' = [found EXCEPT ![c] = FALSE] /\ UNCHANGED Ours
      BY <1>23, <2>3 DEF Release, Return
    <2> QED BY <1>23, <2>1, <2>2, <2>3 DEF Release
  <1>24. ASSUME NEW c \in Callers, CallWrite(c) PROVE IInv'
    BY <1>24 DEF CallWrite
  <1>25. ASSUME NEW c \in Callers, Write(c) PROVE IInv'
    BY <1>25 DEF Write
  <1>26. ASSUME NEW c \in Callers, Expire(c) PROVE IInv'
    BY <1>26 DEF Expire
  <1>27. ASSUME NEW c \in Callers, NEW g \in Guilds, Notify(c, g) PROVE IInv'
    BY <1>27 DEF Notify
  <1>28. ASSUME NEW g \in Guilds, NEW what \in {"server", "state"}, Announce(g, what) PROVE IInv'
    BY <1>28 DEF Announce
  <1>29. ASSUME NEW n \in running, GatewayEnds(n) PROVE IInv'
    BY <1>29 DEF GatewayEnds, procs
  <1>30. CASE UNCHANGED vars
    BY <1>30 DEF vars, procs
  <1> HIDE DEF IInv, OneGateway, VoiceTypes, Places, Locked, MutHeld, ShutDown, LeaverShuts, LeftAlone,
     Labels, Connects, Leaves, Looks, udp, ours, gates, Ours, Goto, Idle, Lock
  <1> QED BY <1>1, <1>2, <1>3, <1>4, <1>5, <1>6, <1>7, <1>8, <1>9, <1>10, <1>11, <1>12, <1>13, <1>14, <1>15, <1>16, <1>17, <1>18, <1>19, <1>20, <1>21, <1>22, <1>23, <1>24, <1>25, <1>26, <1>27, <1>28, <1>29, <1>30 DEF Next, Joining, Reconnecting, Leaving

(* Once Leave has returned, with nobody joining, no update that was under   *)
(* way connects the session again.                                          *)
THEOREM StaysLeft == Spec => []LeftStaysLeft
  <1>1. IInv => LeftStaysLeft
    BY DEF IInv, LeftAlone, ShutDown, LeftStaysLeft, Connecting, Connects
  <1> QED BY <1>1, GatewaysOwned, InitInvariant, StepInvariant, PTL DEF Spec

-----------------------------------------------------------------------------
(* The sockets of a manager, and its connections: between Pause and Dial    *)
(* there is at most the one that is to be replaced, between Dial and        *)
(* Continue at most that one and the new one.                               *)
Before == {"start", "spin", "dial"}
After == {"send", "select", "continue"}
Sockets ==
    /\ SocketsOwned
    /\ \A c \in Callers :
        /\ pc[c] \in Before => open \subseteq {conn} /\ prevConn = conn
        /\ pc[c] \in After => open \subseteq {conn, prevConn}

(* What all steps but Pause, Dial and Continue do: they open and close no   *)
(* socket and start and end no connecting.                                  *)
KeepsConnecting(c) ==
    /\ pc'[c] \in Before => pc[c] \in Before
    /\ pc'[c] \in After => pc[c] \in Before \cup After
    /\ Connecting(c) => Connecting(c)'
Quiet == UNCHANGED <<open, conn, prevConn>> /\ \A c \in Callers : KeepsConnecting(c)

LEMMA QuietKeepsSockets == Sockets /\ Quiet => Sockets'
  BY DEF Sockets, Quiet, KeepsConnecting, SocketsOwned, Connecting, Before, After

LEMMA QuietSteps ==
  ASSUME IInv, [Next]_vars,
         \A c \in Callers : ~StartPause(c) /\ ~Dials(c) /\ ~Resume(c)
  PROVE  Quiet
  <1> USE DEF Quiet, KeepsConnecting, Connecting, Before, After, udp, ours, gates, Ours, Goto, Idle, Lock
  <1>0. pc \in [Callers -> Labels] BY DEF IInv, VoiceTypes
  <1>1. ASSUME NEW c \in Callers, CallJoin(c) PROVE Quiet
    BY <1>0, <1>1 DEF CallJoin
  <1>2. ASSUME NEW c \in Callers, Join(c) PROVE Quiet
    BY <1>0, <1>2 DEF Join, Close
  <1>3. ASSUME NEW c \in Callers, Asked(c) PROVE Quiet
    BY <1>0, <1>3 DEF Asked
  <1>4. ASSUME NEW c \in Callers, AskFails(c) PROVE Quiet
    BY <1>0, <1>4 DEF AskFails
  <1>5. ASSUME NEW c \in Callers, Retry(c) PROVE Quiet
    BY <1>0, <1>5 DEF Retry
  <1>6. ASSUME NEW c \in Callers, JoinGivesUp(c) PROVE Quiet
    BY <1>0, <1>6 DEF JoinGivesUp, Return
  <1>7. ASSUME NEW c \in Callers, StartGateway(c) PROVE Quiet
    BY <1>0, <1>7 DEF StartGateway, Close
  <1>8. ASSUME NEW c \in Callers, SpinFails(c) PROVE Quiet
    BY <1>0, <1>8 DEF SpinFails, Failed
  <1>9. ASSUME NEW c \in Callers, SpinReady(c) PROVE Quiet
    BY <1>0, <1>9 DEF SpinReady
  <1>10. ASSUME NEW c \in Callers, CannotDial(c) PROVE Quiet
    BY <1>0, <1>10 DEF CannotDial, DialRefused, DialFailed, Failed
  <1>11. ASSUME NEW c \in Callers, SelectProtocol(c) PROVE Quiet
    BY <1>0, <1>11 DEF SelectProtocol, Failed
  <1>12. ASSUME NEW c \in Callers, SessionDescription(c) PROVE Quiet
    BY <1>0, <1>12 DEF SessionDescription
  <1>13. ASSUME NEW c \in Callers, CallLeave(c) PROVE Quiet
    BY <1>0, <1>13 DEF CallLeave
  <1>14. ASSUME NEW c \in Callers, Leave(c) PROVE Quiet
    BY <1>0, <1>14 DEF Leave, Close
  <1>15. ASSUME NEW c \in Callers, LeaveCancels(c) PROVE Quiet
    BY <1>0, <1>15 DEF LeaveCancels
  <1>16. ASSUME NEW c \in Callers, LeaveReturns(c) PROVE Quiet
    BY <1>0, <1>16 DEF LeaveReturns, Return
  <1>17. ASSUME NEW c \in Callers, UpdateStarts(c) PROVE Quiet
    BY <1>0, <1>17 DEF UpdateStarts
  <1>18. ASSUME NEW c \in Callers, UpdateLocks(c) PROVE Quiet
    BY <1>0, <1>18 DEF UpdateLocks
  <1>19. ASSUME NEW c \in Callers, Acquire(c) PROVE Quiet
    BY <1>0, <1>19 DEF Acquire, AcquireConn
  <1>20. ASSUME NEW c \in Callers, Release(c) PROVE Quiet
    BY <1>0, <1>20 DEF Release, Return, Update
  <1>21. ASSUME NEW c \in Callers, CallWrite(c) PROVE Quiet
    BY <1>0, <1>21 DEF CallWrite
  <1>22. ASSUME NEW c \in Callers, Write(c) PROVE Quiet
    BY <1>0, <1>22 DEF Write
  <1>23. ASSUME NEW c \in Callers, Expire(c) PROVE Quiet
    BY <1>0, <1>23 DEF Expire
  <1>24. ASSUME NEW c \in Callers, NEW g \in Guilds, Notify(c, g) PROVE Quiet
    BY <1>0, <1>24 DEF Notify
  <1>25. ASSUME NEW g \in Guilds, NEW what \in {"server", "state"}, Announce(g, what) PROVE Quiet
    BY <1>0, <1>25 DEF Announce
  <1>26. ASSUME NEW n \in running, GatewayEnds(n) PROVE Quiet
    BY <1>0, <1>26 DEF GatewayEnds, procs
  <1>27. CASE UNCHANGED vars
    BY <1>27 DEF vars, procs
  <1> HIDE DEF Quiet, KeepsConnecting, Connecting, Before, After, udp, ours, gates, Ours, Goto, Idle, Lock
  <1> QED BY <1>1, <1>2, <1>3, <1>4, <1>5, <1>6, <1>7, <1>8, <1>9, <1>10, <1>11, <1>12, <1>13, <1>14, <1>15, <1>16, <1>17, <1>18, <1>19, <1>20, <1>21, <1>22, <1>23, <1>24, <1>25, <1>26, <1>27 DEF Next, Joining, Reconnecting, Leaving

LEMMA SocketStep == IInv /\ Sockets /\ [Next]_vars => Sockets'
  <1> SUFFICES ASSUME IInv, Sockets, [Next]_vars PROVE Sockets'
    OBVIOUS
  <1>0. /\ pc \in [Callers -> Labels]
        /\ \A c, d \in Callers : pc[c] \in Before \cup After \cup {"pause"} /\ c # d
               => pc[d] \notin Before \cup After \cup {"pause"}
    BY DEF IInv, VoiceTypes, MutHeld, Locked, Connects, Before, After
  <1> USE DEF Sockets, SocketsOwned, Connecting, Before, After, Goto
  <1>1. ASSUME NEW c \in Callers, StartPause(c) PROVE Sockets'
    <2>1. CASE Pause /\ Goto(c, "start") /\ UNCHANGED <<mut, joining, try, expired, heard, event>>
      <3>1. \A d \in Callers : ~Connecting(d)
        BY <1>0, <1>1 DEF StartPause
      <3> QED BY <1>0, <1>1, <2>1, <3>1 DEF StartPause, Pause
    <2>2. CASE expired[c] /\ Return(c) /\ UNCHANGED udp
      BY <1>0, <1>1, <2>2 DEF StartPause, Return, Idle, udp
    <2> QED BY <1>1, <2>1, <2>2 DEF StartPause
  <1>2. ASSUME NEW c \in Callers, Dials(c) PROVE Sockets'
    <2>1. open' \subseteq {conn', prevConn'}
      BY <1>2 DEF Dials, DialDone
    <2>2. pc'[c] = "send" /\ \A d \in Callers \ {c} : pc'[d] \notin Before \cup After
      BY <1>0, <1>2 DEF Dials
    <2> QED BY <2>1, <2>2
  <1>3. ASSUME NEW c \in Callers, Resume(c) PROVE Sockets'
    <2>1. open' \subseteq {conn'}
      BY <1>3 DEF Resume, Continue
    <2>2. \A d \in Callers : pc'[d] \notin Before \cup After
      BY <1>0, <1>3 DEF Resume, Return, Idle
    <2> QED BY <2>1, <2>2
  <1>4. CASE \A c \in Callers : ~StartPause(c) /\ ~Dials(c) /\ ~Resume(c)
    BY <1>4, QuietSteps, QuietKeepsSockets
  <1> QED BY <1>1, <1>2, <1>3, <1>4

(* Whatever fails in the middle of a reconnect, no socket but the current   *)
(* connection is left open when nobody connects: Continue closes the one    *)
(* that was replaced.                                                       *)
THEOREM SocketsAreOwned == Spec => []SocketsOwned
  <1>1. Init => Sockets
    BY DEF Init, NewManager, Sockets, SocketsOwned, Before, After
  <1>2. Sockets => SocketsOwned BY DEF Sockets
  <1> QED BY <1>1, <1>2, GatewaysOwned, InitInvariant, StepInvariant, SocketStep, PTL DEF Spec
=============================================================================
