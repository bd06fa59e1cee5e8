---------------------------- MODULE SessionProofs ----------------------------
(***************************************************************************)
(* Why a session has one event loop at most, however many goroutines and    *)
(* the shard manager open and close it: its mutex is held from the end of   *)
(* one connection to the beginning of the next.  And why the manager leaves *)
(* nothing running behind: an Open that fails leaves its session quiet.     *)
(***************************************************************************)
EXTENDS ShardManager, FiniteSetTheorems, TLAPS

(* Between Lock and Unlock of the session it is at.                         *)
Holding == {"open.close", "open.dial", "open.wait", "open.abort", "close.wait", "wait.closing"}

Domains ==
    /\ DOMAIN mutex = Sessions /\ DOMAIN doneCh = Sessions /\ DOMAIN spin = Sessions
    /\ DOMAIN loops = Sessions
    /\ known \in [Sessions -> BOOLEAN] /\ cancel \in [Sessions -> BOOLEAN]
    /\ DOMAIN pc = Callers /\ DOMAIN at = Callers

MutexHeld ==
    \A c \in Callers : pc[c] \in Holding /\ at[c] \in Sessions => mutex[at[c]] = c

(* The loop that feeds the handlers is the one doneCh stands for, and reads *)
(* from the event loop, if that runs.                                       *)
Fed(s) ==
    /\ loops[s] # {} => /\ known[s] /\ doneCh[s] # 0
                        /\ \E n : loops[s] = {[done |-> doneCh[s], src |-> n]}
    /\ spin[s] # 0 => loops[s] = {[done |-> doneCh[s], src |-> spin[s]]}

(* What has no cancel is quiet, but for who is cancelling it; and what is   *)
(* dialled is quiet.                                                        *)
Settled ==
    /\ \A s \in Sessions : mutex[s] = Free /\ ~cancel[s] => Quiet(s)
    /\ \A c \in Callers : at[c] \in Sessions =>
           /\ pc[c] = "open.dial" => Quiet(at[c])
           /\ pc[c] = "open.wait" => cancel[at[c]]

IInv == Domains /\ MutexHeld /\ Settled /\ \A s \in Sessions : Fed(s)

-----------------------------------------------------------------------------
(* There is a name for a new connection when the old one is gone.           *)
LEMMA FreshConn ==
  ASSUME NEW s \in Sessions, Quiet(s)
  PROVE  NextConn(s) \in 1..MaxConns
  <1> DEFINE Watched == {watch[c] : c \in Callers}
  <1>1. IsFiniteSet(Watched) /\ Cardinality(Watched) <= Cardinality(Callers)
    <2> DEFINE f == [c \in Callers |-> watch[c]]
    <2>1. f \in Surjection(Callers, Watched)
      BY DEF Surjection
    <2> QED BY <2>1, FS_Surjection, SessionAssumption
  <1>2. IsFiniteSet(1..MaxConns) /\ Cardinality(1..MaxConns) = MaxConns
    BY FS_Interval, SessionAssumption
  <1>3. ~ (1..MaxConns \subseteq Watched)
    BY <1>1, <1>2, FS_Subset, FS_CardinalityType, SessionAssumption
  <1>4. PICK n \in 1..MaxConns : n \notin Watched
    BY <1>3
  <1>5. /\ n # spin[s] /\ \A l \in loops[s] : n \notin {l.done, l.src}
        /\ \A c \in Callers : at[c] = s => n # watch[c]
    BY <1>4, SessionAssumption DEF Quiet
  <1> QED BY <1>5 DEF NextConn

LEMMA InitInvariant == Init => IInv
  BY SessionAssumption DEF Init, IInv, Domains, MutexHeld, Fed, Settled, Quiet, Holding

(* What a step does to the caller c, at s, and to s; the rest stays.        *)
Only(c) ==
    /\ pc' = [pc EXCEPT ![c] = pc'[c]] /\ DOMAIN at' = Callers
    /\ \A d \in Callers : d # c => at'[d] = at[d]

LEMMA DoneQuiet ==
  ASSUME IInv, NEW s \in Sessions, Done(s, doneCh[s])
  PROVE  Quiet(s)
  <1>1. CASE loops[s] = {}
    BY <1>1 DEF IInv, Fed, Quiet
  <1>2. CASE loops[s] # {}
    <2>1. PICK n : loops[s] = {[done |-> doneCh[s], src |-> n]}
      BY <1>2 DEF IInv, Fed
    <2> QED BY <2>1 DEF Done
  <1> QED BY <1>1, <1>2

(* Steps that leave the sessions alone.                                     *)
LEMMA Strolls ==
  ASSUME IInv, NEW c \in Callers, Only(c), pc'[c] \notin Holding,
         UNCHANGED <<mutex, known, cancel, doneCh, spin, loops>>
  PROVE  IInv'
  <1>1. Domains'
    BY DEF IInv, Domains, Only
  <1>2. \A d \in Callers : pc'[d] \in Holding => at'[d] = at[d] /\ pc'[d] = pc[d]
    BY DEF IInv, Domains, Only
  <1>3. MutexHeld' /\ Settled'
    BY <1>2 DEF IInv, MutexHeld, Settled, Quiet, Holding
  <1>4. ASSUME NEW s \in Sessions PROVE Fed(s)'
    BY DEF IInv, Fed
  <1> QED BY <1>1, <1>3, <1>4 DEF IInv

(* The end of what needs the lock.                                          *)
LEMMA Unlocks ==
  ASSUME IInv, NEW c \in Callers, Only(c), UNCHANGED <<at, known, cancel, spin, loops>>,
         pc[c] \in Holding, pc'[c] \notin Holding,
         Set(mutex, at[c], Free), UNCHANGED doneCh \/ Set(doneCh, at[c], 0),
         at[c] \in Sessions => Quiet(at[c]) \/ (cancel[at[c]] /\ UNCHANGED doneCh)
  PROVE  IInv'
  <1>1. Domains'
    BY DEF IInv, Domains, Only, Set
  <1>2. \A d \in Callers : pc'[d] \in Holding => pc'[d] = pc[d] /\ d # c
    BY DEF IInv, Domains, Only
  <1>3. ASSUME NEW d \in Callers, pc'[d] \in Holding, at[d] \in Sessions PROVE at[d] # at[c]
    BY <1>2, <1>3 DEF IInv, MutexHeld
  <1>4. MutexHeld'
    BY <1>2, <1>3 DEF IInv, Domains, MutexHeld, Set
  <1>5. Settled'
    BY <1>2 DEF IInv, Domains, Settled, Quiet, Set, Holding
  <1>6. ASSUME NEW s \in Sessions PROVE Fed(s)'
    <2>1. CASE doneCh'[s] = doneCh[s]
      BY <2>1 DEF IInv, Fed
    <2>2. CASE s = at[c] /\ Quiet(s)
      BY <2>2 DEF IInv, Fed, Quiet
    <2> QED BY <2>1, <2>2 DEF IInv, Domains, Set
  <1> QED BY <1>1, <1>4, <1>5, <1>6 DEF IInv

(* Its beginning, and cancelling in the middle of it.                       *)
LEMMA Locks ==
  ASSUME IInv, NEW c \in Callers, Only(c), UNCHANGED <<at, known, spin, loops>>,
         \/ mutex[at[c]] = Free /\ Set(mutex, at[c], c)
         \/ pc[c] \in Holding /\ UNCHANGED mutex,
         Set(cancel, at[c], FALSE) \/ UNCHANGED cancel,
         pc'[c] \in Holding \ {"open.wait"},
         pc'[c] = "open.dial" /\ at[c] \in Sessions => Quiet(at[c]),
         UNCHANGED doneCh \/ (Set(doneCh, at[c], 0) /\ pc'[c] = "open.dial")
  PROVE  IInv'
  <1>1. Domains'
    BY DEF IInv, Domains, Only, Set
  <1>2. \A d \in Callers : d # c => pc'[d] = pc[d]
    BY DEF IInv, Domains, Only
  <1>3. ASSUME NEW d \in Callers, pc[d] \in Holding, at[d] \in Sessions, d # c
        PROVE  at[d] # at[c]
    BY <1>3, SessionAssumption DEF IInv, MutexHeld
  <1>4. at[c] \in Sessions => mutex'[at[c]] = c
    BY DEF IInv, Domains, MutexHeld, Set
  <1>5. MutexHeld'
    BY <1>2, <1>3, <1>4 DEF IInv, Domains, MutexHeld, Set
  <1>6. \A s \in Sessions : s # at[c] => mutex'[s] = mutex[s] /\ cancel'[s] = cancel[s]
    BY DEF IInv, Domains, Set
  <1>7. ASSUME NEW s \in Sessions, mutex'[s] = Free, ~cancel'[s] PROVE Quiet(s)'
    BY <1>4, <1>6, <1>7, SessionAssumption DEF IInv, Settled, Quiet
  <1>8. ASSUME NEW d \in Callers, at[d] \in Sessions
        PROVE  (pc'[d] = "open.dial" => Quiet(at[d])) /\ (pc'[d] = "open.wait" => cancel'[at[d]])
    <2>1. CASE d = c
      BY <1>8, <2>1
    <2>2. CASE d # c
      BY <1>2, <1>3, <1>6, <1>8, <2>2 DEF IInv, Settled, Holding
    <2> QED BY <2>1, <2>2
  <1>9. ASSUME NEW s \in Sessions PROVE Fed(s)'
    <2>1. CASE doneCh'[s] = doneCh[s]
      BY <2>1 DEF IInv, Fed
    <2>2. CASE s = at[c] /\ Quiet(s)
      BY <2>2 DEF IInv, Fed, Quiet
    <2> QED BY <2>1, <2>2 DEF IInv, Domains, Set
  <1> QED BY <1>1, <1>5, <1>7, <1>8, <1>9 DEF IInv, Settled, Quiet

(* A new connection.                                                        *)
LEMMA Connects ==
  ASSUME IInv, NEW c \in Callers, OpenConnect(c)
  PROVE  IInv'
  <1> DEFINE s == at[c]
             n == NextConn(s)
  <1>1. Domains'
    BY DEF IInv, Domains, OpenConnect, Set, Goto
  <1>2. \A d \in Callers : d # c => pc'[d] = pc[d]
    BY DEF IInv, Domains, OpenConnect, Set, Goto
  <1>3. ASSUME NEW d \in Callers, pc[d] \in Holding, at[d] \in Sessions, d # c
        PROVE  at[d] # s
    BY <1>3, SessionAssumption DEF IInv, MutexHeld, OpenConnect, Holding
  <1>4. pc'[c] = "open.wait" /\ UNCHANGED <<mutex, at>>
    BY DEF IInv, Domains, OpenConnect, Set, Goto
  <1>5. MutexHeld'
    BY <1>2, <1>4 DEF IInv, MutexHeld, OpenConnect, Holding
  <1>6. \A t \in Sessions : t # s => /\ cancel'[t] = cancel[t] /\ doneCh'[t] = doneCh[t]
                                     /\ spin'[t] = spin[t] /\ loops'[t] = loops[t]
                                     /\ known'[t] = known[t]
    BY DEF IInv, Domains, OpenConnect, Set
  <1>7. CASE s \in Sessions
    <2>1. Quiet(s) /\ n \in 1..MaxConns /\ n # 0
      BY <1>7, FreshConn, SessionAssumption DEF IInv, Settled, OpenConnect
    <2>2. known'[s] /\ cancel'[s] /\ doneCh'[s] = n /\ spin'[s] = n
      BY <1>7, <2>1 DEF IInv, Domains, OpenConnect, Set, Quiet
    <2>3. loops'[s] = {[done |-> n, src |-> n]}
      BY <1>7, <2>1, <2>2 DEF IInv, Domains, OpenConnect, Quiet
    <2>4. ASSUME NEW t \in Sessions PROVE Fed(t)'
      <3>1. CASE t = s
        BY <2>1, <2>2, <2>3, <3>1 DEF Fed
      <3>2. CASE t # s
        <4>1. Fed(t) BY DEF IInv
        <4> QED BY <1>6, <3>2, <4>1 DEF Fed
      <3> QED BY <3>1, <3>2
    <2>5. Settled'
      BY <1>2, <1>3, <1>4, <1>6, <2>2 DEF IInv, Settled, Quiet, Holding
    <2> QED BY <1>1, <1>5, <2>4, <2>5 DEF IInv
  <1>8. CASE s \notin Sessions
    <2>1. ASSUME NEW t \in Sessions PROVE Fed(t)'
      <3>1. Fed(t) /\ t # s BY <1>8 DEF IInv
      <3> QED BY <1>6, <3>1 DEF Fed
    <2>2. Settled'
      BY <1>2, <1>3, <1>4, <1>6, <1>8 DEF IInv, Settled, Quiet, Holding
    <2> QED BY <1>1, <1>5, <2>1, <2>2 DEF IInv
  <1> QED BY <1>7, <1>8

LEMMA StepInvariant == IInv /\ [Next]_vars => IInv'
  <1> SUFFICES ASSUME IInv, [Next]_vars PROVE IInv'
    OBVIOUS
  <1> USE DEF gate, sess, caller, sessionVars, Set, Goto, Unlock
  <1>1. ASSUME NEW c \in Callers, OpenLock(c) PROVE IInv'
    <2>1. Only(c) /\ pc'[c] \in Holding \ {"open.wait"}
      BY <1>1 DEF OpenLock, Only, Holding, IInv, Domains
    <2>2. pc'[c] = "open.dial" /\ at[c] \in Sessions => Quiet(at[c])
      BY <1>1 DEF OpenLock, Lock, IInv, Domains, Settled
    <2> QED BY <1>1, <2>1, <2>2, Locks DEF OpenLock, Lock, CancelConn
  <1>2. ASSUME NEW c \in Callers, OpenClosed(c) PROVE IInv'
    <2>1. CASE lastError[at[c]] = "nil"
      <3>1. Only(c) /\ pc[c] \in Holding /\ pc'[c] = "open.dial"
        BY <1>2, <2>1 DEF OpenClosed, Only, Holding, IInv, Domains
      <3>2. at[c] \in Sessions => Quiet(at[c])
        BY <1>2, DoneQuiet DEF OpenClosed
      <3>3. UNCHANGED <<at, known, spin, loops, mutex, cancel>> /\ Set(doneCh, at[c], 0)
        BY <1>2, <2>1 DEF OpenClosed
      <3> QED BY <3>1, <3>2, <3>3, Locks DEF Holding
    <2>2. CASE lastError[at[c]] # "nil"
      <3>1. Only(c) /\ pc[c] \in Holding /\ pc'[c] \notin Holding
        BY <1>2, <2>2 DEF OpenClosed, AfterOpen, Give, Only, Holding, IInv, Domains
      <3>2. at[c] \in Sessions => Quiet(at[c])
        BY <1>2, DoneQuiet DEF OpenClosed
      <3>3. /\ UNCHANGED <<at, known, spin, loops, cancel>>
            /\ Set(doneCh, at[c], 0) /\ Set(mutex, at[c], Free)
        BY <1>2, <2>2 DEF OpenClosed
      <3> QED BY <3>1, <3>2, <3>3, Unlocks
    <2> QED BY <2>1, <2>2
  <1>3. ASSUME NEW c \in Callers, OpenNoGateway(c) PROVE IInv'
    <2>1. Only(c) /\ pc[c] \in Holding /\ pc'[c] \notin Holding
      BY <1>3 DEF OpenNoGateway, AfterOpen, Give, Only, Holding, IInv, Domains
    <2>2. at[c] \in Sessions => Quiet(at[c]) \/ (cancel[at[c]] /\ UNCHANGED doneCh)
      BY <1>3 DEF OpenNoGateway, IInv, Settled
    <2> QED BY <1>3, <2>1, <2>2, Unlocks DEF OpenNoGateway
  <1>4. ASSUME NEW c \in Callers, OpenConnect(c) PROVE IInv'
    BY <1>4, Connects
  <1>5. ASSUME NEW c \in Callers, OpenReady(c) PROVE IInv'
    <2>1. Only(c) /\ pc[c] \in Holding /\ pc'[c] \notin Holding
      BY <1>5 DEF OpenReady, AfterOpen, Give, Only, Holding, IInv, Domains
    <2>2. at[c] \in Sessions => Quiet(at[c]) \/ (cancel[at[c]] /\ UNCHANGED doneCh)
      BY <1>5 DEF OpenReady, IInv, Settled
    <2> QED BY <1>5, <2>1, <2>2, Unlocks DEF OpenReady
  <1>6. ASSUME NEW c \in Callers, OpenSkip(c) PROVE IInv'
    BY <1>6, SessionAssumption DEF OpenSkip, IInv, Domains, MutexHeld, Fed, Settled, Quiet, Holding
  <1>7. ASSUME NEW c \in Callers, OpenDied(c) PROVE IInv'
    <2>1. Only(c) /\ pc[c] \in Holding /\ pc'[c] \notin Holding
      BY <1>7 DEF OpenDied, AfterOpen, Give, Only, Holding, IInv, Domains
    <2>2. at[c] \in Sessions => Quiet(at[c]) \/ (cancel[at[c]] /\ UNCHANGED doneCh)
      BY <1>7 DEF OpenDied, IInv, Settled
    <2> QED BY <1>7, <2>1, <2>2, Unlocks DEF OpenDied
  <1>8. ASSUME NEW c \in Callers, OpenCtx(c) PROVE IInv'
    <2>1. Only(c) /\ pc[c] \in Holding /\ pc'[c] = "open.abort"
      BY <1>8 DEF OpenCtx, Only, Holding, IInv, Domains
    <2> QED BY <1>8, <2>1, Locks DEF OpenCtx, CancelConn, Holding
  <1>9. ASSUME NEW c \in Callers, OpenAborted(c) PROVE IInv'
    <2>1. Only(c) /\ pc[c] \in Holding /\ pc'[c] \notin Holding
      BY <1>9 DEF OpenAborted, AfterOpen, Give, Only, Holding, IInv, Domains
    <2>2. at[c] \in Sessions => Quiet(at[c]) \/ (cancel[at[c]] /\ UNCHANGED doneCh)
      BY <1>9, DoneQuiet DEF OpenAborted
    <2> QED BY <1>9, <2>1, <2>2, Unlocks DEF OpenAborted
  <1>10. ASSUME NEW c \in Callers, CloseLock(c) PROVE IInv'
    <2>1. CASE cancel[at[c]]
      <3>1. Only(c) /\ pc'[c] \in {"close.wait", "wait.closing"}
        BY <1>10, <2>1 DEF CloseLock, Only, IInv, Domains
      <3>2. /\ UNCHANGED <<at, known, spin, loops, doneCh>> /\ mutex[at[c]] = Free
            /\ Set(mutex, at[c], c) /\ Set(cancel, at[c], FALSE)
        BY <1>10, <2>1 DEF CloseLock, Lock, CancelConn
      <3> QED BY <3>1, <3>2, Locks DEF Holding
    <2>2. CASE ~cancel[at[c]]
      <3>1. Only(c) /\ pc'[c] \notin Holding
        BY <1>10, <2>2 DEF CloseLock, Give, Only, Holding, IInv, Domains
      <3> QED BY <1>10, <2>2, <3>1, Strolls DEF CloseLock
    <2> QED BY <2>1, <2>2
  <1>11. ASSUME NEW c \in Callers, CloseDone(c) PROVE IInv'
    <2>1. Only(c) /\ pc[c] \in Holding /\ pc'[c] \notin Holding
      BY <1>11 DEF CloseDone, Give, Only, Holding, IInv, Domains
    <2>2. at[c] \in Sessions => Quiet(at[c]) \/ (cancel[at[c]] /\ UNCHANGED doneCh)
      BY <1>11, DoneQuiet DEF CloseDone
    <2> QED BY <1>11, <2>1, <2>2, Unlocks DEF CloseDone
  <1>12. ASSUME NEW c \in Callers, WaitLock(c) PROVE IInv'
    <2>1. Only(c) /\ pc'[c] \notin Holding /\ UNCHANGED sess /\ UNCHANGED gate
      BY <1>12 DEF WaitLock, AfterWait, Give, Only, Holding, IInv, Domains
    <2> QED BY <2>1, Strolls
  <1>13. ASSUME NEW c \in Callers, WaitCtx(c) PROVE IInv'
    BY <1>13, SessionAssumption DEF WaitCtx, IInv, Domains, MutexHeld, Fed, Settled, Quiet, Holding
  <1>14. ASSUME NEW c \in Callers, WaitDone(c) PROVE IInv'
    BY <1>14, SessionAssumption DEF WaitDone, IInv, Domains, MutexHeld, Fed, Settled, Quiet, Holding
  <1>15. ASSUME NEW c \in Callers, WaitError(c) PROVE IInv'
    <2>1. Only(c) /\ pc'[c] \notin Holding /\ UNCHANGED sess /\ UNCHANGED gate
      BY <1>15 DEF WaitError, AfterWait, Give, Only, Holding, IInv, Domains
    <2> QED BY <2>1, Strolls
  <1>16. ASSUME NEW c \in Callers, SendCheck(c) PROVE IInv'
    <2>1. Only(c) /\ pc'[c] \notin Holding /\ UNCHANGED sess /\ UNCHANGED gate
      BY <1>16 DEF SendCheck, Give, Only, Holding, IInv, Domains
    <2> QED BY <2>1, Strolls
  <1>17. ASSUME NEW c \in Callers, SendGo(c) PROVE IInv'
    <2>1. Only(c) /\ pc'[c] \notin Holding /\ UNCHANGED sess /\ UNCHANGED gate
      BY <1>17 DEF SendGo, Give, Only, Holding, IInv, Domains
    <2> QED BY <2>1, Strolls
  <1>18. ASSUME NEW c \in Callers, EndContext(c) PROVE IInv'
    BY <1>18, SessionAssumption DEF EndContext, IInv, Domains, MutexHeld, Fed, Settled, Quiet, Holding
  <1>19. ASSUME NEW c \in Callers, Return(c) PROVE IInv'
    BY <1>19, SessionAssumption DEF Return, IInv, Domains, MutexHeld, Fed, Settled, Quiet, Holding
  <1>20. ASSUME NEW c \in Callers, NEW s \in Reach, NEW m \in Methods, Invoke(c, s, m) PROVE IInv'
    BY <1>20 DEF Invoke, Methods, IInv, Domains, MutexHeld, Fed, Settled, Quiet, Holding
  <1>21. ASSUME NEW s \in Sessions, Trouble(s) PROVE IInv'
    BY <1>21 DEF Trouble, IInv, Domains, MutexHeld, Fed, Settled, Quiet, Holding
  <1>22. ASSUME NEW s \in Sessions, SpinEnds(s) PROVE IInv'
    BY <1>22 DEF SpinEnds, IInv, Domains, MutexHeld, Fed, Settled, Quiet, Holding
  <1>23. ASSUME NEW s \in Sessions, LoopEnds(s) PROVE IInv'
    <2>1. PICK l \in loops[s] : l.src # spin[s] /\ loops' = [loops EXCEPT ![s] = @ \ {l}]
      BY <1>23 DEF LoopEnds
    <2>2. spin[s] = 0 /\ loops'[s] = {}
      BY <2>1 DEF IInv, Domains, Fed
    <2>3. \A t \in Sessions : t # s => loops'[t] = loops[t]
      BY <2>1 DEF IInv, Domains
    <2>4. Domains' /\ MutexHeld'
      BY <1>23, <2>1 DEF LoopEnds, IInv, Domains, MutexHeld
    <2>5. Settled'
      BY <1>23, <2>2, <2>3 DEF LoopEnds, IInv, Settled, Quiet
    <2>6. ASSUME NEW t \in Sessions PROVE Fed(t)'
      <3>0. UNCHANGED <<known, doneCh, spin>> /\ Fed(t)
        BY <1>23 DEF LoopEnds, IInv
      <3>1. CASE t = s
        BY <2>2, <3>0, <3>1 DEF Fed
      <3>2. CASE t # s
        BY <2>3, <3>0, <3>2 DEF Fed
      <3> QED BY <3>1, <3>2
    <2> QED BY <2>4, <2>5, <2>6 DEF IInv
  <1>24. ASSUME NEW s \in Sessions, NEW e \in Events, Deliver(s, e) PROVE IInv'
    BY <1>24 DEF Deliver, IInv, Domains, MutexHeld, Fed, Settled, Quiet, Holding
  <1>25. CASE SessionNext
    BY <1>25, <1>1, <1>2, <1>3, <1>4, <1>5, <1>6, <1>7, <1>8, <1>9, <1>10, <1>11, <1>12, <1>13, <1>14, <1>15, <1>16, <1>17, <1>18, <1>19, <1>20, <1>21, <1>22, <1>23, <1>24, SessionAssumption
    DEF SessionNext, Step, Opening, Closing, Waiting, Sending, Gateway
  <1>26. ASSUME NEW c \in Callers, ManagerOpen(c) PROVE IInv'
    BY <1>26 DEF ManagerOpen, IInv, Domains, MutexHeld, Fed, Settled, Quiet, Holding
  <1>27. ASSUME NEW c \in Callers, ManagerClose(c) PROVE IInv'
    BY <1>27 DEF ManagerClose, IInv, Domains, MutexHeld, Fed, Settled, Quiet, Holding
  <1>28. ASSUME NEW c \in Callers, Rescale(c) PROVE IInv'
    BY <1>28 DEF Rescale, IInv, Domains, MutexHeld, Fed, Settled, Quiet, Holding
  <1>29. ASSUME NEW c \in Callers, TryRescale(c) PROVE IInv'
    BY <1>29 DEF TryRescale, IInv, Domains, MutexHeld, Fed, Settled, Quiet, Holding
  <1>30. ASSUME NEW c \in Callers, OpenNext(c) PROVE IInv'
    <2>1. CASE Enter(c, "open")
      <3>1. Only(c) /\ pc'[c] = "open" /\ UNCHANGED sess /\ UNCHANGED gate
        BY <1>30, <2>1 DEF Enter, Only, IInv, Domains
      <3> QED BY <3>1, Strolls DEF Holding
    <2>2. CASE Finish(c)
      BY <2>2 DEF Finish, IInv, Domains, MutexHeld, Fed, Settled, Quiet, Holding
    <2> QED BY <1>30, <2>1, <2>2 DEF OpenNext
  <1>31. ASSUME NEW c \in Callers, CloseNext(c) PROVE IInv'
    <2>1. CASE Enter(c, "close")
      <3>1. Only(c) /\ pc'[c] = "close" /\ UNCHANGED sess /\ UNCHANGED gate
        BY <1>31, <2>1 DEF Enter, Only, IInv, Domains
      <3> QED BY <3>1, Strolls DEF Holding
    <2>2. CASE Finish(c)
      BY <2>2 DEF Finish, IInv, Domains, MutexHeld, Fed, Settled, Quiet, Holding
    <2>3. CASE UNCHANGED sessionVars
      BY <2>3 DEF IInv, Domains, MutexHeld, Fed, Settled, Quiet, Holding
    <2> QED BY <1>31, <2>1, <2>2, <2>3 DEF CloseNext
  <1>32. ASSUME NEW c \in Callers, OpenedOne(c) PROVE IInv'
    <2>1. Only(c) /\ pc'[c] \notin Holding /\ UNCHANGED sess /\ UNCHANGED gate
      BY <1>32 DEF OpenedOne, Leave, Only, Holding, IInv, Domains
    <2> QED BY <2>1, Strolls
  <1>33. ASSUME NEW c \in Callers, ClosedOne(c) PROVE IInv'
    <2>1. Only(c) /\ pc'[c] \notin Holding /\ UNCHANGED sess /\ UNCHANGED gate
      BY <1>33 DEF ClosedOne, Leave, Only, Holding, IInv, Domains
    <2> QED BY <2>1, Strolls
  <1>34. ASSUME FromGuildID PROVE IInv'
    BY <1>34 DEF FromGuildID, IInv, Domains, MutexHeld, Fed, Settled, Quiet, Holding
  <1>35. CASE UNCHANGED vars
    BY <1>35 DEF vars, IInv, Domains, MutexHeld, Fed, Settled, Quiet, Holding
  <1> QED BY <1>25, <1>26, <1>27, <1>28, <1>29, <1>30, <1>31, <1>32, <1>33, <1>34, <1>35, ManagerAssumption DEF Next, Manage, Workers

(* However many goroutines open and close a session, directly or through    *)
(* the manager, at most one event loop feeds its handlers, and none if it   *)
(* says it is not alive.                                                    *)
THEOREM LoopsAreSingle == Spec => []OneLoop
  <1>1. ASSUME IInv PROVE OneLoop
    <2> SUFFICES ASSUME NEW s \in Sessions
                 PROVE  /\ Cardinality(loops[s]) <= 1
                        /\ mutex[s] = Free /\ ~Alive(s) => Quiet(s)
      BY DEF OneLoop
    <2>1. CASE loops[s] = {}
      <3>1. spin[s] = 0
        BY <1>1, <2>1 DEF IInv, Fed
      <3> QED BY <2>1, <3>1, FS_EmptySet DEF Quiet
    <2>2. CASE loops[s] # {}
      <3>1. PICK n : loops[s] = {[done |-> doneCh[s], src |-> n]}
        BY <1>1, <2>2 DEF IInv, Fed
      <3>2. Cardinality(loops[s]) = 1
        BY <3>1, FS_Singleton
      <3>3. known[s] /\ doneCh[s] # 0
        BY <1>1, <2>2 DEF IInv, Fed
      <3>4. Alive(s)
        BY <3>1, <3>3 DEF Alive, Done
      <3> QED BY <3>2, <3>4
    <2> QED BY <2>1, <2>2
  <1> QED BY <1>1, InitInvariant, StepInvariant, PTL DEF Spec

-----------------------------------------------------------------------------
(* The manager: one goroutine at a time opens or closes its shards, and     *)
(* it leaves each of them with nothing running unless it has opened it.     *)
Shard == [session: Sessions, opened: BOOLEAN]
ManagerTypes ==
    /\ shards \in Seq(Shard) /\ old \in Seq(Shard)
    /\ mpc \in [Workers -> {"idle", "open", "close", "halting", "retry"}]
    /\ next \in [Workers -> Nat \ {0}]
    /\ DOMAIN task = Callers /\ DOMAIN result = Callers

(* Open and Close have the manager's mutex; the rescale has taken the       *)
(* shards, and there is one.                                                *)
Turns ==
    /\ \A c \in Managing : mpc[c] # "retry" /\ (mpc[c] # "idle" => mLock = c)
    /\ \A c \in Rescaling : mpc[c] \in {"idle", "close", "retry"} /\ (mpc[c] # "idle" => rescaling)
    /\ \A c, d \in Rescaling : mpc[c] # "idle" /\ mpc[d] # "idle" => c = d
    /\ IF rescaling THEN shards = <<>> ELSE old = <<>>

(* A session is one shard.                                                  *)
Distinct(q) == \A i, j \in DOMAIN q : q[i].session = q[j].session => i = j

(* Who works for the manager is in the method that it goes through the      *)
(* shards with, at the current one; others are at sessions in Reach.        *)
OpenLabels == {"open", "open.close", "open.dial", "open.wait", "open.abort", "return"}
CloseLabels == {"close", "close.wait", "return"}
AtWork(c) ==
    /\ next[c] \in DOMAIN List(c) /\ at[c] = Current(c).session
    /\ \/ mpc[c] = "open" /\ task[c] = "open" /\ pc[c] \in OpenLabels
       \/ mpc[c] = "close" /\ task[c] = "close" /\ pc[c] \in CloseLabels
Posted ==
    /\ \A c \in Workers : pc[c] # "idle" => AtWork(c)
    /\ \A c \in Callers \ Workers : pc[c] # "idle" => at[c] \in Reach

(* What Open and Close have gone through is opened, or closed.              *)
Through ==
    /\ \A c \in Managing : \A i \in DOMAIN shards : i < next[c] =>
           /\ mpc[c] = "open" => shards[i].opened
           /\ mpc[c] = "close" => ~shards[i].opened
    /\ mLock = Free => \A i, j \in DOMAIN shards : shards[i].opened = shards[j].opened

(* What is not opened, and what an Open that failed or a Close leaves.      *)
Rest ==
    /\ \A q \in {shards, old} : \A i \in DOMAIN q :
          LET s == q[i].session IN
          s \notin Reach /\ ~q[i].opened /\ (\A c \in Workers : at[c] = s => pc[c] = "idle") => Quiet(s)
    /\ \A c \in Workers : pc[c] = "return" /\ at[c] \notin Reach =>
          (task[c] = "open" /\ result[c] = "nil") \/ Quiet(at[c])

ManagerInv ==
    ManagerTypes /\ Turns /\ Distinct(shards) /\ Distinct(old) /\ Posted /\ Through /\ Rest

LEMMA ManagerInit == Init /\ NewManager => ManagerInv
  <1> SUFFICES ASSUME Init, NewManager PROVE ManagerInv
    OBVIOUS
  <1>1. Shards \in [1..Cardinality(Sessions) -> Sessions] /\ Distinct(shards)
    <2> DEFINE N == Cardinality(Sessions)
    <2>1. N \in Nat
      BY FS_CardinalityType, ManagerAssumption
    <2>2. PICK f \in Bijection(1..N, Sessions) : TRUE
      BY FS_CardinalityType, ManagerAssumption DEF ExistsBijection
    <2>3. f \in [1..N -> Sessions] /\ \A s \in Sessions : \E i \in DOMAIN f : f[i] = s
      BY <2>2 DEF Bijection, Surjection
    <2>4. Shards \in [1..N -> Sessions] /\ \A s \in Sessions : \E i \in 1..N : Shards[i] = s
      BY <2>3 DEF Shards
    <2>5. Shards \in Surjection(1..N, Sessions)
      BY <2>4 DEF Surjection
    <2>6. IsFiniteSet(1..N) /\ Cardinality(1..N) = N
      BY <2>1, FS_Interval
    <2>7. Shards \in Injection(1..N, Sessions)
      BY <2>5, <2>6, FS_SurjSameCardinalityImpliesInj
    <2>8. DOMAIN shards = 1..N /\ \A i \in 1..N : shards[i].session = Shards[i]
      BY <2>4 DEF NewManager
    <2>9. \A i, j \in 1..N : Shards[i] = Shards[j] => i = j
      BY <2>4, <2>7 DEF Injection, IsInjective
    <2> QED BY <2>4, <2>8, <2>9 DEF Distinct
  <1>2. Cardinality(Sessions) \in Nat
    BY FS_CardinalityType, ManagerAssumption
  <1>3. shards \in Seq(Shard) /\ \A i \in DOMAIN shards : ~shards[i].opened
    <2>1. DOMAIN Shards = 1..Cardinality(Sessions) /\ \A i \in DOMAIN Shards : Shards[i] \in Sessions
      BY <1>1
    <2>2. shards \in [1..Cardinality(Sessions) -> Shard] /\ \A i \in DOMAIN shards : ~shards[i].opened
      BY <2>1 DEF NewManager, Shard
    <2> QED BY <1>2, <2>2
  <1>4. ManagerTypes
    BY <1>3 DEF Init, NewManager, ManagerTypes
  <1>5. Distinct(old) /\ Turns /\ Posted
    BY ManagerAssumption DEF Init, NewManager, Distinct, Turns, Posted, Workers
  <1>7. Through
    BY <1>3, ManagerAssumption DEF NewManager, Through, Workers
  <1>6. Rest
    <2>1. \A s \in Sessions : Quiet(s)
      BY DEF Init, Quiet
    <2>2. \A q \in {shards, old} : \A i \in DOMAIN q : q[i].session \in Sessions
      BY <1>3 DEF NewManager, Shard
    <2> QED BY <2>1, <2>2, ManagerAssumption DEF Init, Rest, Workers
  <1> QED BY <1>1, <1>4, <1>5, <1>6, <1>7 DEF ManagerInv

-----------------------------------------------------------------------------
(* What a session's method, or the end of a context, does to its caller.    *)
LEMMA StepMoves ==
  ASSUME IInv, ManagerTypes, NEW c \in Callers, Step(c) \/ EndContext(c)
  PROVE  /\ UNCHANGED <<at, task>> /\ pc[c] # "idle" /\ DOMAIN result' = Callers
         /\ \A d \in Callers : d # c => pc'[d] = pc[d] /\ result'[d] = result[d]
         /\ task[c] = "open" /\ pc[c] \in OpenLabels => pc'[c] \in OpenLabels
         /\ task[c] = "close" /\ pc[c] \in CloseLabels => pc'[c] \in CloseLabels
         /\ pc[c] = "return" => pc'[c] = "return" /\ UNCHANGED <<result, spin, loops>>
  <1> DEFINE Moves ==
         /\ UNCHANGED <<at, task>> /\ pc[c] # "idle" /\ DOMAIN result' = Callers
         /\ \A d \in Callers : d # c => pc'[d] = pc[d] /\ result'[d] = result[d]
         /\ task[c] = "open" /\ pc[c] \in OpenLabels => pc'[c] \in OpenLabels
         /\ task[c] = "close" /\ pc[c] \in CloseLabels => pc'[c] \in CloseLabels
         /\ pc[c] = "return" => pc'[c] = "return" /\ UNCHANGED <<result, spin, loops>>
  <1> SUFFICES Moves
    OBVIOUS
  <1> USE DEF OpenLabels, CloseLabels, AfterOpen, AfterWait, Give, Goto, Set, gate, sess, caller
  <1>0. DOMAIN pc = Callers /\ DOMAIN result = Callers
    BY DEF IInv, Domains, ManagerTypes
  <1>1. CASE OpenLock(c) BY <1>0, <1>1 DEF OpenLock
  <1>2. CASE OpenClosed(c) BY <1>0, <1>2 DEF OpenClosed
  <1>3. CASE OpenNoGateway(c) BY <1>0, <1>3 DEF OpenNoGateway
  <1>4. CASE OpenConnect(c) BY <1>0, <1>4 DEF OpenConnect
  <1>5. CASE OpenReady(c) BY <1>0, <1>5 DEF OpenReady
  <1>6. CASE OpenSkip(c) BY <1>0, <1>6 DEF OpenSkip
  <1>7. CASE OpenDied(c) BY <1>0, <1>7 DEF OpenDied
  <1>8. CASE OpenCtx(c) BY <1>0, <1>8 DEF OpenCtx
  <1>9. CASE OpenAborted(c) BY <1>0, <1>9 DEF OpenAborted
  <1>10. CASE CloseLock(c) BY <1>0, <1>10 DEF CloseLock
  <1>11. CASE CloseDone(c) BY <1>0, <1>11 DEF CloseDone
  <1>12. CASE WaitLock(c) BY <1>0, <1>12 DEF WaitLock
  <1>13. CASE WaitCtx(c) BY <1>0, <1>13 DEF WaitCtx
  <1>14. CASE WaitDone(c) BY <1>0, <1>14 DEF WaitDone
  <1>15. CASE WaitError(c) BY <1>0, <1>15 DEF WaitError
  <1>16. CASE SendCheck(c) BY <1>0, <1>16 DEF SendCheck
  <1>17. CASE SendGo(c) BY <1>0, <1>17 DEF SendGo
  <1>18. CASE EndContext(c) BY <1>0, <1>18 DEF EndContext
  <1> HIDE DEF Moves, OpenLabels, CloseLabels, AfterOpen, AfterWait, Give, Goto, Set, gate, sess, caller
  <1> QED BY <1>1, <1>2, <1>3, <1>4, <1>5, <1>6, <1>7, <1>8, <1>9, <1>10, <1>11, <1>12, <1>13, <1>14, <1>15, <1>16, <1>17, <1>18
    DEF Step, Opening, Closing, Waiting, Sending

(* An Open that fails, and every Close, leaves its session quiet.           *)
LEMMA StepSettles ==
  ASSUME IInv, ManagerTypes, NEW c \in Callers, Step(c), at[c] \in Sessions, pc'[c] = "return",
         \/ task[c] = "open" /\ pc[c] \in OpenLabels
         \/ task[c] = "close" /\ pc[c] \in CloseLabels
  PROVE  (task[c] = "open" /\ result'[c] = "nil") \/ Quiet(at[c])'
  <1> USE DEF OpenLabels, CloseLabels, AfterOpen, Give, Goto, Set, gate, sess, caller, Quiet
  <1>0. DOMAIN pc = Callers /\ DOMAIN result = Callers
    BY DEF IInv, Domains, ManagerTypes
  <1>1. CASE OpenClosed(c) \/ OpenDied(c) \/ OpenAborted(c) \/ CloseDone(c)
    <2>1. Done(at[c], doneCh[at[c]]) /\ UNCHANGED <<spin, loops, at>>
      BY <1>1 DEF OpenClosed, OpenDied, OpenAborted, CloseDone
    <2> QED BY <2>1, DoneQuiet
  <1>2. CASE OpenNoGateway(c)
    BY <1>2 DEF OpenNoGateway, IInv, Settled
  <1>3. CASE OpenReady(c)
    BY <1>0, <1>3 DEF OpenReady
  <1>4. CASE CloseLock(c)
    <2>1. ~cancel[at[c]] /\ mutex[at[c]] = Free /\ UNCHANGED <<spin, loops, at>>
      BY <1>0, <1>4 DEF CloseLock, Lock
    <2> QED BY <2>1 DEF IInv, Settled
  <1>5. ~OpenLock(c) /\ ~OpenConnect(c) /\ ~OpenSkip(c) /\ ~OpenCtx(c)
    BY <1>0 DEF OpenLock, OpenConnect, OpenSkip, OpenCtx
  <1>6. ~Waiting(c) /\ ~Sending(c)
    BY DEF Waiting, Sending, WaitLock, WaitCtx, WaitDone, WaitError, SendCheck, SendGo
  <1> QED BY <1>1, <1>2, <1>3, <1>4, <1>5, <1>6 DEF Step, Opening, Closing

(* Nothing starts in a quiet session but by an Open that connects it.       *)
LEMMA QuietKept ==
  ASSUME IInv, SessionNext, NEW s \in Sessions, Quiet(s),
         \A c \in Callers : at[c] = s => ~OpenConnect(c)
  PROVE  Quiet(s)'
  <1> USE DEF Quiet, gate, sess, caller, Set
  <1>0. DOMAIN spin = Sessions /\ DOMAIN loops = Sessions
    BY DEF IInv, Domains
  <1>1. ASSUME NEW c \in Callers, OpenConnect(c) PROVE Quiet(s)'
    BY <1>0, <1>1 DEF OpenConnect
  <1>2. ASSUME NEW c \in Callers, Opening(c), ~OpenConnect(c) PROVE UNCHANGED <<spin, loops>>
    BY <1>2 DEF Opening, OpenLock, OpenClosed, OpenNoGateway, OpenReady, OpenSkip, OpenDied, OpenCtx, OpenAborted
  <1>3. ASSUME NEW c \in Callers, Closing(c) \/ Waiting(c) \/ Sending(c) \/ EndContext(c)
        PROVE  UNCHANGED <<spin, loops>>
    BY <1>3 DEF Closing, Waiting, Sending, CloseLock, CloseDone, WaitLock, WaitCtx, WaitDone, WaitError,
                SendCheck, SendGo, EndContext
  <1>4. ASSUME NEW c \in Direct, Return(c) \/ \E t \in Reach, m \in Methods : Invoke(c, t, m)
        PROVE  UNCHANGED <<spin, loops>>
    BY <1>4 DEF Return, Invoke
  <1>5. ASSUME NEW t \in Sessions, Gateway(t) PROVE Quiet(s)'
    <2>1. CASE (\E e \in Events : Deliver(t, e)) \/ Trouble(t)
      BY <2>1 DEF Deliver, Trouble
    <2>2. CASE SpinEnds(t)
      BY <1>0, <2>2 DEF SpinEnds
    <2>3. CASE LoopEnds(t)
      BY <1>0, <2>3 DEF LoopEnds
    <2> QED BY <1>5, <2>1, <2>2, <2>3 DEF Gateway
  <1> QED BY <1>1, <1>2, <1>3, <1>4, <1>5 DEF SessionNext, Step

(* No two work for the manager at a time, and no other goroutine is at a    *)
(* session outside Reach.                                                   *)
LEMMA OneWorker ==
  ASSUME ManagerInv
  PROVE  /\ \A c, d \in Workers : pc[c] # "idle" /\ pc[d] # "idle" => c = d
         /\ \A c \in Callers : pc[c] # "idle" /\ at[c] \notin Reach => c \in Workers
  <1>1. ASSUME NEW c \in Workers, pc[c] # "idle"
        PROVE  /\ mpc[c] \in {"open", "close"} /\ next[c] \in DOMAIN List(c)
               /\ c \in Managing => ~rescaling /\ mLock = c
               /\ c \in Rescaling => rescaling
    <2>1. AtWork(c)
      BY <1>1 DEF ManagerInv, Posted
    <2>2. mpc[c] # "idle" /\ next[c] \in DOMAIN List(c)
      BY <2>1 DEF AtWork
    <2>3. c \in Managing => shards # <<>>
      BY <2>2, ManagerAssumption DEF List
    <2> QED BY <2>1, <2>2, <2>3 DEF ManagerInv, Turns, AtWork
  <1>2. \A c, d \in Workers : pc[c] # "idle" /\ pc[d] # "idle" => c = d
    BY <1>1 DEF ManagerInv, Turns, Workers
  <1> QED BY <1>2 DEF ManagerInv, Posted

(* A session at work in ManagerInv.                                         *)
LEMMA WorkersSession ==
  ASSUME ManagerInv, NEW c \in Workers, pc[c] # "idle"
  PROVE  at[c] \in Sessions /\ AtWork(c)
  <1>1. AtWork(c)
    BY DEF ManagerInv, Posted
  <1>2. List(c) \in Seq(Shard) /\ next[c] \in DOMAIN List(c) /\ at[c] = List(c)[next[c]].session
    BY <1>1 DEF ManagerInv, ManagerTypes, AtWork, List, Current
  <1>3. List(c)[next[c]] \in Shard
    BY <1>2
  <1> QED BY <1>1, <1>2, <1>3 DEF Shard

LEMMA SessionKeepsManager ==
  ASSUME IInv, ManagerInv, SessionNext, UNCHANGED manager
  PROVE  ManagerInv'
  <1> USE ManagerAssumption, SessionAssumption
  <1>1. /\ \A c \in Workers : at'[c] = at[c] /\ task'[c] = task[c] /\ (pc'[c] = "idle" <=> pc[c] = "idle")
        /\ \A c \in Callers \ Workers : pc'[c] # "idle" => at'[c] \in Reach
        /\ \A c \in Workers : pc'[c] # "idle" => AtWork(c)'
        /\ DOMAIN task' = Callers /\ DOMAIN result' = Callers
        /\ \A c \in Workers : (pc'[c] = pc[c] /\ result'[c] = result[c]) \/ (Step(c) /\ pc[c] # "return")
    <2>1. ASSUME NEW c \in Callers, Step(c) \/ EndContext(c)
          PROVE  /\ UNCHANGED <<at, task>> /\ pc[c] # "idle" /\ DOMAIN result' = Callers
                 /\ \A d \in Callers : d # c => pc'[d] = pc[d]
                 /\ c \in Workers => pc'[c] # "idle" /\ AtWork(c)'
                 /\ \A d \in Callers : (pc'[d] = pc[d] /\ result'[d] = result[d]) \/ (Step(d) /\ pc[d] # "return")
      <3>0. (pc'[c] = pc[c] /\ result'[c] = result[c]) \/ (Step(c) /\ pc[c] # "return")
        BY <2>1, StepMoves DEF EndContext, ManagerInv
      <3>1. CASE c \notin Workers
        BY <2>1, <3>0, <3>1, StepMoves DEF ManagerInv
      <3>2. CASE c \in Workers
        <4>1. AtWork(c)
          BY <2>1, <3>2, StepMoves DEF ManagerInv, Posted
        <4> QED BY <2>1, <3>0, <4>1, StepMoves DEF ManagerInv, AtWork, List, Current, manager, OpenLabels, CloseLabels
      <3> QED BY <3>1, <3>2
    <2>2. CASE \E c \in Callers : Step(c) \/ EndContext(c)
      <3>1. PICK c \in Callers : Step(c) \/ EndContext(c)
        BY <2>2
      <3>2. \A d \in Workers : d # c /\ pc'[d] # "idle" => AtWork(d)'
        BY <2>1, <3>1 DEF ManagerInv, Posted, AtWork, List, Current, manager, Workers
      <3> QED BY <2>1, <3>1, <3>2 DEF ManagerInv, ManagerTypes, Posted, Workers
    <2>3. CASE \E s \in Sessions : Gateway(s)
      <3>1. UNCHANGED caller
        BY <2>3 DEF Gateway, Deliver, Trouble, SpinEnds, LoopEnds
      <3> QED BY <3>1 DEF caller, ManagerInv, ManagerTypes, Posted, AtWork, List, Current, manager
    <2>4. ASSUME NEW c \in Direct, Return(c) \/ \E s \in Reach, m \in Methods : Invoke(c, s, m)
          PROVE  /\ pc' = [pc EXCEPT ![c] = pc'[c]] /\ at' = [at EXCEPT ![c] = at'[c]]
                 /\ task' = [task EXCEPT ![c] = task'[c]] /\ DOMAIN result' = Callers
                 /\ \A d \in Callers : d # c => result'[d] = result[d]
                 /\ pc'[c] # "idle" => at'[c] \in Reach
      BY <2>4 DEF Return, Invoke, Set, Goto, IInv, Domains, ManagerInv, ManagerTypes
    <2>5. CASE \E c \in Direct : Return(c) \/ \E s \in Reach, m \in Methods : Invoke(c, s, m)
      <3>1. PICK c \in Direct : Return(c) \/ \E s \in Reach, m \in Methods : Invoke(c, s, m)
        BY <2>5
      <3>2. c \in Callers \ Workers
        BY DEF Workers
      <3>3. \A d \in Callers : d # c => pc'[d] = pc[d] /\ at'[d] = at[d] /\ task'[d] = task[d]
        BY <2>4, <3>1 DEF IInv, Domains, ManagerInv, ManagerTypes
      <3>4. \A d \in Workers : pc'[d] # "idle" => AtWork(d)'
        BY <3>2, <3>3 DEF ManagerInv, Posted, AtWork, List, Current, manager, Workers
      <3> QED BY <2>4, <3>1, <3>2, <3>3, <3>4 DEF ManagerInv, ManagerTypes, Posted, Workers
    <2> QED BY <2>2, <2>3, <2>5 DEF SessionNext
  <1>2. ManagerTypes' /\ Turns' /\ Distinct(shards)' /\ Distinct(old)' /\ Through' /\ Posted'
    BY <1>1 DEF ManagerInv, ManagerTypes, Turns, Distinct, Through, Posted, manager, Shard
  <1>3. ASSUME NEW s \in Sessions \ Reach, Quiet(s),
               \A c \in Workers : at[c] = s => pc[c] \in {"idle", "return"}
        PROVE  Quiet(s)'
    <2>1. \A c \in Callers : at[c] = s => ~OpenConnect(c)
      <3>1. \A c \in Callers : at[c] = s /\ pc[c] = "open.dial" => c \in Workers
        BY <1>3, OneWorker
      <3> QED BY <1>3, <3>1 DEF OpenConnect
    <2> QED BY <1>3, <2>1, QuietKept
  <1>4. ASSUME NEW q \in {shards', old'}, NEW i \in DOMAIN q, q[i].session \notin Reach, ~q[i].opened,
               \A c \in Workers : at'[c] = q[i].session => pc'[c] = "idle"
        PROVE  Quiet(q[i].session)'
    <2>1. q \in {shards, old} /\ q \in Seq(Shard)
      BY DEF manager, ManagerInv, ManagerTypes
    <2>2. q[i] \in Shard
      BY <2>1
    <2>3. q[i].session \in Sessions \ Reach
      BY <1>4, <2>2 DEF Shard
    <2>4. Quiet(q[i].session) /\ \A c \in Workers : at[c] = q[i].session => pc[c] = "idle"
      BY <1>1, <1>4, <2>1 DEF ManagerInv, Rest
    <2> QED BY <1>3, <2>3, <2>4
  <1>5. ASSUME NEW c \in Workers, pc'[c] = "return", at'[c] \notin Reach
        PROVE  (task'[c] = "open" /\ result'[c] = "nil") \/ Quiet(at[c])'
    <2>1. pc[c] # "idle" /\ at[c] \in Sessions \ Reach /\ AtWork(c) /\ UNCHANGED <<at[c], task[c]>>
      BY <1>1, <1>5, WorkersSession
    <2>2. CASE pc[c] = "return"
      <3>1. Quiet(at[c]) => Quiet(at[c])'
        BY <1>3, <2>1, <2>2, OneWorker
      <3>2. result'[c] = result[c]
        BY <1>1, <2>2
      <3> QED BY <2>1, <2>2, <3>1, <3>2 DEF ManagerInv, Rest
    <2>3. CASE pc[c] # "return"
      <3>1. Step(c)
        BY <1>1, <1>5, <2>3
      <3>2. c \in Callers /\ ManagerTypes
        BY DEF ManagerInv, Workers
      <3>3. (task[c] = "open" /\ pc[c] \in OpenLabels) \/ (task[c] = "close" /\ pc[c] \in CloseLabels)
        BY <2>1 DEF AtWork
      <3>4. (task[c] = "open" /\ result'[c] = "nil") \/ Quiet(at[c])'
        BY <1>5, <2>1, <3>1, <3>2, <3>3, StepSettles
      <3> QED BY <2>1, <3>4
    <2> QED BY <2>2, <2>3
  <1>6. Rest'
    BY <1>1, <1>4, <1>5 DEF Rest
  <1> QED BY <1>2, <1>6 DEF ManagerInv

-----------------------------------------------------------------------------
(* The steps of the manager.                                                *)

LEMMA Marked ==
  ASSUME NEW q \in Seq(Shard), NEW i \in DOMAIN q, NEW b \in BOOLEAN
  PROVE  LET r == [q EXCEPT ![i].opened = b] IN
         /\ r \in Seq(Shard) /\ DOMAIN r = DOMAIN q /\ r[i].opened = b
         /\ \A j \in DOMAIN q : r[j].session = q[j].session
         /\ \A j \in DOMAIN q : j # i => r[j] = q[j]
  <1> DEFINE r == [q EXCEPT ![i].opened = b]
  <1>1. \A j \in DOMAIN q : q[j] \in Shard
    OBVIOUS
  <1>2. DOMAIN r = DOMAIN q /\ r[i] = [q[i] EXCEPT !.opened = b] /\ \A j \in DOMAIN q : j # i => r[j] = q[j]
    OBVIOUS
  <1> HIDE DEF r
  <1>3. r[i] \in Shard /\ r[i].session = q[i].session /\ r[i].opened = b
    BY <1>1, <1>2 DEF Shard
  <1>4. \A j \in DOMAIN q : r[j] \in Shard /\ r[j].session = q[j].session
    BY <1>1, <1>2, <1>3
  <1>5. r \in Seq(Shard)
    <2>1. r \in [1..Len(q) -> Shard]
      <3>1. DOMAIN r = 1..Len(q) /\ r = [j \in DOMAIN q |-> r[j]]
        BY <1>2 DEF r
      <3> QED BY <1>4, <3>1
    <2> QED BY <2>1
  <1> QED BY <1>2, <1>3, <1>4, <1>5 DEF r

(* Whoever begins, or rests, has all its sessions behind it.                *)
LEMMA IdleWhenResting ==
  ASSUME ManagerInv, NEW c \in Workers, mpc[c] \notin {"open", "close"}
  PROVE  pc[c] = "idle"
  BY DEF ManagerInv, Posted, AtWork

LEMMA KeepsPosted ==
  ASSUME ManagerInv, NEW c \in Workers,
         \A d \in Callers : d # c => pc'[d] = pc[d] /\ at'[d] = at[d] /\ task'[d] = task[d],
         \A d \in Workers : d # c => mpc'[d] = mpc[d] /\ next'[d] = next[d],
         \A d \in Workers : d # c /\ pc[d] # "idle" =>
             DOMAIN List(d)' = DOMAIN List(d) /\ List(d)[next[d]].session = List(d)'[next[d]].session,
         pc'[c] # "idle" => AtWork(c)'
  PROVE  Posted'
  <1>1. ASSUME NEW d \in Workers, d # c, pc'[d] # "idle" PROVE AtWork(d)'
    <2>1. AtWork(d) /\ UNCHANGED <<pc[d], at[d], task[d], mpc[d], next[d]>>
      BY <1>1, ManagerAssumption DEF ManagerInv, Posted, Workers
    <2>2. next[d] \in DOMAIN List(d)' /\ List(d)[next[d]].session = List(d)'[next[d]].session
      BY <1>1, <2>1 DEF AtWork
    <2> QED BY <2>1, <2>2 DEF AtWork, Current
  <1>2. \A d \in Callers \ Workers : pc'[d] # "idle" => at'[d] \in Reach
    BY DEF ManagerInv, Posted
  <1> QED BY <1>1, <1>2 DEF Posted

LEMMA BeginsKeepsManager ==
  ASSUME ManagerInv, NEW c \in Workers, ManagerOpen(c) \/ ManagerClose(c)
  PROVE  ManagerInv'
  <1> USE ManagerAssumption, SessionAssumption
  <1>1. /\ UNCHANGED <<sessionVars, shards, old, rescaling>> /\ c \in Managing /\ mLock = Free /\ mLock' = c
        /\ mpc[c] = "idle" /\ mpc' = [mpc EXCEPT ![c] = mpc'[c]] /\ mpc'[c] \in {"open", "close", "halting"}
        /\ next' = [next EXCEPT ![c] = 1]
    <2>1. DOMAIN mpc = Workers
      BY DEF ManagerInv, ManagerTypes
    <2>2. CASE ManagerOpen(c)
      BY <2>1, <2>2 DEF ManagerOpen, Set, MGoto
    <2>3. CASE ManagerClose(c)
      BY <2>1, <2>3 DEF ManagerClose, Set, MGoto
    <2> QED BY <2>2, <2>3
  <1>2. UNCHANGED <<pc, at, task, result, spin, loops>>
    BY <1>1 DEF sessionVars, caller, gate
  <1>3. ManagerTypes'
    <2>1. mpc' \in [Workers -> {"idle", "open", "close", "halting", "retry"}]
      BY <1>1 DEF ManagerInv, ManagerTypes
    <2>2. next' \in [Workers -> Nat \ {0}]
      BY <1>1 DEF ManagerInv, ManagerTypes
    <2> QED BY <1>1, <1>2, <2>1, <2>2 DEF ManagerInv, ManagerTypes
  <1>4. \A d \in Managing : mpc[d] = "idle"
    BY <1>1 DEF ManagerInv, Turns
  <1>5. Turns'
    <2>1. \A d \in Workers : d # c => mpc'[d] = mpc[d]
      BY <1>1 DEF ManagerInv, ManagerTypes
    <2>2. \A d \in Rescaling : mpc'[d] = mpc[d]
      BY <1>1, <2>1 DEF Workers
    <2>3. \A d \in Managing : mpc'[d] # "idle" => d = c
      BY <1>4, <2>1 DEF Workers
    <2> QED BY <1>1, <2>2, <2>3 DEF ManagerInv, Turns
  <1>6. Distinct(shards)' /\ Distinct(old)'
    BY <1>1 DEF ManagerInv, Distinct
  <1>7. pc[c] = "idle"
    BY <1>1, IdleWhenResting
  <1>8. Posted'
    BY <1>1, <1>2, <1>7, KeepsPosted DEF List, ManagerInv, ManagerTypes, Workers
  <1>9. Through'
    <2>1. \A d \in Managing : d # c => mpc'[d] = "idle"
      BY <1>1, <1>4 DEF ManagerInv, ManagerTypes, Workers
    <2>2. next'[c] = 1
      BY <1>1 DEF ManagerInv, ManagerTypes
    <2>3. \A i \in DOMAIN shards' : i \in Nat \ {0}
      BY <1>3 DEF ManagerTypes
    <2> QED BY <1>1, <2>1, <2>2, <2>3 DEF Through, Workers
  <1>10. Rest'
    BY <1>1, <1>2 DEF ManagerInv, Rest, Quiet
  <1> QED BY <1>3, <1>5, <1>6, <1>8, <1>9, <1>10 DEF ManagerInv

LEMMA RescaleKeepsManager ==
  ASSUME ManagerInv, NEW c \in Workers, Rescale(c)
  PROVE  ManagerInv'
  <1> USE ManagerAssumption, SessionAssumption DEF Rescale
  <1>1. UNCHANGED <<pc, at, task, result, spin, loops>>
    BY DEF sessionVars, caller, gate
  <1>2. \A d \in Workers : mpc[d] = "idle" /\ pc[d] = "idle"
    <2>1. \A d \in Workers : mpc[d] = "idle"
      BY DEF ManagerInv, Turns, Workers
    <2> QED BY <2>1, IdleWhenResting
  <1>3. mpc' = [mpc EXCEPT ![c] = "close"] /\ next' = [next EXCEPT ![c] = 1]
    BY DEF MGoto, Set
  <1>4. ManagerTypes'
    BY <1>1, <1>3 DEF ManagerInv, ManagerTypes
  <1>5. Turns'
    BY <1>2, <1>3 DEF ManagerInv, ManagerTypes, Turns, Workers
  <1>6. Distinct(shards)' /\ Distinct(old)' /\ Through'
    BY DEF ManagerInv, Distinct, Through
  <1>7. Posted'
    BY <1>1, <1>2 DEF ManagerInv, Posted
  <1>8. Rest'
    BY <1>1, <1>2 DEF ManagerInv, Rest, Quiet
  <1> QED BY <1>4, <1>5, <1>6, <1>7, <1>8 DEF ManagerInv

(* The end of the process.                                                  *)
LEMMA PanicKeepsManager ==
  ASSUME ManagerInv, FromGuildID \/ \E c \in Workers : TryRescale(c)
  PROVE  ManagerInv'
  <1> USE ManagerAssumption, SessionAssumption
  <1>1. /\ UNCHANGED <<pc, at, task, result, spin, loops, shards, old, rescaling, mpc, next>> /\ mLock = Free
    BY DEF FromGuildID, TryRescale, sessionVars, caller, gate
  <1>2. ManagerTypes' /\ Distinct(shards)' /\ Distinct(old)'
    BY <1>1 DEF ManagerInv, ManagerTypes, Distinct
  <1>4. Posted'
    BY <1>1 DEF ManagerInv, Posted, AtWork, List, Current
  <1>5. Rest'
    BY <1>1 DEF ManagerInv, Rest, Quiet
  <1>3. Turns' /\ Through'
    BY <1>1 DEF ManagerInv, Turns, Through
  <1> QED BY <1>2, <1>3, <1>4, <1>5 DEF ManagerInv

(* It goes to a session,                                                    *)
LEMMA EnterKeepsManager ==
  ASSUME IInv, ManagerInv, NEW c \in Workers, NEW m \in {"open", "close"},
         pc[c] = "idle", mpc[c] = m, next[c] \in DOMAIN List(c), Enter(c, m), UNCHANGED manager
  PROVE  ManagerInv'
  <1> USE ManagerAssumption
  <1>1. /\ pc'[c] = m /\ at'[c] = Current(c).session /\ task'[c] = m
        /\ \A d \in Callers : d # c => pc'[d] = pc[d] /\ at'[d] = at[d] /\ task'[d] = task[d]
        /\ DOMAIN task' = Callers /\ UNCHANGED <<result, spin, loops>>
    BY DEF Enter, Goto, Set, IInv, Domains, ManagerInv, ManagerTypes, Workers, gate
  <1>2. ManagerTypes' /\ Turns' /\ Distinct(shards)' /\ Distinct(old)' /\ Through'
    BY <1>1 DEF manager, ManagerInv, ManagerTypes, Turns, Distinct, Through
  <1>3. AtWork(c)'
    BY <1>1 DEF AtWork, List, Current, manager, OpenLabels, CloseLabels
  <1>4. Posted'
    BY <1>1, <1>3, KeepsPosted DEF List, manager
  <1>5. ASSUME NEW q \in {shards, old}, NEW i \in DOMAIN q, q[i].session \notin Reach, ~q[i].opened,
               \A d \in Workers : at'[d] = q[i].session => pc'[d] = "idle"
        PROVE  Quiet(q[i].session)
    BY <1>1, <1>5 DEF ManagerInv, Rest, Workers
  <1>6. ASSUME NEW d \in Workers, pc'[d] = "return", at'[d] \notin Reach
        PROVE  (task'[d] = "open" /\ result'[d] = "nil") \/ Quiet(at'[d])
    BY <1>1, <1>6 DEF ManagerInv, Rest, Workers
  <1>7. Rest'
    BY <1>1, <1>5, <1>6 DEF Rest, manager, Quiet
  <1> QED BY <1>2, <1>4, <1>7 DEF ManagerInv

(* comes back from it,                                                      *)
LEMMA LeaveKeepsRest ==
  ASSUME IInv, ManagerInv, NEW c \in Workers, pc[c] = "return", Leave(c),
         DOMAIN shards' = DOMAIN shards, DOMAIN old' = DOMAIN old,
         \A i \in DOMAIN shards : /\ shards'[i].session = shards[i].session
                                  /\ ~shards'[i].opened /\ shards[i].session # at[c] => ~shards[i].opened,
         \A i \in DOMAIN old : /\ old'[i].session = old[i].session
                               /\ ~old'[i].opened /\ old[i].session # at[c] => ~old[i].opened,
         \/ at[c] \in Reach \/ Quiet(at[c])
         \/ /\ \A i \in DOMAIN shards : shards[i].session = at[c] => shards'[i].opened
            /\ \A i \in DOMAIN old : old[i].session = at[c] => old'[i].opened
  PROVE  Rest' /\ Distinct(shards)' /\ Distinct(old)'
  <1> USE ManagerAssumption
  <1>1. /\ pc'[c] = "idle" /\ \A d \in Callers : d # c => pc'[d] = pc[d] /\ at'[d] = at[d]
        /\ UNCHANGED <<spin, loops>>
    BY DEF Leave, Goto, Set, IInv, Domains, Workers, gate
  <1>2. ASSUME NEW s, s \notin Reach, s # at[c], \A d \in Workers : at'[d] = s => pc'[d] = "idle"
        PROVE  \A d \in Workers : at[d] = s => pc[d] = "idle"
    BY <1>1, <1>2 DEF Workers
  <1>3. ASSUME NEW i \in DOMAIN shards, shards[i].session \notin Reach, ~shards'[i].opened,
               \A d \in Workers : at'[d] = shards[i].session => pc'[d] = "idle"
        PROVE  Quiet(shards[i].session)
    BY <1>2, <1>3 DEF ManagerInv, Rest
  <1>4. ASSUME NEW i \in DOMAIN old, old[i].session \notin Reach, ~old'[i].opened,
               \A d \in Workers : at'[d] = old[i].session => pc'[d] = "idle"
        PROVE  Quiet(old[i].session)
    BY <1>2, <1>4 DEF ManagerInv, Rest
  <1>5. \A d \in Workers : pc'[d] # "return"
    BY <1>1, OneWorker DEF Workers
  <1>6. \A s : Quiet(s) => Quiet(s)'
    BY <1>1 DEF Quiet
  <1>7. Rest'
    BY <1>3, <1>4, <1>5, <1>6 DEF Rest
  <1>8. Distinct(shards)' /\ Distinct(old)'
    BY DEF ManagerInv, Distinct
  <1> QED BY <1>7, <1>8

(* and is through.                                                          *)
LEMMA FinishKeepsManager ==
  ASSUME IInv, ManagerInv, NEW c \in Managing, pc[c] = "idle", mpc[c] \in {"open", "close"},
         next[c] > Len(shards), Finish(c), UNCHANGED <<shards, old, rescaling, halted, panicked>>
  PROVE  ManagerInv'
  <1> USE ManagerAssumption
  <1>1. /\ UNCHANGED <<pc, at, task, result, spin, loops>> /\ mLock' = Free
        /\ mpc' = [mpc EXCEPT ![c] = "idle"] /\ next' = [next EXCEPT ![c] = 1] /\ c \in Workers
    BY DEF Finish, MGoto, Set, gate, Workers
  <1>2. /\ \A d \in Workers : d # c => mpc'[d] = mpc[d] /\ next'[d] = next[d]
        /\ mpc'[c] = "idle" /\ next'[c] = 1
    BY <1>1 DEF ManagerInv, ManagerTypes
  <1>3. ManagerTypes'
    <2>1. mpc' \in [Workers -> {"idle", "open", "close", "halting", "retry"}]
      BY <1>1 DEF ManagerInv, ManagerTypes
    <2>2. next' \in [Workers -> Nat \ {0}]
      BY <1>1 DEF ManagerInv, ManagerTypes
    <2> QED BY <1>1, <2>1, <2>2 DEF ManagerInv, ManagerTypes
  <1>4. mLock = c /\ \A d \in Managing : d # c => mpc[d] = "idle"
    BY DEF ManagerInv, Turns
  <1>5. Turns'
    BY <1>2, <1>4 DEF ManagerInv, Turns, Workers
  <1>6. Distinct(shards)' /\ Distinct(old)'
    BY DEF ManagerInv, Distinct
  <1>7. Posted'
    BY <1>1, <1>2, KeepsPosted DEF List
  <1>8. Through'
    <2>1. \A i \in DOMAIN shards : i < next[c]
      BY <1>1 DEF ManagerInv, ManagerTypes
    <2>2. \A i, j \in DOMAIN shards : shards[i].opened = shards[j].opened
      <3>1. \A i \in DOMAIN shards : shards[i].opened \in BOOLEAN
        <4>1. \A i \in DOMAIN shards : shards[i] \in Shard
          BY DEF ManagerInv, ManagerTypes
        <4> QED BY <4>1 DEF Shard
      <3> QED BY <2>1, <3>1 DEF ManagerInv, Through
    <2>3. \A d \in Managing : mpc'[d] = "idle"
      BY <1>2, <1>4 DEF Workers
    <2> QED BY <2>2, <2>3 DEF Through
  <1>9. Rest'
    BY <1>1 DEF ManagerInv, Rest, Quiet
  <1> QED BY <1>3, <1>5, <1>6, <1>7, <1>8, <1>9 DEF ManagerInv

(* Whoever is at a shard of the list it goes through: the other list is     *)
(* empty, and no other shard is that session.                               *)
LEMMA AtShard ==
  ASSUME ManagerInv, NEW c \in Workers, pc[c] # "idle"
  PROVE  /\ next[c] \in DOMAIN List(c) /\ at[c] = List(c)[next[c]].session
         /\ \A i \in DOMAIN List(c) : List(c)[i].session = at[c] => i = next[c]
         /\ IF c \in Rescaling THEN shards = <<>> ELSE old = <<>> /\ c \in Managing
  <1>1. AtWork(c)
    BY DEF ManagerInv, Posted
  <1>2. next[c] \in DOMAIN List(c) /\ at[c] = List(c)[next[c]].session
    BY <1>1 DEF AtWork, Current
  <1>3. Distinct(List(c))
    BY DEF ManagerInv, List
  <1>4. CASE c \in Rescaling
    BY <1>1, <1>2, <1>3, <1>4 DEF ManagerInv, Turns, AtWork, Distinct
  <1>5. CASE c \notin Rescaling
    <2>1. shards # <<>>
      BY <1>2, <1>5 DEF List
    <2> QED BY <1>2, <1>3, <1>5, <2>1 DEF ManagerInv, Turns, Distinct, Workers
  <1> QED BY <1>4, <1>5

LEMMA OpenedKeepsManager ==
  ASSUME IInv, ManagerInv, NEW c \in Workers, OpenedOne(c)
  PROVE  ManagerInv'
  <1> USE ManagerAssumption
  <1>1. /\ mpc[c] = "open" /\ pc[c] = "return" /\ Leave(c) /\ c \in Managing /\ c \notin Rescaling
        /\ UNCHANGED <<mLock, rescaling>>
    BY DEF OpenedOne, ManagerInv, Turns, Workers
  <1>2. /\ pc'[c] = "idle" /\ \A d \in Callers : d # c => pc'[d] = pc[d] /\ at'[d] = at[d] /\ task'[d] = task[d]
        /\ DOMAIN task' = Callers /\ DOMAIN result' = Callers
    BY <1>1 DEF Leave, Goto, Set, IInv, Domains, ManagerInv, ManagerTypes, Workers
  <1>3. /\ next[c] \in DOMAIN shards /\ at[c] = shards[next[c]].session /\ old = <<>> /\ ~rescaling /\ mLock = c
        /\ \A i \in DOMAIN shards : shards[i].session = at[c] => i = next[c]
    <2>1. ~rescaling
      BY <1>1, AtShard DEF List, ManagerInv, Turns
    <2> QED BY <1>1, <2>1, AtShard DEF List, ManagerInv, Turns
  <1>4. task[c] = "open"
    BY <1>1 DEF ManagerInv, Posted, AtWork
  <1>5. \A d \in Managing : d # c => mpc[d] = "idle"
    BY <1>3 DEF ManagerInv, Turns
  <1>6. CASE result[c] = "nil"
    <2>1. /\ shards' = [shards EXCEPT ![next[c]].opened = TRUE] /\ UNCHANGED <<old, mpc>>
          /\ next' = [next EXCEPT ![c] = next[c] + 1]
      BY <1>1, <1>6 DEF OpenedOne, MarkOpened, Set
    <2>2. /\ shards' \in Seq(Shard) /\ DOMAIN shards' = DOMAIN shards
          /\ \A j \in DOMAIN shards : shards'[j].session = shards[j].session
          /\ \A j \in DOMAIN shards : j # next[c] => shards'[j] = shards[j]
          /\ shards'[next[c]].opened
      <3>1. PICK b \in BOOLEAN : b = TRUE
        OBVIOUS
      <3>2. shards' = [shards EXCEPT ![next[c]].opened = b] /\ shards \in Seq(Shard)
        BY <2>1, <3>1 DEF ManagerInv, ManagerTypes
      <3>3. /\ shards' \in Seq(Shard) /\ DOMAIN shards' = DOMAIN shards /\ shards'[next[c]].opened = b
            /\ \A j \in DOMAIN shards : shards'[j].session = shards[j].session
            /\ \A j \in DOMAIN shards : j # next[c] => shards'[j] = shards[j]
        BY <1>3, <3>2, Marked
      <3> QED BY <3>1, <3>3
    <2>3. next' \in [Workers -> Nat \ {0}]
      BY <2>1 DEF ManagerInv, ManagerTypes
    <2>4. ManagerTypes'
      BY <1>2, <2>1, <2>2, <2>3 DEF ManagerInv, ManagerTypes
    <2>5. Turns'
      <3>1. shards' # <<>> /\ shards # <<>>
        BY <1>3, <2>2
      <3> QED BY <1>1, <1>3, <2>1 DEF ManagerInv, Turns
    <2>6. Posted'
      <3>1. \A d \in Workers : d # c => mpc'[d] = mpc[d] /\ next'[d] = next[d]
        BY <2>1 DEF ManagerInv, ManagerTypes
      <3>2. \A d \in Workers : d # c => pc[d] = "idle"
        BY <1>1, OneWorker
      <3> QED BY <1>2, <3>1, <3>2, KeepsPosted
    <2>7. Through'
      <3>1. next'[c] = next[c] + 1 /\ next[c] \in Nat
        BY <2>1 DEF ManagerInv, ManagerTypes
      <3>2. \A i \in DOMAIN shards : i \in Nat
        BY DEF ManagerInv, ManagerTypes
      <3>3. \A i \in DOMAIN shards : i < next'[c] => shards'[i].opened
        <4>1. \A i \in DOMAIN shards : i < next'[c] => i < next[c] \/ i = next[c]
          BY <3>1, <3>2
        <4>2. \A i \in DOMAIN shards : i < next[c] => shards[i].opened
          BY <1>1 DEF ManagerInv, Through
        <4> QED BY <2>2, <4>1, <4>2
      <3>4. \A d \in Managing : d # c => mpc'[d] = "idle"
        BY <1>5, <2>1
      <3>5. mpc'[c] = "open" /\ mLock' # Free
        BY <1>1, <1>3, <2>1, SessionAssumption DEF Workers
      <3> QED BY <2>2, <3>3, <3>4, <3>5 DEF Through
    <2>8. Rest' /\ Distinct(shards)' /\ Distinct(old)'
      <3>1. \A i \in DOMAIN shards : shards[i].session = at[c] => shards'[i].opened
        BY <1>3, <2>2
      <3>2. \A i \in DOMAIN shards : ~shards'[i].opened /\ shards[i].session # at[c] => ~shards[i].opened
        BY <1>3, <2>2
      <3>3. DOMAIN old = {}
        BY <1>3
      <3> QED BY <1>1, <1>3, <2>1, <2>2, <3>1, <3>2, <3>3, LeaveKeepsRest
    <2> QED BY <2>4, <2>5, <2>6, <2>7, <2>8 DEF ManagerInv
  <1>7. CASE result[c] # "nil"
    <2>1. /\ UNCHANGED <<shards, old>> /\ mpc' = [mpc EXCEPT ![c] = "close"]
          /\ next' = [next EXCEPT ![c] = 1]
      BY <1>1, <1>7 DEF OpenedOne, OpenFailed, Set, MGoto
    <2>2. /\ \A d \in Workers : d # c => mpc'[d] = mpc[d] /\ next'[d] = next[d]
          /\ mpc'[c] = "close" /\ next'[c] = 1
      BY <2>1 DEF ManagerInv, ManagerTypes
    <2>3. /\ next' \in [Workers -> Nat \ {0}]
          /\ mpc' \in [Workers -> {"idle", "open", "close", "halting", "retry"}]
      BY <2>1 DEF ManagerInv, ManagerTypes
    <2>4. ManagerTypes'
      BY <1>2, <2>1, <2>3 DEF ManagerInv, ManagerTypes
    <2>5. Turns'
      BY <1>1, <1>3, <1>5, <2>1, <2>2 DEF ManagerInv, Turns, Workers
    <2>6. Posted'
      <3>1. \A d \in Workers : d # c => pc[d] = "idle"
        BY <1>1, OneWorker
      <3> QED BY <1>2, <2>2, <3>1, KeepsPosted
    <2>7. Through'
      <3>1. \A i \in DOMAIN shards : i \in Nat \ {0}
        BY DEF ManagerInv, ManagerTypes
      <3> QED BY <1>1, <1>3, <1>5, <2>1, <2>2, <3>1, SessionAssumption DEF Through, Workers
    <2>8. Rest' /\ Distinct(shards)' /\ Distinct(old)'
      <3>1. at[c] \in Reach \/ Quiet(at[c])
        BY <1>1, <1>4, <1>7 DEF ManagerInv, Rest
      <3> QED BY <1>1, <2>1, <3>1, LeaveKeepsRest
    <2> QED BY <2>4, <2>5, <2>6, <2>7, <2>8 DEF ManagerInv
  <1> QED BY <1>6, <1>7

LEMMA ClosedKeepsManager ==
  ASSUME IInv, ManagerInv, NEW c \in Workers, ClosedOne(c)
  PROVE  ManagerInv'
  <1> USE ManagerAssumption
  <1>1. /\ mpc[c] = "close" /\ pc[c] = "return" /\ Leave(c) /\ MarkOpened(c, FALSE)
        /\ UNCHANGED <<mLock, rescaling, mpc>> /\ next' = [next EXCEPT ![c] = next[c] + 1]
    BY DEF ClosedOne, Set
  <1>2. /\ pc'[c] = "idle" /\ \A d \in Callers : d # c => pc'[d] = pc[d] /\ at'[d] = at[d] /\ task'[d] = task[d]
        /\ DOMAIN task' = Callers /\ DOMAIN result' = Callers
    BY <1>1 DEF Leave, Goto, Set, IInv, Domains, ManagerInv, ManagerTypes, Workers
  <1>3. next' \in [Workers -> Nat \ {0}] /\ next'[c] = next[c] + 1 /\ next[c] \in Nat
        /\ \A d \in Workers : d # c => next'[d] = next[d]
    BY <1>1 DEF ManagerInv, ManagerTypes
  <1>4. task[c] = "close"
    BY <1>1 DEF ManagerInv, Posted, AtWork
  <1>5. at[c] \in Reach \/ Quiet(at[c])
    BY <1>1, <1>4 DEF ManagerInv, Rest
  <1>6. Posted'
    <2>1. \A d \in Workers : d # c => pc[d] = "idle"
      BY <1>1, OneWorker
    <2> QED BY <1>1, <1>2, <1>3, <2>1, KeepsPosted
  <1>7. shards \in Seq(Shard) /\ old \in Seq(Shard)
    BY DEF ManagerInv, ManagerTypes
  <1>8. CASE c \in Rescaling
    <2>1. shards = <<>> /\ next[c] \in DOMAIN old /\ \A i \in DOMAIN old : old[i].session = at[c] => i = next[c]
      BY <1>1, <1>8, AtShard DEF List
    <2>2. old' = [old EXCEPT ![next[c]].opened = FALSE] /\ UNCHANGED shards
      BY <1>1, <1>8 DEF MarkOpened
    <2>3. /\ old' \in Seq(Shard) /\ DOMAIN old' = DOMAIN old
          /\ \A j \in DOMAIN old : old'[j].session = old[j].session
          /\ \A j \in DOMAIN old : j # next[c] => old'[j] = old[j]
      <3>1. PICK b \in BOOLEAN : b = FALSE
        OBVIOUS
      <3>2. old' = [old EXCEPT ![next[c]].opened = b]
        BY <2>2, <3>1
      <3>3. /\ old' \in Seq(Shard) /\ DOMAIN old' = DOMAIN old /\ old'[next[c]].opened = b
            /\ \A j \in DOMAIN old : old'[j].session = old[j].session
            /\ \A j \in DOMAIN old : j # next[c] => old'[j] = old[j]
        BY <1>7, <2>1, <3>2, Marked
      <3> QED BY <3>1, <3>3
    <2>4. ManagerTypes'
      BY <1>1, <1>2, <1>3, <2>2, <2>3 DEF ManagerInv, ManagerTypes
    <2>5. rescaling
      BY <1>1, <1>8 DEF ManagerInv, Turns
    <2>6. Turns'
      BY <1>1, <2>2, <2>5 DEF ManagerInv, Turns
    <2>7. Through'
      BY <2>1, <2>2 DEF Through
    <2>8. Rest' /\ Distinct(shards)' /\ Distinct(old)'
      <3>1. \A i \in DOMAIN old : ~old'[i].opened /\ old[i].session # at[c] => ~old[i].opened
        BY <1>1, <1>8, <2>3, AtShard DEF List
      <3> QED BY <1>1, <1>5, <2>2, <2>3, <3>1, LeaveKeepsRest
    <2> QED BY <1>6, <2>4, <2>6, <2>7, <2>8 DEF ManagerInv
  <1>9. CASE c \notin Rescaling
    <2>1. /\ old = <<>> /\ c \in Managing /\ next[c] \in DOMAIN shards /\ at[c] = shards[next[c]].session
          /\ \A i \in DOMAIN shards : shards[i].session = at[c] => i = next[c]
      BY <1>1, <1>9, AtShard DEF List
    <2>2. shards' = [shards EXCEPT ![next[c]].opened = FALSE] /\ UNCHANGED old
      BY <1>1, <1>9 DEF MarkOpened
    <2>3. /\ shards' \in Seq(Shard) /\ DOMAIN shards' = DOMAIN shards
          /\ \A j \in DOMAIN shards : shards'[j].session = shards[j].session
          /\ \A j \in DOMAIN shards : j # next[c] => shards'[j] = shards[j]
          /\ ~shards'[next[c]].opened
      <3>1. PICK b \in BOOLEAN : b = FALSE
        OBVIOUS
      <3>2. shards' = [shards EXCEPT ![next[c]].opened = b]
        BY <2>2, <3>1
      <3>3. /\ shards' \in Seq(Shard) /\ DOMAIN shards' = DOMAIN shards /\ shards'[next[c]].opened = b
            /\ \A j \in DOMAIN shards : shards'[j].session = shards[j].session
            /\ \A j \in DOMAIN shards : j # next[c] => shards'[j] = shards[j]
        BY <1>7, <2>1, <3>2, Marked
      <3> QED BY <3>1, <3>3
    <2>4. ManagerTypes'
      BY <1>1, <1>2, <1>3, <2>2, <2>3 DEF ManagerInv, ManagerTypes
    <2>5. ~rescaling
      BY <2>1 DEF ManagerInv, Turns
    <2>6. Turns'
      BY <1>1, <2>2, <2>1, <2>5 DEF ManagerInv, Turns
    <2>7. Through'
      <3>1. \A i \in DOMAIN shards : i \in Nat
        BY <1>7
      <3>2. \A i \in DOMAIN shards : i < next'[c] => i < next[c] \/ i = next[c]
        BY <1>3, <3>1
      <3>3. \A i \in DOMAIN shards : i < next[c] => ~shards[i].opened
        BY <1>1, <2>1 DEF ManagerInv, Through
      <3>4. \A i \in DOMAIN shards : i < next'[c] => ~shards'[i].opened
        BY <2>3, <3>2, <3>3
      <3>5. mLock = c /\ \A d \in Managing : d # c => mpc[d] = "idle"
        BY <1>1, <2>1 DEF ManagerInv, Turns
      <3>6. mLock' # Free /\ \A d \in Managing : d # c => mpc'[d] = "idle"
        BY <1>1, <3>5, SessionAssumption DEF Workers
      <3> QED BY <1>1, <2>3, <3>4, <3>6 DEF Through
    <2>8. Rest' /\ Distinct(shards)' /\ Distinct(old)'
      <3>1. \A i \in DOMAIN shards : ~shards'[i].opened /\ shards[i].session # at[c] => ~shards[i].opened
        BY <2>1, <2>3
      <3> QED BY <1>1, <1>5, <2>1, <2>2, <2>3, <3>1, LeaveKeepsRest
    <2> QED BY <1>6, <2>4, <2>6, <2>7, <2>8 DEF ManagerInv
  <1> QED BY <1>8, <1>9

LEMMA OpenNextKeepsManager ==
  ASSUME IInv, ManagerInv, NEW c \in Workers, OpenNext(c)
  PROVE  ManagerInv'
  <1>1. /\ mpc[c] = "open" /\ pc[c] = "idle" /\ c \in Managing /\ c \notin Rescaling
        /\ UNCHANGED <<shards, old, rescaling, halted, panicked>>
    BY ManagerAssumption DEF OpenNext, ManagerInv, Turns, Workers
  <1>2. next[c] \in Nat \ {0} /\ shards \in Seq(Shard)
    BY DEF ManagerInv, ManagerTypes
  <1>3. CASE next[c] <= Len(shards)
    <2>1. Enter(c, "open") /\ UNCHANGED manager
      BY <1>1, <1>3 DEF OpenNext, manager
    <2>2. next[c] \in DOMAIN List(c)
      BY <1>1, <1>2, <1>3 DEF List
    <2> QED BY <1>1, <2>1, <2>2, EnterKeepsManager
  <1>4. CASE ~(next[c] <= Len(shards))
    <2>1. Finish(c) /\ next[c] > Len(shards)
      BY <1>2, <1>4 DEF OpenNext
    <2> QED BY <1>1, <2>1, FinishKeepsManager
  <1> QED BY <1>3, <1>4

LEMMA CloseNextKeepsManager ==
  ASSUME IInv, ManagerInv, NEW c \in Workers, CloseNext(c)
  PROVE  ManagerInv'
  <1> USE ManagerAssumption
  <1>1. /\ mpc[c] = "close" /\ pc[c] = "idle" /\ UNCHANGED <<shards, old, rescaling, halted, panicked>>
    BY DEF CloseNext
  <1>2. next[c] \in Nat \ {0} /\ List(c) \in Seq(Shard)
    BY DEF ManagerInv, ManagerTypes, List
  <1>3. CASE next[c] > Len(List(c)) /\ c \notin Rescaling
    <2>1. Finish(c) /\ next[c] > Len(shards) /\ c \in Managing
      BY <1>3 DEF CloseNext, List, Workers
    <2> QED BY <1>1, <2>1, FinishKeepsManager
  <1>4. CASE next[c] <= Len(List(c)) /\ Current(c).opened
    <2>1. Enter(c, "close") /\ UNCHANGED manager
      BY <1>1, <1>2, <1>4 DEF CloseNext, manager
    <2>2. next[c] \in DOMAIN List(c)
      BY <1>2, <1>4
    <2> QED BY <1>1, <2>1, <2>2, EnterKeepsManager
  <1>5. CASE next[c] > Len(List(c)) /\ c \in Rescaling
    <2>1. mpc' = [mpc EXCEPT ![c] = "retry"] /\ UNCHANGED <<mLock, next, sessionVars>>
      BY <1>5 DEF CloseNext, MGoto, Set
    <2>2. UNCHANGED <<pc, at, task, result, spin, loops>>
      BY <2>1 DEF sessionVars, caller, gate
    <2>3. /\ mpc' \in [Workers -> {"idle", "open", "close", "halting", "retry"}]
          /\ mpc'[c] = "retry" /\ \A d \in Workers : d # c => mpc'[d] = mpc[d]
      BY <2>1 DEF ManagerInv, ManagerTypes
    <2>4. ManagerTypes'
      BY <1>1, <2>1, <2>2, <2>3 DEF ManagerInv, ManagerTypes
    <2>5. \A d \in Managing : mpc'[d] = mpc[d]
      BY <1>5, <2>3 DEF Workers
    <2>6. Turns'
      BY <1>1, <1>5, <2>1, <2>3, <2>5 DEF ManagerInv, Turns, Workers
    <2>7. Posted'
      BY <1>1, <2>1, <2>2, <2>3, KeepsPosted DEF List
    <2>8. Through'
      BY <1>1, <2>1, <2>5 DEF ManagerInv, Through
    <2>9. Rest' /\ Distinct(shards)' /\ Distinct(old)'
      BY <1>1, <2>2 DEF ManagerInv, Rest, Distinct, Quiet
    <2> QED BY <2>4, <2>6, <2>7, <2>8, <2>9 DEF ManagerInv
  <1>6. CASE next[c] <= Len(List(c)) /\ ~Current(c).opened
    <2>1. next' = [next EXCEPT ![c] = next[c] + 1] /\ UNCHANGED <<mLock, mpc, sessionVars>>
      BY <1>2, <1>6 DEF CloseNext, Set
    <2>2. UNCHANGED <<pc, at, task, result, spin, loops>>
      BY <2>1 DEF sessionVars, caller, gate
    <2>3. /\ next' \in [Workers -> Nat \ {0}]
          /\ next'[c] = next[c] + 1 /\ \A d \in Workers : d # c => next'[d] = next[d]
      BY <2>1 DEF ManagerInv, ManagerTypes
    <2>4. ManagerTypes'
      BY <1>1, <2>1, <2>2, <2>3 DEF ManagerInv, ManagerTypes
    <2>5. Turns'
      BY <1>1, <2>1 DEF ManagerInv, Turns
    <2>6. Posted'
      BY <1>1, <2>1, <2>2, <2>3, KeepsPosted DEF List
    <2>7. Through'
      <3>1. CASE c \in Rescaling
        <4>1. \A d \in Managing : next'[d] = next[d]
          BY <2>3, <3>1 DEF Workers
        <4> QED BY <1>1, <2>1, <4>1 DEF ManagerInv, Through
      <3>2. CASE c \notin Rescaling
        <4>1. ~shards[next[c]].opened /\ c \in Managing
          BY <1>6, <3>2 DEF Current, List, Workers
        <4>2. \A i \in DOMAIN shards : i < next'[c] => i < next[c] \/ i = next[c]
          BY <1>2, <2>3, <3>2 DEF List
        <4>3. \A i \in DOMAIN shards : i < next[c] => ~shards[i].opened
          BY <1>1, <4>1 DEF ManagerInv, Through
        <4>4. mLock = c /\ \A d \in Managing : d # c => mpc[d] = "idle"
          BY <1>1, <4>1 DEF ManagerInv, Turns
        <4>5. mLock' # Free /\ \A d \in Managing : d # c => mpc'[d] = "idle"
          BY <2>1, <4>4, SessionAssumption DEF Workers
        <4>6. \A i \in DOMAIN shards : i < next'[c] => ~shards[i].opened
          BY <4>1, <4>2, <4>3
        <4> QED BY <1>1, <2>1, <4>5, <4>6 DEF Through
      <3> QED BY <3>1, <3>2
    <2>8. Rest' /\ Distinct(shards)' /\ Distinct(old)'
      BY <1>1, <2>2 DEF ManagerInv, Rest, Distinct, Quiet
    <2> QED BY <2>4, <2>5, <2>6, <2>7, <2>8 DEF ManagerInv
  <1> QED BY <1>2, <1>3, <1>4, <1>5, <1>6

LEMMA ManagerStep == IInv /\ ManagerInv /\ [Next]_vars => ManagerInv'
  <1> SUFFICES ASSUME IInv, ManagerInv, [Next]_vars PROVE ManagerInv'
    OBVIOUS
  <1>1. CASE SessionNext /\ UNCHANGED manager
    BY <1>1, SessionKeepsManager
  <1>2. ASSUME NEW c \in Workers, Manage(c) PROVE ManagerInv'
    BY <1>2, BeginsKeepsManager, OpenNextKeepsManager, OpenedKeepsManager, CloseNextKeepsManager,
       ClosedKeepsManager, RescaleKeepsManager, PanicKeepsManager DEF Manage
  <1>3. CASE FromGuildID
    BY <1>3, PanicKeepsManager
  <1>4. CASE UNCHANGED vars
    <2>1. UNCHANGED <<pc, at, task, result, spin, loops, shards, old, rescaling, mpc, next, mLock>>
      BY <1>4 DEF vars, sessionVars, manager, caller, gate
    <2>2. ManagerTypes' /\ Distinct(shards)' /\ Distinct(old)' /\ Turns' /\ Through'
      BY <2>1 DEF ManagerInv, ManagerTypes, Distinct, Turns, Through
    <2>3. Posted'
      BY <2>1 DEF ManagerInv, Posted, AtWork, List, Current
    <2>4. Rest'
      BY <2>1 DEF ManagerInv, Rest, Quiet
    <2> QED BY <2>2, <2>3, <2>4 DEF ManagerInv
  <1> QED BY <1>1, <1>2, <1>3, <1>4 DEF Next

(* Whatever fails on the way, and while sessions are used directly and the  *)
(* shards are taken away by a rescale: Open and Close of the manager leave  *)
(* all shards opened or none, and nothing runs in one that is not opened.   *)
THEOREM ShardsAreSettled == Spec => []NothingLeftRunning
  <1>1. ManagerInv => NothingLeftRunning
    BY DEF ManagerInv, Through, Rest, NothingLeftRunning
  <1> QED BY <1>1, InitInvariant, ManagerInit, StepInvariant, ManagerStep, PTL DEF Spec
=============================================================================
