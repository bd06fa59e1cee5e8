---------------------------- MODULE ShardManager ----------------------------
(***************************************************************************)
(* session/shard: a Manager whose shards are sessions.  Open and Close go   *)
(* over the shards with the manager's mutex held; a rescale takes the       *)
(* shards away, closes them without the mutex, and asks the first of the    *)
(* shards it has just taken away for its identifier, which panics: what     *)
(* follows that index in tryRescale is never reached.  Sessions may be used *)
(* directly at the same time.                                               *)
(***************************************************************************)
EXTENDS Session, Sequences

CONSTANTS
    Managing,  \* goroutines that call Open and Close of the manager
    Rescaling, \* goroutines that run rescale
    Looking    \* goroutines that look shards up

ASSUME ManagerAssumption ==
    /\ Managing \cup Rescaling \subseteq Callers
    /\ Managing \cap Rescaling = {} /\ (Managing \cup Rescaling) \cap Direct = {}
    /\ IsFiniteSet(Sessions)

VARIABLES
    mLock,     \* who holds Manager.mutex for writing
    shards,    \* Manager.shards: [session, opened]
    old,       \* oldShards of the rescale under way
    rescaling, \* Manager.rescaling is not nil
    halted,    \* its context has been cancelled
    mpc, next, \* where a managing goroutine is, and at which shard
    panicked   \* the process has ended

manager == <<mLock, shards, old, rescaling, halted, mpc, next, panicked>>
vars == <<sessionVars, manager>>

Workers == Managing \cup Rescaling

(* NewIdentifiedManagerWithURL: a shard per session, none of them open.     *)
Shards == CHOOSE q \in [1..Cardinality(Sessions) -> Sessions] :
              \A s \in Sessions : \E i \in DOMAIN q : q[i] = s
NewManager ==
    /\ mLock = Free
    /\ shards = [i \in DOMAIN Shards |-> [session |-> Shards[i], opened |-> FALSE]]
    /\ old = <<>> /\ rescaling = FALSE /\ halted = FALSE
    /\ mpc = [c \in Workers |-> "idle"] /\ next = [c \in Workers |-> 1]
    /\ panicked = FALSE

MGoto(c, label) == Set(mpc, c, label)
List(c) == IF c \in Rescaling THEN old ELSE shards
Current(c) == List(c)[next[c]]

(* Shard.Open or Shard.Close of the shard at hand.                          *)
Enter(c, m) ==
    /\ Set(at, c, Current(c).session) /\ Set(task, c, m) /\ Goto(c, m)
    /\ UNCHANGED <<gate, sess, ctxDone, watch, result, again, shut>>

(* It has returned.                                                         *)
Leave(c) ==
    /\ Goto(c, "idle") /\ Set(at, c, Nowhere) /\ Set(task, c, "close") /\ Set(result, c, "nil")
    /\ UNCHANGED <<gate, sess, ctxDone, watch, again, shut>>

MarkOpened(c, b) ==
    IF c \in Rescaling
    THEN old' = [old EXCEPT ![next[c]].opened = b] /\ UNCHANGED shards
    ELSE shards' = [shards EXCEPT ![next[c]].opened = b] /\ UNCHANGED old

-----------------------------------------------------------------------------
(* OpenShards and CloseShards, one shard at a time.                         *)

Finish(c) ==
    /\ MGoto(c, "idle") /\ mLock' = Free /\ Set(next, c, 1)
    /\ Set(ctxDone, c, FALSE)
    /\ UNCHANGED <<gate, sess, pc, at, task, watch, result, again, shut>>

OpenNext(c) ==
    /\ mpc[c] = "open" /\ pc[c] = "idle"
    /\ IF next[c] <= Len(shards)
       THEN Enter(c, "open") /\ UNCHANGED <<mpc, mLock, next>>
       ELSE Finish(c)
    /\ UNCHANGED <<shards, old, rescaling, halted, panicked>>

OpenFailed_ClosesRest(c) == MGoto(c, "close") /\ Set(next, c, next[c])
OpenFailed(c) == MGoto(c, "close") /\ Set(next, c, 1)

OpenedOne(c) ==
    /\ mpc[c] = "open" /\ pc[c] = "return"
    /\ Leave(c)
    /\ IF result[c] = "nil"
       THEN MarkOpened(c, TRUE) /\ Set(next, c, next[c] + 1) /\ UNCHANGED mpc
       ELSE /\ OpenFailed(c) /\ UNCHANGED <<shards, old>>
    /\ UNCHANGED <<mLock, rescaling, halted, panicked>>

CloseNext(c) ==
    /\ mpc[c] = "close" /\ pc[c] = "idle"
    /\ IF next[c] > Len(List(c))
       THEN IF c \in Rescaling THEN MGoto(c, "retry") /\ UNCHANGED <<mLock, next, sessionVars>>
                               ELSE Finish(c)
       ELSE /\ IF Current(c).opened THEN Enter(c, "close") /\ UNCHANGED next
               ELSE Set(next, c, next[c] + 1) /\ UNCHANGED sessionVars
            /\ UNCHANGED <<mpc, mLock>>
    /\ UNCHANGED <<shards, old, rescaling, halted, panicked>>

ClosedOne(c) ==
    /\ mpc[c] = "close" /\ pc[c] = "return"
    /\ Leave(c) /\ MarkOpened(c, FALSE) /\ Set(next, c, next[c] + 1)
    /\ UNCHANGED <<mLock, rescaling, halted, mpc, panicked>>

-----------------------------------------------------------------------------
(* Open and Close of the manager.                                           *)

ManagerOpen(c) ==
    /\ c \in Managing /\ mpc[c] = "idle" /\ mLock = Free
    /\ mLock' = c /\ MGoto(c, "open") /\ Set(next, c, 1)
    /\ UNCHANGED <<sessionVars, shards, old, rescaling, halted, panicked>>

(* Close halts a rescale and waits for it with the mutex held.              *)
ManagerClose(c) ==
    /\ c \in Managing /\ mpc[c] = "idle" /\ mLock = Free
    /\ mLock' = c /\ Set(next, c, 1)
    /\ MGoto(c, IF rescaling THEN "halting" ELSE "close")
    /\ halted' = (halted \/ rescaling)
    /\ UNCHANGED <<sessionVars, shards, old, rescaling, panicked>>

-----------------------------------------------------------------------------
(* rescale.                                                                 *)

Rescale(c) ==
    /\ c \in Rescaling /\ mpc[c] = "idle" /\ mLock = Free /\ ~rescaling
    /\ rescaling' = TRUE /\ halted' = FALSE
    /\ old' = shards /\ shards' = <<>>
    /\ MGoto(c, "close") /\ Set(next, c, 1)
    /\ UNCHANGED <<sessionVars, mLock, panicked>>

(* tryRescale: m.shards[0].                                                 *)
TryRescale(c) ==
    /\ mpc[c] = "retry" /\ mLock = Free
    /\ Len(shards) = 0
    /\ mLock' = c /\ panicked' = TRUE
    /\ UNCHANGED <<sessionVars, shards, old, rescaling, halted, mpc, next>>

(* FromGuildID: the guild's identifier modulo the number of shards.         *)
FromGuildID ==
    /\ Looking # {} /\ mLock = Free
    /\ Len(shards) = 0
    /\ panicked' = TRUE
    /\ UNCHANGED <<sessionVars, mLock, shards, old, rescaling, halted, mpc, next>>

-----------------------------------------------------------------------------
Manage(c) ==
    \/ ManagerOpen(c) \/ ManagerClose(c) \/ OpenNext(c) \/ OpenedOne(c)
    \/ CloseNext(c) \/ ClosedOne(c) \/ Rescale(c) \/ TryRescale(c)

Next ==
    /\ ~panicked
    /\ \/ SessionNext /\ UNCHANGED manager
       \/ \E c \in Workers : Manage(c)
       \/ FromGuildID

Spec == Init /\ NewManager /\ [][Next]_vars

-----------------------------------------------------------------------------
(* Properties.                                                              *)

(* Whatever fails on the way, Open and Close leave all shards opened or     *)
(* none, and a shard the manager does not count as opened has nothing       *)
(* running, unless it is used behind the manager's back.                    *)
NothingLeftRunning ==
    /\ mLock = Free => \A i, j \in DOMAIN shards : shards[i].opened = shards[j].opened
    /\ \A q \in {shards, old} : \A i \in DOMAIN q :
          LET s == q[i].session IN
          mLock = Free /\ s \notin Reach /\ ~q[i].opened /\ (\A c \in Workers : at[c] = s => pc[c] = "idle")
              => Quiet(s)

(* Rescaling, and looking shards up beside it, does not end the process.    *)
RescaleSurvives == ~panicked
=============================================================================
