----------------------------- MODULE RestProofs -----------------------------
(* Theorems about the REST calls: RateLimiter, for every set of callers and *)
(* buckets, and every limit, window and delay; and Endpoints, why the       *)
(* buckets of the calls are those of the guilds and channels they are about.*)
EXTENDS Endpoints, RateLimiter, TLAPS

(* RateLimiter.                                                             *)

(* The modulus keeps the unsigned counter in range.                         *)
LEMMA UintRange ==
    ASSUME NEW n \in Int
    PROVE  n % UintMod \in 0..(UintMod - 1)
  BY ConstantsAssumption

(* Counting down keeps a family of countdowns natural.                      *)
LEMMA DecAllType ==
    ASSUME NEW S, NEW f \in [S -> Nat]
    PROVE  DecAll(f) \in [S -> Nat]
  BY DEF DecAll, Dec

(* Responses, and what ticking does to one.                                 *)
LEMMA NoResponseType == NoResponse \in Response
  BY ConstantsAssumption DEF NoResponse, Response

LEMMA AnswerType ==
    ASSUME NEW k \in {"ok", "malformed", "limited", "global", "error"},
           NEW n \in 0..Limit, NEW i \in Nat, NEW j \in Nat
    PROVE  Answer(k, n, i, j) \in Response
  BY ConstantsAssumption DEF Answer, Response

(* A request the server does not throttle fits into the bucket's window.    *)
LEMMA CountType ==
    ASSUME TypeOK, NEW b \in Buckets, ~Throttled(b)
    PROVE  LeftAfter(b) \in 0..Limit /\ WindowAfter(b) \in Nat
  <1>1. left[b] \in 0..Limit /\ window[b] \in Nat /\ Limit \in Nat /\ Limit > 0
    BY ConstantsAssumption DEF TypeOK
  <1>2. window[b] # 0 => left[b] > 0
    BY <1>1 DEF Throttled
  <1>3. QED
    BY <1>1, <1>2, ConstantsAssumption DEF LeftAfter, WindowAfter

LEMMA TickedResponse ==
    ASSUME NEW r \in Response
    PROVE  [r EXCEPT !.reset = Dec(@)] \in Response
  BY DEF Response, Dec

LEMMA TickedFields ==
    ASSUME NEW r \in Response
    PROVE  /\ [r EXCEPT !.reset = Dec(@)].kind = r.kind
           /\ [r EXCEPT !.reset = Dec(@)].remaining = r.remaining
           /\ [r EXCEPT !.reset = Dec(@)].reset = Dec(r.reset)
  BY DEF Response

LEMMA TypeInit == Init => TypeOK
  BY ConstantsAssumption, NoResponseType
     DEF Init, TypeOK, PcLabels, NoDeadline

(* Every step of every action keeps the types.                              *)
LEMMA TypeStep == TypeOK /\ [Next]_vars => TypeOK'
  <1> SUFFICES ASSUME TypeOK, [Next]_vars PROVE TypeOK'
    OBVIOUS
  <1> USE DEF TypeOK, At, Goto, limiter, call, context, server, history, PcLabels
  <1>1. ASSUME NEW c \in Callers, Start(c) PROVE TypeOK'
    BY <1>1, ConstantsAssumption, NoResponseType DEF Start
  <1>2. ASSUME NEW c \in Callers, Lock(c) PROVE TypeOK'
    BY <1>2 DEF Lock
  <1>3. ASSUME NEW c \in Callers, LockFailed(c) PROVE TypeOK'
    BY <1>3, NoResponseType DEF LockFailed
  <1>4. ASSUME NEW c \in Callers, Check(c) PROVE TypeOK'
    <2>1. CASE Goto(c, "test") /\ UNCHANGED <<optFailed, response, wait>>
      BY <1>4, <2>1 DEF Check
    <2>2. CASE /\ optFailed' = [optFailed EXCEPT ![c] = TRUE]
               /\ response' = [response EXCEPT ![c] = NoResponse]
               /\ Goto(c, "release")
               /\ UNCHANGED wait
      BY <1>4, <2>2, NoResponseType DEF Check
    <2>3. CASE /\ wait' = [wait EXCEPT ![c] = Until(bucket[c])]
               /\ Goto(c, "wait")
               /\ UNCHANGED <<optFailed, response>>
      BY <1>4, <2>3 DEF Check, Until
    <2>4. QED
      BY <1>4, <2>1, <2>2, <2>3 DEF Check
  <1>5. ASSUME NEW c \in Callers, WakeUp(c) PROVE TypeOK'
    BY <1>5 DEF WakeUp
  <1>6. ASSUME NEW c \in Callers, WaitCancelled(c) PROVE TypeOK'
    <2>1. CASE Goto(c, "panicked") /\ UNCHANGED <<holder, optFailed, response, wait>>
      BY <1>6, <2>1 DEF WaitCancelled
    <2>2. CASE /\ holder' = [holder EXCEPT ![bucket[c]] = Free]
               /\ optFailed' = [optFailed EXCEPT ![c] = TRUE]
               /\ response' = [response EXCEPT ![c] = NoResponse]
               /\ wait' = [wait EXCEPT ![c] = 0]
               /\ Goto(c, "release")
      BY <1>6, <2>2, NoResponseType DEF WaitCancelled
    <2>3. QED
      BY <1>6, <2>1, <2>2 DEF WaitCancelled
  <1>7. ASSUME NEW c \in Callers, Test(c) PROVE TypeOK'
    BY <1>7 DEF Test
  <1>8. ASSUME NEW c \in Callers, Take(c) PROVE TypeOK'
    <2>1. (remaining[bucket[c]] - 1) % UintMod \in 0..(UintMod - 1)
      BY UintRange
    <2>2. QED
      BY <1>8, <2>1 DEF Take
  <1>9. ASSUME NEW c \in Callers, DoAccepted(c) PROVE TypeOK'
    <2> DEFINE b == bucket[c]
    <2>1. LeftAfter(b) \in 0..Limit /\ WindowAfter(b) \in Nat
      BY <1>9, CountType DEF DoAccepted
    <2>2. \A k \in {"ok", "malformed"} :
             Answer(k, LeftAfter(b), WindowAfter(b), 0) \in Response
      BY <2>1, AnswerType
    <2>3. PICK k \in {"ok", "malformed"} :
             Returns(c, Answer(k, LeftAfter(b), WindowAfter(b), 0))
      BY <1>9 DEF DoAccepted
    <2>4. QED
      BY <1>9, <2>1, <2>2, <2>3 DEF DoAccepted, Count, Returns
  <1>10. ASSUME NEW c \in Callers, DoThrottled(c) PROVE TypeOK'
    BY <1>10, ConstantsAssumption DEF DoThrottled, Returns, Answer, Response
  <1>11. ASSUME NEW c \in Callers, DoFaulty(c) PROVE TypeOK'
    <2>1. /\ Answer("error", 0, 0, 0) \in Response
          /\ Answer("global", 0, 0, GlobalAfter) \in Response
      BY AnswerType, ConstantsAssumption
    <2>2. PICK r \in Response : Returns(c, r)
      BY <1>11, <2>1 DEF DoFaulty
    <2>3. QED
      BY <1>11, <2>2 DEF DoFaulty, Returns
  <1>12. ASSUME NEW c \in Callers, DoFailed(c) PROVE TypeOK'
    <2> DEFINE b == bucket[c]
    <2>1. CASE UNCHANGED server
      BY <1>12, <2>1, NoResponseType DEF DoFailed, Returns
    <2>2. CASE ~Throttled(b) /\ Count(b)
      BY <1>12, <2>2, CountType, NoResponseType DEF DoFailed, Count, Returns
    <2>3. QED
      BY <1>12, <2>1, <2>2 DEF DoFailed
  <1>13. ASSUME NEW c \in Callers, Release(c) PROVE TypeOK'
    <2> DEFINE b == bucket[c]
               r == response[c]
    <2>1. /\ b \in Buckets
          /\ r \in Response
      OBVIOUS
    <2>2. /\ ResetFrom(r, reset[b]) \in Nat
          /\ RemainingFrom(r, remaining[b]) \in 0..(UintMod - 1)
      BY <2>1, ConstantsAssumption DEF ResetFrom, RemainingFrom, Response
    <2>3. CASE b \in Custom
      BY <1>13, <2>3, ConstantsAssumption DEF Release, ReleaseHeaders
    <2>4. CASE b \notin Custom
      <3>1. global' \in Nat
        BY <1>13, <2>1, <2>4 DEF Release, ReleaseHeaders, Response
      <3>2. UNCHANGED spacing
        BY <1>13, <2>4 DEF Release, ReleaseHeaders
      <3>3. onRespErr' \in [Callers -> BOOLEAN]
        BY <1>13, <2>4 DEF Release, ReleaseHeaders
      <3>4. QED
        BY <1>13, <2>1, <2>2, <2>4, <3>1, <3>2, <3>3 DEF Release, ReleaseHeaders
    <2>5. QED
      BY <2>3, <2>4
  <1>14. ASSUME NEW c \in Callers, TryUnlock(c) PROVE TypeOK'
    <2>1. CASE Again(c)
      BY <1>14, <2>1 DEF TryUnlock, RetryOrReturn
    <2>2. CASE ~Again(c)
      BY <1>14, <2>2 DEF TryUnlock, RetryOrReturn
    <2>3. QED
      BY <2>1, <2>2
  <1>15. ASSUME NEW c \in Callers, Cancel(c) PROVE TypeOK'
    BY <1>15 DEF Cancel
  <1>16. ASSUME Tick PROVE TypeOK'
    <2>1. deadline' \in [Callers -> Nat \cup {NoDeadline}]
      BY <1>16 DEF Tick, DecAll, Dec, NoDeadline
    <2>2. response' \in [Callers -> Response]
      BY <1>16, TickedResponse DEF Tick
    <2>3. global' \in Nat /\ DecAll(reset) \in [Buckets -> Nat]
          /\ DecAll(wait) \in [Callers -> Nat] /\ DecAll(window) \in [Buckets -> Nat]
          /\ DecAll(heldBack) \in [Callers -> Nat] /\ DecAll(spacing) \in [Buckets -> Nat]
      BY <1>16, DecAllType DEF Tick, Dec
    <2>4. QED
      BY <1>16, <2>1, <2>2, <2>3 DEF Tick
  <1>17. CASE UNCHANGED vars
    BY <1>17 DEF vars
  <1>18. QED
    BY <1>1, <1>2, <1>3, <1>4, <1>5, <1>6, <1>7, <1>8, <1>9, <1>10, <1>11, <1>12,
       <1>13, <1>14, <1>15, <1>16, <1>17 DEF Next, Step, Acquire, Do

(* The variables of the limiter, the callers and the server keep their      *)
(* types in every behaviour.                                                *)
THEOREM TypeCorrect == Spec => []TypeOK
  BY TypeInit, TypeStep, PTL DEF Spec

-----------------------------------------------------------------------------
(* No bucket stays locked, whatever is cancelled and whatever the server    *)
(* answers: NoLeak is inductive.                                            *)
LEMMA NoLeakStep == TypeOK /\ NoLeak /\ [Next]_vars => NoLeak'
  <1> SUFFICES ASSUME TypeOK, NoLeak, [Next]_vars PROVE NoLeak'
    OBVIOUS
  <1>0. /\ holder \in [Buckets -> Callers \cup {Free}]
        /\ pc \in [Callers -> PcLabels]
        /\ bucket \in [Callers -> Buckets]
        /\ Free \notin Callers
    BY ConstantsAssumption DEF TypeOK
  <1> USE <1>0 DEF NoLeak, At, Goto, limiter, call, context, server, history
  <1>1. ASSUME NEW c \in Callers, Start(c) PROVE NoLeak'
    BY <1>1 DEF Start
  <1>2. ASSUME NEW c \in Callers, Lock(c) PROVE NoLeak'
    BY <1>2 DEF Lock
  <1>3. ASSUME NEW c \in Callers, LockFailed(c) PROVE NoLeak'
    BY <1>3 DEF LockFailed
  <1>4. ASSUME NEW c \in Callers, Check(c) PROVE NoLeak'
    BY <1>4 DEF Check
  <1>5. ASSUME NEW c \in Callers, WakeUp(c) PROVE NoLeak'
    BY <1>5 DEF WakeUp
  <1>6. ASSUME NEW c \in Callers, WaitCancelled(c) PROVE NoLeak'
    BY <1>6 DEF WaitCancelled
  <1>7. ASSUME NEW c \in Callers, Test(c) PROVE NoLeak'
    BY <1>7 DEF Test
  <1>8. ASSUME NEW c \in Callers, Take(c) PROVE NoLeak'
    BY <1>8 DEF Take
  <1>9. ASSUME NEW c \in Callers, DoAccepted(c) PROVE NoLeak'
    BY <1>9 DEF DoAccepted, Returns
  <1>10. ASSUME NEW c \in Callers, DoThrottled(c) PROVE NoLeak'
    BY <1>10 DEF DoThrottled, Returns
  <1>11. ASSUME NEW c \in Callers, DoFaulty(c) PROVE NoLeak'
    BY <1>11 DEF DoFaulty, Returns
  <1>12. ASSUME NEW c \in Callers, DoFailed(c) PROVE NoLeak'
    BY <1>12 DEF DoFailed, Returns
  <1>13. ASSUME NEW c \in Callers, Release(c) PROVE NoLeak'
    BY <1>13 DEF Release, ReleaseHeaders
  <1>14. ASSUME NEW c \in Callers, TryUnlock(c) PROVE NoLeak'
    BY <1>14 DEF TryUnlock, RetryOrReturn
  <1>15. ASSUME NEW c \in Callers, Cancel(c) PROVE NoLeak'
    BY <1>15 DEF Cancel
  <1>16. ASSUME Tick PROVE NoLeak'
    BY <1>16 DEF Tick
  <1>17. CASE UNCHANGED vars
    BY <1>17 DEF vars
  <1>18. QED
    BY <1>1, <1>2, <1>3, <1>4, <1>5, <1>6, <1>7, <1>8, <1>9, <1>10, <1>11, <1>12, <1>13, <1>14, <1>15, <1>16, <1>17 DEF Next, Step, Acquire, Do

(* A bucket is locked only by a call in progress on it, so every way out of *)
(* a call leaves its bucket unlocked.                                       *)
THEOREM NeverLeaks == Spec => []NoLeak
  <1>1. Init => NoLeak
    BY DEF Init, NoLeak
  <1>2. QED
    BY <1>1, NoLeakStep, TypeCorrect, PTL DEF Spec

-----------------------------------------------------------------------------
(* Without cancelled contexts the mutex does what it is for.                *)
Uncancelled == Cancellable = {} /\ Deadlines = {NoDeadline}

LEMMA HoldsLockStep ==
    ASSUME Uncancelled
    PROVE  TypeOK /\ HoldsLock /\ [Next]_vars => HoldsLock'
  <1> SUFFICES ASSUME TypeOK, HoldsLock, [Next]_vars PROVE HoldsLock'
    OBVIOUS
  <1>0. /\ holder \in [Buckets -> Callers \cup {Free}]
        /\ pc \in [Callers -> PcLabels]
        /\ bucket \in [Callers -> Buckets]
        /\ deadline \in [Callers -> Nat \cup {NoDeadline}]
        /\ cancelled \in [Callers -> BOOLEAN]
        /\ Free \notin Callers
    BY ConstantsAssumption DEF TypeOK
  <1> USE <1>0 DEF HoldsLock, CtxDone, Section, NoDeadline, At, Goto,
                   limiter, call, context, server, history
  <1>1. ASSUME NEW c \in Callers, Start(c) PROVE HoldsLock'
    BY <1>1, Uncancelled DEF Start, Uncancelled
  <1>2. ASSUME NEW c \in Callers, Lock(c) PROVE HoldsLock'
    BY <1>2 DEF Lock
  <1>3. ASSUME NEW c \in Callers, LockFailed(c) PROVE HoldsLock'
    BY <1>3 DEF LockFailed
  <1>4. ASSUME NEW c \in Callers, Check(c) PROVE HoldsLock'
    BY <1>4 DEF Check
  <1>5. ASSUME NEW c \in Callers, WakeUp(c) PROVE HoldsLock'
    BY <1>5 DEF WakeUp
  <1>6. ASSUME NEW c \in Callers, WaitCancelled(c) PROVE HoldsLock'
    BY <1>6 DEF WaitCancelled
  <1>7. ASSUME NEW c \in Callers, Test(c) PROVE HoldsLock'
    BY <1>7 DEF Test
  <1>8. ASSUME NEW c \in Callers, Take(c) PROVE HoldsLock'
    BY <1>8 DEF Take
  <1>9. ASSUME NEW c \in Callers, DoAccepted(c) PROVE HoldsLock'
    BY <1>9 DEF DoAccepted, Returns
  <1>10. ASSUME NEW c \in Callers, DoThrottled(c) PROVE HoldsLock'
    BY <1>10 DEF DoThrottled, Returns
  <1>11. ASSUME NEW c \in Callers, DoFaulty(c) PROVE HoldsLock'
    BY <1>11 DEF DoFaulty, Returns
  <1>12. ASSUME NEW c \in Callers, DoFailed(c) PROVE HoldsLock'
    BY <1>12 DEF DoFailed, Returns
  <1>13. ASSUME NEW c \in Callers, Release(c) PROVE HoldsLock'
    BY <1>13 DEF Release, ReleaseHeaders
  <1>14. ASSUME NEW c \in Callers, TryUnlock(c) PROVE HoldsLock'
    BY <1>14 DEF TryUnlock, RetryOrReturn
  <1>15. ASSUME NEW c \in Callers, Cancel(c) PROVE HoldsLock'
    BY <1>15, Uncancelled DEF Cancel, Uncancelled
  <1>16. ASSUME Tick PROVE HoldsLock'
    BY <1>16 DEF Tick, DecAll, Dec
  <1>17. CASE UNCHANGED vars
    BY <1>17 DEF vars
  <1>18. QED
    BY <1>1, <1>2, <1>3, <1>4, <1>5, <1>6, <1>7, <1>8, <1>9, <1>10, <1>11, <1>12, <1>13, <1>14, <1>15, <1>16, <1>17 DEF Next, Step, Acquire, Do

LEMMA HoldsLockAlways ==
    ASSUME Uncancelled
    PROVE  Spec => []HoldsLock
  <1>1. Init => HoldsLock
    <2>1. ASSUME Init, NEW c \in Callers
          PROVE  /\ pc[c] = "idle"
                 /\ cancelled[c] = FALSE
                 /\ deadline[c] = NoDeadline
      BY <2>1 DEF Init
    <2>2. NoDeadline # 0
      BY DEF NoDeadline
    <2>3. QED
      BY <2>1, <2>2 DEF HoldsLock, CtxDone, Section
  <1>2. TypeOK /\ HoldsLock /\ [Next]_vars => HoldsLock'
    BY HoldsLockStep, Uncancelled
  <1>3. QED
    BY <1>1, <1>2, TypeCorrect, PTL DEF Spec

(* The requests of one bucket are made one at a time, in every run without  *)
(* cancelled contexts and whatever the server answers.                      *)
THEOREM MutualExclusion ==
    ASSUME Uncancelled
    PROVE  Spec => []Exclusive
  <1>1. HoldsLock => Exclusive
    BY DEF HoldsLock, Exclusive, Inside, Section
  <1>2. QED
    BY <1>1, HoldsLockAlways, Uncancelled, PTL

-----------------------------------------------------------------------------
(* What the limiter knows of the server, when no context ends and the       *)
(* server does not fail.                                                    *)

KnowsInv ==
    /\ global = 0
    /\ \A b \in Buckets : BucketInv(b)
    /\ \A c \in Callers : CallerInv(c)

(* The types the argument needs, and that two callers in the section of one *)
(* bucket are the same caller.                                              *)
Typed ==
    /\ pc \in [Callers -> PcLabels]
    /\ bucket \in [Callers -> Buckets]
    /\ optFailed \in [Callers -> BOOLEAN]
    /\ response \in [Callers -> Response]
    /\ wait \in [Callers -> Nat]
    /\ granted \in [Callers -> BOOLEAN]
    /\ remaining \in [Buckets -> Nat]
    /\ reset \in [Buckets -> Nat]
    /\ left \in [Buckets -> 0..Limit]
    /\ window \in [Buckets -> Nat]
    /\ spacing \in [Buckets -> Nat]
Alone == \A c, d \in Callers :
    pc[c] \in Section /\ pc[d] \in Section /\ bucket[c] = bucket[d] => c = d

LEMMA TypedAlone == TypeOK /\ HoldsLock => Typed /\ Alone
  <1>1. TypeOK => Typed
    BY DEF TypeOK, Typed
  <1>2. HoldsLock => Alone
    BY DEF HoldsLock, Alone
  <1>3. QED
    BY <1>1, <1>2

(* What a step of c leaves alone: the other callers, and every bucket but   *)
(* the one c has locked.                                                    *)
SameCaller(d) ==
    /\ pc'[d] = pc[d] /\ bucket'[d] = bucket[d] /\ optFailed'[d] = optFailed[d]
    /\ response'[d] = response[d] /\ wait'[d] = wait[d]
    /\ granted'[d] = granted[d]
SameBucket(b) ==
    /\ remaining'[b] = remaining[b] /\ reset'[b] = reset[b]
    /\ left'[b] = left[b] /\ window'[b] = window[b] /\ spacing'[b] = spacing[b]
Own(c, b) == pc[c] \in Section /\ b = bucket[c]
Frame(c) ==
    /\ \A d \in Callers : d # c => SameCaller(d)
    /\ \A b \in Buckets : Own(c, b) \/ SameBucket(b)

LEMMA FrameCallers ==
    ASSUME Typed, Alone, NEW c \in Callers, Frame(c),
           NEW d \in Callers, d # c, CallerInv(d)
    PROVE  CallerInv(d)'
  <1>1. SameCaller(d)
    BY DEF Frame
  <1>2. CASE pc[d] \in Section
    <2>1. bucket[d] \in Buckets /\ ~Own(c, bucket[d])
      BY <1>2 DEF Typed, Alone, Own
    <2>2. SameBucket(bucket[d])
      BY <2>1 DEF Frame
    <2>3. QED
      BY <1>1, <2>2 DEF CallerInv, SameCaller, SameBucket
  <1>3. CASE pc[d] \notin Section
    BY <1>1, <1>3 DEF CallerInv, SameCaller, Section
  <1>4. QED
    BY <1>2, <1>3

LEMMA FrameBuckets ==
    ASSUME Typed, NEW c \in Callers, Frame(c),
           NEW b \in Buckets, ~Own(c, b), BucketInv(b)
    PROVE  BucketInv(b)'
  <1>1. SameBucket(b)
    BY DEF Frame
  <1>2. ASSUME \A d \in Callers : bucket'[d] = b => ~Sent(d)'
        PROVE  Known(b)
    <2>1. ASSUME NEW d \in Callers, bucket[d] = b PROVE ~Sent(d)
      <3>1. CASE d = c
        BY <2>1, <3>1 DEF Own, Sent, Section
      <3>2. CASE d # c
        BY <1>2, <2>1, <3>2 DEF Frame, SameCaller, Sent
      <3>3. QED
        BY <3>1, <3>2
    <2>2. QED
      BY <2>1 DEF BucketInv
  <1>3. QED
    BY <1>1, <1>2 DEF BucketInv, SameBucket, Known

(* So only c and its own bucket need an argument.                           *)
LEMMA OwnStep ==
    ASSUME TypeOK, HoldsLock, KnowsInv, NEW c \in Callers, Frame(c), global' = 0,
           CallerInv(c)', \A b \in Buckets : Own(c, b) => BucketInv(b)'
    PROVE  KnowsInv'
  <1>1. Typed /\ Alone
    BY TypedAlone
  <1>2. ASSUME NEW d \in Callers PROVE CallerInv(d)'
    BY <1>1, FrameCallers DEF KnowsInv
  <1>3. ASSUME NEW b \in Buckets PROVE BucketInv(b)'
    <2>1. CASE Own(c, b)
      BY <2>1
    <2>2. CASE ~Own(c, b)
      BY <1>1, <2>2, FrameBuckets DEF KnowsInv
    <2>3. QED
      BY <2>1, <2>2
  <1>4. QED
    BY <1>2, <1>3 DEF KnowsInv

(* While c is in the section of its bucket, nobody else has a request of    *)
(* that bucket on its way.                                                  *)
LEMMA OwnKnown ==
    ASSUME TypeOK, HoldsLock, KnowsInv,
           NEW c \in Callers, pc[c] \in Section, ~Sent(c)
    PROVE  Known(bucket[c])
  <1>1. Typed /\ Alone
    BY TypedAlone
  <1>2. \A d \in Callers : bucket[d] = bucket[c] => ~Sent(d)
    BY <1>1 DEF Alone, Sent, Section
  <1>3. QED
    BY <1>1, <1>2 DEF KnowsInv, BucketInv, Typed

(* Every step keeps KnowsInv.                                               *)
LEMMA KnowsStep ==
    ASSUME Quiet
    PROVE  TypeOK /\ HoldsLock /\ KnowsInv /\ [Next]_vars => KnowsInv'
  <1> SUFFICES ASSUME TypeOK, HoldsLock, KnowsInv, [Next]_vars PROVE KnowsInv'
    OBVIOUS
  <1>0. Typed /\ \A c \in Callers : CallerInv(c)
    BY TypedAlone DEF KnowsInv
  <1>k. ASSUME NEW c \in Callers, NEW b \in Buckets, Own(c, b), ~Sent(c) PROVE Known(b)
    BY <1>k, OwnKnown DEF Own
  <1>b. ASSUME NEW b \in Buckets
        PROVE  /\ window[b] <= Window /\ remaining[b] <= Limit
               /\ b \in Custom => /\ remaining[b] <= 1
                                  /\ remaining[b] > 0 => reset[b] = 0
                                  /\ spacing[b] <= reset[b]
    BY DEF KnowsInv, BucketInv
  <1> USE DEF At, Goto, limiter, call, context, server, history
  <1>1. ASSUME NEW c \in Callers, Start(c) PROVE KnowsInv'
    <2>1. Frame(c) /\ global' = 0
      BY <1>0, <1>1 DEF Start, Frame, SameCaller, SameBucket, Own, Section, Typed, KnowsInv
    <2>2. pc'[c] = "lock" /\ ~optFailed'[c] /\ response'[c] = NoResponse /\ ~granted'[c]
      BY <1>0, <1>1 DEF Start, Typed, CallerInv
    <2>3. CallerInv(c)'
      BY <2>2 DEF CallerInv, NoResponse
    <2>4. QED
      BY <1>1, <2>1, <2>3, OwnStep DEF Start, Own, Section
  <1>2. ASSUME NEW c \in Callers, Lock(c) PROVE KnowsInv'
    <2>1. Frame(c) /\ global' = 0
      BY <1>0, <1>2 DEF Lock, Frame, SameCaller, SameBucket, Own, Section, Typed, KnowsInv
    <2>2. CallerInv(c)'
      BY <1>0, <1>2 DEF Lock, CallerInv, Typed
    <2>3. QED
      BY <1>2, <2>1, <2>2, OwnStep DEF Lock, Own, Section
  <1>3. ASSUME NEW c \in Callers, LockFailed(c) PROVE FALSE
    BY <1>3 DEF LockFailed, HoldsLock
  <1>4. ASSUME NEW c \in Callers, Check(c) PROVE KnowsInv'
    <2>1. Frame(c) /\ global' = 0
      BY <1>0, <1>4 DEF Check, Frame, SameCaller, SameBucket, Own, Section, Typed, KnowsInv
    <2>2. CallerInv(c)'
      <3>0. /\ ~optFailed[c] /\ response[c].kind \in {"none", "ok"}
            /\ global = 0 /\ bucket[c] \in Buckets /\ bucket' = bucket
            /\ remaining' = remaining /\ reset' = reset /\ granted' = granted /\ ~granted[c]
            /\ remaining[bucket[c]] \in Nat /\ reset[bucket[c]] \in Nat
        BY <1>0, <1>4 DEF Check, CallerInv, Typed, KnowsInv
      <3>1. CASE Until(bucket[c]) = 0 /\ Goto(c, "test") /\ UNCHANGED <<optFailed, response, wait>>
        <4>1. pc'[c] = "test" /\ ~optFailed'[c] /\ response'[c] = response[c]
          BY <1>0, <3>0, <3>1 DEF Typed
        <4>2. remaining[bucket[c]] = 0 => reset[bucket[c]] = 0
          BY <3>0, <3>1 DEF Until, OutOfTurns
        <4>3. QED
          BY <3>0, <4>1, <4>2 DEF CallerInv
      <3>2. CASE /\ Until(bucket[c]) > 0
                 /\ optFailed' = [optFailed EXCEPT ![c] = TRUE]
                 /\ response' = [response EXCEPT ![c] = NoResponse]
                 /\ Goto(c, "release")
        <4>1. pc'[c] = "release" /\ optFailed'[c] /\ response'[c] = NoResponse
          BY <1>0, <3>2 DEF Typed
        <4>2. remaining[bucket[c]] = 0
          BY <3>0, <3>2 DEF Until, OutOfTurns
        <4>3. QED
          BY <3>0, <4>1, <4>2 DEF CallerInv, NoResponse
      <3>3. CASE /\ Until(bucket[c]) > 0
                 /\ wait' = [wait EXCEPT ![c] = Until(bucket[c])]
                 /\ Goto(c, "wait")
                 /\ UNCHANGED <<optFailed, response>>
        <4>1. /\ pc'[c] = "wait" /\ ~optFailed'[c] /\ response'[c] = response[c]
              /\ wait'[c] = Until(bucket[c])
          BY <1>0, <3>0, <3>3 DEF Typed
        <4>2. OutOfTurns(bucket[c])
          BY <3>0, <3>3 DEF Until
        <4>3. QED
          BY <3>0, <4>1, <4>2 DEF CallerInv, Until, OutOfTurns
      <3>4. QED
        BY <1>4, <3>1, <3>2, <3>3 DEF Check
    <2>3. ASSUME NEW b \in Buckets, Own(c, b) PROVE BucketInv(b)'
      <3>1. ~Sent(c) /\ UNCHANGED <<remaining, reset, left, window, spacing>>
        BY <1>4 DEF Check, Sent
      <3>2. QED
        BY <1>k, <1>b, <2>3, <3>1 DEF BucketInv, Known
    <2>4. QED
      BY <2>1, <2>2, <2>3, OwnStep
  <1>5. ASSUME NEW c \in Callers, WakeUp(c) PROVE KnowsInv'
    <2>1. Frame(c) /\ global' = 0
      BY <1>0, <1>5 DEF WakeUp, Frame, SameCaller, SameBucket, Own, Section, Typed, KnowsInv
    <2>2. CallerInv(c)'
      <3>1. /\ pc'[c] = "test" /\ ~optFailed'[c] /\ response'[c] = response[c]
            /\ response[c].kind \in {"none", "ok"}
            /\ UNCHANGED <<bucket, reset, granted>> /\ reset[bucket[c]] = 0 /\ ~granted[c]
        BY <1>0, <1>5 DEF WakeUp, CallerInv, Typed
      <3>2. QED
        BY <3>1 DEF CallerInv
    <2>3. ASSUME NEW b \in Buckets, Own(c, b) PROVE BucketInv(b)'
      <3>1. ~Sent(c) /\ UNCHANGED <<remaining, reset, left, window, spacing>>
        BY <1>5 DEF WakeUp, Sent
      <3>2. QED
        BY <1>k, <1>b, <2>3, <3>1 DEF BucketInv, Known
    <2>4. QED
      BY <2>1, <2>2, <2>3, OwnStep
  <1>6. ASSUME NEW c \in Callers, WaitCancelled(c) PROVE FALSE
    BY <1>6 DEF WaitCancelled, HoldsLock
  <1>7. ASSUME NEW c \in Callers, Test(c) PROVE KnowsInv'
    <2>1. Frame(c) /\ global' = 0
      BY <1>0, <1>7 DEF Test, Frame, SameCaller, SameBucket, Own, Section, Typed, KnowsInv
    <2> DEFINE x == bucket[c]
    <2>2. /\ x \in Buckets /\ Own(c, x) /\ ~Sent(c) /\ Known(x)
          /\ remaining[x] \in Nat /\ reset[x] \in Nat /\ window[x] \in Nat
          /\ UNCHANGED <<remaining, reset, left, window, spacing, bucket>>
      BY <1>0, <1>7, <1>k DEF Test, Typed, Own, Section, Sent
    <2>3. /\ ~optFailed'[c] /\ response'[c] = response[c]
          /\ response[c].kind \in {"none", "ok"}
          /\ remaining[x] = 0 => reset[x] = 0
          /\ granted'[c] = ~(remaining[x] > 0)
          /\ pc'[c] = IF remaining[x] > 0 THEN "take" ELSE "send"
      BY <1>0, <1>7 DEF Test, CallerInv, Typed
    <2>4. CallerInv(c)'
      <3>1. CASE remaining[x] > 0
        <4>1. pc'[c] = "take" /\ ~granted'[c]
          BY <2>3, <3>1
        <4>2. QED
          BY <2>2, <2>3, <3>1, <4>1 DEF CallerInv
      <3>2. CASE remaining[x] = 0
        <4>0. ~(remaining[x] > 0)
          BY <3>2
        <4>1. pc'[c] = "send" /\ granted'[c]
          BY <2>3, <4>0, Zenon
        <4>2. window[x] = 0 /\ reset[x] = 0
          BY <2>2, <2>3, <3>2 DEF Known
        <4>3. QED
          BY <2>2, <2>3, <3>2, <4>1, <4>2 DEF CallerInv
      <3>3. QED
        BY <2>2, <3>1, <3>2
    <2>5. ASSUME NEW b \in Buckets, Own(c, b) PROVE BucketInv(b)'
      BY <1>b, <2>2, <2>5 DEF BucketInv, Known, Own
    <2>6. QED
      BY <2>1, <2>4, <2>5, OwnStep
  <1>8. ASSUME NEW c \in Callers, Take(c) PROVE KnowsInv'
    <2>1. Frame(c) /\ global' = 0
      BY <1>0, <1>8 DEF Take, Frame, SameCaller, SameBucket, Own, Section, Typed, KnowsInv
    <2> DEFINE x == bucket[c]
    <2>2. /\ x \in Buckets /\ Own(c, x) /\ ~Sent(c) /\ Known(x)
          /\ remaining[x] \in 0..(UintMod - 1) /\ remaining[x] > 0
          /\ reset[x] \in Nat /\ window[x] \in Nat /\ left[x] \in Nat
          /\ UNCHANGED <<reset, left, window, spacing, bucket>>
      BY <1>0, <1>8, <1>k DEF Take, Typed, TypeOK, Own, Section, Sent, CallerInv
    <2>3. remaining'[x] = remaining[x] - 1
      <3>1. remaining'[x] = (remaining[x] - 1) % UintMod
        BY <1>0, <1>8, <2>2 DEF Take, Typed
      <3>2. UintMod \in Nat /\ UintMod > 0
        BY ConstantsAssumption
      <3>3. \A n \in 0..(UintMod - 1) : n % UintMod = n
        BY <3>2
      <3>4. QED
        BY <2>2, <3>1, <3>2, <3>3
    <2>4. /\ pc'[c] = "send" /\ ~optFailed'[c] /\ response'[c] = response[c]
          /\ response[c].kind \in {"none", "ok"}
      BY <1>0, <1>8 DEF Take, CallerInv, Typed
    <2>5. x \in Custom => remaining[x] = 1 /\ reset[x] = 0
      BY <1>b, <2>2
    <2>6. CallerInv(c)'
      BY <2>2, <2>3, <2>4, <2>5 DEF CallerInv, Known
    <2>7. ASSUME NEW b \in Buckets, Own(c, b) PROVE BucketInv(b)'
      BY <1>b, <2>2, <2>3, <2>7, ConstantsAssumption DEF BucketInv, Known, Own
    <2>8. QED
      BY <2>1, <2>6, <2>7, OwnStep
  <1>9. ASSUME NEW c \in Callers, DoAccepted(c) PROVE KnowsInv'
    <2>1. Frame(c) /\ global' = 0
      BY <1>0, <1>9 DEF DoAccepted, Count, Returns, Frame, SameCaller, SameBucket, Own,
                        Section, Typed, KnowsInv
    <2> DEFINE x == bucket[c]
    <2>2. /\ x \in Buckets /\ Own(c, x) /\ ~Throttled(x)
          /\ left[x] \in 0..Limit /\ window[x] \in Nat /\ window[x] <= Window
          /\ UNCHANGED <<remaining, reset, spacing, bucket, optFailed>>
          /\ ~optFailed[c] /\ granted' = granted
          /\ window[x] > 0 => remaining[x] < left[x]
          /\ x \in Custom => remaining[x] = 0 /\ reset[x] = 0
      BY <1>0, <1>9, <1>b DEF DoAccepted, Returns, Typed, CallerInv, Own, Section
    <2>3. /\ left'[x] = LeftAfter(x) /\ window'[x] = WindowAfter(x)
          /\ pc'[c] = "release"
          /\ response'[c] = Answer("ok", LeftAfter(x), WindowAfter(x), 0)
      BY <1>0, <1>9, Quiet DEF DoAccepted, Count, Returns, Typed, Quiet
    <2>4. CallerInv(c)'
      BY <2>2, <2>3 DEF CallerInv, Answer
    <2>5. ASSUME NEW b \in Buckets, Own(c, b) PROVE BucketInv(b)'
      <3>1. b = x /\ Sent(c)' /\ bucket'[c] = x
        BY <2>2, <2>3, <2>5 DEF Own, Sent
      <3>2. window'[x] <= Window
        BY <2>2, <2>3, ConstantsAssumption DEF WindowAfter
      <3>3. QED
        BY <1>b, <2>2, <3>1, <3>2 DEF BucketInv
    <2>6. QED
      BY <2>1, <2>4, <2>5, OwnStep
  <1>10. ASSUME NEW c \in Callers, DoThrottled(c) PROVE FALSE
    <2>1. /\ bucket[c] \in Buckets
          /\ window[bucket[c]] > 0 => remaining[bucket[c]] < left[bucket[c]]
      BY <1>0, <1>10 DEF DoThrottled, CallerInv, Typed
    <2>2. QED
      BY <1>0, <1>10, <2>1 DEF DoThrottled, Throttled, Typed
  <1>11. ASSUME NEW c \in Callers, DoFaulty(c) PROVE FALSE
    BY <1>11, Quiet DEF DoFaulty, Quiet
  <1>12. ASSUME NEW c \in Callers, DoFailed(c) PROVE FALSE
    BY <1>12, Quiet DEF DoFailed, HoldsLock, Quiet
  <1>13. ASSUME NEW c \in Callers, Release(c) PROVE KnowsInv'
    <2> DEFINE x == bucket[c]
               r == response[c]
    <2>1. /\ x \in Buckets /\ Own(c, x) /\ r \in Response /\ pc[c] = "release"
          /\ remaining[x] \in Nat /\ reset[x] \in Nat /\ left[x] \in 0..Limit
          /\ window[x] \in Nat /\ spacing[x] \in Nat
          /\ UNCHANGED <<bucket, optFailed, response, left, window, wait>>
          /\ pc'[c] = "unlock" /\ ~granted'[c]
      BY <1>0, <1>13 DEF Release, ReleaseHeaders, Typed, Own, Section
    <2>2. /\ r.kind \in {"none", "ok"}
          /\ optFailed[c] => r.kind = "none" /\ ~granted[c]
          /\ ~optFailed[c] => /\ r.kind = "ok"
                              /\ r.remaining = left[x] /\ r.reset = window[x]
                              /\ x \in Custom => remaining[x] = 0 /\ reset[x] = 0
      BY <1>0, <2>1 DEF CallerInv
    <2>3. global' = 0
      BY <1>13, <2>2 DEF Release, ReleaseHeaders, KnowsInv
    <2>4. Frame(c)
      BY <1>0, <1>13 DEF Release, ReleaseHeaders, Frame, SameCaller, SameBucket, Own,
                         Section, Typed
    <2>5. CallerInv(c)'
      BY <2>1, <2>2 DEF CallerInv
    <2>6. ASSUME NEW b \in Buckets, Own(c, b) PROVE BucketInv(b)'
      <3>0. b = x
        BY <2>6 DEF Own
      <3>1. CASE x \in Custom
        <4>1. /\ remaining'[x] = remaining[x]
              /\ reset'[x] = IF reset[x] = 0 THEN CustomReset ELSE reset[x]
              /\ spacing'[x] = IF granted[c] THEN CustomReset ELSE spacing[x]
          BY <1>0, <1>13, <2>1, <3>1 DEF Release, ReleaseHeaders, Typed
        <4>2. window[x] <= Window /\ Window <= CustomReset /\ CustomReset \in Nat /\ Window \in Nat
          BY <1>b, <2>1, Quiet, ConstantsAssumption DEF Quiet
        <4>3. remaining[x] <= 1 /\ (remaining[x] > 0 => reset[x] = 0) /\ spacing[x] <= reset[x]
          BY <1>b, <2>1, <3>1
        <4>4. remaining[x] = 0
          BY <1>0, <2>1, <2>2, <3>1 DEF CallerInv
        <4>5. CASE optFailed[c]
          <5>1. Known(x) /\ spacing'[x] = spacing[x]
            BY <1>k, <2>1, <2>2, <4>1, <4>5 DEF Sent
          <5>2. QED
            BY <1>b, <2>1, <3>0, <3>1, <4>1, <4>2, <4>3, <4>4, <4>5, <5>1 DEF BucketInv, Known
        <4>6. CASE ~optFailed[c]
          BY <1>b, <2>1, <2>2, <3>0, <3>1, <4>1, <4>2, <4>3, <4>4, <4>6 DEF BucketInv, Known
        <4>7. QED
          BY <4>5, <4>6
      <3>2. CASE x \notin Custom
        <4>1. /\ remaining'[x] = RemainingFrom(r, remaining[x])
              /\ reset'[x] = ResetFrom(r, reset[x])
          BY <1>0, <1>13, <2>1, <3>2 DEF Release, ReleaseHeaders, Typed
        <4>2. CASE r.kind = "ok"
          BY <1>b, <2>1, <2>2, <3>0, <3>2, <4>1, <4>2, ConstantsAssumption
             DEF BucketInv, Known, RemainingFrom, ResetFrom
        <4>3. CASE r.kind = "none"
          <5>1. Known(x)
            BY <1>k, <2>1, <2>2, <4>3 DEF Sent
          <5>2. QED
            BY <1>b, <2>1, <3>0, <3>2, <4>1, <4>3, <5>1
               DEF BucketInv, Known, RemainingFrom, ResetFrom
        <4>4. QED
          BY <2>2, <4>2, <4>3
      <3>3. QED
        BY <3>1, <3>2
    <2>7. QED
      BY <2>3, <2>4, <2>5, <2>6, OwnStep
  <1>14. ASSUME NEW c \in Callers, TryUnlock(c) PROVE KnowsInv'
    <2>1. Frame(c) /\ global' = 0
      BY <1>0, <1>14 DEF TryUnlock, RetryOrReturn, Frame, SameCaller, SameBucket, Own,
                         Section, Typed, KnowsInv
    <2>2. /\ pc'[c] \in {"lock", "idle"} /\ optFailed' = optFailed /\ response' = response
          /\ pc'[c] = "lock" => ~optFailed[c]
          /\ granted' = granted /\ ~granted[c]
      BY <1>0, <1>14 DEF TryUnlock, RetryOrReturn, Again, Typed, CallerInv
    <2>3. CallerInv(c)'
      BY <1>0, <2>2 DEF CallerInv
    <2>4. ASSUME NEW b \in Buckets, Own(c, b) PROVE BucketInv(b)'
      <3>1. ~Sent(c) /\ UNCHANGED <<remaining, reset, left, window, spacing>>
        BY <1>14 DEF TryUnlock, Sent
      <3>2. QED
        BY <1>k, <1>b, <2>4, <3>1 DEF BucketInv, Known
    <2>5. QED
      BY <2>1, <2>3, <2>4, OwnStep
  <1>15. ASSUME NEW c \in Callers, Cancel(c) PROVE FALSE
    BY <1>15, Quiet DEF Cancel, Quiet
  <1>16. ASSUME Tick PROVE KnowsInv'
    <2>1. UNCHANGED <<pc, bucket, optFailed, remaining, left, granted>>
      BY <1>16 DEF Tick
    <2>2. ASSUME NEW c \in Callers
          PROVE  /\ wait'[c] = Dec(wait[c])
                 /\ response'[c] = [response[c] EXCEPT !.reset = Dec(@)]
      BY <1>0, <1>16 DEF Tick, DecAll, Typed
    <2>3. ASSUME NEW b \in Buckets
          PROVE  /\ reset'[b] = Dec(reset[b]) /\ window'[b] = Dec(window[b])
                 /\ spacing'[b] = Dec(spacing[b])
      BY <1>0, <1>16 DEF Tick, DecAll, Typed
    <2>4. ASSUME NEW c \in Callers PROVE CallerInv(c)'
      <3>1. /\ response'[c].kind = response[c].kind
            /\ response'[c].remaining = response[c].remaining
            /\ response'[c].reset = Dec(response[c].reset)
        BY <1>0, <2>2, TickedFields DEF Typed
      <3>2. bucket[c] \in Buckets /\ Dec(0) = 0
        BY <1>0 DEF Typed, Dec
      <3>. /\ wait'[c] = Dec(wait[c]) /\ reset'[bucket[c]] = Dec(reset[bucket[c]])
           /\ window'[bucket[c]] = Dec(window[bucket[c]])
        BY <2>2, <2>3, <3>2
      <3>3. /\ wait[c] = reset[bucket[c]] => wait'[c] = reset'[bucket[c]]
            /\ response[c].reset = window[bucket[c]] =>
                   response'[c].reset = window'[bucket[c]]
            /\ reset[bucket[c]] = 0 => reset'[bucket[c]] = 0
            /\ window'[bucket[c]] > 0 => window[bucket[c]] > 0
        <4>1. window[bucket[c]] \in Nat
          BY <1>0, <3>2 DEF Typed
        <4>2. Dec(window[bucket[c]]) > 0 => window[bucket[c]] > 0
          BY <4>1 DEF Dec
        <4>3. QED
          BY <3>1, <3>2, <4>2
      <3>4. QED
        BY <1>0, <2>1, <3>1, <3>3 DEF CallerInv
    <2>5. ASSUME NEW b \in Buckets PROVE BucketInv(b)'
      <3>1. Known(b) => Known(b)'
        BY <1>0, <2>1, <2>3 DEF Known, Dec, Typed
      <3>2. \A c \in Callers : Sent(c)' <=> Sent(c)
        BY <2>1 DEF Sent
      <3>3. /\ window'[b] <= Window
            /\ reset[b] = 0 => reset'[b] = 0
            /\ spacing[b] <= reset[b] => spacing'[b] <= reset'[b]
        BY <1>0, <1>b, <2>3, ConstantsAssumption DEF Dec, Typed
      <3>4. QED
        BY <1>b, <2>1, <3>1, <3>2, <3>3 DEF BucketInv, KnowsInv
    <2>6. QED
      BY <1>16, <2>4, <2>5 DEF Tick, Dec, KnowsInv
  <1>17. CASE UNCHANGED vars
    BY <1>17 DEF vars, KnowsInv, BucketInv, CallerInv, Known, Sent
  <1>18. QED
    BY <1>1, <1>2, <1>3, <1>4, <1>5, <1>6, <1>7, <1>8, <1>9, <1>10, <1>11, <1>12,
       <1>13, <1>14, <1>15, <1>16, <1>17 DEF Next, Step, Acquire, Do

LEMMA KnowsAlways ==
    ASSUME Quiet
    PROVE  Spec => [](HoldsLock /\ KnowsInv)
  <1>1. Init => KnowsInv
    <2>1. ASSUME Init, NEW c \in Callers PROVE CallerInv(c)
      BY <2>1 DEF Init, CallerInv, NoResponse
    <2>2. ASSUME Init, NEW b \in Buckets PROVE BucketInv(b)
      BY <2>2, ConstantsAssumption DEF Init, BucketInv, Known
    <2>3. QED
      BY <2>1, <2>2 DEF Init, KnowsInv
  <1>2. Spec => []HoldsLock
    BY HoldsLockAlways, Quiet DEF Quiet, Uncancelled
  <1>3. TypeOK /\ HoldsLock /\ KnowsInv /\ [Next]_vars => KnowsInv'
    BY KnowsStep, Quiet
  <1>4. QED
    BY <1>1, <1>2, <1>3, TypeCorrect, PTL DEF Spec

(* With live contexts and a server that answers, the limiter is never told  *)
(* 429, whatever the limits, windows and number of callers.                 *)
THEOREM ServerNeverThrottles ==
    ASSUME Quiet
    PROVE  Spec => []NeverThrottled
  <1>1. KnowsInv => NeverThrottled
    BY DEF KnowsInv, CallerInv, NeverThrottled
  <1>2. QED
    BY <1>1, KnowsAlways, Quiet, PTL

(* ... the unsigned counter of turns never wraps around ...                 *)
THEOREM TurnsNeverUnderflow ==
    ASSUME Quiet
    PROVE  Spec => []NoUnderflow
  <1>1. KnowsInv => NoUnderflow
    BY DEF KnowsInv, BucketInv, NoUnderflow
  <1>2. QED
    BY <1>1, KnowsAlways, Quiet, PTL

(* ... and the requests of a custom bucket keep their distance.             *)
THEOREM CustomBucketsSpaced ==
    ASSUME Quiet
    PROVE  Spec => []CustomSpaced
  <1>1. TypeOK /\ KnowsInv => CustomSpaced
    <2> SUFFICES ASSUME TypeOK, KnowsInv, NEW c \in Callers, pc[c] = "send",
                        bucket[c] \in Custom
                 PROVE  spacing[bucket[c]] = 0
      BY DEF CustomSpaced
    <2>1. bucket[c] \in Buckets /\ CallerInv(c) /\ BucketInv(bucket[c])
      BY DEF TypeOK, KnowsInv
    <2>2. QED
      BY <2>1 DEF TypeOK, CallerInv, BucketInv
  <1>2. QED
    BY <1>1, KnowsAlways, TypeCorrect, Quiet, PTL

-----------------------------------------------------------------------------
(* The limiter implements SerialBuckets (its safety part).                  *)

(* A caller whose request option failed does not send, nor try again.       *)
Unfailed == \A c \in Callers :
    pc[c] \in {"lock", "check", "wait", "test", "take", "send"} => ~optFailed[c]

LEMMA UnfailedStep == TypeOK /\ Unfailed /\ [Next]_vars => Unfailed'
  <1> SUFFICES ASSUME TypeOK, Unfailed, [Next]_vars PROVE Unfailed'
    OBVIOUS
  <1>0. /\ pc \in [Callers -> PcLabels]
        /\ optFailed \in [Callers -> BOOLEAN]
    BY DEF TypeOK
  <1> USE <1>0 DEF Unfailed, At, Goto, limiter, call, context, server, history
  <1>1. ASSUME NEW c \in Callers, Start(c) PROVE Unfailed'
    BY <1>1 DEF Start
  <1>2. ASSUME NEW c \in Callers, Lock(c) PROVE Unfailed'
    BY <1>2 DEF Lock
  <1>3. ASSUME NEW c \in Callers, LockFailed(c) PROVE Unfailed'
    BY <1>3 DEF LockFailed
  <1>4. ASSUME NEW c \in Callers, Check(c) PROVE Unfailed'
    BY <1>4 DEF Check
  <1>5. ASSUME NEW c \in Callers, WakeUp(c) PROVE Unfailed'
    BY <1>5 DEF WakeUp
  <1>6. ASSUME NEW c \in Callers, WaitCancelled(c) PROVE Unfailed'
    BY <1>6 DEF WaitCancelled
  <1>7. ASSUME NEW c \in Callers, Test(c) PROVE Unfailed'
    BY <1>7 DEF Test
  <1>8. ASSUME NEW c \in Callers, Take(c) PROVE Unfailed'
    BY <1>8 DEF Take
  <1>9. ASSUME NEW c \in Callers, DoAccepted(c) PROVE Unfailed'
    BY <1>9 DEF DoAccepted, Returns
  <1>10. ASSUME NEW c \in Callers, DoThrottled(c) PROVE Unfailed'
    BY <1>10 DEF DoThrottled, Returns
  <1>11. ASSUME NEW c \in Callers, DoFaulty(c) PROVE Unfailed'
    BY <1>11 DEF DoFaulty, Returns
  <1>12. ASSUME NEW c \in Callers, DoFailed(c) PROVE Unfailed'
    BY <1>12 DEF DoFailed, Returns
  <1>13. ASSUME NEW c \in Callers, Release(c) PROVE Unfailed'
    BY <1>13 DEF Release, ReleaseHeaders
  <1>14. ASSUME NEW c \in Callers, TryUnlock(c) PROVE Unfailed'
    BY <1>14 DEF TryUnlock, RetryOrReturn, Again
  <1>15. ASSUME NEW c \in Callers, Cancel(c) PROVE Unfailed'
    BY <1>15 DEF Cancel
  <1>16. ASSUME Tick PROVE Unfailed'
    BY <1>16 DEF Tick
  <1>17. CASE UNCHANGED vars
    BY <1>17 DEF vars
  <1>18. QED
    BY <1>1, <1>2, <1>3, <1>4, <1>5, <1>6, <1>7, <1>8, <1>9, <1>10,
       <1>11, <1>12, <1>13, <1>14, <1>15, <1>16, <1>17 DEF Next, Step, Acquire, Do

LEMMA SerialInit == Init => Serial!Init
  BY DEF Init, Serial!Init, Phase, Inside

(* A step that changes nobody's phase and no bucket.                        *)
LEMMA SerialStutter ==
    ASSUME \A c \in Callers : Phase(c)' = Phase(c), bucket' = bucket
    PROVE  UNCHANGED Serial!vars
  BY DEF Serial!vars

LEMMA SerialStep ==
    ASSUME Uncancelled
    PROVE  TypeOK /\ HoldsLock /\ Unfailed /\ [Next]_vars => [Serial!Next]_(Serial!vars)
  <1> SUFFICES ASSUME TypeOK, HoldsLock, Unfailed, [Next]_vars
               PROVE  Serial!Next \/ UNCHANGED Serial!vars
    OBVIOUS
  <1>0. /\ pc \in [Callers -> PcLabels]
        /\ bucket \in [Callers -> Buckets]
        /\ optFailed \in [Callers -> BOOLEAN]
    BY DEF TypeOK
  <1> USE DEF At, Goto, limiter, call, context, server, history
  <1>1. ASSUME NEW c \in Callers, Start(c) PROVE Serial!Ask(c)
    BY <1>0, <1>1 DEF Start, Serial!Ask, Phase, Inside
  <1>2. ASSUME NEW c \in Callers, Lock(c) PROVE Serial!Enter(c)
    <2>1. ASSUME NEW d \in Callers, Inside(d), bucket[d] = bucket[c] PROVE FALSE
      <3>1. holder[bucket[c]] = d
        BY <2>1 DEF HoldsLock, Inside, Section
      <3>2. QED
        BY <1>2, <3>1, ConstantsAssumption DEF Lock
    <2>2. ~Serial!Occupied(bucket[c])
      BY <2>1 DEF Serial!Occupied, Phase
    <2>3. QED
      BY <1>0, <1>2, <2>2 DEF Lock, Serial!Enter, Phase, Inside
  <1>3. ASSUME NEW c \in Callers, LockFailed(c) PROVE FALSE
    BY <1>3 DEF LockFailed, HoldsLock
  <1>4. ASSUME NEW c \in Callers, Check(c)
        PROVE  Serial!Leave(c) \/ UNCHANGED Serial!vars
    <2>1. CASE Goto(c, "release") /\ optFailed' = [optFailed EXCEPT ![c] = TRUE]
      <3>1. Serial!Leave(c)
        BY <1>0, <1>4, <2>1 DEF Check, Serial!Leave, Phase, Inside
      <3>2. QED
        BY <3>1
    <2>2. CASE \E p \in {"test", "wait"} : Goto(c, p)
      <3>1. \A d \in Callers : Phase(d)' = Phase(d)
        <4>1. bucket' = bucket
          BY <1>4 DEF Check
        <4>2. ASSUME NEW d \in Callers, d # c PROVE Phase(d)' = Phase(d)
          BY <1>0, <1>4, <2>2, <4>2 DEF Check, Phase, Inside
        <4>3. Phase(c)' = Phase(c)
          BY <1>0, <1>4, <2>2 DEF Check, Phase, Inside
        <4>4. QED
          BY <4>2, <4>3
      <3>2. QED
        BY <1>4, <3>1, SerialStutter DEF Check
    <2>3. QED
      BY <1>4, <2>1, <2>2 DEF Check
  <1>5. ASSUME NEW c \in Callers, WakeUp(c) PROVE UNCHANGED Serial!vars
    BY <1>0, <1>5, SerialStutter DEF WakeUp, Phase, Inside
  <1>6. ASSUME NEW c \in Callers, WaitCancelled(c) PROVE FALSE
    BY <1>6 DEF WaitCancelled, HoldsLock
  <1>7. ASSUME NEW c \in Callers, Test(c) PROVE UNCHANGED Serial!vars
    BY <1>0, <1>7, SerialStutter DEF Test, Phase, Inside
  <1>8. ASSUME NEW c \in Callers, Take(c) PROVE UNCHANGED Serial!vars
    BY <1>0, <1>8, SerialStutter DEF Take, Phase, Inside
  <1>9. ASSUME NEW c \in Callers, Do(c) PROVE UNCHANGED Serial!vars
    <2>1. /\ pc[c] = "send" /\ pc' = [pc EXCEPT ![c] = "release"]
          /\ UNCHANGED <<optFailed, bucket>>
      BY <1>9 DEF Do, DoAccepted, DoThrottled, DoFaulty, DoFailed, Returns
    <2>2. optFailed[c] = FALSE
      BY <1>0, <2>1 DEF Unfailed
    <2>3. QED
      BY <1>0, <2>1, <2>2, SerialStutter DEF Phase, Inside
  <1>10. ASSUME NEW c \in Callers, Release(c) PROVE UNCHANGED Serial!vars
    BY <1>0, <1>10, SerialStutter DEF Release, ReleaseHeaders, Phase, Inside
  <1>11. ASSUME NEW c \in Callers, TryUnlock(c)
         PROVE  Serial!Leave(c) \/ UNCHANGED Serial!vars
    <2>1. CASE optFailed[c]
      BY <1>0, <1>11, <2>1, SerialStutter DEF TryUnlock, RetryOrReturn, Again, Phase, Inside
    <2>2. CASE ~optFailed[c]
      BY <1>0, <1>11, <2>2 DEF TryUnlock, RetryOrReturn, Serial!Leave, Phase, Inside
    <2>3. QED
      BY <2>1, <2>2
  <1>12. ASSUME NEW c \in Callers, Cancel(c) PROVE UNCHANGED Serial!vars
    BY <1>12, SerialStutter DEF Cancel, Phase, Inside
  <1>13. ASSUME Tick PROVE UNCHANGED Serial!vars
    BY <1>13, SerialStutter DEF Tick, Phase, Inside
  <1>14. CASE UNCHANGED vars
    BY <1>14, SerialStutter DEF vars, Phase, Inside
  <1>15. QED
    BY <1>1, <1>2, <1>3, <1>4, <1>5, <1>6, <1>7, <1>8, <1>9, <1>10, <1>11, <1>12,
       <1>13, <1>14 DEF Next, Step, Acquire, Serial!Next

(* Seen from outside, callers take turns on each bucket.                    *)
THEOREM ImplementsSerialBuckets ==
    ASSUME Uncancelled
    PROVE  Spec => Serial!Spec
  <1>1. Init => Serial!Init
    BY SerialInit
  <1>2. TypeOK /\ HoldsLock /\ Unfailed /\ [Next]_vars => [Serial!Next]_(Serial!vars)
    BY SerialStep, Uncancelled
  <1>3. Spec => []HoldsLock
    BY HoldsLockAlways, Uncancelled
  <1>4. Init => Unfailed
    BY DEF Init, Unfailed
  <1>5. TypeOK /\ Unfailed /\ [Next]_vars => Unfailed'
    BY UnfailedStep
  <1>6. QED
    BY <1>1, <1>2, <1>3, <1>4, <1>5, TypeCorrect, PTL DEF Spec, Serial!Spec

-----------------------------------------------------------------------------
(* Endpoints.  The key of a call's request, and what KeysRight needs of it: *)
(* a call about a guild or a channel has a key whose second segment is that *)
(* guild or channel, another call has none that looks so, and a call that   *)
(* is not PerThing has the same key whatever else it names.                 *)

KeyOf(c) == ParseBucketKey(Tail(c))
blank(part) == IF IsNumber(part) \/ IsEmoji(part) THEN Empty ELSE part
About(key, root, x) == 2 \in DOMAIN key /\ key[1] = root /\ key[2] = x
FineFor(n, c, d, x) == About(KeyOf(c), "guilds", x) /\ (n \notin PerThing => KeyOf(c) = KeyOf(d))

(* The calls that name an emoji, other than DeleteUserReaction.             *)
Reacting == {"React", "Reactions", "Unreact", "DeleteReactions"}
FineIn(n, c, d, x, same) ==
    /\ About(KeyOf(c), "channels", x)
    /\ n \notin PerThing /\ (n \in Reacting => same) => KeyOf(c) = KeyOf(d)
FineOther(n, c, d) ==
    /\ ~(2 \in DOMAIN KeyOf(c) /\ KeyOf(c)[1] \in MajorRootPaths)
    /\ n \notin PerThing => KeyOf(c) = KeyOf(d)

LEMMA EmptyNotMajor == Empty \notin MajorRootPaths
  BY Zenon DEF Empty, MajorRootPaths

LEMMA GuildKeys ==
  ASSUME NEW x, NEW i, NEW j, NEW k, NEW l, blank(i) = blank(k), blank(j) = blank(l)
  PROVE  \A n \in DOMAIN GuildCalls(x, i, j) :
             FineFor(n, GuildCalls(x, i, j)[n], GuildCalls(x, k, l)[n], x)
  <1>1. /\ FineFor("ListAutoModerationRules", ListAutoModerationRules(x), ListAutoModerationRules(x), x)
        /\ FineFor("GetAutoModerationRule", GetAutoModerationRule(x, j), GetAutoModerationRule(x, l), x)
        /\ FineFor("CreateAutoModerationRule", CreateAutoModerationRule(x), CreateAutoModerationRule(x), x)
        /\ FineFor("ModifyAutoModerationRule", ModifyAutoModerationRule(x, j), ModifyAutoModerationRule(x, l), x)
        /\ FineFor("DeleteAutoModerationRule", DeleteAutoModerationRule(x, j), DeleteAutoModerationRule(x, l), x)
        /\ FineFor("Channels", Channels(x), Channels(x), x)
        /\ FineFor("CreateChannel", CreateChannel(x), CreateChannel(x), x)
        /\ FineFor("MoveChannels", MoveChannels(x), MoveChannels(x), x)
        /\ FineFor("ActiveThreads", ActiveThreads(x), ActiveThreads(x), x)
        /\ FineFor("Emojis", Emojis(x), Emojis(x), x)
    BY DEF FineFor, About, KeyOf, ParseBucketKey, blank, MajorRootPaths, PerThing,
        ListAutoModerationRules, GetAutoModerationRule, CreateAutoModerationRule,
        ModifyAutoModerationRule, DeleteAutoModerationRule, Channels, CreateChannel, MoveChannels,
        ActiveThreads, Emojis
  <1>2. /\ FineFor("Emoji", Emoji(x, i), Emoji(x, k), x)
        /\ FineFor("CreateEmoji", CreateEmoji(x), CreateEmoji(x), x)
        /\ FineFor("ModifyEmoji", ModifyEmoji(x, i), ModifyEmoji(x, k), x)
        /\ FineFor("DeleteEmoji", DeleteEmoji(x, i), DeleteEmoji(x, k), x)
        /\ FineFor("Guild", Guild(x), Guild(x), x)
        /\ FineFor("GuildPreview", GuildPreview(x), GuildPreview(x), x)
        /\ FineFor("GuildWithCount", GuildWithCount(x), GuildWithCount(x), x)
        /\ FineFor("ModifyGuild", ModifyGuild(x), ModifyGuild(x), x)
        /\ FineFor("DeleteGuild", DeleteGuild(x), DeleteGuild(x), x)
        /\ FineFor("VoiceRegionsGuild", VoiceRegionsGuild(x), VoiceRegionsGuild(x), x)
    BY DEF FineFor, About, KeyOf, ParseBucketKey, blank, MajorRootPaths, PerThing, Emoji,
        CreateEmoji, ModifyEmoji, DeleteEmoji, Guild, GuildPreview, GuildWithCount, ModifyGuild,
        DeleteGuild, VoiceRegionsGuild
  <1>3. /\ FineFor("AuditLog", AuditLog(x), AuditLog(x), x)
        /\ FineFor("Integrations", Integrations(x), Integrations(x), x)
        /\ FineFor("AttachIntegration", AttachIntegration(x), AttachIntegration(x), x)
        /\ FineFor("ModifyIntegration", ModifyIntegration(x, i), ModifyIntegration(x, k), x)
        /\ FineFor("SyncIntegration", SyncIntegration(x, i), SyncIntegration(x, k), x)
        /\ FineFor("GuildWidgetSettings", GuildWidgetSettings(x), GuildWidgetSettings(x), x)
        /\ FineFor("ModifyGuildWidget", ModifyGuildWidget(x), ModifyGuildWidget(x), x)
        /\ FineFor("GuildWidget", GuildWidget(x), GuildWidget(x), x)
        /\ FineFor("GuildVanityInvite", GuildVanityInvite(x), GuildVanityInvite(x), x)
        /\ FineFor("GuildWidgetImage", GuildWidgetImage(x), GuildWidgetImage(x), x)
    BY DEF FineFor, About, KeyOf, ParseBucketKey, blank, MajorRootPaths, PerThing, AuditLog,
        Integrations, AttachIntegration, ModifyIntegration, SyncIntegration, GuildWidgetSettings,
        ModifyGuildWidget, GuildWidget, GuildVanityInvite, GuildWidgetImage
  <1>4. /\ FineFor("GuildInvites", GuildInvites(x), GuildInvites(x), x)
        /\ FineFor("Member", Member(x, i), Member(x, k), x)
        /\ FineFor("Members", Members(x), Members(x), x)
        /\ FineFor("AddMember", AddMember(x, i), AddMember(x, k), x)
        /\ FineFor("ModifyMember", ModifyMember(x, i), ModifyMember(x, k), x)
        /\ FineFor("PruneCount", PruneCount(x), PruneCount(x), x)
        /\ FineFor("Prune", Prune(x), Prune(x), x)
        /\ FineFor("Kick", Kick(x, i), Kick(x, k), x)
        /\ FineFor("Bans", Bans(x), Bans(x), x)
        /\ FineFor("GetBan", GetBan(x, i), GetBan(x, k), x)
    BY DEF FineFor, About, KeyOf, ParseBucketKey, blank, MajorRootPaths, PerThing, GuildInvites,
        Member, Members, AddMember, ModifyMember, PruneCount, Prune, Kick, Bans, GetBan
  <1>5. /\ FineFor("Ban", Ban(x, i), Ban(x, k), x)
        /\ FineFor("Unban", Unban(x, i), Unban(x, k), x)
        /\ FineFor("Search", Search(x), Search(x), x)
        /\ FineFor("AddRole", AddRole(x, i, j), AddRole(x, k, l), x)
        /\ FineFor("RemoveRole", RemoveRole(x, i, j), RemoveRole(x, k, l), x)
        /\ FineFor("Roles", Roles(x), Roles(x), x)
        /\ FineFor("CreateRole", CreateRole(x), CreateRole(x), x)
        /\ FineFor("MoveRoles", MoveRoles(x), MoveRoles(x), x)
        /\ FineFor("ModifyRole", ModifyRole(x, i), ModifyRole(x, k), x)
        /\ FineFor("DeleteRole", DeleteRole(x, i), DeleteRole(x, k), x)
    BY DEF FineFor, About, KeyOf, ParseBucketKey, blank, MajorRootPaths, PerThing, Ban, Unban,
        Search, AddRole, RemoveRole, Roles, CreateRole, MoveRoles, ModifyRole, DeleteRole
  <1>6. /\ FineFor("ListScheduledEventUsers", ListScheduledEventUsers(x, i), ListScheduledEventUsers(x, k), x)
        /\ FineFor("ListScheduledEvents", ListScheduledEvents(x), ListScheduledEvents(x), x)
        /\ FineFor("CreateScheduledEvent", CreateScheduledEvent(x), CreateScheduledEvent(x), x)
        /\ FineFor("EditScheduledEvent", EditScheduledEvent(x, i), EditScheduledEvent(x, k), x)
        /\ FineFor("DeleteScheduledEvent", DeleteScheduledEvent(x, i), DeleteScheduledEvent(x, k), x)
        /\ FineFor("ScheduledEvent", ScheduledEvent(x, i), ScheduledEvent(x, k), x)
        /\ FineFor("ModifyCurrentMember", ModifyCurrentMember(x), ModifyCurrentMember(x), x)
        /\ FineFor("GuildWebhooks", GuildWebhooks(x), GuildWebhooks(x), x)
    BY DEF FineFor, About, KeyOf, ParseBucketKey, blank, MajorRootPaths, PerThing,
        ListScheduledEventUsers, ListScheduledEvents, CreateScheduledEvent, EditScheduledEvent,
        DeleteScheduledEvent, ScheduledEvent, ModifyCurrentMember, GuildWebhooks
  <1> DEFINE F(n) == FineFor(n, GuildCalls(x, i, j)[n], GuildCalls(x, k, l)[n], x)
  <1>7. \A n \in {"ListAutoModerationRules", "GetAutoModerationRule", "CreateAutoModerationRule",
        "ModifyAutoModerationRule", "DeleteAutoModerationRule", "Channels", "CreateChannel",
        "MoveChannels", "ActiveThreads", "Emojis"} : F(n)
    BY <1>1 DEF GuildCalls
  <1>8. \A n \in {"Emoji", "CreateEmoji", "ModifyEmoji", "DeleteEmoji", "Guild", "GuildPreview",
        "GuildWithCount", "ModifyGuild", "DeleteGuild", "VoiceRegionsGuild"} : F(n)
    BY <1>2 DEF GuildCalls
  <1>9. \A n \in {"AuditLog", "Integrations", "AttachIntegration", "ModifyIntegration",
        "SyncIntegration", "GuildWidgetSettings", "ModifyGuildWidget", "GuildWidget",
        "GuildVanityInvite", "GuildWidgetImage"} : F(n)
    BY <1>3 DEF GuildCalls
  <1>10. \A n \in {"GuildInvites", "Member", "Members", "AddMember", "ModifyMember", "PruneCount",
        "Prune", "Kick", "Bans", "GetBan"} : F(n)
    BY <1>4 DEF GuildCalls
  <1>11. \A n \in {"Ban", "Unban", "Search", "AddRole", "RemoveRole", "Roles", "CreateRole",
        "MoveRoles", "ModifyRole", "DeleteRole"} : F(n)
    BY <1>5 DEF GuildCalls
  <1>12. \A n \in {"ListScheduledEventUsers", "ListScheduledEvents", "CreateScheduledEvent",
        "EditScheduledEvent", "DeleteScheduledEvent", "ScheduledEvent", "ModifyCurrentMember",
        "GuildWebhooks"} : F(n)
    BY <1>6 DEF GuildCalls
  <1>13. DOMAIN GuildCalls(x, i, j) = {"ListAutoModerationRules", "GetAutoModerationRule",
        "CreateAutoModerationRule", "ModifyAutoModerationRule", "DeleteAutoModerationRule",
        "Channels", "CreateChannel", "MoveChannels", "ActiveThreads", "Emojis", "Emoji",
        "CreateEmoji", "ModifyEmoji", "DeleteEmoji", "Guild", "GuildPreview", "GuildWithCount",
        "ModifyGuild", "DeleteGuild", "VoiceRegionsGuild", "AuditLog", "Integrations",
        "AttachIntegration", "ModifyIntegration", "SyncIntegration", "GuildWidgetSettings",
        "ModifyGuildWidget", "GuildWidget", "GuildVanityInvite", "GuildWidgetImage", "GuildInvites",
        "Member", "Members", "AddMember", "ModifyMember", "PruneCount", "Prune", "Kick", "Bans",
        "GetBan", "Ban", "Unban", "Search", "AddRole", "RemoveRole", "Roles", "CreateRole",
        "MoveRoles", "ModifyRole", "DeleteRole", "ListScheduledEventUsers", "ListScheduledEvents",
        "CreateScheduledEvent", "EditScheduledEvent", "DeleteScheduledEvent", "ScheduledEvent",
        "ModifyCurrentMember", "GuildWebhooks"}
    BY DEF GuildCalls
  <1> HIDE DEF F
  <1>14. \A n \in DOMAIN GuildCalls(x, i, j) : F(n)
    BY <1>7, <1>8, <1>9, <1>10, <1>11, <1>12, <1>13
  <1> QED BY <1>14 DEF F

LEMMA ChannelKeys ==
  ASSUME NEW x, NEW i, NEW j, NEW k, NEW l, NEW e, NEW f,
         blank(i) = blank(k), blank(j) = blank(l), NEW same \in BOOLEAN, same => blank(e) = blank(f)
  PROVE  \A n \in DOMAIN ChannelCalls(x, i, j, e) :
             FineIn(n, ChannelCalls(x, i, j, e)[n], ChannelCalls(x, k, l, f)[n], x, same)
  <1>1. /\ FineIn("Channel", Channel(x), Channel(x), x, same)
        /\ FineIn("ModifyChannel", ModifyChannel(x), ModifyChannel(x), x, same)
        /\ FineIn("DeleteChannel", DeleteChannel(x), DeleteChannel(x), x, same)
        /\ FineIn("EditChannelPermission", EditChannelPermission(x, j), EditChannelPermission(x, l), x, same)
        /\ FineIn("DeleteChannelPermission", DeleteChannelPermission(x, j), DeleteChannelPermission(x, l), x, same)
        /\ FineIn("Typing", Typing(x), Typing(x), x, same)
        /\ FineIn("PinnedMessages", PinnedMessages(x), PinnedMessages(x), x, same)
        /\ FineIn("PinMessage", PinMessage(x, i), PinMessage(x, k), x, same)
        /\ FineIn("UnpinMessage", UnpinMessage(x, i), UnpinMessage(x, k), x, same)
        /\ FineIn("AddRecipient", AddRecipient(x, i), AddRecipient(x, k), x, same)
    BY DEF FineIn, About, KeyOf, ParseBucketKey, blank, MajorRootPaths, PerThing, Reacting, Channel,
        ModifyChannel, DeleteChannel, EditChannelPermission, DeleteChannelPermission, Typing,
        PinnedMessages, PinMessage, UnpinMessage, AddRecipient
  <1>2. /\ FineIn("RemoveRecipient", RemoveRecipient(x, i), RemoveRecipient(x, k), x, same)
        /\ FineIn("Ack", Ack(x, i), Ack(x, k), x, same)
        /\ FineIn("StartThreadWithMessage", StartThreadWithMessage(x, i), StartThreadWithMessage(x, k), x, same)
        /\ FineIn("StartThreadWithoutMessage", StartThreadWithoutMessage(x), StartThreadWithoutMessage(x), x, same)
        /\ FineIn("JoinThread", JoinThread(x), JoinThread(x), x, same)
        /\ FineIn("AddThreadMember", AddThreadMember(x, i), AddThreadMember(x, k), x, same)
        /\ FineIn("LeaveThread", LeaveThread(x), LeaveThread(x), x, same)
        /\ FineIn("RemoveThreadMember", RemoveThreadMember(x, i), RemoveThreadMember(x, k), x, same)
        /\ FineIn("ThreadMembers", ThreadMembers(x), ThreadMembers(x), x, same)
        /\ FineIn("ThreadMember", ThreadMember(x, i), ThreadMember(x, k), x, same)
    BY DEF FineIn, About, KeyOf, ParseBucketKey, blank, MajorRootPaths, PerThing, Reacting, RemoveRecipient,
        Ack, StartThreadWithMessage, StartThreadWithoutMessage, JoinThread, AddThreadMember,
        LeaveThread, RemoveThreadMember, ThreadMembers, ThreadMember
  <1>3. /\ FineIn("PublicArchivedThreads", PublicArchivedThreads(x), PublicArchivedThreads(x), x, same)
        /\ FineIn("PrivateArchivedThreads", PrivateArchivedThreads(x), PrivateArchivedThreads(x), x, same)
        /\ FineIn("JoinedPrivateArchivedThreads", JoinedPrivateArchivedThreads(x), JoinedPrivateArchivedThreads(x), x, same)
        /\ FineIn("SearchThreads", SearchThreads(x), SearchThreads(x), x, same)
        /\ FineIn("ChannelInvites", ChannelInvites(x), ChannelInvites(x), x, same)
        /\ FineIn("CreateInvite", CreateInvite(x), CreateInvite(x), x, same)
        /\ FineIn("Messages", Messages(x), Messages(x), x, same)
        /\ FineIn("Message", Message(x, i), Message(x, k), x, same)
        /\ FineIn("EditMessageComplex", EditMessageComplex(x, i), EditMessageComplex(x, k), x, same)
        /\ FineIn("CrosspostMessage", CrosspostMessage(x, i), CrosspostMessage(x, k), x, same)
    BY DEF FineIn, About, KeyOf, ParseBucketKey, blank, MajorRootPaths, PerThing, Reacting,
        PublicArchivedThreads, PrivateArchivedThreads, JoinedPrivateArchivedThreads, SearchThreads,
        ChannelInvites, CreateInvite, Messages, Message, EditMessageComplex, CrosspostMessage
  <1>4. /\ FineIn("DeleteMessage", DeleteMessage(x, i), DeleteMessage(x, k), x, same)
        /\ FineIn("deleteMessages", deleteMessages(x), deleteMessages(x), x, same)
        /\ FineIn("SendMessageComplex", SendMessageComplex(x), SendMessageComplex(x), x, same)
        /\ FineIn("React", React(x, i, e), React(x, k, f), x, same)
        /\ FineIn("Reactions", Reactions(x, i, e), Reactions(x, k, f), x, same)
        /\ FineIn("Unreact", Unreact(x, i, e), Unreact(x, k, f), x, same)
        /\ FineIn("DeleteUserReaction", DeleteUserReaction(x, i, e, j), DeleteUserReaction(x, k, f, l), x, same)
        /\ FineIn("DeleteReactions", DeleteReactions(x, i, e), DeleteReactions(x, k, f), x, same)
        /\ FineIn("DeleteAllReactions", DeleteAllReactions(x, i), DeleteAllReactions(x, k), x, same)
        /\ FineIn("SearchDirectMessages", SearchDirectMessages(x), SearchDirectMessages(x), x, same)
    BY DEF FineIn, About, KeyOf, ParseBucketKey, blank, MajorRootPaths, PerThing, Reacting, DeleteMessage,
        deleteMessages, SendMessageComplex, React, Reactions, Unreact, DeleteUserReaction,
        DeleteReactions, DeleteAllReactions, SearchDirectMessages
  <1>5. /\ FineIn("CreateWebhook", CreateWebhook(x), CreateWebhook(x), x, same)
        /\ FineIn("ChannelWebhooks", ChannelWebhooks(x), ChannelWebhooks(x), x, same)
    BY DEF FineIn, About, KeyOf, ParseBucketKey, blank, MajorRootPaths, PerThing, Reacting, CreateWebhook,
        ChannelWebhooks
  <1> DEFINE F(n) == FineIn(n, ChannelCalls(x, i, j, e)[n], ChannelCalls(x, k, l, f)[n], x, same)
  <1>6. \A n \in {"Channel", "ModifyChannel", "DeleteChannel", "EditChannelPermission",
        "DeleteChannelPermission", "Typing", "PinnedMessages", "PinMessage", "UnpinMessage",
        "AddRecipient"} : F(n)
    BY <1>1 DEF ChannelCalls
  <1>7. \A n \in {"RemoveRecipient", "Ack", "StartThreadWithMessage", "StartThreadWithoutMessage",
        "JoinThread", "AddThreadMember", "LeaveThread", "RemoveThreadMember", "ThreadMembers",
        "ThreadMember"} : F(n)
    BY <1>2 DEF ChannelCalls
  <1>8. \A n \in {"PublicArchivedThreads", "PrivateArchivedThreads", "JoinedPrivateArchivedThreads",
        "SearchThreads", "ChannelInvites", "CreateInvite", "Messages", "Message",
        "EditMessageComplex", "CrosspostMessage"} : F(n)
    BY <1>3 DEF ChannelCalls
  <1>9. \A n \in {"DeleteMessage", "deleteMessages", "SendMessageComplex", "React", "Reactions",
        "Unreact", "DeleteUserReaction", "DeleteReactions", "DeleteAllReactions",
        "SearchDirectMessages"} : F(n)
    BY <1>4 DEF ChannelCalls
  <1>10. \A n \in {"CreateWebhook", "ChannelWebhooks"} : F(n)
    BY <1>5 DEF ChannelCalls
  <1>11. DOMAIN ChannelCalls(x, i, j, e) = {"Channel", "ModifyChannel", "DeleteChannel",
        "EditChannelPermission", "DeleteChannelPermission", "Typing", "PinnedMessages",
        "PinMessage", "UnpinMessage", "AddRecipient", "RemoveRecipient", "Ack",
        "StartThreadWithMessage", "StartThreadWithoutMessage", "JoinThread", "AddThreadMember",
        "LeaveThread", "RemoveThreadMember", "ThreadMembers", "ThreadMember",
        "PublicArchivedThreads", "PrivateArchivedThreads", "JoinedPrivateArchivedThreads",
        "SearchThreads", "ChannelInvites", "CreateInvite", "Messages", "Message",
        "EditMessageComplex", "CrosspostMessage", "DeleteMessage", "deleteMessages",
        "SendMessageComplex", "React", "Reactions", "Unreact", "DeleteUserReaction",
        "DeleteReactions", "DeleteAllReactions", "SearchDirectMessages", "CreateWebhook",
        "ChannelWebhooks"}
    BY DEF ChannelCalls
  <1> HIDE DEF F
  <1>12. \A n \in DOMAIN ChannelCalls(x, i, j, e) : F(n)
    BY <1>6, <1>7, <1>8, <1>9, <1>10, <1>11
  <1> QED BY <1>12 DEF F

LEMMA OtherKeys ==
  ASSUME NEW i, NEW j, NEW k, NEW l, NEW y, NEW z, NEW t, NEW u,
         blank(i) = blank(k), blank(j) = blank(l), blank(y) = blank(z)
  PROVE  \A n \in DOMAIN OtherCalls(i, j, y, t) :
             FineOther(n, OtherCalls(i, j, y, t)[n], OtherCalls(k, l, z, u)[n])
  <1>1. /\ FineOther("CurrentApplication", CurrentApplication, CurrentApplication)
        /\ FineOther("Commands", Commands(i), Commands(k))
        /\ FineOther("Command", Command(i, j), Command(k, l))
        /\ FineOther("CreateCommand", CreateCommand(i), CreateCommand(k))
        /\ FineOther("EditCommand", EditCommand(i, j), EditCommand(k, l))
        /\ FineOther("DeleteCommand", DeleteCommand(i, j), DeleteCommand(k, l))
        /\ FineOther("BulkOverwriteCommands", BulkOverwriteCommands(i), BulkOverwriteCommands(k))
        /\ FineOther("GuildCommands", GuildCommands(i, y), GuildCommands(k, z))
        /\ FineOther("GuildCommand", GuildCommand(i, y, j), GuildCommand(k, z, l))
        /\ FineOther("CreateGuildCommand", CreateGuildCommand(i, y), CreateGuildCommand(k, z))
    BY EmptyNotMajor DEF FineOther, KeyOf, ParseBucketKey, blank, MajorRootPaths, PerThing,
        CurrentApplication, Commands, Command, CreateCommand, EditCommand, DeleteCommand,
        BulkOverwriteCommands, GuildCommands, GuildCommand, CreateGuildCommand
  <1>2. /\ FineOther("EditGuildCommand", EditGuildCommand(i, y, j), EditGuildCommand(k, z, l))
        /\ FineOther("DeleteGuildCommand", DeleteGuildCommand(i, y, j), DeleteGuildCommand(k, z, l))
        /\ FineOther("BulkOverwriteGuildCommands", BulkOverwriteGuildCommands(i, y), BulkOverwriteGuildCommands(k, z))
        /\ FineOther("GuildCommandPermissions", GuildCommandPermissions(i, y), GuildCommandPermissions(k, z))
        /\ FineOther("CommandPermissions", CommandPermissions(i, y, j), CommandPermissions(k, z, l))
        /\ FineOther("EditCommandPermissions", EditCommandPermissions(i, y, j), EditCommandPermissions(k, z, l))
        /\ FineOther("BatchEditCommandPermissions", BatchEditCommandPermissions(i, y), BatchEditCommandPermissions(k, z))
        /\ FineOther("BotURL", BotURL, BotURL)
        /\ FineOther("CreateGuild", CreateGuild, CreateGuild)
        /\ FineOther("Guilds", Guilds, Guilds)
    BY EmptyNotMajor DEF FineOther, KeyOf, ParseBucketKey, blank, MajorRootPaths, PerThing,
        EditGuildCommand, DeleteGuildCommand, BulkOverwriteGuildCommands, GuildCommandPermissions,
        CommandPermissions, EditCommandPermissions, BatchEditCommandPermissions, BotURL,
        CreateGuild, Guilds
  <1>3. /\ FineOther("LeaveGuild", LeaveGuild(i), LeaveGuild(k))
        /\ FineOther("RespondInteraction", RespondInteraction(i, t), RespondInteraction(k, u))
        /\ FineOther("InteractionResponse", InteractionResponse(i, t), InteractionResponse(k, u))
        /\ FineOther("EditInteractionResponse", EditInteractionResponse(i, t), EditInteractionResponse(k, u))
        /\ FineOther("DeleteInteractionResponse", DeleteInteractionResponse(i, t), DeleteInteractionResponse(k, u))
        /\ FineOther("FollowUpInteraction", FollowUpInteraction(i, t), FollowUpInteraction(k, u))
        /\ FineOther("EditInteractionFollowup", EditInteractionFollowup(i, t, j), EditInteractionFollowup(k, u, l))
        /\ FineOther("DeleteInteractionFollowup", DeleteInteractionFollowup(i, t, j), DeleteInteractionFollowup(k, u, l))
        /\ FineOther("Invite", Invite(t), Invite(u))
        /\ FineOther("InviteWithCounts", InviteWithCounts(t), InviteWithCounts(u))
    BY EmptyNotMajor DEF FineOther, KeyOf, ParseBucketKey, blank, MajorRootPaths, PerThing,
        LeaveGuild, RespondInteraction, InteractionResponse, EditInteractionResponse,
        DeleteInteractionResponse, FollowUpInteraction, EditInteractionFollowup,
        DeleteInteractionFollowup, Invite, InviteWithCounts
  <1>4. /\ FineOther("JoinInvite", JoinInvite(t), JoinInvite(u))
        /\ FineOther("DeleteInvite", DeleteInvite(t), DeleteInvite(u))
        /\ FineOther("Login", Login, Login)
        /\ FineOther("TOTP", TOTP, TOTP)
        /\ FineOther("CreateStageInstance", CreateStageInstance, CreateStageInstance)
        /\ FineOther("UpdateStageInstance", UpdateStageInstance(i), UpdateStageInstance(k))
        /\ FineOther("DeleteStageInstance", DeleteStageInstance(i), DeleteStageInstance(k))
        /\ FineOther("User", User(i), User(k))
        /\ FineOther("Me", Me, Me)
        /\ FineOther("ModifyCurrentUser", ModifyCurrentUser, ModifyCurrentUser)
    BY EmptyNotMajor DEF FineOther, KeyOf, ParseBucketKey, blank, MajorRootPaths, PerThing,
        JoinInvite, DeleteInvite, Login, TOTP, CreateStageInstance, UpdateStageInstance,
        DeleteStageInstance, User, Me, ModifyCurrentUser
  <1>5. /\ FineOther("PrivateChannels", PrivateChannels, PrivateChannels)
        /\ FineOther("CreatePrivateChannel", CreatePrivateChannel, CreatePrivateChannel)
        /\ FineOther("UserConnections", UserConnections, UserConnections)
        /\ FineOther("Note", Note(i), Note(k))
        /\ FineOther("SetNote", SetNote(i), SetNote(k))
        /\ FineOther("SetRelationship", SetRelationship(i), SetRelationship(k))
        /\ FineOther("DeleteRelationship", DeleteRelationship(i), DeleteRelationship(k))
        /\ FineOther("Webhook", Webhook(i), Webhook(k))
        /\ FineOther("ModifyWebhook", ModifyWebhook(i), ModifyWebhook(k))
        /\ FineOther("DeleteWebhook", DeleteWebhook(i), DeleteWebhook(k))
    BY EmptyNotMajor DEF FineOther, KeyOf, ParseBucketKey, blank, MajorRootPaths, PerThing,
        PrivateChannels, CreatePrivateChannel, UserConnections, Note, SetNote, SetRelationship,
        DeleteRelationship, Webhook, ModifyWebhook, DeleteWebhook
  <1>6. /\ FineOther("WebhookGet", WebhookGet(i, t), WebhookGet(k, u))
        /\ FineOther("WebhookModify", WebhookModify(i, t), WebhookModify(k, u))
        /\ FineOther("WebhookDelete", WebhookDelete(i, t), WebhookDelete(k, u))
        /\ FineOther("WebhookExecute", WebhookExecute(i, t), WebhookExecute(k, u))
        /\ FineOther("WebhookMessage", WebhookMessage(i, t, j), WebhookMessage(k, u, l))
        /\ FineOther("WebhookEditMessage", WebhookEditMessage(i, t, j), WebhookEditMessage(k, u, l))
        /\ FineOther("WebhookDeleteMessage", WebhookDeleteMessage(i, t, j), WebhookDeleteMessage(k, u, l))
    BY EmptyNotMajor DEF FineOther, KeyOf, ParseBucketKey, blank, MajorRootPaths, PerThing,
        WebhookGet, WebhookModify, WebhookDelete, WebhookExecute, WebhookMessage,
        WebhookEditMessage, WebhookDeleteMessage
  <1> DEFINE F(n) == FineOther(n, OtherCalls(i, j, y, t)[n], OtherCalls(k, l, z, u)[n])
  <1>7. \A n \in {"CurrentApplication", "Commands", "Command", "CreateCommand", "EditCommand",
        "DeleteCommand", "BulkOverwriteCommands", "GuildCommands", "GuildCommand",
        "CreateGuildCommand"} : F(n)
    BY <1>1 DEF OtherCalls
  <1>8. \A n \in {"EditGuildCommand", "DeleteGuildCommand", "BulkOverwriteGuildCommands",
        "GuildCommandPermissions", "CommandPermissions", "EditCommandPermissions",
        "BatchEditCommandPermissions", "BotURL", "CreateGuild", "Guilds"} : F(n)
    BY <1>2 DEF OtherCalls
  <1>9. \A n \in {"LeaveGuild", "RespondInteraction", "InteractionResponse",
        "EditInteractionResponse", "DeleteInteractionResponse", "FollowUpInteraction",
        "EditInteractionFollowup", "DeleteInteractionFollowup", "Invite", "InviteWithCounts"} : F(n)
    BY <1>3 DEF OtherCalls
  <1>10. \A n \in {"JoinInvite", "DeleteInvite", "Login", "TOTP", "CreateStageInstance",
        "UpdateStageInstance", "DeleteStageInstance", "User", "Me", "ModifyCurrentUser"} : F(n)
    BY <1>4 DEF OtherCalls
  <1>11. \A n \in {"PrivateChannels", "CreatePrivateChannel", "UserConnections", "Note", "SetNote",
        "SetRelationship", "DeleteRelationship", "Webhook", "ModifyWebhook", "DeleteWebhook"} : F(n)
    BY <1>5 DEF OtherCalls
  <1>12. \A n \in {"WebhookGet", "WebhookModify", "WebhookDelete", "WebhookExecute",
        "WebhookMessage", "WebhookEditMessage", "WebhookDeleteMessage"} : F(n)
    BY <1>6 DEF OtherCalls
  <1>13. DOMAIN OtherCalls(i, j, y, t) = {"CurrentApplication", "Commands", "Command",
        "CreateCommand", "EditCommand", "DeleteCommand", "BulkOverwriteCommands", "GuildCommands",
        "GuildCommand", "CreateGuildCommand", "EditGuildCommand", "DeleteGuildCommand",
        "BulkOverwriteGuildCommands", "GuildCommandPermissions", "CommandPermissions",
        "EditCommandPermissions", "BatchEditCommandPermissions", "BotURL", "CreateGuild", "Guilds",
        "LeaveGuild", "RespondInteraction", "InteractionResponse", "EditInteractionResponse",
        "DeleteInteractionResponse", "FollowUpInteraction", "EditInteractionFollowup",
        "DeleteInteractionFollowup", "Invite", "InviteWithCounts", "JoinInvite", "DeleteInvite",
        "Login", "TOTP", "CreateStageInstance", "UpdateStageInstance", "DeleteStageInstance",
        "User", "Me", "ModifyCurrentUser", "PrivateChannels", "CreatePrivateChannel",
        "UserConnections", "Note", "SetNote", "SetRelationship", "DeleteRelationship", "Webhook",
        "ModifyWebhook", "DeleteWebhook", "WebhookGet", "WebhookModify", "WebhookDelete",
        "WebhookExecute", "WebhookMessage", "WebhookEditMessage", "WebhookDeleteMessage"}
    BY DEF OtherCalls
  <1> HIDE DEF F
  <1>14. \A n \in DOMAIN OtherCalls(i, j, y, t) : F(n)
    BY <1>7, <1>8, <1>9, <1>10, <1>11, <1>12, <1>13
  <1> QED BY <1>14 DEF F

(* No two of the groups have a call in common.                              *)
LEMMA CallsApart ==
  ASSUME NEW n,
         NEW x, NEW i, NEW j, NEW y, NEW k, NEW l, NEW e, NEW a, NEW b, NEW s, NEW t
  PROVE  /\ ~(n \in DOMAIN GuildCalls(x, i, j) /\ n \in DOMAIN ChannelCalls(y, k, l, e))
         /\ ~(n \in DOMAIN GuildCalls(x, i, j) /\ n \in DOMAIN OtherCalls(a, b, s, t))
         /\ ~(n \in DOMAIN ChannelCalls(y, k, l, e) /\ n \in DOMAIN OtherCalls(a, b, s, t))
  <1>1. ~(n \in DOMAIN GuildCalls(x, i, j) /\ n \in DOMAIN ChannelCalls(y, k, l, e))
    BY DEF GuildCalls, ChannelCalls
  <1>2. ~(n \in DOMAIN GuildCalls(x, i, j) /\ n \in DOMAIN OtherCalls(a, b, s, t))
    BY DEF GuildCalls, OtherCalls
  <1>3. ~(n \in DOMAIN ChannelCalls(y, k, l, e) /\ n \in DOMAIN OtherCalls(a, b, s, t))
    BY DEF ChannelCalls, OtherCalls
  <1> QED BY <1>1, <1>2, <1>3

Blanked ==
    \A a, b \in Snowflakes \cup ShortEmojis : blank(a) = blank(b)

LEMMA AllBlanked == Blanked
  BY DEF Blanked, blank, IsNumber, IsEmoji

(* A request of each group, as the call that sends it.                      *)
Request(n, major, c) == [call |-> n, major |-> major, path |-> Tail(c)]
OfGuild(r, x, i, j) ==
    r.call \in DOMAIN GuildCalls(x, i, j) /\ r = Request(r.call, x, GuildCalls(x, i, j)[r.call])
OfChannel(r, x, i, j, e) ==
    /\ r.call \in DOMAIN ChannelCalls(x, i, j, e)
    /\ r = Request(r.call, x, ChannelCalls(x, i, j, e)[r.call])
OfOther(r, i, j, y, t) ==
    /\ r.call \in DOMAIN OtherCalls(i, j, y, t)
    /\ r = Request(r.call, Empty, OtherCalls(i, j, y, t)[r.call])
SomeGuilds(r) == \E x, i, j \in Snowflakes : OfGuild(r, x, i, j)
SomeChannels(r) ==
    \E x, i, j \in Snowflakes, e \in ShortEmojis \cup LongEmojis : OfChannel(r, x, i, j, e)
SomeOther(r) == \E i, j, y \in Snowflakes, t \in Tokens : OfOther(r, i, j, y, t)

LEMMA RequestsAre ==
  ASSUME NEW r \in Requests
  PROVE  SomeGuilds(r) \/ SomeChannels(r) \/ SomeOther(r)
  <1>1. \A calls, major : r \in RequestsOf(calls, major) =>
            r.call \in DOMAIN calls /\ r = Request(r.call, major, calls[r.call])
    BY DEF RequestsOf, Request
  <1>2. \/ \E x, i, j \in Snowflakes : r \in RequestsOf(GuildCalls(x, i, j), x)
        \/ \E x, i, j \in Snowflakes, e \in ShortEmojis \cup LongEmojis :
               r \in RequestsOf(ChannelCalls(x, i, j, e), x)
        \/ \E i, j, y \in Snowflakes, t \in Tokens : r \in RequestsOf(OtherCalls(i, j, y, t), Empty)
    BY DEF Requests
  <1>3. CASE \E x, i, j \in Snowflakes : r \in RequestsOf(GuildCalls(x, i, j), x)
    BY <1>1, <1>3 DEF SomeGuilds, OfGuild
  <1>4. CASE \E x, i, j \in Snowflakes, e \in ShortEmojis \cup LongEmojis :
                 r \in RequestsOf(ChannelCalls(x, i, j, e), x)
    BY <1>1, <1>4 DEF SomeChannels, OfChannel
  <1>5. CASE \E i, j, y \in Snowflakes, t \in Tokens : r \in RequestsOf(OtherCalls(i, j, y, t), Empty)
    BY <1>1, <1>5 DEF SomeOther, OfOther
  <1> QED BY <1>2, <1>3, <1>4, <1>5

(* The key of a request says what guild or channel the request is about.    *)
KeyTells(r, key) ==
    \/ About(key, "guilds", r.major)
    \/ About(key, "channels", r.major)
    \/ ~(2 \in DOMAIN key /\ key[1] \in MajorRootPaths) /\ r.major = Empty

LEMMA KeysTell ==
  ASSUME NEW r \in Requests
  PROVE  KeyTells(r, ParseBucketKey(r.path))
  <1>1. CASE SomeGuilds(r)
    <2>1. PICK x, i, j \in Snowflakes : OfGuild(r, x, i, j)
      BY <1>1 DEF SomeGuilds
    <2>2. FineFor(r.call, GuildCalls(x, i, j)[r.call], GuildCalls(x, i, j)[r.call], x)
      BY <2>1, GuildKeys DEF OfGuild
    <2>3. r.major = x /\ r.path = Tail(GuildCalls(x, i, j)[r.call])
      BY <2>1 DEF OfGuild, Request
    <2>4. ParseBucketKey(r.path) = KeyOf(GuildCalls(x, i, j)[r.call])
      BY <2>3, Zenon DEF KeyOf
    <2> QED BY <2>2, <2>3, <2>4 DEF FineFor, KeyTells
  <1>2. CASE SomeChannels(r)
    <2>1. PICK x, i, j \in Snowflakes, e \in ShortEmojis \cup LongEmojis : OfChannel(r, x, i, j, e)
      BY <1>2 DEF SomeChannels
    <2>2. FineIn(r.call, ChannelCalls(x, i, j, e)[r.call], ChannelCalls(x, i, j, e)[r.call], x, TRUE)
      BY <2>1, ChannelKeys DEF OfChannel
    <2>3. r.major = x /\ r.path = Tail(ChannelCalls(x, i, j, e)[r.call])
      BY <2>1 DEF OfChannel, Request
    <2>4. ParseBucketKey(r.path) = KeyOf(ChannelCalls(x, i, j, e)[r.call])
      BY <2>3, Zenon DEF KeyOf
    <2> QED BY <2>2, <2>3, <2>4 DEF FineIn, KeyTells
  <1>3. CASE SomeOther(r)
    <2>1. PICK i, j, y \in Snowflakes, t \in Tokens : OfOther(r, i, j, y, t)
      BY <1>3 DEF SomeOther
    <2>2. FineOther(r.call, OtherCalls(i, j, y, t)[r.call], OtherCalls(i, j, y, t)[r.call])
      BY <2>1, OtherKeys DEF OfOther
    <2>3. r.major = Empty /\ r.path = Tail(OtherCalls(i, j, y, t)[r.call])
      BY <2>1 DEF OfOther, Request
    <2>4. ParseBucketKey(r.path) = KeyOf(OtherCalls(i, j, y, t)[r.call])
      BY <2>3, Zenon DEF KeyOf
    <2> QED BY <2>2, <2>3, <2>4 DEF FineOther, KeyTells
  <1> QED BY <1>1, <1>2, <1>3, RequestsAre

(* Requests whose keys are the same are about the same guild or channel.    *)
LEMMA KeysApart ==
  ASSUME NEW p \in Requests, NEW q \in Requests, ParseBucketKey(p.path) = ParseBucketKey(q.path)
  PROVE  p.major = q.major
  <1>1. KeyTells(p, ParseBucketKey(p.path)) /\ KeyTells(q, ParseBucketKey(p.path))
    BY KeysTell
  <1> QED BY <1>1 DEF KeyTells, About, MajorRootPaths

LEMMA ReactingNames ==
  ASSUME NEW n \in Reacting, NEW x, NEW i, NEW j, NEW e
  PROVE  LET path == Tail(ChannelCalls(x, i, j, e)[n]) IN 6 \in DOMAIN path /\ path[6] = e
  <1>1. /\ ChannelCalls(x, i, j, e)["React"] = React(x, i, e)
        /\ ChannelCalls(x, i, j, e)["Reactions"] = Reactions(x, i, e)
        /\ ChannelCalls(x, i, j, e)["Unreact"] = Unreact(x, i, e)
        /\ ChannelCalls(x, i, j, e)["DeleteReactions"] = DeleteReactions(x, i, e)
    BY DEF ChannelCalls
  <1> DEFINE NamesIn(path) == 6 \in DOMAIN path /\ path[6] = e
  <1>2. NamesIn(Tail(React(x, i, e))) /\ NamesIn(Tail(Reactions(x, i, e)))
    BY DEF React, Reactions
  <1>3. NamesIn(Tail(Unreact(x, i, e))) /\ NamesIn(Tail(DeleteReactions(x, i, e)))
    BY DEF Unreact, DeleteReactions
  <1> QED BY <1>1, <1>2, <1>3 DEF Reacting

(* Plain requests of one call about one guild or channel have one key.      *)
LEMMA KeysTogether ==
  ASSUME NEW p \in Requests, NEW q \in Requests,
         p.call = q.call, p.major = q.major, Plain(p), Plain(q)
  PROVE  ParseBucketKey(p.path) = ParseBucketKey(q.path)
  <1>1. CASE SomeGuilds(p) /\ SomeGuilds(q)
    <2>1. PICK x, i, j \in Snowflakes : OfGuild(p, x, i, j)
      BY <1>1 DEF SomeGuilds
    <2>2. PICK y, k, l \in Snowflakes : OfGuild(q, y, k, l)
      BY <1>1 DEF SomeGuilds
    <2>3. /\ p.major = x /\ p.path = Tail(GuildCalls(x, i, j)[p.call])
          /\ q.major = y /\ q.path = Tail(GuildCalls(y, k, l)[q.call])
      BY <2>1, <2>2 DEF OfGuild, Request
    <2>4. blank(i) = blank(k) /\ blank(j) = blank(l)
      BY AllBlanked DEF Blanked
    <2>5. FineFor(p.call, GuildCalls(x, i, j)[p.call], GuildCalls(x, k, l)[p.call], x)
      BY <2>1, <2>4, GuildKeys DEF OfGuild
    <2> QED BY <2>3, <2>5 DEF FineFor, Plain, KeyOf
  <1>2. CASE SomeChannels(p) /\ SomeChannels(q)
    <2>1. PICK x, i, j \in Snowflakes, e \in ShortEmojis \cup LongEmojis : OfChannel(p, x, i, j, e)
      BY <1>2 DEF SomeChannels
    <2>2. PICK y, k, l \in Snowflakes, f \in ShortEmojis \cup LongEmojis : OfChannel(q, y, k, l, f)
      BY <1>2 DEF SomeChannels
    <2>3. /\ p.major = x /\ p.path = Tail(ChannelCalls(x, i, j, e)[p.call])
          /\ q.major = y /\ q.path = Tail(ChannelCalls(y, k, l, f)[q.call])
      BY <2>1, <2>2 DEF OfChannel, Request
    <2>4. blank(i) = blank(k) /\ blank(j) = blank(l)
      BY AllBlanked DEF Blanked
    <2> DEFINE same == blank(e) = blank(f)
    <2>5. p.call \in Reacting => same
      <3> HAVE p.call \in Reacting
      <3>1. 6 \in DOMAIN p.path /\ p.path[6] = e /\ 6 \in DOMAIN q.path /\ q.path[6] = f
        BY <2>3, ReactingNames
      <3>2. e \in ShortEmojis /\ f \in ShortEmojis
        BY <3>1 DEF Plain
      <3> QED BY <3>2, AllBlanked DEF Blanked
    <2>6. FineIn(p.call, ChannelCalls(x, i, j, e)[p.call], ChannelCalls(x, k, l, f)[p.call], x, same)
      <3>1. same \in BOOLEAN /\ (same => blank(e) = blank(f))
        OBVIOUS
      <3> HIDE DEF same
      <3> QED BY <2>1, <2>4, <3>1, ChannelKeys DEF OfChannel
    <2> HIDE DEF same
    <2> QED BY <2>3, <2>5, <2>6 DEF FineIn, Plain, KeyOf
  <1>3. CASE SomeOther(p) /\ SomeOther(q)
    <2>1. PICK i, j, y \in Snowflakes, t \in Tokens : OfOther(p, i, j, y, t)
      BY <1>3 DEF SomeOther
    <2>2. PICK k, l, z \in Snowflakes, u \in Tokens : OfOther(q, k, l, z, u)
      BY <1>3 DEF SomeOther
    <2>3. /\ p.path = Tail(OtherCalls(i, j, y, t)[p.call])
          /\ q.path = Tail(OtherCalls(k, l, z, u)[q.call])
      BY <2>1, <2>2 DEF OfOther, Request
    <2>4. blank(i) = blank(k) /\ blank(j) = blank(l) /\ blank(y) = blank(z)
      BY AllBlanked DEF Blanked
    <2>5. FineOther(p.call, OtherCalls(i, j, y, t)[p.call], OtherCalls(k, l, z, u)[p.call])
      BY <2>1, <2>4, OtherKeys DEF OfOther
    <2> QED BY <2>3, <2>5 DEF FineOther, Plain, KeyOf
  <1>4. /\ ~(SomeGuilds(p) /\ SomeChannels(q)) /\ ~(SomeGuilds(p) /\ SomeOther(q))
        /\ ~(SomeChannels(p) /\ SomeGuilds(q)) /\ ~(SomeChannels(p) /\ SomeOther(q))
        /\ ~(SomeOther(p) /\ SomeGuilds(q)) /\ ~(SomeOther(p) /\ SomeChannels(q))
    BY CallsApart DEF SomeGuilds, SomeChannels, SomeOther, OfGuild, OfChannel, OfOther
  <1> QED BY <1>1, <1>2, <1>3, <1>4, RequestsAre

-----------------------------------------------------------------------------
(* A bucket holds the requests whose key is the bucket's.                   *)
KeysInv ==
    \A k \in DOMAIN buckets : \A r \in buckets[k] : r \in Requests /\ ParseBucketKey(r.path) = k

(* Two requests about different guilds or channels never share a bucket of  *)
(* the rate limiter, and the plain requests of one call about one guild or  *)
(* channel share one, however many identifiers, emojis and tokens there     *)
(* are: ParseBucketKey over every path that api.Client and webhook.Client   *)
(* send.                                                                    *)
THEOREM KeysAreRight == EndpointsSpec => []KeysRight
  <1>1. EndpointsInit => KeysInv
    BY DEF EndpointsInit, KeysInv
  <1>2. KeysInv /\ [SendRequest]_endpointVars => KeysInv'
    <2> SUFFICES ASSUME KeysInv, [SendRequest]_endpointVars PROVE KeysInv'
      OBVIOUS
    <2>1. CASE SendRequest
      <3>1. PICK r \in Requests : getBucket(r)
        BY <2>1 DEF SendRequest
      <3> QED BY <3>1 DEF getBucket, KeysInv
    <2>2. CASE UNCHANGED endpointVars
      BY <2>2 DEF endpointVars, KeysInv
    <2> QED BY <2>1, <2>2
  <1>3. KeysInv => KeysRight
    <2> SUFFICES ASSUME KeysInv,
                        NEW k \in DOMAIN buckets, NEW l \in DOMAIN buckets,
                        NEW p \in buckets[k], NEW q \in buckets[l]
                 PROVE  /\ k = l => p.major = q.major
                        /\ p.call = q.call /\ p.major = q.major /\ Plain(p) /\ Plain(q) => k = l
      BY DEF KeysRight
    <2>1. /\ p \in Requests /\ ParseBucketKey(p.path) = k
          /\ q \in Requests /\ ParseBucketKey(q.path) = l
      BY DEF KeysInv
    <2> QED BY <2>1, KeysApart, KeysTogether
  <1> QED BY <1>1, <1>2, <1>3, PTL DEF EndpointsSpec
=============================================================================
