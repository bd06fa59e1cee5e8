----------------------------- MODULE RateLimiter -----------------------------
(***************************************************************************)
(* The REST path of the library: api.Client wraps httputil.Client, whose    *)
(* request loop calls Limiter.Acquire before every attempt (a request       *)
(* option) and Limiter.Release after it (an OnResponse handler).  Many      *)
(* goroutines share one rate.Limiter; its buckets are guarded by CtxMutex,  *)
(* a channel of capacity one that anybody may drain.                        *)
(*                                                                          *)
(* Time is kept as countdowns: a point of time t of the code is the number  *)
(* of ticks left until t, 0 once t has passed, so that clocks need no       *)
(* bound.  "t.After(now)" of the code is "countdown > 0".                   *)
(***************************************************************************)
EXTENDS Integers

CONSTANTS
    Callers,       \* goroutines calling Client.Request, one call at a time
    Buckets,       \* rate limit buckets (keys of Limiter.buckets)
    Custom,        \* the buckets with a CustomRateLimit
    Cancellable,   \* callers whose context can be cancelled explicitly
    DontWait,      \* callers using AcquireOptions{DontWait: true}
    Deadlines,     \* context deadlines callers use, NoDeadline among them or not
    Faults,        \* what may go wrong at the server, see Fault
    Retries,       \* Client.Retries; 0 retries forever
    Limit,         \* requests the server allows a bucket per window
    Window,        \* length of the server's window, in ticks
    Extra,         \* rate.ExtraDelay, in ticks
    CustomReset,   \* CustomRateLimit.Reset, in ticks
    GlobalAfter,   \* the Retry-After of a global 429, in ticks
    UintMod,       \* 2^64: bucket.remaining is a uint64
    Free           \* value of holder[b] when no goroutine holds the mutex

NoDeadline == -1

(* "lost": Do fails, whether the server saw the request or not; "error": a  *)
(* 5xx answer; "malformed": a 200 answer with a rate limit header that does *)
(* not parse; "global": a 429 with X-RateLimit-Global.                      *)
Fault == {"lost", "error", "malformed", "global"}

ASSUME ConstantsAssumption ==
    /\ Custom \subseteq Buckets
    /\ Cancellable \subseteq Callers
    /\ DontWait \subseteq Callers
    /\ Deadlines \subseteq Nat \cup {NoDeadline}
    /\ Faults \subseteq Fault
    /\ Retries \in Nat
    /\ Limit \in Nat \ {0} /\ Window \in Nat \ {0}
    /\ Extra \in Nat /\ CustomReset \in Nat /\ GlobalAfter \in Nat
    /\ UintMod \in Nat /\ UintMod > Limit
    /\ Free \notin Callers

VARIABLES
    \* the shared limiter
    holder,     \* who put the token into bucket.lock, or Free when it is empty
    remaining,  \* bucket.remaining
    reset,      \* bucket.reset, a countdown
    global,     \* Limiter.global, a countdown
    \* the goroutines
    pc,         \* where each caller is
    bucket,     \* the bucket of the caller's path
    attempt,    \* i of the request loop
    onRespErr,  \* the latest error of an OnResponse handler
    optFailed,  \* applyOptions returned an error: Acquire did
    response,   \* what Do returned
    wait,       \* until.Sub(now) of Acquire, a countdown
    deadline,   \* the context's deadline, a countdown or NoDeadline
    cancelled,  \* the context was cancelled
    \* the server (external)
    left,       \* requests left in the current window
    window,     \* ticks left of the current window, 0 before a window starts
    \* history
    granted,    \* Acquire returned nil since the last Release
    heldBack,   \* countdown of the global limit as Acquire found it
    spacing     \* ticks left of the CustomReset after the last custom Release

limiter == <<holder, remaining, reset, global>>
call    == <<bucket, attempt, onRespErr, optFailed, response, wait>>
context == <<deadline, cancelled>>
server  == <<left, window>>
history == <<granted, heldBack, spacing>>
vars    == <<limiter, pc, call, context, server, history>>

NoResponse == [kind |-> "none", remaining |-> 0, reset |-> 0, retryAfter |-> 0]
Response ==
    [kind: {"none", "ok", "malformed", "limited", "global", "error"},
     remaining: 0..(UintMod - 1), reset: Nat, retryAfter: Nat]

(* A 429 carries Retry-After, the other answers of a bucket only its        *)
(* remaining count and its reset; a 5xx and a global 429 say nothing of it. *)
Answer(kind, rem, res, after) ==
    [kind |-> kind, remaining |-> rem, reset |-> res, retryAfter |-> after]

Init ==
    /\ holder = [b \in Buckets |-> Free]
    /\ remaining = [b \in Buckets |-> 1]
    /\ reset = [b \in Buckets |-> 0]
    /\ global = 0
    /\ pc = [c \in Callers |-> "idle"]
    /\ bucket \in [Callers -> Buckets]
    /\ attempt = [c \in Callers |-> 0]
    /\ onRespErr = [c \in Callers |-> FALSE]
    /\ optFailed = [c \in Callers |-> FALSE]
    /\ response = [c \in Callers |-> NoResponse]
    /\ wait = [c \in Callers |-> 0]
    /\ deadline = [c \in Callers |-> NoDeadline]
    /\ cancelled = [c \in Callers |-> FALSE]
    /\ left = [b \in Buckets |-> Limit]
    /\ window = [b \in Buckets |-> 0]
    /\ granted = [c \in Callers |-> FALSE]
    /\ heldBack = [c \in Callers |-> 0]
    /\ spacing = [b \in Buckets |-> 0]

-----------------------------------------------------------------------------
(* The context of a call, and the flow of control of one caller.            *)

CtxDone(c) == cancelled[c] \/ deadline[c] = 0

(* A panic ends the whole process: nobody moves any more.                   *)
Running == \A c \in Callers : pc[c] # "panicked"

At(c, label) == Running /\ pc[c] = label
Goto(c, label) == pc' = [pc EXCEPT ![c] = label]

(* Client.request: a fresh call, on some path, under a fresh context.       *)
Start(c) ==
    /\ At(c, "idle")
    /\ \E b \in Buckets : bucket' = [bucket EXCEPT ![c] = b]
    /\ \E d \in Deadlines : deadline' = [deadline EXCEPT ![c] = d]
    /\ attempt' = [attempt EXCEPT ![c] = 0]
    /\ onRespErr' = [onRespErr EXCEPT ![c] = FALSE]
    /\ optFailed' = [optFailed EXCEPT ![c] = FALSE]
    /\ response' = [response EXCEPT ![c] = NoResponse]
    /\ Goto(c, "lock")
    /\ UNCHANGED <<limiter, wait, cancelled, server, history>>

-----------------------------------------------------------------------------
(* Limiter.Acquire.                                                         *)

(* CtxMutex.Lock takes the token's place ...                                *)
Lock(c) ==
    /\ At(c, "lock")
    /\ holder[bucket[c]] = Free
    /\ holder' = [holder EXCEPT ![bucket[c]] = c]
    /\ Goto(c, "check")
    /\ UNCHANGED <<remaining, reset, global, call, context, server, history>>

(* ... or gives up with the context, and the request option fails.          *)
LockFailed(c) ==
    /\ At(c, "lock")
    /\ CtxDone(c)
    /\ optFailed' = [optFailed EXCEPT ![c] = TRUE]
    /\ response' = [response EXCEPT ![c] = NoResponse]
    /\ Goto(c, "release")
    /\ UNCHANGED <<limiter, bucket, attempt, onRespErr, wait, context, server, history>>

OutOfTurns_OffByOne(b) == remaining[b] = 0 /\ reset[b] > 1
OutOfTurns(b) == remaining[b] = 0 /\ reset[b] > 0
Until(b) == IF OutOfTurns(b) THEN reset[b] ELSE global

(* ErrTimedOutEarly: the wait is not wanted or longer than the deadline.    *)
(* The mutex stays locked; Release will unlock it.                          *)
TooLong(c, until) ==
    \/ c \in DontWait
    \/ deadline[c] # NoDeadline /\ until > deadline[c]

Check(c) ==
    LET until == Until(bucket[c]) IN
    /\ At(c, "check")
    /\ heldBack' = [heldBack EXCEPT ![c] = global]
    /\ \/ /\ until = 0
          /\ Goto(c, "test")
          /\ UNCHANGED <<optFailed, response, wait>>
       \/ /\ until > 0 /\ TooLong(c, until)
          /\ optFailed' = [optFailed EXCEPT ![c] = TRUE]
          /\ response' = [response EXCEPT ![c] = NoResponse]
          /\ Goto(c, "release")
          /\ UNCHANGED wait
       \/ /\ until > 0 /\ ~TooLong(c, until)
          /\ wait' = [wait EXCEPT ![c] = until]
          /\ Goto(c, "wait")
          /\ UNCHANGED <<optFailed, response>>
    /\ UNCHANGED <<limiter, bucket, attempt, onRespErr, context, server, granted, spacing>>

(* <-time.After(until.Sub(now))                                             *)
WakeUp(c) ==
    /\ At(c, "wait")
    /\ wait[c] = 0
    /\ Goto(c, "test")
    /\ UNCHANGED <<limiter, call, context, server, history>>

(* <-ctx.Done(): CtxMutex.Unlock, which panics when there is nothing to     *)
(* unlock, then the error.  Whoever holds the token loses it.               *)
WaitCancelled(c) ==
    /\ At(c, "wait")
    /\ CtxDone(c)
    /\ \/ /\ holder[bucket[c]] = Free
          /\ Goto(c, "panicked")
          /\ UNCHANGED <<holder, optFailed, response, wait>>
       \/ /\ holder[bucket[c]] # Free
          /\ holder' = [holder EXCEPT ![bucket[c]] = Free]
          /\ optFailed' = [optFailed EXCEPT ![c] = TRUE]
          /\ response' = [response EXCEPT ![c] = NoResponse]
          /\ wait' = [wait EXCEPT ![c] = 0]
          /\ Goto(c, "release")
    /\ UNCHANGED <<remaining, reset, global, bucket, attempt, onRespErr,
                   context, server, history>>

Test_Dropped(c) ==
    /\ At(c, "test")
    /\ Goto(c, "take")
    /\ UNCHANGED <<limiter, call, context, server, history>>

(* if b.remaining > 0 ... : the test and the decrement are two accesses.    *)
Test(c) ==
    /\ At(c, "test")
    /\ Goto(c, IF remaining[bucket[c]] > 0 THEN "take" ELSE "send")
    /\ granted' = [granted EXCEPT ![c] = ~(remaining[bucket[c]] > 0)]
    /\ UNCHANGED <<limiter, call, context, server, heldBack, spacing>>

Take(c) ==
    /\ At(c, "take")
    /\ remaining' = [remaining EXCEPT ![bucket[c]] = (@ - 1) % UintMod]
    /\ granted' = [granted EXCEPT ![c] = TRUE]
    /\ Goto(c, "send")
    /\ UNCHANGED <<holder, reset, global, call, context, server, heldBack, spacing>>

-----------------------------------------------------------------------------
(* Client.Do against the server, one window of Limit requests per bucket.   *)

(* The server counts a request of bucket b: its state afterwards.           *)
LeftAfter(b) == IF window[b] = 0 THEN Limit - 1 ELSE left[b] - 1
WindowAfter(b) == IF window[b] = 0 THEN Window ELSE window[b]
Throttled(b) == window[b] > 0 /\ left[b] = 0

Count(b) ==
    /\ left' = [left EXCEPT ![b] = LeftAfter(b)]
    /\ window' = [window EXCEPT ![b] = WindowAfter(b)]

Returns(c, answer) ==
    /\ response' = [response EXCEPT ![c] = answer]
    /\ Goto(c, "release")
    /\ UNCHANGED <<limiter, bucket, attempt, onRespErr, optFailed, wait, context, history>>

DoAccepted(c) ==
    LET b == bucket[c] IN
    /\ At(c, "send") /\ ~Throttled(b)
    /\ Count(b)
    /\ \/ Returns(c, Answer("ok", LeftAfter(b), WindowAfter(b), 0))
       \/ /\ "malformed" \in Faults
          /\ Returns(c, Answer("malformed", LeftAfter(b), WindowAfter(b), 0))

DoThrottled(c) ==
    /\ At(c, "send") /\ Throttled(bucket[c])
    /\ Returns(c, Answer("limited", 0, window[bucket[c]], window[bucket[c]]))
    /\ UNCHANGED server

(* Answers that do not come from the bucket's own accounting.               *)
DoFaulty(c) ==
    /\ At(c, "send")
    /\ \/ "error" \in Faults /\ Returns(c, Answer("error", 0, 0, 0))
       \/ "global" \in Faults /\ Returns(c, Answer("global", 0, 0, GlobalAfter))
    /\ UNCHANGED server

(* Do fails: the connection or the context did, before or after the server  *)
(* counted the request.                                                     *)
DoFailed(c) ==
    LET b == bucket[c] IN
    /\ At(c, "send")
    /\ "lost" \in Faults \/ CtxDone(c)
    /\ Returns(c, NoResponse)
    /\ \/ UNCHANGED server
       \/ ~Throttled(b) /\ Count(b)

-----------------------------------------------------------------------------
(* Client.OnResponse: Limiter.Release, called after every attempt and also  *)
(* when Acquire failed.                                                     *)

(* The headers of a response, in the order of Release's switch.  A header   *)
(* that does not parse leaves remaining alone.                              *)
ResetFrom_Forgotten(r, old) == IF r.kind = "limited" THEN r.retryAfter ELSE old
ResetFrom(r, old) ==
    CASE r.kind = "ok" -> r.reset + Extra
      [] r.kind = "limited" -> r.retryAfter
      [] OTHER -> old
RemainingFrom(r, old) ==
    IF r.kind \in {"ok", "limited"} THEN r.remaining ELSE old

ReleaseHeaders(c) ==
    LET b == bucket[c]
        r == response[c] IN
    /\ At(c, "release")
    /\ IF b \in Custom
       THEN /\ reset' = [reset EXCEPT ![b] = IF @ = 0 THEN CustomReset ELSE @]
            /\ UNCHANGED <<remaining, global, onRespErr>>
       ELSE /\ reset' = [reset EXCEPT ![b] = ResetFrom(r, @)]
            /\ remaining' = [remaining EXCEPT ![b] = RemainingFrom(r, @)]
            /\ global' = IF r.kind = "global" THEN r.retryAfter ELSE global
            /\ onRespErr' = [onRespErr EXCEPT ![c] = @ \/ r.kind = "malformed"]
    /\ spacing' = IF b \in Custom /\ granted[c]
                  THEN [spacing EXCEPT ![b] = CustomReset] ELSE spacing
    /\ granted' = [granted EXCEPT ![c] = FALSE]
    /\ heldBack' = [heldBack EXCEPT ![c] = 0]
    /\ Goto(c, "unlock")
    /\ UNCHANGED <<bucket, attempt, optFailed, response, wait, context, server>>

Release_UnlocksFirst(c) ==
    /\ ReleaseHeaders(c)
    /\ holder' = [holder EXCEPT ![bucket[c]] = Free]

Release(c) == ReleaseHeaders(c) /\ UNCHANGED holder

(* What the request loop does with the attempt.                             *)
Bad(c) ==
    \/ onRespErr[c]
    \/ response[c].kind \in {"none", "limited", "global", "error"}
Again(c) ==
    ~optFailed[c] /\ Bad(c) /\ (Retries = 0 \/ attempt[c] + 1 < Retries)

(* Retry, or return and be done with the context.                           *)
RetryOrReturn(c) ==
    \/ /\ Again(c)
       /\ attempt' = [attempt EXCEPT ![c] = IF Retries = 0 THEN @ ELSE @ + 1]
       /\ Goto(c, "lock")
       /\ UNCHANGED context
    \/ /\ ~Again(c)
       /\ deadline' = [deadline EXCEPT ![c] = NoDeadline]
       /\ cancelled' = [cancelled EXCEPT ![c] = FALSE]
       /\ Goto(c, "idle")
       /\ UNCHANGED attempt

TryUnlock_OnlyAfterAcquire(c) ==
    /\ At(c, "unlock")
    /\ holder' = IF optFailed[c] THEN holder ELSE [holder EXCEPT ![bucket[c]] = Free]
    /\ RetryOrReturn(c)
    /\ UNCHANGED <<remaining, reset, global, bucket, onRespErr, optFailed, response,
                   wait, server, history>>

(* defer b.lock.TryUnlock(), whoever locked it.                             *)
TryUnlock(c) ==
    /\ At(c, "unlock")
    /\ holder' = [holder EXCEPT ![bucket[c]] = Free]
    /\ RetryOrReturn(c)
    /\ UNCHANGED <<remaining, reset, global, bucket, onRespErr, optFailed, response,
                   wait, server, history>>

(* What Client.Request returns once the caller is idle again.               *)
ReturnsError(c) == optFailed[c] \/ Bad(c)

-----------------------------------------------------------------------------
(* The environment.                                                         *)

Cancel(c) ==
    /\ Running /\ pc[c] # "idle"
    /\ c \in Cancellable
    /\ ~cancelled[c]
    /\ cancelled' = [cancelled EXCEPT ![c] = TRUE]
    /\ UNCHANGED <<limiter, pc, call, deadline, server, history>>

Dec(n) == IF n > 0 THEN n - 1 ELSE n
DecAll(f) == [x \in DOMAIN f |-> Dec(f[x])]

(* A tick of the clock.  The reset a response carries is a point of time;   *)
(* its Retry-After is a duration.                                           *)
Tick ==
    /\ Running
    /\ reset' = DecAll(reset)
    /\ global' = Dec(global)
    /\ wait' = DecAll(wait)
    /\ deadline' = DecAll(deadline)
    /\ window' = DecAll(window)
    /\ heldBack' = DecAll(heldBack)
    /\ spacing' = DecAll(spacing)
    /\ response' = [c \in Callers |-> [response[c] EXCEPT !.reset = Dec(@)]]
    /\ UNCHANGED <<holder, remaining, pc, bucket, attempt, onRespErr, optFailed,
                   cancelled, left, granted>>

Acquire(c) ==
    \/ Lock(c) \/ LockFailed(c) \/ Check(c) \/ WakeUp(c) \/ WaitCancelled(c)
    \/ Test(c) \/ Take(c)
Do(c) == DoAccepted(c) \/ DoThrottled(c) \/ DoFaulty(c) \/ DoFailed(c)
Step(c) == Acquire(c) \/ Do(c) \/ Release(c) \/ TryUnlock(c)

Next ==
    \/ \E c \in Callers : Start(c) \/ Step(c) \/ Cancel(c)
    \/ Tick

Spec == Init /\ [][Next]_vars

(* The Go scheduler runs every goroutine that can run; a channel serves its *)
(* blocked senders in order, so a waiting Lock is not passed over forever;  *)
(* time passes.  Nobody is obliged to start a call or to cancel one.        *)
FairSpec ==
    /\ Spec
    /\ WF_vars(Tick)
    /\ \A c \in Callers : WF_vars(Step(c)) /\ SF_vars(Lock(c))

-----------------------------------------------------------------------------
(* Types.  The upper bounds are those of the code's own sources of values.  *)
PcLabels == {"idle", "lock", "check", "wait", "test", "take", "send", "release",
             "unlock", "panicked"}

(* Every variable stays within the type the code declares for it; remaining *)
(* is an unsigned integer of width log2(UintMod).                           *)
TypeOK ==
    /\ holder \in [Buckets -> Callers \cup {Free}]
    /\ remaining \in [Buckets -> 0..(UintMod - 1)]
    /\ reset \in [Buckets -> Nat]
    /\ global \in Nat
    /\ pc \in [Callers -> PcLabels]
    /\ bucket \in [Callers -> Buckets]
    /\ attempt \in [Callers -> Nat]
    /\ onRespErr \in [Callers -> BOOLEAN]
    /\ optFailed \in [Callers -> BOOLEAN]
    /\ response \in [Callers -> Response]
    /\ wait \in [Callers -> Nat]
    /\ deadline \in [Callers -> Nat \cup {NoDeadline}]
    /\ cancelled \in [Callers -> BOOLEAN]
    /\ left \in [Buckets -> 0..Limit]
    /\ window \in [Buckets -> Nat]
    /\ granted \in [Callers -> BOOLEAN]
    /\ heldBack \in [Callers -> Nat]
    /\ spacing \in [Buckets -> Nat]

-----------------------------------------------------------------------------
(* Properties.                                                              *)

(* c is between a successful Acquire (or inside Acquire with the mutex) and *)
(* the end of its Release.                                                  *)
Inside(c) ==
    \/ pc[c] \in {"check", "wait", "test", "take", "send"}
    \/ pc[c] \in {"release", "unlock"} /\ ~optFailed[c]

(* At most one caller is inside a bucket: requests of one bucket are sent   *)
(* one at a time, each after the headers of the one before were taken in.   *)
(* This is what the CtxMutex held from Acquire to Release is for.           *)
Exclusive ==
    \A c, d \in Callers :
        Inside(c) /\ Inside(d) /\ bucket[c] = bucket[d] => c = d

(* A bucket's mutex is held by a call in progress in that very bucket:      *)
(* every way out of Acquire, the early errors included, ends in an unlock,  *)
(* so no bucket is left locked by a call that has returned.                 *)
NoLeak ==
    \A b \in Buckets :
        holder[b] # Free =>
            /\ bucket[holder[b]] = b
            /\ pc[holder[b]] \notin {"idle", "lock", "panicked"}

(* The limiter does its job: a server whose only client this is never has   *)
(* to answer 429 for a bucket.                                              *)
NeverThrottled == \A c \in Callers : response[c].kind # "limited"

(* remaining never exceeds what a server granted (or the initial 1): the    *)
(* unsigned decrement does not wrap around.                                 *)
NoUnderflow == \A b \in Buckets : remaining[b] <= Limit

(* Two requests of a bucket with a custom limit are a CustomReset apart,    *)
(* counted from the Release of the first.                                   *)
CustomSpaced ==
    \A c \in Callers :
        pc[c] = "send" /\ bucket[c] \in Custom => spacing[bucket[c]] = 0

(* CtxMutex.Unlock is never called on an unlocked mutex (its panic).        *)
NoPanic == Running

(* A request waits out the global rate limit that was in force when its     *)
(* Acquire looked at it.                                                    *)
GlobalHonoured == \A c \in Callers : pc[c] = "send" => heldBack[c] = 0

(* An error a Release returned for an earlier attempt does not turn a later *)
(* successful attempt into a failed call.                                   *)
SuccessReturned ==
    \A c \in Callers :
        pc[c] = "idle" /\ response[c].kind = "ok" => ~ReturnsError(c)

(* Every call returns, as long as the retries are bounded.                  *)
CallReturns ==
    \A c \in Callers : pc[c] # "idle" ~> (pc[c] = "idle" \/ ~Running)

(* The limiter implements SerialBuckets, which see: one request per bucket  *)
(* at a time and nobody waits for a turn forever.                           *)
Phase(c) ==
    IF Inside(c) THEN "inside"
    ELSE IF pc[c] = "lock" THEN "waiting" ELSE "out"
Serial == INSTANCE SerialBuckets WITH phase <- [c \in Callers |-> Phase(c)]

Serialised == Serial!FairSpec

-----------------------------------------------------------------------------
(* Why the limiter works: an inductive invariant.                           *)

Section == {"check", "wait", "test", "take", "send", "release", "unlock"}

(* Without cancelled contexts a caller in Acquire past Lock, or up to the   *)
(* end of Release, is the holder of its bucket's mutex.                     *)
HoldsLock ==
    \A c \in Callers :
        /\ ~CtxDone(c) /\ deadline[c] = NoDeadline
        /\ pc[c] # "panicked"
        /\ pc[c] \in Section => holder[bucket[c]] = c

(* c's request is on its way, or its headers have not been taken in yet.    *)
Sent(c) == pc[c] = "send" \/ (pc[c] = "release" /\ ~optFailed[c])

(* The limiter never believes in more turns, or in an earlier reset, than   *)
(* the server: what it knows of a bucket is a lower bound.                  *)
Known(b) ==
    window[b] > 0 => remaining[b] <= left[b] /\ window[b] <= reset[b]

BucketInv(b) ==
    /\ window[b] <= Window
    /\ remaining[b] <= Limit
    /\ (\A c \in Callers : bucket[c] = b => ~Sent(c)) => Known(b)
    /\ b \in Custom => /\ remaining[b] <= 1
                       /\ remaining[b] > 0 => reset[b] = 0
                       /\ spacing[b] <= reset[b]

CallerInv(c) ==
    LET b == bucket[c] IN
    /\ pc[c] \in {"lock", "check", "wait", "test", "take", "send"} => ~optFailed[c]
    /\ pc[c] = "wait" => remaining[b] = 0 /\ wait[c] = reset[b]
    /\ pc[c] = "test" /\ remaining[b] = 0 => reset[b] = 0
    /\ pc[c] = "take" => remaining[b] > 0
    /\ pc[c] = "send" => /\ window[b] > 0 => remaining[b] < left[b]
                         /\ b \in Custom => remaining[b] = 0 /\ reset[b] = 0
    /\ pc[c] = "release" /\ ~optFailed[c] =>
           /\ response[c].kind = "ok"
           /\ response[c].remaining = left[b]
           /\ response[c].reset = window[b]
           /\ b \in Custom => remaining[b] = 0 /\ reset[b] = 0
    /\ optFailed[c] => response[c].kind = "none" /\ ~granted[c]
    /\ granted[c] => pc[c] \in {"send", "release"}
    /\ pc[c] = "release" /\ optFailed[c] => remaining[b] = 0
    /\ response[c].kind \in {"none", "ok"}

(* No context ends and the server does not fail.                             *)
Quiet ==
    /\ Cancellable = {} /\ Deadlines = {NoDeadline}
    /\ Faults = {}
    /\ CustomReset >= Window
=============================================================================
