------------------------------- MODULE Session -------------------------------
(***************************************************************************)
(* session.Session: goroutines that call Open, Wait, Connect, Close and     *)
(* SendGateway on sessions, each around one mutex, over a gateway that is   *)
(* seen from above: its event loop (spin) ends when its context is          *)
(* cancelled or by an error of its own, and its channel feeds the loop of   *)
(* ophandler, which closes doneCh behind it.                                *)
(***************************************************************************)
EXTENDS Naturals, FiniteSets

CONSTANTS
    Sessions,          \* sessions, the shards of a manager
    Callers,           \* goroutines that use them
    Direct,            \* those that call a session directly, and
    Reach,             \* the sessions they do that to
    Cancellable,       \* callers whose context may end
    DontWaitForReady,  \* the field of that name
    MaxConns,          \* names for the connections of one session, enough for those in use
    Free,              \* nobody holds the lock
    Nowhere            \* not in a session

ASSUME SessionAssumption ==
    /\ Direct \subseteq Callers /\ Reach \subseteq Sessions /\ Cancellable \subseteq Callers /\ Free \notin Callers /\ Nowhere \notin Sessions
    /\ DontWaitForReady \in BOOLEAN
    /\ IsFiniteSet(Callers) /\ MaxConns \in Nat /\ MaxConns > Cardinality(Callers)

VARIABLES
    mutex,     \* who holds sessionState.Mutex
    known,     \* sessionState.gateway is not nil
    cancel,    \* sessionState.cancel is not nil
    doneCh,    \* the connection whose channel doneCh is, 0 for nil
    over,      \* connections, named by numbers, whose context has been cancelled
    spin,      \* the connection whose event loop runs, 0 when outer.started is false
    loops,     \* running loops of ophandler: [done, src], doneCh and the channel read
    lastError, \* Gateway.lastError
    waiting,   \* events blocked on evCh, the channel of an Open
    pc, at, task,  \* where a caller is, in which session, in which method
    ctxDone,   \* its context has ended
    watch,     \* the doneCh that its Wait has read
    result,    \* what its method has returned
    again,     \* history: its Connect has opened the session before
    shut       \* history: the session's last connection was ended by a call of Close

gate == <<over, spin, loops, lastError, waiting>>
sess == <<mutex, known, cancel, doneCh>>
caller == <<pc, at, task, ctxDone, watch, result, again>>
sessionVars == <<gate, sess, caller, shut>>

Gen == 0..MaxConns
Errors == {"nil", "error", "fatal"}
Methods == {"open", "close", "wait", "connect", "send"}
Events == {"other", "ready"}

Init ==
    /\ mutex = [s \in Sessions |-> Free] /\ known = [s \in Sessions |-> FALSE]
    /\ cancel = [s \in Sessions |-> FALSE] /\ doneCh = [s \in Sessions |-> 0]
    /\ over = [s \in Sessions |-> {}]
    /\ spin = [s \in Sessions |-> 0] /\ loops = [s \in Sessions |-> {}]
    /\ lastError = [s \in Sessions |-> "nil"] /\ waiting = [s \in Sessions |-> {}]
    /\ pc = [c \in Callers |-> "idle"] /\ at = [c \in Callers |-> Nowhere]
    /\ task = [c \in Callers |-> "close"] /\ ctxDone = [c \in Callers |-> FALSE]
    /\ watch = [c \in Callers |-> 0] /\ result = [c \in Callers |-> "nil"]
    /\ again = [c \in Callers |-> FALSE] /\ shut = [s \in Sessions |-> FALSE]

-----------------------------------------------------------------------------
(* Building blocks.                                                         *)

Set(f, x, v) == f' = [f EXCEPT ![x] = v]
Goto(c, label) == Set(pc, c, label)
Lock(c) == mutex[at[c]] = Free
Done(s, n) == \A l \in loops[s] : l.done # n

(* gatewayIsAlive.                                                          *)
Alive(s) == known[s] /\ doneCh[s] # 0 /\ ~Done(s, doneCh[s])

(* The method c was in returns r to its caller.                             *)
Give(c, r) == Goto(c, "return") /\ Set(result, c, r)

(* What follows an Open that ends: in Connect, Wait or another attempt.     *)
AfterOpen(c, r) ==
    IF task[c] # "connect" THEN Give(c, r) /\ UNCHANGED again
    ELSE /\ Set(again, c, TRUE)
         /\ IF r = "nil" THEN Goto(c, "wait") /\ UNCHANGED result
            ELSE IF r = "fatal" \/ ctxDone[c] THEN Give(c, r)
            ELSE Goto(c, "open") /\ UNCHANGED result

(* What follows a Wait that ends.                                           *)
AfterWait(c, r) ==
    IF task[c] # "connect" THEN Give(c, r)
    ELSE IF r = "fatal" THEN Give(c, r)
    ELSE IF r # "nil" /\ ctxDone[c] THEN Give(c, "nil")
    ELSE Goto(c, "open") /\ UNCHANGED result

(* A name for a new connection that nothing refers to any more.             *)
NextConn(s) ==
    CHOOSE n \in 1..MaxConns :
        /\ n # spin[s] /\ \A l \in loops[s] : n \notin {l.done, l.src}
        /\ \A c \in Callers : at[c] = s => n # watch[c]

(* The first half of close: the context is cancelled.                       *)
CancelConn(s) ==
    /\ over' = [over EXCEPT ![s] = @ \cup {doneCh[s]}]
    /\ Set(cancel, s, FALSE)

Unlock(s) == Set(mutex, s, Free)

-----------------------------------------------------------------------------
(* The gateway, as its user sees it.                                        *)

(* An op other than an error clears lastError; READY, and with              *)
(* DontWaitForReady any event, is what an Open waits for.  The handler that *)
(* passes it to evCh is a goroutine of its own.                             *)
Deliver(s, e) ==
    /\ spin[s] # 0 /\ \E l \in loops[s] : l.src = spin[s]
    /\ Set(lastError, s, "nil")
    /\ waiting' = IF \E c \in Callers : at[c] = s /\ pc[c] = "open.wait"
                  THEN [waiting EXCEPT ![s] = @ \cup {e}] ELSE waiting
    /\ UNCHANGED <<over, spin, loops, sess, caller, shut>>

(* SendError: the gateway goes on.                                          *)
Trouble(s) ==
    /\ spin[s] # 0
    /\ Set(lastError, s, "error")
    /\ UNCHANGED <<over, spin, loops, waiting, sess, caller, shut>>

(* The event loop ends and closes its channel.                              *)
SpinEnds(s) ==
    /\ spin[s] # 0
    /\ \/ spin[s] \in over[s] /\ lastError' \in {lastError, [lastError EXCEPT ![s] = "error"]}
       \/ \E e \in {"error", "fatal"} : Set(lastError, s, e)
    /\ Set(spin, s, 0)
    /\ UNCHANGED <<over, loops, waiting, sess, caller, shut>>

(* ophandler.Loop: the channel it reads is closed, and so is doneCh.        *)
LoopEnds(s) ==
    /\ \E l \in loops[s] : l.src # spin[s] /\ loops' = [loops EXCEPT ![s] = @ \ {l}]
    /\ UNCHANGED <<over, spin, lastError, waiting, sess, caller, shut>>

-----------------------------------------------------------------------------
(* Open.                                                                    *)

(* The lock; a session that is open, or whose gateway has died, is closed   *)
(* first.                                                                   *)
OpenLock(c) ==
    LET s == at[c] IN
    /\ pc[c] = "open" /\ Lock(c)
    /\ Set(mutex, s, c)
    /\ IF cancel[s] THEN CancelConn(s) /\ Goto(c, "open.close")
                    ELSE Goto(c, "open.dial") /\ UNCHANGED <<over, cancel>>
    /\ UNCHANGED <<spin, loops, lastError, waiting, known, doneCh, at, task, ctxDone,
                   watch, result, again, shut>>

OpenClosed(c) ==
    LET s == at[c] IN
    /\ pc[c] = "open.close" /\ Done(s, doneCh[s])
    /\ Set(doneCh, s, 0)
    /\ IF lastError[s] = "nil"
       THEN Goto(c, "open.dial") /\ UNCHANGED <<mutex, result, again>>
       ELSE Unlock(s) /\ AfterOpen(c, lastError[s])
    /\ UNCHANGED <<gate, known, cancel, at, task, ctxDone, watch, shut>>

(* gateway.NewWithIdentifier asks the API for the URL, which may fail.      *)
OpenNoGateway(c) ==
    LET s == at[c] IN
    /\ pc[c] = "open.dial" /\ ~known[s]
    /\ Unlock(s) /\ AfterOpen(c, "error")
    /\ UNCHANGED <<gate, known, cancel, doneCh, at, task, ctxDone, watch, shut>>

(* Gateway.Connect starts an event loop unless one is running, and returns  *)
(* the channel of the one that runs.                                        *)
OpenConnect(c) ==
    LET s == at[c]
        n == NextConn(s) IN
    /\ pc[c] = "open.dial"
    /\ Set(known, s, TRUE) /\ over' = [over EXCEPT ![s] = @ \ {n}]
    /\ spin' = [spin EXCEPT ![s] = IF @ = 0 THEN n ELSE @]
    /\ loops' = [loops EXCEPT ![s] = @ \cup {[done |-> n, src |-> spin'[s]]}]
    /\ Set(cancel, s, TRUE) /\ Set(doneCh, s, n)
    /\ Set(waiting, s, {}) /\ Set(shut, s, FALSE)
    /\ Goto(c, "open.wait")
    /\ UNCHANGED <<lastError, mutex, at, task, ctxDone, watch, result, again>>

Wanted == IF DontWaitForReady THEN Events ELSE {"ready"}

OpenReady(c) ==
    LET s == at[c] IN
    /\ pc[c] = "open.wait" /\ waiting[s] \cap Wanted # {}
    /\ Set(waiting, s, {})
    /\ Unlock(s) /\ AfterOpen(c, "nil")
    /\ UNCHANGED <<over, spin, loops, lastError, known, cancel, doneCh, at, task,
                   ctxDone, watch, shut>>

OpenSkip(c) ==
    LET s == at[c] IN
    /\ pc[c] = "open.wait" /\ waiting[s] \ Wanted # {}
    /\ waiting' = [waiting EXCEPT ![s] = @ \cap Wanted]
    /\ UNCHANGED <<over, spin, loops, lastError, sess, caller, shut>>

(* The event loop has died: its error is returned, cancel is left in place. *)
OpenDied(c) ==
    LET s == at[c] IN
    /\ pc[c] = "open.wait" /\ Done(s, doneCh[s])
    /\ Set(waiting, s, {})
    /\ Unlock(s) /\ AfterOpen(c, lastError[s])
    /\ UNCHANGED <<over, spin, loops, lastError, known, cancel, doneCh, at, task,
                   ctxDone, watch, shut>>

OpenCtx_NoWait(c) ==
    LET s == at[c] IN
    /\ pc[c] = "open.wait" /\ ctxDone[c]
    /\ CancelConn(s) /\ Set(doneCh, s, 0)
    /\ Unlock(s) /\ AfterOpen(c, "ctx")
    /\ UNCHANGED <<spin, loops, lastError, waiting, known, at, task, ctxDone, watch, shut>>

OpenCtx(c) ==
    LET s == at[c] IN
    /\ pc[c] = "open.wait" /\ ctxDone[c]
    /\ CancelConn(s) /\ Goto(c, "open.abort")
    /\ UNCHANGED <<spin, loops, lastError, waiting, mutex, known, doneCh, at, task,
                   ctxDone, watch, result, again, shut>>

OpenAborted(c) ==
    LET s == at[c] IN
    /\ pc[c] = "open.abort" /\ Done(s, doneCh[s])
    /\ Set(doneCh, s, 0) /\ Set(waiting, s, {})
    /\ Unlock(s) /\ AfterOpen(c, "ctx")
    /\ UNCHANGED <<over, spin, loops, lastError, known, cancel, at, task, ctxDone,
                   watch, shut>>

-----------------------------------------------------------------------------
(* Close, called by a user or by a Wait whose context has ended.            *)

CloseLock(c) ==
    LET s == at[c]
        next == IF pc[c] = "close" THEN "close.wait" ELSE "wait.closing" IN
    /\ pc[c] \in {"close", "wait.close"} /\ Lock(c)
    /\ IF cancel[s]
       THEN Set(mutex, s, c) /\ CancelConn(s) /\ Goto(c, next) /\ UNCHANGED result
       ELSE /\ IF pc[c] = "close" THEN Give(c, "closed")
                                  ELSE Goto(c, "wait.error") /\ UNCHANGED result
            /\ UNCHANGED <<mutex, over, cancel>>
    /\ UNCHANGED <<spin, loops, lastError, waiting, known, doneCh, at, task, ctxDone,
                   watch, again, shut>>

CloseDone(c) ==
    LET s == at[c] IN
    /\ pc[c] \in {"close.wait", "wait.closing"} /\ Done(s, doneCh[s])
    /\ Set(doneCh, s, 0) /\ Unlock(s)
    /\ IF pc[c] = "close.wait"
       THEN Give(c, lastError[s]) /\ Set(shut, s, TRUE)
       ELSE Goto(c, "wait.error") /\ UNCHANGED <<result, shut>>
    /\ UNCHANGED <<gate, known, cancel, at, task, ctxDone, watch, again>>

-----------------------------------------------------------------------------
(* Wait.                                                                    *)

WaitLock(c) ==
    LET s == at[c] IN
    /\ pc[c] = "wait" /\ Lock(c)
    /\ IF doneCh[s] = 0 THEN AfterWait(c, "closed") /\ UNCHANGED watch
       ELSE Set(watch, c, doneCh[s]) /\ Goto(c, "wait.select") /\ UNCHANGED result
    /\ UNCHANGED <<gate, sess, at, task, ctxDone, again, shut>>

WaitCtx(c) ==
    /\ pc[c] = "wait.select" /\ ctxDone[c]
    /\ Goto(c, "wait.close")
    /\ UNCHANGED <<gate, sess, at, task, ctxDone, watch, result, again, shut>>

WaitDone(c) ==
    /\ pc[c] = "wait.select" /\ Done(at[c], watch[c])
    /\ Set(watch, c, 0) /\ Goto(c, "wait.error")
    /\ UNCHANGED <<gate, sess, at, task, ctxDone, result, again, shut>>

(* GatewayError: nil when the session is alive again.                       *)
GatewayError(s) == IF ~Alive(s) /\ known[s] THEN lastError[s] ELSE "nil"

WaitError(c) ==
    LET e == GatewayError(at[c]) IN
    /\ pc[c] = "wait.error" /\ Lock(c)
    /\ AfterWait(c, IF e = "nil" /\ watch[c] # 0 THEN "ctx" ELSE e)
    /\ Set(watch, c, 0)
    /\ UNCHANGED <<gate, sess, at, task, ctxDone, again, shut>>

-----------------------------------------------------------------------------
(* SendGateway: the check, then the send into whatever is there by then.    *)

SendCheck(c) ==
    /\ pc[c] = "send" /\ Lock(c)
    /\ IF Alive(at[c]) THEN Goto(c, "send.go") /\ UNCHANGED result ELSE Give(c, "closed")
    /\ UNCHANGED <<gate, sess, at, task, ctxDone, watch, again, shut>>

SendGo(c) ==
    /\ pc[c] = "send.go" /\ Lock(c)
    /\ \E r \in {"error"} \cup (IF spin[at[c]] # 0 THEN {"nil"} ELSE {}) : Give(c, r)
    /\ UNCHANGED <<gate, sess, at, task, ctxDone, watch, again, shut>>

-----------------------------------------------------------------------------
(* The callers.                                                             *)

Invoke(c, s, m) ==
    /\ pc[c] = "idle"
    /\ Set(at, c, s) /\ Set(task, c, m)
    /\ Goto(c, IF m = "connect" THEN "open" ELSE m)
    /\ UNCHANGED <<gate, sess, ctxDone, watch, result, again, shut>>

Return(c) ==
    /\ pc[c] = "return"
    /\ Goto(c, "idle") /\ Set(at, c, Nowhere) /\ Set(task, c, "close")
    /\ Set(ctxDone, c, FALSE) /\ Set(result, c, "nil") /\ Set(again, c, FALSE)
    /\ UNCHANGED <<gate, sess, watch, shut>>

EndContext(c) ==
    /\ c \in Cancellable /\ pc[c] # "idle" /\ ~ctxDone[c] /\ task[c] \in {"open", "wait", "connect"}
    /\ Set(ctxDone, c, TRUE)
    /\ UNCHANGED <<gate, sess, pc, at, task, watch, result, again, shut>>

Opening(c) ==
    \/ OpenLock(c) \/ OpenClosed(c) \/ OpenNoGateway(c) \/ OpenConnect(c) \/ OpenReady(c)
    \/ OpenSkip(c) \/ OpenDied(c) \/ OpenCtx(c) \/ OpenAborted(c)
Closing(c) == CloseLock(c) \/ CloseDone(c)
Waiting(c) == WaitLock(c) \/ WaitCtx(c) \/ WaitDone(c) \/ WaitError(c)
Sending(c) == SendCheck(c) \/ SendGo(c)

Step(c) == Opening(c) \/ Closing(c) \/ Waiting(c) \/ Sending(c)

Gateway(s) ==
    (\E e \in Events : Deliver(s, e)) \/ Trouble(s) \/ SpinEnds(s) \/ LoopEnds(s)

SessionNext ==
    \/ \E c \in Callers : Step(c) \/ EndContext(c)
    \/ \E s \in Sessions : Gateway(s)
    \/ \E c \in Direct : Return(c) \/ \E s \in Reach, m \in Methods : Invoke(c, s, m)

(* Goroutines that can go on do; a Go mutex is handed over in the end, and  *)
(* select passes none of its cases over for ever; a cancelled event loop    *)
(* ends, and so does the loop that reads from it; the server answers an     *)
(* Identify in the end.                                                     *)
Locking(c) ==
    OpenLock(c) \/ CloseLock(c) \/ WaitLock(c) \/ WaitError(c) \/ SendCheck(c) \/ SendGo(c)
OpenEnds(c) == OpenReady(c) \/ OpenDied(c) \/ OpenCtx(c)

SessionFairness ==
    /\ \A c \in Callers :
        WF_sessionVars(Step(c)) /\ SF_sessionVars(Locking(c)) /\ SF_sessionVars(OpenEnds(c))
        /\ SF_sessionVars(OpenCtx(c)) /\ SF_sessionVars(WaitCtx(c))
    /\ \A s \in Sessions :
        /\ WF_sessionVars(spin[s] \in over[s] /\ SpinEnds(s)) /\ WF_sessionVars(LoopEnds(s))
        /\ WF_sessionVars(Deliver(s, "ready"))

SessionSpec == Init /\ [][SessionNext]_sessionVars

-----------------------------------------------------------------------------
(* Properties.                                                              *)

Pcs == {"idle", "return", "open", "open.close", "open.dial", "open.wait", "open.abort",
        "close", "close.wait", "wait", "wait.select", "wait.close", "wait.closing",
        "wait.error", "send", "send.go"}
Results == Errors \cup {"ctx", "closed"}

(* Every variable keeps its type.                                           *)
TypeOK ==
    /\ mutex \in [Sessions -> Callers \cup {Free}]
    /\ known \in [Sessions -> BOOLEAN] /\ cancel \in [Sessions -> BOOLEAN]
    /\ doneCh \in [Sessions -> Gen] 
    /\ over \in [Sessions -> SUBSET Gen] /\ spin \in [Sessions -> Gen]
    /\ loops \in [Sessions -> SUBSET [done: Gen, src: Gen]]
    /\ lastError \in [Sessions -> Errors] /\ waiting \in [Sessions -> SUBSET Events]
    /\ pc \in [Callers -> Pcs] /\ at \in [Callers -> Sessions \cup {Nowhere}]
    /\ task \in [Callers -> Methods] /\ ctxDone \in [Callers -> BOOLEAN]
    /\ watch \in [Callers -> Gen] /\ result \in [Callers -> Results]
    /\ again \in [Callers -> BOOLEAN] /\ shut \in [Sessions -> BOOLEAN]

(* However many goroutines open and close a session, at most one event loop *)
(* feeds its handlers; and a session that says it is not alive has nothing  *)
(* running behind it, so that asking for LastError, which panics beside a   *)
(* running gateway, is safe.                                                *)
Quiet(s) == spin[s] = 0 /\ loops[s] = {}
OneLoop ==
    \A s \in Sessions :
        /\ Cardinality(loops[s]) <= 1
        /\ mutex[s] = Free /\ ~Alive(s) => Quiet(s)

(* Once its context has ended, every Open, Wait and Connect returns, and    *)
(* every Close and SendGateway does.                                        *)
MethodsReturn ==
    \A c \in Direct :
        (pc[c] # "idle" /\ (ctxDone[c] \/ task[c] \in {"close", "send"}))
            ~> pc[c] \in {"return", "idle"}

(* The comment on Connect: it returns when s.Close is called.  So a session *)
(* that Close has closed is not opened again by a Connect in progress.      *)
ClosedStaysClosed ==
    \A c \in Callers : pc[c] = "open.dial" /\ task[c] = "connect" /\ again[c] => ~shut[at[c]]
=============================================================================
