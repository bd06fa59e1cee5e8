------------------------------- MODULE Handler -------------------------------
(***************************************************************************)
(* utils/handler: the registry that hands every event to the functions and  *)
(* channels registered for it.  One slab of entries per event type, and one *)
(* for handlers of interface types; a removed entry goes into the slab's    *)
(* free list.  Callers of Handler.Call hold the read lock while they walk   *)
(* over the entries; AddHandler and the functions it returns take the write *)
(* lock.                                                                    *)
(***************************************************************************)
EXTENDS Integers, Sequences

CONSTANTS
    Handlers,    \* registrations users may make, one call of AddHandler each
    Sync,        \* those made with AddSyncHandler
    Chan,        \* channels; the others are functions
    Types,       \* event types
    Iface,       \* the slab of interface handlers, keyed by the nil type
    Kind,        \* Kind[h]: the slab of h
    Accepts,     \* Accepts[h]: the types of events that h takes
    Callers,     \* goroutines that call Handler.Call
    MaxEvents,   \* bound: events
    None

ASSUME ConstantsAssumption ==
    /\ Sync \subseteq Handlers /\ Chan \subseteq Handlers
    /\ None \notin Handlers /\ Iface \notin Types
    /\ Kind \in [Handlers -> Types \cup {Iface}]
    /\ Accepts \in [Handlers -> SUBSET Types]
    /\ \A h \in Handlers : Kind[h] # Iface => Accepts[h] = {Kind[h]}
    /\ MaxEvents \in Nat

Slabs == Types \cup {Iface}
Valid == -1

VARIABLES
    entries,   \* slab.Entries: [index, handler]; index is Valid or the next free one
    free,      \* slab.free
    freed,     \* history: the free entries of a slab, the next one to be used last
    user,      \* where the owner of each handler is
    id,        \* the id captured by its rm
    popped,    \* what rm has taken out of the slab
    closed,    \* chanclose of h is closed
    walking,   \* callers that hold the read lock
    event,     \* the event of each caller's current Call
    todo,      \* the entries it has not got to yet
    called,    \* history: those it has
    inSync,    \* the synchronous handler it waits for, or None
    spawned,   \* goroutines started for a handler that have not begun
    running,   \* runs of a handler that have
    sent,      \* events so far
    left,      \* history: events so far when h was taken out of its slab
    got        \* history: the events each handler has been run with, in order

slab == <<entries, free, freed>>
owners == <<user, id, popped, closed, left>>
runs == <<spawned, running>>
calls == <<walking, event, todo, called, inSync>>
vars == <<slab, owners, calls, runs, sent, got>>

NoEvent == [n |-> 0, type |-> Iface]

Init ==
    /\ entries = [s \in Slabs |-> <<>>] /\ free = [s \in Slabs |-> 0]
    /\ freed = [s \in Slabs |-> <<>>]
    /\ user = [h \in Handlers |-> "out"] /\ id = [h \in Handlers |-> 0]
    /\ popped = [h \in Handlers |-> None] /\ closed = [h \in Handlers |-> FALSE]
    /\ walking = {} /\ event = [c \in Callers |-> NoEvent]
    /\ todo = [c \in Callers |-> {}] /\ called = [c \in Callers |-> {}]
    /\ inSync = [c \in Callers |-> None]
    /\ left = [h \in Handlers |-> 0]
    /\ spawned = {} /\ running = {} /\ sent = 0 /\ got = [h \in Handlers |-> <<>>]

-----------------------------------------------------------------------------
(* The slab.                                                                *)

Entry(index, h) == [index |-> index, handler |-> h]

Full(s) == free[s] = Len(entries[s])

Put_FreeBehind(s, h) ==
    LET i == free[s] IN
    /\ id' = [id EXCEPT ![h] = i]
    /\ IF Full(s)
       THEN /\ entries' = [entries EXCEPT ![s] = Append(@, Entry(Valid, h))]
            /\ free' = [free EXCEPT ![s] = i]
            /\ UNCHANGED freed
       ELSE /\ entries' = [entries EXCEPT ![s] = [@ EXCEPT ![i + 1] = Entry(Valid, h)]]
            /\ free' = [free EXCEPT ![s] = entries[s][i + 1].index]
            /\ freed' = [freed EXCEPT ![s] = SubSeq(@, 1, Len(@) - 1)]

(* Put: the first free entry, or a new one at the end.                      *)
Put(s, h) ==
    LET i == free[s] IN
    /\ id' = [id EXCEPT ![h] = i]
    /\ IF Full(s)
       THEN /\ entries' = [entries EXCEPT ![s] = Append(@, Entry(Valid, h))]
            /\ free' = [free EXCEPT ![s] = i + 1]
            /\ UNCHANGED freed
       ELSE /\ entries' = [entries EXCEPT ![s] = [@ EXCEPT ![i + 1] = Entry(Valid, h)]]
            /\ free' = [free EXCEPT ![s] = entries[s][i + 1].index]
            /\ freed' = [freed EXCEPT ![s] = SubSeq(@, 1, Len(@) - 1)]

Pop_StaysValid(s, i) ==
    /\ free' = [free EXCEPT ![s] = i]
    /\ freed' = [freed EXCEPT ![s] = Append(@, i)]
    /\ UNCHANGED entries

(* Pop: the entry becomes the head of the free list.                        *)
Pop(s, i) ==
    /\ entries' = [entries EXCEPT ![s] = [@ EXCEPT ![i + 1] = Entry(free[s], None)]]
    /\ free' = [free EXCEPT ![s] = i]
    /\ freed' = [freed EXCEPT ![s] = Append(@, i)]

-----------------------------------------------------------------------------
(* The owner of h: addHandler, and the function it returns.                 *)

GoTo(h, label) == user' = [user EXCEPT ![h] = label]

(* h.mutex.Lock() of either; a waiting writer holds up new readers.         *)
AddHandler(h) ==
    /\ user[h] = "out"
    /\ GoTo(h, "adding")
    /\ UNCHANGED <<slab, id, popped, closed, left, calls, runs, sent, got>>

AddLocked(h) ==
    /\ user[h] = "adding" /\ walking = {}
    /\ Put(Kind[h], h)
    /\ GoTo(h, "in")
    /\ UNCHANGED <<popped, closed, left, calls, runs, sent, got>>

Remove(h) ==
    /\ user[h] = "in"
    /\ GoTo(h, "removing")
    /\ UNCHANGED <<slab, id, popped, closed, left, calls, runs, sent, got>>

RemoveLocked(h) ==
    /\ user[h] = "removing" /\ walking = {}
    /\ popped' = [popped EXCEPT ![h] = entries[Kind[h]][id[h] + 1].handler]
    /\ Pop(Kind[h], id[h])
    /\ left' = [left EXCEPT ![h] = sent]
    /\ GoTo(h, "cleanup")
    /\ UNCHANGED <<id, closed, calls, runs, sent, got>>

Cleanup_Forgotten(h) ==
    /\ user[h] = "cleanup"
    /\ popped' = [popped EXCEPT ![h] = None]
    /\ GoTo(h, "gone")
    /\ UNCHANGED <<slab, id, closed, left, calls, runs, sent, got>>

(* popped.cleanup() closes the chanclose of a channel.                      *)
Cleanup(h) ==
    /\ user[h] = "cleanup"
    /\ closed' = [x \in Handlers |-> closed[x] \/ (x = popped[h] /\ x \in Chan)]
    /\ popped' = [popped EXCEPT ![h] = None]
    /\ GoTo(h, "gone")
    /\ UNCHANGED <<slab, id, left, calls, runs, sent, got>>

-----------------------------------------------------------------------------
(* Handler.Call.                                                            *)

Place(s, k) == <<s, k>>
Handled(p) == entries[p[1]][p[2]].handler

(* Entry k of slab s is for events of type t.                               *)
Wanted(s, k, t) ==
    entries[s][k].index = Valid /\ t \in Accepts[entries[s][k].handler]

Targets_StopsAtHole(s, t) ==
    {Place(s, k) : k \in {k \in 1..Len(entries[s]) : \A j \in 1..k : Wanted(s, j, t)}}

(* The entries of slab s that an event of type t is for.                    *)
Targets(s, t) ==
    {Place(s, k) : k \in {k \in 1..Len(entries[s]) : Wanted(s, k, t)}}

(* The order of the walk: the slab of the event's type, then the other one. *)
Before(p, q) == IF p[1] = q[1] THEN p[2] <= q[2] ELSE q[1] = Iface

(* The read lock, then the handlers of the event's type and the others.     *)
Call(c) ==
    /\ c \notin walking /\ sent < MaxEvents
    /\ \A h \in Handlers : user[h] \notin {"adding", "removing"}
    /\ sent' = sent + 1
    /\ walking' = walking \cup {c}
    /\ \E t \in Types :
           /\ event' = [event EXCEPT ![c] = [n |-> sent + 1, type |-> t]]
           /\ todo' = [todo EXCEPT ![c] = Targets(t, t) \cup Targets(Iface, t)]
    /\ called' = [called EXCEPT ![c] = {}]
    /\ UNCHANGED <<slab, owners, inSync, runs, got>>

Run(h, e) == [handler |-> h, event |-> e]

CallNext_AllAsync(c) ==
    /\ c \in walking /\ inSync[c] = None
    /\ \E p \in todo[c] :
           /\ \A q \in todo[c] : Before(p, q)
           /\ todo' = [todo EXCEPT ![c] = @ \ {p}]
           /\ called' = [called EXCEPT ![c] = @ \cup {Handled(p)}]
           /\ spawned' = spawned \cup {Run(Handled(p), event[c])}
    /\ UNCHANGED <<slab, owners, walking, event, inSync, running, sent, got>>

(* A synchronous handler runs and is waited for; any other gets a goroutine,*)
(* which begins when it is scheduled.                                       *)
CallNext(c) ==
    /\ c \in walking /\ inSync[c] = None
    /\ \E p \in todo[c] :
           LET h == Handled(p) IN
           /\ \A q \in todo[c] : Before(p, q)
           /\ todo' = [todo EXCEPT ![c] = @ \ {p}]
           /\ called' = [called EXCEPT ![c] = @ \cup {h}]
           /\ running' = running \cup {Run(x, event[c]) : x \in {h} \cap Sync}
           /\ spawned' = spawned \cup {Run(x, event[c]) : x \in {h} \ Sync}
           /\ inSync' = [inSync EXCEPT ![c] = IF h \in Sync THEN h ELSE None]
    /\ UNCHANGED <<slab, owners, walking, event, sent, got>>

SyncDone(c) ==
    /\ inSync[c] # None
    /\ Run(inSync[c], event[c]) \notin running
    /\ inSync' = [inSync EXCEPT ![c] = None]
    /\ UNCHANGED <<slab, owners, walking, event, todo, called, runs, sent, got>>

(* The read lock is released at the end.                                    *)
CallReturn(c) ==
    /\ c \in walking /\ inSync[c] = None /\ todo[c] = {}
    /\ walking' = walking \ {c}
    /\ UNCHANGED <<slab, owners, event, todo, called, inSync, runs, sent, got>>

-----------------------------------------------------------------------------
(* go h.call(event), at any time later: rm may have returned by then.       *)
Begin ==
    \E r \in spawned :
        /\ spawned' = spawned \ {r}
        /\ running' = running \cup {r}
        /\ UNCHANGED <<slab, owners, calls, sent, got>>

(* handler.call: a function is run and returns; a channel takes the event   *)
(* when somebody receives from it.                                          *)
Deliver(r) ==
    /\ got' = [got EXCEPT ![r.handler] = Append(@, r.event)]
    /\ running' = running \ {r}
    /\ UNCHANGED <<slab, owners, calls, spawned, sent>>

FunctionRuns == \E r \in running : r.handler \notin Chan /\ Deliver(r)
Received == \E r \in running : r.handler \in Chan /\ Deliver(r)

(* case <-chanclose                                                         *)
SendCancelled ==
    \E r \in running :
        /\ r.handler \in Chan /\ closed[r.handler]
        /\ running' = running \ {r}
        /\ UNCHANGED <<slab, owners, calls, spawned, sent, got>>

Owner(h) == AddLocked(h) \/ RemoveLocked(h) \/ Cleanup(h)
Walk(c) == CallNext(c) \/ SyncDone(c) \/ CallReturn(c)

(* All events are sent and handled, and nobody is on his way.               *)
Stopped ==
    /\ sent = MaxEvents /\ walking = {} /\ spawned = {} /\ running = {}
    /\ \A h \in Handlers : user[h] = "gone"
    /\ UNCHANGED vars

Next ==
    \/ \E h \in Handlers : AddHandler(h) \/ Remove(h) \/ Owner(h)
    \/ \E c \in Callers : Call(c) \/ Walk(c)
    \/ Begin \/ FunctionRuns \/ Received \/ SendCancelled
    \/ Stopped

Spec == Init /\ [][Next]_vars

(* Goroutines run, functions return, and a lock is given to those who wait; *)
(* nobody has to register, to remove, to send an event, or to receive from  *)
(* a channel.                                                               *)
FairSpec ==
    /\ Spec
    /\ \A h \in Handlers : WF_vars(Owner(h))
    /\ \A c \in Callers : WF_vars(Walk(c))
    /\ WF_vars(Begin) /\ WF_vars(FunctionRuns) /\ WF_vars(SendCancelled)

-----------------------------------------------------------------------------
(* Every variable keeps its type.                                           *)
EntryType == [index: {Valid} \cup Nat, handler: Handlers \cup {None}]
RunType == [handler: Handlers, event: [n: 1..MaxEvents, type: Types]]
RegistryType ==
    /\ entries \in [Slabs -> Seq(EntryType)]
    /\ free \in [Slabs -> Nat]
    /\ freed \in [Slabs -> Seq(Nat)]
    /\ user \in [Handlers -> {"out", "adding", "in", "removing", "cleanup", "gone"}]
    /\ id \in [Handlers -> Nat]

TypeOK ==
    /\ RegistryType
    /\ popped \in [Handlers -> Handlers \cup {None}]
    /\ closed \in [Handlers -> BOOLEAN]
    /\ walking \subseteq Callers
    /\ event \in [Callers -> [n: 0..MaxEvents, type: Slabs]]
    /\ todo \in [Callers -> SUBSET (Slabs \X Nat)]
    /\ called \in [Callers -> SUBSET Handlers]
    /\ inSync \in [Callers -> Sync \cup {None}]
    /\ spawned \subseteq RunType /\ running \subseteq RunType
    /\ sent \in 0..MaxEvents /\ left \in [Handlers -> 0..MaxEvents]
    /\ got \in [Handlers -> Seq([n: 1..MaxEvents, type: Types])]

Registered(h) == user[h] \in {"in", "removing"}

(* A handler stays registered until its own rm is called: nobody else's     *)
(* registration or removal touches its entry, whatever entries are reused.  *)
NoneLost ==
    \A h \in Handlers :
        Registered(h) => /\ id[h] < Len(entries[Kind[h]])
                         /\ entries[Kind[h]][id[h] + 1] = Entry(Valid, h)

(* Why: the entries that are not valid form a list, linked from free to the *)
(* end of the slab, each entry once; and every valid entry belongs to a     *)
(* registered handler.                                                      *)
FreeListOf(seq, head, list) ==
    /\ head = IF list = <<>> THEN Len(seq) ELSE list[Len(list)]
    /\ \A k \in 1..Len(list) :
           /\ list[k] < Len(seq)
           /\ seq[list[k] + 1].index = IF k = 1 THEN Len(seq) ELSE list[k - 1]
    /\ \A j, k \in 1..Len(list) : list[j] = list[k] => j = k

Linked(s) == FreeListOf(entries[s], free[s], freed[s])

Owns(h, s, i) == h \in Handlers /\ Registered(h) /\ Kind[h] = s /\ id[h] = i

Owned(s) ==
    \A i \in 1..Len(entries[s]) :
        entries[s][i].index = Valid => Owns(entries[s][i].handler, s, i - 1)

FreeList == \A s \in Slabs : Linked(s) /\ Owned(s)

(* An event reaches every handler of its type: while a Call walks over the  *)
(* entries, each registered handler has been called or will be, and no      *)
(* other one.                                                               *)
AllCalled ==
    \A c \in walking :
        LET next == {Handled(p) : p \in todo[c]} IN
        /\ called[c] \cap next = {}
        /\ called[c] \cup next =
               {h \in Handlers : Registered(h) /\ event[c].type \in Accepts[h]}

(* Synchronous handlers see the events in the order they arrived in, each   *)
(* one once; that is what they are for.                                     *)
SyncInOrder ==
    \A h \in Sync : \A j, k \in DOMAIN got[h] : j < k => got[h][j].n < got[h][k].n

Removed(h) == user[h] \in {"cleanup", "gone"}

RunsOf(h) == {r \in spawned \cup running : r.handler = h}

(* What rm gives: a handler that has been taken out sees no event that      *)
(* arrived after that.  A synchronous one is not even in the middle of an   *)
(* event; a goroutine started for another one may still begin after rm has  *)
(* returned, with an event that arrived before.                             *)
NoLateEvent ==
    \A h \in Handlers : Removed(h) =>
        /\ h \in Sync => RunsOf(h) = {}
        /\ \A r \in RunsOf(h) : r.event.n <= left[h]
        /\ \A k \in DOMAIN got[h] : got[h][k].n <= left[h]

(* Calling rm cancels all blocking sends into the channel.                  *)
SendsCancelled == \A h \in Chan : user[h] = "removing" ~> RunsOf(h) = {}
=============================================================================
