----------------------------- MODULE StateProofs -----------------------------
(***************************************************************************)
(* Theorems about State: why a GuildJoin is only announced for a guild that *)
(* has been joined, why the stores hold what the server has, answers of the *)
(* API that arrive between the events notwithstanding, why the list of a    *)
(* channel's messages is in order and has no hole, and why the messages in  *)
(* it are as they are in the channel.                                       *)
(***************************************************************************)
EXTENDS StateItems, StateMessages, FiniteSetTheorems, WellFoundedInduction, TLAPS

-----------------------------------------------------------------------------
(* What an event in the queue tells of guild g.                             *)

(* It says that g will come (back).                                         *)
Foretells(e, g) ==
    \/ e.type = "ReadyStores" /\ g \in e.guilds
    \/ e.type = "GuildDelete" /\ e.guild = g /\ e.out

(* It makes the State forget that.                                          *)
Comes(e) == e.type \in {"GuildCreate", "GuildStores"}
Forgets(e, g) == (Comes(e) \/ e.type = "GuildDelete") /\ e.guild = g

(* Once the events before the n-th have been handled, g is expected.        *)
Expected(g) == g \in unready \cup unavailable
ExpectedAt(n, g) ==
    \/ Expected(g) /\ \A k \in 1..(n - 1) : ~Forgets(queue[k], g)
    \/ \E m \in 1..(n - 1) :
           Foretells(queue[m], g) /\ \A k \in (m + 1)..(n - 1) : ~Forgets(queue[k], g)

(* A guild that was not joined is expected when its GuildCreate arrives:    *)
(* those under way, and the next that the server will send.                 *)
Queued ==
    \A n \in 1..Len(queue) :
        Comes(queue[n]) /\ queue[n].why # "join" => ExpectedAt(n, queue[n].guild)
Pending ==
    \A g \in joined \ shown : because[g] # "join" => ExpectedAt(Len(queue) + 1, g)
Outside == \A g \in Guilds \ joined : because[g] = "join"

Formed(e) ==
    /\ "type" \in DOMAIN e
    /\ Comes(e) => {"guild", "why"} \subseteq DOMAIN e /\ e.guild \in Guilds
    /\ e.type = "ReadyStores" => "guilds" \in DOMAIN e
Forms == \A n \in 1..Len(queue) : Formed(queue[n])

IsQueue == \E S : queue \in Seq(S)
JoinInv ==
    /\ IsQueue /\ Forms
    /\ \A i \in items : i.kind \in Kinds
    /\ joined \subseteq Guilds /\ because \in [Guilds -> {"ready", "outage", "join"}]
    /\ announced \in [Guilds -> {"none", "ready", "available", "join", "unavailable", "leave"}]
    /\ Queued /\ Pending /\ Outside

-----------------------------------------------------------------------------
(* What becomes of expectations when the queue grows at its end, and when   *)
(* its head is handled.                                                     *)
Grows(e) ==
    /\ Len(queue') = Len(queue) + 1 /\ queue'[Len(queue) + 1] = e
    /\ \A k \in 1..Len(queue) : queue'[k] = queue[k]

LEMMA SendsOne ==
  ASSUME IsQueue, NEW e, queue' = queue \o <<e>>
  PROVE  IsQueue' /\ Grows(e) /\ Len(queue) \in Nat
  <1>1. PICK S : queue \in Seq(S)
    BY DEF IsQueue
  <1> DEFINE T == S \cup {e}
  <1>2. queue \in Seq(T) /\ <<e>> \in Seq(T)
    <2>1. \A k \in 1..Len(queue) : queue[k] \in T
      BY <1>1
    <2>2. queue \in Seq(T)
      BY <1>1, <2>1
    <2>3. e \in T
      OBVIOUS
    <2> QED BY <2>2, <2>3
  <1> HIDE DEF T
  <1>3. queue' \in Seq(T)
    BY <1>2
  <1>4. Len(<<e>>) = 1 /\ <<e>>[1] = e
    OBVIOUS
  <1>5. Grows(e) /\ Len(queue) \in Nat
    BY <1>2, <1>4 DEF Grows
  <1> QED BY <1>3, <1>5 DEF IsQueue

LEMMA StaysExpected ==
  ASSUME NEW e, Grows(e), Len(queue) \in Nat, UNCHANGED <<unready, unavailable>>,
         NEW g, NEW n \in 1..(Len(queue) + 1), ExpectedAt(n, g)
  PROVE  ExpectedAt(n, g)'
  <1>1. \A k \in 1..(n - 1) : queue'[k] = queue[k]
    BY DEF Grows
  <1>2. CASE Expected(g) /\ \A k \in 1..(n - 1) : ~Forgets(queue[k], g)
    BY <1>1, <1>2 DEF ExpectedAt, Expected
  <1>3. CASE \E m \in 1..(n - 1) :
                Foretells(queue[m], g) /\ \A k \in (m + 1)..(n - 1) : ~Forgets(queue[k], g)
    <2>1. PICK m \in 1..(n - 1) :
                Foretells(queue[m], g) /\ \A k \in (m + 1)..(n - 1) : ~Forgets(queue[k], g)
      BY <1>3
    <2>2. \A k \in (m + 1)..(n - 1) : k \in 1..(n - 1)
      OBVIOUS
    <2> QED BY <1>1, <2>1, <2>2 DEF ExpectedAt
  <1> QED BY <1>2, <1>3 DEF ExpectedAt

LEMMA ExpectedBehind ==
  ASSUME NEW e, Grows(e), NEW l \in Nat, l = Len(queue), UNCHANGED <<unready, unavailable>>,
         NEW g, (ExpectedAt(l + 1, g) /\ ~Forgets(e, g)) \/ Foretells(e, g)
  PROVE  ExpectedAt(l + 2, g)'
  <1>1. queue'[l + 1] = e /\ \A k \in 1..l : queue'[k] = queue[k]
    BY DEF Grows
  <1>2. (l + 1) - 1 = l /\ (l + 2) - 1 = l + 1 /\ l + 1 \in 1..(l + 1)
        /\ \A k \in 1..(l + 1) : k \in 1..l \/ k = l + 1
    OBVIOUS
  <1>3. CASE Foretells(e, g)
    <2>1. \A k \in ((l + 1) + 1)..(l + 1) : FALSE
      OBVIOUS
    <2> QED BY <1>1, <1>2, <1>3, <2>1 DEF ExpectedAt
  <1>4. CASE Expected(g) /\ (\A k \in 1..l : ~Forgets(queue[k], g)) /\ ~Forgets(e, g)
    BY <1>1, <1>2, <1>4 DEF ExpectedAt, Expected
  <1>5. ASSUME NEW m \in 1..l, Foretells(queue[m], g), ~Forgets(e, g),
               \A k \in (m + 1)..l : ~Forgets(queue[k], g)
        PROVE  ExpectedAt(l + 2, g)'
    <2>1. m \in 1..(l + 1) /\ \A k \in (m + 1)..(l + 1) : (k \in 1..l /\ k \in (m + 1)..l) \/ k = l + 1
      OBVIOUS
    <2> QED BY <1>1, <1>2, <1>5, <2>1 DEF ExpectedAt
  <1> QED BY <1>2, <1>3, <1>4, <1>5 DEF ExpectedAt

(* The head of the queue has been handled.                                  *)
Passes ==
    /\ Len(queue) \in Nat \ {0} /\ Len(queue') = Len(queue) - 1
    /\ \A k \in 1..Len(queue') : queue'[k] = queue[k + 1]

LEMMA TakesOne ==
  ASSUME IsQueue, queue # <<>>, queue' = Tail(queue)
  PROVE  IsQueue' /\ Passes /\ Head(queue) = queue[1]
  <1>1. PICK S : queue \in Seq(S)
    BY DEF IsQueue
  <1>2. queue' \in Seq(S) /\ Passes /\ Head(queue) = queue[1]
    BY <1>1 DEF Passes
  <1> QED BY <1>2 DEF IsQueue

LEMMA ExpectedOn ==
  ASSUME Passes, NEW g,
         Foretells(queue[1], g) => Expected(g)',
         Expected(g) /\ ~Forgets(queue[1], g) => Expected(g)',
         NEW n \in 1..(Len(queue) + 1), n # 1, ExpectedAt(n, g)
  PROVE  ExpectedAt(n - 1, g)'
  <1>1. /\ n - 1 \in 1..Len(queue) /\ 1 \in 1..(n - 1) /\ (n - 1) - 1 \in Int
        /\ \A k \in 1..((n - 1) - 1) : k + 1 \in 2..(n - 1) /\ queue'[k] = queue[k + 1]
    BY DEF Passes
  <1>2. ASSUME Expected(g)', \A k \in 2..(n - 1) : ~Forgets(queue[k], g)
        PROVE  ExpectedAt(n - 1, g)'
    BY <1>1, <1>2 DEF ExpectedAt
  <1>3. \A k \in 2..(n - 1) : k \in 1..(n - 1)
    BY DEF Passes
  <1>4. CASE Expected(g) /\ \A k \in 1..(n - 1) : ~Forgets(queue[k], g)
    BY <1>1, <1>2, <1>3, <1>4
  <1>5. ASSUME NEW m \in 1..(n - 1), Foretells(queue[m], g),
               \A k \in (m + 1)..(n - 1) : ~Forgets(queue[k], g)
        PROVE  ExpectedAt(n - 1, g)'
    <2>1. CASE m = 1
      BY <1>2, <1>5, <2>1
    <2>2. CASE m # 1
      <3>1. m - 1 \in 1..((n - 1) - 1) /\ (m - 1) + 1 = m
        BY <2>2 DEF Passes
      <3>2. queue'[m - 1] = queue[m]
        BY <1>1, <3>1
      <3>3. ASSUME NEW k \in ((m - 1) + 1)..((n - 1) - 1)
            PROVE  ~Forgets(queue'[k], g)
        <4>1. k \in 1..((n - 1) - 1) /\ k + 1 \in (m + 1)..(n - 1)
          BY <3>1 DEF Passes
        <4> QED BY <1>1, <1>5, <4>1
      <3> QED BY <1>5, <3>1, <3>2, <3>3 DEF ExpectedAt
    <2> QED BY <2>1, <2>2
  <1> QED BY <1>4, <1>5 DEF ExpectedAt

-----------------------------------------------------------------------------
(* The steps of the server.                                                 *)

LEMMA QueuedGrows ==
  ASSUME Queued, NEW e, Grows(e), Len(queue) \in Nat, UNCHANGED <<unready, unavailable>>,
         Comes(e) /\ e.why # "join" => ExpectedAt(Len(queue) + 1, e.guild)
  PROVE  Queued'
  <1>1. SUFFICES ASSUME NEW n \in 1..(Len(queue) + 1), NEW h, h = queue'[n].guild,
                        Comes(queue'[n]), queue'[n].why # "join"
                 PROVE  ExpectedAt(n, h)'
    BY DEF Queued, Grows
  <1>2. ExpectedAt(n, h)
    <2>1. CASE n \in 1..Len(queue)
      <3>1. queue'[n] = queue[n]
        BY <2>1 DEF Grows
      <3> QED BY <1>1, <2>1, <3>1 DEF Queued
    <2>2. CASE n = Len(queue) + 1
      <3>1. queue'[n] = e
        BY <2>2 DEF Grows
      <3> QED BY <1>1, <2>2, <3>1
    <2> QED BY <2>1, <2>2
  <1> QED BY <1>2, StaysExpected

LEMMA FormsGrow ==
  ASSUME Forms, NEW e, Grows(e), Len(queue) \in Nat, Formed(e)
  PROVE  Forms'
  <1>1. \A n \in 1..Len(queue') : n \in 1..Len(queue) \/ n = Len(queue) + 1
    BY DEF Grows
  <1> QED BY <1>1 DEF Forms, Grows

LEMMA PendingGrows ==
  ASSUME NEW e, Grows(e), Len(queue) \in Nat, UNCHANGED <<unready, unavailable>>,
         NEW g, (ExpectedAt(Len(queue) + 1, g) /\ ~Forgets(e, g)) \/ Foretells(e, g)
  PROVE  ExpectedAt(Len(queue) + 1, g)'
  <1>1. PICK l \in Nat : l = Len(queue)
    OBVIOUS
  <1>2. ExpectedAt(l + 2, g)'
    BY <1>1, ExpectedBehind
  <1>3. Len(queue') + 1 = l + 2
    BY <1>1 DEF Grows
  <1> QED BY <1>2, <1>3

(* An event about an item is none of those that the handlers look at.       *)
Loud == {"ReadyStores", "GuildCreate", "GuildStores", "GuildDelete"}
Quiet(e) == "type" \in DOMAIN e /\ e.type \notin Loud

LEMMA ItemsAreQuiet ==
  ASSUME NEW i, i.kind \in Kinds, NEW v
  PROVE  /\ Quiet(Event(CreateEvent(i), i, v)) /\ Quiet(Event(DeleteEvent(i), i, v))
         /\ \A t \in UpdateEvents(i) : Quiet(Event(t, i, v))
  <1>1. CreateEvent(i) \notin Loud
    BY DEF Kinds, CreateEvent, Loud
  <1>2. DeleteEvent(i) \notin Loud
    BY DEF Kinds, DeleteEvent, Loud
  <1>3. \A t \in UpdateEvents(i) : t \notin Loud
    BY DEF Kinds, UpdateEvents, Loud
  <1>4. \A t : Event(t, i, v).type = t /\ "type" \in DOMAIN Event(t, i, v)
    BY DEF Event
  <1> QED BY <1>1, <1>2, <1>3, <1>4 DEF Quiet

LEMMA QuietStep ==
  ASSUME JoinInv, UNCHANGED <<unready, unavailable, items, joined, shown, because, announced>>,
         UNCHANGED queue \/ \E e : Quiet(e) /\ queue' = queue \o <<e>>
  PROVE  JoinInv'
  <1>1. CASE UNCHANGED queue
    BY <1>1 DEF JoinInv, IsQueue, Forms, Queued, Pending, Outside, ExpectedAt, Expected
  <1>2. ASSUME NEW e, Quiet(e), queue' = queue \o <<e>>
        PROVE  JoinInv'
    <2>1. IsQueue' /\ Grows(e) /\ Len(queue) \in Nat
      BY <1>2, SendsOne DEF JoinInv
    <2>2. ~Comes(e) /\ Formed(e) /\ \A g : ~Forgets(e, g)
      BY <1>2 DEF Quiet, Loud, Comes, Forgets, Formed
    <2>3. Queued' /\ Forms'
      BY <2>1, <2>2, QueuedGrows, FormsGrow DEF JoinInv
    <2>4. Pending'
      BY <2>1, <2>2, PendingGrows DEF JoinInv, Pending
    <2> QED BY <2>1, <2>3, <2>4 DEF JoinInv, Outside
  <1> QED BY <1>1, <1>2

LEMMA JoinItem ==
  ASSUME JoinInv, NEW i \in items, Create(i) \/ Update(i) \/ Delete(i) \/ Mention(i)
  PROVE  JoinInv'
  <1>1. i.kind \in Kinds
    BY DEF JoinInv
  <1>2. CASE Create(i)
    <2>1. UNCHANGED queue \/ queue' = queue \o <<Event(CreateEvent(i), i, ver'[i])>>
      BY <1>2 DEF Create, Emit
    <2> QED BY <1>1, <1>2, <2>1, ItemsAreQuiet, QuietStep DEF Create
  <1>3. CASE Update(i)
    <2>1. UNCHANGED queue \/ \E t \in UpdateEvents(i) : queue' = queue \o <<Event(t, i, ver'[i])>>
      BY <1>3 DEF Update, Emit
    <2> QED BY <1>1, <1>3, <2>1, ItemsAreQuiet, QuietStep DEF Update
  <1>4. CASE Delete(i)
    <2>1. UNCHANGED queue \/ queue' = queue \o <<Event(DeleteEvent(i), i, 0)>>
      BY <1>4 DEF Delete, Emit
    <2> QED BY <1>1, <1>4, <2>1, ItemsAreQuiet, QuietStep DEF Delete
  <1>5. CASE Mention(i)
    <2>1. PICK e : /\ queue' = queue \o <<e>>
                   /\ \/ e = Event("GuildMembersChunk", i, ver[i])
                      \/ \E t \in {"MessageCreate", "MessageUpdate"} : e = [type |-> t, guild |-> i.guild]
      BY <1>5 DEF Mention, Emit
    <2>2. Quiet(e)
      BY <2>1 DEF Quiet, Loud, Event
    <2> QED BY <1>5, <2>1, <2>2, QuietStep DEF Mention, server
  <1> QED BY <1>2, <1>3, <1>4, <1>5

LEMMA JoinShow ==
  ASSUME JoinInv, NEW g \in Guilds, ShowGuild(g)
  PROVE  JoinInv'
  <1>1. PICK e : /\ e.type = "GuildCreate" /\ e.guild = g /\ e.why = because[g]
                 /\ {"type", "guild", "why"} \subseteq DOMAIN e
                 /\ queue' = queue \o <<e>>
    BY DEF ShowGuild, Emit
  <1>2. IsQueue' /\ Grows(e) /\ Len(queue) \in Nat
    BY <1>1, SendsOne DEF JoinInv
  <1>3. UNCHANGED <<unready, unavailable, items, joined, because, announced>> /\ shown' = shown \cup {g}
        /\ g \in joined \ shown
    BY DEF ShowGuild
  <1>4. Queued' /\ Forms'
    <2>1. Formed(e)
      BY <1>1 DEF Formed
    <2> QED BY <1>1, <1>2, <1>3, <2>1, QueuedGrows, FormsGrow DEF JoinInv, Pending
  <1>5. Pending'
    <2>1. ASSUME NEW h \in joined \ shown, h # g, because[h] # "join"
          PROVE  ExpectedAt(Len(queue) + 1, h)'
      <3>1. ~Forgets(e, h)
        BY <1>1, <2>1 DEF Forgets, Comes
      <3> QED BY <1>2, <1>3, <2>1, <3>1, PendingGrows DEF JoinInv, Pending
    <2> QED BY <1>3, <2>1 DEF Pending
  <1> QED BY <1>2, <1>3, <1>4, <1>5 DEF JoinInv, Outside

LEMMA JoinHide ==
  ASSUME JoinInv, NEW g \in Guilds, NEW out \in BOOLEAN, HideGuild(g, out)
  PROVE  JoinInv'
  <1>1. PICK e : /\ e.type = "GuildDelete" /\ e.guild = g /\ e.out = out /\ "type" \in DOMAIN e
                 /\ queue' = queue \o <<e>>
    BY DEF HideGuild, Emit
  <1>2. IsQueue' /\ Grows(e) /\ Len(queue) \in Nat
    BY <1>1, SendsOne DEF JoinInv
  <1>3. /\ UNCHANGED <<unready, unavailable, items, announced>> /\ shown' = shown \ {g}
        /\ joined' = IF out THEN joined ELSE joined \ {g}
        /\ because' = [because EXCEPT ![g] = IF out THEN "outage" ELSE "join"]
        /\ g \in joined
    BY DEF HideGuild
  <1>4. Queued' /\ Forms'
    <2>1. Formed(e) /\ ~Comes(e)
      BY <1>1 DEF Formed, Comes
    <2> QED BY <1>1, <1>2, <1>3, <2>1, QueuedGrows, FormsGrow DEF JoinInv
  <1>5. /\ because' \in [Guilds -> {"ready", "outage", "join"}] /\ joined' \subseteq joined
        /\ because'[g] = (IF out THEN "outage" ELSE "join")
        /\ \A h \in Guilds : h # g => because'[h] = because[h]
    BY <1>3 DEF JoinInv
  <1>6. Pending'
    <2>1. ASSUME NEW h \in joined' \ shown', because'[h] # "join"
          PROVE  ExpectedAt(Len(queue) + 1, h)'
      <3>1. CASE h # g
        <4>1. ~Forgets(e, h)
          BY <1>1, <3>1 DEF Forgets, Comes
        <4>2. h \in joined \ shown /\ because[h] # "join"
          BY <1>3, <1>5, <2>1, <3>1 DEF JoinInv
        <4> QED BY <1>2, <1>3, <4>1, <4>2, PendingGrows DEF JoinInv, Pending
      <3>2. CASE h = g
        <4>1. Foretells(e, h)
          BY <1>1, <1>3, <1>5, <2>1, <3>2 DEF Foretells
        <4> QED BY <1>2, <1>3, <4>1, PendingGrows
      <3> QED BY <3>1, <3>2
    <2> QED BY <2>1 DEF Pending
  <1>7. Outside'
    BY <1>3, <1>5 DEF JoinInv, Outside
  <1> QED BY <1>2, <1>3, <1>4, <1>5, <1>6, <1>7 DEF JoinInv

LEMMA JoinJoins ==
  ASSUME JoinInv, NEW g \in Guilds, JoinGuild(g)
  PROVE  JoinInv'
  <1>1. UNCHANGED <<unready, unavailable, items, shown, because, queue, announced>>
        /\ joined' = joined \cup {g} /\ because[g] = "join"
    BY DEF JoinGuild, JoinInv, Outside
  <1>2. Queued' /\ Pending'
    BY <1>1 DEF JoinInv, Queued, Pending, ExpectedAt, Expected
  <1> QED BY <1>1, <1>2 DEF JoinInv, IsQueue, Forms, Outside

(* READY foretells every guild there is; it may be behind what was begun.   *)
Greets(q, a) ==
    /\ \E S : q \in Seq(S)
    /\ Len(q) \in 2..3 /\ q[1] = [type |-> "Ready"] /\ q[2] = a
    /\ a.type = "ReadyStores" /\ a.guilds = joined /\ "type" \in DOMAIN a /\ "guilds" \in DOMAIN a
    /\ \A k \in 3..Len(q) : q[k].type = "ReadySupplemental" /\ "type" \in DOMAIN q[k]

LEMMA GreetingGreets == \E a : Greets(Greeting, a)
  <1> DEFINE own == {i \in items : i.kind = "me" \/ (account = "user" /\ i.guild = NoGuild)}
             data == Snapshot(GuildItems(Full) \cup own)
             late == {d \in data : d.item.kind \in Late}
             r == [type |-> "Ready"]
             x == [type |-> "ReadyStores", guilds |-> joined, data |-> data \ late]
             y == [type |-> "ReadySupplemental", data |-> late]
  <1>1. Greeting = <<r, x>> \o (IF account = "user" THEN <<y>> ELSE <<>>)
    BY Zenon DEF Greeting
  <1>2. /\ x.type = "ReadyStores" /\ x.guilds = joined /\ "type" \in DOMAIN x /\ "guilds" \in DOMAIN x
        /\ y.type = "ReadySupplemental" /\ "type" \in DOMAIN y
    OBVIOUS
  <1> HIDE DEF r, x, y
  <1>3. CASE account = "user"
    <2>1. Greeting = <<r, x>> \o <<y>>
      BY <1>1, <1>3
    <2>2. /\ Greeting \in Seq({r, x, y}) /\ Len(Greeting) = 3
          /\ Greeting[1] = r /\ Greeting[2] = x /\ Greeting[3] = y
      BY <2>1
    <2> QED BY <1>2, <2>2 DEF Greets, r
  <1>4. CASE account # "user"
    <2>1. Greeting = <<r, x>> \o <<>>
      BY <1>1, <1>4
    <2>2. Greeting \in Seq({r, x}) /\ Len(Greeting) = 2 /\ Greeting[1] = r /\ Greeting[2] = x
      BY <2>1
    <2> QED BY <1>2, <2>2 DEF Greets, r
  <1> QED BY <1>3, <1>4

(* q is all there is after the first b of the queue.                        *)
Ends(q, b) ==
    /\ b \in 0..1 /\ Len(queue) = b + Len(q) /\ IsQueue
    /\ \A k \in 1..Len(q) : queue[b + k] = q[k]

Opens == \E q, a, b : Greets(q, a) /\ Ends(q, b)
Opened ==
    /\ \A n \in 1..Len(queue) : n = 1 \/ (~Comes(queue[n]) /\ Formed(queue[n]))
    /\ \A g \in joined : ExpectedAt(Len(queue) + 1, g)

LEMMA OpenExpects == Opens => Opened
  <1> SUFFICES ASSUME NEW q, NEW a, Greets(q, a), NEW b, Ends(q, b)
               PROVE  Opened
    BY DEF Opens
  <1>1. PICK l \in 2..3 : l = Len(q) /\ Len(queue) = b + l /\ b \in 0..1
    BY DEF Greets, Ends
  <1>2. \A n \in 1..(b + l) : \/ b = 1 /\ n = 1
                              \/ n = b + 1 /\ queue[n] = [type |-> "Ready"]
                              \/ n = b + 2 /\ queue[n] = a
                              \/ n \in (b + 3)..(b + l) /\ queue[n].type = "ReadySupplemental" /\ "type" \in DOMAIN queue[n]
    <2> SUFFICES ASSUME NEW n \in 1..(b + l), ~(b = 1 /\ n = 1)
                 PROVE  \/ n = b + 1 /\ queue[n] = [type |-> "Ready"]
                        \/ n = b + 2 /\ queue[n] = a
                        \/ n \in (b + 3)..(b + l) /\ queue[n].type = "ReadySupplemental" /\ "type" \in DOMAIN queue[n]
      OBVIOUS
    <2>1. n - b \in 1..l /\ b + (n - b) = n /\ (n - b = 1 \/ n - b = 2 \/ n - b \in 3..l)
      BY <1>1
    <2>2. queue[n] = q[n - b]
      BY <1>1, <2>1 DEF Ends
    <2>3. /\ n - b = 1 => n = b + 1
          /\ n - b = 2 => n = b + 2
          /\ n - b \in 3..l => n \in (b + 3)..(b + l)
      BY <1>1
    <2> QED BY <1>1, <2>1, <2>2, <2>3 DEF Greets
  <1>3. \A n \in 1..(b + l) : (b = 1 /\ n = 1) \/ (~Comes(queue[n]) /\ Formed(queue[n]))
    BY <1>2 DEF Comes, Formed, Greets
  <1>4. ASSUME NEW g \in joined
        PROVE  ExpectedAt(Len(queue) + 1, g)
    <2>1. b + 2 \in 1..(b + l) /\ (b + l + 1) - 1 = b + l /\ ~(b + 2 = 1)
          /\ ~(b + 2 = b + 1) /\ b + 2 \notin (b + 3)..(b + l)
      BY <1>1
    <2>2. queue[b + 2] = a
      BY <1>2, <2>1
    <2>3. Foretells(queue[b + 2], g)
      BY <2>2 DEF Foretells, Greets
    <2>4. \A k \in ((b + 2) + 1)..(b + l) : k \in 1..(b + l) /\ k # 1 /\ k # b + 1 /\ k # b + 2
      BY <1>1
    <2>5. \A k \in ((b + 2) + 1)..(b + l) : ~Forgets(queue[k], g)
      BY <1>2, <2>4 DEF Forgets, Comes
    <2> QED BY <1>1, <2>1, <2>3, <2>5 DEF ExpectedAt
  <1> QED BY <1>1, <1>3, <1>4 DEF Opened

LEMMA OpenExpectsNext == Opens' => Opened'
  BY OpenExpects, PTL

(* A new session leaves the head of the queue, if the handler has begun it. *)
LEMMA Reopens ==
  ASSUME IsQueue, Identify, NEW q, q = Greeting, NEW T, q \in Seq(T)
  PROVE  \E b \in 0..1 : Ends(q, b)' /\ (b = 1 => 1 \in 1..Len(queue) /\ queue'[1] = queue[1])
  <1>1. PICK S : queue \in Seq(S)
    BY DEF IsQueue
  <1>2. queue' = (IF queue # <<>> /\ Head(queue).type \in Begun THEN <<Head(queue)>> ELSE <<>>) \o q
    BY DEF Identify
  <1>3. CASE queue # <<>> /\ Head(queue).type \in Begun
    <2>1. PICK e : e = Head(queue) /\ e = queue[1] /\ e \in S /\ 1 \in 1..Len(queue)
      BY <1>1, <1>3
    <2>2. queue' = <<e>> \o q
      BY <1>3, <1>2, <2>1
    <2>3. <<e>> \in Seq(S \cup T) /\ q \in Seq(S \cup T) /\ Len(<<e>>) = 1 /\ <<e>>[1] = e
      <3>1. e \in S \cup T /\ \A k \in 1..Len(q) : q[k] \in S \cup T
        BY <2>1
      <3> QED BY <3>1
    <2>4. queue' \in Seq(S \cup T) /\ Len(queue') = 1 + Len(q) /\ queue'[1] = e
          /\ \A k \in 1..Len(q) : queue'[1 + k] = q[k]
      BY <2>2, <2>3
    <2>5. Ends(q, 1)'
      BY <2>4 DEF IsQueue, Ends
    <2> QED BY <2>1, <2>4, <2>5
  <1>4. CASE ~(queue # <<>> /\ Head(queue).type \in Begun)
    <2>1. queue' = <<>> \o q
      BY <1>4, <1>2
    <2>2. queue' \in Seq(T) /\ Len(queue') = 0 + Len(q) /\ \A k \in 1..Len(q) : queue'[0 + k] = q[k]
      BY <2>1
    <2>3. Ends(q, 0)'
      BY <2>2 DEF IsQueue, Ends
    <2> QED BY <2>3
  <1> QED BY <1>3, <1>4

LEMMA JoinIdentify ==
  ASSUME JoinInv, Identify
  PROVE  JoinInv'
  <1>1. /\ UNCHANGED <<items, joined, announced, unready, unavailable>>
        /\ queue' = (IF queue # <<>> /\ Head(queue).type \in Begun THEN <<Head(queue)>> ELSE <<>>) \o Greeting
        /\ because' = [g \in Guilds |-> IF g \in joined THEN "ready" ELSE because[g]]
    BY DEF Identify
  <1>2. PICK q, a : q = Greeting /\ Greets(q, a)
    BY GreetingGreets
  <1>3. PICK S, T : queue \in Seq(S) /\ q \in Seq(T) /\ Len(q) \in 2..3
    BY <1>2 DEF JoinInv, IsQueue, Greets
  <1>4. Greets(q, a)'
    BY <1>1, <1>2 DEF Greets
  <1>5. PICK b \in 0..1 : Ends(q, b)' /\ (b = 1 => 1 \in 1..Len(queue) /\ queue'[1] = queue[1])
    BY <1>1, <1>2, <1>3, Reopens DEF JoinInv
  <1>6. Formed(queue'[1]) /\ (Comes(queue'[1]) /\ queue'[1].why # "join" => ExpectedAt(1, queue'[1].guild))
    <2>1. CASE b = 1
      <3>1. PICK e : e = queue[1] /\ e = queue'[1]
        BY <1>5, <2>1
      <3>2. Formed(e) /\ (Comes(e) /\ e.why # "join" => ExpectedAt(1, e.guild))
        BY <1>5, <2>1, <3>1 DEF JoinInv, Forms, Queued
      <3> QED BY <3>1, <3>2
    <2>2. CASE b = 0
      <3>1. queue'[1] = q[1]
        <4>1. \A n \in 2..3 : 1 \in 1..n /\ 0 + 1 = 1
          OBVIOUS
        <4> QED BY <1>3, <1>5, <2>2, <4>1 DEF Ends
      <3>2. Formed(q[1]) /\ ~Comes(q[1])
        BY <1>2 DEF Greets, Formed, Comes
      <3> QED BY <3>1, <3>2
    <2> QED BY <2>1, <2>2
  <1>7. Opened' /\ IsQueue' /\ Len(queue') \in Nat
    <2>1. Opens'
      BY <1>4, <1>5 DEF Opens
    <2> QED BY <1>3, <1>5, <2>1, OpenExpectsNext DEF Ends
  <1>8. Forms'
    BY <1>6, <1>7 DEF Forms, Opened
  <1>9. Queued'
    <2>1. \A g : ExpectedAt(1, g) => ExpectedAt(1, g)'
      <3>1. 1..(1 - 1) = {}
        OBVIOUS
      <3> QED BY <1>1, <3>1, Zenon DEF ExpectedAt, Expected
    <2> QED BY <1>6, <1>7, <2>1 DEF Queued, Opened
  <1>10. Pending'
    BY <1>1, <1>7 DEF Pending, Opened
  <1>11. Outside' /\ because' \in [Guilds -> {"ready", "outage", "join"}]
    BY <1>1 DEF JoinInv, Outside
  <1> QED BY <1>1, <1>7, <1>8, <1>9, <1>10, <1>11 DEF JoinInv

LEMMA JoinInit == Init => JoinInv
  <1> SUFFICES ASSUME Init
               PROVE  JoinInv
    OBVIOUS
  <1>1. PICK a : Greets(Greeting, a)
    BY GreetingGreets
  <1>2. queue = Greeting /\ IsQueue
    BY <1>1 DEF Init, Greets, IsQueue
  <1>3. Opened
    <2>1. Ends(Greeting, 0)
      BY <1>1, <1>2 DEF Ends, Greets
    <2> QED BY <1>1, <2>1, OpenExpects DEF Opens
  <1>4. ~Comes(queue[1]) /\ Formed(queue[1])
    BY <1>1, <1>2 DEF Greets, Comes, Formed
  <1>5. Forms /\ Queued /\ Pending
    BY <1>3, <1>4 DEF Opened, Forms, Queued, Pending
  <1>6. \A i \in items : i.kind \in Kinds
    <2>1. \A k \in Kinds : \A i \in ItemsOf(k) : i.kind = k
      BY DEF Kinds, ItemsOf, Item
    <2> QED BY <2>1, TopicsAssumption DEF Init
  <1> QED BY <1>2, <1>5, <1>6 DEF Init, JoinInv, Outside

-----------------------------------------------------------------------------
(* The handler.                                                             *)

(* What the handlers of the derived events do to the two sets.              *)
LEMMA HandlersExpect ==
  ASSUME NEW e, handles(e), NEW g
  PROVE  /\ Foretells(e, g) => Expected(g)'
         /\ Expected(g) /\ ~Forgets(e, g) => Expected(g)'
  <1>1. CASE e.type = "ReadyStores"
    <2>1. handleReady(e)
      BY <1>1 DEF handles
    <2> QED BY <1>1, <2>1 DEF handleReady, Foretells, Forgets, Expected
  <1>2. CASE Comes(e)
    <2>1. handleGuildCreate(e)
      BY <1>2 DEF handles, Comes
    <2> QED BY <1>2, <2>1 DEF handleGuildCreate, Foretells, Forgets, Expected, Comes
  <1>3. CASE e.type = "GuildDelete"
    <2>1. handleGuildDelete(e)
      BY <1>3 DEF handles
    <2> QED BY <1>3, <2>1 DEF handleGuildDelete, Foretells, Forgets, Expected
  <1>4. CASE e.type \notin Loud
    <2>1. UNCHANGED <<unready, unavailable>>
      BY <1>4 DEF handles, Loud
    <2> QED BY <1>4, <2>1 DEF Foretells, Expected, Loud
  <1> QED BY <1>1, <1>2, <1>3, <1>4 DEF Loud, Comes

(* Something is left to do of the head of the queue.                        *)
LEMMA HeadStays ==
  ASSUME IsQueue, queue # <<>>, NEW f, queue' = <<f>> \o Tail(queue)
  PROVE  /\ IsQueue' /\ Len(queue) \in Nat /\ Len(queue') = Len(queue) /\ 1 \in 1..Len(queue)
         /\ Head(queue) = queue[1] /\ queue'[1] = f
         /\ \A k \in 1..Len(queue) : k = 1 \/ queue'[k] = queue[k]
  <1>1. PICK S : queue \in Seq(S)
    BY DEF IsQueue
  <1>2. PICK T : T = S \cup {f} /\ <<f>> \in Seq(T) /\ Tail(queue) \in Seq(T)
    <2>1. Tail(queue) \in Seq(S)
      BY <1>1
    <2>2. \A k \in 1..Len(Tail(queue)) : Tail(queue)[k] \in S \cup {f}
      BY <2>1
    <2>3. PICK q, T : T = S \cup {f} /\ q = Tail(queue)
      OBVIOUS
    <2>4. q \in Seq(T) /\ f \in T
      BY <2>1, <2>2, <2>3
    <2> QED BY <2>3, <2>4
  <1>3. queue' \in Seq(T) /\ Len(queue') = Len(queue) /\ queue'[1] = f /\ 1 \in 1..Len(queue)
        /\ \A k \in 1..Len(queue) : k = 1 \/ queue'[k] = queue[k]
    <2>1. /\ Len(<<f>>) = 1 /\ <<f>>[1] = f /\ Len(queue) \in Nat \ {0} /\ Len(Tail(queue)) = Len(queue) - 1
          /\ \A k \in 2..Len(queue) : k - 1 \in 1..Len(Tail(queue)) /\ Tail(queue)[k - 1] = queue[k]
      BY <1>1
    <2>2. queue' \in Seq(T) /\ Len(queue') = 1 + Len(Tail(queue)) /\ queue'[1] = f
          /\ \A k \in 1..Len(Tail(queue)) : queue'[1 + k] = Tail(queue)[k]
      BY <1>2, <2>1
    <2>3. \A k \in 1..Len(queue) : k = 1 \/ (k \in 2..Len(queue) /\ 1 + (k - 1) = k)
      BY <2>1
    <2> QED BY <2>1, <2>2, <2>3
  <1> QED BY <1>1, <1>3 DEF IsQueue

LEMMA JoinGoesOn ==
  ASSUME JoinInv, NEW e, Taking(e), NEW f, queue' = <<f>> \o Tail(queue), Formed(f),
         \A g : (Foretells(f, g) <=> Foretells(e, g)) /\ (Forgets(f, g) <=> Forgets(e, g)),
         Comes(f) => Comes(e) /\ f.why = e.why /\ f.guild = e.guild,
         UNCHANGED <<unready, unavailable, items, joined, shown, because, announced>>
  PROVE  JoinInv'
  <1>1. e = queue[1] /\ Len(queue) \in Nat
    BY HeadStays DEF JoinInv, Taking
  <1>3. IsQueue' /\ Len(queue') = Len(queue) /\ queue'[1] = f /\ 1 \in 1..Len(queue)
        /\ \A k \in 1..Len(queue) : k = 1 \/ queue'[k] = queue[k]
    BY HeadStays DEF JoinInv, Taking
  <1>4. \A g, n : n \in 1..(Len(queue) + 1) /\ ExpectedAt(n, g) => ExpectedAt(n, g)'
    <2> SUFFICES ASSUME NEW g, NEW n \in 1..(Len(queue) + 1), ExpectedAt(n, g)
                 PROVE  ExpectedAt(n, g)'
      OBVIOUS
    <2>1. ASSUME NEW k \in 1..(n - 1)
          PROVE  /\ Forgets(queue'[k], g) <=> Forgets(queue[k], g)
                 /\ Foretells(queue'[k], g) <=> Foretells(queue[k], g)
      <3>1. k \in 1..Len(queue)
        BY <1>1
      <3>2. CASE k = 1
        <4>1. queue'[k] = f /\ queue[k] = e
          BY <1>1, <1>3, <3>2
        <4> QED BY <4>1
      <3>3. CASE k # 1
        <4>1. queue'[k] = queue[k]
          BY <1>3, <3>1, <3>3
        <4> QED BY <4>1
      <3> QED BY <3>2, <3>3
    <2>2. \A m \in 1..(n - 1) : \A k \in (m + 1)..(n - 1) : k \in 1..(n - 1)
      OBVIOUS
    <2>3. CASE Expected(g) /\ \A k \in 1..(n - 1) : ~Forgets(queue[k], g)
      BY <2>1, <2>3 DEF ExpectedAt, Expected
    <2>4. ASSUME NEW m \in 1..(n - 1), Foretells(queue[m], g), \A k \in (m + 1)..(n - 1) : ~Forgets(queue[k], g)
          PROVE  ExpectedAt(n, g)'
      <3>1. Foretells(queue'[m], g) /\ \A k \in (m + 1)..(n - 1) : ~Forgets(queue'[k], g)
        BY <2>1, <2>2, <2>4
      <3> QED BY <3>1 DEF ExpectedAt
    <2> QED BY <2>3, <2>4 DEF ExpectedAt
  <1>5. Forms'
    BY <1>3 DEF JoinInv, Forms
  <1>6. Queued'
    <2>1. ASSUME NEW n \in 1..Len(queue), NEW g, g = queue'[n].guild, Comes(queue'[n]), queue'[n].why # "join"
          PROVE  ExpectedAt(n, g)'
      <3>1. Comes(queue[n]) /\ queue[n].why # "join" /\ g = queue[n].guild
        <4>1. CASE n = 1
          BY <1>1, <1>3, <2>1, <4>1
        <4>2. CASE n # 1
          BY <1>3, <2>1, <4>2
        <4> QED BY <4>1, <4>2
      <3>2. ExpectedAt(n, g) /\ n \in 1..(Len(queue) + 1)
        BY <1>1, <3>1 DEF JoinInv, Queued
      <3> QED BY <1>4, <3>2
    <2> QED BY <1>3, <2>1 DEF Queued
  <1>7. Pending'
    <2>1. Len(queue) + 1 \in 1..(Len(queue) + 1)
      BY <1>1
    <2> QED BY <1>3, <1>4, <2>1 DEF JoinInv, Pending
  <1> QED BY <1>3, <1>5, <1>6, <1>7 DEF JoinInv, IsQueue, Outside

LEMMA JoinStores ==
  ASSUME JoinInv, NEW e, stores(e)
  PROVE  JoinInv'
  <1>1. PICK d : queue' = <<[e EXCEPT !.type = Storing(@), !.data = @ \ {d}]>> \o Tail(queue)
    BY DEF stores
  <1>2. PICK f : f = [e EXCEPT !.type = Storing(@), !.data = @ \ {d}]
    OBVIOUS
  <1>3. Formed(e)
    <2>1. queue # <<>> /\ e = queue[1] /\ 1 \in 1..Len(queue)
      BY DEF stores, Taking, JoinInv, IsQueue
    <2> QED BY <2>1 DEF JoinInv, Forms
  <1>4. DOMAIN f = DOMAIN e /\ f.type = Storing(e.type) /\ \A x \in DOMAIN e : x \notin {"type", "data"} => f[x] = e[x]
    BY <1>2, <1>3 DEF Formed
  <1>5. /\ Comes(f) <=> Comes(e)
        /\ f.type = "ReadyStores" <=> e.type = "ReadyStores"
        /\ f.type # "GuildDelete" /\ e.type # "GuildDelete"
    BY <1>4 DEF Storing, Comes, stores, Bringing
  <1>6. /\ Formed(f)
        /\ Comes(f) => f.why = e.why /\ f.guild = e.guild
        /\ f.type = "ReadyStores" => f.guilds = e.guilds
    BY <1>3, <1>4, <1>5 DEF Formed
  <1>7. \A g : (Foretells(f, g) <=> Foretells(e, g)) /\ (Forgets(f, g) <=> Forgets(e, g))
    BY <1>5, <1>6 DEF Foretells, Forgets
  <1> QED BY <1>1, <1>2, <1>5, <1>6, <1>7, JoinGoesOn DEF stores, server

LEMMA JoinReads ==
  ASSUME JoinInv, NEW e, readsMember(e)
  PROVE  JoinInv'
  <1>1. PICK t \in {"MemberFound", "MemberMissing"} : queue' = <<[e EXCEPT !.type = t]>> \o Tail(queue)
    BY DEF readsMember
  <1>2. PICK f : f = [e EXCEPT !.type = t]
    OBVIOUS
  <1>3. Formed(e)
    <2>1. queue # <<>> /\ e = queue[1] /\ 1 \in 1..Len(queue)
      BY DEF readsMember, Taking, JoinInv, IsQueue
    <2> QED BY <2>1 DEF JoinInv, Forms
  <1>4. DOMAIN f = DOMAIN e /\ f.type = t /\ e.type = "GuildMemberUpdate"
    BY <1>2, <1>3 DEF Formed, readsMember
  <1>5. ~Comes(f) /\ Formed(f) /\ \A g : ~Foretells(f, g) /\ ~Forgets(f, g) /\ ~Foretells(e, g) /\ ~Forgets(e, g)
    BY <1>3, <1>4 DEF Comes, Formed, Foretells, Forgets
  <1> QED BY <1>1, <1>2, <1>5, JoinGoesOn DEF readsMember, server

LEMMA JoinHandles ==
  ASSUME JoinInv, NEW e, handles(e)
  PROVE  JoinInv'
  <1>1. queue # <<>> /\ e = Head(queue) /\ queue' = Tail(queue) /\ UNCHANGED <<items, joined, shown, because>>
    BY DEF handles, Taking, server
  <1>2. IsQueue' /\ Passes /\ Head(queue) = queue[1]
    BY <1>1, TakesOne DEF JoinInv
  <1>3. \A g, n : n \in 1..(Len(queue) + 1) /\ n # 1 /\ ExpectedAt(n, g) => ExpectedAt(n - 1, g)'
    BY <1>1, <1>2, HandlersExpect, ExpectedOn
  <1>4. \A n \in 1..Len(queue') : /\ n + 1 \in 1..Len(queue) /\ n + 1 \in 1..(Len(queue) + 1) /\ n + 1 # 1
                                   /\ (n + 1) - 1 = n /\ queue'[n] = queue[n + 1]
    BY <1>2 DEF Passes
  <1>5. Queued' /\ Forms'
    <2>1. Forms'
      BY <1>4 DEF JoinInv, Forms
    <2>2. ASSUME NEW n \in 1..Len(queue'), NEW g, g = queue'[n].guild, Comes(queue'[n]), queue'[n].why # "join"
          PROVE  ExpectedAt(n, g)'
      <3>1. ExpectedAt(n + 1, g)
        BY <1>4, <2>2 DEF JoinInv, Queued
      <3> QED BY <1>3, <1>4, <2>2, <3>1
    <2> QED BY <2>1, <2>2 DEF Queued
  <1>6. Pending'
    <2>1. Len(queue) + 1 \in 1..(Len(queue) + 1) /\ Len(queue) + 1 # 1
          /\ (Len(queue) + 1) - 1 = Len(queue') + 1
      BY <1>2 DEF Passes
    <2> QED BY <1>1, <1>3, <2>1 DEF JoinInv, Pending
  <1>7. announced' \in [Guilds -> {"none", "ready", "available", "join", "unavailable", "leave"}]
    <2>1. handleReady(e) \/ handleGuildCreate(e) \/ handleGuildDelete(e) \/ UNCHANGED announced
            => announced' \in [Guilds -> {"none", "ready", "available", "join", "unavailable", "leave"}]
      BY DEF JoinInv, handleReady, handleGuildCreate, handleGuildDelete
    <2> QED BY <2>1 DEF handles
  <1> QED BY <1>1, <1>2, <1>5, <1>6, <1>7 DEF JoinInv, Outside

LEMMA JoinStep ==
  ASSUME JoinInv, [Next]_vars
  PROVE  JoinInv'
  <1>1. CASE \E i \in items : Create(i) \/ Update(i) \/ Delete(i) \/ Mention(i)
    BY <1>1, JoinItem
  <1>2. CASE Identify
    BY <1>2, JoinIdentify
  <1>3. CASE \E g \in Guilds : ShowGuild(g) \/ JoinGuild(g) \/ \E out \in BOOLEAN : HideGuild(g, out)
    BY <1>3, JoinShow, JoinJoins, JoinHide
  <1>4. CASE hookSession
    BY <1>4, JoinStores, JoinReads, JoinHandles DEF hookSession
  <1>5. CASE \E c \in Getters : Ask(c) \/ Answer(c) \/ Fill(c) \/ Overwrite(c) \/ Return(c)
    <2>1. UNCHANGED <<unready, unavailable, items, server, queue, announced>>
      BY <1>5 DEF Ask, Answer, Fill, Overwrite, Return
    <2> QED BY <2>1, QuietStep DEF server
  <1>6. CASE UNCHANGED vars
    BY <1>6, QuietStep DEF vars, server
  <1> QED BY <1>1, <1>2, <1>3, <1>4, <1>5, <1>6 DEF Next, Server

(* The sets that handleReady, handleGuildCreate and handleGuildDelete keep  *)
(* tell the three meanings of a GUILD_CREATE apart: a GuildJoinEvent is     *)
(* announced only for a guild that was joined, whatever READY, outages and  *)
(* leavings are still under way behind it.                                  *)
THEOREM JoinsAnnounced == Spec => JoinsAreReal
  <1>1. JoinInv /\ [Next]_vars =>
          [\A e \in ToSet(queue) :
             handles(e) /\ e.type \in {"GuildCreate", "GuildStores"} /\ announced'[e.guild] = "join"
                 => e.why = "join"]_vars
    <2> SUFFICES ASSUME JoinInv, NEW e, handles(e), Comes(e), announced'[e.guild] = "join", e.why # "join"
                 PROVE  FALSE
      BY DEF Comes
    <2>1. queue # <<>> /\ e = Head(queue) /\ queue' = Tail(queue) /\ handleGuildCreate(e)
      BY DEF handles, Taking, Comes
    <2>2. Passes /\ Head(queue) = queue[1]
      BY <2>1, TakesOne DEF JoinInv
    <2>3. ExpectedAt(1, e.guild)
      <3>1. 1 \in 1..Len(queue)
        BY <2>2 DEF Passes
      <3> QED BY <2>1, <2>2, <3>1 DEF JoinInv, Queued
    <2>4. Expected(e.guild)
      <3>1. 1..(1 - 1) = {}
        OBVIOUS
      <3> QED BY <2>3, <3>1, Zenon DEF ExpectedAt
    <2>5. e.guild \in Guilds
      <3>1. 1 \in 1..Len(queue)
        BY <2>2 DEF Passes
      <3> QED BY <2>1, <2>2, <3>1 DEF JoinInv, Forms, Formed
    <2>6. announced'[e.guild] # "join"
      BY <2>1, <2>4, <2>5 DEF handleGuildCreate, JoinInv, Expected
    <2> QED BY <2>6
  <1> QED BY <1>1, JoinInit, JoinStep, PTL DEF Spec, JoinsAreReal

-----------------------------------------------------------------------------
(* Induction, and the loops of recursive functions.                         *)

LEMMA Least ==
  ASSUME NEW T, T \subseteq Nat, T # {}
  PROVE  \E x \in T : \A y \in T : x <= y
  <1>1. \E x \in T : \A y \in T : ~(<<y, x>> \in OpToRel(<, Nat))
    BY NatLessThanWellFounded, WFMin
  <1>2. \A x, y \in Nat : ~(<<y, x>> \in OpToRel(<, Nat)) => x <= y
    <2>1. \A x, y \in Nat : y < x => <<y, x>> \in OpToRel(<, Nat)
      BY DEF OpToRel
    <2>2. \A x, y \in Nat : y < x \/ x <= y
      OBVIOUS
    <2> QED BY <2>1, <2>2, Zenon
  <1> QED BY <1>1, <1>2, Zenon

LEMMA UpFromZero ==
  ASSUME NEW G, 0 \in G, \A n \in Nat : n \in G => n + 1 \in G
  PROVE  Nat \subseteq G
  <1> SUFFICES ASSUME Nat \ G # {}
               PROVE  FALSE
    OBVIOUS
  <1>1. PICK x \in Nat \ G : \A y \in Nat \ G : x <= y
    BY Least
  <1>2. x # 0 /\ x - 1 \in Nat /\ x - 1 \in G
    BY <1>1
  <1>3. (x - 1) + 1 \in G
    BY <1>2
  <1> QED BY <1>1, <1>3

(* What a loop has after each of its turns is a function.                   *)
Runs(f, X, N, b, turn) ==
    /\ f \in [0..N -> X]
    /\ \A n \in 0..N : f[n] = IF n = 0 THEN b ELSE turn[<<n, f[n - 1]>>]

LEMMA Loop ==
  ASSUME NEW X, NEW b \in X, NEW N \in Nat, NEW turn \in [(1..N) \X X -> X]
  PROVE  \E f : Runs(f, X, N, b, turn)
  <1> DEFINE After(m, f) ==
                 /\ f \in [0..N -> X]
                 /\ \A n \in 0..m : f[n] = IF n = 0 THEN b ELSE turn[<<n, f[n - 1]>>]
             G == {m \in Nat : m <= N => \E f : After(m, f)}
  <1>1. 0 \in G
    <2>1. After(0, [n \in 0..N |-> b])
      OBVIOUS
    <2> QED BY <2>1
  <1>2. ASSUME NEW m \in Nat, m \in G
        PROVE  m + 1 \in G
    <2> SUFFICES ASSUME m + 1 <= N
                 PROVE  \E f : After(m + 1, f)
      OBVIOUS
    <2>1. PICK f : After(m, f)
      BY <1>2
    <2> DEFINE h == [f EXCEPT ![m + 1] = turn[<<m + 1, f[m]>>]]
    <2>2. /\ m + 1 \in 0..N /\ m \in 0..N /\ m + 1 \in 1..N /\ (m + 1) - 1 = m /\ m + 1 # 0
          /\ \A n \in 0..(m + 1) : n = m + 1 \/ n \in 0..m
          /\ \A n \in 0..m : n = 0 \/ n - 1 \in 0..m
      OBVIOUS
    <2>3. turn[<<m + 1, f[m]>>] \in X
      BY <2>1, <2>2
    <2>4. h \in [0..N -> X] /\ h[m + 1] = turn[<<m + 1, f[m]>>] /\ \A n \in 0..m : h[n] = f[n]
      BY <2>1, <2>2, <2>3
    <2> HIDE DEF h
    <2>5. \A n \in 0..m : h[n] = IF n = 0 THEN b ELSE turn[<<n, h[n - 1]>>]
      BY <2>1, <2>2, <2>4
    <2>6. h[m + 1] = turn[<<m + 1, h[(m + 1) - 1]>>]
      <3>1. h[(m + 1) - 1] = f[m]
        BY <2>2, <2>4
      <3> QED BY <2>4, <3>1
    <2>7. After(m + 1, h)
      <3>1. \A n \in 0..(m + 1) : h[n] = IF n = 0 THEN b ELSE turn[<<n, h[n - 1]>>]
        BY <2>2, <2>5, <2>6, Zenon
      <3> QED BY <2>4, <3>1
    <2> QED BY <2>7
  <1> HIDE DEF G
  <1>3. N \in G
    BY <1>1, <1>2, UpFromZero
  <1> QED BY <1>3 DEF G, Runs

-----------------------------------------------------------------------------
(* Types: what the stores can hold, and what events and answers can say.    *)

MapTypes(ids) == [known : SUBSET Guilds, of : [Guilds \X ids -> Nat]]
ChannelTypes ==
    [channels : [Chans -> Nat], privates : [Users -> Directs \cup {NoChan}],
     listed : SUBSET (Guilds \cup {NoGuild}), guildChs : [Guilds \cup {NoGuild} -> SUBSET Chans]]
EmojiTypes == {s \in [known : SUBSET Guilds, of : [Guilds -> Nat]] : \A g \in Guilds : s.of[g] # 0 => g \in s.known}
Cabinets ==
    [me : Nat, channel : ChannelTypes, emoji : EmojiTypes, guild : [Guilds -> Nat],
     member : MapTypes(Users), bare : SUBSET (Guilds \X Users), presence : MapTypes(Users),
     role : MapTypes(Roles), voice : MapTypes(Users)]
AllItems == UNION {ItemsOf(k) : k \in Kinds}

(* What READY, GUILD_CREATE or an answer says: at most one version of each. *)
Facts(data) ==
    /\ IsFiniteSet(data) /\ data \subseteq [item : items, ver : Nat \ {0}]
    /\ \A d, e \in data : d.item = e.item => d = e

MemberEvents == {"GuildMembersChunk", "MemberFound", "MemberMissing"}
TellsItem(e) ==
    /\ DOMAIN e = {"type", "item", "ver"} /\ e.item \in items /\ e.ver \in Nat
    /\ e.type # "none"
    /\ \/ e.ver # 0 /\ e.type \in {CreateEvent(e.item)} \cup UpdateEvents(e.item)
       \/ e.ver # 0 /\ e.type \in MemberEvents /\ e.item.kind = "member"
       \/ e.ver = 0 /\ e.type = DeleteEvent(e.item)
TellsData(e) ==
    /\ "item" \notin DOMAIN e /\ "data" \in DOMAIN e /\ "type" \in DOMAIN e
    /\ e.type \in Bringing /\ Facts(e.data)
TellsNothing(e) ==
    /\ "item" \notin DOMAIN e /\ "data" \notin DOMAIN e
    /\ e.type = "Ready" \/ (e.type \in {"GuildDelete", "MessageCreate", "MessageUpdate"} /\ e.guild \in Guilds)
Tells(e) == TellsItem(e) \/ TellsData(e) \/ TellsNothing(e)

(* The emojis of a guild are asked for alone.                               *)
CallIs(r) ==
    /\ DOMAIN r = {"phase", "wants", "keeps", "ans"}
    /\ r.phase \notin {"answered", "overwriting"} => r.ans = {}
    /\ \A i \in r.wants : i.kind = "emoji" => r.wants = {i}
    /\ \A d \in r.ans : d.item.kind = "emoji" => r.ans = {d}
    /\ r.phase = "overwriting" => r.keeps /\ \E d \in r.ans : d.item.kind = "emoji"
CallTypes == DOMAIN call = Getters /\ \A c \in Getters : CallIs(call[c])

MirrorTypes ==
    /\ cab \in Cabinets /\ items \subseteq AllItems /\ IsFiniteSet(items)
    /\ ver \in [items -> Nat \ {0}] /\ here \subseteq items
    /\ joined \subseteq Guilds /\ shown \subseteq Guilds
    /\ IsQueue /\ \A e \in Range(queue) : Tells(e)
    /\ CallTypes /\ \A data \in {call[c].ans : c \in Getters} : Facts(data)

(* A guild has an entry without a list only while a getter is about to      *)
(* write it.                                                                *)
Entered(g) == g \in cab.emoji.known
Entering ==
    /\ \A c \in Getters : call[c].phase = "overwriting" => \A d \in call[c].ans : Entered(d.item.guild)
    /\ \A i \in items : i.kind = "emoji" /\ Entered(i.guild) /\ Cached(i) = 0 => Coming(i)

(* An event that empties the store of an item, and one that stores what it  *)
(* says, whatever is stored.                                                *)
Clears(e, i) == e.type = "Ready" \/ (e.type = "GuildDelete" /\ i.kind = "guild" /\ e.guild = i.guild)
Firm(e, i) == e.type \notin Tentative \cup Bringing \/ i.kind = "channel"

(* After it, what is stored depends no more on what was before: on what?    *)
Decides(e, i) == IF Says(e, i) = {} THEN Clears(e, i) ELSE Firm(e, i)
Leaves(e, i, v) == IF Says(e, i) = {} THEN v = 0 ELSE v \in Says(e, i)
LeftAt(n, i, v) == IF n = 0 THEN v = Cached(i) ELSE Decides(queue[n], i) /\ Leaves(queue[n], i, v)

(* Nothing under way between the n-th event and the handler's end decides.  *)
LastAt(n, i) == \A m \in (n + 1)..Len(queue) : ~Decides(queue[m], i)

(* No answer under way says anything but the truth.                         *)
Honest(i) == \A c \in Getters : call[c].keeps => \A d \in call[c].ans : d.item = i => d.ver = Truth(i)
TrueAfter(n, i) == \A m \in (n + 1)..Len(queue) : Says(queue[m], i) \subseteq {Truth(i)}

(* What the last decision leaves is the truth, or nothing, and then all     *)
(* that may still be stored is.  What a getter stores over what is there    *)
(* must be the truth at any time.                                           *)
Rash(i) == i.kind \in {"channel", "emoji"}
Reflects(i) ==
    /\ \A n \in 0..Len(queue), v \in Nat :
           LastAt(n, i) /\ LeftAt(n, i, v) =>
               \/ v = Truth(i) /\ v # 0
               \/ v = 0 /\ TrueAfter(n, i) /\ Honest(i)
    /\ Rash(i) => Honest(i)

(* Of a guild that has been shown, whatever is not stored will be.          *)
Owed(i) == i \in here /\ i.guild # NoGuild /\ Told(i) /\ Listed(i)
Pays(e, i) == Says(e, i) \ {0} # {}
Wipes(e, i) == IF Says(e, i) = {} THEN Clears(e, i) ELSE 0 \in Says(e, i)
WipedAt(n, i) == IF n = 0 THEN Cached(i) = 0 ELSE Wipes(queue[n], i)
Brought(i) ==
    Owed(i) =>
        \A n \in 0..Len(queue) :
            WipedAt(n, i) => (\E m \in (n + 1)..Len(queue) : Pays(queue[m], i)) \/ (n = 0 /\ Coming(i))

MirrorInv ==
    /\ MirrorTypes /\ Entering
    /\ \A i \in items : (i \notin doubt => Reflects(i)) /\ Brought(i)

-----------------------------------------------------------------------------
(* What the operations of the stores do to one item.                        *)

(* The values that a Set leaves; an entry of emojis is left alone, empty or *)
(* not.                                                                     *)
Put(old, v, over) == IF old = 0 \/ over THEN v ELSE old
Kept(c, i, v, over) ==
    IF i.kind = "emoji" /\ ~over /\ HasEmojis(c, i.guild) THEN Stored(c, i)
    ELSE Put(Stored(c, i), v, over \/ i.kind = "channel")

LEMMA ItemTypes ==
  ASSUME NEW i \in AllItems
  PROVE  /\ i.kind \in Kinds
         /\ i.kind = "me" => i.guild = NoGuild /\ i.id = "me"
         /\ i.kind \in {"guild", "emoji"} => i.guild \in Guilds /\ i.id = "all"
         /\ i.kind = "channel" => /\ i.id \in Chans
                                  /\ i.guild = IF i.id \in GuildChans THEN Home[i.id] ELSE NoGuild
         /\ i.kind = "role" => i.guild \in Guilds /\ i.id \in Roles
         /\ i.kind \in {"member", "presence", "voice"} => i.guild \in Guilds /\ i.id \in Users
         /\ i = Item(i.kind, i.guild, i.id)
  <1>1. PICK k \in Kinds : i \in ItemsOf(k)
    BY DEF AllItems
  <1>2. CASE k = "me"
    BY <1>1, <1>2 DEF ItemsOf, Item, Kinds
  <1>3. CASE k = "guild"
    BY <1>1, <1>3 DEF ItemsOf, Item, Kinds
  <1>4. CASE k = "emoji"
    BY <1>1, <1>4 DEF ItemsOf, Item, Kinds
  <1>5. CASE k = "channel"
    BY <1>1, <1>5, CabinetAssumption DEF ItemsOf, Item, Kinds, Chans
  <1>6. CASE k = "role"
    BY <1>1, <1>6 DEF ItemsOf, Item, Kinds
  <1>7. CASE k \in {"member", "presence", "voice"}
    BY <1>1, <1>7 DEF ItemsOf, Item, Kinds
  <1> QED BY <1>1, <1>2, <1>3, <1>4, <1>5, <1>6, <1>7 DEF Kinds

(* Two items that are held in the same place are the same.                  *)
LEMMA ItemsDiffer ==
  ASSUME NEW i \in AllItems, NEW j \in AllItems, i.kind = j.kind,
         i.kind = "channel" \/ i.guild = j.guild, i.id = j.id
  PROVE  i = j
  BY ItemTypes

LEMMA StoredTypes ==
  ASSUME NEW c \in Cabinets, NEW i \in AllItems
  PROVE  Stored(c, i) \in Nat
  BY ItemTypes DEF Cabinets, MapTypes, ChannelTypes, EmojiTypes, Stored, Kinds

(* c and d hold the same but for item i, of which d holds v.                *)
Enters(d, c, i) ==
    /\ c.emoji.known \subseteq d.emoji.known
    /\ \A g \in d.emoji.known \ c.emoji.known : i.kind = "emoji" /\ g = i.guild
HoldsIn(d, c, i, v) ==
    /\ d \in Cabinets /\ Enters(d, c, i)
    /\ \A j \in AllItems : Stored(d, j) = IF j = i THEN v ELSE Stored(c, j)

LEMMA InsertsIn ==
  ASSUME NEW i \in AllItems, NEW ids, NEW s \in MapTypes(ids), i.guild \in Guilds, i.id \in ids,
         NEW v \in Nat, NEW over \in BOOLEAN
  PROVE  /\ Insert(s, i.guild, i.id, v, over) \in MapTypes(ids)
         /\ \A g \in Guilds, x \in ids :
               Insert(s, i.guild, i.id, v, over).of[<<g, x>>] =
                     IF g = i.guild /\ x = i.id THEN Put(s.of[<<g, x>>], v, over) ELSE s.of[<<g, x>>]
  <1>1. s.of \in [Guilds \X ids -> Nat] /\ s.known \in SUBSET Guilds /\ s = [known |-> s.known, of |-> s.of]
    BY DEF MapTypes
  <1>2. <<i.guild, i.id>> \in Guilds \X ids /\ s.of[<<i.guild, i.id>>] \in Nat
    BY <1>1
  <1>3. Insert(s, i.guild, i.id, v, over) \in MapTypes(ids)
    BY <1>1, <1>2 DEF Insert, MapTypes
  <1> QED BY <1>1, <1>2, <1>3 DEF Insert, Put

LEMMA DropsIn ==
  ASSUME NEW i \in AllItems, NEW ids, NEW s \in MapTypes(ids), i.guild \in Guilds, i.id \in ids
  PROVE  /\ Drop(s, i.guild, i.id) \in MapTypes(ids)
         /\ \A g \in Guilds, x \in ids :
               Drop(s, i.guild, i.id).of[<<g, x>>] =
                     IF g = i.guild /\ x = i.id THEN 0 ELSE s.of[<<g, x>>]
  <1>1. s.of \in [Guilds \X ids -> Nat] /\ s.known \in SUBSET Guilds /\ s = [known |-> s.known, of |-> s.of]
    BY DEF MapTypes
  <1>2. <<i.guild, i.id>> \in Guilds \X ids
    OBVIOUS
  <1>3. Drop(s, i.guild, i.id) \in MapTypes(ids)
    BY <1>1, <1>2 DEF Drop, MapTypes
  <1> QED BY <1>1, <1>2, <1>3 DEF Drop

LEMMA ChannelEffect ==
  ASSUME NEW c \in Cabinets, NEW i \in AllItems, i.kind = "channel", NEW v \in Nat, NEW over \in BOOLEAN
  PROVE  HoldsIn(ChannelSet(c, i.id, v, over), c, i, v) /\ HoldsIn(ChannelRemove(c, i.id), c, i, 0)
  <1>1. i.id \in Chans /\ (ListOf(i.id) \in Guilds \cup {NoGuild} \/ i.id \in Directs)
    BY ItemTypes, CabinetAssumption DEF ListOf, Chans
  <1>2. c.channel \in ChannelTypes /\ c.channel.channels \in [Chans -> Nat] /\ i.id \in Chans
    BY ItemTypes DEF Cabinets, ChannelTypes
  <1>3. ASSUME NEW s \in ChannelTypes, NEW w \in Nat,
               s.channels = [c.channel.channels EXCEPT ![i.id] = w],
               NEW d, d = [c EXCEPT !.channel = s]
        PROVE  HoldsIn(d, c, i, w)
    <2>1. d \in Cabinets /\ d.channel = s /\ d.emoji = c.emoji
          /\ \A j \in AllItems : j.kind # "channel" => Stored(d, j) = Stored(c, j)
      BY <1>3, ItemTypes DEF Cabinets, Stored, Kinds
    <2>2. ASSUME NEW j \in AllItems, j.kind = "channel"
          PROVE  Stored(d, j) = IF j = i THEN w ELSE Stored(c, j)
      <3>1. j.id \in Chans /\ (j.id = i.id <=> j = i)
        BY <2>2, ItemTypes, ItemsDiffer
      <3>2. Stored(d, j) = s.channels[j.id] /\ Stored(c, j) = c.channel.channels[j.id]
        BY <2>1, <2>2 DEF Stored
      <3> QED BY <1>2, <1>3, <3>1, <3>2
    <2> QED BY <2>1, <2>2 DEF HoldsIn, Enters
  <1>4. ASSUME NEW w \in Nat
        PROVE  LET s == [c.channel EXCEPT !.channels[i.id] = w] IN
               /\ s \in ChannelTypes /\ s.channels = [c.channel.channels EXCEPT ![i.id] = w]
               /\ s.privates = c.channel.privates
               /\ s.guildChs = c.channel.guildChs /\ s.listed = c.channel.listed
    BY <1>2 DEF ChannelTypes
  <1>5. HoldsIn(ChannelSet(c, i.id, v, over), c, i, v)
    <2>1. PICK s : s = [c.channel EXCEPT !.channels[i.id] = v]
      OBVIOUS
    <2>2. s \in ChannelTypes /\ s.channels = [c.channel.channels EXCEPT ![i.id] = v]
      BY <1>4, <2>1
    <2>3. CASE i.id \in Directs
      <3>1. PICK r : r = [s EXCEPT !.privates[Recipient[i.id]] = i.id]
        OBVIOUS
      <3>2. r \in ChannelTypes /\ r.channels = s.channels
        BY <2>2, <2>3, <3>1 DEF ChannelTypes
      <3>3. ChannelSet(c, i.id, v, over) = [c EXCEPT !.channel = r]
        BY <2>1, <2>3, <3>1 DEF ChannelSet
      <3> QED BY <1>3, <2>2, <3>2, <3>3
    <2>4. CASE i.id \notin Directs
      <3>1. PICK r : r = addChannelID(s, ListOf(i.id), i.id)
        OBVIOUS
      <3>2. r \in ChannelTypes /\ r.channels = s.channels
        <4>1. PICK g \in Guilds \cup {NoGuild} : g = ListOf(i.id)
          BY <1>1, <2>4
        <4>2. PICK lists, listed : lists = [s.guildChs EXCEPT ![g] = @ \cup {i.id}] /\ listed = s.listed \cup {g}
          OBVIOUS
        <4>3. lists \in [Guilds \cup {NoGuild} -> SUBSET Chans] /\ listed \in SUBSET (Guilds \cup {NoGuild})
          BY <1>2, <2>2, <4>1, <4>2 DEF ChannelTypes
        <4>4. r = [s EXCEPT !.guildChs = lists, !.listed = listed]
          BY <3>1, <4>1, <4>2, Zenon DEF addChannelID
        <4> QED BY <2>2, <4>3, <4>4 DEF ChannelTypes
      <3>3. ChannelSet(c, i.id, v, over) = [c EXCEPT !.channel = r]
        BY <2>1, <2>4, <3>1 DEF ChannelSet
      <3> QED BY <1>3, <2>2, <3>2, <3>3
    <2> QED BY <2>3, <2>4
  <1>6. HoldsIn(ChannelRemove(c, i.id), c, i, 0)
    <2>1. PICK s : s = [c.channel EXCEPT !.channels[i.id] = 0]
      OBVIOUS
    <2>2. s \in ChannelTypes /\ s.channels = [c.channel.channels EXCEPT ![i.id] = 0]
      BY <1>4, <2>1
    <2>3. CASE i.id \in Directs
      <3>1. PICK r : r = [s EXCEPT !.privates[Recipient[i.id]] = NoChan]
        OBVIOUS
      <3>2. r \in ChannelTypes /\ r.channels = s.channels
        BY <2>2, <2>3, <3>1 DEF ChannelTypes
      <3>3. ChannelRemove(c, i.id) = [c EXCEPT !.channel = r]
        BY <2>1, <2>3, <3>1 DEF ChannelRemove
      <3> QED BY <1>3, <2>2, <3>2, <3>3
    <2>4. CASE i.id \notin Directs
      <3>1. PICK r : r = removeChannelID(s, ListOf(i.id), i.id)
        OBVIOUS
      <3>2. r \in ChannelTypes /\ r.channels = s.channels
        <4>1. PICK g \in Guilds \cup {NoGuild} : g = ListOf(i.id)
          BY <1>1, <2>4
        <4> QED BY <1>2, <2>2, <3>1, <4>1 DEF ChannelTypes, removeChannelID
      <3>3. ChannelRemove(c, i.id) = [c EXCEPT !.channel = r]
        BY <2>1, <2>4, <3>1 DEF ChannelRemove
      <3> QED BY <1>3, <2>2, <3>2, <3>3
    <2> QED BY <2>3, <2>4
  <1> QED BY <1>5, <1>6

LEMMA EnterEffect ==
  ASSUME NEW c \in Cabinets, NEW g \in Guilds, NEW d, d = EmojiEnter(c, g)
  PROVE  /\ d \in Cabinets /\ d.emoji.known = c.emoji.known \cup {g}
         /\ \A i \in AllItems : Stored(d, i) = Stored(c, i)
  <1>1. c.emoji \in [known : SUBSET Guilds, of : [Guilds -> Nat]] /\ \A h \in Guilds : c.emoji.of[h] # 0 => h \in c.emoji.known
    BY DEF Cabinets, EmojiTypes
  <1>2. PICK s : s = [c.emoji EXCEPT !.known = @ \cup {g}]
    OBVIOUS
  <1>3. s \in EmojiTypes /\ s.known = c.emoji.known \cup {g} /\ s.of = c.emoji.of
    BY <1>1, <1>2 DEF EmojiTypes
  <1>4. d = [c EXCEPT !.emoji = s]
    BY <1>2, Zenon DEF EmojiEnter
  <1>5. d \in Cabinets /\ d.emoji = s
    BY <1>3, <1>4 DEF Cabinets
  <1>6. \A i \in AllItems : Stored(d, i) = Stored(c, i)
    BY <1>3, <1>4, ItemTypes DEF Cabinets, Stored, Kinds
  <1> QED BY <1>3, <1>5, <1>6

LEMMA WriteEffect ==
  ASSUME NEW c \in Cabinets, NEW i \in AllItems, i.kind = "emoji", i.guild \in c.emoji.known, NEW v \in Nat,
         NEW d, d = EmojiWrite(c, i.guild, v)
  PROVE  HoldsIn(d, c, i, v) /\ d.emoji.known = c.emoji.known
  <1>1. c.emoji \in [known : SUBSET Guilds, of : [Guilds -> Nat]] /\ \A h \in Guilds : c.emoji.of[h] # 0 => h \in c.emoji.known
    BY DEF Cabinets, EmojiTypes
  <1>2. PICK s : s = [c.emoji EXCEPT !.of = [@ EXCEPT ![i.guild] = v]]
    OBVIOUS
  <1>3. s \in EmojiTypes /\ s.known = c.emoji.known /\ s.of = [c.emoji.of EXCEPT ![i.guild] = v]
    BY <1>1, <1>2 DEF EmojiTypes
  <1>4. d = [c EXCEPT !.emoji = s]
    BY <1>2 DEF EmojiWrite
  <1>5. d \in Cabinets /\ d.emoji = s /\ \A j \in AllItems : j.kind # "emoji" => Stored(d, j) = Stored(c, j)
    BY <1>3, <1>4, ItemTypes DEF Cabinets, Stored, Kinds
  <1>6. ASSUME NEW j \in AllItems, j.kind = "emoji"
        PROVE  Stored(d, j) = IF j = i THEN v ELSE Stored(c, j)
    <2>1. j.guild \in Guilds /\ (j.guild = i.guild <=> j = i)
      BY <1>6, ItemTypes, ItemsDiffer
    <2>2. Stored(d, j) = s.of[j.guild] /\ Stored(c, j) = c.emoji.of[j.guild]
      BY <1>5, <1>6 DEF Stored
    <2> QED BY <1>1, <1>3, <2>1, <2>2
  <1> QED BY <1>3, <1>5, <1>6 DEF HoldsIn, Enters

LEMMA StoreEffect ==
  ASSUME NEW c \in Cabinets, NEW i \in AllItems, NEW v \in Nat, NEW over \in BOOLEAN
  PROVE  HoldsIn(Store(c, i, v, over), c, i, Kept(c, i, v, over))
  <1>1. PICK d : d = Store(c, i, v, over)
    OBVIOUS
  <1>2. CASE i.kind = "me"
    <2>1. d = [c EXCEPT !.me = Put(@, v, over)]
      BY <1>1, <1>2, Zenon DEF Store, MyselfSet, Put
    <2>2. d \in Cabinets /\ d.me = Put(c.me, v, over)
          /\ d.emoji = c.emoji
          /\ \A j \in AllItems : j.kind # "me" => Stored(d, j) = Stored(c, j)
      BY <2>1, ItemTypes DEF Cabinets, Put, Stored, Kinds
    <2>3. \A j \in AllItems : j.kind = "me" => j = i
      BY <1>2, ItemTypes
    <2>4. Stored(d, i) = d.me /\ Stored(c, i) = c.me
      BY <1>2 DEF Stored
    <2> QED BY <1>1, <1>2, <2>2, <2>3, <2>4 DEF HoldsIn, Enters, Kept
  <1>3. CASE i.kind = "guild"
    <2>1. d = [c EXCEPT !.guild[i.guild] = Put(@, v, over)] /\ i.guild \in Guilds
      BY <1>1, <1>3, ItemTypes DEF Store, GuildSet, Put
    <2>2. d \in Cabinets /\ d.guild = [c.guild EXCEPT ![i.guild] = Put(@, v, over)]
          /\ d.emoji = c.emoji
          /\ \A j \in AllItems : j.kind # "guild" => Stored(d, j) = Stored(c, j)
      BY <2>1, ItemTypes DEF Cabinets, Put, Stored, Kinds
    <2>3. ASSUME NEW j \in AllItems, j.kind = "guild"
          PROVE  Stored(d, j) = IF j = i THEN Put(Stored(c, i), v, over) ELSE Stored(c, j)
      <3>1. j.guild \in Guilds /\ (j.guild = i.guild <=> j = i)
        BY <1>3, <2>3, ItemTypes, ItemsDiffer
      <3>2. c.guild \in [Guilds -> Nat]
        BY DEF Cabinets
      <3>3. Stored(d, j) = d.guild[j.guild] /\ Stored(c, j) = c.guild[j.guild] /\ Stored(c, i) = c.guild[i.guild]
        BY <1>3, <2>3 DEF Stored
      <3> QED BY <2>1, <2>2, <3>1, <3>2, <3>3
    <2> QED BY <1>1, <1>3, <2>2, <2>3 DEF HoldsIn, Enters, Kept
  <1>4. CASE i.kind = "emoji"
    <2>1. i.guild \in Guilds /\ c.emoji \in EmojiTypes
      BY <1>4, ItemTypes DEF Cabinets
    <2>2. CASE HasEmojis(c, i.guild) /\ ~over
      <3>1. d = c /\ Kept(c, i, v, over) = Stored(c, i)
        BY <1>1, <1>4, <2>2 DEF Store, EmojiSet, HasEmojis, Kept
      <3> QED BY <1>1, <3>1 DEF HoldsIn, Enters
    <2>3. CASE ~(HasEmojis(c, i.guild) /\ ~over)
      <3>1. Kept(c, i, v, over) = v
        BY <1>4, <2>1, <2>3 DEF Kept, Put, HasEmojis, Stored, EmojiTypes
      <3>2. d = EmojiWrite(EmojiEnter(c, i.guild), i.guild, v)
        BY <1>1, <1>4, <2>3 DEF Store, EmojiSet, HasEmojis
      <3>3. PICK b : b = EmojiEnter(c, i.guild)
        OBVIOUS
      <3>4. b \in Cabinets /\ i.guild \in b.emoji.known /\ (\A j \in AllItems : Stored(b, j) = Stored(c, j))
            /\ b.emoji.known = c.emoji.known \cup {i.guild}
        BY <2>1, <3>3, EnterEffect
      <3>5. HoldsIn(d, b, i, v)
        BY <1>4, <3>2, <3>3, <3>4, WriteEffect
      <3> QED BY <1>1, <1>4, <3>1, <3>4, <3>5 DEF HoldsIn, Enters
    <2> QED BY <2>2, <2>3
  <1>5. CASE i.kind = "role"
    <2>1. d = [c EXCEPT !.role = Insert(@, i.guild, i.id, v, over)] /\ i.guild \in Guilds /\ i.id \in Roles
      BY <1>1, <1>5, ItemTypes DEF Store, RoleSet
    <2>2. c.role \in MapTypes(Roles)
      BY DEF Cabinets
    <2>3. /\ Insert(c.role, i.guild, i.id, v, over) \in MapTypes(Roles)
          /\ \A g \in Guilds, x \in Roles : Insert(c.role, i.guild, i.id, v, over).of[<<g, x>>] =
                IF g = i.guild /\ x = i.id THEN Put(c.role.of[<<g, x>>], v, over) ELSE c.role.of[<<g, x>>]
      BY <2>1, <2>2, InsertsIn
    <2>4. d \in Cabinets /\ d.role = Insert(c.role, i.guild, i.id, v, over)
          /\ d.emoji = c.emoji
          /\ \A j \in AllItems : j.kind # "role" => Stored(d, j) = Stored(c, j)
      BY <2>1, <2>3, ItemTypes DEF Cabinets, Stored, Kinds
    <2>5. ASSUME NEW j \in AllItems, j.kind = "role"
          PROVE  Stored(d, j) = IF j = i THEN Put(Stored(c, i), v, over) ELSE Stored(c, j)
      <3>1. j.guild \in Guilds /\ j.id \in Roles /\ (j.guild = i.guild /\ j.id = i.id <=> j = i)
        BY <1>5, <2>5, ItemTypes, ItemsDiffer
      <3>2. /\ Stored(d, j) = d.role.of[<<j.guild, j.id>>] /\ Stored(c, j) = c.role.of[<<j.guild, j.id>>]
            /\ Stored(c, i) = c.role.of[<<i.guild, i.id>>]
        BY <1>5, <2>5 DEF Stored
      <3> QED BY <2>3, <2>4, <3>1, <3>2
    <2> QED BY <1>1, <1>5, <2>4, <2>5 DEF HoldsIn, Enters, Kept
  <1>6. CASE i.kind = "member"
    <2>1. d = [c EXCEPT !.member = Insert(@, i.guild, i.id, v, over)] /\ i.guild \in Guilds /\ i.id \in Users
      BY <1>1, <1>6, ItemTypes DEF Store, MemberSet
    <2>2. c.member \in MapTypes(Users)
      BY DEF Cabinets
    <2>3. /\ Insert(c.member, i.guild, i.id, v, over) \in MapTypes(Users)
          /\ \A g \in Guilds, x \in Users : Insert(c.member, i.guild, i.id, v, over).of[<<g, x>>] =
                IF g = i.guild /\ x = i.id THEN Put(c.member.of[<<g, x>>], v, over) ELSE c.member.of[<<g, x>>]
      BY <2>1, <2>2, InsertsIn
    <2>4. d \in Cabinets /\ d.member = Insert(c.member, i.guild, i.id, v, over)
          /\ d.emoji = c.emoji
          /\ \A j \in AllItems : j.kind # "member" => Stored(d, j) = Stored(c, j)
      BY <2>1, <2>3, ItemTypes DEF Cabinets, Stored, Kinds
    <2>5. ASSUME NEW j \in AllItems, j.kind = "member"
          PROVE  Stored(d, j) = IF j = i THEN Put(Stored(c, i), v, over) ELSE Stored(c, j)
      <3>1. j.guild \in Guilds /\ j.id \in Users /\ (j.guild = i.guild /\ j.id = i.id <=> j = i)
        BY <1>6, <2>5, ItemTypes, ItemsDiffer
      <3>2. /\ Stored(d, j) = d.member.of[<<j.guild, j.id>>] /\ Stored(c, j) = c.member.of[<<j.guild, j.id>>]
            /\ Stored(c, i) = c.member.of[<<i.guild, i.id>>]
        BY <1>6, <2>5 DEF Stored
      <3> QED BY <2>3, <2>4, <3>1, <3>2
    <2> QED BY <1>1, <1>6, <2>4, <2>5 DEF HoldsIn, Enters, Kept
  <1>7. CASE i.kind = "presence"
    <2>1. d = [c EXCEPT !.presence = Insert(@, i.guild, i.id, v, over)] /\ i.guild \in Guilds /\ i.id \in Users
      BY <1>1, <1>7, ItemTypes DEF Store, PresenceSet
    <2>2. c.presence \in MapTypes(Users)
      BY DEF Cabinets
    <2>3. /\ Insert(c.presence, i.guild, i.id, v, over) \in MapTypes(Users)
          /\ \A g \in Guilds, x \in Users : Insert(c.presence, i.guild, i.id, v, over).of[<<g, x>>] =
                IF g = i.guild /\ x = i.id THEN Put(c.presence.of[<<g, x>>], v, over) ELSE c.presence.of[<<g, x>>]
      BY <2>1, <2>2, InsertsIn
    <2>4. d \in Cabinets /\ d.presence = Insert(c.presence, i.guild, i.id, v, over)
          /\ d.emoji = c.emoji
          /\ \A j \in AllItems : j.kind # "presence" => Stored(d, j) = Stored(c, j)
      BY <2>1, <2>3, ItemTypes DEF Cabinets, Stored, Kinds
    <2>5. ASSUME NEW j \in AllItems, j.kind = "presence"
          PROVE  Stored(d, j) = IF j = i THEN Put(Stored(c, i), v, over) ELSE Stored(c, j)
      <3>1. j.guild \in Guilds /\ j.id \in Users /\ (j.guild = i.guild /\ j.id = i.id <=> j = i)
        BY <1>7, <2>5, ItemTypes, ItemsDiffer
      <3>2. /\ Stored(d, j) = d.presence.of[<<j.guild, j.id>>] /\ Stored(c, j) = c.presence.of[<<j.guild, j.id>>]
            /\ Stored(c, i) = c.presence.of[<<i.guild, i.id>>]
        BY <1>7, <2>5 DEF Stored
      <3> QED BY <2>3, <2>4, <3>1, <3>2
    <2> QED BY <1>1, <1>7, <2>4, <2>5 DEF HoldsIn, Enters, Kept
  <1>8. CASE i.kind = "voice"
    <2>1. d = [c EXCEPT !.voice = Insert(@, i.guild, i.id, v, over)] /\ i.guild \in Guilds /\ i.id \in Users
      BY <1>1, <1>8, ItemTypes DEF Store, VoiceStateSet
    <2>2. c.voice \in MapTypes(Users)
      BY DEF Cabinets
    <2>3. /\ Insert(c.voice, i.guild, i.id, v, over) \in MapTypes(Users)
          /\ \A g \in Guilds, x \in Users : Insert(c.voice, i.guild, i.id, v, over).of[<<g, x>>] =
                IF g = i.guild /\ x = i.id THEN Put(c.voice.of[<<g, x>>], v, over) ELSE c.voice.of[<<g, x>>]
      BY <2>1, <2>2, InsertsIn
    <2>4. d \in Cabinets /\ d.voice = Insert(c.voice, i.guild, i.id, v, over)
          /\ d.emoji = c.emoji
          /\ \A j \in AllItems : j.kind # "voice" => Stored(d, j) = Stored(c, j)
      BY <2>1, <2>3, ItemTypes DEF Cabinets, Stored, Kinds
    <2>5. ASSUME NEW j \in AllItems, j.kind = "voice"
          PROVE  Stored(d, j) = IF j = i THEN Put(Stored(c, i), v, over) ELSE Stored(c, j)
      <3>1. j.guild \in Guilds /\ j.id \in Users /\ (j.guild = i.guild /\ j.id = i.id <=> j = i)
        BY <1>8, <2>5, ItemTypes, ItemsDiffer
      <3>2. /\ Stored(d, j) = d.voice.of[<<j.guild, j.id>>] /\ Stored(c, j) = c.voice.of[<<j.guild, j.id>>]
            /\ Stored(c, i) = c.voice.of[<<i.guild, i.id>>]
        BY <1>8, <2>5 DEF Stored
      <3> QED BY <2>3, <2>4, <3>1, <3>2
    <2> QED BY <1>1, <1>8, <2>4, <2>5 DEF HoldsIn, Enters, Kept
  <1>9. CASE i.kind = "channel"
    <2>1. d = ChannelSet(c, i.id, v, over) /\ i.id \in Chans
      BY <1>1, <1>9, ItemTypes DEF Store
    <2>2. HoldsIn(d, c, i, v)
      BY <1>9, <2>1, ChannelEffect
    <2> QED BY <1>1, <1>9, <2>2 DEF Kept, Put
  <1> QED BY <1>2, <1>3, <1>4, <1>5, <1>6, <1>7, <1>8, <1>9, ItemTypes DEF Kinds

LEMMA RemoveEffect ==
  ASSUME NEW c \in Cabinets, NEW i \in AllItems
  PROVE  /\ i.kind = "guild" => HoldsIn(GuildRemove(c, i.guild), c, i, 0)
         /\ i.kind = "role" => HoldsIn(RoleRemove(c, i.guild, i.id), c, i, 0)
         /\ i.kind = "member" => HoldsIn(MemberRemove(c, i.guild, i.id), c, i, 0)
         /\ i.kind = "voice" => HoldsIn(VoiceStateRemove(c, i.guild, i.id), c, i, 0)
  <1>1. ASSUME i.kind = "guild"
        PROVE  HoldsIn(GuildRemove(c, i.guild), c, i, 0)
    <2>1. PICK d : d = [c EXCEPT !.guild[i.guild] = 0]
      OBVIOUS
    <2>2. i.guild \in Guilds /\ d \in Cabinets /\ d.guild = [c.guild EXCEPT ![i.guild] = 0]
          /\ d.emoji = c.emoji
          /\ \A j \in AllItems : j.kind # "guild" => Stored(d, j) = Stored(c, j)
      BY <1>1, <2>1, ItemTypes DEF Cabinets, Stored, Kinds
    <2>3. ASSUME NEW j \in AllItems, j.kind = "guild"
          PROVE  Stored(d, j) = IF j = i THEN 0 ELSE Stored(c, j)
      <3>1. j.guild \in Guilds /\ (j.guild = i.guild <=> j = i) /\ c.guild \in [Guilds -> Nat]
        BY <1>1, <2>3, ItemTypes, ItemsDiffer DEF Cabinets
      <3>2. Stored(d, j) = d.guild[j.guild] /\ Stored(c, j) = c.guild[j.guild]
        BY <2>3 DEF Stored
      <3> QED BY <2>2, <3>1, <3>2
    <2> QED BY <1>1, <2>1, <2>2, <2>3 DEF HoldsIn, Enters, GuildRemove
  <1>2. ASSUME i.kind = "role"
        PROVE  HoldsIn(RoleRemove(c, i.guild, i.id), c, i, 0)
    <2>1. i.guild \in Guilds /\ i.id \in Roles /\ c.role \in MapTypes(Roles)
      BY <1>2, ItemTypes DEF Cabinets
    <2>2. PICK d : d = [c EXCEPT !.role = Drop(@, i.guild, i.id)]
      OBVIOUS
    <2>3. /\ Drop(c.role, i.guild, i.id) \in MapTypes(Roles)
          /\ \A g \in Guilds, x \in Roles : Drop(c.role, i.guild, i.id).of[<<g, x>>] =
                IF g = i.guild /\ x = i.id THEN 0 ELSE c.role.of[<<g, x>>]
      BY <2>1, DropsIn
    <2>4. d \in Cabinets /\ d.role = Drop(c.role, i.guild, i.id)
          /\ d.emoji = c.emoji
          /\ \A j \in AllItems : j.kind # "role" => Stored(d, j) = Stored(c, j)
      BY <2>2, <2>3, ItemTypes DEF Cabinets, Stored, Kinds
    <2>5. ASSUME NEW j \in AllItems, j.kind = "role"
          PROVE  Stored(d, j) = IF j = i THEN 0 ELSE Stored(c, j)
      <3>1. j.guild \in Guilds /\ j.id \in Roles /\ (j.guild = i.guild /\ j.id = i.id <=> j = i)
        BY <1>2, <2>5, ItemTypes, ItemsDiffer
      <3>2. Stored(d, j) = d.role.of[<<j.guild, j.id>>] /\ Stored(c, j) = c.role.of[<<j.guild, j.id>>]
        BY <2>5 DEF Stored
      <3> QED BY <2>3, <2>4, <3>1, <3>2
    <2> QED BY <1>2, <2>2, <2>4, <2>5 DEF HoldsIn, Enters, RoleRemove
  <1>3. ASSUME i.kind = "member"
        PROVE  HoldsIn(MemberRemove(c, i.guild, i.id), c, i, 0)
    <2>1. i.guild \in Guilds /\ i.id \in Users /\ c.member \in MapTypes(Users)
      BY <1>3, ItemTypes DEF Cabinets
    <2>2. PICK d : d = [c EXCEPT !.member = Drop(@, i.guild, i.id), !.bare = @ \ {<<i.guild, i.id>>}]
      OBVIOUS
    <2>3. /\ Drop(c.member, i.guild, i.id) \in MapTypes(Users)
          /\ \A g \in Guilds, x \in Users : Drop(c.member, i.guild, i.id).of[<<g, x>>] =
                IF g = i.guild /\ x = i.id THEN 0 ELSE c.member.of[<<g, x>>]
      BY <2>1, DropsIn
    <2>4. d \in Cabinets /\ d.member = Drop(c.member, i.guild, i.id)
          /\ d.emoji = c.emoji
          /\ \A j \in AllItems : j.kind # "member" => Stored(d, j) = Stored(c, j)
      BY <2>2, <2>3, ItemTypes DEF Cabinets, Stored, Kinds
    <2>5. ASSUME NEW j \in AllItems, j.kind = "member"
          PROVE  Stored(d, j) = IF j = i THEN 0 ELSE Stored(c, j)
      <3>1. j.guild \in Guilds /\ j.id \in Users /\ (j.guild = i.guild /\ j.id = i.id <=> j = i)
        BY <1>3, <2>5, ItemTypes, ItemsDiffer
      <3>2. Stored(d, j) = d.member.of[<<j.guild, j.id>>] /\ Stored(c, j) = c.member.of[<<j.guild, j.id>>]
        BY <2>5 DEF Stored
      <3> QED BY <2>3, <2>4, <3>1, <3>2
    <2> QED BY <1>3, <2>2, <2>4, <2>5 DEF HoldsIn, Enters, MemberRemove
  <1>4. ASSUME i.kind = "voice"
        PROVE  HoldsIn(VoiceStateRemove(c, i.guild, i.id), c, i, 0)
    <2>1. i.guild \in Guilds /\ i.id \in Users /\ c.voice \in MapTypes(Users)
      BY <1>4, ItemTypes DEF Cabinets
    <2>2. PICK d : d = [c EXCEPT !.voice = Drop(@, i.guild, i.id)]
      OBVIOUS
    <2>3. /\ Drop(c.voice, i.guild, i.id) \in MapTypes(Users)
          /\ \A g \in Guilds, x \in Users : Drop(c.voice, i.guild, i.id).of[<<g, x>>] =
                IF g = i.guild /\ x = i.id THEN 0 ELSE c.voice.of[<<g, x>>]
      BY <2>1, DropsIn
    <2>4. d \in Cabinets /\ d.voice = Drop(c.voice, i.guild, i.id)
          /\ d.emoji = c.emoji
          /\ \A j \in AllItems : j.kind # "voice" => Stored(d, j) = Stored(c, j)
      BY <2>2, <2>3, ItemTypes DEF Cabinets, Stored, Kinds
    <2>5. ASSUME NEW j \in AllItems, j.kind = "voice"
          PROVE  Stored(d, j) = IF j = i THEN 0 ELSE Stored(c, j)
      <3>1. j.guild \in Guilds /\ j.id \in Users /\ (j.guild = i.guild /\ j.id = i.id <=> j = i)
        BY <1>4, <2>5, ItemTypes, ItemsDiffer
      <3>2. Stored(d, j) = d.voice.of[<<j.guild, j.id>>] /\ Stored(c, j) = c.voice.of[<<j.guild, j.id>>]
        BY <2>5 DEF Stored
      <3> QED BY <2>3, <2>4, <3>1, <3>2
    <2> QED BY <1>4, <2>2, <2>4, <2>5 DEF HoldsIn, Enters, VoiceStateRemove
  <1> QED BY <1>1, <1>2, <1>3, <1>4

(* A bare member is stored as it is, and nobody's is none of the items.     *)
LEMMA BareEffect ==
  ASSUME NEW c \in Cabinets, NEW i \in AllItems, i.kind = "member", NEW v \in Nat
  PROVE  HoldsIn(BareMemberSet(c, i.guild, i.id, v), c, i, v)
  <1>1. PICK d : d = Store(c, i, v, TRUE)
    OBVIOUS
  <1>2. HoldsIn(d, c, i, v)
    BY <1>1, StoreEffect DEF Kept, Put
  <1>3. PICK b : b = [d EXCEPT !.bare = @ \cup {<<i.guild, i.id>>}]
    OBVIOUS
  <1>4. b = BareMemberSet(c, i.guild, i.id, v)
    <2>1. d = MemberSet(c, i.guild, i.id, v, TRUE)
      BY <1>1 DEF Store
    <2> QED BY <1>3, <2>1 DEF BareMemberSet
  <1>5. i.guild \in Guilds /\ i.id \in Users /\ d \in Cabinets
    BY <1>2, ItemTypes DEF HoldsIn
  <1>6. b \in Cabinets /\ b.emoji = d.emoji
    BY <1>3, <1>5 DEF Cabinets
  <1>7. \A j \in AllItems : Stored(b, j) = Stored(d, j)
    BY <1>3, <1>5, ItemTypes DEF Cabinets, Stored, Kinds
  <1> QED BY <1>2, <1>4, <1>6, <1>7 DEF HoldsIn, Enters

LEMMA NobodyEffect ==
  ASSUME NEW c \in Cabinets, NEW g \in Guilds, NEW d, d = NobodySet(c, g)
  PROVE  d \in Cabinets /\ d.emoji = c.emoji /\ \A j \in AllItems : Stored(d, j) = Stored(c, j)
  <1>1. PICK s : s = [c.member EXCEPT !.known = @ \cup {g}]
    OBVIOUS
  <1>2. s \in MapTypes(Users) /\ s.of = c.member.of
    BY <1>1 DEF Cabinets, MapTypes
  <1>3. d = [c EXCEPT !.member = s]
    BY <1>1 DEF NobodySet
  <1> QED BY <1>2, <1>3, ItemTypes DEF Cabinets, Stored, Kinds

LEMMA NewHolds == New \in Cabinets /\ \A i \in AllItems : Stored(New, i) = 0
  <1>1. New \in Cabinets
    <2>1. NewChannel \in ChannelTypes
      BY DEF NewChannel, ChannelTypes
    <2>2. NewMember \in MapTypes(Users) /\ NewPresence \in MapTypes(Users) /\ NewRole \in MapTypes(Roles)
          /\ NewVoiceState \in MapTypes(Users)
      BY DEF NewMember, NewPresence, NewRole, NewVoiceState, Maps, MapTypes
    <2>3. NewEmoji \in EmojiTypes /\ NewBare \in SUBSET (Guilds \X Users)
      BY DEF NewEmoji, EmojiTypes, NewBare
    <2> QED BY <2>1, <2>2, <2>3 DEF New, Cabinets, NewMe, NewGuild
  <1>2. ASSUME NEW i \in AllItems
        PROVE  Stored(New, i) = 0
    BY ItemTypes DEF New, Stored, Kinds, NewMe, NewGuild, NewEmoji, NewMember, NewPresence, NewRole,
                     NewVoiceState, NewChannel, Maps
  <1> QED BY <1>1, <1>2

-----------------------------------------------------------------------------
(* What an event does to the store of an item: nothing, if it says nothing  *)
(* of it, but for those that clear the store; and else it stores what it    *)
(* says, over what is there if it is firm.                                  *)

LEMMA OnItem ==
  ASSUME items \subseteq AllItems, NEW c \in Cabinets, NEW e, TellsItem(e), e.type # "GuildMemberUpdate"
  PROVE  HoldsIn(onEvent(c, e), c, e.item, Put(Stored(c, e.item), e.ver, Firm(e, e.item)))
  <1>1. PICK i \in AllItems : i = e.item
    BY DEF TellsItem
  <1>2. PICK v \in Nat : v = e.ver
    BY DEF TellsItem
  <1>3. PICK t : t = e.type
    OBVIOUS
  <1>4. \A over \in BOOLEAN :
            i.kind # "emoji" \/ over
                => HoldsIn(Store(c, i, v, over), c, i, Put(Stored(c, i), v, over \/ i.kind = "channel"))
    BY StoreEffect DEF Kept
  <1>5. TRUE \in BOOLEAN /\ FALSE \in BOOLEAN
    OBVIOUS
  <1>6. \/ v # 0 /\ t \in {CreateEvent(i)} \cup UpdateEvents(i)
        \/ v # 0 /\ t \in MemberEvents /\ i.kind = "member"
        \/ v = 0 /\ t = DeleteEvent(i)
    BY <1>1, <1>2, <1>3 DEF TellsItem
  <1>7. t # "none"
    BY <1>3 DEF TellsItem
  <1> DEFINE d == onEvent(c, e)
             Goal == HoldsIn(d, c, i, Put(Stored(c, i), v, Firm(e, i)))
  <1>8. CASE i.kind = "me"
    <2>1. t = "UserUpdate"
      BY <1>6, <1>7, <1>8 DEF CreateEvent, UpdateEvents, DeleteEvent
    <2>2. d = Store(c, i, v, TRUE)
      BY <1>2, <1>3, <1>8, <2>1 DEF onEvent, Bringing, OnUserUpdate, Store
    <2>3. Firm(e, i) = TRUE
      BY <1>3, <2>1 DEF Firm, Tentative, Bringing
    <2> QED BY <1>1, <1>2, <1>4, <1>5, <2>2, <2>3
  <1>9. CASE i.kind = "guild"
    <2>1. t = "GuildUpdate"
      BY <1>6, <1>7, <1>9 DEF CreateEvent, UpdateEvents, DeleteEvent
    <2>2. d = Store(c, i, v, TRUE)
      BY <1>1, <1>2, <1>3, <1>9, <2>1 DEF onEvent, Bringing, OnGuildUpdate, Store
    <2>3. Firm(e, i) = TRUE
      BY <1>3, <2>1 DEF Firm, Tentative, Bringing
    <2> QED BY <1>1, <1>2, <1>4, <1>5, <2>2, <2>3
  <1>10. CASE i.kind = "emoji"
    <2>1. t = "GuildEmojisUpdate"
      BY <1>6, <1>7, <1>10 DEF CreateEvent, UpdateEvents, DeleteEvent
    <2>2. d = Store(c, i, v, TRUE)
      BY <1>1, <1>2, <1>3, <1>10, <2>1 DEF onEvent, Bringing, OnGuildEmojisUpdate, Store
    <2>3. Firm(e, i) = TRUE
      BY <1>3, <2>1 DEF Firm, Tentative, Bringing
    <2> QED BY <1>1, <1>2, <1>4, <1>5, <2>2, <2>3
  <1>11. CASE i.kind = "presence"
    <2>1. t \in {"PresenceUpdate", "PresencesReplace"}
      BY <1>6, <1>7, <1>11 DEF CreateEvent, UpdateEvents, DeleteEvent
    <2>2. d = Store(c, i, v, TRUE)
      BY <1>1, <1>2, <1>3, <1>11, <2>1 DEF onEvent, Bringing, OnPresenceUpdate, Store
    <2>3. Firm(e, i) = TRUE
      BY <1>3, <2>1 DEF Firm, Tentative, Bringing
    <2> QED BY <1>1, <1>2, <1>4, <1>5, <2>2, <2>3
  <1>12. CASE i.kind = "voice"
    <2>1. t = "VoiceStateUpdate"
      BY <1>6, <1>7, <1>12 DEF CreateEvent, UpdateEvents, DeleteEvent
    <2>2. d = IF v = 0 THEN VoiceStateRemove(c, i.guild, i.id) ELSE Store(c, i, v, TRUE)
      BY <1>1, <1>2, <1>3, <1>12, <2>1 DEF onEvent, Bringing, OnVoiceStateUpdate, Store
    <2>3. Firm(e, i) = TRUE
      BY <1>3, <2>1 DEF Firm, Tentative, Bringing
    <2>4. CASE v = 0
      BY <1>1, <1>2, <1>12, <2>2, <2>3, <2>4, RemoveEffect DEF Put
    <2>5. CASE v # 0
      BY <1>1, <1>2, <1>4, <1>5, <2>2, <2>3, <2>5
    <2> QED BY <2>4, <2>5
  <1>13. CASE i.kind = "role"
    <2>1. \/ v # 0 /\ t \in {"GuildRoleCreate", "GuildRoleUpdate"}
          \/ v = 0 /\ t = "GuildRoleDelete"
      BY <1>6, <1>7, <1>13 DEF CreateEvent, UpdateEvents, DeleteEvent
    <2>2. CASE t = "GuildRoleCreate"
      <3>1. d = Store(c, i, v, FALSE)
        BY <1>1, <1>2, <1>3, <1>13, <2>2 DEF onEvent, Bringing, OnGuildRoleCreate, Store
      <3>2. Firm(e, i) = FALSE
        BY <1>3, <1>13, <2>2 DEF Firm, Tentative, Bringing
      <3> QED BY <1>1, <1>2, <1>4, <1>5, <1>13, <3>1, <3>2
    <2>3. CASE t = "GuildRoleUpdate"
      <3>1. d = Store(c, i, v, TRUE)
        BY <1>1, <1>2, <1>3, <1>13, <2>3 DEF onEvent, Bringing, OnGuildRoleUpdate, Store
      <3>2. Firm(e, i) = TRUE
        BY <1>3, <2>3 DEF Firm, Tentative, Bringing
      <3> QED BY <1>1, <1>2, <1>4, <1>5, <3>1, <3>2
    <2>4. CASE v = 0 /\ t = "GuildRoleDelete"
      <3>1. d = RoleRemove(c, i.guild, i.id)
        BY <1>1, <1>3, <2>4 DEF onEvent, Bringing, OnGuildRoleDelete
      <3>2. Firm(e, i) = TRUE
        BY <1>3, <2>4 DEF Firm, Tentative, Bringing
      <3> QED BY <1>1, <1>2, <1>13, <2>4, <3>1, <3>2, RemoveEffect DEF Put
    <2> QED BY <2>1, <2>2, <2>3, <2>4
  <1>14. CASE i.kind = "member"
    <2>1. \/ v # 0 /\ t \in {"GuildMemberAdd"} \cup MemberEvents
          \/ v = 0 /\ t = "GuildMemberRemove"
      BY <1>3, <1>6, <1>7, <1>14 DEF CreateEvent, UpdateEvents, DeleteEvent
    <2>2. CASE t \in {"GuildMemberAdd", "GuildMembersChunk"}
      <3>1. d = Store(c, i, v, FALSE)
        BY <1>1, <1>2, <1>3, <1>14, <2>2 DEF onEvent, Bringing, OnGuildMemberAdd, OnGuildMembersChunk, Store
      <3>2. Firm(e, i) = FALSE
        BY <1>3, <1>14, <2>2 DEF Firm, Tentative, Bringing
      <3> QED BY <1>1, <1>2, <1>4, <1>5, <1>14, <3>1, <3>2
    <2>3. CASE t = "MemberFound"
      <3>1. d = Store(c, i, v, TRUE)
        BY <1>1, <1>2, <1>3, <1>14, <2>3 DEF onEvent, Bringing, OnGuildMemberUpdate, Store
      <3>2. Firm(e, i) = TRUE
        BY <1>3, <2>3 DEF Firm, Tentative, Bringing
      <3> QED BY <1>1, <1>2, <1>4, <1>5, <1>14, <3>1, <3>2
    <2>5. CASE t = "MemberMissing"
      <3>1. d = BareMemberSet(c, i.guild, i.id, v)
        BY <1>1, <1>2, <1>3, <2>5 DEF onEvent, Bringing, OnGuildMemberUpdate
      <3>2. Firm(e, i) = TRUE
        BY <1>3, <2>5 DEF Firm, Tentative, Bringing
      <3> QED BY <1>1, <1>2, <1>14, <3>1, <3>2, BareEffect DEF Put
    <2>4. CASE v = 0 /\ t = "GuildMemberRemove"
      <3>1. d = MemberRemove(c, i.guild, i.id)
        BY <1>1, <1>3, <2>4 DEF onEvent, Bringing, OnGuildMemberRemove
      <3>2. Firm(e, i) = TRUE
        BY <1>3, <2>4 DEF Firm, Tentative, Bringing
      <3> QED BY <1>1, <1>2, <1>14, <2>4, <3>1, <3>2, RemoveEffect DEF Put
    <2> QED BY <2>1, <2>2, <2>3, <2>4, <2>5 DEF MemberEvents
  <1>15. CASE i.kind = "channel"
    <2>1. \/ v # 0 /\ t \in {"ThreadCreate", "ChannelCreate", "ThreadUpdate", "ThreadListSync", "ChannelUpdate"}
          \/ v = 0 /\ t \in {"ThreadDelete", "ChannelDelete"}
      BY <1>6, <1>7, <1>15 DEF CreateEvent, UpdateEvents, DeleteEvent
    <2>2. Firm(e, i) = TRUE
      BY <1>15 DEF Firm
    <2>3. CASE t \in {"ThreadCreate", "ChannelCreate"}
      <3>1. d = Store(c, i, v, FALSE)
        BY <1>1, <1>2, <1>3, <1>15, <2>3 DEF onEvent, Bringing, OnChannelCreate, Store
      <3> QED BY <1>1, <1>2, <1>4, <1>5, <1>15, <2>2, <3>1
    <2>4. CASE t \in {"ThreadUpdate", "ThreadListSync", "ChannelUpdate"}
      <3>1. d = Store(c, i, v, TRUE)
        BY <1>1, <1>2, <1>3, <1>15, <2>4 DEF onEvent, Bringing, OnChannelUpdate, Store
      <3> QED BY <1>1, <1>2, <1>4, <1>5, <1>15, <2>2, <3>1
    <2>5. CASE v = 0 /\ t = "ChannelDelete"
      <3>1. d = ChannelRemove(c, i.id)
        BY <1>1, <1>3, <2>5 DEF onEvent, Bringing, OnChannelDelete
      <3> QED BY <1>1, <1>2, <1>15, <2>2, <2>5, <3>1, ChannelEffect DEF Put
    <2>6. CASE v = 0 /\ t = "ThreadDelete"
      <3>1. d = IF Stored(c, i) # 0 THEN ChannelRemove(c, i.id) ELSE c
        BY <1>1, <1>3, <1>15, <2>6 DEF onEvent, Bringing, OnThreadDelete, HasChannel, Stored
      <3>2. HoldsIn(ChannelRemove(c, i.id), c, i, 0)
        BY <1>15, <1>2, <2>6, ChannelEffect
      <3>3. Stored(c, i) = 0 => HoldsIn(c, c, i, 0)
        BY DEF HoldsIn, Enters
      <3> QED BY <1>1, <1>2, <2>2, <2>6, <3>1, <3>2, <3>3 DEF Put
    <2> QED BY <2>1, <2>3, <2>4, <2>5, <2>6
  <1> QED BY <1>1, <1>2, <1>8, <1>9, <1>10, <1>11, <1>12, <1>13, <1>14, <1>15, ItemTypes DEF Kinds

LEMMA SaysWhat ==
  ASSUME NEW e, NEW i
  PROVE  /\ TellsItem(e) => Says(e, i) = IF e.item = i THEN {e.ver} ELSE {}
         /\ TellsData(e) => \A v : v \in Says(e, i) <=> \E f \in e.data : f.item = i /\ f.ver = v
         /\ TellsNothing(e) => Says(e, i) = {}
  <1>1. ASSUME TellsItem(e)
        PROVE  Says(e, i) = IF e.item = i THEN {e.ver} ELSE {}
    <2>1. News(e) = {e}
      BY <1>1 DEF TellsItem, News
    <2> QED BY <2>1 DEF Says
  <1>2. ASSUME TellsData(e)
        PROVE  \A v : v \in Says(e, i) <=> \E f \in e.data : f.item = i /\ f.ver = v
    <2>1. News(e) = e.data
      BY <1>2 DEF TellsData, News
    <2> QED BY <2>1 DEF Says
  <1>3. ASSUME TellsNothing(e)
        PROVE  Says(e, i) = {}
    <2>1. News(e) = {}
      BY <1>3 DEF TellsNothing, News
    <2> QED BY <2>1 DEF Says
  <1> QED BY <1>1, <1>2, <1>3

(* What is stored of i after event e, when it was old before.               *)
After(e, i, old, new) ==
    /\ Says(e, i) = {} => new = IF Clears(e, i) THEN 0 ELSE old
    /\ \A v \in Says(e, i) : new = Put(old, v, Firm(e, i))

LEMMA OneThing ==
  ASSUME NEW e, Tells(e), NEW i, NEW v \in Says(e, i)
  PROVE  v \in Nat /\ (~Firm(e, i) => v # 0) /\ \A w \in Says(e, i) : w = v
  <1>1. CASE TellsItem(e)
    <2>1. e.item = i /\ e.ver = v /\ \A w \in Says(e, i) : w = v
      BY <1>1, SaysWhat
    <2>2. v = 0 => Firm(e, i)
      <3>1. DeleteEvent(i) \notin Tentative \cup Bringing
        BY DEF DeleteEvent, Tentative, Bringing
      <3> QED BY <1>1, <2>1, <3>1 DEF TellsItem, Firm
    <2> QED BY <1>1, <2>1, <2>2 DEF TellsItem
  <1>2. CASE TellsData(e)
    <2>1. PICK f \in e.data : f.item = i /\ f.ver = v
      BY <1>2, SaysWhat
    <2>2. \A w \in Says(e, i) : \E g \in e.data : g.item = i /\ g.ver = w
      BY <1>2, SaysWhat
    <2> QED BY <1>2, <2>1, <2>2 DEF TellsData, Facts
  <1>3. CASE TellsNothing(e)
    BY <1>3, SaysWhat
  <1> QED BY <1>1, <1>2, <1>3 DEF Tells

LEMMA ItemsClearNothing ==
  ASSUME items \subseteq AllItems, NEW e, TellsItem(e), NEW i
  PROVE  ~Clears(e, i)
  <1>1. /\ CreateEvent(e.item) \notin {"Ready", "GuildDelete"} /\ DeleteEvent(e.item) \notin {"Ready", "GuildDelete"}
        /\ MemberEvents \cap {"Ready", "GuildDelete"} = {}
    BY DEF CreateEvent, DeleteEvent, MemberEvents
  <1>2. e.item \in AllItems /\ e.item.kind \in Kinds
    BY ItemTypes DEF TellsItem
  <1>3. UpdateEvents(e.item) \cap {"Ready", "GuildDelete"} = {}
    BY <1>2 DEF UpdateEvents, Kinds
  <1> QED BY <1>1, <1>3 DEF TellsItem, Clears

(* An event that is handled after it has brought what it brings.            *)
LEMMA OnEvent ==
  ASSUME items \subseteq AllItems, NEW c \in Cabinets, NEW e, Tells(e), e.type # "GuildMemberUpdate",
         e.type \in Bringing => e.data = {}, NEW i \in items
  PROVE  onEvent(c, e) \in Cabinets /\ After(e, i, Stored(c, i), Stored(onEvent(c, e), i))
  <1>1. i \in AllItems
    OBVIOUS
  <1>2. CASE TellsItem(e)
    <2>1. HoldsIn(onEvent(c, e), c, e.item, Put(Stored(c, e.item), e.ver, Firm(e, e.item)))
      BY <1>2, OnItem
    <2>2. Says(e, i) = IF e.item = i THEN {e.ver} ELSE {}
      BY <1>2, SaysWhat
    <2>3. ~Clears(e, i)
      BY <1>2, ItemsClearNothing
    <2> QED BY <1>1, <2>1, <2>2, <2>3 DEF HoldsIn, After
  <1>3. CASE TellsData(e)
    <2>1. onEvent(c, e) = c
      BY <1>3 DEF TellsData, onEvent, Bringing
    <2>2. Says(e, i) = {} /\ ~Clears(e, i)
      <3>1. \A v : v \notin Says(e, i)
        BY <1>3, SaysWhat DEF TellsData
      <3> QED BY <1>3, <3>1 DEF TellsData, Clears, Bringing
    <2> QED BY <2>1, <2>2 DEF After
  <1>4. CASE TellsNothing(e)
    <2>1. Says(e, i) = {}
      BY <1>4, SaysWhat
    <2>2. CASE e.type = "Ready"
      <3>1. onEvent(c, e) = New
        BY <2>2 DEF onEvent, Bringing, OnReady, Reset
      <3> QED BY <1>1, <2>1, <2>2, <3>1, NewHolds DEF After, Clears
    <2>3. CASE e.type \in {"MessageCreate", "MessageUpdate"}
      <3>1. onEvent(c, e) = NobodySet(c, e.guild) /\ e.guild \in Guilds
        BY <1>4, <2>3 DEF TellsNothing, onEvent, Bringing, OnMessage
      <3>2. ~Clears(e, i)
        BY <2>3 DEF Clears
      <3> QED BY <1>1, <2>1, <3>1, <3>2, NobodyEffect DEF After
    <2>4. CASE e.type = "GuildDelete"
      <3>1. onEvent(c, e) = GuildRemove(c, e.guild) /\ e.guild \in Guilds
        BY <1>4, <2>4 DEF TellsNothing, onEvent, Bringing, OnGuildDelete
      <3>2. PICK j \in AllItems : j.kind = "guild" /\ j.guild = e.guild
        <4>1. Item("guild", e.guild, "all") \in AllItems
          BY <3>1 DEF AllItems, ItemsOf, Kinds
        <4> QED BY <4>1 DEF Item
      <3>3. HoldsIn(onEvent(c, e), c, j, 0)
        BY <3>1, <3>2, RemoveEffect
      <3>4. Clears(e, i) <=> i = j
        <4>1. Clears(e, i) <=> i.kind = "guild" /\ i.guild = j.guild
          BY <2>4, <3>2 DEF Clears
        <4> QED BY <1>1, <3>2, <4>1, ItemTypes, ItemsDiffer
      <3> QED BY <1>1, <2>1, <3>3, <3>4 DEF HoldsIn, After
    <2> QED BY <1>4, <2>2, <2>3, <2>4 DEF TellsNothing
  <1> QED BY <1>2, <1>3, <1>4 DEF Tells

(* Only emojis are entered, by a list of them.                              *)
LEMMA OnEntries ==
  ASSUME items \subseteq AllItems, NEW c \in Cabinets, NEW e, Tells(e), e.type # "GuildMemberUpdate",
         e.type \in Bringing => e.data = {}
  PROVE  \/ e.type = "Ready" /\ onEvent(c, e).emoji.known = {}
         \/ /\ e.type # "Ready" /\ c.emoji.known \subseteq onEvent(c, e).emoji.known
            /\ \A g \in onEvent(c, e).emoji.known \ c.emoji.known :
                   \A i \in items : i.kind = "emoji" /\ i.guild = g => Stored(onEvent(c, e), i) # 0
  <1>1. CASE TellsItem(e)
    <2>1. PICK i \in items : i = e.item
      BY <1>1 DEF TellsItem
    <2>2. HoldsIn(onEvent(c, e), c, i, Put(Stored(c, i), e.ver, Firm(e, i)))
      BY <1>1, <2>1, OnItem
    <2>3. i.kind = "emoji" => e.ver # 0 /\ Put(Stored(c, i), e.ver, Firm(e, i)) # 0
      <3>1. i.kind = "emoji" => e.ver # 0
        BY <1>1, <2>1 DEF TellsItem, DeleteEvent
      <3> QED BY <3>1 DEF Put
    <2>4. ~Clears(e, i)
      BY <1>1, <2>1, ItemsClearNothing
    <2>5. \A j \in items : j.kind = "emoji" /\ i.kind = "emoji" /\ j.guild = i.guild => j = i
      BY ItemTypes, ItemsDiffer
    <2> QED BY <2>1, <2>2, <2>3, <2>4, <2>5 DEF HoldsIn, Enters, Clears
  <1>2. CASE TellsData(e)
    <2>1. onEvent(c, e) = c /\ e.type # "Ready"
      BY <1>2 DEF TellsData, onEvent, Bringing
    <2> QED BY <2>1
  <1>3. CASE e.type = "Ready"
    BY <1>3 DEF onEvent, Bringing, OnReady, Reset, New, NewEmoji
  <1>4. CASE e.type \in {"MessageCreate", "MessageUpdate"} /\ TellsNothing(e)
    <2>1. onEvent(c, e) = NobodySet(c, e.guild)
      BY <1>4 DEF onEvent, Bringing, OnMessage
    <2>2. onEvent(c, e).emoji = c.emoji
      BY <1>4, <2>1, NobodyEffect DEF TellsNothing
    <2> QED BY <1>4, <2>2
  <1>5. CASE e.type = "GuildDelete"
    <2>1. onEvent(c, e) = GuildRemove(c, e.guild)
      BY <1>5 DEF onEvent, Bringing, OnGuildDelete
    <2>2. onEvent(c, e).emoji = c.emoji
      BY <2>1 DEF GuildRemove, Cabinets
    <2> QED BY <1>5, <2>2
  <1> QED BY <1>1, <1>2, <1>3, <1>4, <1>5 DEF Tells, TellsNothing

-----------------------------------------------------------------------------
(* What the server says is true when it says it.                            *)

ServerTypes ==
    /\ items \subseteq AllItems /\ IsFiniteSet(items)
    /\ ver \in [items -> Nat \ {0}] /\ here \subseteq items

True(data) == \A f \in data : f.item \in here /\ f.ver = Truth(f.item)

LEMMA SubFacts ==
  ASSUME NEW data, Facts(data), NEW some, some \subseteq data
  PROVE  Facts(some) /\ (True(data) => True(some))
  BY FS_Subset DEF Facts, True

LEMMA SnapshotTrue ==
  ASSUME ServerTypes, NEW which
  PROVE  /\ Facts(Snapshot(which)) /\ True(Snapshot(which))
         /\ \A f \in Snapshot(which) : f.item \in which
         /\ \A i \in which \cap here : \E f \in Snapshot(which) : f.item = i
  <1> DEFINE f == [i \in which \cap here |-> [item |-> i, ver |-> ver[i]]]
  <1>1. IsFiniteSet(which \cap here)
    BY FS_Subset DEF ServerTypes
  <1>2. f \in Surjection(which \cap here, Snapshot(which))
    BY DEF Surjection, Snapshot
  <1>3. IsFiniteSet(Snapshot(which))
    <2> HIDE DEF f
    <2> QED BY <1>1, <1>2, FS_Surjection
  <1>4. \A d \in Snapshot(which) : \E i \in which \cap here : d = [item |-> i, ver |-> ver[i]]
    BY DEF Snapshot
  <1>5. \A i \in which \cap here : [item |-> i, ver |-> ver[i]] \in Snapshot(which)
    BY DEF Snapshot
  <1>6. \A i \in which \cap here : i \in items /\ ver[i] \in Nat \ {0} /\ Truth(i) = ver[i]
    BY DEF ServerTypes, Truth
  <1>7. \A d \in Snapshot(which) :
            /\ d.item \in which \cap here /\ d.ver = ver[d.item] /\ d = [item |-> d.item, ver |-> ver[d.item]]
            /\ d \in [item : items, ver : Nat \ {0}]
    BY <1>4, <1>6
  <1>8. Facts(Snapshot(which))
    BY <1>3, <1>7, Zenon DEF Facts
  <1> QED BY <1>5, <1>6, <1>7, <1>8 DEF True

(* READY, what it brings, and READY_SUPPLEMENTAL.                           *)
GreetsWith(q, a, b) ==
    /\ Len(q) = (IF account = "user" THEN 3 ELSE 2) /\ \E S : q \in Seq(S)
    /\ q[1] = [type |-> "Ready"] /\ q[2] = a /\ (account = "user" => q[3] = b)
    /\ TellsData(a) /\ a.type = "ReadyStores" /\ True(a.data)
    /\ TellsData(b) /\ b.type = "ReadySupplemental" /\ True(b.data)
    /\ account = "user" =>
           \A i \in here : i.guild \in joined => \E f \in a.data \cup b.data : f.item = i

LEMMA GreetingBrings ==
  ASSUME ServerTypes
  PROVE  \E a, b : GreetsWith(Greeting, a, b)
  <1> DEFINE own == {i \in items : i.kind = "me" \/ (account = "user" /\ i.guild = NoGuild)}
             data == Snapshot(GuildItems(Full) \cup own)
             late == {d \in data : d.item.kind \in Late}
             r == [type |-> "Ready"]
             x == [type |-> "ReadyStores", guilds |-> joined, data |-> data \ late]
             y == [type |-> "ReadySupplemental", data |-> late]
  <1>1. Greeting = <<r, x>> \o (IF account = "user" THEN <<y>> ELSE <<>>)
    BY Zenon DEF Greeting
  <1>2. Facts(data) /\ True(data)
    BY SnapshotTrue
  <1>3. data \ late \subseteq data /\ late \subseteq data
    OBVIOUS
  <1>4. TellsData(x) /\ x.type = "ReadyStores" /\ True(x.data)
    <2>1. Facts(data \ late) /\ True(data \ late)
      <3> HIDE DEF data, late
      <3> QED BY <1>2, <1>3, SubFacts
    <2> HIDE DEF data, late
    <2> QED BY <2>1 DEF TellsData, Bringing
  <1>5. TellsData(y) /\ y.type = "ReadySupplemental" /\ True(y.data)
    <2>1. Facts(late) /\ True(late)
      <3> HIDE DEF data, late
      <3> QED BY <1>2, <1>3, SubFacts
    <2> HIDE DEF data, late
    <2> QED BY <2>1 DEF TellsData, Bringing
  <1>6. ASSUME account = "user", NEW i \in here, i.guild \in joined
        PROVE  \E f \in x.data \cup y.data : f.item = i
    <2>1. i \in (GuildItems(Full) \cup own) \cap here
      BY <1>6 DEF ServerTypes, GuildItems, Full
    <2>2. \E f \in data : f.item = i
      <3> HIDE DEF own
      <3> QED BY <2>1, SnapshotTrue
    <2>3. x.data = data \ late /\ y.data = late
      OBVIOUS
    <2>4. data \subseteq x.data \cup y.data
      <3> HIDE DEF data, x, y, late
      <3> QED BY <2>3
    <2> HIDE DEF data, x, y, late
    <2> QED BY <2>2, <2>4
  <1> HIDE DEF x, y, r
  <1>7. account = "user" => \A i \in here : i.guild \in joined => \E f \in x.data \cup y.data : f.item = i
    BY <1>6
  <1>8. /\ Len(Greeting) = (IF account = "user" THEN 3 ELSE 2) /\ \E S : Greeting \in Seq(S)
        /\ Greeting[1] = r /\ Greeting[2] = x /\ (account = "user" => Greeting[3] = y)
    <2>1. CASE account = "user"
      <3>1. Greeting = <<r, x>> \o <<y>>
        BY <1>1, <2>1
      <3>2. Greeting \in Seq({r, x, y}) /\ Len(Greeting) = 3 /\ Greeting[1] = r /\ Greeting[2] = x /\ Greeting[3] = y
        BY <3>1
      <3> QED BY <2>1, <3>2
    <2>2. CASE account # "user"
      <3>1. Greeting = <<r, x>> \o <<>>
        BY <1>1, <2>2
      <3>2. Greeting \in Seq({r, x}) /\ Len(Greeting) = 2 /\ Greeting[1] = r /\ Greeting[2] = x
        BY <3>1
      <3> QED BY <2>2, <3>2
    <2> QED BY <2>1, <2>2
  <1>9. r = [type |-> "Ready"]
    BY DEF r
  <1>10. GreetsWith(Greeting, x, y)
    BY <1>4, <1>5, <1>7, <1>8, <1>9, Zenon DEF GreetsWith
  <1> QED BY <1>10

-----------------------------------------------------------------------------
(* What becomes of one item when the queue grows at its end.                *)

LEMMA AtEnd ==
  ASSUME NEW e, Grows(e), NEW l \in Nat, l = Len(queue), NEW i, Cached(i)' = Cached(i), NEW n \in 0..(l + 1), NEW v
  PROVE  /\ n = l + 1 => (LeftAt(n, i, v)' <=> Decides(e, i) /\ Leaves(e, i, v)) /\ TrueAfter(n, i)'
         /\ n # l + 1 =>
               /\ n \in 0..Len(queue)
               /\ LeftAt(n, i, v)' <=> LeftAt(n, i, v)
               /\ LastAt(n, i)' => LastAt(n, i) /\ ~Decides(e, i)
               /\ LastAt(n, i) /\ (\A m \in (n + 1)..Len(queue) : Says(queue[m], i) \subseteq {Truth(i)'})
                     /\ Says(e, i) \subseteq {Truth(i)'} => TrueAfter(n, i)'
  <1>1. Len(queue') = l + 1 /\ queue'[l + 1] = e /\ \A k \in 1..l : queue'[k] = queue[k]
    BY DEF Grows
  <1>2. CASE n = l + 1
    <2>1. ((l + 1) + 1)..(l + 1) = {} /\ l + 1 # 0
      OBVIOUS
    <2> QED BY <1>1, <1>2, <2>1 DEF LeftAt, TrueAfter
  <1>3. CASE n # l + 1
    <2>1. /\ n \in 0..l /\ l + 1 \in (n + 1)..(l + 1)
          /\ \A m \in (n + 1)..l : m \in (n + 1)..(l + 1) /\ m \in 1..l
          /\ \A m \in (n + 1)..(l + 1) : m = l + 1 \/ m \in (n + 1)..l
      BY <1>3
    <2>2. n = 0 \/ n \in 1..l
      BY <2>1
    <2>3. LeftAt(n, i, v)' <=> LeftAt(n, i, v)
      BY <1>1, <2>2 DEF LeftAt
    <2>4. LastAt(n, i)' => LastAt(n, i) /\ ~Decides(e, i)
      BY <1>1, <2>1 DEF LastAt
    <2>5. (\A m \in (n + 1)..Len(queue) : Says(queue[m], i) \subseteq {Truth(i)'})
             /\ Says(e, i) \subseteq {Truth(i)'} => TrueAfter(n, i)'
      BY <1>1, <2>1 DEF TrueAfter
    <2> QED BY <1>3, <2>1, <2>3, <2>4, <2>5
  <1> QED BY <1>2, <1>3

(* The server says what was true before, if it says anything.               *)
LEMMA ReflectsMore ==
  ASSUME NEW e, Grows(e), Len(queue) \in Nat, NEW i, Reflects(i), Cached(i)' = Cached(i), Truth(i)' = Truth(i),
         Honest(i) => Honest(i)',
         Says(e, i) \subseteq {Truth(i)} \ {0}, Says(e, i) = {} => ~Clears(e, i)
  PROVE  Reflects(i)'
  <1>1. PICK l \in Nat : l = Len(queue)
    OBVIOUS
  <1>2. Len(queue') = l + 1
    BY <1>1 DEF Grows
  <1>3. ASSUME NEW n \in 0..(l + 1), NEW v \in Nat, LastAt(n, i)', LeftAt(n, i, v)'
        PROVE  \/ v = Truth(i)' /\ v # 0
               \/ v = 0 /\ TrueAfter(n, i)' /\ Honest(i)'
    <2>1. CASE n = l + 1
      <3>1. Decides(e, i) /\ Leaves(e, i, v)
        BY <1>1, <1>3, <2>1, AtEnd
      <3> QED BY <3>1 DEF Decides, Leaves
    <2>2. CASE n # l + 1
      <3>1. n \in 0..Len(queue) /\ LeftAt(n, i, v) /\ LastAt(n, i)
        BY <1>1, <1>3, <2>2, AtEnd
      <3>2. TrueAfter(n, i) => TrueAfter(n, i)'
        BY <1>1, <2>2, <3>1, AtEnd DEF TrueAfter
      <3> QED BY <3>1, <3>2 DEF Reflects
    <2> QED BY <2>1, <2>2
  <1> QED BY <1>2, <1>3 DEF Reflects

(* An event that decides.                                                   *)
LEMMA ReflectsDecided ==
  ASSUME NEW e, Grows(e), Len(queue) \in Nat, NEW i, Cached(i)' = Cached(i),
         Decides(e, i), Rash(i) => Honest(i)',
         \A v \in Nat : Leaves(e, i, v) => (v = Truth(i)' /\ v # 0) \/ (v = 0 /\ Honest(i)')
  PROVE  Reflects(i)'
  <1>1. PICK l \in Nat : l = Len(queue)
    OBVIOUS
  <1>2. Len(queue') = l + 1
    BY <1>1 DEF Grows
  <1>3. ASSUME NEW n \in 0..(l + 1), NEW v \in Nat, LastAt(n, i)', LeftAt(n, i, v)'
        PROVE  \/ v = Truth(i)' /\ v # 0
               \/ v = 0 /\ TrueAfter(n, i)' /\ Honest(i)'
    <2>1. n = l + 1
      BY <1>1, <1>3, AtEnd
    <2>2. Leaves(e, i, v) /\ TrueAfter(n, i)'
      BY <1>1, <1>3, <2>1, AtEnd
    <2> QED BY <2>2
  <1> QED BY <1>2, <1>3 DEF Reflects

(* A new item: nothing can have been said of it.                            *)
LEMMA ReflectsCreated ==
  ASSUME NEW e, Grows(e), Len(queue) \in Nat, \A n \in 1..Len(queue) : Tells(queue[n]),
         NEW i, Reflects(i), Cached(i)' = Cached(i), Truth(i) = 0, Truth(i)' \in Nat \ {0},
         Honest(i)', Says(e, i) = {Truth(i)'}
  PROVE  Reflects(i)'
  <1>1. CASE Firm(e, i)
    BY <1>1, ReflectsDecided DEF Decides, Leaves
  <1>2. CASE ~Firm(e, i)
    <2>1. PICK l \in Nat : l = Len(queue)
      OBVIOUS
    <2>2. Len(queue') = l + 1
      BY <2>1 DEF Grows
    <2>3. ASSUME NEW n \in 0..(l + 1), NEW v \in Nat, LastAt(n, i)', LeftAt(n, i, v)'
          PROVE  v = 0 /\ TrueAfter(n, i)' /\ Honest(i)'
      <3>1. n # l + 1
        BY <1>2, <2>1, <2>3, AtEnd DEF Decides
      <3>2. n \in 0..Len(queue) /\ LeftAt(n, i, v) /\ LastAt(n, i)
        BY <2>1, <2>3, <3>1, AtEnd
      <3>3. v = 0 /\ TrueAfter(n, i)
        BY <3>2 DEF Reflects
      <3>4. ASSUME NEW m \in (n + 1)..Len(queue)
            PROVE  Says(queue[m], i) = {}
        <4>1. m \in 1..Len(queue) /\ Tells(queue[m])
          BY <2>1, <3>2
        <4>2. ~Decides(queue[m], i)
          BY <3>2, <3>4 DEF LastAt
        <4>3. Says(queue[m], i) \subseteq {0}
          BY <3>3, <3>4 DEF TrueAfter
        <4> QED BY <4>1, <4>2, <4>3, OneThing DEF Decides
      <3>5. \A m \in (n + 1)..Len(queue) : Says(queue[m], i) \subseteq {Truth(i)'}
        BY <3>4
      <3>6. Says(e, i) \subseteq {Truth(i)'}
        OBVIOUS
      <3>7. TrueAfter(n, i)'
        BY <2>1, <3>1, <3>2, <3>5, <3>6, AtEnd
      <3> QED BY <3>3, <3>7
    <2> QED BY <2>2, <2>3 DEF Reflects
  <1> QED BY <1>1, <1>2

(* A change that is not told, of an item that nobody has or will have.      *)
LEMMA ReflectsUntold ==
  ASSUME UNCHANGED queue, NEW i, Cached(i)' = 0, ~Underway(i), Honest(i)', Len(queue) \in Nat, DOMAIN queue = 1..Len(queue)
  PROVE  Reflects(i)'
  <1>1. \A m \in 1..Len(queue) : Says(queue[m], i) = {}
    BY DEF Underway
  <1>2. ASSUME NEW n \in 0..Len(queue), NEW v \in Nat, LeftAt(n, i, v)'
        PROVE  v = 0 /\ TrueAfter(n, i)'
    <2>1. \A m \in (n + 1)..Len(queue) : m \in 1..Len(queue)
      OBVIOUS
    <2>2. n = 0 \/ n \in 1..Len(queue)
      OBVIOUS
    <2> QED BY <1>1, <1>2, <2>1, <2>2 DEF LeftAt, Leaves, TrueAfter
  <1> QED BY <1>2 DEF Reflects

(* Neither the queue nor the truth changes; an answer may be stored.        *)
LEMMA ReflectsStill ==
  ASSUME UNCHANGED queue, NEW i, Reflects(i), Truth(i)' = Truth(i), Honest(i) => Honest(i)',
         Cached(i) \in Nat, Cached(i)' \in Nat,
         \/ Cached(i)' = Cached(i)
         \/ Len(queue) \in Nat /\ (LastAt(0, i) => Cached(i)' = Truth(i) /\ Truth(i) # 0)
  PROVE  Reflects(i)'
  <1>1. \A n \in 0..Len(queue) : (LastAt(n, i)' <=> LastAt(n, i)) /\ (TrueAfter(n, i)' <=> TrueAfter(n, i))
    BY DEF LastAt, TrueAfter
  <1>2. \A n \in 0..Len(queue) : \A v : n # 0 => (LeftAt(n, i, v)' <=> LeftAt(n, i, v))
    BY DEF LeftAt
  <1>3. \A v : LeftAt(0, i, v)' => v = Cached(i)'
    BY DEF LeftAt
  <1>4. LeftAt(0, i, Cached(i))
    BY DEF LeftAt
  <1>5. ASSUME NEW n \in 0..Len(queue), NEW v \in Nat, LastAt(n, i)', LeftAt(n, i, v)'
        PROVE  \/ v = Truth(i)' /\ v # 0
               \/ v = 0 /\ TrueAfter(n, i)' /\ Honest(i)'
    <2>1. CASE n # 0
      BY <1>1, <1>2, <1>5, <2>1 DEF Reflects
    <2>2. CASE n = 0
      BY <1>1, <1>3, <1>4, <1>5, <2>2 DEF Reflects
    <2> QED BY <2>1, <2>2
  <1> QED BY <1>5 DEF Reflects

(* The head of the queue is handled; an item in doubt may be settled.       *)
LEMMA ReflectsHandled ==
  ASSUME Passes, NEW e, e = queue[1], Tells(e), NEW i, After(e, i, Cached(i), Cached(i)'),
         Cached(i) \in Nat, Cached(i)' \in Nat, Truth(i)' = Truth(i), Honest(i) => Honest(i)',
         Rash(i) /\ Reflects(i) => Honest(i),
         \/ Reflects(i)
         \/ Decides(e, i) /\ Honest(i) /\ \A n \in 1..Len(queue) : Says(queue[n], i) \subseteq {Truth(i)}
  PROVE  Reflects(i)'
  <1>1. PICK l \in Nat : Len(queue) = l + 1 /\ Len(queue') = l /\ \A k \in 1..l : queue'[k] = queue[k + 1]
    <2>1. Len(queue) - 1 \in Nat /\ Len(queue) = (Len(queue) - 1) + 1
      BY DEF Passes
    <2> QED BY <2>1 DEF Passes
  <1>2. ASSUME NEW n \in 0..l
        PROVE  /\ LastAt(n, i)' => LastAt(n + 1, i)
               /\ TrueAfter(n + 1, i) => TrueAfter(n, i)'
    <2>1. \A m \in ((n + 1) + 1)..(l + 1) : m - 1 \in (n + 1)..l /\ m - 1 \in 1..l /\ queue'[m - 1] = queue[m]
      <3>1. \A m \in ((n + 1) + 1)..(l + 1) : m - 1 \in (n + 1)..l /\ m - 1 \in 1..l /\ (m - 1) + 1 = m
        OBVIOUS
      <3> QED BY <1>1, <3>1
    <2>2. \A m \in (n + 1)..l : m + 1 \in ((n + 1) + 1)..(l + 1) /\ m \in 1..l
      OBVIOUS
    <2>3. LastAt(n, i)' => LastAt(n + 1, i)
      BY <1>1, <2>1 DEF LastAt
    <2>4. TrueAfter(n + 1, i) => TrueAfter(n, i)'
      BY <1>1, <2>2 DEF TrueAfter
    <2> QED BY <2>3, <2>4
  <1>3. ASSUME NEW n \in 0..l, NEW v \in Nat, LastAt(n, i)', Decides(queue[n + 1], i), Leaves(queue[n + 1], i, v)
        PROVE  \/ v = Truth(i)' /\ v # 0
               \/ v = 0 /\ TrueAfter(n, i)' /\ Honest(i)'
    <2>1. n + 1 \in 0..Len(queue) /\ n + 1 \in 1..Len(queue) /\ n + 1 # 0
      BY <1>1
    <2>2. LeftAt(n + 1, i, v) /\ LastAt(n + 1, i)
      BY <1>2, <1>3, <2>1 DEF LeftAt
    <2>3. CASE Reflects(i)
      BY <1>2, <2>1, <2>2, <2>3 DEF Reflects
    <2>4. CASE Honest(i) /\ \A m \in 1..Len(queue) : Says(queue[m], i) \subseteq {Truth(i)}
      <3>1. v = 0 \/ v = Truth(i)
        BY <1>3, <2>1, <2>4 DEF Leaves
      <3>2. TrueAfter(n + 1, i)
        <4>1. \A m \in ((n + 1) + 1)..Len(queue) : m \in 1..Len(queue)
          BY <1>1
        <4> QED BY <2>4, <4>1 DEF TrueAfter
      <3> QED BY <1>2, <2>4, <3>1, <3>2
    <2> QED BY <2>3, <2>4
  <1>4. ASSUME NEW n \in 0..l, NEW v \in Nat, LastAt(n, i)', LeftAt(n, i, v)'
        PROVE  \/ v = Truth(i)' /\ v # 0
               \/ v = 0 /\ TrueAfter(n, i)' /\ Honest(i)'
    <2>1. CASE n # 0
      <3>1. queue'[n] = queue[n + 1]
        BY <1>1, <2>1
      <3>2. Decides(queue[n + 1], i) /\ Leaves(queue[n + 1], i, v)
        BY <1>4, <2>1, <3>1 DEF LeftAt
      <3> QED BY <1>3, <1>4, <3>2
    <2>2. CASE n = 0 /\ Decides(e, i)
      <3>1. v = Cached(i)'
        BY <1>4, <2>2 DEF LeftAt
      <3>2. Leaves(e, i, v)
        BY <2>2, <3>1 DEF Leaves, After, Decides, Put
      <3>3. queue[n + 1] = e
        BY <2>2
      <3> QED BY <1>3, <1>4, <2>2, <3>2, <3>3
    <2>3. CASE n = 0 /\ ~Decides(e, i)
      <3>1. v = Cached(i)' /\ Reflects(i)
        BY <1>4, <2>3 DEF LeftAt
      <3>2. LastAt(1, i)
        <4>1. 0 + 1 = 1
          OBVIOUS
        <4> QED BY <1>2, <1>4, <2>3, <4>1
      <3>3. LastAt(0, i) /\ LeftAt(0, i, Cached(i))
        <4>1. \A m \in (0 + 1)..Len(queue) : m = 1 \/ m \in (1 + 1)..Len(queue)
          BY <1>1
        <4> QED BY <2>3, <3>2, <4>1 DEF LastAt, LeftAt
      <3>4. \/ Cached(i) = Truth(i) /\ Cached(i) # 0
            \/ Cached(i) = 0 /\ TrueAfter(0, i) /\ Honest(i)
        <4>1. 0 \in 0..Len(queue)
          BY <1>1
        <4> QED BY <3>1, <3>3, <4>1 DEF Reflects
      <3>5. TrueAfter(0, i) => TrueAfter(0, i)' /\ Says(e, i) \subseteq {Truth(i)}
        <4>1. /\ \A m \in (0 + 1)..l : m + 1 \in (0 + 1)..(l + 1) /\ m \in 1..l
              /\ 1 \in (0 + 1)..(l + 1)
          OBVIOUS
        <4> QED BY <1>1, <4>1 DEF TrueAfter
      <3>6. CASE Says(e, i) = {}
        <4>1. Cached(i)' = Cached(i)
          BY <2>3, <3>6 DEF After, Decides
        <4> QED BY <2>3, <3>1, <3>4, <3>5, <4>1
      <3>7. CASE Says(e, i) # {}
        <4>1. PICK w \in Says(e, i) : w # 0 /\ Cached(i)' = IF Cached(i) = 0 THEN w ELSE Cached(i)
          <5>1. ~Firm(e, i)
            BY <2>3, <3>7 DEF Decides
          <5> QED BY <3>7, <5>1, OneThing DEF After, Put
        <4>2. CASE Cached(i) = Truth(i) /\ Cached(i) # 0
          BY <3>1, <4>1, <4>2
        <4>3. CASE Cached(i) = 0 /\ TrueAfter(0, i) /\ Honest(i)
          <5>1. w = Truth(i)
            BY <3>5, <4>1, <4>3
          <5> QED BY <3>1, <3>5, <4>1, <4>3, <5>1
        <4> QED BY <3>4, <4>2, <4>3
      <3> QED BY <3>6, <3>7
    <2> QED BY <2>1, <2>2, <2>3
  <1>5. Rash(i) => Honest(i)'
    OBVIOUS
  <1> QED BY <1>1, <1>4, <1>5 DEF Reflects

(* What the events of the queue say of an item stays as it was.             *)
SaysAgain(i) ==
    /\ Len(queue) \in Nat /\ Len(queue') = Len(queue)
    /\ \A n \in 1..Len(queue) :
          Says(queue'[n], i) = Says(queue[n], i) /\ (Clears(queue'[n], i) <=> Clears(queue[n], i))
              /\ (Firm(queue'[n], i) <=> Firm(queue[n], i))
    /\ Cached(i)' = Cached(i) /\ Truth(i)' = Truth(i)

LEMMA ReflectsAgain ==
  ASSUME NEW i, SaysAgain(i), Reflects(i), Honest(i) => Honest(i)'
  PROVE  Reflects(i)'
  <1>1. PICK l \in Nat : l = Len(queue) /\ l = Len(queue')
    BY DEF SaysAgain
  <1>2. \A n \in 1..l : (Decides(queue'[n], i) <=> Decides(queue[n], i)) /\ \A v : (Leaves(queue'[n], i, v) <=> Leaves(queue[n], i, v))
    BY <1>1 DEF SaysAgain, Decides, Leaves
  <1>3. ASSUME NEW n \in 0..l
        PROVE  /\ (LastAt(n, i)' <=> LastAt(n, i)) /\ (TrueAfter(n, i)' <=> TrueAfter(n, i))
               /\ \A v : LeftAt(n, i, v)' <=> LeftAt(n, i, v)
    <2>1. (n = 0 \/ n \in 1..l) /\ \A m \in (n + 1)..l : m \in 1..l
      OBVIOUS
    <2>2. LastAt(n, i)' <=> LastAt(n, i)
      BY <1>1, <1>2, <2>1 DEF LastAt
    <2>3. TrueAfter(n, i)' <=> TrueAfter(n, i)
      BY <1>1, <2>1 DEF TrueAfter, SaysAgain
    <2>4. \A v : LeftAt(n, i, v)' <=> LeftAt(n, i, v)
      BY <1>1, <1>2, <2>1 DEF LeftAt, SaysAgain
    <2> QED BY <2>2, <2>3, <2>4
  <1>4. Rash(i) => Honest(i)'
    BY DEF Reflects
  <1>5. \A n \in 0..Len(queue'), v \in Nat : LastAt(n, i)' /\ LeftAt(n, i, v)' =>
           (v = Truth(i)' /\ v # 0) \/ (v = 0 /\ TrueAfter(n, i)' /\ Honest(i)')
    BY <1>1, <1>3 DEF Reflects, SaysAgain
  <1> QED BY <1>4, <1>5 DEF Reflects

(* The head of the queue has brought the item.                              *)
HasBrought(i, v) ==
    /\ Len(queue) \in Nat \ {0} /\ Len(queue') = Len(queue)
    /\ \A n \in 2..Len(queue) : queue'[n] = queue[n]
    /\ Says(queue[1], i) = {v} /\ v \in Nat \ {0} /\ Says(queue'[1], i) = {} /\ ~Clears(queue'[1], i)
    /\ (Firm(queue[1], i) <=> i.kind = "channel")
    /\ Truth(i)' = Truth(i) /\ Cached(i) \in Nat

LEMMA ReflectsBrought ==
  ASSUME NEW i, NEW v, HasBrought(i, v), Reflects(i), Honest(i) => Honest(i)',
         \/ Cached(i)' = Put(Cached(i), v, i.kind = "channel")
         \/ i.kind # "channel" /\ Cached(i)' = Cached(i)
  PROVE  Reflects(i)'
  <1>1. PICK l \in Nat \ {0} : l = Len(queue) /\ l = Len(queue')
    BY DEF HasBrought
  <1>2. (Decides(queue[1], i) <=> i.kind = "channel") /\ ~Decides(queue'[1], i) /\ \A w : Leaves(queue[1], i, w) <=> w = v
    BY DEF HasBrought, Decides, Leaves
  <1>3. ASSUME NEW n \in 0..l, NEW w \in Nat, LastAt(n, i)', LeftAt(n, i, w)'
        PROVE  (w = Truth(i)' /\ w # 0) \/ (w = 0 /\ TrueAfter(n, i)' /\ Honest(i)')
    <2>1. CASE n = 0
      <3>1. w = Cached(i)'
        BY <1>3, <2>1 DEF LeftAt
      <3>2. LastAt(1, i)
        <4>1. \A m \in (1 + 1)..l : m \in (0 + 1)..l /\ m \in 2..l
          OBVIOUS
        <4> QED BY <1>1, <1>3, <2>1, <4>1 DEF LastAt, HasBrought
      <3>3. CASE i.kind = "channel"
        <4>1. LeftAt(1, i, v)
          BY <1>2, <3>3 DEF LeftAt
        <4>2. v = Truth(i) /\ v # 0 /\ 1 \in 0..l /\ v \in Nat
          BY <1>1, <3>2, <4>1 DEF Reflects, HasBrought
        <4>3. w = v
          BY <3>1, <3>3 DEF Put
        <4> QED BY <4>2, <4>3 DEF HasBrought
      <3>4. CASE i.kind # "channel"
        <4>1. LastAt(0, i)
          <5>1. \A m \in (0 + 1)..l : m = 1 \/ m \in (1 + 1)..l
            OBVIOUS
          <5> QED BY <1>1, <1>2, <3>2, <3>4, <5>1 DEF LastAt
        <4>2. LeftAt(0, i, Cached(i)) /\ 0 \in 0..l
          BY DEF LeftAt
        <4>3. \/ Cached(i) = Truth(i) /\ Cached(i) # 0
              \/ Cached(i) = 0 /\ TrueAfter(0, i) /\ Honest(i)
          BY <1>1, <4>1, <4>2 DEF Reflects, HasBrought
        <4>4. CASE Cached(i) # 0
          BY <3>1, <3>4, <4>3, <4>4 DEF Put, HasBrought
        <4>5. CASE Cached(i) = 0
          <5>1. v = Truth(i)
            <6>1. 1 \in (0 + 1)..l
              OBVIOUS
            <6> QED BY <1>1, <4>3, <4>5, <6>1 DEF TrueAfter, HasBrought
          <5>2. TrueAfter(0, i)'
            <6>1. \A m \in (0 + 1)..l : m = 1 \/ m \in 2..l
              OBVIOUS
            <6> QED BY <1>1, <4>3, <4>5, <6>1 DEF TrueAfter, HasBrought
          <5>3. w = 0 \/ w = v
            BY <3>1, <3>4, <4>5 DEF Put
          <5> QED BY <2>1, <4>3, <4>5, <5>1, <5>2, <5>3 DEF HasBrought
        <4> QED BY <4>4, <4>5
      <3> QED BY <3>3, <3>4
    <2>2. CASE n = 1
      BY <1>2, <1>3, <2>2 DEF LeftAt
    <2>3. CASE n \in 2..l
      <3>1. queue'[n] = queue[n] /\ \A m \in (n + 1)..l : m \in 2..l /\ queue'[m] = queue[m]
        BY <1>1, <2>3 DEF HasBrought
      <3>2. LastAt(n, i)
        BY <1>1, <1>3, <3>1 DEF LastAt
      <3>3. LeftAt(n, i, w)
        BY <1>3, <2>3, <3>1 DEF LeftAt
      <3>4. TrueAfter(n, i) => TrueAfter(n, i)'
        BY <1>1, <3>1 DEF TrueAfter, HasBrought
      <3> QED BY <1>1, <3>2, <3>3, <3>4 DEF Reflects, HasBrought
    <2>4. n = 0 \/ n = 1 \/ n \in 2..l
      OBVIOUS
    <2> QED BY <2>1, <2>2, <2>3, <2>4
  <1>4. Rash(i) => Honest(i)'
    BY DEF Reflects
  <1> QED BY <1>1, <1>3, <1>4 DEF Reflects

(* A new session.                                                           *)
LEMMA GreetingSays ==
  ASSUME NEW q, NEW a, NEW c, GreetsWith(q, a, c), here \subseteq items, ver \in [items -> Nat \ {0}], NEW i
  PROVE  /\ Len(q) \in 2..3 /\ \A n \in 1..Len(q) : Tells(q[n])
         /\ Says(q[1], i) = {} /\ Clears(q[1], i)
         /\ \A n \in 2..Len(q) : Says(q[n], i) \subseteq {Truth(i)} \ {0} /\ ~Clears(q[n], i)
         /\ account = "user" /\ i \in here /\ i.guild \in joined => \E n \in 2..Len(q) : Pays(q[n], i)
  <1>1. PICK l \in 2..3 : l = Len(q) /\ (account = "user" <=> l = 3) /\ q[2] = a /\ (l = 3 => q[3] = c)
    <2>1. CASE account = "user"
      BY <2>1 DEF GreetsWith
    <2>2. CASE account # "user"
      BY <2>2 DEF GreetsWith
    <2> QED BY <2>1, <2>2
  <1>2. PICK r : r = [type |-> "Ready"] /\ q[1] = r
    BY DEF GreetsWith
  <1>3. Tells(r) /\ Says(r, i) = {} /\ Clears(r, i)
    <2>1. TellsNothing(r)
      BY <1>2 DEF TellsNothing
    <2> QED BY <1>2, <2>1, SaysWhat DEF Tells, Clears
  <1>4. Tells(a) /\ Tells(c)
    BY DEF GreetsWith, Tells
  <1>5. /\ \A v : v \in Says(a, i) <=> \E f \in a.data : f.item = i /\ f.ver = v
        /\ \A v : v \in Says(c, i) <=> \E f \in c.data : f.item = i /\ f.ver = v
    BY SaysWhat DEF GreetsWith
  <1>6. \A f \in a.data \cup c.data : f.ver = Truth(f.item) /\ f.ver # 0
    BY DEF GreetsWith, True, Truth
  <1>7. /\ Says(a, i) \subseteq {Truth(i)} \ {0} /\ Says(c, i) \subseteq {Truth(i)} \ {0}
        /\ ~Clears(a, i) /\ ~Clears(c, i)
    BY <1>5, <1>6 DEF GreetsWith, Clears
  <1>8. account = "user" /\ i \in here /\ i.guild \in joined => Pays(a, i) \/ Pays(c, i)
    <2> SUFFICES ASSUME account = "user", i \in here, i.guild \in joined
                 PROVE  Pays(a, i) \/ Pays(c, i)
      OBVIOUS
    <2>1. PICK f \in a.data \cup c.data : f.item = i
      BY DEF GreetsWith
    <2>2. f.ver # 0
      BY <1>6
    <2>3. f.ver \in Says(a, i) \/ f.ver \in Says(c, i)
      BY <1>5, <2>1
    <2> QED BY <2>2, <2>3 DEF Pays
  <1>9. \A n \in 2..l : q[n] = a \/ q[n] = c
    BY <1>1
  <1>10. \A n \in 1..l : n = 1 \/ n \in 2..l
    OBVIOUS
  <1>11. account = "user" => 2 \in 2..l /\ 3 \in 2..l /\ q[2] = a /\ q[3] = c
    BY <1>1
  <1> QED BY <1>1, <1>2, <1>3, <1>4, <1>7, <1>8, <1>9, <1>10, <1>11

-----------------------------------------------------------------------------
(* What is not stored will be.                                              *)

LEMMA BroughtMore ==
  ASSUME NEW e, Grows(e), Len(queue) \in Nat, Tells(e), NEW i, Cached(i)' = Cached(i), Coming(i) => Coming(i)',
         Owed(i)' => Pays(e, i) \/ (Owed(i) /\ Brought(i) /\ ~Wipes(e, i))
  PROVE  Brought(i)'
  <1>1. PICK l \in Nat : l = Len(queue) /\ Len(queue') = l + 1 /\ queue'[l + 1] = e
                         /\ \A k \in 1..l : queue'[k] = queue[k]
    BY DEF Grows
  <1> SUFFICES ASSUME Owed(i)', NEW n \in 0..(l + 1), WipedAt(n, i)'
               PROVE  (\E m \in (n + 1)..(l + 1) : Pays(queue'[m], i)) \/ (n = 0 /\ Coming(i)')
    BY <1>1 DEF Brought, Owed, Pays
  <1>2. CASE Pays(e, i)
    <2>1. n # l + 1
      <3>1. \A v, w \in Says(e, i) : v = w
        BY OneThing
      <3>2. ~Wipes(e, i)
        BY <1>2, <3>1 DEF Wipes, Pays
      <3> QED BY <1>1, <3>2 DEF WipedAt
    <2>2. l + 1 \in (n + 1)..(l + 1)
      BY <2>1
    <2> QED BY <1>1, <1>2, <2>2
  <1>3. CASE Owed(i) /\ Brought(i) /\ ~Wipes(e, i)
    <2>1. n # l + 1
      BY <1>1, <1>3 DEF WipedAt
    <2>2. n \in 0..Len(queue) /\ (n = 0 \/ n \in 1..l)
      BY <1>1, <2>1
    <2>3. WipedAt(n, i)
      BY <1>1, <2>2 DEF WipedAt
    <2>4. (\E m \in (n + 1)..Len(queue) : Pays(queue[m], i)) \/ (n = 0 /\ Coming(i))
      BY <1>3, <2>2, <2>3 DEF Brought
    <2>5. \A m \in (n + 1)..Len(queue) : m \in (n + 1)..(l + 1) /\ m \in 1..l
      BY <1>1
    <2> QED BY <1>1, <2>4, <2>5
  <1> QED BY <1>2, <1>3

LEMMA BroughtStill ==
  ASSUME UNCHANGED queue, NEW i, Brought(i), Owed(i)' => Owed(i), Cached(i)' = 0 => Cached(i) = 0 /\ (Coming(i) => Coming(i)')
  PROVE  Brought(i)'
  <1>1. \A n \in 0..Len(queue) : WipedAt(n, i)' => WipedAt(n, i) /\ (n = 0 => Cached(i)' = 0)
    BY DEF WipedAt, Wipes
  <1>2. \A e : Pays(e, i)' <=> Pays(e, i)
    BY DEF Pays
  <1> QED BY <1>1, <1>2 DEF Brought

LEMMA BroughtHandled ==
  ASSUME Passes, NEW e, e = queue[1], Tells(e), NEW i, After(e, i, Cached(i), Cached(i)'),
         Brought(i), Owed(i)' => Owed(i), Coming(i) /\ ~Wipes(e, i) => Coming(i)'
  PROVE  Brought(i)'
  <1>1. PICK l \in Nat : Len(queue) = l + 1 /\ Len(queue') = l /\ \A k \in 1..l : queue'[k] = queue[k + 1]
    <2>1. Len(queue) - 1 \in Nat /\ Len(queue) = (Len(queue) - 1) + 1
      BY DEF Passes
    <2> QED BY <2>1 DEF Passes
  <1> SUFFICES ASSUME Owed(i)', NEW n \in 0..l, WipedAt(n, i)'
               PROVE  (\E m \in (n + 1)..l : Pays(queue'[m], i)) \/ (n = 0 /\ Coming(i)')
    BY <1>1 DEF Brought, Owed, Pays
  <1>2. ASSUME NEW k \in 0..(l + 1), WipedAt(k, i)
        PROVE  (\E m \in (k + 1)..(l + 1) : Pays(queue[m], i)) \/ (k = 0 /\ Coming(i))
    BY <1>1, <1>2 DEF Brought, Owed, Pays
  <1>3. ASSUME NEW m \in ((n + 1) + 1)..(l + 1), Pays(queue[m], i)
        PROVE  \E k \in (n + 1)..l : Pays(queue'[k], i)
    <2>1. m - 1 \in (n + 1)..l /\ m - 1 \in 1..l /\ (m - 1) + 1 = m
      OBVIOUS
    <2> QED BY <1>1, <1>3, <2>1
  <1>4. CASE n # 0 \/ Wipes(e, i)
    <2>1. n + 1 \in 0..(l + 1) /\ n + 1 # 0
      OBVIOUS
    <2>2. WipedAt(n + 1, i)
      BY <1>1, <1>4, <2>1 DEF WipedAt
    <2> QED BY <1>2, <1>3, <2>1, <2>2
  <1>5. CASE n = 0 /\ ~Wipes(e, i)
    <2>1. Cached(i)' = 0
      BY <1>5 DEF WipedAt
    <2>2. Cached(i) = 0 /\ ~Pays(e, i)
      BY <1>5, <2>1, OneThing DEF After, Wipes, Pays, Put
    <2>3. (\E m \in (0 + 1)..(l + 1) : Pays(queue[m], i)) \/ Coming(i)
      <3>1. WipedAt(0, i) /\ 0 \in 0..(l + 1)
        BY <2>2 DEF WipedAt
      <3> QED BY <1>2, <3>1
    <2>4. \A m \in (0 + 1)..(l + 1) : Pays(queue[m], i) => m \in ((n + 1) + 1)..(l + 1)
      <3>1. \A m \in (0 + 1)..(l + 1) : m = 1 \/ m \in ((0 + 1) + 1)..(l + 1)
        OBVIOUS
      <3> QED BY <1>5, <2>2, <3>1
    <2> QED BY <1>3, <1>5, <2>3, <2>4
  <1> QED BY <1>4, <1>5

LEMMA BroughtAgain ==
  ASSUME NEW i, SaysAgain(i), Brought(i), Owed(i)' => Owed(i), Coming(i) => Coming(i)'
  PROVE  Brought(i)'
  <1>1. PICK l \in Nat : l = Len(queue) /\ l = Len(queue')
    BY DEF SaysAgain
  <1>2. \A n \in 1..l : (Pays(queue'[n], i) <=> Pays(queue[n], i)) /\ (Wipes(queue'[n], i) <=> Wipes(queue[n], i))
    BY <1>1 DEF SaysAgain, Pays, Wipes
  <1> SUFFICES ASSUME Owed(i)', NEW n \in 0..l, WipedAt(n, i)'
               PROVE  (\E m \in (n + 1)..l : Pays(queue'[m], i)) \/ (n = 0 /\ Coming(i)')
    BY <1>1 DEF Brought, Pays
  <1>3. (n = 0 \/ n \in 1..l) /\ \A m \in (n + 1)..l : m \in 1..l
    OBVIOUS
  <1>4. WipedAt(n, i)
    BY <1>2, <1>3 DEF WipedAt, SaysAgain
  <1>5. (\E m \in (n + 1)..l : Pays(queue[m], i)) \/ (n = 0 /\ Coming(i))
    BY <1>1, <1>4 DEF Brought
  <1> QED BY <1>2, <1>3, <1>5

LEMMA BroughtIt ==
  ASSUME NEW i, NEW v, HasBrought(i, v), Brought(i), Owed(i)' => Owed(i), Cached(i)' = 0 => Coming(i)'
  PROVE  Brought(i)'
  <1>1. PICK l \in Nat \ {0} : l = Len(queue) /\ l = Len(queue')
    BY DEF HasBrought
  <1> SUFFICES ASSUME Owed(i)', NEW n \in 0..l, WipedAt(n, i)'
               PROVE  (\E m \in (n + 1)..l : Pays(queue'[m], i)) \/ (n = 0 /\ Coming(i)')
    BY <1>1 DEF Brought, Pays
  <1>2. n = 0 \/ n = 1 \/ n \in 2..l
    OBVIOUS
  <1>3. CASE n = 0
    BY <1>3 DEF WipedAt
  <1>4. CASE n = 1
    BY <1>4 DEF WipedAt, Wipes, HasBrought
  <1>5. CASE n \in 2..l
    <2>1. queue'[n] = queue[n] /\ n # 0 /\ \A m \in (n + 1)..l : queue'[m] = queue[m]
      BY <1>1, <1>5 DEF HasBrought
    <2>2. WipedAt(n, i)
      BY <2>1 DEF WipedAt
    <2>3. \E m \in (n + 1)..l : Pays(queue[m], i)
      BY <1>1, <2>1, <2>2 DEF Brought
    <2> QED BY <2>1, <2>3
  <1> QED BY <1>2, <1>3, <1>4, <1>5

LEMMA SessionOpens ==
  ASSUME NEW q, NEW a, NEW c, GreetsWith(q, a, c), NEW b, Ends(q, b),
         here \subseteq items, ver \in [items -> Nat \ {0}], shown = Full, NEW i
  PROVE  (Honest(i) => Reflects(i)) /\ Brought(i)
  <1>1. /\ Len(q) \in 2..3
        /\ Says(q[1], i) = {} /\ Clears(q[1], i)
        /\ \A n \in 2..Len(q) : Says(q[n], i) \subseteq {Truth(i)} \ {0} /\ ~Clears(q[n], i)
        /\ account = "user" /\ i \in here /\ i.guild \in joined => \E n \in 2..Len(q) : Pays(q[n], i)
    BY GreetingSays
  <1>2. PICK l \in 2..3 : l = Len(q) /\ b \in 0..1 /\ Len(queue) = b + l /\ \A k \in 1..l : queue[b + k] = q[k]
    BY <1>1 DEF Ends
  <1>3. queue[b + 1] = q[1] /\ b + 1 # 0 /\ b + 1 \in 1..(b + l)
    BY <1>2
  <1>4. ASSUME NEW n \in (b + 2)..(b + l)
        PROVE  n # 0 /\ Says(queue[n], i) \subseteq {Truth(i)} \ {0} /\ ~Clears(queue[n], i)
    <2>1. n - b \in 2..l /\ n - b \in 1..l /\ b + (n - b) = n /\ n # 0
      BY <1>2
    <2> QED BY <1>1, <1>2, <2>1
  <1>5. ASSUME Honest(i), NEW n \in 0..(b + l), NEW v \in Nat, LastAt(n, i), LeftAt(n, i, v)
        PROVE  (v = Truth(i) /\ v # 0) \/ (v = 0 /\ TrueAfter(n, i))
    <2>1. ~(b + 1 \in (n + 1)..(b + l))
      <3>1. Decides(queue[b + 1], i)
        BY <1>1, <1>3 DEF Decides
      <3> QED BY <1>2, <1>5, <3>1 DEF LastAt
    <2>2. n = b + 1 \/ n \in (b + 2)..(b + l)
      BY <1>2, <2>1
    <2>3. CASE n = b + 1
      <3>1. v = 0
        BY <1>1, <1>3, <1>5, <2>3 DEF LeftAt, Leaves
      <3>2. \A m \in (n + 1)..(b + l) : m \in (b + 2)..(b + l)
        BY <1>2, <2>3
      <3> QED BY <1>2, <1>4, <3>1, <3>2 DEF TrueAfter
    <2>4. CASE n \in (b + 2)..(b + l)
      BY <1>4, <1>5, <2>4 DEF LeftAt, Decides, Leaves
    <2> QED BY <2>2, <2>3, <2>4
  <1>6. Honest(i) => Reflects(i)
    BY <1>2, <1>5 DEF Reflects
  <1>7. ASSUME Owed(i), NEW n \in 0..(b + l), WipedAt(n, i)
        PROVE  \E m \in (n + 1)..(b + l) : Pays(queue[m], i)
    <2>1. account = "user" /\ i.guild \in joined /\ i \in here
      BY <1>7 DEF Owed, Told, Visible, Full
    <2>2. PICK k \in 2..l : Pays(q[k], i)
      BY <1>1, <1>2, <2>1
    <2>3. n \notin (b + 2)..(b + l)
      BY <1>4, <1>7 DEF WipedAt, Wipes
    <2>4. b + k \in (n + 1)..(b + l) /\ k \in 1..l
      BY <1>2, <2>3
    <2> QED BY <1>2, <2>2, <2>4
  <1>8. Brought(i)
    BY <1>2, <1>7 DEF Brought
  <1> QED BY <1>6, <1>8

-----------------------------------------------------------------------------
(* The steps of the server.                                                 *)

LEMMA TellsStay ==
  ASSUME UNCHANGED items
  PROVE  \A e : (Tells(e) => Tells(e)') /\ (Facts(e) => Facts(e)')
  BY DEF Tells, TellsItem, TellsData, TellsNothing, Facts

LEMMA QueueTells ==
  IsQueue => (\A e \in Range(queue) : Tells(e)) <=> (\A n \in 1..Len(queue) : Tells(queue[n]))
  BY DEF IsQueue, Range

LEMMA TypesSend ==
  ASSUME MirrorTypes, NEW e, Tells(e), queue' = queue \o <<e>>, UNCHANGED <<cab, call, items>>,
         ver' \in [items -> Nat \ {0}], here' \subseteq items, joined' \subseteq Guilds, shown' \subseteq Guilds
  PROVE  MirrorTypes' /\ Grows(e) /\ Len(queue) \in Nat
  <1>1. IsQueue' /\ Grows(e) /\ Len(queue) \in Nat
    BY SendsOne DEF MirrorTypes
  <1>2. Range(queue)' \subseteq Range(queue) \cup {e}
    <2>1. \A n \in 1..Len(queue') : n \in 1..Len(queue) \/ n = Len(queue) + 1
      BY <1>1 DEF Grows
    <2>2. DOMAIN queue' = 1..Len(queue') /\ DOMAIN queue = 1..Len(queue)
      BY <1>1 DEF IsQueue, MirrorTypes
    <2> QED BY <1>1, <2>1, <2>2 DEF Grows, Range
  <1>3. \A f \in Range(queue)' : Tells(f)'
    BY <1>2, TellsStay DEF MirrorTypes
  <1>4. \A data \in {call'[c].ans : c \in Getters} : Facts(data)'
    BY TellsStay DEF MirrorTypes
  <1> QED BY <1>1, <1>3, <1>4 DEF MirrorTypes, CallTypes

(* The head of the queue is replaced, or handled.                           *)
LEMMA TypesHead ==
  ASSUME MirrorTypes, NEW e, Taking(e), NEW f, Tells(f), queue' = <<f>> \o Tail(queue),
         UNCHANGED <<call, items, ver, here, joined, shown>>, cab' \in Cabinets
  PROVE  MirrorTypes'
  <1>1. IsQueue' /\ Len(queue) \in Nat /\ Len(queue') = Len(queue)
        /\ queue'[1] = f /\ \A k \in 1..Len(queue) : k = 1 \/ queue'[k] = queue[k]
    BY HeadStays DEF MirrorTypes, Taking
  <1>2. DOMAIN queue' = 1..Len(queue) /\ DOMAIN queue = 1..Len(queue)
    BY <1>1 DEF IsQueue, MirrorTypes
  <1>3. \A g \in Range(queue)' : Tells(g)
    BY <1>1, <1>2 DEF Range, MirrorTypes
  <1>4. \A g \in Range(queue)' : Tells(g)'
    BY <1>3, TellsStay
  <1>5. \A data \in {call'[c].ans : c \in Getters} : Facts(data)'
    BY TellsStay DEF MirrorTypes
  <1> QED BY <1>1, <1>4, <1>5 DEF MirrorTypes, CallTypes

LEMMA HeadTells ==
  ASSUME MirrorTypes, NEW e, Taking(e)
  PROVE  /\ Tells(e) /\ e = queue[1] /\ Len(queue) \in Nat \ {0} /\ DOMAIN queue = 1..Len(queue)
         /\ \A n \in 1..Len(queue) : Tells(queue[n])
  <1>1. e = queue[1] /\ Len(queue) \in Nat \ {0} /\ 1 \in 1..Len(queue) /\ DOMAIN queue = 1..Len(queue)
    BY DEF MirrorTypes, IsQueue, Taking
  <1>2. \A n \in 1..Len(queue) : Tells(queue[n])
    BY QueueTells DEF MirrorTypes
  <1> QED BY <1>1, <1>2

LEMMA TypesTail ==
  ASSUME MirrorTypes, NEW e, Taking(e), queue' = Tail(queue), UNCHANGED <<items, ver, here, joined, shown>>,
         cab' \in Cabinets, CallTypes', \A data \in {call'[c].ans : c \in Getters} : Facts(data)
  PROVE  MirrorTypes' /\ Passes
  <1>1. IsQueue' /\ Passes
    BY TakesOne DEF MirrorTypes, Taking
  <1>2. \A n \in 1..Len(queue') : Tells(queue'[n])
    <2>1. \A n \in 1..Len(queue') : n + 1 \in 1..Len(queue) /\ queue'[n] = queue[n + 1]
      BY <1>1 DEF Passes
    <2> QED BY <2>1, HeadTells
  <1>3. DOMAIN queue' = 1..Len(queue')
    BY <1>1 DEF IsQueue
  <1>4. \A f \in Range(queue)' : Tells(f)'
    BY <1>2, <1>3, TellsStay DEF Range
  <1>5. \A data \in {call'[c].ans : c \in Getters} : Facts(data)'
    BY TellsStay
  <1> QED BY <1>1, <1>4, <1>5 DEF MirrorTypes

LEMMA TypesStill ==
  ASSUME MirrorTypes, UNCHANGED <<items, queue>>, cab' \in Cabinets,
         ver' \in [items -> Nat \ {0}], here' \subseteq items, joined' \subseteq Guilds, shown' \subseteq Guilds,
         CallTypes', \A data \in {call'[c].ans : c \in Getters} : Facts(data)
  PROVE  MirrorTypes'
  <1>1. \A e \in Range(queue)' : Tells(e)'
    BY TellsStay DEF MirrorTypes, Range
  <1>2. \A data \in {call'[c].ans : c \in Getters} : Facts(data)'
    BY TellsStay
  <1> QED BY <1>1, <1>2 DEF MirrorTypes, IsQueue

LEMMA Same ==
  ASSUME NEW i
  PROVE  /\ UNCHANGED cab => Cached(i)' = Cached(i)
         /\ UNCHANGED <<account, intents, shown>> => (Told(i)' <=> Told(i))
         /\ UNCHANGED call /\ Truth(i)' = Truth(i) => (Honest(i)' <=> Honest(i))
         /\ UNCHANGED call /\ ~InFlight(i) => Honest(i) /\ Honest(i)'
         /\ UNCHANGED call => (Coming(i)' <=> Coming(i))
         /\ UNCHANGED <<account, intents>> => (Listed(i)' <=> Listed(i))
  <1>1. UNCHANGED cab => Cached(i)' = Cached(i)
    BY DEF Cached
  <1>2. UNCHANGED <<account, intents, shown>> => (Told(i)' <=> Told(i))
    BY DEF Told, Visible, HasIntents
  <1>3. UNCHANGED call /\ Truth(i)' = Truth(i) => (Honest(i)' <=> Honest(i))
    BY DEF Honest
  <1>4. UNCHANGED call /\ ~InFlight(i) => Honest(i) /\ Honest(i)'
    BY DEF Honest, InFlight, InAnswer
  <1>5. UNCHANGED call => (Coming(i)' <=> Coming(i))
    BY DEF Coming, InAnswer
  <1>6. UNCHANGED <<account, intents>> => (Listed(i)' <=> Listed(i))
    BY DEF Listed, HasIntents
  <1> QED BY <1>1, <1>2, <1>3, <1>4, <1>5, <1>6

LEMMA EnteringStays ==
  ASSUME UNCHANGED <<cab, call, items>>, Entering
  PROVE  Entering'
  BY Same DEF Entering, Entered

(* Another item is not touched.                                             *)
OnlyOf(i) ==
    /\ UNCHANGED <<cab, call, account, intents, items, joined, shown>>
    /\ ver' \in [items -> Nat \ {0}] /\ here' \subseteq items
    /\ \A j \in items : j # i => ver'[j] = ver[j] /\ (j \in here' <=> j \in here)
    /\ doubt \subseteq doubt'

LEMMA ChangeTold ==
  ASSUME MirrorInv, NEW i \in items, OnlyOf(i), NEW e, TellsItem(e), e.item = i, queue' = queue \o <<e>>,
         Grows(e) /\ i \notin doubt' => Reflects(i)', Owed(i)' => Pays(e, i) \/ (Owed(i) /\ ~Wipes(e, i))
  PROVE  MirrorInv'
  <1>1. MirrorTypes' /\ Grows(e) /\ Len(queue) \in Nat
    BY TypesSend DEF MirrorInv, MirrorTypes, OnlyOf, Tells
  <1>2. Brought(i)'
    BY <1>1, BroughtMore, Same DEF MirrorInv, OnlyOf, Tells
  <1>3. ASSUME NEW j \in items, j # i
        PROVE  (j \notin doubt' => Reflects(j)') /\ Brought(j)'
    <2>1. Says(e, j) = {}
      BY <1>3, SaysWhat
    <2>2. ~Clears(e, j)
      BY ItemsClearNothing DEF MirrorInv, MirrorTypes
    <2>3. Truth(j)' = Truth(j) /\ Cached(j)' = Cached(j) /\ (Honest(j)' <=> Honest(j)) /\ (Told(j)' <=> Told(j)) /\ (Coming(j)' <=> Coming(j)) /\ (Listed(j)' <=> Listed(j))
      <3>1. Truth(j)' = Truth(j)
        BY <1>3 DEF OnlyOf, Truth
      <3> QED BY <3>1, Same DEF OnlyOf
    <2>4. j \notin doubt' => Reflects(j)'
      BY <1>1, <2>1, <2>2, <2>3, ReflectsMore DEF MirrorInv, OnlyOf
    <2>5. Owed(j)' => Owed(j)
      BY <1>3, <2>3 DEF Owed, OnlyOf
    <2>6. Brought(j)'
      BY <1>1, <2>1, <2>2, <2>3, <2>5, BroughtMore DEF MirrorInv, Wipes, Tells
    <2> QED BY <2>4, <2>6
  <1> QED BY <1>1, <1>2, <1>3, EnteringStays DEF MirrorInv, OnlyOf

LEMMA ChangeUntold ==
  ASSUME MirrorInv, NEW i \in items, OnlyOf(i), UNCHANGED queue, ~Told(i),
         i \notin doubt' => Cached(i) = 0 /\ ~Underway(i) /\ ~InFlight(i)
  PROVE  MirrorInv'
  <1>1. MirrorTypes'
    <2> QED BY TypesStill DEF MirrorInv, MirrorTypes, OnlyOf, CallTypes
  <1>2. Len(queue) \in Nat /\ DOMAIN queue = 1..Len(queue)
    BY DEF MirrorInv, MirrorTypes, IsQueue
  <1>3. (i \notin doubt' => Reflects(i)') /\ Brought(i)'
    <2>1. i \notin doubt' => Reflects(i)'
      BY <1>2, ReflectsUntold, Same DEF OnlyOf
    <2>2. ~Told(i)'
      BY Same DEF OnlyOf
    <2> QED BY <2>1, <2>2 DEF Brought, Owed
  <1>4. ASSUME NEW j \in items, j # i
        PROVE  (j \notin doubt' => Reflects(j)') /\ Brought(j)'
    <2>1. Truth(j)' = Truth(j)
      BY <1>4 DEF OnlyOf, Truth
    <2>2. Cached(j)' = Cached(j) /\ (Honest(j)' <=> Honest(j)) /\ (Told(j)' <=> Told(j))
          /\ (Coming(j)' <=> Coming(j)) /\ (Listed(j)' <=> Listed(j))
      BY <2>1, Same DEF OnlyOf
    <2>3. Cached(j) \in Nat
      BY StoredTypes DEF MirrorInv, MirrorTypes, Cached
    <2>4. j \notin doubt' => Reflects(j)'
      BY <2>1, <2>2, <2>3, ReflectsStill DEF MirrorInv, OnlyOf
    <2>5. Brought(j)'
      BY <1>4, <2>2, BroughtStill DEF MirrorInv, OnlyOf, Owed
    <2> QED BY <2>4, <2>5
  <1> QED BY <1>1, <1>3, <1>4, EnteringStays DEF MirrorInv, OnlyOf

LEMMA MirrorCreate ==
  ASSUME MirrorInv, NEW i \in items, Create(i)
  PROVE  MirrorInv'
  <1>1. OnlyOf(i) /\ Truth(i) = 0 /\ Truth(i)' = ver'[i] /\ ver'[i] \in Nat \ {0}
    BY DEF Create, OnlyOf, Doubtful, Truth, MirrorInv, MirrorTypes
  <1>2. CASE Told(i)
    <2>1. PICK e : e = Event(CreateEvent(i), i, ver'[i])
      OBVIOUS
    <2>2. queue' = queue \o <<e>> /\ CreateEvent(i) # "none"
      BY <1>2, <2>1 DEF Create, Emit
    <2>3. TellsItem(e) /\ e.item = i /\ e.ver = ver'[i]
      BY <1>1, <2>1, <2>2 DEF Event, TellsItem
    <2>4. Says(e, i) = {Truth(i)'}
      BY <1>1, <2>3, SaysWhat
    <2>5. ASSUME Grows(e), i \notin doubt'
          PROVE  Reflects(i)'
      <3>1. i \notin doubt /\ ~InFlight(i)
        BY <1>1, <2>5 DEF Create, Doubtful, OnlyOf
      <3>2. Reflects(i) /\ Honest(i)' /\ Cached(i)' = Cached(i)
        BY <1>1, <3>1, Same DEF OnlyOf, MirrorInv
      <3>3. Len(queue) \in Nat /\ \A n \in 1..Len(queue) : Tells(queue[n])
        BY QueueTells DEF MirrorInv, MirrorTypes, IsQueue
      <3> QED BY <1>1, <2>4, <2>5, <3>2, <3>3, ReflectsCreated
    <2>6. Pays(e, i)
      BY <1>1, <2>4 DEF Pays
    <2> QED BY <1>1, <2>2, <2>3, <2>5, <2>6, ChangeTold
  <1>3. CASE ~Told(i)
    <2>1. UNCHANGED queue /\ (i \notin doubt' => Cached(i) = 0 /\ ~Underway(i) /\ ~InFlight(i))
      BY <1>3 DEF Create, Doubtful
    <2> QED BY <1>1, <1>3, <2>1, ChangeUntold
  <1> QED BY <1>2, <1>3

LEMMA MirrorUpdate ==
  ASSUME MirrorInv, NEW i \in items, Update(i)
  PROVE  MirrorInv'
  <1>1. OnlyOf(i) /\ Truth(i)' = ver'[i] /\ ver'[i] \in Nat \ {0}
    BY DEF Update, OnlyOf, Doubtful, Truth, MirrorInv, MirrorTypes
  <1>2. CASE Told(i)
    <2>1. PICK t \in UpdateEvents(i) : queue' = queue \o <<Event(t, i, ver'[i])>>
      BY <1>2 DEF Update, Emit
    <2>2. PICK e : e = Event(t, i, ver'[i])
      OBVIOUS
    <2>3. t \notin Tentative \cup Bringing \cup {"none"}
      <3>1. i.kind \in Kinds
        BY ItemTypes DEF MirrorInv, MirrorTypes
      <3> QED BY <2>1, <3>1 DEF UpdateEvents, Kinds, Tentative, Bringing
    <2>4. TellsItem(e) /\ e.item = i /\ e.ver = ver'[i] /\ e.type = t
      BY <1>1, <2>1, <2>2, <2>3 DEF Event, TellsItem
    <2>5. Says(e, i) = {Truth(i)'} /\ Firm(e, i)
      BY <1>1, <2>3, <2>4, SaysWhat DEF Firm
    <2>6. ASSUME Grows(e), i \notin doubt'
          PROVE  Reflects(i)'
      <3>1. Decides(e, i) /\ \A v \in Nat : Leaves(e, i, v) => v = Truth(i)' /\ v # 0
        BY <1>1, <2>5 DEF Decides, Leaves
      <3>2. Rash(i) => ~InFlight(i)
        BY <2>6 DEF Update, Doubtful, Rash
      <3>3. Rash(i) => Honest(i)'
        BY <1>1, <3>2, Same DEF OnlyOf
      <3>4. Len(queue) \in Nat /\ Cached(i)' = Cached(i)
        BY <1>1, Same DEF MirrorInv, MirrorTypes, IsQueue, OnlyOf
      <3> QED BY <2>6, <3>1, <3>3, <3>4, ReflectsDecided
    <2>7. Pays(e, i)
      BY <1>1, <2>5 DEF Pays
    <2> QED BY <1>1, <2>1, <2>2, <2>4, <2>6, <2>7, ChangeTold
  <1>3. CASE ~Told(i)
    <2>1. UNCHANGED queue /\ (i \notin doubt' => Cached(i) = 0 /\ ~Underway(i) /\ ~InFlight(i))
      BY <1>3 DEF Update, Doubtful
    <2> QED BY <1>1, <1>3, <2>1, ChangeUntold
  <1> QED BY <1>2, <1>3

LEMMA MirrorDelete ==
  ASSUME MirrorInv, NEW i \in items, Delete(i)
  PROVE  MirrorInv'
  <1>1. OnlyOf(i) /\ i \notin here'
    BY DEF Delete, OnlyOf, Doubtful, MirrorInv, MirrorTypes
  <1>2. CASE Told(i)
    <2>1. PICK e : e = Event(DeleteEvent(i), i, 0)
      OBVIOUS
    <2>2. queue' = queue \o <<e>> /\ DeleteEvent(i) # "none"
      BY <1>2, <2>1 DEF Delete, Emit
    <2>3. TellsItem(e) /\ e.item = i /\ e.ver = 0 /\ e.type = DeleteEvent(i)
      BY <2>1, <2>2 DEF Event, TellsItem
    <2>4. Says(e, i) = {0}
      BY <2>3, SaysWhat
    <2>5. ASSUME Grows(e), i \notin doubt'
          PROVE  Reflects(i)'
      <3>1. Firm(e, i)
        BY <2>3 DEF Firm, DeleteEvent, Tentative, Bringing
      <3>2. Decides(e, i) /\ \A v \in Nat : Leaves(e, i, v) => v = 0
        BY <2>4, <3>1 DEF Decides, Leaves
      <3>3. ~InFlight(i)
        BY <2>5 DEF Delete, Doubtful
      <3>4. Honest(i)'
        BY <1>1, <3>3, Same DEF OnlyOf
      <3>5. Len(queue) \in Nat /\ Cached(i)' = Cached(i)
        BY <1>1, Same DEF MirrorInv, MirrorTypes, IsQueue, OnlyOf
      <3> QED BY <2>5, <3>2, <3>4, <3>5, ReflectsDecided
    <2>6. ~Owed(i)'
      BY <1>1 DEF Owed
    <2> QED BY <1>1, <2>2, <2>3, <2>5, <2>6, ChangeTold
  <1>3. CASE ~Told(i)
    <2>1. UNCHANGED queue /\ (i \notin doubt' => Cached(i) = 0 /\ ~Underway(i) /\ ~InFlight(i))
      BY <1>3 DEF Delete, Doubtful
    <2> QED BY <1>1, <1>3, <2>1, ChangeUntold
  <1> QED BY <1>2, <1>3

(* An event that says nothing.                                              *)
LEMMA MirrorNoise ==
  ASSUME MirrorInv, NEW e, Tells(e), queue' = queue \o <<e>>, \A i \in items : Says(e, i) = {} /\ ~Clears(e, i),
         UNCHANGED <<cab, call, account, intents, items, ver, here, joined, shown, doubt>>
  PROVE  MirrorInv'
  <1>1. MirrorTypes' /\ Grows(e) /\ Len(queue) \in Nat
    BY TypesSend DEF MirrorInv, MirrorTypes
  <1>2. ASSUME NEW i \in items
        PROVE  (i \notin doubt' => Reflects(i)') /\ Brought(i)'
    <2>1. Truth(i)' = Truth(i)
      BY DEF Truth
    <2>2. /\ Cached(i)' = Cached(i) /\ (Honest(i)' <=> Honest(i)) /\ (Told(i)' <=> Told(i))
          /\ (Coming(i)' <=> Coming(i)) /\ (Listed(i)' <=> Listed(i))
      BY <2>1, Same
    <2>3. Says(e, i) = {} /\ ~Clears(e, i)
      OBVIOUS
    <2>4. i \notin doubt' => Reflects(i)'
      BY <1>1, <2>1, <2>2, <2>3, ReflectsMore DEF MirrorInv
    <2>5. (Owed(i)' => Owed(i)) /\ Brought(i) /\ ~Wipes(e, i)
      BY <2>2, <2>3 DEF Owed, Wipes, MirrorInv
    <2>6. Brought(i)'
      BY <1>1, <2>2, <2>5, BroughtMore
    <2> QED BY <2>4, <2>6
  <1> QED BY <1>1, <1>2, EnteringStays DEF MirrorInv

LEMMA MirrorMention ==
  ASSUME MirrorInv, NEW i \in items, Mention(i)
  PROVE  MirrorInv'
  <1>1. OnlyOf(i) /\ Truth(i)' = Truth(i) /\ Truth(i) = ver[i] /\ ver[i] \in Nat \ {0} /\ doubt' = doubt
        /\ UNCHANGED <<ver, here>> /\ i.kind = "member"
    BY DEF Mention, OnlyOf, Truth, server, MirrorInv, MirrorTypes
  <1>2. CASE queue' = queue \o <<Event("GuildMembersChunk", i, ver[i])>>
    <2>1. PICK e : e = Event("GuildMembersChunk", i, ver[i])
      OBVIOUS
    <2>2. TellsItem(e) /\ e.item = i /\ e.ver = ver[i]
      BY <1>1, <2>1 DEF Event, TellsItem, MemberEvents
    <2>3. Says(e, i) = {Truth(i)}
      BY <1>1, <2>2, SaysWhat
    <2>4. ASSUME Grows(e), i \notin doubt'
          PROVE  Reflects(i)'
      <3>1. Reflects(i) /\ Cached(i)' = Cached(i) /\ (Honest(i)' <=> Honest(i)) /\ Len(queue) \in Nat
        BY <1>1, <2>4, Same DEF MirrorInv, MirrorTypes, IsQueue, OnlyOf
      <3> QED BY <1>1, <2>3, <2>4, <3>1, ReflectsMore
    <2>5. Pays(e, i)
      BY <1>1, <2>3 DEF Pays
    <2> QED BY <1>1, <1>2, <2>1, <2>2, <2>4, <2>5, ChangeTold
  <1>3. ASSUME NEW t \in {"MessageCreate", "MessageUpdate"}, queue' = queue \o <<[type |-> t, guild |-> i.guild]>>
        PROVE  MirrorInv'
    <2>1. PICK e : e = [type |-> t, guild |-> i.guild]
      OBVIOUS
    <2>2. TellsNothing(e) /\ \A j : ~Clears(e, j)
      <3>1. i.guild \in Guilds
        BY <1>1, ItemTypes DEF MirrorInv, MirrorTypes
      <3> QED BY <2>1, <3>1 DEF TellsNothing, Clears
    <2>3. \A j : Says(e, j) = {}
      BY <2>2, SaysWhat
    <2> QED BY <1>1, <1>3, <2>1, <2>2, <2>3, MirrorNoise DEF OnlyOf, Tells
  <1> QED BY <1>2, <1>3 DEF Mention, Emit

Greeted ==
    /\ \E q, a, c, b : GreetsWith(q, a, c) /\ Ends(q, b)
    /\ here \subseteq items /\ ver \in [items -> Nat \ {0}] /\ shown = Full
Consistent == \A i : (Honest(i) => Reflects(i)) /\ Brought(i)

LEMMA GreetedConsistent == Greeted => Consistent
  BY SessionOpens DEF Greeted, Consistent

LEMMA GreetedNext == Greeted' => Consistent'
  BY GreetedConsistent, PTL

LEMMA MirrorIdentify ==
  ASSUME MirrorInv, Identify
  PROVE  MirrorInv'
  <1>1. /\ UNCHANGED <<cab, call, account, intents, items, ver, here, joined>> /\ shown' = Full
        /\ doubt' = doubt \cup {i \in items : InFlight(i)}
    BY DEF Identify
  <1>2. ServerTypes
    BY DEF MirrorInv, MirrorTypes, ServerTypes
  <1>3. PICK q, a, c : q = Greeting /\ GreetsWith(q, a, c)
    BY <1>2, GreetingBrings
  <1>4. PICK b \in 0..1 : Ends(q, b)' /\ (b = 1 => 1 \in 1..Len(queue) /\ queue'[1] = queue[1])
    <2>1. PICK T : q \in Seq(T)
      BY <1>3 DEF GreetsWith
    <2> QED BY <1>3, <2>1, Reopens DEF MirrorInv, MirrorTypes
  <1>5. Greeted'
    <2>1. TellsData(a)' /\ TellsData(c)' /\ True(a.data)' /\ True(c.data)'
      BY <1>1, <1>3 DEF GreetsWith, TellsData, Facts, True, Truth
    <2>2. GreetsWith(q, a, c)'
      BY <1>1, <1>3, <2>1 DEF GreetsWith
    <2> QED BY <1>1, <1>4, <2>2 DEF Greeted, MirrorInv, MirrorTypes, Full
  <1>6. \A i \in items : (i \notin doubt' => Reflects(i)') /\ Brought(i)'
    <2>1. Consistent'
      BY <1>5, GreetedNext
    <2> QED BY <1>1, <2>1, Same DEF Consistent
  <1>7. IsQueue' /\ \A n \in 1..Len(queue') : Tells(queue'[n])
    <2>1. PICK l \in 2..3 : l = Len(q) /\ Len(queue') = b + l /\ IsQueue' /\ \A k \in 1..l : Tells(q[k]) /\ queue'[b + k] = q[k]
      <3>1. Len(q) \in 2..3 /\ \A n \in 1..Len(q) : Tells(q[n])
        BY <1>2, <1>3, GreetingSays DEF ServerTypes
      <3> QED BY <1>4, <3>1 DEF Ends
    <2>2. ASSUME NEW n \in 1..(b + l)
          PROVE  Tells(queue'[n])
      <3>1. CASE b = 1 /\ n = 1
        BY <1>4, <3>1, QueueTells DEF MirrorInv, MirrorTypes
      <3>2. CASE ~(b = 1 /\ n = 1)
        <4>1. n - b \in 1..l /\ b + (n - b) = n
          BY <3>2
        <4> QED BY <2>1, <4>1
      <3> QED BY <3>1, <3>2
    <2> QED BY <2>1, <2>2
  <1>8. MirrorTypes'
    <2>1. DOMAIN queue' = 1..Len(queue')
      BY <1>7 DEF IsQueue
    <2>2. \A e \in Range(queue)' : Tells(e)'
      BY <1>1, <1>7, <2>1, TellsStay DEF Range
    <2>3. \A data \in {call'[d].ans : d \in Getters} : Facts(data)'
      BY <1>1, TellsStay DEF MirrorInv, MirrorTypes
    <2> QED BY <1>1, <1>7, <2>2, <2>3 DEF MirrorInv, MirrorTypes, CallTypes, Full
  <1> QED BY <1>1, <1>6, <1>8, EnteringStays DEF MirrorInv

LEMMA MirrorShow ==
  ASSUME MirrorInv, NEW g \in Guilds, ShowGuild(g)
  PROVE  MirrorInv'
  <1> DEFINE all == Snapshot(GuildItems({g}))
             data == {d \in all : HasIntents(IntentOf(d.item.kind)) /\ Listed(d.item)}
  <1>1. /\ UNCHANGED <<cab, call, account, intents, items, ver, here, joined, doubt>>
        /\ shown' = shown \cup {g}
    BY DEF ShowGuild
  <1>2. PICK e : e = [type |-> "GuildCreate", guild |-> g, why |-> because[g], data |-> data]
    OBVIOUS
  <1>3. queue' = queue \o <<e>>
    BY <1>2 DEF ShowGuild, Emit
  <1>4. ServerTypes
    BY DEF MirrorInv, MirrorTypes, ServerTypes
  <1>5. /\ Facts(all) /\ True(all) /\ \A i \in GuildItems({g}) \cap here : \E f \in all : f.item = i
    BY <1>4, SnapshotTrue
  <1>6. data \subseteq all /\ \A f \in all : HasIntents(IntentOf(f.item.kind)) /\ Listed(f.item) => f \in data
    OBVIOUS
  <1> HIDE DEF all, data
  <1>7. Facts(data) /\ True(data)
    BY <1>5, <1>6, SubFacts
  <1>8. TellsData(e) /\ Tells(e) /\ e.type = "GuildCreate" /\ e.data = data
    BY <1>2, <1>7 DEF TellsData, Tells, Bringing
  <1>9. MirrorTypes' /\ Grows(e) /\ Len(queue) \in Nat
    BY <1>1, <1>3, <1>8, TypesSend DEF MirrorInv, MirrorTypes
  <1>10. ASSUME NEW i \in items
         PROVE  (i \notin doubt' => Reflects(i)') /\ Brought(i)'
    <2>1. Truth(i)' = Truth(i)
      BY <1>1 DEF Truth
    <2>2. Cached(i)' = Cached(i) /\ (Honest(i)' <=> Honest(i)) /\ (Coming(i)' <=> Coming(i)) /\ (Listed(i)' <=> Listed(i))
      BY <1>1, <2>1, Same
    <2>3. \A v : v \in Says(e, i) <=> \E f \in data : f.item = i /\ f.ver = v
      BY <1>8, SaysWhat
    <2>4. Says(e, i) \subseteq {Truth(i)} \ {0}
      BY <1>7, <2>3 DEF True, Facts
    <2>5. ~Clears(e, i) /\ ~Wipes(e, i)
      BY <1>8, <2>4 DEF Clears, Wipes
    <2>6. i \notin doubt' => Reflects(i)'
      BY <1>1, <1>9, <2>1, <2>2, <2>4, <2>5, ReflectsMore DEF MirrorInv
    <2>7. ASSUME Owed(i)'
          PROVE  Pays(e, i) \/ Owed(i)
      <3>1. CASE i.guild = g
        <4>1. i \in GuildItems({g}) \cap here
          BY <1>1, <2>7, <3>1 DEF Owed, GuildItems
        <4>2. i.kind # "me"
          BY <2>7, ItemTypes DEF Owed, MirrorInv, MirrorTypes
        <4>3. HasIntents(IntentOf(i.kind)) /\ Listed(i)
          BY <1>1, <2>2, <2>7, <4>2 DEF Owed, Told, HasIntents
        <4>4. PICK f \in data : f.item = i
          BY <1>5, <1>6, <4>1, <4>3
        <4>5. f.ver # 0 /\ f.ver \in Says(e, i)
          BY <1>7, <2>3, <4>4 DEF Facts
        <4> QED BY <4>5 DEF Pays
      <3>2. CASE i.guild # g
        BY <1>1, <2>2, <2>7, <3>2 DEF Owed, Told, Visible, HasIntents
      <3> QED BY <3>1, <3>2
    <2>8. Brought(i)'
      BY <1>8, <1>9, <2>2, <2>5, <2>7, BroughtMore DEF MirrorInv
    <2> QED BY <2>6, <2>8
  <1> QED BY <1>1, <1>9, <1>10, EnteringStays DEF MirrorInv

LEMMA MirrorHide ==
  ASSUME MirrorInv, NEW g \in Guilds, NEW out \in BOOLEAN, HideGuild(g, out)
  PROVE  MirrorInv'
  <1>1. /\ UNCHANGED <<cab, call, account, intents, items, ver, here>>
        /\ shown' = shown \ {g} /\ joined' \subseteq joined
        /\ doubt' = doubt \cup {i \in GuildItems({g}) : InFlight(i)}
    BY DEF HideGuild
  <1>2. PICK e : e = [type |-> "GuildDelete", guild |-> g, out |-> out]
    OBVIOUS
  <1>3. queue' = queue \o <<e>>
    BY <1>2 DEF HideGuild, Emit
  <1>4. TellsNothing(e) /\ Tells(e) /\ e.type = "GuildDelete" /\ e.guild = g
    BY <1>2 DEF TellsNothing, Tells
  <1>5. MirrorTypes' /\ Grows(e) /\ Len(queue) \in Nat
    BY <1>1, <1>3, <1>4, TypesSend DEF MirrorInv, MirrorTypes
  <1>6. ASSUME NEW i \in items
        PROVE  (i \notin doubt' => Reflects(i)') /\ Brought(i)'
    <2>1. Truth(i)' = Truth(i)
      BY <1>1 DEF Truth
    <2>2. Cached(i)' = Cached(i) /\ (Honest(i)' <=> Honest(i)) /\ (~InFlight(i) => Honest(i)')
          /\ (Coming(i)' <=> Coming(i)) /\ (Listed(i)' <=> Listed(i))
      BY <1>1, <2>1, Same
    <2>3. Says(e, i) = {} /\ (Clears(e, i) <=> i.kind = "guild" /\ i.guild = g)
      BY <1>4, SaysWhat DEF Clears
    <2>4. CASE Clears(e, i)
      <3>1. i \notin doubt' => ~InFlight(i)
        BY <1>1, <2>3, <2>4 DEF GuildItems
      <3>2. Decides(e, i) /\ \A v \in Nat : Leaves(e, i, v) => v = 0
        BY <2>3, <2>4 DEF Decides, Leaves
      <3>3. i \notin doubt' => Reflects(i)'
        BY <1>5, <2>2, <2>3, <2>4, <3>1, <3>2, ReflectsDecided
      <3>4. i.guild # NoGuild /\ i.guild \notin shown'
        BY <1>1, <2>3, <2>4, CabinetAssumption
      <3>5. ~Owed(i)'
        BY <3>4 DEF Owed, Told, Visible
      <3>6. Brought(i)'
        BY <3>5 DEF Brought, Owed
      <3> QED BY <3>3, <3>6
    <2>5. CASE ~Clears(e, i)
      <3>1. i \notin doubt' => Reflects(i)'
        BY <1>1, <1>5, <2>1, <2>2, <2>3, <2>5, ReflectsMore DEF MirrorInv
      <3>2. Owed(i)' => Owed(i)
        BY <1>1, <2>2 DEF Owed, Told, Visible, HasIntents
      <3>3. Brought(i)'
        BY <1>4, <1>5, <2>2, <2>3, <2>5, <3>2, BroughtMore DEF MirrorInv, Wipes
      <3> QED BY <3>1, <3>3
    <2> QED BY <2>4, <2>5
  <1> QED BY <1>1, <1>5, <1>6, EnteringStays DEF MirrorInv

(* Nothing of the items changes, but that an answer may be stored.          *)
LEMMA MirrorStill ==
  ASSUME MirrorInv, UNCHANGED <<account, intents, items, ver, here, shown, queue, doubt>>, joined' \subseteq Guilds,
         cab' \in Cabinets,
         CallTypes', \A data \in {call'[c].ans : c \in Getters} : Facts(data),
         Entering', \A i \in items : Coming(i) => Coming(i)' \/ Cached(i)' # 0,
         \A i \in items : Honest(i) => Honest(i)',
         \A i \in items : Cached(i)' # Cached(i) =>
             Cached(i)' # 0 /\ (Reflects(i) /\ LastAt(0, i) => Cached(i)' = Truth(i))
  PROVE  MirrorInv'
  <1>1. MirrorTypes' /\ Len(queue) \in Nat
    BY TypesStill DEF MirrorInv, MirrorTypes, IsQueue
  <1>2. ASSUME NEW i \in items
        PROVE  (i \notin doubt' => Reflects(i)') /\ Brought(i)'
    <2>1. Truth(i)' = Truth(i) /\ (Told(i)' <=> Told(i)) /\ (Listed(i)' <=> Listed(i))
      BY Same DEF Truth
    <2>2. Cached(i) \in Nat /\ Cached(i)' \in Nat
      BY StoredTypes DEF MirrorInv, MirrorTypes, Cached
    <2>3. i \notin doubt' => Reflects(i)'
      BY <1>1, <2>1, <2>2, ReflectsStill DEF MirrorInv
    <2>4. Brought(i)'
      BY <2>1, BroughtStill DEF MirrorInv, Owed
    <2> QED BY <2>3, <2>4
  <1> QED BY <1>1, <1>2 DEF MirrorInv

LEMMA MirrorIdle ==
  ASSUME MirrorInv, UNCHANGED <<cab, call, account, intents, items, ver, here, shown, queue, doubt>>,
         joined' \subseteq Guilds
  PROVE  MirrorInv'
  <1>1. \A i \in items : Cached(i)' = Cached(i) /\ (Honest(i) => Honest(i)')
    BY Same DEF Truth
  <1>2. Entering' /\ \A i \in items : Coming(i) => Coming(i)'
    BY EnteringStays, Same DEF MirrorInv
  <1> QED BY <1>1, <1>2, MirrorStill DEF MirrorInv, MirrorTypes, CallTypes

-----------------------------------------------------------------------------
(* The getters.                                                             *)

LEMMA Calls ==
  ASSUME MirrorTypes, NEW c \in Getters, NEW r, call' = [call EXCEPT ![c] = r], CallIs(r),
         Facts(r.ans), r.keeps => (\A f \in r.ans : f \in call[c].ans /\ call[c].keeps) \/ True(r.ans),
         UNCHANGED <<ver, here>>
  PROVE  /\ CallTypes' /\ \A data \in {call'[d].ans : d \in Getters} : Facts(data)
         /\ \A i : Honest(i) => Honest(i)'
         /\ call'[c] = r /\ \A d \in Getters : d # c => call'[d] = call[d]
  <1>1. call'[c] = r /\ (\A d \in Getters : d # c => call'[d] = call[d]) /\ DOMAIN call' = Getters
    BY DEF MirrorTypes, CallTypes
  <1>2. CallTypes'
    BY <1>1 DEF MirrorTypes, CallTypes
  <1>3. \A d \in Getters : Facts(call'[d].ans)
    BY <1>1 DEF MirrorTypes
  <1>4. ASSUME NEW i, Honest(i)
        PROVE  Honest(i)'
    <2>1. Truth(i)' = Truth(i)
      BY DEF Truth
    <2> QED BY <1>1, <1>4, <2>1 DEF Honest, True
  <1> QED BY <1>1, <1>2, <1>3, <1>4

LEMMA NoFacts == Facts({}) /\ True({})
  BY FS_EmptySet DEF Facts, True

LEMMA IdleCall == CallIs(Idle) /\ Facts(Idle.ans) /\ True(Idle.ans) /\ Idle.ans = {} /\ Idle.phase = "idle"
  <1>1. Idle.ans = {} /\ CallIs(Idle) /\ Idle.phase = "idle"
    BY DEF Idle, CallIs
  <1> QED BY <1>1, NoFacts

(* A call that was not, and is not, about to write a list of emojis.        *)
LEMMA MirrorCall ==
  ASSUME MirrorInv, NEW c \in Getters, NEW r, call' = [call EXCEPT ![c] = r], CallIs(r),
         Facts(r.ans), r.keeps => (\A f \in r.ans : f \in call[c].ans /\ call[c].keeps) \/ True(r.ans),
         call[c].phase # "overwriting", r.phase # "overwriting",
         UNCHANGED <<account, intents, items, ver, here, joined, shown, queue, doubt>>,
         cab' \in Cabinets, cab.emoji.known \subseteq cab'.emoji.known,
         \A i \in items : i.kind = "emoji" /\ Entered(i.guild)' => Entered(i.guild) \/ Cached(i)' # 0,
         \A i \in items : Cached(i)' # Cached(i) =>
             Cached(i)' # 0 /\ (Reflects(i) /\ LastAt(0, i) => Cached(i)' = Truth(i))
  PROVE  MirrorInv'
  <1>1. /\ CallTypes' /\ \A data \in {call'[d].ans : d \in Getters} : Facts(data)
        /\ \A i : Honest(i) => Honest(i)'
        /\ call'[c] = r /\ \A d \in Getters : d # c => call'[d] = call[d]
    BY Calls DEF MirrorInv
  <1>2. \A i : Coming(i) => Coming(i)'
    BY <1>1 DEF Coming, InAnswer
  <1>3. Entering'
    <2>1. \A d \in Getters : call'[d].phase = "overwriting" => \A f \in call'[d].ans : Entered(f.item.guild)'
      BY <1>1 DEF MirrorInv, Entering, Entered
    <2>2. ASSUME NEW i \in items, i.kind = "emoji", Entered(i.guild)', Cached(i)' = 0
          PROVE  Coming(i)'
      <3>1. Cached(i) = 0 /\ Entered(i.guild)
        BY <2>2
      <3> QED BY <1>2, <2>2, <3>1 DEF MirrorInv, Entering
    <2> QED BY <2>1, <2>2 DEF Entering
  <1> QED BY <1>1, <1>2, <1>3, MirrorStill DEF MirrorInv, MirrorTypes

LEMMA KindOf == \A k \in Kinds : \A i \in ItemsOf(k) : i.kind = k
  BY DEF Kinds, ItemsOf, Item

LEMMA EmojisAlone ==
  ASSUME NEW q \in Queries, NEW i \in q.wants, i.kind = "emoji"
  PROVE  q.wants = {i}
  <1>1. \A k, g : \A j \in In(k, g) : k \in Kinds => j.kind = k
    BY KindOf DEF In
  <1>2. \A j \in Private : j.kind = "channel"
    BY KindOf DEF Private, Kinds
  <1>3. \A k \in Kinds : \A j \in ItemsOf(k) : j.kind = k
    BY KindOf
  <1>4. {"me", "guild", "emoji", "channel", "role", "member"} \subseteq Kinds
    BY DEF Kinds
  <1>5. ASSUME NEW g \in Guilds, q.wants = In("emoji", g)
        PROVE  q.wants = {i}
    <2>1. \A j \in In("emoji", g) : j = Item("emoji", g, "all")
      BY DEF In, ItemsOf, Item
    <2> QED BY <1>5, <2>1
  <1>6. q \notin {Me, PrivateChannels, AllGuilds}
    BY <1>2, <1>3, <1>4 DEF Me, PrivateChannels, AllGuilds, Query
  <1>7. ASSUME NEW x \in Chans
        PROVE  q # Channel(x) /\ q # MessageChannel(x)
    BY <1>3, <1>4 DEF Channel, MessageChannel, Query
  <1>8. ASSUME NEW u \in Users
        PROVE  q # CreatePrivateChannel(u)
    BY <1>2 DEF CreatePrivateChannel, Query
  <1>9. ASSUME NEW g \in Guilds
        PROVE  q \notin {Channels(g), Guild(g), Members(g), AllRoles(g)}
    <2>1. /\ Channels(g).wants = In("channel", g) /\ Guild(g).wants = In("guild", g)
          /\ Members(g).wants = In("member", g) /\ AllRoles(g).wants = In("role", g)
      BY Zenon DEF Channels, Guild, fetchGuild, Members, AllRoles, fetchRoles, Query
    <2>2. \A k \in {"channel", "guild", "member", "role"} : q.wants # In(k, g)
      BY <1>1, <1>4
    <2> QED BY <2>1, <2>2
  <1>10. ASSUME NEW g \in Guilds
         PROVE  (\A u \in Users : q # Member(g, u)) /\ (\A r \in Roles : q # Role(g, r))
    <2>1. /\ \A u : Member(g, u).wants \subseteq In("member", g)
          /\ \A r : Role(g, r).wants = In("role", g)
      BY DEF Member, fetchMember, Role, fetchRoles, Query
    <2>2. \A k \in {"member", "role"} : ~(q.wants \subseteq In(k, g))
      BY <1>1, <1>4
    <2> QED BY <2>1, <2>2
  <1>11. \E g \in Guilds : q \in {Emoji(g), Emojis(g)}
    <2>1. \/ q \in {Me, PrivateChannels, AllGuilds}
          \/ \E x \in Chans : q = Channel(x) \/ q = MessageChannel(x)
          \/ \E u \in Users : q = CreatePrivateChannel(u)
          \/ \E g \in Guilds :
                \/ q \in {Channels(g), Emoji(g), Emojis(g), Guild(g), Members(g), AllRoles(g)}
                \/ (\E u \in Users : q = Member(g, u)) \/ (\E r \in Roles : q = Role(g, r))
      BY Zenon DEF Queries
    <2>2. PICK g \in Guilds : q \in {Channels(g), Emoji(g), Emojis(g), Guild(g), Members(g), AllRoles(g)}
      BY <1>6, <1>7, <1>8, <1>10, <2>1
    <2> QED BY <1>9, <2>2
  <1>12. \E g \in Guilds : q.wants = In("emoji", g)
    BY <1>11 DEF Emoji, Emojis, Query
  <1> QED BY <1>5, <1>12

LEMMA MirrorAsk ==
  ASSUME MirrorInv, NEW c \in Getters, Ask(c)
  PROVE  MirrorInv'
  <1>1. PICK q \in Queries : call' = [call EXCEPT ![c] =
              [phase |-> "asked", wants |-> q.wants \cap items, keeps |-> q.keeps, ans |-> {}]]
    BY Zenon DEF Ask
  <1>2. PICK r : r = [phase |-> "asked", wants |-> q.wants \cap items, keeps |-> q.keeps, ans |-> {}]
    OBVIOUS
  <1>3. call' = [call EXCEPT ![c] = r]
    BY <1>1, <1>2, Zenon
  <1>4. \A i \in r.wants : i.kind = "emoji" => r.wants = {i}
    BY <1>2, EmojisAlone
  <1>5. CallIs(r) /\ r.ans = {} /\ r.phase # "overwriting"
    BY <1>2, <1>4 DEF CallIs
  <1>6. /\ UNCHANGED <<cab, account, intents, items, ver, here, joined, shown, queue, doubt>>
        /\ call[c].phase # "overwriting"
    BY DEF Ask, server
  <1>7. \A i \in items : Cached(i)' = Cached(i)
    BY <1>6, Same
  <1>8. cab' \in Cabinets /\ cab.emoji.known \subseteq cab'.emoji.known /\ \A g : Entered(g)' <=> Entered(g)
    BY <1>6 DEF MirrorInv, MirrorTypes, Entered
  <1> QED BY <1>3, <1>5, <1>6, <1>7, <1>8, NoFacts, MirrorCall

LEMMA MirrorAnswer ==
  ASSUME MirrorInv, NEW c \in Getters, Answer(c)
  PROVE  MirrorInv'
  <1>1. ServerTypes
    BY DEF MirrorInv, MirrorTypes, ServerTypes
  <1>2. PICK r : /\ call' = [call EXCEPT ![c] = r] /\ CallIs(r) /\ r.phase # "overwriting"
                 /\ Facts(r.ans) /\ True(r.ans)
    <2>1. CASE call' = [call EXCEPT ![c] = Idle]
      BY <2>1, IdleCall
    <2>2. CASE call' = [call EXCEPT ![c].phase = "answered", ![c].wants = {}, ![c].ans = Snapshot(call[c].wants)]
      <3>1. PICK data : /\ data = Snapshot(call[c].wants) /\ Facts(data) /\ True(data)
                        /\ \A f \in data : f.item \in call[c].wants
        BY <1>1, SnapshotTrue
      <3>2. PICK r : r = [call[c] EXCEPT !.phase = "answered", !.wants = {}, !.ans = data]
        OBVIOUS
      <3>3. call' = [call EXCEPT ![c] = r]
        BY <2>2, <3>1, <3>2
      <3>4. CallIs(call[c])
        BY DEF MirrorInv, MirrorTypes, CallTypes
      <3>5. DOMAIN r = {"phase", "wants", "keeps", "ans"} /\ r.phase = "answered" /\ r.ans = data /\ r.wants = {}
        BY <3>2, <3>4 DEF CallIs
      <3>6. ASSUME NEW d \in data, d.item.kind = "emoji"
            PROVE  data = {d}
        <4>1. call[c].wants = {d.item}
          BY <3>1, <3>4, <3>6 DEF CallIs
        <4>2. \A f \in data : f.item = d.item
          BY <3>1, <4>1
        <4> QED BY <3>1, <4>2 DEF Facts
      <3>7. CallIs(r)
        BY <3>5, <3>6 DEF CallIs
      <3> QED BY <3>1, <3>3, <3>5, <3>7
    <2> QED BY <2>1, <2>2 DEF Answer
  <1>3. /\ UNCHANGED <<cab, account, intents, items, ver, here, joined, shown, queue, doubt>>
        /\ call[c].phase # "overwriting"
    BY DEF Answer, server
  <1>4. \A i \in items : Cached(i)' = Cached(i)
    BY <1>3, Same
  <1>5. cab' \in Cabinets /\ cab.emoji.known \subseteq cab'.emoji.known /\ \A g : Entered(g)' <=> Entered(g)
    BY <1>3 DEF MirrorInv, MirrorTypes, Entered
  <1> QED BY <1>2, <1>3, <1>4, <1>5, MirrorCall

LEMMA MirrorReturn ==
  ASSUME MirrorInv, NEW c \in Getters, Return(c)
  PROVE  MirrorInv'
  <1>1. /\ UNCHANGED <<cab, account, intents, items, ver, here, joined, shown, queue, doubt>>
        /\ call[c].phase # "overwriting" /\ call' = [call EXCEPT ![c] = Idle]
    BY DEF Return, server
  <1>2. \A i \in items : Cached(i)' = Cached(i)
    BY <1>1, Same
  <1>3. cab' \in Cabinets /\ cab.emoji.known \subseteq cab'.emoji.known /\ \A g : Entered(g)' <=> Entered(g)
    BY <1>1 DEF MirrorInv, MirrorTypes, Entered
  <1> QED BY <1>1, <1>2, <1>3, IdleCall, MirrorCall

(* What a getter leaves of its answer.                                      *)
LEMMA AnswerLeft ==
  ASSUME MirrorTypes, NEW c \in Getters, NEW d \in call[c].ans, StoredOne(c, d)
  PROVE  \E r : /\ call' = [call EXCEPT ![c] = r] /\ CallIs(r) /\ r.phase = "answered" /\ r.keeps = call[c].keeps
               /\ r.ans = call[c].ans \ {d} /\ Facts(r.ans)
  <1>1. PICK r : r = [call[c] EXCEPT !.phase = "answered", !.ans = @ \ {d}]
    OBVIOUS
  <1>2. call' = [call EXCEPT ![c] = r]
    BY <1>1 DEF StoredOne
  <1>3. CallIs(call[c]) /\ Facts(call[c].ans)
    BY DEF MirrorTypes, CallTypes
  <1>4. /\ DOMAIN r = {"phase", "wants", "keeps", "ans"} /\ r.phase = "answered" /\ r.keeps = call[c].keeps
        /\ r.ans = call[c].ans \ {d} /\ r.wants = call[c].wants
    BY <1>1, <1>3 DEF CallIs
  <1>5. \A f \in r.ans : f.item.kind = "emoji" => r.ans = {f}
    BY <1>3, <1>4 DEF CallIs
  <1>6. \A i \in r.wants : i.kind = "emoji" => r.wants = {i}
    BY <1>3, <1>4 DEF CallIs
  <1>7. CallIs(r)
    BY <1>4, <1>5, <1>6 DEF CallIs
  <1>8. Facts(r.ans)
    BY <1>3, <1>4, SubFacts
  <1> QED BY <1>2, <1>4, <1>7, <1>8

(* What a getter stores over something is the truth, or it was told so.     *)
LEMMA StoresAnswer ==
  ASSUME MirrorTypes, NEW c \in Getters, call[c].keeps, NEW d \in call[c].ans, NEW w, HoldsIn(cab', cab, d.item, w),
         w = Cached(d.item) \/ (w = d.ver /\ (Cached(d.item) = 0 \/ Rash(d.item)))
  PROVE  \A i \in items : Cached(i)' # Cached(i) =>
             /\ i = d.item /\ Cached(i)' # 0
             /\ Reflects(i) /\ LastAt(0, i) => Cached(i)' = Truth(i)
  <1> SUFFICES ASSUME NEW i \in items, Cached(i)' # Cached(i)
               PROVE  /\ i = d.item /\ Cached(i)' # 0
                      /\ Reflects(i) /\ LastAt(0, i) => Cached(i)' = Truth(i)
    OBVIOUS
  <1>1. i \in AllItems /\ Cached(i)' = Stored(cab', i) /\ Cached(i) = Stored(cab, i)
    BY DEF MirrorTypes, Cached
  <1>2. i = d.item /\ Cached(i)' = d.ver /\ (Cached(i) = 0 \/ Rash(i))
    BY <1>1 DEF HoldsIn
  <1>3. d.ver # 0
    BY DEF MirrorTypes, Facts
  <1>4. Honest(i) => d.ver = Truth(i)
    BY <1>2 DEF Honest
  <1>5. Reflects(i) /\ LastAt(0, i) => Honest(i) \/ d.ver = Truth(i)
    <2>1. LeftAt(0, i, Cached(i))
      BY DEF LeftAt
    <2>2. 0 \in 0..Len(queue) /\ 0 \in Nat
      BY DEF MirrorTypes, IsQueue
    <2> QED BY <1>2, <2>1, <2>2 DEF Reflects
  <1> QED BY <1>2, <1>3, <1>4, <1>5

LEMMA MirrorFill ==
  ASSUME MirrorInv, NEW c \in Getters, Fill(c)
  PROVE  MirrorInv'
  <1>1. /\ UNCHANGED <<account, intents, items, ver, here, joined, shown, queue, doubt>>
        /\ call[c].phase = "answered" /\ call[c].keeps
    BY DEF Fill, server
  <1>2. PICK d \in call[c].ans :
            LET entering == d.item.kind = "emoji" /\ ~HasEmojis(cab, d.item.guild) IN
            \/ entering /\ cab' = EmojiEnter(cab, d.item.guild) /\ call' = [call EXCEPT ![c].phase = "overwriting"]
            \/ ~entering /\ cab' = Store(cab, d.item, d.ver, FALSE) /\ StoredOne(c, d)
    BY Zenon DEF Fill
  <1>3. d.item \in items /\ d.item \in AllItems /\ d.ver \in Nat \ {0} /\ CallIs(call[c]) /\ Facts(call[c].ans)
        /\ cab \in Cabinets
    BY DEF MirrorInv, MirrorTypes, CallTypes, Facts
  <1>4. CASE /\ d.item.kind = "emoji" /\ ~HasEmojis(cab, d.item.guild)
             /\ cab' = EmojiEnter(cab, d.item.guild) /\ call' = [call EXCEPT ![c].phase = "overwriting"]
    <2>1. PICK r : r = [call[c] EXCEPT !.phase = "overwriting"]
      OBVIOUS
    <2>2. call' = [call EXCEPT ![c] = r]
      BY <1>4, <2>1
    <2>3. /\ DOMAIN r = {"phase", "wants", "keeps", "ans"} /\ r.phase = "overwriting" /\ r.keeps
          /\ r.ans = call[c].ans /\ r.wants = call[c].wants
      BY <1>1, <1>3, <2>1 DEF CallIs
    <2>4. CallIs(r) /\ r.ans = {d}
      BY <1>3, <1>4, <2>3 DEF CallIs
    <2>5. /\ CallTypes' /\ \A data \in {call'[b].ans : b \in Getters} : Facts(data)
          /\ \A i : Honest(i) => Honest(i)'
          /\ call'[c] = r /\ \A b \in Getters : b # c => call'[b] = call[b]
      <3>1. Facts(r.ans) /\ \A f \in r.ans : f \in call[c].ans /\ call[c].keeps
        BY <1>1, <1>3, <2>3
      <3> QED BY <1>1, <2>2, <2>4, <3>1, Calls DEF MirrorInv
    <2>6. d.item.guild \in Guilds
      BY <1>3, <1>4, ItemTypes
    <2>7. cab' \in Cabinets /\ (\A i \in items : Cached(i)' = Cached(i))
          /\ \A g : Entered(g)' <=> Entered(g) \/ g = d.item.guild
      BY <1>3, <1>4, <2>6, EnterEffect DEF MirrorInv, MirrorTypes, Cached, Entered
    <2>8. \A i : Coming(i) => Coming(i)'
      BY <1>1, <2>5 DEF Coming, InAnswer
    <2>9. Entering'
      <3>1. \A b \in Getters : call'[b].phase = "overwriting" => \A f \in call'[b].ans : Entered(f.item.guild)'
        BY <2>4, <2>5, <2>7 DEF MirrorInv, Entering
      <3>2. ASSUME NEW i \in items, i.kind = "emoji", Entered(i.guild)', Cached(i)' = 0
            PROVE  Coming(i)'
        <4>1. CASE i.guild = d.item.guild
          <5>1. i = d.item
            BY <1>3, <1>4, <3>2, <4>1, ItemTypes, ItemsDiffer DEF MirrorInv, MirrorTypes
          <5> QED BY <2>3, <2>4, <2>5, <3>2, <5>1 DEF Coming, InAnswer
        <4>2. CASE i.guild # d.item.guild
          BY <2>7, <2>8, <3>2, <4>2 DEF MirrorInv, Entering
        <4> QED BY <4>1, <4>2
      <3> QED BY <1>1, <3>1, <3>2 DEF Entering
    <2> QED BY <1>1, <2>5, <2>7, <2>8, <2>9, MirrorStill DEF MirrorInv, MirrorTypes
  <1>5. CASE /\ ~(d.item.kind = "emoji" /\ ~HasEmojis(cab, d.item.guild))
             /\ cab' = Store(cab, d.item, d.ver, FALSE) /\ StoredOne(c, d)
    <2>1. PICK r : /\ call' = [call EXCEPT ![c] = r] /\ CallIs(r) /\ r.phase = "answered" /\ r.keeps = call[c].keeps
                   /\ r.ans = call[c].ans \ {d} /\ Facts(r.ans)
      BY <1>5, AnswerLeft DEF MirrorInv
    <2>2. PICK w : w = Kept(cab, d.item, d.ver, FALSE)
      OBVIOUS
    <2>3. HoldsIn(cab', cab, d.item, w)
      BY <1>3, <1>5, <2>2, StoreEffect
    <2>4. w = Cached(d.item) \/ (w = d.ver /\ (Cached(d.item) = 0 \/ Rash(d.item)))
      BY <2>2 DEF Kept, Put, Cached, Rash
    <2>5. \A i \in items : Cached(i)' # Cached(i) =>
             Cached(i)' # 0 /\ (Reflects(i) /\ LastAt(0, i) => Cached(i)' = Truth(i))
      BY <1>1, <2>3, <2>4, StoresAnswer DEF MirrorInv
    <2>6. cab' \in Cabinets /\ cab.emoji.known \subseteq cab'.emoji.known /\ \A g : Entered(g)' => Entered(g)
      BY <1>5, <2>3 DEF HoldsIn, Enters, HasEmojis, Entered
    <2>7. \A f \in r.ans : f \in call[c].ans /\ call[c].keeps
      BY <1>1, <2>1
    <2> QED BY <1>1, <2>1, <2>5, <2>6, <2>7, MirrorCall
  <1> QED BY <1>2, <1>4, <1>5

LEMMA MirrorOverwrite ==
  ASSUME MirrorInv, NEW c \in Getters, Overwrite(c)
  PROVE  MirrorInv'
  <1>1. /\ UNCHANGED <<account, intents, items, ver, here, joined, shown, queue, doubt>>
        /\ call[c].phase = "overwriting"
    BY DEF Overwrite, server
  <1>2. PICK d \in call[c].ans : cab' = EmojiWrite(cab, d.item.guild, d.ver) /\ StoredOne(c, d)
    BY DEF Overwrite
  <1>3. d.item \in items /\ d.item \in AllItems /\ d.ver \in Nat \ {0} /\ CallIs(call[c]) /\ cab \in Cabinets
    BY DEF MirrorInv, MirrorTypes, CallTypes, Facts
  <1>4. call[c].keeps /\ call[c].ans = {d} /\ d.item.kind = "emoji" /\ Entered(d.item.guild)
    BY <1>1, <1>3 DEF CallIs, MirrorInv, Entering
  <1>5. HoldsIn(cab', cab, d.item, d.ver) /\ cab'.emoji.known = cab.emoji.known
    BY <1>2, <1>3, <1>4, WriteEffect DEF Entered
  <1>6. PICK r : /\ call' = [call EXCEPT ![c] = r] /\ CallIs(r) /\ r.phase = "answered" /\ r.keeps = call[c].keeps
                 /\ r.ans = call[c].ans \ {d} /\ Facts(r.ans)
    BY <1>2, AnswerLeft DEF MirrorInv
  <1>7. /\ CallTypes' /\ \A data \in {call'[b].ans : b \in Getters} : Facts(data)
        /\ \A i : Honest(i) => Honest(i)'
        /\ call'[c] = r /\ \A b \in Getters : b # c => call'[b] = call[b]
    <2>1. \A f \in r.ans : f \in call[c].ans /\ call[c].keeps
      BY <1>4, <1>6
    <2> QED BY <1>1, <1>6, <2>1, Calls DEF MirrorInv
  <1>8. \A i \in items : Cached(i)' # Cached(i) =>
             Cached(i)' # 0 /\ (Reflects(i) /\ LastAt(0, i) => Cached(i)' = Truth(i))
    BY <1>4, <1>5, StoresAnswer DEF MirrorInv, Rash
  <1>9. Cached(d.item)' = d.ver /\ \A i \in items : i # d.item => Cached(i)' = Cached(i)
    BY <1>3, <1>5 DEF HoldsIn, Cached, MirrorInv, MirrorTypes
  <1>10. \A i \in items : i # d.item /\ Coming(i) => Coming(i)'
    BY <1>4, <1>7 DEF Coming, InAnswer
  <1>11. Entering'
    <2>1. \A g : Entered(g)' <=> Entered(g)
      BY <1>5 DEF Entered
    <2>2. \A b \in Getters : call'[b].phase = "overwriting" => \A f \in call'[b].ans : Entered(f.item.guild)'
      BY <1>6, <1>7, <2>1 DEF MirrorInv, Entering
    <2>3. ASSUME NEW i \in items, i.kind = "emoji", Entered(i.guild)', Cached(i)' = 0
          PROVE  Coming(i)'
      BY <1>3, <1>9, <1>10, <2>1, <2>3 DEF MirrorInv, Entering
    <2> QED BY <1>1, <2>2, <2>3 DEF Entering
  <1>12. \A i \in items : Coming(i) => Coming(i)' \/ Cached(i)' # 0
    BY <1>3, <1>9, <1>10
  <1>13. cab' \in Cabinets
    BY <1>5 DEF HoldsIn
  <1> QED BY <1>1, <1>7, <1>8, <1>11, <1>12, <1>13, MirrorStill DEF MirrorInv, MirrorTypes

-----------------------------------------------------------------------------
(* The handler.                                                             *)

LEMMA WhoTells ==
  ASSUME items \subseteq AllItems, NEW e, Tells(e)
  PROVE  /\ e.type \in Bringing => TellsData(e)
         /\ e.type = "GuildMemberUpdate" => TellsItem(e) /\ e.item.kind = "member" /\ e.ver # 0
  <1>1. CASE TellsItem(e)
    <2>1. e.item.kind \in Kinds
      BY <1>1, ItemTypes DEF TellsItem
    <2> QED BY <1>1, <2>1 DEF TellsItem, CreateEvent, UpdateEvents, DeleteEvent, MemberEvents, Bringing, Kinds
  <1>2. CASE TellsData(e)
    BY <1>2 DEF TellsData, Bringing
  <1>3. CASE TellsNothing(e)
    BY <1>3 DEF TellsNothing, Bringing
  <1> QED BY <1>1, <1>2, <1>3 DEF Tells

LEMMA MirrorReads ==
  ASSUME MirrorInv, NEW e, readsMember(e)
  PROVE  MirrorInv'
  <1>1. /\ UNCHANGED <<cab, call, account, intents, items, ver, here, joined, shown, doubt>>
        /\ Taking(e) /\ e.type = "GuildMemberUpdate"
    BY DEF readsMember, server
  <1>2. PICK t \in {"MemberFound", "MemberMissing"} : queue' = <<[e EXCEPT !.type = t]>> \o Tail(queue)
    BY DEF readsMember
  <1>3. PICK f : f = [e EXCEPT !.type = t]
    OBVIOUS
  <1>4. /\ Tells(e) /\ e = queue[1] /\ Len(queue) \in Nat \ {0} /\ DOMAIN queue = 1..Len(queue)
        /\ \A n \in 1..Len(queue) : Tells(queue[n])
    BY <1>1, HeadTells DEF MirrorInv
  <1>5. TellsItem(e) /\ e.item.kind = "member" /\ e.ver # 0
    BY <1>1, <1>4, WhoTells DEF MirrorInv, MirrorTypes
  <1>6. f.type = t /\ f.item = e.item /\ f.ver = e.ver /\ DOMAIN f = {"type", "item", "ver"}
    BY <1>3, <1>5 DEF TellsItem
  <1>7. TellsItem(f)
    BY <1>5, <1>6 DEF TellsItem, MemberEvents
  <1>8. queue' = <<f>> \o Tail(queue)
    BY <1>2, <1>3
  <1>9. MirrorTypes'
    BY <1>1, <1>7, <1>8, TypesHead DEF MirrorInv, MirrorTypes, Tells
  <1>10. Len(queue') = Len(queue) /\ queue'[1] = f /\ \A k \in 1..Len(queue) : k = 1 \/ queue'[k] = queue[k]
    BY <1>1, <1>8, HeadStays DEF MirrorInv, MirrorTypes, Taking
  <1>11. ASSUME NEW i \in items
         PROVE  (i \notin doubt' => Reflects(i)') /\ Brought(i)'
    <2>1. Says(f, i) = Says(e, i)
      BY <1>5, <1>6, <1>7, SaysWhat
    <2>2. ~Clears(f, i) /\ ~Clears(e, i)
      BY <1>5, <1>7, ItemsClearNothing DEF MirrorInv, MirrorTypes
    <2>3. Firm(f, i) /\ Firm(e, i)
      BY <1>1, <1>6 DEF Firm, Tentative, Bringing
    <2>4. Truth(i)' = Truth(i)
      BY <1>1 DEF Truth
    <2>5. /\ Cached(i)' = Cached(i) /\ (Honest(i)' <=> Honest(i)) /\ (Told(i)' <=> Told(i))
          /\ (Coming(i)' <=> Coming(i)) /\ (Listed(i)' <=> Listed(i))
      BY <1>1, <2>4, Same
    <2>6. SaysAgain(i)
      BY <1>4, <1>10, <2>1, <2>2, <2>3, <2>4, <2>5 DEF SaysAgain
    <2>7. Owed(i)' => Owed(i)
      BY <1>1, <2>5 DEF Owed
    <2> QED BY <1>1, <2>5, <2>6, <2>7, ReflectsAgain, BroughtAgain DEF MirrorInv
  <1> QED BY <1>1, <1>9, <1>11, EnteringStays DEF MirrorInv

LEMMA MirrorStores ==
  ASSUME MirrorInv, NEW e, stores(e)
  PROVE  MirrorInv'
  <1>1. /\ UNCHANGED <<call, account, intents, items, ver, here, joined, shown, doubt>>
        /\ Taking(e) /\ e.type \in Bringing
    BY DEF stores, server
  <1>2. PICK d \in e.data : /\ cab' = Store(cab, d.item, d.ver, FALSE)
                            /\ queue' = <<[e EXCEPT !.type = Storing(@), !.data = @ \ {d}]>> \o Tail(queue)
    BY DEF stores
  <1>3. PICK f : f = [e EXCEPT !.type = Storing(@), !.data = @ \ {d}]
    OBVIOUS
  <1>4. /\ Tells(e) /\ e = queue[1] /\ Len(queue) \in Nat \ {0} /\ DOMAIN queue = 1..Len(queue)
        /\ \A n \in 1..Len(queue) : Tells(queue[n])
    BY <1>1, HeadTells DEF MirrorInv
  <1>5. TellsData(e) /\ Facts(e.data)
    BY <1>1, <1>4, WhoTells DEF MirrorInv, MirrorTypes, TellsData
  <1>6. f.type = Storing(e.type) /\ f.data = e.data \ {d} /\ DOMAIN f = DOMAIN e
    BY <1>3, <1>5 DEF TellsData
  <1>7. TellsData(f) /\ f.type \in Bringing
    <2>1. Storing(e.type) \in Bringing
      BY <1>1 DEF Storing, Bringing
    <2>2. Facts(f.data)
      BY <1>5, <1>6, SubFacts
    <2> QED BY <1>5, <1>6, <2>1, <2>2 DEF TellsData
  <1>8. queue' = <<f>> \o Tail(queue)
    BY <1>2, <1>3
  <1>9. d.item \in items /\ d.item \in AllItems /\ d.ver \in Nat \ {0} /\ cab \in Cabinets
    BY <1>5 DEF MirrorInv, MirrorTypes, Facts
  <1>10. HoldsIn(cab', cab, d.item, Kept(cab, d.item, d.ver, FALSE))
    BY <1>2, <1>9, StoreEffect
  <1>11. MirrorTypes'
    BY <1>1, <1>7, <1>8, <1>10, TypesHead DEF MirrorInv, Tells, HoldsIn
  <1>12. Len(queue') = Len(queue) /\ queue'[1] = f /\ \A k \in 1..Len(queue) : k = 1 \/ queue'[k] = queue[k]
    BY <1>1, <1>8, HeadStays DEF MirrorInv, MirrorTypes, Taking
  <1>13. ASSUME NEW i \in items
         PROVE  /\ ~Clears(e, i) /\ ~Clears(f, i)
                /\ (Firm(e, i) <=> i.kind = "channel") /\ (Firm(f, i) <=> i.kind = "channel")
                /\ \A v : v \in Says(e, i) <=> \E x \in e.data : x.item = i /\ x.ver = v
                /\ \A v : v \in Says(f, i) <=> \E x \in e.data : x # d /\ x.item = i /\ x.ver = v
    <2>1. ~Clears(e, i) /\ ~Clears(f, i) /\ (Firm(e, i) <=> i.kind = "channel") /\ (Firm(f, i) <=> i.kind = "channel")
      BY <1>1, <1>7 DEF Clears, Firm, Bringing
    <2> QED BY <1>5, <1>6, <1>7, <2>1, SaysWhat
  <1>14. \A i \in items : /\ Truth(i)' = Truth(i) /\ (Honest(i)' <=> Honest(i)) /\ (Coming(i)' <=> Coming(i))
                          /\ (Owed(i)' => Owed(i))
    <2>1. \A i \in items : Truth(i)' = Truth(i)
      BY <1>1 DEF Truth
    <2> QED BY <1>1, <2>1, Same DEF Owed
  <1>15. \A i \in items : i # d.item => Cached(i)' = Cached(i)
    BY <1>10 DEF HoldsIn, Cached, MirrorInv, MirrorTypes
  <1>16. /\ \/ Cached(d.item)' = Put(Cached(d.item), d.ver, d.item.kind = "channel") /\ Cached(d.item)' # 0
            \/ d.item.kind = "emoji" /\ Cached(d.item)' = Cached(d.item) /\ Entered(d.item.guild)
         /\ Cached(d.item)' = 0 => Coming(d.item)'
    <2>1. Cached(d.item)' = Kept(cab, d.item, d.ver, FALSE)
      BY <1>9, <1>10 DEF HoldsIn, Cached
    <2>2. \/ Cached(d.item)' = Put(Cached(d.item), d.ver, d.item.kind = "channel")
          \/ d.item.kind = "emoji" /\ Cached(d.item)' = Cached(d.item) /\ Entered(d.item.guild)
      BY <2>1 DEF Kept, Cached, HasEmojis, Entered
    <2>3. Put(Cached(d.item), d.ver, d.item.kind = "channel") # 0
      BY <1>9 DEF Put
    <2> QED BY <1>9, <1>14, <2>2, <2>3 DEF MirrorInv, Entering
  <1>17. ASSUME NEW i \in items
         PROVE  (i \notin doubt' => Reflects(i)') /\ Brought(i)'
    <2>1. CASE i = d.item
      <3>1. Says(e, i) = {d.ver} /\ Says(f, i) = {}
        <4>1. \A x \in e.data : x.item = i => x = d
          BY <1>5, <2>1 DEF Facts
        <4>2. \A v : (v \in Says(e, i) <=> v = d.ver) /\ v \notin Says(f, i)
          BY <1>13, <2>1, <4>1
        <4> QED BY <4>2
      <3>2. HasBrought(i, d.ver)
        <4>1. Cached(i) \in Nat
          BY StoredTypes DEF MirrorInv, MirrorTypes, Cached
        <4>2. \A n \in 2..Len(queue) : queue'[n] = queue[n]
          BY <1>4, <1>12
        <4> QED BY <1>4, <1>9, <1>12, <1>13, <1>14, <3>1, <4>1, <4>2 DEF HasBrought
      <3>3. \/ Cached(i)' = Put(Cached(i), d.ver, i.kind = "channel")
            \/ i.kind # "channel" /\ Cached(i)' = Cached(i)
        BY <1>16, <2>1
      <3> QED BY <1>1, <1>14, <1>16, <2>1, <3>2, <3>3, ReflectsBrought, BroughtIt DEF MirrorInv
    <2>2. CASE i # d.item
      <3>1. Says(f, i) = Says(e, i)
        <4>1. \A v : v \in Says(f, i) <=> v \in Says(e, i)
          BY <1>13, <2>2
        <4>2. Says(f, i) \subseteq Says(e, i) /\ Says(e, i) \subseteq Says(f, i)
          BY <4>1
        <4> QED BY <4>2
      <3>2. SaysAgain(i)
        BY <1>4, <1>12, <1>13, <1>14, <1>15, <2>2, <3>1 DEF SaysAgain
      <3> QED BY <1>1, <1>14, <3>2, ReflectsAgain, BroughtAgain DEF MirrorInv
    <2> QED BY <2>1, <2>2
  <1>18. Entering'
    <2>1. \A g : Entered(g) => Entered(g)'
      BY <1>10 DEF HoldsIn, Enters, Entered
    <2>2. \A c \in Getters : call'[c].phase = "overwriting" => \A x \in call'[c].ans : Entered(x.item.guild)'
      BY <1>1, <2>1 DEF MirrorInv, Entering
    <2>3. ASSUME NEW i \in items, i.kind = "emoji", Entered(i.guild)', Cached(i)' = 0, i # d.item
          PROVE  Coming(i)'
      <3>1. Entered(i.guild) \/ (d.item.kind = "emoji" /\ i.guild = d.item.guild)
        BY <1>10, <2>3 DEF HoldsIn, Enters, Entered
      <3>2. ~(d.item.kind = "emoji" /\ i.guild = d.item.guild)
        BY <1>9, <2>3, ItemTypes, ItemsDiffer DEF MirrorInv, MirrorTypes
      <3> QED BY <1>14, <1>15, <2>3, <3>1, <3>2 DEF MirrorInv, Entering
    <2> QED BY <1>1, <1>16, <2>2, <2>3 DEF Entering
  <1> QED BY <1>1, <1>11, <1>17, <1>18 DEF MirrorInv

LEMMA KeepsCabinet ==
  ASSUME items \subseteq AllItems, NEW c \in Cabinets, NEW e, Tells(e), e.type # "GuildMemberUpdate",
         e.type \in Bringing => e.data = {}
  PROVE  onEvent(c, e) \in Cabinets
  <1>1. CASE TellsItem(e)
    BY <1>1, OnEvent DEF TellsItem
  <1>2. CASE TellsData(e)
    BY <1>2 DEF TellsData, onEvent, Bringing
  <1>3. CASE e.type = "Ready"
    BY <1>3, NewHolds DEF onEvent, Bringing, OnReady, Reset
  <1>4. CASE e.type \in {"MessageCreate", "MessageUpdate"} /\ TellsNothing(e)
    <2>1. onEvent(c, e) = NobodySet(c, e.guild)
      BY <1>4 DEF onEvent, Bringing, OnMessage
    <2> QED BY <1>4, <2>1, NobodyEffect DEF TellsNothing
  <1>5. CASE e.type = "GuildDelete" /\ TellsNothing(e)
    <2>1. onEvent(c, e) = GuildRemove(c, e.guild)
      BY <1>5 DEF onEvent, Bringing, OnGuildDelete
    <2>2. PICK j \in AllItems : j.kind = "guild" /\ j.guild = e.guild
      <3>1. Item("guild", e.guild, "all") \in AllItems
        BY <1>5 DEF TellsNothing, AllItems, ItemsOf, Kinds
      <3> QED BY <3>1 DEF Item
    <2> QED BY <2>1, <2>2, RemoveEffect DEF HoldsIn
  <1> QED BY <1>1, <1>2, <1>3, <1>4, <1>5 DEF Tells, TellsNothing

(* READY empties every store, and no other event a list of emojis.          *)
LEMMA EmojisStay ==
  ASSUME items \subseteq AllItems, NEW e, Tells(e), NEW i \in items
  PROVE  /\ e.type = "Ready" => Wipes(e, i)
         /\ e.type # "Ready" /\ i.kind = "emoji" => ~Clears(e, i) /\ 0 \notin Says(e, i)
  <1>1. ASSUME e.type = "Ready"
        PROVE  Wipes(e, i)
    <2>1. Clears(e, i)
      BY <1>1 DEF Clears
    <2>2. TellsNothing(e)
      BY <1>1, <2>1, ItemsClearNothing DEF Tells, TellsData, Bringing
    <2> QED BY <2>1, <2>2, SaysWhat DEF Wipes
  <1>2. ASSUME e.type # "Ready", i.kind = "emoji"
        PROVE  ~Clears(e, i) /\ 0 \notin Says(e, i)
    <2>1. ~Clears(e, i)
      BY <1>2 DEF Clears
    <2>2. TellsItem(e) /\ e.item = i => e.ver # 0
      BY <1>2 DEF TellsItem, DeleteEvent
    <2>3. TellsData(e) => \A x \in e.data : x.ver # 0
      BY DEF TellsData, Facts
    <2>4. 0 \notin Says(e, i)
      BY <2>2, <2>3, SaysWhat DEF Tells
    <2> QED BY <2>1, <2>4
  <1> QED BY <1>1, <1>2

LEMMA SettledIsDecided ==
  ASSUME items \subseteq AllItems, NEW e, Tells(e), NEW i, Settles(e, i)
  PROVE  Decides(e, i)
  <1>1. CASE e.type = "Ready"
    <2>1. Clears(e, i)
      BY <1>1 DEF Clears
    <2>2. TellsNothing(e)
      BY <1>1, <2>1, ItemsClearNothing DEF Tells, TellsData, Bringing
    <2> QED BY <2>1, <2>2, SaysWhat DEF Decides
  <1>2. CASE "item" \in DOMAIN e /\ e.item = i /\ e.type \notin Tentative
    <2>1. TellsItem(e)
      BY <1>2 DEF Tells, TellsData, TellsNothing
    <2>2. Says(e, i) # {}
      BY <1>2, <2>1, SaysWhat
    <2>3. e.type \notin Bringing
      BY <1>2, WhoTells DEF TellsData
    <2> QED BY <1>2, <2>2, <2>3 DEF Decides, Firm
  <1> QED BY <1>1, <1>2 DEF Settles

LEMMA MirrorHandles ==
  ASSUME MirrorInv, NEW e, handles(e)
  PROVE  MirrorInv'
  <1>1. /\ Taking(e) /\ queue' = Tail(queue) /\ cab' = onEvent(cab, e)
        /\ e.type # "GuildMemberUpdate" /\ (e.type \in Bringing => e.data = {})
        /\ UNCHANGED <<account, intents, items, ver, here, joined, shown>>
        /\ doubt' = {i \in doubt : ~Settles(e, i)}
    BY DEF handles, server
  <1>2. /\ Tells(e) /\ e = queue[1] /\ Len(queue) \in Nat \ {0} /\ DOMAIN queue = 1..Len(queue)
        /\ \A n \in 1..Len(queue) : Tells(queue[n])
    BY <1>1, HeadTells DEF MirrorInv
  <1>3. items \subseteq AllItems /\ cab \in Cabinets
    BY DEF MirrorInv, MirrorTypes
  <1>4. /\ DOMAIN call' = Getters
        /\ \A c \in Getters : \/ call'[c] = call[c] /\ (e.type = "Ready" => call[c].phase # "overwriting")
                              \/ e.type = "Ready" /\ call'[c] = Idle
    BY DEF handles
  <1>5. CallTypes' /\ \A data \in {call'[c].ans : c \in Getters} : Facts(data)
    <2>1. ASSUME NEW c \in Getters
          PROVE  CallIs(call'[c]) /\ Facts(call'[c].ans)
      BY <1>4, <2>1, IdleCall DEF MirrorInv, MirrorTypes, CallTypes
    <2> QED BY <1>4, <2>1 DEF CallTypes
  <1>6. cab' \in Cabinets
    BY <1>1, <1>2, <1>3, KeepsCabinet
  <1>7. MirrorTypes' /\ Passes
    BY <1>1, <1>5, <1>6, TypesTail DEF MirrorInv
  <1>8. ASSUME NEW i \in items
        PROVE  (i \notin doubt' => Reflects(i)') /\ Brought(i)'
    <2>1. Truth(i)' = Truth(i)
      BY <1>1 DEF Truth
    <2>2. Honest(i) => Honest(i)'
      BY <1>4, <2>1, IdleCall DEF Honest
    <2>3. (Told(i)' <=> Told(i)) /\ (Listed(i)' <=> Listed(i))
      BY <1>1, Same
    <2>4. Cached(i) = Stored(cab, i) /\ Cached(i)' = Stored(cab', i)
      BY DEF Cached
    <2>5. After(e, i, Cached(i), Cached(i)')
      BY <1>1, <1>2, <1>3, <2>4, OnEvent
    <2>6. Cached(i) \in Nat /\ Cached(i)' \in Nat
      BY <1>3, <1>6, <2>4, StoredTypes
    <2>7. Rash(i) /\ Reflects(i) => Honest(i)
      BY DEF Reflects
    <2>8. i \notin doubt' => Reflects(i)'
      <3>1. CASE i \notin doubt
        <4>1. Reflects(i)
          BY <3>1 DEF MirrorInv
        <4> QED BY <1>2, <1>7, <2>1, <2>2, <2>5, <2>6, <2>7, <4>1, ReflectsHandled
      <3>2. CASE i \in doubt /\ i \notin doubt'
        <4>1. Settles(e, i)
          BY <1>1, <3>2
        <4>2. Decides(e, i)
          BY <1>2, <1>3, <4>1, SettledIsDecided
        <4>3. Honest(i) /\ \A n \in 1..Len(queue) : Says(queue[n], i) \subseteq {Truth(i)}
          <5>1. ~InFlight(i) => Honest(i)
            BY DEF InFlight, InAnswer, Honest
          <5> QED BY <1>2, <4>1, <5>1 DEF Settles
        <4> QED BY <1>2, <1>7, <2>1, <2>2, <2>5, <2>6, <2>7, <4>2, <4>3, ReflectsHandled
      <3> QED BY <3>1, <3>2
    <2>9. Coming(i) /\ ~Wipes(e, i) => Coming(i)'
      <3>1. ~Wipes(e, i) => e.type # "Ready"
        BY <1>2, <1>3, EmojisStay
      <3> QED BY <1>4, <3>1 DEF Coming, InAnswer
    <2>10. Owed(i)' => Owed(i)
      BY <1>1, <2>3 DEF Owed
    <2> QED BY <1>2, <1>7, <2>5, <2>8, <2>9, <2>10, BroughtHandled DEF MirrorInv
  <1>9. Entering'
    <2>1. \/ e.type = "Ready" /\ cab'.emoji.known = {}
          \/ /\ e.type # "Ready" /\ cab.emoji.known \subseteq cab'.emoji.known
             /\ \A g \in cab'.emoji.known \ cab.emoji.known :
                    \A i \in items : i.kind = "emoji" /\ i.guild = g => Cached(i)' # 0
      BY <1>1, <1>2, <1>3, OnEntries DEF Cached
    <2>2. \A c \in Getters : call'[c].phase = "overwriting" => \A x \in call'[c].ans : Entered(x.item.guild)'
      <3>1. CASE e.type = "Ready"
        BY <1>4, <3>1, IdleCall
      <3>2. CASE e.type # "Ready"
        BY <1>4, <2>1, <3>2 DEF MirrorInv, Entering, Entered
      <3> QED BY <3>1, <3>2
    <2>3. ASSUME NEW i \in items, i.kind = "emoji", Entered(i.guild)', Cached(i)' = 0
          PROVE  Coming(i)'
      <3>1. e.type # "Ready" /\ Entered(i.guild)
        BY <2>1, <2>3 DEF Entered
      <3>2. ~Clears(e, i) /\ 0 \notin Says(e, i)
        BY <1>2, <1>3, <2>3, <3>1, EmojisStay
      <3>3. After(e, i, Cached(i), Cached(i)')
        BY <1>1, <1>2, <1>3, OnEvent DEF Cached
      <3>4. Cached(i) = 0
        BY <2>3, <3>2, <3>3 DEF After, Put
      <3>5. Coming(i)
        BY <2>3, <3>1, <3>4 DEF MirrorInv, Entering
      <3> QED BY <1>4, <3>1, <3>5 DEF Coming, InAnswer
    <2> QED BY <1>1, <2>2, <2>3 DEF Entering
  <1> QED BY <1>1, <1>7, <1>8, <1>9 DEF MirrorInv

-----------------------------------------------------------------------------
(* Whatever the server, the handler and the getters do.                     *)

LEMMA MirrorInit == Init => MirrorInv
  <1> SUFFICES ASSUME Init
               PROVE  MirrorInv
    OBVIOUS
  <1>1. items \in Topics /\ items \subseteq AllItems /\ IsFiniteSet(items)
    BY TopicsAssumption DEF Init, AllItems
  <1>2. ver \in [items -> Nat \ {0}] /\ here = items /\ shown = Full /\ joined = Guilds /\ queue = Greeting /\ cab = New
    BY DEF Init
  <1>3. ServerTypes
    BY <1>1, <1>2 DEF ServerTypes
  <1>4. PICK a, b : GreetsWith(Greeting, a, b)
    BY <1>3, GreetingBrings
  <1>5. IsQueue /\ Ends(Greeting, 0)
    <2>1. IsQueue
      BY <1>2, <1>4 DEF GreetsWith, IsQueue
    <2>2. Len(queue) \in Nat
      BY <2>1 DEF IsQueue
    <2>3. Len(queue) = 0 + Len(Greeting) /\ \A k \in 1..Len(Greeting) : queue[0 + k] = Greeting[k]
      BY <1>2, <2>2
    <2> QED BY <2>1, <2>3 DEF Ends
  <1>6. Consistent
    BY <1>2, <1>4, <1>5, GreetedConsistent DEF Greeted
  <1>7. \A c \in Getters : call[c] = Idle
    BY DEF Init
  <1>8. CallTypes /\ \A data \in {call[c].ans : c \in Getters} : Facts(data)
    BY <1>7, IdleCall DEF CallTypes, Init
  <1>9. \A i \in items : Reflects(i) /\ Brought(i)
    <2>1. \A i \in items : Honest(i)
      BY <1>7, IdleCall DEF Honest
    <2> QED BY <1>6, <2>1 DEF Consistent
  <1>10. MirrorTypes
    <2>1. \A e \in Range(queue) : Tells(e)
      BY <1>2, <1>4, <1>5, GreetingSays, QueueTells
    <2> QED BY <1>1, <1>2, <1>5, <1>8, <2>1, NewHolds DEF MirrorTypes, Full
  <1>11. Entering
    <2>1. \A g : ~Entered(g)
      BY <1>2 DEF Entered, New, NewEmoji
    <2> QED BY <1>7, <2>1, IdleCall DEF Entering
  <1> QED BY <1>9, <1>10, <1>11 DEF MirrorInv

LEMMA MirrorStep ==
  ASSUME MirrorInv, [Next]_vars
  PROVE  MirrorInv'
  <1>1. CASE \E i \in items : Create(i) \/ Update(i) \/ Delete(i) \/ Mention(i)
    BY <1>1, MirrorCreate, MirrorUpdate, MirrorDelete, MirrorMention
  <1>2. CASE Identify
    BY <1>2, MirrorIdentify
  <1>3. CASE \E g \in Guilds : ShowGuild(g) \/ \E out \in BOOLEAN : HideGuild(g, out)
    BY <1>3, MirrorShow, MirrorHide
  <1>4. CASE \E g \in Guilds : JoinGuild(g)
    <2>1. UNCHANGED <<cab, call, account, intents, items, ver, here, shown, queue, doubt>> /\ joined' \subseteq Guilds
      BY <1>4 DEF JoinGuild, MirrorInv, MirrorTypes
    <2> QED BY <2>1, MirrorIdle
  <1>5. CASE hookSession
    BY <1>5, MirrorStores, MirrorReads, MirrorHandles DEF hookSession
  <1>6. CASE \E c \in Getters : Ask(c) \/ Answer(c) \/ Fill(c) \/ Overwrite(c) \/ Return(c)
    BY <1>6, MirrorAsk, MirrorAnswer, MirrorFill, MirrorOverwrite, MirrorReturn
  <1>7. CASE UNCHANGED vars
    BY <1>7, MirrorIdle DEF vars, server, MirrorInv, MirrorTypes
  <1> QED BY <1>1, <1>2, <1>3, <1>4, <1>5, <1>6, <1>7 DEF Next, Server

(* When hookSession has handled everything, the stores of defaultstore hold *)
(* what the server has, however many events, sessions and answers of the    *)
(* API went before: a getter's answer, stored one by one and whenever it    *)
(* comes, between the resets, the lists and the updates of the handler, is  *)
(* overwritten by the events behind it, but for the items of doubt.         *)
THEOREM StoresMirror == Spec => []Mirrors
  <1>1. MirrorInv => Mirrors
    <2> SUFFICES ASSUME MirrorInv, queue = <<>>, NEW i \in items \ doubt
                 PROVE  \/ Cached(i) = Truth(i)
                        \/ Cached(i) = 0 /\ (~Told(i) \/ i.guild = NoGuild \/ ~Listed(i) \/ Coming(i))
      BY DEF Mirrors
    <2>1. Len(queue) = 0 /\ 0 \in 0..0 /\ (0 + 1)..0 = {}
      OBVIOUS
    <2>2. Reflects(i) /\ Brought(i) /\ Cached(i) \in Nat
      BY StoredTypes DEF MirrorInv, MirrorTypes, Cached
    <2>3. LastAt(0, i) /\ LeftAt(0, i, Cached(i))
      BY <2>1 DEF LastAt, LeftAt
    <2>4. Cached(i) = Truth(i) \/ Cached(i) = 0
      BY <2>1, <2>2, <2>3 DEF Reflects
    <2>5. Cached(i) = 0 /\ i \in here => ~Told(i) \/ i.guild = NoGuild \/ ~Listed(i) \/ Coming(i)
      BY <2>1, <2>2 DEF Brought, Owed, WipedAt
    <2>6. i \notin here => Truth(i) = 0
      BY DEF Truth
    <2> QED BY <2>4, <2>5, <2>6
  <1> QED BY <1>1, MirrorInit, MirrorStep, PTL DEF Spec

-----------------------------------------------------------------------------
(* Parts of a sequence.                                                     *)

PickedOut(r, s, P) ==
    /\ Len(r) <= Len(s)
    /\ \E g : /\ g \in [1..Len(r) -> P]
              /\ \A k \in 1..Len(r) : r[k] = s[g[k]]
              /\ \A k, l \in 1..Len(r) : k < l => g[k] < g[l]
              /\ \A i \in P : \E k \in 1..Len(r) : g[k] = i

LEMMA ThosePicks ==
  ASSUME NEW X, NEW s \in Seq(X), NEW P, P \subseteq 1..Len(s)
  PROVE  Those(s, P) \in Seq(X) /\ PickedOut(Those(s, P), s, P)
  <1> DEFINE N == Len(s)
             step == [q \in (1..N) \X Seq(X) |-> IF q[1] \in P THEN Append(q[2], s[q[1]]) ELSE q[2]]
             Def(f) == f = [n \in 0..N |->
                              IF n = 0 THEN <<>>
                              ELSE IF n \in P THEN Append(f[n - 1], s[n]) ELSE f[n - 1]]
             taken == CHOOSE f : Def(f)
  <1>0. \A i \in P : i \in Nat /\ i # 0
    OBVIOUS
  <1>1. N \in Nat /\ <<>> \in Seq(X) /\ step \in [(1..N) \X Seq(X) -> Seq(X)]
    OBVIOUS
  <1>2. PICK f : Runs(f, Seq(X), N, <<>>, step)
    <2> HIDE DEF step, N
    <2> QED BY <1>1, Loop
  <1>3. Def(f)
    <2>1. f \in [0..N -> Seq(X)] /\ \A n \in 0..N : f[n] = IF n = 0 THEN <<>> ELSE step[<<n, f[n - 1]>>]
      BY <1>2 DEF Runs
    <2>2. \A n \in 0..N : n # 0 => step[<<n, f[n - 1]>>] = IF n \in P THEN Append(f[n - 1], s[n]) ELSE f[n - 1]
      <3> TAKE n \in 0..N
      <3> HAVE n # 0
      <3>1. n \in 1..N /\ f[n - 1] \in Seq(X)
        BY <1>1, <2>1
      <3> QED BY <3>1
    <2>3. \A n \in 0..N : f[n] = IF n = 0 THEN <<>> ELSE IF n \in P THEN Append(f[n - 1], s[n]) ELSE f[n - 1]
      BY <2>1, <2>2
    <2> QED BY <2>1, <2>3
  <1>4. Def(taken)
    <2> HIDE DEF Def
    <2> QED BY <1>3
  <1>5. Those(s, P) = taken[N]
    BY DEF Those
  <1>a. \A n \in 0..N : taken[n] = IF n = 0 THEN <<>>
                                  ELSE IF n \in P THEN Append(taken[n - 1], s[n]) ELSE taken[n - 1]
    <2> HIDE DEF taken
    <2> QED BY <1>4
  <1> HIDE DEF taken
  <1> DEFINE Upto(n) == \E g : /\ g \in [1..Len(taken[n]) -> P]
                               /\ \A k \in 1..Len(taken[n]) : g[k] <= n /\ taken[n][k] = s[g[k]]
                               /\ \A k, l \in 1..Len(taken[n]) : k < l => g[k] < g[l]
                               /\ \A i \in P : i <= n => \E k \in 1..Len(taken[n]) : g[k] = i
             Done == {n \in Nat : n <= N => taken[n] \in Seq(X) /\ Len(taken[n]) <= n /\ Upto(n)}
  <1>6. 0 \in Done
    <2>1. taken[0] = <<>>
      BY <1>1, <1>a
    <2>2. Upto(0)
      <3> DEFINE g == [k \in {} |-> 0]
      <3>1. Len(taken[0]) = 0 /\ 1..0 = {} /\ \A i \in P : ~(i <= 0)
        BY <2>1, <1>0
      <3>2. g \in [1..Len(taken[0]) -> P]
        BY <3>1
      <3> QED BY <3>1, <3>2
    <2>3. Len(taken[0]) <= 0
      BY <2>1
    <2> HIDE DEF Upto
    <2> QED BY <1>1, <2>1, <2>2, <2>3
  <1>7. ASSUME NEW n \in Nat, n \in Done
        PROVE  n + 1 \in Done
    <2> SUFFICES ASSUME n + 1 <= N
                 PROVE  taken[n + 1] \in Seq(X) /\ Len(taken[n + 1]) <= n + 1 /\ Upto(n + 1)
      OBVIOUS
    <2>0. n <= N
      BY <1>1
    <2>a. taken[n] \in Seq(X) /\ Len(taken[n]) <= n /\ Upto(n)
      BY <1>7, <2>0, Zenon
    <2>b. n + 1 \in 1..N /\ n + 1 \in 0..N /\ n + 1 # 0 /\ (n + 1) - 1 = n
      BY <1>1
    <2>c. s[n + 1] \in X
      BY <2>b
    <2>1. /\ n + 1 \in 1..N /\ n + 1 \in 0..N /\ n + 1 # 0 /\ (n + 1) - 1 = n
          /\ taken[n] \in Seq(X) /\ Len(taken[n]) <= n /\ Upto(n) /\ s[n + 1] \in X
      BY <2>a, <2>b, <2>c
    <2>2. taken[n + 1] = IF n + 1 \in P THEN Append(taken[n], s[n + 1]) ELSE taken[n]
      BY <2>1, <1>a
    <2>3. PICK g : /\ g \in [1..Len(taken[n]) -> P]
                   /\ \A k \in 1..Len(taken[n]) : g[k] <= n /\ taken[n][k] = s[g[k]]
                   /\ \A k, l \in 1..Len(taken[n]) : k < l => g[k] < g[l]
                   /\ \A i \in P : i <= n => \E k \in 1..Len(taken[n]) : g[k] = i
      BY <2>1
    <2>4. CASE n + 1 \notin P
      <3>1. taken[n + 1] = taken[n]
        BY <2>2, <2>4
      <3>2. \A i \in P : i <= n + 1 => i <= n
        BY <2>4
      <3>3. \A k \in 1..Len(taken[n]) : g[k] <= n + 1
        <4> TAKE k \in 1..Len(taken[n])
        <4>1. g[k] \in P /\ g[k] <= n
          BY <2>3
        <4>2. g[k] \in Nat /\ n \in Nat
          BY <4>1, <1>0
        <4> QED BY <4>1, <4>2
      <3> HIDE DEF Upto
      <3>4. /\ g \in [1..Len(taken[n + 1]) -> P]
            /\ \A k \in 1..Len(taken[n + 1]) : g[k] <= n + 1 /\ taken[n + 1][k] = s[g[k]]
            /\ \A k, l \in 1..Len(taken[n + 1]) : k < l => g[k] < g[l]
            /\ \A i \in P : i <= n + 1 => \E k \in 1..Len(taken[n + 1]) : g[k] = i
        BY <2>3, <3>1, <3>2, <3>3
      <3>5. Upto(n + 1)
        BY <3>4, Zenon DEF Upto
      <3>6. Len(taken[n]) <= n + 1
        BY <2>1
      <3> QED BY <2>1, <3>1, <3>5, <3>6
    <2>5. CASE n + 1 \in P
      <3> DEFINE r == taken[n + 1]
                 h == [k \in 1..Len(r) |-> IF k = Len(r) THEN n + 1 ELSE g[k]]
      <3>1. r = Append(taken[n], s[n + 1])
        BY <2>2, <2>5
      <3>2. /\ r \in Seq(X) /\ Len(r) = Len(taken[n]) + 1 /\ Len(taken[n]) \in Nat
            /\ r[Len(r)] = s[n + 1] /\ \A k \in 1..Len(taken[n]) : r[k] = taken[n][k]
            /\ \A k \in 1..Len(r) : k = Len(r) \/ k \in 1..Len(taken[n])
        BY <2>1, <3>1
      <3> HIDE DEF r
      <3>3. h \in [1..Len(r) -> P] /\ h[Len(r)] = n + 1 /\ \A k \in 1..Len(taken[n]) : h[k] = g[k] /\ k \in 1..Len(r)
        BY <2>3, <2>5, <3>2
      <3> HIDE DEF h
      <3>4. \A k \in 1..Len(taken[n]) : g[k] \in Nat /\ g[k] <= n
        BY <2>3, <1>0
      <3>5. \A k \in 1..Len(r) : h[k] <= n + 1 /\ r[k] = s[h[k]]
        BY <2>3, <3>2, <3>3, <3>4
      <3>6. \A k, l \in 1..Len(r) : k < l => h[k] < h[l]
        BY <2>3, <3>2, <3>3, <3>4
      <3>7. \A i \in P : i <= n + 1 => \E k \in 1..Len(r) : h[k] = i
        <4> TAKE i \in P
        <4> HAVE i <= n + 1
        <4>1. CASE i = n + 1
          <5>1. Len(r) \in 1..Len(r)
            BY <3>2
          <5> QED BY <4>1, <5>1, <3>3
        <4>2. CASE i <= n
          BY <2>3, <3>3, <4>2
        <4> QED BY <4>1, <4>2
      <3>8. Upto(n + 1)
        BY <3>3, <3>5, <3>6, <3>7 DEF r
      <3>9. Len(r) <= n + 1
        BY <2>1, <3>2
      <3> QED BY <3>2, <3>8, <3>9 DEF r
    <2> QED BY <2>4, <2>5
  <1> HIDE DEF Done
  <1>8. N \in Done
    BY <1>1, <1>6, <1>7, UpFromZero
  <1>9. taken[N] \in Seq(X) /\ Len(taken[N]) <= N /\ Upto(N)
    BY <1>1, <1>8 DEF Done
  <1> HIDE DEF N
  <1> QED
    <2>1. PICK g : /\ g \in [1..Len(taken[N]) -> P]
                   /\ \A k \in 1..Len(taken[N]) : g[k] <= N /\ taken[N][k] = s[g[k]]
                   /\ \A k, l \in 1..Len(taken[N]) : k < l => g[k] < g[l]
                   /\ \A i \in P : i <= N => \E k \in 1..Len(taken[N]) : g[k] = i
      BY <1>9
    <2>2. \A i \in P : i <= N
      BY <1>1 DEF N
    <2>3. /\ g \in [1..Len(Those(s, P)) -> P]
          /\ \A k \in 1..Len(Those(s, P)) : Those(s, P)[k] = s[g[k]]
          /\ \A k, l \in 1..Len(Those(s, P)) : k < l => g[k] < g[l]
          /\ \A i \in P : \E k \in 1..Len(Those(s, P)) : g[k] = i
      BY <1>5, <2>1, <2>2
    <2>4. Those(s, P) \in Seq(X) /\ Len(Those(s, P)) <= Len(s)
      BY <1>5, <1>9 DEF N
    <2> QED BY <2>3, <2>4, Zenon DEF PickedOut

-----------------------------------------------------------------------------
(* The list of cached messages.                                             *)

PostTypes ==
    {p \in [text : Nat, empty : BOOLEAN, by : [Faces -> SUBSET People]] : \A e \in Faces : IsFiniteSet(p.by[e])}
CachedTypes == [id : Ids, text : Nat, count : [Faces -> Nat], me : [Faces -> BOOLEAN]]

Ordered(list) ==
    \A i, j \in 1..Len(list) :
        i < j => list[i].id # list[j].id /\ Time(list[i].id) >= Time(list[j].id)
Lists == {list \in Seq(CachedTypes) : Ordered(list) /\ Len(list) <= maxMsgs}

LEMMA Times == \A id \in Ids : id \in Nat /\ Time(id) \in Nat
  BY MessagesAssumption DEF Ids, Time

LEMMA ListTypes ==
  ASSUME NEW list \in Lists
  PROVE  /\ list \in Seq(CachedTypes) /\ Len(list) \in Nat /\ Len(list) <= maxMsgs /\ maxMsgs \in Nat
         /\ DOMAIN list = 1..Len(list) /\ (list = <<>> <=> Len(list) = 0)
         /\ \A i \in 1..Len(list) : list[i] \in CachedTypes /\ list[i].id \in Ids /\ Time(list[i].id) \in Nat
         /\ \A i \in 1..Len(list) : 1 \in 1..Len(list) /\ Len(list) \in 1..Len(list)
  <1>0. list \in Seq(CachedTypes) /\ Len(list) <= maxMsgs
    BY DEF Lists
  <1>1. Len(list) \in Nat /\ DOMAIN list = 1..Len(list) /\ (list = <<>> <=> Len(list) = 0)
    BY <1>0
  <1>a. maxMsgs \in Nat
    BY MessagesAssumption
  <1>b. \A i \in 1..Len(list) : list[i] \in CachedTypes
    BY <1>0
  <1>2. \A i \in 1..Len(list) : list[i] \in CachedTypes /\ list[i].id \in Ids
    BY <1>b DEF CachedTypes
  <1>3. \A i \in 1..Len(list) : 1 \in 1..Len(list) /\ Len(list) \in 1..Len(list)
    BY <1>1
  <1> QED BY <1>0, <1>1, <1>a, <1>2, <1>3, Times

(* The first is the latest and the last the earliest.                       *)
LEMMA FirstAndLast ==
  ASSUME NEW list \in Lists, NEW i \in 1..Len(list)
  PROVE  Time(list[1].id) >= Time(list[i].id) /\ Time(list[i].id) >= Time(list[Len(list)].id)
  <1>1. /\ 1 \in 1..Len(list) /\ Len(list) \in 1..Len(list)
        /\ Time(list[1].id) \in Nat /\ Time(list[i].id) \in Nat /\ Time(list[Len(list)].id) \in Nat
    BY ListTypes
  <1>2. i = 1 \/ 1 < i
    OBVIOUS
  <1>3. i = Len(list) \/ i < Len(list)
    BY ListTypes
  <1> QED BY <1>1, <1>2, <1>3 DEF Lists, Ordered

(* Where MessageSet puts a new message.                                     *)
Room(list) == Len(list) < maxMsgs
AtFront(list, m, r) ==
    /\ 0 < maxMsgs /\ ~Holds(list, m.id)
    /\ Len(r) = IF Room(list) THEN Len(list) + 1 ELSE Len(list)
    /\ r[1] = m /\ \A i \in 2..Len(r) : r[i] = list[i - 1]
    /\ \A i \in 1..Len(list) : Time(m.id) >= Time(list[i].id)
AtBack(list, m, r) ==
    /\ Room(list) /\ list # <<>> /\ ~Holds(list, m.id) /\ r = Append(list, m)
    /\ \A i \in 1..Len(list) : Time(list[i].id) >= Time(m.id)
LeftOut(list, m, r) ==
    /\ r = list
    /\ \/ Holds(list, m.id)
       \/ ~Room(list) /\ (list # <<>> => Time(list[Len(list)].id) >= Time(m.id))
       \/ list # <<>> /\ Time(list[Len(list)].id) < Time(m.id) /\ Time(m.id) < Time(list[1].id)

LEMMA AddCases ==
  ASSUME NEW list \in Lists, NEW m \in CachedTypes, NEW r, r = AddMessage(list, m)
  PROVE  r \in Seq(CachedTypes) /\ (AtFront(list, m, r) \/ AtBack(list, m, r) \/ LeftOut(list, m, r))
  <1>0. Len(list) \in Nat /\ Len(list) <= maxMsgs /\ maxMsgs \in Nat
    BY ListTypes
  <1>1. /\ m.id \in Ids /\ Time(m.id) \in Nat
        /\ list \in Seq(CachedTypes) /\ Len(list) \in Nat /\ Len(list) <= maxMsgs /\ maxMsgs \in Nat
        /\ DOMAIN list = 1..Len(list) /\ (list = <<>> <=> Len(list) = 0)
    BY ListTypes, Times DEF CachedTypes
  <1>2. CASE maxMsgs = 0
    <2>1. r = list
      BY <1>2 DEF AddMessage
    <2> QED BY <1>1, <1>2, <2>1 DEF LeftOut, Room
  <1>3. CASE maxMsgs # 0 /\ list = <<>>
    <2> DEFINE one == <<m>>
    <2>1. one \in Seq(CachedTypes) /\ Len(one) = 1 /\ one[1] = m /\ DOMAIN one = 1..1
      OBVIOUS
    <2>2. Holds(one, m.id)
      BY <2>1 DEF Holds
    <2>3. messageInsertPosition(m, one) = 0
      BY <1>1, <2>1, <2>2 DEF messageInsertPosition
    <2>4. r = one
      BY <1>3, <2>3 DEF AddMessage
    <2> HIDE DEF one
    <2>5. AtFront(list, m, r)
      BY <1>1, <1>3, <2>1, <2>4 DEF AtFront, Room, Holds
    <2> QED BY <2>1, <2>4, <2>5
  <1>4. CASE maxMsgs # 0 /\ list # <<>>
    <2> DEFINE pos == messageInsertPosition(m, list)
               first == Time(list[1].id)
               last == Time(list[Len(list)].id)
    <2>1. 1 \in 1..Len(list) /\ Len(list) \in 1..Len(list) /\ first \in Nat /\ last \in Nat /\ first >= last
      BY <1>1, <1>4, ListTypes, FirstAndLast
    <2>2. pos = IF Time(m.id) > first THEN -1 ELSE IF Time(m.id) < last THEN 1
                ELSE IF Holds(list, m.id) THEN 0
                ELSE IF Time(m.id) = first THEN -1 ELSE IF Time(m.id) = last THEN 1 ELSE 0
      BY DEF messageInsertPosition
    <2>3. r = IF pos < 0 THEN <<m>> \o (IF Len(list) = maxMsgs THEN Front(list) ELSE list)
              ELSE IF pos > 0 /\ Len(list) < maxMsgs THEN Append(list, m) ELSE list
      BY <1>4 DEF AddMessage
    <2>a. pos < 0 => Time(m.id) > first \/ (Time(m.id) = first /\ ~Holds(list, m.id))
      BY <2>2
    <2>c. pos \in {-1, 0, 1}
      BY <2>2
    <2>b. pos > 0 => Time(m.id) < last \/ (Time(m.id) = last /\ ~Holds(list, m.id))
      BY <2>2
    <2> HIDE DEF pos
    <2>4. \A i \in 1..Len(list) : /\ Time(list[i].id) \in Nat /\ first >= Time(list[i].id)
                                  /\ Time(list[i].id) >= last
      BY ListTypes, FirstAndLast
    <2>5. Holds(list, m.id) => first >= Time(m.id) /\ Time(m.id) >= last
      BY <1>1, <2>4 DEF Holds
    <2> HIDE DEF first, last
    <2>6. CASE pos < 0
      <3>1. Time(m.id) >= first /\ ~Holds(list, m.id)
        BY <1>1, <2>1, <2>a, <2>5, <2>6
      <3>2. CASE Len(list) = maxMsgs
        <4>1. r = <<m>> \o SubSeq(list, 1, Len(list) - 1)
          BY <2>3, <2>6, <3>2 DEF Front
        <4>2. r \in Seq(CachedTypes) /\ Len(r) = Len(list) /\ r[1] = m /\ \A i \in 2..Len(r) : r[i] = list[i - 1]
          BY <1>1, <2>1, <4>1
        <4>3. \A i \in 1..Len(list) : Time(m.id) >= Time(list[i].id)
          BY <1>1, <2>1, <2>4, <3>1
        <4>4. AtFront(list, m, r)
          BY <1>1, <1>4, <3>1, <3>2, <4>2, <4>3 DEF AtFront, Room
        <4> QED BY <4>2, <4>4
      <3>3. CASE Len(list) # maxMsgs
        <4>1. r = <<m>> \o list
          BY <2>3, <2>6, <3>3
        <4>2. r \in Seq(CachedTypes) /\ Len(r) = Len(list) + 1 /\ r[1] = m /\ \A i \in 2..Len(r) : r[i] = list[i - 1]
          BY <1>1, <2>1, <4>1
        <4>3. \A i \in 1..Len(list) : Time(m.id) >= Time(list[i].id)
          BY <1>1, <2>1, <2>4, <3>1
        <4>4. AtFront(list, m, r)
          <5>1. Room(list) /\ 0 < maxMsgs
            BY <1>0, <1>4, <3>3 DEF Room
          <5> QED BY <3>1, <4>2, <4>3, <5>1 DEF AtFront
        <4> QED BY <4>2, <4>4
      <3> QED BY <3>2, <3>3
    <2>7. CASE pos > 0 /\ Len(list) < maxMsgs
      <3>1. last >= Time(m.id) /\ ~Holds(list, m.id)
        <4>1. last \in Nat /\ Time(m.id) \in Nat /\ pos > 0
          BY <1>1, <2>1, <2>7
        <4> QED BY <2>b, <2>5, <4>1
      <3>2. r = Append(list, m)
        BY <2>3, <2>c, <2>7
      <3>3. \A i \in 1..Len(list) : Time(list[i].id) >= Time(m.id)
        BY <1>1, <2>1, <2>4, <3>1
      <3> QED BY <1>1, <1>4, <2>7, <3>1, <3>2, <3>3 DEF AtBack, Room
    <2>8. CASE ~(pos < 0) /\ ~(pos > 0 /\ Len(list) < maxMsgs)
      <3>1. r = list
        BY <2>3, <2>8
      <3>2. \/ Len(list) >= maxMsgs /\ last >= Time(m.id)
            \/ Holds(list, m.id) \/ (last < Time(m.id) /\ Time(m.id) < first)
        <4>1. CASE pos > 0
          <5>1. ~(Len(list) < maxMsgs) /\ (Time(m.id) < last \/ Time(m.id) = last)
            BY <2>8, <2>b, <4>1
          <5> QED BY <1>0, <1>1, <2>1, <5>1
        <4>2. CASE ~(pos > 0)
          <5>1. pos = 0
            BY <2>8, <2>c, <4>2
          <5> QED BY <1>1, <2>1, <2>2, <5>1
        <4> QED BY <4>1, <4>2
      <3> QED BY <1>1, <1>4, <3>1, <3>2 DEF LeftOut, Room, first, last
    <2> QED BY <2>6, <2>7, <2>8
  <1> QED BY <1>2, <1>3, <1>4

LEMMA AddOrdered ==
  ASSUME NEW list \in Lists, NEW m \in CachedTypes
  PROVE  AddMessage(list, m) \in Lists
  <1>1. PICK r : r = AddMessage(list, m)
    OBVIOUS
  <1>2. r \in Seq(CachedTypes) /\ (AtFront(list, m, r) \/ AtBack(list, m, r) \/ LeftOut(list, m, r))
    BY <1>1, AddCases
  <1>3. /\ m.id \in Ids /\ Time(m.id) \in Nat
        /\ list \in Seq(CachedTypes) /\ Len(list) \in Nat /\ Len(list) <= maxMsgs /\ maxMsgs \in Nat
        /\ DOMAIN list = 1..Len(list)
        /\ \A i \in 1..Len(list) : list[i] \in CachedTypes /\ list[i].id \in Ids /\ Time(list[i].id) \in Nat
    BY ListTypes, Times DEF CachedTypes
  <1>4. CASE AtFront(list, m, r)
    <2>1. \A i \in 1..Len(r) : i = 1 \/ (i \in 2..Len(r) /\ i - 1 \in 1..Len(list))
      BY <1>2, <1>3, <1>4 DEF AtFront
    <2>2. \A i \in 1..Len(list) : m.id # list[i].id
      BY <1>3, <1>4 DEF AtFront, Holds
    <2>3. Ordered(r)
      <3> SUFFICES ASSUME NEW i \in 1..Len(r), NEW j \in 1..Len(r), i < j
                   PROVE  r[i].id # r[j].id /\ Time(r[i].id) >= Time(r[j].id)
        BY DEF Ordered
      <3>1. j \in 2..Len(r) /\ j - 1 \in 1..Len(list) /\ r[j] = list[j - 1]
        BY <1>4, <2>1 DEF AtFront
      <3>2. CASE i = 1
        BY <1>4, <2>2, <3>1, <3>2 DEF AtFront
      <3>3. CASE i # 1
        <4>1. i - 1 \in 1..Len(list) /\ r[i] = list[i - 1] /\ i - 1 < j - 1
          BY <1>4, <2>1, <3>3 DEF AtFront
        <4> QED BY <3>1, <4>1 DEF Lists, Ordered
      <3> QED BY <3>2, <3>3
    <2> QED BY <1>1, <1>2, <1>3, <1>4, <2>3 DEF Lists, AtFront, Room
  <1>5. CASE AtBack(list, m, r)
    <2>1. Len(r) = Len(list) + 1 /\ r[Len(r)] = m /\ \A i \in 1..Len(list) : r[i] = list[i]
      BY <1>3, <1>5 DEF AtBack
    <2>2. \A i \in 1..Len(list) : m.id # list[i].id
      BY <1>3, <1>5 DEF AtBack, Holds
    <2>3. Ordered(r)
      <3> SUFFICES ASSUME NEW i \in 1..Len(r), NEW j \in 1..Len(r), i < j
                   PROVE  r[i].id # r[j].id /\ Time(r[i].id) >= Time(r[j].id)
        BY DEF Ordered
      <3>1. i \in 1..Len(list) /\ r[i] = list[i]
        BY <1>3, <2>1
      <3>2. CASE j = Len(r)
        BY <1>5, <2>1, <2>2, <3>1, <3>2 DEF AtBack
      <3>3. CASE j # Len(r)
        <4>1. j \in 1..Len(list) /\ r[j] = list[j]
          BY <1>3, <2>1, <3>3
        <4> QED BY <3>1, <4>1 DEF Lists, Ordered
      <3> QED BY <3>2, <3>3
    <2> QED BY <1>1, <1>2, <1>3, <1>5, <2>1, <2>3 DEF Lists, AtBack, Room
  <1>6. CASE LeftOut(list, m, r)
    BY <1>1, <1>6 DEF LeftOut
  <1> QED BY <1>2, <1>4, <1>5, <1>6

(* What MessageSet keeps of the list: everything if it is not full, and if  *)
(* it is, everything that is later than its new last message.               *)
LEMMA AddKeeps ==
  ASSUME NEW list \in Lists, NEW m \in CachedTypes, NEW r, r = AddMessage(list, m)
  PROVE  /\ Room(list) => \A id : Holds(list, id) => Holds(r, id)
         /\ ~Room(list) => ~Room(r)
         /\ LeftOut(list, m, r) \/ Holds(r, m.id)
         /\ AtFront(list, m, r) => Holds(r, m.id)
         /\ \A id : Holds(r, id) => Holds(list, id) \/ id = m.id
         /\ AtFront(list, m, r) /\ Len(r) # 1 =>
                \E z \in 1..Len(list) :
                    /\ r[Len(r)] = list[z]
                    /\ \A id : Holds(list, id) /\ Time(id) > Time(list[z].id) => Holds(r, id)
  <1>1. r \in Seq(CachedTypes) /\ (AtFront(list, m, r) \/ AtBack(list, m, r) \/ LeftOut(list, m, r))
    BY AddCases
  <1>2. /\ list \in Seq(CachedTypes) /\ Len(list) \in Nat /\ Len(list) <= maxMsgs /\ maxMsgs \in Nat
        /\ DOMAIN list = 1..Len(list) /\ \A i \in 1..Len(list) : Time(list[i].id) \in Nat
    BY ListTypes
  <1>3. Len(r) \in Nat /\ DOMAIN r = 1..Len(r)
    BY <1>1
  <1>4. CASE AtFront(list, m, r)
    <2>1. /\ Len(r) = IF Room(list) THEN Len(list) + 1 ELSE Len(list)
          /\ r[1] = m /\ (\A i \in 2..Len(r) : r[i] = list[i - 1]) /\ 0 < maxMsgs
      BY <1>4 DEF AtFront
    <2>2. 1 \in 1..Len(r)
      BY <1>2, <2>1 DEF Room
    <2>3. \A i \in 1..(Len(r) - 1) : i + 1 \in 1..Len(r) /\ r[i + 1] = list[i] /\ i \in 1..Len(list)
      <3> TAKE i \in 1..(Len(r) - 1)
      <3>1. i + 1 \in 2..Len(r) /\ (i + 1) - 1 = i /\ i + 1 \in 1..Len(r) /\ i \in 1..Len(list)
        BY <1>2, <1>3, <2>1
      <3> QED BY <2>1, <3>1
    <2>4. Holds(r, m.id)
      BY <1>3, <2>1, <2>2 DEF Holds
    <2>5. \A i \in 1..(Len(r) - 1) : Holds(r, list[i].id)
      BY <1>3, <2>3 DEF Holds
    <2>6. Room(list) => \A id : Holds(list, id) => Holds(r, id)
      <3>1. Room(list) => Len(r) - 1 = Len(list)
        BY <1>2, <2>1
      <3> QED BY <1>2, <2>5, <3>1 DEF Holds
    <2>7. ~Room(list) => ~Room(r)
      BY <2>1 DEF Room
    <2>8. \A id : Holds(r, id) => Holds(list, id) \/ id = m.id
      <3>1. \A i \in 1..Len(r) : i = 1 \/ (i - 1 \in 1..Len(list) /\ r[i] = list[i - 1])
        BY <1>2, <1>3, <2>1
      <3> QED BY <1>2, <1>3, <2>1, <3>1 DEF Holds
    <2>9. ASSUME Len(r) # 1
          PROVE  \E z \in 1..Len(list) :
                    /\ r[Len(r)] = list[z]
                    /\ \A id : Holds(list, id) /\ Time(id) > Time(list[z].id) => Holds(r, id)
      <3>0. Len(r) - 1 \in 1..(Len(r) - 1)
        BY <1>3, <2>2, <2>9
      <3>1. PICK z \in 1..(Len(r) - 1) : z = Len(r) - 1
        BY <3>0
      <3>2. z \in 1..Len(list) /\ r[Len(r)] = list[z]
        <4>1. z + 1 = Len(r)
          BY <1>3, <3>1
        <4>2. r[z + 1] = list[z] /\ z \in 1..Len(list)
          BY <2>3, <3>1
        <4> QED BY <4>1, <4>2
      <3>3. ASSUME NEW i \in 1..Len(list), Time(list[i].id) > Time(list[z].id)
            PROVE  Holds(r, list[i].id)
        <4>0. Time(list[i].id) \in Nat /\ Time(list[z].id) \in Nat
          BY <1>2, <3>2
        <4>1. i # z /\ ~(z < i)
          <5>1. z < i => Time(list[z].id) >= Time(list[i].id)
            BY <3>2 DEF Lists, Ordered
          <5>2. ~(Time(list[z].id) >= Time(list[i].id)) /\ i # z
            BY <3>3, <4>0
          <5> QED BY <5>1, <5>2
        <4>2. i \in 1..(Len(r) - 1)
          <5>1. i \in Nat /\ i # 0 /\ z \in Nat
            BY <1>2, <3>2
          <5>2. i < z
            BY <4>1, <5>1
          <5> QED BY <1>3, <3>1, <5>1, <5>2
        <4> QED BY <2>5, <4>2
      <3>4. \A id : Holds(list, id) /\ Time(id) > Time(list[z].id) => Holds(r, id)
        BY <1>2, <3>3 DEF Holds
      <3> QED BY <3>2, <3>4
    <2> QED BY <2>4, <2>6, <2>7, <2>8, <2>9
  <1>5. CASE AtBack(list, m, r)
    <2>1. Len(r) = Len(list) + 1 /\ r[Len(r)] = m /\ (\A i \in 1..Len(list) : r[i] = list[i]) /\ Room(list)
      BY <1>2, <1>5 DEF AtBack
    <2>2. ~AtFront(list, m, r) \/ r[1] = m
      BY DEF AtFront
    <2>3. /\ \A i \in 1..Len(list) : i \in 1..Len(r)
          /\ Len(r) \in 1..Len(r)
          /\ \A i \in 1..Len(r) : i \in 1..Len(list) \/ i = Len(r)
      BY <1>2, <2>1
    <2>4. Holds(r, m.id) /\ \A id : Holds(list, id) => Holds(r, id)
      BY <1>2, <1>3, <2>1, <2>3 DEF Holds
    <2>5. \A id : Holds(r, id) => Holds(list, id) \/ id = m.id
      BY <1>2, <1>3, <2>1, <2>3 DEF Holds
    <2>6. ASSUME AtFront(list, m, r), Len(r) # 1
          PROVE  FALSE
      <3>1. 1 \in 1..Len(list) /\ ~Holds(list, m.id) /\ r[1] = m
        BY <1>2, <1>5, <2>1, <2>6 DEF AtFront
      <3> QED BY <1>2, <2>1, <3>1 DEF Holds
    <2> QED BY <2>1, <2>4, <2>5, <2>6
  <1>6. CASE LeftOut(list, m, r)
    <2>1. r = list
      BY <1>6 DEF LeftOut
    <2>2. ~AtFront(list, m, r)
      <3> SUFFICES ASSUME AtFront(list, m, r)
                   PROVE  FALSE
        OBVIOUS
      <3>1. ~Holds(list, m.id) /\ r[1] = m /\ 0 < maxMsgs
            /\ Len(r) = (IF Room(list) THEN Len(list) + 1 ELSE Len(list))
        BY DEF AtFront
      <3>2. 1 \in 1..Len(list)
        BY <1>2, <2>1, <3>1 DEF Room
      <3> QED BY <1>2, <2>1, <3>1, <3>2 DEF Holds
    <2> QED BY <1>6, <2>1, <2>2
  <1> QED BY <1>1, <1>4, <1>5, <1>6
(* What a deletion leaves.                                                  *)
Spares(list, ids, r) ==
    /\ r \in Lists
    /\ \A i \in 1..Len(r) : r[i].id \notin ids /\ \E j \in 1..Len(list) : r[i] = list[j]
    /\ \A j \in 1..Len(list) : list[j].id \notin ids => \E i \in 1..Len(r) : r[i] = list[j]

LEMMA RemoveSome ==
  ASSUME NEW list \in Lists, NEW ids
  PROVE  Spares(list, ids, MessageRemove(list, ids))
  <1>0. PICK r : r = MessageRemove(list, ids)
    OBVIOUS
  <1> DEFINE P == {i \in 1..Len(list) : list[i].id \notin ids}
  <1>1. /\ list \in Seq(CachedTypes) /\ Len(list) \in Nat /\ Len(list) <= maxMsgs /\ maxMsgs \in Nat
        /\ DOMAIN list = 1..Len(list) /\ Ordered(list)
    BY ListTypes DEF Lists
  <1>2. r = Those(list, P)
    BY <1>0, <1>1 DEF MessageRemove
  <1>3. P \subseteq 1..Len(list) /\ \A i \in P : list[i].id \notin ids
    OBVIOUS
  <1>4. \A i \in 1..Len(list) : list[i].id \notin ids => i \in P
    OBVIOUS
  <1> HIDE DEF P
  <1>5. /\ r \in Seq(CachedTypes) /\ Len(r) <= Len(list)
        /\ \E g : /\ g \in [1..Len(r) -> P]
                  /\ \A k \in 1..Len(r) : r[k] = list[g[k]]
                  /\ \A k, l \in 1..Len(r) : k < l => g[k] < g[l]
                  /\ \A i \in P : \E k \in 1..Len(r) : g[k] = i
    <2>1. Those(list, P) \in Seq(CachedTypes) /\ PickedOut(Those(list, P), list, P)
      BY <1>1, <1>3, ThosePicks
    <2>2. r \in Seq(CachedTypes) /\ PickedOut(r, list, P)
      BY <1>2, <2>1
    <2> QED BY <2>2, Zenon DEF PickedOut
  <1>6. PICK g : /\ g \in [1..Len(r) -> P]
                 /\ \A k \in 1..Len(r) : r[k] = list[g[k]]
                 /\ \A k, l \in 1..Len(r) : k < l => g[k] < g[l]
                 /\ \A i \in P : \E k \in 1..Len(r) : g[k] = i
    BY <1>5
  <1>7. Ordered(r)
    <2> SUFFICES ASSUME NEW i \in 1..Len(r), NEW j \in 1..Len(r), i < j
                 PROVE  r[i].id # r[j].id /\ Time(r[i].id) >= Time(r[j].id)
      BY DEF Ordered
    <2>1. g[i] \in 1..Len(list) /\ g[j] \in 1..Len(list) /\ g[i] < g[j] /\ r[i] = list[g[i]] /\ r[j] = list[g[j]]
      BY <1>3, <1>6
    <2> QED BY <1>1, <2>1 DEF Ordered
  <1>8. r \in Lists
    <2>1. Len(r) \in Nat
      BY <1>5
    <2>2. Len(r) <= maxMsgs
      BY <1>1, <1>5, <2>1
    <2> QED BY <1>5, <1>7, <2>2 DEF Lists
  <1>9. \A i \in 1..Len(r) : r[i].id \notin ids /\ \E j \in 1..Len(list) : r[i] = list[j]
    <2> TAKE i \in 1..Len(r)
    <2>1. g[i] \in P /\ r[i] = list[g[i]]
      BY <1>6
    <2> QED BY <1>3, <2>1
  <1>10. \A j \in 1..Len(list) : list[j].id \notin ids => \E i \in 1..Len(r) : r[i] = list[j]
    BY <1>4, <1>6
  <1>11. Spares(list, ids, r)
    BY <1>8, <1>9, <1>10 DEF Spares
  <1> QED BY <1>0, <1>11

LEMMA FoundAt ==
  ASSUME NEW list \in Lists, NEW id
  PROVE  /\ Holds(list, id) => IndexOf(list, id) \in 1..Len(list) /\ list[IndexOf(list, id)].id = id
         /\ \A i \in 1..Len(list) : list[i].id = id => Holds(list, id) /\ i = IndexOf(list, id)
  <1>1. DOMAIN list = 1..Len(list) /\ Ordered(list)
    BY ListTypes DEF Lists
  <1>2. Holds(list, id) => IndexOf(list, id) \in 1..Len(list) /\ list[IndexOf(list, id)].id = id
    BY <1>1, Zenon DEF Holds, IndexOf
  <1>3. \A i \in 1..Len(list) : list[i].id = id => Holds(list, id)
    BY <1>1 DEF Holds
  <1>4. \A i, j \in 1..Len(list) : list[i].id = list[j].id => i = j
    BY <1>1 DEF Ordered
  <1> QED BY <1>2, <1>3, <1>4

(* What an update does to each message.                                     *)
LEMMA UpdateOne ==
  ASSUME NEW list \in Lists, NEW id, NEW new, NEW r, r = UpdateMessage(list, id, new)
  PROVE  /\ Len(r) = Len(list) /\ r \in [1..Len(list) -> {DiffMessage(new, list[i]) : i \in 1..Len(list)} \cup CachedTypes]
         /\ \A i \in 1..Len(list) : r[i] = IF list[i].id = id THEN DiffMessage(new, list[i]) ELSE list[i]
  <1>1. list \in Seq(CachedTypes) /\ Len(list) \in Nat /\ DOMAIN list = 1..Len(list) /\ list \in [1..Len(list) -> CachedTypes]
    BY ListTypes
  <1>2. /\ Holds(list, id) => IndexOf(list, id) \in 1..Len(list) /\ list[IndexOf(list, id)].id = id
        /\ \A i \in 1..Len(list) : list[i].id = id => Holds(list, id) /\ i = IndexOf(list, id)
    BY FoundAt
  <1>3. CASE ~Holds(list, id)
    BY <1>1, <1>2, <1>3 DEF UpdateMessage
  <1>4. CASE Holds(list, id)
    <2>1. r = [list EXCEPT ![IndexOf(list, id)] = DiffMessage(new, list[IndexOf(list, id)])]
      BY <1>1, <1>2, <1>4 DEF UpdateMessage
    <2> QED BY <1>1, <1>2, <1>4, <2>1
  <1> QED BY <1>3, <1>4

-----------------------------------------------------------------------------
(* Events about messages, and what each does to a cached message.           *)

MessageNews ==
    [type : {"Ready"}]
    \cup [type : {"MessageCreate"}, id : Ids, post : PostTypes]
    \cup [type : {"MessageUpdate"}, id : Ids, text : Nat]
    \cup [type : {"MessageDeleteBulk"}, ids : SUBSET Ids]
    \cup [type : {"ReactionAdd", "ReactionRemove"}, id : Ids, emoji : Faces, user : People]
    \cup [type : {"ReactionRemoveAll"}, id : Ids]
    \cup [type : {"ReactionRemoveEmoji"}, id : Ids, emoji : Faces]

Deletes(e, id) == e.type = "MessageDeleteBulk" /\ id \in e.ids
Edits(e, id) == e.type = "MessageUpdate" /\ e.id = id /\ e.text # 0
Reacts(e, id) == e.type \in {"ReactionAdd", "ReactionRemove"} /\ e.id = id
ReactsWith(e, id, x) == Reacts(e, id) /\ e.emoji = x
ClearsFace(e, id, x) == e.type = "ReactionRemoveEmoji" /\ e.id = id /\ e.emoji = x

(* The count of an emoji, and whether Self is counted, after an event.      *)
Turn(e, id, x, n, me) ==
    IF ReactsWith(e, id, x) /\ e.type = "ReactionAdd" THEN <<n + 1, me \/ e.user = Self>>
    ELSE IF ReactsWith(e, id, x)
    THEN IF n = 0 THEN <<n, me>> ELSE <<n - 1, IF n = 1 \/ e.user = Self THEN FALSE ELSE me>>
    ELSE IF ClearsFace(e, id, x) THEN <<0, FALSE>> ELSE <<n, me>>

TurnedInto(m, e, r) ==
    /\ r \in CachedTypes /\ r.id = m.id
    /\ r.text = IF Edits(e, m.id) THEN e.text ELSE m.text
    /\ \A x \in Faces : <<r.count[x], r.me[x]>> = Turn(e, m.id, x, m.count[x], m.me[x])

LEMMA NewsKinds ==
  ASSUME NEW e \in MessageNews
  PROVE  /\ e.type \in {"Ready", "MessageCreate", "MessageUpdate", "MessageDeleteBulk", "ReactionAdd",
                        "ReactionRemove", "ReactionRemoveAll", "ReactionRemoveEmoji"}
         /\ e.type = "MessageCreate" => e.id \in Ids /\ e.post \in PostTypes
         /\ e.type = "MessageUpdate" => e.id \in Ids /\ e.text \in Nat
         /\ e.type = "MessageDeleteBulk" => e.ids \subseteq Ids
         /\ e.type \in {"ReactionAdd", "ReactionRemove"} => e.id \in Ids /\ e.emoji \in Faces /\ e.user \in People
         /\ e.type = "ReactionRemoveAll" => e.id \in Ids
         /\ e.type = "ReactionRemoveEmoji" => e.id \in Ids /\ e.emoji \in Faces
  BY DEF MessageNews

(* An event about no message that is held, or that only adds one.           *)
LEMMA TurnNothing ==
  ASSUME NEW m \in CachedTypes, NEW e, ~Edits(e, m.id), ~Reacts(e, m.id), \A x \in Faces : ~ClearsFace(e, m.id, x)
  PROVE  TurnedInto(m, e, m)
  BY DEF TurnedInto, Turn, ReactsWith

EventOn(list, e) ==
    CASE e.type = "MessageUpdate" -> UpdateMessage(list, e.id, [text |-> e.text, nil |-> TRUE])
      [] e.type = "ReactionAdd" -> ReactionAdd(list, e.id, e.emoji, e.user)
      [] e.type = "ReactionRemove" -> ReactionRemove(list, e.id, e.emoji, e.user)
      [] e.type = "ReactionRemoveAll" -> ReactionRemoveAll(list, e.id)
      [] e.type = "ReactionRemoveEmoji" -> ReactionRemoveEmoji(list, e.id, e.emoji)
Updating(e) ==
    e.type \in {"MessageUpdate", "ReactionAdd", "ReactionRemove", "ReactionRemoveAll", "ReactionRemoveEmoji"}

(* The message that one of these events stores again.                       *)
LEMMA TurnUpdate ==
  ASSUME NEW m \in CachedTypes, NEW e \in MessageNews, e.type = "MessageUpdate", e.id = m.id
  PROVE  TurnedInto(m, e, DiffMessage([text |-> e.text, nil |-> TRUE], m))
  <1>1. e.text \in Nat /\ m.text \in Nat
    BY NewsKinds DEF CachedTypes
  <1>2. PICK r : r = DiffMessage([text |-> e.text, nil |-> TRUE], m)
    OBVIOUS
  <1>3. r = [m EXCEPT !.text = IF e.text = 0 THEN m.text ELSE e.text, !.count = m.count, !.me = m.me]
    BY <1>1, <1>2 DEF DiffMessage
  <1>4. r \in CachedTypes /\ r.id = m.id /\ r.text = (IF e.text = 0 THEN m.text ELSE e.text) /\ r.count = m.count /\ r.me = m.me
    BY <1>1, <1>3 DEF CachedTypes
  <1>5. TurnedInto(m, e, r)
    BY <1>4 DEF TurnedInto, Turn, Edits, Reacts, ReactsWith, ClearsFace
  <1> QED BY <1>2, <1>5

(* An edit that gives these reactions.                                      *)
LEMMA DiffReactions ==
  ASSUME NEW m \in CachedTypes, NEW count \in [Faces -> Nat], NEW me \in [Faces -> BOOLEAN]
  PROVE  LET r == DiffMessage([text |-> m.text, count |-> count, me |-> me, nil |-> FALSE], m) IN
         r \in CachedTypes /\ r.id = m.id /\ r.text = m.text /\ r.count = count /\ r.me = me
  <1>1. PICK r : r = DiffMessage([text |-> m.text, count |-> count, me |-> me, nil |-> FALSE], m)
    OBVIOUS
  <1>2. r = [m EXCEPT !.text = m.text, !.count = count, !.me = me]
    BY <1>1 DEF DiffMessage
  <1>3. r \in CachedTypes /\ r.id = m.id /\ r.text = m.text /\ r.count = count /\ r.me = me
    BY <1>2 DEF CachedTypes
  <1> QED BY <1>1, <1>3

LEMMA TurnAdd ==
  ASSUME NEW m \in CachedTypes, NEW e \in MessageNews, e.type = "ReactionAdd", e.id = m.id
  PROVE  TurnedInto(m, e, DiffMessage(Changed([m EXCEPT !.count[e.emoji] = @ + 1,
                                                        !.me[e.emoji] = @ \/ e.user = Self]), m))
  <1> DEFINE count == [m.count EXCEPT ![e.emoji] = @ + 1]
             me == [m.me EXCEPT ![e.emoji] = @ \/ e.user = Self]
             new == [text |-> m.text, count |-> count, me |-> me, nil |-> FALSE]
  <1>1. e.emoji \in Faces /\ m.count \in [Faces -> Nat] /\ m.me \in [Faces -> BOOLEAN]
    BY NewsKinds DEF CachedTypes
  <1>2. /\ count \in [Faces -> Nat] /\ me \in [Faces -> BOOLEAN]
        /\ \A x \in Faces : count[x] = IF x = e.emoji THEN m.count[x] + 1 ELSE m.count[x]
        /\ \A x \in Faces : me[x] = IF x = e.emoji THEN m.me[x] \/ e.user = Self ELSE m.me[x]
    BY <1>1
  <1>3. Changed([m EXCEPT !.count[e.emoji] = @ + 1, !.me[e.emoji] = @ \/ e.user = Self]) = new
    BY <1>1 DEF Changed, CachedTypes
  <1>4. PICK r : r = DiffMessage(new, m)
    OBVIOUS
  <1> HIDE DEF count, me
  <1>5. r \in CachedTypes /\ r.id = m.id /\ r.text = m.text /\ r.count = count /\ r.me = me
    BY <1>2, <1>4, DiffReactions
  <1>6. ASSUME NEW x \in Faces
        PROVE  <<r.count[x], r.me[x]>> = Turn(e, m.id, x, m.count[x], m.me[x])
    BY <1>2, <1>5 DEF Turn, Reacts, ReactsWith, ClearsFace
  <1>7. TurnedInto(m, e, r)
    BY <1>5, <1>6 DEF TurnedInto, Edits
  <1> QED BY <1>3, <1>4, <1>7

LEMMA TurnRemove ==
  ASSUME NEW m \in CachedTypes, NEW e \in MessageNews, e.type = "ReactionRemove", e.id = m.id
  PROVE  TurnedInto(m, e, DiffMessage(
             IF m.count[e.emoji] = 0 THEN Changed(m)
             ELSE Changed([m EXCEPT !.count[e.emoji] = @ - 1,
                     !.me[e.emoji] = IF m.count[e.emoji] = 1 \/ e.user = Self THEN FALSE ELSE @]), m))
  <1>1. e.emoji \in Faces /\ m.count \in [Faces -> Nat] /\ m.me \in [Faces -> BOOLEAN] /\ m.count[e.emoji] \in Nat
    BY NewsKinds DEF CachedTypes
  <1>2. CASE m.count[e.emoji] = 0
    <2>1. PICK r : r = DiffMessage(Changed(m), m)
      OBVIOUS
    <2>2. Changed(m) = [text |-> m.text, count |-> m.count, me |-> m.me, nil |-> FALSE]
      BY DEF Changed
    <2>3. r \in CachedTypes /\ r.id = m.id /\ r.text = m.text /\ r.count = m.count /\ r.me = m.me
      BY <1>1, <2>1, <2>2, DiffReactions
    <2>4. ASSUME NEW x \in Faces
          PROVE  <<r.count[x], r.me[x]>> = Turn(e, m.id, x, m.count[x], m.me[x])
      BY <1>2, <2>3 DEF Turn, Reacts, ReactsWith, ClearsFace
    <2>5. TurnedInto(m, e, r)
      BY <2>3, <2>4 DEF TurnedInto, Edits
    <2> QED BY <1>2, <2>1, <2>5
  <1>3. CASE m.count[e.emoji] # 0
    <2> DEFINE still == IF m.count[e.emoji] = 1 \/ e.user = Self THEN FALSE ELSE m.me[e.emoji]
               count == [m.count EXCEPT ![e.emoji] = @ - 1]
               me == [m.me EXCEPT ![e.emoji] = still]
               new == [text |-> m.text, count |-> count, me |-> me, nil |-> FALSE]
    <2>2. /\ count \in [Faces -> Nat] /\ me \in [Faces -> BOOLEAN]
          /\ \A x \in Faces : count[x] = IF x = e.emoji THEN m.count[x] - 1 ELSE m.count[x]
          /\ \A x \in Faces : me[x] = IF x = e.emoji THEN still ELSE m.me[x]
      <3>1. still \in BOOLEAN
        BY <1>1
      <3> HIDE DEF still
      <3> QED BY <1>1, <1>3, <3>1
    <2>3. Changed([m EXCEPT !.count[e.emoji] = @ - 1,
                            !.me[e.emoji] = IF m.count[e.emoji] = 1 \/ e.user = Self THEN FALSE ELSE @]) = new
      BY <1>1 DEF Changed, CachedTypes
    <2>4. PICK r : r = DiffMessage(new, m)
      OBVIOUS
    <2> HIDE DEF count, me
    <2>5. r \in CachedTypes /\ r.id = m.id /\ r.text = m.text /\ r.count = count /\ r.me = me
      BY <2>2, <2>4, DiffReactions
    <2>6. ASSUME NEW x \in Faces
          PROVE  <<r.count[x], r.me[x]>> = Turn(e, m.id, x, m.count[x], m.me[x])
      BY <1>3, <2>2, <2>5 DEF Turn, Reacts, ReactsWith, ClearsFace
    <2>7. TurnedInto(m, e, r)
      BY <2>5, <2>6 DEF TurnedInto, Edits
    <2> QED BY <1>3, <2>3, <2>4, <2>7
  <1> QED BY <1>2, <1>3

LEMMA TurnRemoveAll ==
  ASSUME NEW m \in CachedTypes, NEW e \in MessageNews, e.type = "ReactionRemoveAll"
  PROVE  TurnedInto(m, e, DiffMessage([Changed(m) EXCEPT !.nil = TRUE], m))
  <1>1. PICK r : r = DiffMessage([Changed(m) EXCEPT !.nil = TRUE], m)
    OBVIOUS
  <1>2. m.text \in Nat
    BY DEF CachedTypes
  <1>3. r = [m EXCEPT !.text = m.text, !.count = m.count, !.me = m.me]
    BY <1>1, <1>2 DEF DiffMessage, Changed
  <1>4. r \in CachedTypes /\ r.id = m.id /\ r.text = m.text /\ r.count = m.count /\ r.me = m.me
    BY <1>3 DEF CachedTypes
  <1>5. TurnedInto(m, e, r)
    BY <1>4 DEF TurnedInto, Turn, Edits, Reacts, ReactsWith, ClearsFace
  <1> QED BY <1>1, <1>5

LEMMA TurnRemoveEmoji ==
  ASSUME NEW m \in CachedTypes, NEW e \in MessageNews, e.type = "ReactionRemoveEmoji", e.id = m.id
  PROVE  TurnedInto(m, e, DiffMessage(Changed([m EXCEPT !.count[e.emoji] = 0, !.me[e.emoji] = FALSE]), m))
  <1> DEFINE count == [m.count EXCEPT ![e.emoji] = 0]
             me == [m.me EXCEPT ![e.emoji] = FALSE]
             new == [text |-> m.text, count |-> count, me |-> me, nil |-> FALSE]
  <1>1. e.emoji \in Faces /\ m.count \in [Faces -> Nat] /\ m.me \in [Faces -> BOOLEAN]
    BY NewsKinds DEF CachedTypes
  <1>2. /\ count \in [Faces -> Nat] /\ me \in [Faces -> BOOLEAN]
        /\ \A x \in Faces : count[x] = IF x = e.emoji THEN 0 ELSE m.count[x]
        /\ \A x \in Faces : me[x] = IF x = e.emoji THEN FALSE ELSE m.me[x]
    BY <1>1
  <1>3. Changed([m EXCEPT !.count[e.emoji] = 0, !.me[e.emoji] = FALSE]) = new
    BY <1>1 DEF Changed, CachedTypes
  <1>4. PICK r : r = DiffMessage(new, m)
    OBVIOUS
  <1> HIDE DEF count, me
  <1>5. r \in CachedTypes /\ r.id = m.id /\ r.text = m.text /\ r.count = count /\ r.me = me
    BY <1>2, <1>4, DiffReactions
  <1>6. ASSUME NEW x \in Faces
        PROVE  <<r.count[x], r.me[x]>> = Turn(e, m.id, x, m.count[x], m.me[x])
    BY <1>2, <1>5 DEF Turn, Reacts, ReactsWith, ClearsFace
  <1>7. TurnedInto(m, e, r)
    BY <1>5, <1>6 DEF TurnedInto, Edits
  <1> QED BY <1>3, <1>4, <1>7

(* The list after one of these events.                                      *)
LEMMA TurnList ==
  ASSUME NEW list \in Lists, NEW e \in MessageNews, Updating(e), NEW r, r = EventOn(list, e)
  PROVE  /\ r \in Lists /\ Len(r) = Len(list)
         /\ \A i \in 1..Len(list) : TurnedInto(list[i], e, r[i])
  <1>1. /\ list \in Seq(CachedTypes) /\ Len(list) \in Nat /\ DOMAIN list = 1..Len(list)
        /\ \A i \in 1..Len(list) : list[i] \in CachedTypes
    BY ListTypes
  <1>2. /\ Holds(list, e.id) => IndexOf(list, e.id) \in 1..Len(list) /\ list[IndexOf(list, e.id)].id = e.id
        /\ \A i \in 1..Len(list) : list[i].id = e.id => Holds(list, e.id) /\ i = IndexOf(list, e.id)
    BY FoundAt
  <1>3. \A i \in 1..Len(list) : list[i].id # e.id => TurnedInto(list[i], e, list[i])
    BY <1>1, TurnNothing DEF Edits, Reacts, ClearsFace
  <1>4. PICK new : /\ r = UpdateMessage(list, e.id, new)
                   /\ \A i \in 1..Len(list) : list[i].id = e.id => TurnedInto(list[i], e, DiffMessage(new, list[i]))
    <2> SUFFICES \E new : /\ r = UpdateMessage(list, e.id, new)
                          /\ \A i \in 1..Len(list) : list[i].id = e.id => TurnedInto(list[i], e, DiffMessage(new, list[i]))
      OBVIOUS
    <2> DEFINE m == list[IndexOf(list, e.id)]
               Fits(new) == /\ r = UpdateMessage(list, e.id, new)
                            /\ Holds(list, e.id) => TurnedInto(m, e, DiffMessage(new, m))
    <2>1. \A new : Fits(new) => \A i \in 1..Len(list) :
              list[i].id = e.id => TurnedInto(list[i], e, DiffMessage(new, list[i]))
      BY <1>2
    <2>2. \A new : ~Holds(list, e.id) => UpdateMessage(list, e.id, new) = list
      BY DEF UpdateMessage
    <2>3. Holds(list, e.id) => m \in CachedTypes /\ m.id = e.id
      BY <1>1, <1>2
    <2>4. \E new : Fits(new)
      <3>1. CASE e.type = "MessageUpdate"
        <4> DEFINE new == [text |-> e.text, nil |-> TRUE]
        <4>1. r = UpdateMessage(list, e.id, new)
          BY <3>1 DEF EventOn
        <4>2. Holds(list, e.id) => TurnedInto(m, e, DiffMessage(new, m))
          BY <2>3, <3>1, TurnUpdate
        <4> QED BY <4>1, <4>2
      <3>2. CASE e.type = "ReactionAdd"
        <4> DEFINE new == Changed([m EXCEPT !.count[e.emoji] = @ + 1, !.me[e.emoji] = @ \/ e.user = Self])
        <4>1. r = UpdateMessage(list, e.id, new)
          BY <2>2, <3>2 DEF EventOn, ReactionAdd, editMessage
        <4>2. Holds(list, e.id) => TurnedInto(m, e, DiffMessage(new, m))
          BY <2>3, <3>2, TurnAdd
        <4> QED BY <4>1, <4>2
      <3>3. CASE e.type = "ReactionRemove"
        <4> DEFINE new == IF m.count[e.emoji] = 0 THEN Changed(m)
                          ELSE Changed([m EXCEPT !.count[e.emoji] = @ - 1,
                                  !.me[e.emoji] = IF m.count[e.emoji] = 1 \/ e.user = Self THEN FALSE ELSE @])
        <4>1. r = UpdateMessage(list, e.id, new)
          BY <2>2, <3>3 DEF EventOn, ReactionRemove, editMessage
        <4>2. Holds(list, e.id) => TurnedInto(m, e, DiffMessage(new, m))
          BY <2>3, <3>3, TurnRemove
        <4> QED BY <4>1, <4>2
      <3>4. CASE e.type = "ReactionRemoveAll"
        <4> DEFINE new == [Changed(m) EXCEPT !.nil = TRUE]
        <4>1. r = UpdateMessage(list, e.id, new)
          BY <2>2, <3>4 DEF EventOn, ReactionRemoveAll, editMessage
        <4>2. Holds(list, e.id) => TurnedInto(m, e, DiffMessage(new, m))
          BY <2>3, <3>4, TurnRemoveAll
        <4> QED BY <4>1, <4>2
      <3>5. CASE e.type = "ReactionRemoveEmoji"
        <4> DEFINE new == Changed([m EXCEPT !.count[e.emoji] = 0, !.me[e.emoji] = FALSE])
        <4>1. r = UpdateMessage(list, e.id, new)
          BY <2>2, <3>5 DEF EventOn, ReactionRemoveEmoji, editMessage
        <4>2. Holds(list, e.id) => TurnedInto(m, e, DiffMessage(new, m))
          BY <2>3, <3>5, TurnRemoveEmoji
        <4> QED BY <4>1, <4>2
      <3> QED BY <3>1, <3>2, <3>3, <3>4, <3>5 DEF Updating
    <2> HIDE DEF m
    <2>5. PICK new : Fits(new)
      BY <2>4
    <2>6. /\ r = UpdateMessage(list, e.id, new)
          /\ \A i \in 1..Len(list) : list[i].id = e.id => TurnedInto(list[i], e, DiffMessage(new, list[i]))
      BY <2>1, <2>5
    <2> QED BY <2>6
  <1>5. /\ Len(r) = Len(list) /\ r \in [1..Len(list) -> {DiffMessage(new, list[i]) : i \in 1..Len(list)} \cup CachedTypes]
        /\ \A i \in 1..Len(list) : r[i] = IF list[i].id = e.id THEN DiffMessage(new, list[i]) ELSE list[i]
    BY <1>4, UpdateOne
  <1>6. \A i \in 1..Len(list) : TurnedInto(list[i], e, r[i])
    BY <1>3, <1>4, <1>5
  <1>7. \A i \in 1..Len(list) : r[i] \in CachedTypes /\ r[i].id = list[i].id
    BY <1>6 DEF TurnedInto
  <1>8. r \in Seq(CachedTypes)
    BY <1>1, <1>5, <1>7
  <1>9. Ordered(r)
    BY <1>5, <1>7 DEF Lists, Ordered
  <1> QED BY <1>5, <1>6, <1>8, <1>9 DEF Lists

-----------------------------------------------------------------------------
(* What is always so of the feed, of the list and of the calls.             *)

GetTypes ==
    [phase : {"idle", "asked", "answered", "storing", "done"}, limit : Nat, have : Lists, ask : Nat,
     todo : Seq(CachedTypes), api : Nat]
MessageTypes ==
    /\ tracked \in BOOLEAN /\ gap \in BOOLEAN
    /\ latest \subseteq Ids /\ DOMAIN posts \subseteq latest /\ posts \in [DOMAIN posts -> PostTypes]
    /\ feed \in Seq(MessageNews) /\ msgs \in Lists /\ get \in [Callers -> GetTypes]

(* Only what has been posted is told of, cached or answered, and what has   *)
(* been deleted is not posted again; READY starts a feed; nothing is cached *)
(* if the intents do not cover the channel.                                 *)
KnownFeed ==
    \A n \in 1..Len(feed) :
        /\ feed[n].type = "Ready" => n = 1
        /\ feed[n].type = "MessageCreate" => feed[n].id \in latest
        /\ feed[n].type = "MessageDeleteBulk" => feed[n].ids \subseteq latest \ DOMAIN posts
KnownMessages ==
    /\ \A i \in 1..Len(msgs) : msgs[i].id \in latest
    /\ \A c \in Callers : /\ \A i \in 1..Len(get[c].todo) : get[c].todo[i].id \in latest
                          /\ get[c].phase \notin {"answered", "storing"} => get[c].todo = <<>>
Untracked ==
    ~tracked => /\ msgs = <<>>
                /\ \A n \in 1..Len(feed) : feed[n].type = "Ready"
                /\ \A c \in Callers : get[c].phase = "storing" => get[c].todo = <<>>
KnownInv == MessageTypes /\ KnownFeed /\ KnownMessages /\ Untracked

(* The feed with one more event, and with one less.                         *)
Grew(e) ==
    /\ Len(feed') = Len(feed) + 1 /\ feed'[Len(feed) + 1] = e
    /\ \A n \in 1..Len(feed) : feed'[n] = feed[n]
Shrank ==
    /\ Len(feed) \in Nat \ {0} /\ Len(feed') = Len(feed) - 1
    /\ \A n \in 1..Len(feed') : feed'[n] = feed[n + 1] /\ n + 1 \in 1..Len(feed)

LEMMA FeedGrows ==
  ASSUME MessageTypes, NEW e \in MessageNews, feed' = Append(feed, e)
  PROVE  feed' \in Seq(MessageNews) /\ Grew(e) /\ Len(feed) \in Nat /\ Len(feed') \in Nat
  BY DEF MessageTypes, Grew

LEMMA FeedShrinks ==
  ASSUME MessageTypes, feed # <<>>, feed' = Tail(feed)
  PROVE  /\ feed' \in Seq(MessageNews) /\ Shrank /\ Head(feed) = feed[1] /\ feed[1] \in MessageNews
         /\ Len(feed) \in Nat /\ Len(feed') \in Nat
  <1>1. feed \in Seq(MessageNews)
    BY DEF MessageTypes
  <1>2. feed' \in Seq(MessageNews) /\ Len(feed) \in Nat \ {0} /\ Len(feed') = Len(feed) - 1
    BY <1>1
  <1>3. \A n \in 1..Len(feed') : feed'[n] = feed[n + 1] /\ n + 1 \in 1..Len(feed)
    BY <1>1, <1>2
  <1>4. Head(feed) = feed[1] /\ feed[1] \in MessageNews
    BY <1>1, <1>2
  <1> QED BY <1>2, <1>3, <1>4 DEF Shrank

LEMMA GetOf ==
  ASSUME MessageTypes, NEW c \in Callers
  PROVE  /\ get[c] \in GetTypes /\ get[c].have \in Lists /\ get[c].todo \in Seq(CachedTypes)
         /\ get[c].limit \in Nat /\ get[c].ask \in Nat /\ get[c].api \in Nat
         /\ get[c].phase \in {"idle", "asked", "answered", "storing", "done"}
         /\ Len(get[c].todo) \in Nat /\ (get[c].todo = <<>> <=> Len(get[c].todo) = 0)
         /\ \A i \in 1..Len(get[c].todo) : get[c].todo[i].id \in Ids /\ Time(get[c].todo[i].id) \in Nat
  <1>1. get[c] \in GetTypes
    BY DEF MessageTypes
  <1>2. /\ get[c].have \in Lists /\ get[c].todo \in Seq(CachedTypes)
        /\ get[c].limit \in Nat /\ get[c].ask \in Nat /\ get[c].api \in Nat
        /\ get[c].phase \in {"idle", "asked", "answered", "storing", "done"}
    BY <1>1 DEF GetTypes
  <1>3. Len(get[c].todo) \in Nat /\ (get[c].todo = <<>> <=> Len(get[c].todo) = 0)
    BY <1>2
  <1>4. \A i \in 1..Len(get[c].todo) : get[c].todo[i] \in CachedTypes
    BY <1>2
  <1>5. \A i \in 1..Len(get[c].todo) : get[c].todo[i].id \in Ids
    BY <1>4 DEF CachedTypes
  <1> QED BY <1>1, <1>2, <1>3, <1>5, Times

(* The server's actions leave the list and the calls alone.                 *)
Unheard == msgs' = msgs /\ get' = get /\ tracked' = tracked

LEMMA KnownServer ==
  ASSUME KnownInv, Unheard, gap' \in BOOLEAN,
         latest \subseteq latest', latest' \subseteq Ids, DOMAIN posts' \subseteq latest',
         posts' \in [DOMAIN posts' -> PostTypes], DOMAIN posts' \cap latest \subseteq DOMAIN posts,
         NEW e \in MessageNews, e.type # "Ready",
         e.type = "MessageCreate" => e.id \in latest',
         e.type = "MessageDeleteBulk" => e.ids \subseteq latest' \ DOMAIN posts',
         feed' = IF tracked THEN Append(feed, e) ELSE feed
  PROVE  KnownInv'
  <1>1. MessageTypes /\ MessageTypes'
    BY FeedGrows DEF KnownInv, MessageTypes, Unheard
  <1>2. KnownFeed'
    <2>1. CASE tracked
      <3>1. Grew(e) /\ Len(feed) \in Nat
        BY <1>1, <2>1, FeedGrows
      <3> QED BY <3>1 DEF KnownInv, KnownFeed, Grew
    <2>2. CASE ~tracked
      BY <2>2 DEF KnownInv, KnownFeed
    <2> QED BY <2>1, <2>2
  <1>3. KnownMessages'
    BY DEF KnownInv, KnownMessages, Unheard
  <1>4. Untracked'
    BY DEF KnownInv, Untracked, Unheard
  <1> QED BY <1>1, <1>2, <1>3, <1>4 DEF KnownInv

-----------------------------------------------------------------------------
(* The list has no holes.                                                   *)

(* The event of a new message is to come; READY is to come.                 *)
Pends(id) == \E n \in 1..Len(feed) : feed[n].type = "MessageCreate" /\ feed[n].id = id
Resets == \E n \in 1..Len(feed) : feed[n].type = "Ready"

(* What is later than t is held or will be.                                 *)
Present(id) == Holds(msgs, id) \/ Pends(id)
Covers(t) == Resets \/ \A id \in DOMAIN posts : Time(id) > t => Present(id)
ListCovers == msgs # <<>> => Covers(Time(msgs[Len(msgs)].id))

(* So is what is later than the answer to a call, whose messages follow     *)
(* upon each other, unless the list is full and nothing more is stored at   *)
(* its end.                                                                 *)
CallCovers(c) ==
    /\ get[c].phase = "asked" /\ get[c].have # <<>> =>
           ~Room(msgs) \/ Covers(Time(get[c].have[Len(get[c].have)].id) - 1)
    /\ get[c].todo # <<>> => ~Room(msgs) \/ Covers(Time(get[c].todo[1].id))
    /\ \A i \in 1..(Len(get[c].todo) - 1) : \A id \in DOMAIN posts :
           Time(id) > Time(get[c].todo[i + 1].id) => Time(id) >= Time(get[c].todo[i].id)

(* Events tell of new messages in their order, each later than what is held *)
(* or answered.                                                             *)
DistinctTimes == \A a, b \in latest : Time(a) = Time(b) => a = b
PendsInOrder ==
    \A n \in 1..Len(feed) : feed[n].type = "MessageCreate" =>
        /\ \A id \in latest : Time(id) > Time(feed[n].id) => Pends(id)
        /\ \A k \in 1..Len(feed) :
               n < k /\ feed[k].type = "MessageCreate" => Time(feed[n].id) < Time(feed[k].id)
NotPending ==
    /\ \A i \in 1..Len(msgs) : ~Pends(msgs[i].id)
    /\ \A c \in Callers : \A i \in 1..Len(get[c].todo) : ~Pends(get[c].todo[i].id)
HoleInv ==
    tracked /\ ~gap =>
        /\ DistinctTimes /\ PendsInOrder /\ NotPending
        /\ ListCovers /\ \A c \in Callers : CallCovers(c)

LEMMA PendsGrow ==
  ASSUME MessageTypes, NEW e, Grew(e)
  PROVE  /\ \A id : Pends(id)' <=> Pends(id) \/ (e.type = "MessageCreate" /\ e.id = id)
         /\ Resets' <=> Resets \/ e.type = "Ready"
  <1>1. Len(feed) \in Nat
    BY DEF MessageTypes
  <1>2. \A n \in 1..Len(feed') : (n \in 1..Len(feed) /\ feed'[n] = feed[n]) \/ (n = Len(feed) + 1 /\ feed'[n] = e)
    BY <1>1 DEF Grew
  <1>3. \A n \in 1..Len(feed) : n \in 1..Len(feed') /\ feed'[n] = feed[n]
    BY <1>1 DEF Grew
  <1>4. Len(feed) + 1 \in 1..Len(feed') /\ feed'[Len(feed) + 1] = e
    BY <1>1 DEF Grew
  <1> QED BY <1>2, <1>3, <1>4 DEF Pends, Resets

LEMMA PendsShrink ==
  ASSUME MessageTypes, Shrank
  PROVE  /\ \A id : Pends(id)' => Pends(id)
         /\ \A id : Pends(id) => Pends(id)' \/ (feed[1].type = "MessageCreate" /\ feed[1].id = id)
         /\ Resets' => Resets
         /\ Resets => Resets' \/ feed[1].type = "Ready"
  <1>1. \A n \in 1..Len(feed') : n + 1 \in 1..Len(feed) /\ feed'[n] = feed[n + 1]
    BY DEF Shrank
  <1>2. \A n \in 1..Len(feed) : n = 1 \/ (n - 1 \in 1..Len(feed') /\ feed'[n - 1] = feed[n])
    <2> TAKE n \in 1..Len(feed)
    <2> SUFFICES ASSUME n # 1
                 PROVE  n - 1 \in 1..Len(feed') /\ feed'[n - 1] = feed[n]
      OBVIOUS
    <2>1. n - 1 \in 1..Len(feed') /\ (n - 1) + 1 = n
      BY DEF Shrank
    <2> QED BY <1>1, <2>1
  <1>3. (\A id : Pends(id)' => Pends(id)) /\ (Resets' => Resets)
    BY <1>1 DEF Pends, Resets
  <1>4. /\ \A id : Pends(id) => Pends(id)' \/ (feed[1].type = "MessageCreate" /\ feed[1].id = id)
        /\ Resets => Resets' \/ feed[1].type = "Ready"
    BY <1>2 DEF Pends, Resets
  <1> QED BY <1>3, <1>4

Calmly == Unheard /\ latest' = latest /\ DOMAIN posts' \subseteq DOMAIN posts /\ (gap => gap')

LEMMA HoleServer ==
  ASSUME KnownInv, HoleInv, Calmly, NEW e \in MessageNews, e.type \notin {"Ready", "MessageCreate"},
         feed' = IF tracked THEN Append(feed, e) ELSE feed
  PROVE  HoleInv'
  <1> SUFFICES ASSUME tracked', ~gap'
               PROVE  /\ DistinctTimes' /\ PendsInOrder' /\ NotPending'
                      /\ ListCovers' /\ \A c \in Callers : CallCovers(c)'
    BY DEF HoleInv
  <1>1. /\ tracked /\ ~gap /\ DistinctTimes /\ PendsInOrder /\ NotPending
        /\ ListCovers /\ \A c \in Callers : CallCovers(c)
    BY DEF HoleInv, Calmly, Unheard
  <1>2. MessageTypes /\ Grew(e) /\ Len(feed) \in Nat
    BY <1>1, FeedGrows DEF KnownInv
  <1>3. (\A id : Pends(id)' <=> Pends(id)) /\ (Resets' <=> Resets)
    BY <1>2, PendsGrow
  <1>4. \A id : Present(id)' <=> Present(id)
    BY <1>3 DEF Present, Calmly, Unheard
  <1>5. \A t : Covers(t) => Covers(t)'
    BY <1>3, <1>4 DEF Covers, Calmly
  <1>6. DistinctTimes' /\ NotPending'
    BY <1>1, <1>3 DEF DistinctTimes, NotPending, Calmly, Unheard
  <1>7. PendsInOrder'
    <2>1. \A n \in 1..Len(feed') : (n \in 1..Len(feed) /\ feed'[n] = feed[n]) \/ (n = Len(feed) + 1 /\ feed'[n] = e)
      BY <1>2 DEF Grew
    <2> QED BY <1>1, <1>3, <2>1 DEF PendsInOrder, Calmly
  <1>8. ListCovers'
    BY <1>1, <1>5 DEF ListCovers, Calmly, Unheard
  <1>9. \A c \in Callers : CallCovers(c)'
    BY <1>1, <1>5 DEF CallCovers, Calmly, Unheard, Room
  <1> QED BY <1>6, <1>7, <1>8, <1>9

LEMMA SentNow ==
  ASSUME NEW e, Send(e)
  PROVE  feed' = IF tracked THEN Append(feed, e) ELSE feed
  BY DEF Send

LEMMA PostOf ==
  ASSUME MessageTypes, NEW id \in DOMAIN posts
  PROVE  /\ id \in Ids /\ id \in latest /\ posts[id] \in PostTypes /\ posts[id].text \in Nat
         /\ posts[id].by \in [Faces -> SUBSET People] /\ \A x \in Faces : IsFiniteSet(posts[id].by[x])
  <1>1. id \in Ids /\ id \in latest /\ posts[id] \in PostTypes
    BY DEF MessageTypes
  <1> QED BY <1>1 DEF PostTypes

(* Changes of one message's contents.                                       *)
Alters(id, e) ==
    /\ Unheard /\ latest' = latest /\ gap' = gap /\ id \in DOMAIN posts
    /\ \E p \in PostTypes : posts' = [posts EXCEPT ![id] = p]
    /\ e \in MessageNews /\ e.type \notin {"Ready", "MessageCreate", "MessageDeleteBulk"}
    /\ feed' = IF tracked THEN Append(feed, e) ELSE feed

EditOf(id, empties) ==
    [type |-> "MessageUpdate", id |-> id, text |-> IF empties THEN 0 ELSE posts[id].text + 1]

LEMMA EditAlters ==
  ASSUME KnownInv, NEW id \in DOMAIN posts, NEW empties \in BOOLEAN, Edit(id, empties)
  PROVE  Alters(id, EditOf(id, empties))
  <1>1. MessageTypes
    BY DEF KnownInv
  <1>2. PICK p : p = [posts[id] EXCEPT !.text = IF empties THEN posts[id].text ELSE posts[id].text + 1, !.empty = empties]
    OBVIOUS
  <1>3. id \in Ids /\ posts[id] \in PostTypes /\ posts[id].text \in Nat
    BY <1>1, PostOf
  <1>4. p \in PostTypes
    <2>1. PICK text \in Nat : text = IF empties THEN posts[id].text ELSE posts[id].text + 1
      BY <1>3
    <2>2. p = [posts[id] EXCEPT !.text = text, !.empty = empties]
      BY <1>2, <2>1
    <2> QED BY <1>3, <2>1, <2>2 DEF PostTypes
  <1>5. posts' = [posts EXCEPT ![id] = p]
    BY <1>2 DEF Edit
  <1>6. PICK e : e = EditOf(id, empties)
    OBVIOUS
  <1>7. e \in MessageNews /\ e.type = "MessageUpdate"
    BY <1>3, <1>6 DEF MessageNews, EditOf
  <1>8. feed' = IF tracked THEN Append(feed, e) ELSE feed
    <2>1. Send(e)
      BY <1>6 DEF Edit, EditOf
    <2> QED BY <2>1, SentNow
  <1>9. Unheard /\ latest' = latest /\ gap' = gap
    BY DEF Edit, Rest, sideVars, Unheard
  <1> QED BY <1>4, <1>5, <1>6, <1>7, <1>8, <1>9 DEF Alters

LEMMA ReactAlters ==
  ASSUME KnownInv, NEW id \in DOMAIN posts, NEW x \in Faces, NEW u \in People, React(id, x, u)
  PROVE  Alters(id, [type |-> IF u \in posts[id].by[x] THEN "ReactionRemove" ELSE "ReactionAdd",
                     id |-> id, emoji |-> x, user |-> u])
  <1>1. MessageTypes
    BY DEF KnownInv
  <1>2. PICK p : p = [posts[id] EXCEPT !.by[x] = IF u \in posts[id].by[x] THEN @ \ {u} ELSE @ \cup {u}]
    OBVIOUS
  <1>3. /\ id \in Ids /\ posts[id] \in PostTypes /\ posts[id].by \in [Faces -> SUBSET People]
        /\ \A y \in Faces : IsFiniteSet(posts[id].by[y])
    BY <1>1, PostOf
  <1>4. p \in PostTypes
    <2>1. PICK S : S = IF u \in posts[id].by[x] THEN posts[id].by[x] \ {u} ELSE posts[id].by[x] \cup {u}
      OBVIOUS
    <2>2. S \in SUBSET People
      BY <1>3, <2>1
    <2>3. IsFiniteSet(posts[id].by[x] \ {u}) /\ IsFiniteSet(posts[id].by[x] \cup {u})
      BY <1>3, FS_RemoveElement, FS_AddElement
    <2>4. IsFiniteSet(S)
      BY <2>1, <2>3
    <2>5. p = [posts[id] EXCEPT !.by = [posts[id].by EXCEPT ![x] = S]]
      BY <1>2, <1>3, <2>1 DEF PostTypes
    <2>6. \A y \in Faces : [posts[id].by EXCEPT ![x] = S][y] = IF y = x THEN S ELSE posts[id].by[y]
      BY <1>3
    <2>7. p.by \in [Faces -> SUBSET People] /\ \A y \in Faces : IsFiniteSet(p.by[y])
      BY <1>3, <2>2, <2>4, <2>5, <2>6 DEF PostTypes
    <2> QED BY <1>3, <2>5, <2>7 DEF PostTypes
  <1>5. posts' = [posts EXCEPT ![id] = p]
    BY <1>2 DEF React
  <1>6. PICK e : e = [type |-> IF u \in posts[id].by[x] THEN "ReactionRemove" ELSE "ReactionAdd",
                      id |-> id, emoji |-> x, user |-> u]
    OBVIOUS
  <1>7. e \in MessageNews
    BY <1>3, <1>6 DEF MessageNews
  <1>8. feed' = IF tracked THEN Append(feed, e) ELSE feed
    BY <1>6, SentNow DEF React
  <1>9. Unheard /\ latest' = latest /\ gap' = gap
    BY DEF React, Rest, sideVars, Unheard
  <1>10. e.type \notin {"Ready", "MessageCreate", "MessageDeleteBulk"}
    BY <1>6
  <1> QED BY <1>4, <1>5, <1>6, <1>7, <1>8, <1>9, <1>10 DEF Alters

LEMMA ClearEmojiAlters ==
  ASSUME KnownInv, NEW id \in DOMAIN posts, NEW x \in Faces, ClearEmoji(id, x)
  PROVE  Alters(id, [type |-> "ReactionRemoveEmoji", id |-> id, emoji |-> x])
  <1>1. MessageTypes
    BY DEF KnownInv
  <1>2. PICK p : p = [posts[id] EXCEPT !.by[x] = {}]
    OBVIOUS
  <1>3. /\ id \in Ids /\ posts[id] \in PostTypes /\ posts[id].by \in [Faces -> SUBSET People]
        /\ \A y \in Faces : IsFiniteSet(posts[id].by[y])
    BY <1>1, PostOf
  <1>4. p \in PostTypes
    <2>1. p = [posts[id] EXCEPT !.by = [posts[id].by EXCEPT ![x] = {}]]
      BY <1>2, <1>3 DEF PostTypes
    <2>2. \A y \in Faces : [posts[id].by EXCEPT ![x] = {}][y] = IF y = x THEN {} ELSE posts[id].by[y]
      BY <1>3
    <2>3. p.by \in [Faces -> SUBSET People] /\ \A y \in Faces : IsFiniteSet(p.by[y])
      BY <1>3, <2>1, <2>2, FS_EmptySet DEF PostTypes
    <2> QED BY <1>3, <2>1, <2>3 DEF PostTypes
  <1>5. posts' = [posts EXCEPT ![id] = p]
    BY <1>2 DEF ClearEmoji
  <1>6. PICK e : e = [type |-> "ReactionRemoveEmoji", id |-> id, emoji |-> x]
    OBVIOUS
  <1>7. e \in MessageNews
    BY <1>3, <1>6 DEF MessageNews
  <1>8. feed' = IF tracked THEN Append(feed, e) ELSE feed
    BY <1>6, SentNow DEF ClearEmoji
  <1>9. Unheard /\ latest' = latest /\ gap' = gap
    BY DEF ClearEmoji, Rest, sideVars, Unheard
  <1> QED BY <1>4, <1>5, <1>6, <1>7, <1>8, <1>9 DEF Alters

LEMMA ClearAllAlters ==
  ASSUME KnownInv, NEW id \in DOMAIN posts, ClearAll(id)
  PROVE  Alters(id, [type |-> "ReactionRemoveAll", id |-> id])
  <1>1. MessageTypes
    BY DEF KnownInv
  <1>2. PICK p : p = [posts[id] EXCEPT !.by = [x \in Faces |-> {}]]
    OBVIOUS
  <1>3. id \in Ids /\ posts[id] \in PostTypes
    BY <1>1, PostOf
  <1>4. p \in PostTypes
    BY <1>2, <1>3, FS_EmptySet DEF PostTypes
  <1>5. posts' = [posts EXCEPT ![id] = p]
    BY <1>2 DEF ClearAll
  <1>6. PICK e : e = [type |-> "ReactionRemoveAll", id |-> id]
    OBVIOUS
  <1>7. e \in MessageNews
    BY <1>3, <1>6 DEF MessageNews
  <1>8. feed' = IF tracked THEN Append(feed, e) ELSE feed
    BY <1>6, SentNow DEF ClearAll
  <1>9. Unheard /\ latest' = latest /\ gap' = gap
    BY DEF ClearAll, Rest, sideVars, Unheard
  <1> QED BY <1>4, <1>5, <1>6, <1>7, <1>8, <1>9 DEF Alters

LEMMA ListAltered ==
  ASSUME KnownInv, HoleInv, NEW id, NEW e, Alters(id, e)
  PROVE  KnownInv' /\ HoleInv'
  <1>1. MessageTypes
    BY DEF KnownInv
  <1>2. PICK p \in PostTypes : posts' = [posts EXCEPT ![id] = p]
    BY DEF Alters
  <1>3. DOMAIN posts' = DOMAIN posts /\ posts' \in [DOMAIN posts' -> PostTypes]
    BY <1>1, <1>2 DEF MessageTypes
  <1>4. /\ Unheard /\ latest' = latest /\ gap' = gap /\ gap \in BOOLEAN /\ latest \subseteq Ids /\ DOMAIN posts \subseteq latest
        /\ e \in MessageNews /\ e.type \notin {"Ready", "MessageCreate", "MessageDeleteBulk"}
        /\ feed' = IF tracked THEN Append(feed, e) ELSE feed
    BY <1>1 DEF Alters, MessageTypes
  <1>5. KnownInv'
    BY <1>3, <1>4, KnownServer
  <1>6. HoleInv'
    BY <1>3, <1>4, HoleServer DEF Calmly
  <1> QED BY <1>5, <1>6

LEMMA ListDeleteSome ==
  ASSUME KnownInv, HoleInv, NEW ids \in SUBSET DOMAIN posts, DeleteSome(ids)
  PROVE  KnownInv' /\ HoleInv'
  <1>1. MessageTypes
    BY DEF KnownInv
  <1>2. PICK e : e = [type |-> "MessageDeleteBulk", ids |-> ids]
    OBVIOUS
  <1>3. /\ DOMAIN posts' = DOMAIN posts \ ids /\ posts' \in [DOMAIN posts' -> PostTypes]
        /\ Unheard /\ latest' = latest /\ gap' = gap /\ gap \in BOOLEAN
        /\ latest \subseteq Ids /\ DOMAIN posts \subseteq latest
    BY <1>1 DEF DeleteSome, Rest, sideVars, Unheard, MessageTypes
  <1>4. e \in MessageNews /\ e.type = "MessageDeleteBulk" /\ e.ids = ids
    BY <1>2, <1>3 DEF MessageNews
  <1>5. feed' = IF tracked THEN Append(feed, e) ELSE feed
    BY <1>2, SentNow DEF DeleteSome
  <1>6. KnownInv'
    BY <1>3, <1>4, <1>5, KnownServer
  <1>7. HoleInv'
    BY <1>3, <1>4, <1>5, HoleServer DEF Calmly
  <1> QED BY <1>6, <1>7

LEMMA ListNewSession ==
  ASSUME KnownInv, HoleInv, NewSession
  PROVE  KnownInv' /\ HoleInv'
  <1>1. MessageTypes
    BY DEF KnownInv
  <1>2. PICK e : e = [type |-> "Ready"]
    OBVIOUS
  <1>3. e \in MessageNews /\ e.type = "Ready"
    BY <1>2 DEF MessageNews
  <1>4. feed' = <<e>> /\ feed' \in Seq(MessageNews) /\ Len(feed') = 1 /\ feed'[1] = e
    BY <1>2, <1>3 DEF NewSession
  <1>5. /\ Unheard /\ latest' = latest /\ posts' = posts /\ gap' = gap
    BY DEF NewSession, Rest, sideVars, Unheard
  <1>6. MessageTypes'
    BY <1>1, <1>4, <1>5 DEF MessageTypes, Unheard
  <1>7. KnownFeed' /\ KnownMessages' /\ Untracked'
    BY <1>3, <1>4, <1>5 DEF KnownInv, KnownFeed, KnownMessages, Untracked, Unheard
  <1>8. Resets' /\ \A id : ~Pends(id)'
    BY <1>3, <1>4 DEF Resets, Pends
  <1>9. PendsInOrder' /\ NotPending'
    <2>1. \A n \in 1..Len(feed') : feed'[n].type # "MessageCreate"
      BY <1>3, <1>4
    <2> QED BY <1>8, <2>1 DEF PendsInOrder, NotPending
  <1>10. \A t : Covers(t)'
    BY <1>8 DEF Covers
  <1>11. HoleInv'
    BY <1>5, <1>9, <1>10 DEF HoleInv, DistinctTimes, ListCovers, CallCovers, Unheard
  <1> QED BY <1>6, <1>7, <1>11 DEF KnownInv

LEMMA ListPost ==
  ASSUME KnownInv, HoleInv, NEW id \in Ids, NEW empty \in BOOLEAN, Post(id, empty)
  PROVE  KnownInv' /\ HoleInv'
  <1>1. MessageTypes
    BY DEF KnownInv
  <1>2. PICK p : p = [text |-> IF empty THEN 0 ELSE 1, empty |-> empty, by |-> [x \in Faces |-> {}]]
    OBVIOUS
  <1>3. PICK e : e = [type |-> "MessageCreate", id |-> id, post |-> p]
    OBVIOUS
  <1>4. p \in PostTypes
    BY <1>2, FS_EmptySet DEF PostTypes
  <1>5. e \in MessageNews /\ e.type = "MessageCreate" /\ e.id = id
    BY <1>3, <1>4 DEF MessageNews
  <1>6. /\ id \notin latest /\ \A o \in latest : Time(id) >= Time(o)
        /\ posts' = [i \in DOMAIN posts \cup {id} |-> IF i = id THEN p ELSE posts[i]]
        /\ feed' = IF tracked THEN Append(feed, e) ELSE feed
        /\ latest' = latest \cup {id} /\ gap' = (gap \/ \E o \in latest : Time(o) = Time(id))
        /\ Unheard
    BY <1>2, <1>3, SentNow DEF Post, Rest, sideVars, Unheard
  <1>7. latest \subseteq Ids /\ DOMAIN posts \subseteq latest /\ posts \in [DOMAIN posts -> PostTypes] /\ gap \in BOOLEAN
    BY <1>1 DEF MessageTypes
  <1>8. KnownInv'
    <2>1. DOMAIN posts' = DOMAIN posts \cup {id} /\ posts' \in [DOMAIN posts' -> PostTypes]
      BY <1>4, <1>6, <1>7
    <2>2. gap' \in BOOLEAN /\ latest' \subseteq Ids /\ DOMAIN posts' \subseteq latest' /\ DOMAIN posts' \cap latest \subseteq DOMAIN posts
      BY <1>6, <1>7, <2>1
    <2> QED BY <1>5, <1>6, <2>1, <2>2, KnownServer
  <1> SUFFICES ASSUME tracked', ~gap'
               PROVE  /\ DistinctTimes' /\ PendsInOrder' /\ NotPending'
                      /\ ListCovers' /\ \A c \in Callers : CallCovers(c)'
    BY <1>8 DEF HoleInv
  <1>9. /\ tracked /\ ~gap /\ DistinctTimes /\ PendsInOrder /\ NotPending
        /\ ListCovers /\ \A c \in Callers : CallCovers(c)
    BY <1>6 DEF HoleInv, Unheard
  <1>10. Grew(e) /\ Len(feed) \in Nat
    BY <1>1, <1>5, <1>6, <1>9, FeedGrows
  <1>11. (\A i : Pends(i)' <=> Pends(i) \/ i = id) /\ (Resets' <=> Resets)
    BY <1>1, <1>5, <1>10, PendsGrow
  <1>12. \A o \in latest : Time(id) > Time(o) /\ o # id
    <2> TAKE o \in latest
    <2>1. Time(id) >= Time(o) /\ Time(o) # Time(id) /\ o # id
      BY <1>6
    <2>2. Time(id) \in Nat /\ Time(o) \in Nat
      BY <1>7, Times
    <2> QED BY <2>1, <2>2
  <1>13. \A t : Covers(t) => Covers(t)'
    <2>1. \A i \in DOMAIN posts' : i = id \/ i \in DOMAIN posts
      BY <1>6
    <2> QED BY <1>6, <1>11, <2>1 DEF Covers, Present, Unheard
  <1>14. DistinctTimes'
    BY <1>6, <1>9, <1>12 DEF DistinctTimes
  <1>15. NotPending'
    BY <1>6, <1>9, <1>11, <1>12 DEF NotPending, KnownInv, KnownMessages, Unheard
  <1>16. PendsInOrder'
    <2>1. \A n \in 1..Len(feed') : (n \in 1..Len(feed) /\ feed'[n] = feed[n]) \/ (n = Len(feed) + 1 /\ feed'[n] = e)
      BY <1>10 DEF Grew
    <2> SUFFICES ASSUME NEW n \in 1..Len(feed'), feed'[n].type = "MessageCreate"
                 PROVE  /\ \A i \in latest' : Time(i) > Time(feed'[n].id) => Pends(i)'
                        /\ \A k \in 1..Len(feed') :
                               n < k /\ feed'[k].type = "MessageCreate" => Time(feed'[n].id) < Time(feed'[k].id)
      BY DEF PendsInOrder
    <2>2. CASE n \in 1..Len(feed) /\ feed'[n] = feed[n]
      <3>1. /\ \A i \in latest : Time(i) > Time(feed[n].id) => Pends(i)
            /\ \A k \in 1..Len(feed) :
                   n < k /\ feed[k].type = "MessageCreate" => Time(feed[n].id) < Time(feed[k].id)
        BY <1>9, <2>2 DEF PendsInOrder
      <3>2. feed[n].id \in latest
        BY <2>2 DEF KnownInv, KnownFeed
      <3>3. Time(feed[n].id) < Time(e.id)
        BY <1>5, <1>7, <1>12, <3>2, Times
      <3> QED BY <1>6, <1>11, <2>1, <2>2, <3>1, <3>3
    <2>3. CASE n = Len(feed) + 1 /\ feed'[n] = e
      <3>1. \A i \in latest' : Time(i) > Time(id) => i = id
        BY <1>6, <1>7, <1>12, Times
      <3>2. \A k \in 1..Len(feed') : ~(n < k)
        BY <1>10, <2>3 DEF Grew
      <3> QED BY <1>5, <1>11, <2>3, <3>1, <3>2
    <2> QED BY <2>1, <2>2, <2>3
  <1>17. ListCovers'
    BY <1>6, <1>9, <1>13 DEF ListCovers, Unheard
  <1>18. ASSUME NEW c \in Callers
         PROVE  CallCovers(c)'
    <2>1. get'[c] = get[c] /\ msgs' = msgs /\ CallCovers(c)
      BY <1>6, <1>9 DEF Unheard
    <2>2. \A i \in 1..(Len(get[c].todo) - 1) : \A j \in DOMAIN posts' :
           Time(j) > Time(get[c].todo[i + 1].id) => Time(j) >= Time(get[c].todo[i].id)
      <3> TAKE i \in 1..(Len(get[c].todo) - 1)
      <3> TAKE j \in DOMAIN posts'
      <3>1. i \in 1..Len(get[c].todo) /\ get[c].todo[i].id \in latest
        BY <1>1, GetOf DEF KnownInv, KnownMessages
      <3>2. CASE j = id
        BY <1>6, <3>1, <3>2
      <3>3. CASE j # id
        BY <1>6, <2>1, <3>3 DEF CallCovers
      <3> QED BY <3>2, <3>3
    <2> QED BY <1>13, <2>1, <2>2 DEF CallCovers, Room
  <1> QED BY <1>14, <1>15, <1>16, <1>17, <1>18

-----------------------------------------------------------------------------
(* The handler.                                                             *)

(* What every event does, and what each does to the list.                   *)
LEMMA EventTaken ==
  ASSUME KnownInv, MessageEvent, NEW e, e = feed[1]
  PROVE  /\ feed # <<>> /\ feed' = Tail(feed) /\ Shrank /\ feed' \in Seq(MessageNews) /\ e \in MessageNews
         /\ tracked' = tracked /\ posts' = posts /\ latest' = latest /\ get' = get /\ unsure' = unsure
         /\ gap' = (gap \/ (e.type \in {"Ready", "MessageDeleteBulk"} /\ Calling))
         /\ e.type = "Ready" => msgs' = <<>>
         /\ e.type = "MessageCreate" => msgs' = AddMessage(msgs, Seen(e.id, e.post))
         /\ e.type = "MessageDeleteBulk" => msgs' = MessageRemove(msgs, e.ids)
         /\ Updating(e) => msgs' = EventOn(msgs, e)
         /\ \/ e.type = "Ready" \/ e.type = "MessageCreate" \/ e.type = "MessageDeleteBulk" \/ Updating(e)
  <1>1. MessageTypes
    BY DEF KnownInv
  <1>2. feed # <<>> /\ feed' = Tail(feed)
    BY DEF MessageEvent
  <1>3. Shrank /\ feed' \in Seq(MessageNews) /\ Head(feed) = e /\ e \in MessageNews
    BY <1>1, <1>2, FeedShrinks
  <1>4. /\ tracked' = tracked /\ posts' = posts /\ latest' = latest /\ get' = get /\ unsure' = unsure
        /\ gap' = (gap \/ (e.type \in {"Ready", "MessageDeleteBulk"} /\ Calling))
    BY <1>3 DEF MessageEvent, sideVars
  <1>5. e.type = "Ready" => msgs' = <<>>
    BY <1>3 DEF MessageEvent
  <1>6. e.type = "MessageCreate" => msgs' = AddMessage(msgs, Seen(e.id, e.post))
    BY <1>3 DEF MessageEvent, MessageCreate
  <1>7. e.type = "MessageDeleteBulk" => msgs' = MessageRemove(msgs, e.ids)
    BY <1>3 DEF MessageEvent, MessageDeleteBulk
  <1>8. Updating(e) => msgs' = EventOn(msgs, e)
    BY <1>3 DEF MessageEvent, Updating, EventOn, MessageUpdate
  <1>9. \/ e.type = "Ready" \/ e.type = "MessageCreate" \/ e.type = "MessageDeleteBulk" \/ Updating(e)
    BY <1>3, NewsKinds DEF Updating
  <1> QED BY <1>2, <1>3, <1>4, <1>5, <1>6, <1>7, <1>8, <1>9

(* A cached message that is as fresh as the cache keeps it.                 *)
Looks(m, id, p) ==
    /\ m \in CachedTypes /\ m.id = id
    /\ (m.text = p.text \/ (p.empty /\ m.text = 0))
    /\ \A x \in Faces : m.count[x] = Cardinality(p.by[x]) /\ m.me[x] = (Self \in p.by[x])

LEMMA SeenTypes ==
  ASSUME NEW id \in Ids, NEW p \in PostTypes
  PROVE  /\ Seen(id, p) \in CachedTypes /\ Seen(id, p).id = id
         /\ Seen(id, p).text = (IF p.empty THEN 0 ELSE p.text)
         /\ \A x \in Faces : Seen(id, p).count[x] = Cardinality(p.by[x]) /\ Seen(id, p).me[x] = (Self \in p.by[x])
         /\ Looks(Seen(id, p), id, p)
  <1>1. p.text \in Nat /\ p.empty \in BOOLEAN /\ \A x \in Faces : Cardinality(p.by[x]) \in Nat
    BY FS_CardinalityType DEF PostTypes
  <1>2. PICK m : m = Seen(id, p)
    OBVIOUS
  <1>3. /\ m.id = id /\ m.text = (IF p.empty THEN 0 ELSE p.text) /\ m.count = [x \in Faces |-> Cardinality(p.by[x])]
        /\ m.me = [x \in Faces |-> Self \in p.by[x]]
    BY <1>2 DEF Seen
  <1>4. m \in CachedTypes
    BY <1>1, <1>2 DEF Seen, CachedTypes
  <1>5. Looks(m, id, p)
    BY <1>3, <1>4 DEF Looks
  <1> QED BY <1>2, <1>3, <1>4, <1>5

LEMMA LooksFresh ==
  ASSUME NEW id \in Ids, NEW p \in PostTypes, NEW m, Looks(m, id, p)
  PROVE  Fresh(m, p)
  <1>1. PICK now : now = Seen(id, p)
    OBVIOUS
  <1>2. /\ m \in CachedTypes /\ m.id = id /\ (m.text = p.text \/ (p.empty /\ m.text = 0))
        /\ \A x \in Faces : m.count[x] = Cardinality(p.by[x]) /\ m.me[x] = (Self \in p.by[x])
    BY DEF Looks
  <1>3. /\ now \in CachedTypes /\ now.id = id /\ now.text = (IF p.empty THEN 0 ELSE p.text)
        /\ \A x \in Faces : now.count[x] = Cardinality(p.by[x]) /\ now.me[x] = (Self \in p.by[x])
    BY <1>1, SeenTypes
  <1>4. m.count = now.count
    BY <1>2, <1>3 DEF CachedTypes
  <1>5. m.me = now.me
    BY <1>2, <1>3 DEF CachedTypes
  <1>6. m = now \/ (p.empty /\ m = [now EXCEPT !.text = p.text])
    <2>1. CASE m.text = now.text
      BY <1>2, <1>3, <1>4, <1>5, <2>1 DEF CachedTypes
    <2>2. CASE p.empty /\ m.text = p.text
      BY <1>2, <1>3, <1>4, <1>5, <2>2 DEF CachedTypes
    <2> QED BY <1>2, <1>3, <2>1, <2>2
  <1> QED BY <1>1, <1>2, <1>6 DEF Fresh

(* Messages that are held after an event were before, or it brought them.   *)
LEMMA HeldAfter ==
  ASSUME KnownInv, MessageEvent, NEW e, e = feed[1]
  PROVE  /\ msgs' \in Lists
         /\ \A i \in 1..Len(msgs') : \/ \E j \in 1..Len(msgs) : msgs'[i].id = msgs[j].id
                                     \/ e.type = "MessageCreate" /\ msgs'[i].id = e.id
  <1>1. /\ e \in MessageNews
        /\ e.type = "Ready" => msgs' = <<>>
        /\ e.type = "MessageCreate" => msgs' = AddMessage(msgs, Seen(e.id, e.post))
        /\ e.type = "MessageDeleteBulk" => msgs' = MessageRemove(msgs, e.ids)
        /\ Updating(e) => msgs' = EventOn(msgs, e)
        /\ \/ e.type = "Ready" \/ e.type = "MessageCreate" \/ e.type = "MessageDeleteBulk" \/ Updating(e)
    BY EventTaken
  <1>2. msgs \in Lists /\ msgs \in Seq(CachedTypes) /\ Len(msgs) \in Nat /\ maxMsgs \in Nat
    BY ListTypes DEF KnownInv, MessageTypes
  <1>3. CASE e.type = "Ready"
    <2>1. msgs' = <<>>
      BY <1>1, <1>3
    <2> QED BY <1>2, <2>1 DEF Lists, Ordered
  <1>4. CASE e.type = "MessageCreate"
    <2>1. PICK m \in CachedTypes : m = Seen(e.id, e.post) /\ m.id = e.id
      BY <1>1, <1>4, NewsKinds, SeenTypes
    <2>2. PICK r : r = AddMessage(msgs, m)
      OBVIOUS
    <2>3. msgs' = r
      BY <1>1, <1>4, <2>1, <2>2
    <2>4. r \in Lists /\ (AtFront(msgs, m, r) \/ AtBack(msgs, m, r) \/ LeftOut(msgs, m, r))
      BY <1>2, <2>2, AddCases, AddOrdered
    <2>5. \A i \in 1..Len(r) : (\E j \in 1..Len(msgs) : r[i].id = msgs[j].id) \/ r[i].id = e.id
      <3>1. CASE AtFront(msgs, m, r)
        <4>1. \A i \in 1..Len(r) : i = 1 \/ (i \in 2..Len(r) /\ i - 1 \in 1..Len(msgs) /\ r[i] = msgs[i - 1])
          BY <1>2, <3>1 DEF AtFront
        <4> QED BY <2>1, <3>1, <4>1 DEF AtFront
      <3>2. CASE AtBack(msgs, m, r)
        <4>1. \A i \in 1..Len(r) : (i = Len(msgs) + 1 /\ r[i] = m) \/ (i \in 1..Len(msgs) /\ r[i] = msgs[i])
          BY <1>2, <3>2 DEF AtBack
        <4> QED BY <2>1, <4>1
      <3>3. CASE LeftOut(msgs, m, r)
        BY <3>3 DEF LeftOut
      <3> QED BY <2>4, <3>1, <3>2, <3>3
    <2> QED BY <1>4, <2>3, <2>4, <2>5
  <1>5. CASE e.type = "MessageDeleteBulk"
    <2>1. PICK r : r = MessageRemove(msgs, e.ids)
      OBVIOUS
    <2>2. r \in Lists /\ \A i \in 1..Len(r) : \E j \in 1..Len(msgs) : r[i] = msgs[j]
      <3>1. Spares(msgs, e.ids, r)
        BY <1>2, <2>1, RemoveSome
      <3> QED BY <3>1 DEF Spares
    <2>3. msgs' = r
      BY <1>1, <1>5, <2>1
    <2> QED BY <2>2, <2>3
  <1>6. CASE Updating(e)
    <2>1. PICK r : r = EventOn(msgs, e)
      OBVIOUS
    <2>2. r \in Lists /\ Len(r) = Len(msgs) /\ \A i \in 1..Len(msgs) : TurnedInto(msgs[i], e, r[i])
      BY <1>1, <1>2, <1>6, <2>1, TurnList
    <2>3. msgs' = r
      BY <1>1, <1>6, <2>1
    <2>4. \A i \in 1..Len(r) : r[i].id = msgs[i].id
      BY <2>2 DEF TurnedInto
    <2> QED BY <2>2, <2>3, <2>4
  <1> QED BY <1>1, <1>3, <1>4, <1>5, <1>6

LEMMA KnownEvent ==
  ASSUME KnownInv, MessageEvent
  PROVE  KnownInv'
  <1>1. PICK e : e = feed[1]
    OBVIOUS
  <1>2. /\ feed # <<>> /\ Shrank /\ feed' \in Seq(MessageNews) /\ e \in MessageNews
        /\ tracked' = tracked /\ posts' = posts /\ latest' = latest /\ get' = get
        /\ gap' = (gap \/ (e.type \in {"Ready", "MessageDeleteBulk"} /\ Calling))
        /\ e.type = "Ready" => msgs' = <<>>
    BY <1>1, EventTaken
  <1>3. /\ msgs' \in Lists
        /\ \A i \in 1..Len(msgs') : \/ \E j \in 1..Len(msgs) : msgs'[i].id = msgs[j].id
                                    \/ e.type = "MessageCreate" /\ msgs'[i].id = e.id
    BY <1>1, HeldAfter
  <1>4. MessageTypes'
    BY <1>2, <1>3 DEF KnownInv, MessageTypes
  <1>5. 1 \in 1..Len(feed)
    BY <1>2 DEF Shrank
  <1>6. KnownFeed'
    <2>1. \A n \in 1..Len(feed') : n + 1 \in 1..Len(feed) /\ feed'[n] = feed[n + 1] /\ n + 1 # 1
      BY <1>2 DEF Shrank
    <2> QED BY <1>2, <2>1 DEF KnownInv, KnownFeed
  <1>7. KnownMessages'
    BY <1>1, <1>2, <1>3, <1>5 DEF KnownInv, KnownMessages, KnownFeed
  <1>8. Untracked'
    <2>1. \A n \in 1..Len(feed') : n + 1 \in 1..Len(feed) /\ feed'[n] = feed[n + 1]
      BY <1>2 DEF Shrank
    <2> QED BY <1>1, <1>2, <1>5, <2>1 DEF KnownInv, Untracked
  <1> QED BY <1>4, <1>6, <1>7, <1>8 DEF KnownInv

LEMMA NobodyCalls ==
  ASSUME KnownInv, ~Calling, get' = get
  PROVE  \A c \in Callers : CallCovers(c)'
  <1> TAKE c \in Callers
  <1>1. get[c].phase \notin {"asked", "answered", "storing"} /\ get[c].todo = <<>>
    BY DEF Calling, KnownInv, KnownMessages
  <1>2. Len(get[c].todo) = 0 /\ 1..(0 - 1) = {}
    BY <1>1
  <1> QED BY <1>1, <1>2 DEF CallCovers

(* A new message is later than what is held, and what is later than it is   *)
(* still to come.                                                           *)
LEMMA NewMessage ==
  ASSUME KnownInv, HoleInv, tracked, ~gap, MessageEvent, NEW e, e = feed[1], e.type = "MessageCreate"
  PROVE  /\ ~Pends(e.id)' /\ \A id \in latest : Time(id) > Time(e.id) => Pends(id)'
         /\ \A i \in 1..Len(msgs) : msgs[i].id # e.id /\ Time(e.id) > Time(msgs[i].id)
  <1>1. MessageTypes /\ Shrank /\ e \in MessageNews /\ e.id \in Ids /\ DistinctTimes /\ PendsInOrder /\ NotPending
    BY EventTaken, NewsKinds DEF KnownInv, HoleInv
  <1>2. 1 \in 1..Len(feed) /\ e.id \in latest /\ latest \subseteq Ids
    BY <1>1 DEF Shrank, KnownInv, KnownFeed, MessageTypes
  <1>3. /\ \A id \in latest : Time(id) > Time(e.id) => Pends(id)
        /\ \A k \in 1..Len(feed) :
               1 < k /\ feed[k].type = "MessageCreate" => Time(e.id) < Time(feed[k].id)
    BY <1>1, <1>2 DEF PendsInOrder
  <1>4. Time(e.id) \in Nat /\ \A id \in latest : Time(id) \in Nat
    BY <1>2, Times
  <1>5. ~Pends(e.id)'
    <2>1. \A n \in 1..Len(feed') : feed'[n] = feed[n + 1] /\ n + 1 \in 1..Len(feed) /\ 1 < n + 1
      BY <1>1 DEF Shrank
    <2> QED BY <1>3, <1>4, <2>1 DEF Pends
  <1>6. \A id \in latest : Time(id) > Time(e.id) => Pends(id)'
    <2>1. \A id : Pends(id) => Pends(id)' \/ e.id = id
      BY <1>1, PendsShrink
    <2> QED BY <1>3, <1>4, <2>1
  <1>7. Pends(e.id)
    BY <1>2 DEF Pends
  <1>8. ASSUME NEW i \in 1..Len(msgs)
        PROVE  msgs[i].id # e.id /\ Time(e.id) > Time(msgs[i].id)
    <2>1. msgs[i].id \in latest /\ ~Pends(msgs[i].id)
      BY <1>1 DEF KnownInv, KnownMessages, NotPending
    <2>2. msgs[i].id # e.id
      BY <1>7, <2>1
    <2>3. ~(Time(msgs[i].id) > Time(e.id))
      BY <1>3, <2>1
    <2>4. Time(msgs[i].id) # Time(e.id)
      BY <1>1, <1>2, <2>1, <2>2 DEF DistinctTimes
    <2> QED BY <1>4, <2>1, <2>2, <2>3, <2>4
  <1> QED BY <1>5, <1>6, <1>8

LEMMA HoleCreate ==
  ASSUME KnownInv, HoleInv, tracked, ~gap, MessageEvent, NEW e, e = feed[1], e.type = "MessageCreate"
  PROVE  ListCovers' /\ \A c \in Callers : CallCovers(c)'
  <1>1. /\ MessageTypes /\ Shrank /\ e \in MessageNews /\ posts' = posts /\ get' = get
        /\ msgs' = AddMessage(msgs, Seen(e.id, e.post))
        /\ ListCovers /\ \A c \in Callers : CallCovers(c)
    BY EventTaken DEF KnownInv, HoleInv
  <1>2. PICK m \in CachedTypes : m = Seen(e.id, e.post) /\ m.id = e.id
    BY <1>1, NewsKinds, SeenTypes
  <1>3. /\ ~Pends(e.id)' /\ \A id \in latest : Time(id) > Time(e.id) => Pends(id)'
        /\ \A i \in 1..Len(msgs) : msgs[i].id # e.id /\ Time(e.id) > Time(msgs[i].id)
    BY NewMessage
  <1>4. /\ msgs \in Lists /\ Len(msgs) \in Nat /\ maxMsgs \in Nat /\ Len(msgs) <= maxMsgs
        /\ DOMAIN msgs = 1..Len(msgs) /\ (msgs = <<>> <=> Len(msgs) = 0)
        /\ \A i \in 1..Len(msgs) : Time(msgs[i].id) \in Nat /\ Len(msgs) \in 1..Len(msgs) /\ 1 \in 1..Len(msgs)
    BY <1>1, ListTypes DEF MessageTypes
  <1>5. PICK r : r = AddMessage(msgs, m)
    OBVIOUS
  <1>6. msgs' = r /\ r \in Seq(CachedTypes) /\ (AtFront(msgs, m, r) \/ AtBack(msgs, m, r) \/ LeftOut(msgs, m, r))
    BY <1>1, <1>2, <1>4, <1>5, AddCases
  <1>7. ~Holds(msgs, m.id)
    BY <1>2, <1>3, <1>4 DEF Holds
  <1>8. Time(m.id) \in Nat /\ \A id \in DOMAIN posts : id \in latest /\ Time(id) \in Nat
    BY <1>1, Times DEF CachedTypes, MessageTypes
  <1>9. /\ \A id \in DOMAIN posts : Present(id) => Holds(msgs, id) \/ id = e.id \/ Pends(id)'
        /\ Resets => Resets'
    BY <1>1, <1>2, PendsShrink DEF Present
  <1>10. \A c \in Callers : \A i \in 1..(Len(get[c].todo) - 1) : \A id \in DOMAIN posts :
             Time(id) > Time(get[c].todo[i + 1].id) => Time(id) >= Time(get[c].todo[i].id)
    BY <1>1 DEF CallCovers
  <1>11. CASE LeftOut(msgs, m, r)
    <2>1. \A i \in 1..Len(msgs) : Time(m.id) > Time(msgs[i].id)
      BY <1>2, <1>3
    <2>2. ~Room(msgs) /\ msgs = <<>> /\ r = msgs
      <3>1. CASE msgs # <<>>
        <4>1. 1 \in 1..Len(msgs) /\ Len(msgs) \in 1..Len(msgs)
          BY <1>4, <3>1
        <4>2. /\ Time(m.id) > Time(msgs[1].id) /\ Time(m.id) > Time(msgs[Len(msgs)].id)
              /\ Time(msgs[1].id) \in Nat /\ Time(msgs[Len(msgs)].id) \in Nat
          BY <1>4, <2>1, <4>1
        <4>3. ~(Time(msgs[Len(msgs)].id) >= Time(m.id)) /\ ~(Time(m.id) < Time(msgs[1].id))
          BY <1>8, <4>2
        <4> QED BY <1>7, <1>11, <3>1, <4>3, Zenon DEF LeftOut
      <3>2. CASE msgs = <<>>
        <4>1. r = msgs /\ ~Room(msgs)
          BY <1>7, <1>11, <3>2, Zenon DEF LeftOut
        <4> QED BY <3>2, <4>1
      <3> QED BY <3>1, <3>2
    <2>3. msgs' = msgs /\ msgs' = <<>> /\ ~Room(msgs)'
      BY <1>6, <2>2 DEF Room
    <2> QED BY <1>1, <1>10, <2>3 DEF ListCovers, CallCovers
  <1>12. CASE AtBack(msgs, m, r)
    <2>1. Len(msgs) \in 1..Len(msgs) /\ Time(msgs[Len(msgs)].id) >= Time(m.id)
      BY <1>4, <1>12 DEF AtBack
    <2>2. Time(m.id) > Time(msgs[Len(msgs)].id)
      BY <1>2, <1>3, <2>1
    <2> QED BY <1>4, <1>8, <2>1, <2>2
  <1>13. CASE AtFront(msgs, m, r)
    <2>1. /\ Room(msgs) => \A id : Holds(msgs, id) => Holds(r, id)
          /\ ~Room(msgs) => ~Room(r)
          /\ AtFront(msgs, m, r) => Holds(r, m.id)
      BY <1>4, <1>5, AddKeeps
    <2>2. Holds(r, e.id)
      BY <1>2, <1>13, <2>1
    <2>3. \A t : Room(msgs) /\ Covers(t) => Covers(t)'
      <3>1. Room(msgs) => \A id \in DOMAIN posts : Present(id) => Present(id)'
        BY <1>6, <1>9, <2>1, <2>2 DEF Present
      <3> QED BY <1>1, <1>9, <3>1 DEF Covers
    <2>4. \A c \in Callers : CallCovers(c)'
      <3>1. ~Room(msgs) => ~Room(msgs)'
        BY <1>6, <2>1 DEF Room
      <3> QED BY <1>1, <1>10, <2>3, <3>1 DEF CallCovers
    <2>5. CASE Len(r) = 1
      <3>1. msgs'[Len(msgs')] = m
        BY <1>6, <1>13, <2>5 DEF AtFront
      <3>2. \A id \in DOMAIN posts : Time(id) > Time(m.id) => Pends(id)'
        BY <1>2, <1>3, <1>8
      <3> QED BY <1>1, <2>4, <3>1, <3>2 DEF ListCovers, Covers, Present
    <2>6. CASE Len(r) # 1
      <3>1. PICK z \in 1..Len(msgs) :
                /\ r[Len(r)] = msgs[z]
                /\ \A id : Holds(msgs, id) /\ Time(id) > Time(msgs[z].id) => Holds(r, id)
        BY <1>4, <1>5, <1>13, <2>6, AddKeeps
      <3>2. Len(msgs) \in 1..Len(msgs) /\ Time(msgs[z].id) >= Time(msgs[Len(msgs)].id)
        BY <1>4, FirstAndLast
      <3>3. Covers(Time(msgs[Len(msgs)].id))
        BY <1>1, <1>4, <3>1 DEF ListCovers
      <3>4. ASSUME NEW id \in DOMAIN posts, Time(id) > Time(msgs[z].id), ~Resets
            PROVE  Present(id)'
        <4>1. Time(id) > Time(msgs[Len(msgs)].id)
          BY <1>4, <1>8, <3>2, <3>4
        <4>2. Present(id)
          BY <3>3, <3>4, <4>1 DEF Covers
        <4> QED BY <1>6, <1>9, <2>2, <3>1, <3>4, <4>2 DEF Present
      <3>5. msgs'[Len(msgs')] = msgs[z]
        BY <1>6, <3>1
      <3> QED BY <1>1, <1>9, <2>4, <3>4, <3>5 DEF ListCovers, Covers
    <2> QED BY <2>5, <2>6
  <1> QED BY <1>6, <1>11, <1>12, <1>13

(* A deletion, when no call is under way.                                   *)
LEMMA HoleDelete ==
  ASSUME KnownInv, HoleInv, tracked, ~gap, MessageEvent, NEW e, e = feed[1], e.type = "MessageDeleteBulk"
  PROVE  ListCovers'
  <1>1. /\ MessageTypes /\ Shrank /\ posts' = posts /\ ListCovers
        /\ msgs' = MessageRemove(msgs, e.ids)
    BY EventTaken DEF KnownInv, HoleInv
  <1>2. PICK r : r = MessageRemove(msgs, e.ids)
    OBVIOUS
  <1>3. /\ r \in Lists
        /\ \A i \in 1..Len(r) : \E j \in 1..Len(msgs) : r[i] = msgs[j]
        /\ \A j \in 1..Len(msgs) : msgs[j].id \notin e.ids => \E i \in 1..Len(r) : r[i] = msgs[j]
    <2>1. msgs \in Lists
      BY <1>1 DEF MessageTypes
    <2>2. Spares(msgs, e.ids, r)
      BY <1>2, <2>1, RemoveSome
    <2> QED BY <2>2 DEF Spares
  <1>4. msgs' = r
    BY <1>1, <1>2
  <1>5. e.ids \cap DOMAIN posts = {}
    <2>1. 1 \in 1..Len(feed)
      BY <1>1 DEF Shrank
    <2> QED BY <2>1 DEF KnownInv, KnownFeed
  <1>6. (\A id : Pends(id) => Pends(id)') /\ (Resets => Resets')
    BY <1>1, PendsShrink
  <1>7. DOMAIN msgs = 1..Len(msgs) /\ DOMAIN r = 1..Len(r) /\ msgs \in Lists
    BY <1>1, <1>3, ListTypes DEF MessageTypes
  <1>8. ASSUME NEW id \in DOMAIN posts, Present(id)
        PROVE  Present(id)'
    <2>1. CASE Holds(msgs, id)
      <3>1. PICK j \in 1..Len(msgs) : msgs[j].id = id
        BY <1>7, <2>1 DEF Holds
      <3>2. PICK i \in 1..Len(r) : r[i] = msgs[j]
        BY <1>3, <1>5, <3>1
      <3>3. Holds(r, id)
        BY <1>7, <3>1, <3>2 DEF Holds
      <3> QED BY <1>4, <3>3 DEF Present
    <2>2. CASE Pends(id)
      BY <1>6, <2>2 DEF Present
    <2> QED BY <1>8, <2>1, <2>2 DEF Present
  <1>9. ASSUME r # <<>>
        PROVE  Covers(Time(r[Len(r)].id))'
    <2>1. Len(r) \in 1..Len(r)
      BY <1>3, <1>9, ListTypes
    <2>2. PICK j \in 1..Len(msgs) : r[Len(r)] = msgs[j]
      BY <1>3, <2>1
    <2>3. /\ Time(msgs[j].id) >= Time(msgs[Len(msgs)].id) /\ Time(msgs[j].id) \in Nat
          /\ Time(msgs[Len(msgs)].id) \in Nat /\ msgs # <<>>
      <3>1. Time(msgs[j].id) >= Time(msgs[Len(msgs)].id)
        BY <1>7, FirstAndLast
      <3>2. Time(msgs[j].id) \in Nat /\ Len(msgs) \in 1..Len(msgs) /\ msgs # <<>>
        BY <1>7, ListTypes
      <3>3. Time(msgs[Len(msgs)].id) \in Nat
        BY <1>7, <3>2, ListTypes
      <3> QED BY <3>1, <3>2, <3>3
    <2>4. \A id \in DOMAIN posts : Time(id) \in Nat
      BY <1>1, PostOf, Times
    <2>5. Resets \/ \A id \in DOMAIN posts : Time(id) > Time(msgs[Len(msgs)].id) => Present(id)
      BY <1>1, <2>3 DEF ListCovers, Covers
    <2>6. ~Resets => \A id \in DOMAIN posts : Time(id) > Time(r[Len(r)].id) => Present(id)'
      BY <1>8, <2>2, <2>3, <2>4, <2>5
    <2>7. Resets' \/ \A id \in DOMAIN posts : Time(id) > Time(r[Len(r)].id) => Present(id)'
      BY <1>6, <2>6
    <2>8. r' = r
      OBVIOUS
    <2> QED BY <1>1, <2>7 DEF Covers
  <1> QED BY <1>4, <1>9 DEF ListCovers

(* An event that changes a message leaves the list's identifiers alone.     *)
LEMMA HoleUpdating ==
  ASSUME KnownInv, HoleInv, tracked, ~gap, MessageEvent, NEW e, e = feed[1], Updating(e)
  PROVE  ListCovers' /\ \A c \in Callers : CallCovers(c)'
  <1>1. /\ MessageTypes /\ Shrank /\ posts' = posts /\ get' = get /\ e \in MessageNews
        /\ ListCovers /\ \A c \in Callers : CallCovers(c)
        /\ msgs' = EventOn(msgs, e)
    BY EventTaken DEF KnownInv, HoleInv
  <1>2. PICK r : r = EventOn(msgs, e)
    OBVIOUS
  <1>3. r \in Lists /\ Len(r) = Len(msgs) /\ \A i \in 1..Len(msgs) : TurnedInto(msgs[i], e, r[i])
    BY <1>1, <1>2, TurnList DEF MessageTypes
  <1>4. msgs' = r /\ \A i \in 1..Len(msgs) : r[i].id = msgs[i].id
    BY <1>1, <1>2, <1>3 DEF TurnedInto
  <1>5. DOMAIN msgs = 1..Len(msgs) /\ DOMAIN r = 1..Len(r) /\ (msgs = <<>> <=> r = <<>>)
        /\ (msgs # <<>> => Len(msgs) \in 1..Len(msgs))
    BY <1>1, <1>3, ListTypes DEF MessageTypes
  <1>6. \A id : Holds(r, id) <=> Holds(msgs, id)
    BY <1>3, <1>4, <1>5 DEF Holds
  <1>7. (\A id : Pends(id) => Pends(id)') /\ (Resets => Resets')
    BY <1>1, PendsShrink DEF Updating
  <1>8. \A id : Present(id) => Present(id)'
    BY <1>4, <1>6, <1>7 DEF Present
  <1>9. \A t : Covers(t) => Covers(t)'
    BY <1>1, <1>7, <1>8 DEF Covers
  <1>10. ListCovers'
    BY <1>1, <1>3, <1>4, <1>5, <1>9 DEF ListCovers
  <1>11. Room(msgs)' <=> Room(msgs)
    BY <1>3, <1>4 DEF Room
  <1>12. \A c \in Callers : CallCovers(c)'
    BY <1>1, <1>9, <1>11 DEF CallCovers
  <1> QED BY <1>10, <1>12

LEMMA HoleEvent ==
  ASSUME KnownInv, HoleInv, MessageEvent
  PROVE  HoleInv'
  <1> SUFFICES ASSUME tracked', ~gap'
               PROVE  /\ DistinctTimes' /\ PendsInOrder' /\ NotPending'
                      /\ ListCovers' /\ \A c \in Callers : CallCovers(c)'
    BY DEF HoleInv
  <1>1. PICK e : e = feed[1]
    OBVIOUS
  <1>2. /\ Shrank /\ e \in MessageNews
        /\ tracked' = tracked /\ posts' = posts /\ latest' = latest /\ get' = get
        /\ gap' = (gap \/ (e.type \in {"Ready", "MessageDeleteBulk"} /\ Calling))
        /\ e.type = "Ready" => msgs' = <<>>
        /\ \/ e.type = "Ready" \/ e.type = "MessageCreate" \/ e.type = "MessageDeleteBulk" \/ Updating(e)
    BY <1>1, EventTaken
  <1>3. MessageTypes /\ latest \subseteq Ids
    BY DEF KnownInv, MessageTypes
  <1>4. tracked /\ ~gap /\ (e.type \in {"Ready", "MessageDeleteBulk"} => ~Calling)
    BY <1>2, <1>3 DEF MessageTypes
  <1>5. DistinctTimes /\ PendsInOrder /\ NotPending
    BY <1>4 DEF HoleInv
  <1>6. /\ \A id : Pends(id)' => Pends(id)
        /\ \A id : Pends(id) => Pends(id)' \/ (e.type = "MessageCreate" /\ e.id = id)
    BY <1>1, <1>2, <1>3, PendsShrink
  <1>7. DistinctTimes'
    BY <1>2, <1>5 DEF DistinctTimes
  <1>8. PendsInOrder'
    <2>1. \A n \in 1..Len(feed') : n + 1 \in 1..Len(feed) /\ feed'[n] = feed[n + 1] /\ 1 < n + 1
      BY <1>2 DEF Shrank
    <2>2. 1 \in 1..Len(feed)
      BY <1>2 DEF Shrank
    <2>3. \A k \in 1..Len(feed) : feed[k].type = "MessageCreate" => Time(feed[k].id) \in Nat
      BY <1>3, Times DEF KnownInv, KnownFeed
    <2>4. \A n \in 1..Len(feed') : feed'[n].type = "MessageCreate" /\ e.type = "MessageCreate" =>
              Time(e.id) < Time(feed'[n].id)
      BY <1>1, <1>5, <2>1, <2>2 DEF PendsInOrder
    <2>5. ASSUME NEW n \in 1..Len(feed'), feed'[n].type = "MessageCreate", NEW id \in latest, Time(id) > Time(feed'[n].id)
          PROVE  Pends(id)'
      <3>1. Pends(id)
        BY <1>5, <2>1, <2>5 DEF PendsInOrder
      <3>2. Time(id) \in Nat /\ Time(feed'[n].id) \in Nat /\ (e.type = "MessageCreate" => Time(e.id) \in Nat)
        BY <1>1, <1>3, <2>1, <2>2, <2>3, <2>5, Times
      <3> QED BY <1>6, <2>4, <2>5, <3>1, <3>2
    <2>6. ASSUME NEW n \in 1..Len(feed'), feed'[n].type = "MessageCreate",
                 NEW k \in 1..Len(feed'), n < k, feed'[k].type = "MessageCreate"
          PROVE  Time(feed'[n].id) < Time(feed'[k].id)
      <3>1. n + 1 < k + 1
        BY <2>6
      <3> QED BY <1>5, <2>1, <2>6, <3>1 DEF PendsInOrder
    <2> QED BY <1>2, <2>5, <2>6 DEF PendsInOrder
  <1>9. NotPending'
    <2>1. \A i \in 1..Len(msgs') : \/ \E j \in 1..Len(msgs) : msgs'[i].id = msgs[j].id
                                   \/ e.type = "MessageCreate" /\ msgs'[i].id = e.id
      BY <1>1, HeldAfter
    <2>2. e.type = "MessageCreate" => ~Pends(e.id)'
      BY <1>1, <1>4, NewMessage
    <2> QED BY <1>2, <1>5, <1>6, <2>1, <2>2 DEF NotPending
  <1>10. ListCovers' /\ \A c \in Callers : CallCovers(c)'
    <2>1. CASE e.type = "Ready"
      BY <1>2, <1>4, <2>1, NobodyCalls DEF ListCovers
    <2>2. CASE e.type = "MessageCreate"
      BY <1>1, <1>4, <2>2, HoleCreate
    <2>3. CASE e.type = "MessageDeleteBulk"
      BY <1>1, <1>2, <1>4, <2>3, NobodyCalls, HoleDelete
    <2>4. CASE Updating(e)
      BY <1>1, <1>4, <2>4, HoleUpdating
    <2> QED BY <1>2, <2>1, <2>2, <2>3, <2>4
  <1> QED BY <1>7, <1>8, <1>9, <1>10

-----------------------------------------------------------------------------
(* The calls.                                                               *)

(* A step of one call that leaves the channel and the list alone.           *)
Moves(c, g) ==
    /\ tracked' = tracked /\ posts' = posts /\ latest' = latest /\ feed' = feed /\ msgs' = msgs
    /\ (gap => gap') /\ gap' \in BOOLEAN
    /\ get' = [get EXCEPT ![c] = g]

LEMMA CallMoves ==
  ASSUME KnownInv, HoleInv, NEW c \in Callers, NEW g \in GetTypes, Moves(c, g),
         \A i \in 1..Len(g.todo) : g.todo[i].id \in latest,
         g.phase \notin {"answered", "storing"} => g.todo = <<>>,
         ~tracked /\ g.phase = "storing" => g.todo = <<>>,
         tracked /\ ~gap' => /\ g.phase = "asked" /\ g.have # <<>> =>
                                    ~Room(msgs) \/ Covers(Time(g.have[Len(g.have)].id) - 1)
                             /\ g.todo # <<>> => ~Room(msgs) \/ Covers(Time(g.todo[1].id))
                             /\ \A i \in 1..(Len(g.todo) - 1) : \A id \in DOMAIN posts :
                                    Time(id) > Time(g.todo[i + 1].id) => Time(id) >= Time(g.todo[i].id)
                             /\ \A i \in 1..Len(g.todo) : ~Pends(g.todo[i].id)
  PROVE  KnownInv' /\ HoleInv'
  <1>1. /\ tracked' = tracked /\ posts' = posts /\ latest' = latest /\ feed' = feed /\ msgs' = msgs
        /\ (gap => gap') /\ gap' \in BOOLEAN /\ get \in [Callers -> GetTypes] /\ gap \in BOOLEAN
    BY DEF Moves, KnownInv, MessageTypes
  <1>2. get' \in [Callers -> GetTypes] /\ get'[c] = g /\ \A d \in Callers : d # c => get'[d] = get[d]
    BY <1>1 DEF Moves
  <1>3. MessageTypes'
    BY <1>1, <1>2 DEF KnownInv, MessageTypes
  <1>4. KnownFeed' /\ KnownMessages' /\ Untracked'
    BY <1>1, <1>2 DEF KnownInv, KnownFeed, KnownMessages, Untracked
  <1>5. ASSUME tracked', ~gap'
        PROVE  /\ DistinctTimes' /\ PendsInOrder' /\ NotPending'
               /\ ListCovers' /\ \A d \in Callers : CallCovers(d)'
    <2>1. /\ tracked /\ ~gap /\ DistinctTimes /\ PendsInOrder /\ NotPending
          /\ ListCovers /\ \A d \in Callers : CallCovers(d)
      BY <1>1, <1>5 DEF HoleInv
    <2>2. (\A id : Pends(id)' <=> Pends(id)) /\ (\A t : Covers(t)' <=> Covers(t)) /\ (Room(msgs)' <=> Room(msgs))
      BY <1>1 DEF Pends, Covers, Present, Resets, Room
    <2>3. DistinctTimes' /\ PendsInOrder' /\ ListCovers'
      BY <1>1, <2>1, <2>2 DEF DistinctTimes, PendsInOrder, ListCovers
    <2>4. NotPending'
      BY <1>1, <1>2, <1>5, <2>1, <2>2 DEF NotPending
    <2>5. CallCovers(c)'
      BY <1>1, <1>2, <1>5, <2>1, <2>2 DEF CallCovers
    <2>6. \A d \in Callers : d # c => CallCovers(d)'
      BY <1>1, <1>2, <2>1, <2>2 DEF CallCovers
    <2> QED BY <2>3, <2>4, <2>5, <2>6
  <1>6. HoleInv'
    BY <1>5 DEF HoleInv
  <1> QED BY <1>3, <1>4, <1>6 DEF KnownInv

(* The record of a call.                                                    *)
Call(phase, limit, have, ask, todo, api) ==
    [phase |-> phase, limit |-> limit, have |-> have, ask |-> ask, todo |-> todo, api |-> api]

LEMMA CallDone ==
  ASSUME NEW phase, NEW limit, NEW api
  PROVE  [NoCall EXCEPT !.phase = phase, !.limit = limit, !.api = api] = Call(phase, limit, <<>>, 0, <<>>, api)
  <1>1. [NoCall EXCEPT !.phase = phase] = Call(phase, 0, <<>>, 0, <<>>, 0)
    BY DEF NoCall, Call
  <1>2. [Call(phase, 0, <<>>, 0, <<>>, 0) EXCEPT !.limit = limit] = Call(phase, limit, <<>>, 0, <<>>, 0)
    BY DEF Call
  <1>3. [Call(phase, limit, <<>>, 0, <<>>, 0) EXCEPT !.api = api] = Call(phase, limit, <<>>, 0, <<>>, api)
    BY DEF Call
  <1> QED BY <1>1, <1>2, <1>3

LEMMA CallAsked ==
  ASSUME NEW phase, NEW limit, NEW have, NEW ask
  PROVE  [NoCall EXCEPT !.phase = phase, !.limit = limit, !.have = have, !.ask = ask]
           = Call(phase, limit, have, ask, <<>>, 0)
  <1>1. [NoCall EXCEPT !.phase = phase] = Call(phase, 0, <<>>, 0, <<>>, 0)
    BY DEF NoCall, Call
  <1>2. [Call(phase, 0, <<>>, 0, <<>>, 0) EXCEPT !.limit = limit] = Call(phase, limit, <<>>, 0, <<>>, 0)
    BY DEF Call
  <1>3. [Call(phase, limit, <<>>, 0, <<>>, 0) EXCEPT !.have = have] = Call(phase, limit, have, 0, <<>>, 0)
    BY DEF Call
  <1>4. [Call(phase, limit, have, 0, <<>>, 0) EXCEPT !.ask = ask] = Call(phase, limit, have, ask, <<>>, 0)
    BY DEF Call
  <1> QED BY <1>1, <1>2, <1>3, <1>4

LEMMA RestTypes ==
  ASSUME NEW phase \in {"idle", "done"}, NEW limit \in Nat, NEW api \in Nat
  PROVE  LET g == Call(phase, limit, <<>>, 0, <<>>, api) IN
         g \in GetTypes /\ g.phase = phase /\ g.todo = <<>>
  <1>1. <<>> \in Lists /\ <<>> \in Seq(CachedTypes) /\ 0 \in Nat
    BY MessagesAssumption DEF Lists, Ordered
  <1>2. phase \in {"idle", "asked", "answered", "storing", "done"}
    OBVIOUS
  <1> QED BY <1>1, <1>2 DEF Call, GetTypes

(* A call that has, or wants, nothing to store.                             *)
LEMMA CallRests ==
  ASSUME KnownInv, HoleInv, NEW c \in Callers, NEW phase \in {"idle", "done"}, NEW limit \in Nat, NEW n \in Nat,
         NEW g, g = Call(phase, limit, <<>>, 0, <<>>, n), Moves(c, g)
  PROVE  KnownInv' /\ HoleInv'
  <1>1. g \in GetTypes /\ g.todo = <<>> /\ g.phase \in {"idle", "done"}
    BY RestTypes
  <1>2. Len(g.todo) = 0 /\ 1..0 = {} /\ 1..(0 - 1) = {}
    BY <1>1
  <1> QED BY <1>1, <1>2, CallMoves

LEMMA ListCall ==
  ASSUME KnownInv, HoleInv, NEW c \in Callers, NEW limit \in Limits, MessagesCall(c, limit)
  PROVE  KnownInv' /\ HoleInv'
  <1>1. PICK have : have = IF tracked THEN msgs ELSE <<>>
    OBVIOUS
  <1>2. PICK fetch : fetch = (IF limit < maxMsgs THEN maxMsgs ELSE limit) - Len(have)
    OBVIOUS
  <1>3. /\ tracked' = tracked /\ posts' = posts /\ latest' = latest /\ feed' = feed /\ msgs' = msgs /\ gap' = gap
        /\ \/ \E n \in {Len(have), limit} : Returns(c, limit, n)
           \/ get' = [get EXCEPT ![c] = [NoCall EXCEPT !.phase = "asked", !.limit = limit, !.have = have, !.ask = fetch]]
    <2>1. IF have # <<>> /\ few THEN Returns(c, limit, Len(have))
          ELSE IF limit > 0 /\ Len(have) >= limit THEN Returns(c, limit, limit)
          ELSE get' = [get EXCEPT ![c] = [NoCall EXCEPT !.phase = "asked", !.limit = limit, !.have = have, !.ask = fetch]]
      BY <1>1, <1>2 DEF MessagesCall
    <2> QED BY <2>1 DEF MessagesCall, sideVars
  <1>4. /\ have \in Lists /\ Len(have) \in Nat /\ Len(have) <= maxMsgs /\ limit \in Nat /\ maxMsgs \in Nat
        /\ gap \in BOOLEAN
    <2>1. msgs \in Lists /\ <<>> \in Lists /\ gap \in BOOLEAN
      BY MessagesAssumption DEF KnownInv, MessageTypes, Lists, Ordered
    <2> QED BY <1>1, <2>1, MessagesAssumption, ListTypes
  <1>5. fetch \in Nat
    BY <1>2, <1>4
  <1>6. CASE \E n \in {Len(have), limit} : Returns(c, limit, n)
    <2>1. PICK n \in Nat : Returns(c, limit, n)
      BY <1>4, <1>6
    <2>2. PICK g : g = Call("done", limit, <<>>, 0, <<>>, n)
      OBVIOUS
    <2>3. Moves(c, g)
      <3>1. g = [NoCall EXCEPT !.phase = "done", !.limit = limit, !.api = n]
        BY <2>2, CallDone
      <3> QED BY <1>3, <1>4, <2>1, <3>1 DEF Moves, Returns
    <2> QED BY <1>4, <2>2, <2>3, CallRests
  <1>7. CASE get' = [get EXCEPT ![c] = [NoCall EXCEPT !.phase = "asked", !.limit = limit, !.have = have, !.ask = fetch]]
    <2>1. PICK g : g = Call("asked", limit, have, fetch, <<>>, 0)
      OBVIOUS
    <2>2. g \in GetTypes /\ g.todo = <<>> /\ g.phase = "asked" /\ g.have = have
      <3>1. <<>> \in Seq(CachedTypes) /\ 0 \in Nat /\ "asked" \in {"idle", "asked", "answered", "storing", "done"}
        OBVIOUS
      <3> QED BY <1>4, <1>5, <2>1, <3>1 DEF Call, GetTypes
    <2>3. Moves(c, g)
      <3>1. g = [NoCall EXCEPT !.phase = "asked", !.limit = limit, !.have = have, !.ask = fetch]
        BY <2>1, CallAsked
      <3> QED BY <1>3, <1>4, <1>7, <3>1 DEF Moves
    <2>4. Len(g.todo) = 0 /\ 1..0 = {} /\ 1..(0 - 1) = {}
      BY <2>2
    <2>5. tracked /\ ~gap' /\ g.have # <<>> => Covers(Time(g.have[Len(g.have)].id) - 1)
      <3> SUFFICES ASSUME tracked, ~gap, msgs # <<>>
                   PROVE  Covers(Time(msgs[Len(msgs)].id) - 1)
        BY <1>1, <1>3, <2>2
      <3>1. /\ MessageTypes /\ msgs \in Lists /\ DistinctTimes /\ ListCovers
            /\ \A i \in 1..Len(msgs) : msgs[i].id \in latest
        BY DEF KnownInv, HoleInv, KnownMessages, MessageTypes
      <3>2. PICK z \in 1..Len(msgs) : z = Len(msgs)
        BY <3>1, ListTypes
      <3>3. Holds(msgs, msgs[z].id) /\ Time(msgs[z].id) \in Nat
        BY <3>1, ListTypes DEF Holds
      <3>4. ASSUME NEW id \in DOMAIN posts, Time(id) > Time(msgs[z].id) - 1, ~(Time(id) > Time(msgs[z].id))
            PROVE  Present(id)
        <4>1. id \in latest /\ Time(id) \in Nat
          BY <3>1, PostOf, Times
        <4>2. Time(id) = Time(msgs[z].id)
          BY <3>3, <3>4, <4>1
        <4>3. id = msgs[z].id
          BY <3>1, <4>1, <4>2 DEF DistinctTimes
        <4> QED BY <3>3, <4>3 DEF Present
      <3> QED BY <3>1, <3>2, <3>4 DEF ListCovers, Covers
    <2> QED BY <2>2, <2>3, <2>4, <2>5, CallMoves
  <1> QED BY <1>3, <1>6, <1>7

LEMMA ListReturn ==
  ASSUME KnownInv, HoleInv, NEW c \in Callers, MessagesReturn(c) \/ Forget(c)
  PROVE  KnownInv' /\ HoleInv'
  <1>1. /\ tracked' = tracked /\ posts' = posts /\ latest' = latest /\ feed' = feed /\ msgs' = msgs /\ gap' = gap
        /\ gap \in BOOLEAN
    BY DEF MessagesReturn, Forget, sideVars, KnownInv, MessageTypes
  <1>2. CASE MessagesReturn(c)
    <2>1. PICK n : n = Cut(Len(get[c].have) + get[c].api, get[c].limit)
      OBVIOUS
    <2>2. n \in Nat /\ get[c].limit \in Nat
      <3>1. Len(get[c].have) \in Nat /\ get[c].api \in Nat /\ get[c].limit \in Nat
        BY GetOf, ListTypes DEF KnownInv
      <3> QED BY <2>1, <3>1 DEF Cut
    <2>3. PICK g : g = Call("done", get[c].limit, <<>>, 0, <<>>, n)
      OBVIOUS
    <2>4. Moves(c, g)
      <3>1. g = [NoCall EXCEPT !.phase = "done", !.limit = get[c].limit, !.api = n]
        BY <2>3, CallDone
      <3> QED BY <1>1, <1>2, <2>1, <3>1 DEF Moves, MessagesReturn, Returns
    <2> QED BY <2>2, <2>3, <2>4, CallRests
  <1>3. CASE Forget(c)
    <2>1. NoCall = Call("idle", 0, <<>>, 0, <<>>, 0)
      BY DEF NoCall, Call
    <2>2. Moves(c, NoCall)
      BY <1>1, <1>3 DEF Moves, Forget
    <2>3. 0 \in Nat /\ "idle" \in {"idle", "done"}
      OBVIOUS
    <2> QED BY <2>1, <2>2, <2>3, CallRests
  <1> QED BY <1>2, <1>3
(* The answer: the latest of what is older than what the call has.          *)
LEMMA TimeOrder == \A a, b \in Ids : a <= b => Time(a) <= Time(b)
  BY MessagesAssumption DEF Ids, Time

LEMMA DescendingPicks ==
  ASSUME NEW ids \in SUBSET Ids, NEW all, all = Descending(ids)
  PROVE  /\ all \in Seq(Ids)
         /\ \A k \in 1..Len(all) : all[k] \in ids
         /\ \A k, l \in 1..Len(all) : k < l => all[k] > all[l]
         /\ \A id \in ids : \E k \in 1..Len(all) : all[k] = id
  <1>1. PICK s : s = [i \in Ids |-> MaxId + 1 - i]
    OBVIOUS
  <1>2. PICK P : P = {i \in Ids : MaxId + 1 - i \in ids}
    OBVIOUS
  <1>3. MaxId \in Nat /\ Ids = 1..MaxId
    BY MessagesAssumption DEF Ids
  <1>4. \A i \in Ids : MaxId + 1 - i \in Ids /\ s[i] = MaxId + 1 - i /\ MaxId + 1 - (MaxId + 1 - i) = i
    BY <1>1, <1>3
  <1>5. s \in Seq(Ids) /\ Len(s) = MaxId /\ P \subseteq 1..Len(s)
    <2>1. s \in [1..MaxId -> Ids]
      BY <1>1, <1>3, <1>4
    <2> QED BY <1>2, <1>3, <2>1
  <1>6. all = Those(s, P)
    BY <1>1, <1>2 DEF Descending
  <1>7. Those(s, P) \in Seq(Ids) /\ PickedOut(Those(s, P), s, P)
    BY <1>5, ThosePicks
  <1>8. PICK g : /\ g \in [1..Len(all) -> P]
                 /\ \A k \in 1..Len(all) : all[k] = s[g[k]]
                 /\ \A k, l \in 1..Len(all) : k < l => g[k] < g[l]
                 /\ \A i \in P : \E k \in 1..Len(all) : g[k] = i
    <2>1. PickedOut(all, s, P)
      BY <1>6, <1>7
    <2> QED BY <2>1, Zenon DEF PickedOut
  <1>9. \A k \in 1..Len(all) : g[k] \in P /\ g[k] \in Ids /\ all[k] = MaxId + 1 - g[k]
    BY <1>2, <1>4, <1>8
  <1>10. \A k \in 1..Len(all) : all[k] \in ids
    BY <1>2, <1>9
  <1>11. \A k, l \in 1..Len(all) : k < l => all[k] > all[l]
    BY <1>3, <1>8, <1>9
  <1>12. ASSUME NEW id \in ids
         PROVE  \E k \in 1..Len(all) : all[k] = id
    <2>1. MaxId + 1 - id \in P
      BY <1>2, <1>4
    <2>2. PICK k \in 1..Len(all) : g[k] = MaxId + 1 - id
      BY <1>8, <2>1
    <2> QED BY <1>4, <1>9, <2>2
  <1> QED BY <1>6, <1>7, <1>10, <1>11, <1>12

Latest(ids, ask) ==
    LET all == Descending(ids) IN IF ask = 0 \/ Len(all) < ask THEN all ELSE SubSeq(all, 1, ask)
LatestOf(some, ids) ==
    /\ some \in Seq(Ids) /\ Len(some) \in Nat /\ DOMAIN some = 1..Len(some)
    /\ \A k \in 1..Len(some) : some[k] \in ids
    /\ \A id \in ids : some # <<>> => id <= some[1]
    /\ \A k \in 1..(Len(some) - 1) : \A id \in ids : id > some[k + 1] => id >= some[k]

LEMMA AnswerIs ==
  ASSUME NEW ids \in SUBSET Ids, NEW ask \in Nat
  PROVE  LatestOf(Latest(ids, ask), ids)
  <1>a. PICK all : all = Descending(ids)
    OBVIOUS
  <1>b. PICK some : some = IF ask = 0 \/ Len(all) < ask THEN all ELSE SubSeq(all, 1, ask)
    OBVIOUS
  <1>1. /\ all \in Seq(Ids)
        /\ \A k \in 1..Len(all) : all[k] \in ids
        /\ \A k, l \in 1..Len(all) : k < l => all[k] > all[l]
        /\ \A id \in ids : \E k \in 1..Len(all) : all[k] = id
    BY <1>a, DescendingPicks
  <1>2. /\ some \in Seq(Ids) /\ Len(some) \in Nat /\ Len(all) \in Nat /\ Len(some) <= Len(all)
        /\ \A k \in 1..Len(some) : some[k] = all[k]
    <2>1. CASE ask = 0 \/ Len(all) < ask
      BY <1>1, <1>b, <2>1
    <2>2. CASE ~(ask = 0 \/ Len(all) < ask)
      <3>1. some = SubSeq(all, 1, ask) /\ ask \in 1..Len(all)
        BY <1>1, <1>b, <2>2
      <3> QED BY <1>1, <3>1
    <2> QED BY <2>1, <2>2
  <1>3. DOMAIN some = 1..Len(some) /\ (some # <<>> => 1 \in 1..Len(some))
    BY <1>2
  <1>4. \A k \in 1..Len(some) : k \in 1..Len(all) /\ some[k] \in ids
    BY <1>1, <1>2
  <1>5. \A k \in 1..Len(all) : all[k] \in Nat
    BY <1>1, Times
  <1>6. ASSUME NEW id \in ids, some # <<>>
        PROVE  id <= some[1]
    <2>1. PICK k \in 1..Len(all) : all[k] = id
      BY <1>1
    <2>2. k = 1 \/ 1 < k
      OBVIOUS
    <2>3. some[1] = all[1] /\ 1 \in 1..Len(all)
      BY <1>2, <1>3, <1>4, <1>6
    <2> QED BY <1>1, <1>5, <2>1, <2>2, <2>3
  <1>7. ASSUME NEW k \in 1..(Len(some) - 1), NEW id \in ids, id > some[k + 1]
        PROVE  id >= some[k]
    <2>1. PICK n \in 1..Len(all) : all[n] = id
      BY <1>1
    <2>2. /\ k \in 1..Len(all) /\ k + 1 \in 1..Len(all) /\ k \in 1..Len(some) /\ k + 1 \in 1..Len(some)
      BY <1>2
    <2>3. some[k] = all[k] /\ some[k + 1] = all[k + 1]
      BY <1>2, <2>2
    <2>4. ~(k + 1 < n) /\ n # k + 1
      BY <1>1, <1>5, <1>7, <2>1, <2>2, <2>3
    <2>5. n = k \/ n < k
      BY <2>2, <2>4
    <2> QED BY <1>1, <1>5, <2>1, <2>2, <2>3, <2>5
  <1>8. LatestOf(some, ids)
    BY <1>2, <1>3, <1>4, <1>6, <1>7 DEF LatestOf
  <1> QED BY <1>a, <1>b, <1>8 DEF Latest
(* What an answer holds follows upon what the call has.                     *)
LEMMA AnswerCovers ==
  ASSUME KnownInv, HoleInv, tracked, ~gap, NEW c \in Callers, get[c].phase = "asked",
         NEW some \in Seq(Ids), \A k \in 1..Len(some) : some[k] \in Older(get[c].have),
         \A id \in Older(get[c].have) : some # <<>> => id <= some[1],
         \A k \in 1..(Len(some) - 1) : \A id \in Older(get[c].have) : id > some[k + 1] => id >= some[k]
  PROVE  /\ some # <<>> => ~Room(msgs) \/ Covers(Time(some[1]))
         /\ \A k \in 1..(Len(some) - 1) : \A id \in DOMAIN posts :
                Time(id) > Time(some[k + 1]) => Time(id) >= Time(some[k])
  <1> DEFINE have == get[c].have
             old == have[Len(have)].id
  <1>1. /\ MessageTypes /\ CallCovers(c) /\ have \in Lists
    BY GetOf DEF KnownInv, HoleInv
  <1>2. DOMAIN posts \subseteq Ids
    BY <1>1 DEF MessageTypes
  <1>3. have # <<>> => old \in Ids
    BY <1>1, ListTypes
  <1>4. \A id \in DOMAIN posts : id \in Older(have) \/ (have # <<>> /\ id >= old)
    BY <1>2, <1>3, Times DEF Older
  <1>5. \A k \in 1..Len(some) : some[k] \in Ids /\ (have # <<>> => some[k] < old)
    BY DEF Older
  <1>6. \A id \in Ids : id \in Nat /\ Time(id) \in Nat
    BY Times
  <1> HIDE DEF have, old
  <1>7. Len(some) \in Nat /\ (some # <<>> => 1 \in 1..Len(some))
    OBVIOUS
  <1>8. ASSUME some # <<>>
        PROVE  ~Room(msgs) \/ Covers(Time(some[1]))
    <2> SUFFICES ASSUME Room(msgs), ~Resets, NEW id \in DOMAIN posts, Time(id) > Time(some[1])
                 PROVE  Present(id)
      BY DEF Covers
    <2>1. some[1] \in Ids /\ id \in Ids
      BY <1>2, <1>5, <1>7, <1>8
    <2>2. id \notin Older(have)
      <3>1. ~(id <= some[1])
        BY <1>6, <2>1, TimeOrder
      <3> QED BY <1>8, <3>1 DEF have
    <2>3. have # <<>> /\ id >= old
      BY <1>4, <2>2
    <2>4. Covers(Time(old) - 1)
      BY <1>1, <2>3 DEF CallCovers, have, old
    <2>5. Time(id) >= Time(old) /\ Time(old) \in Nat /\ Time(id) \in Nat
      BY <1>3, <1>6, <2>1, <2>3, TimeOrder
    <2> QED BY <2>4, <2>5 DEF Covers
  <1>9. ASSUME NEW k \in 1..(Len(some) - 1), NEW id \in DOMAIN posts, Time(id) > Time(some[k + 1])
        PROVE  Time(id) >= Time(some[k])
    <2>1. k \in 1..Len(some) /\ k + 1 \in 1..Len(some)
      BY <1>7
    <2>2. some[k] \in Ids /\ some[k + 1] \in Ids /\ id \in Ids
      BY <1>2, <1>5, <2>1
    <2>3. ~(id <= some[k + 1])
      BY <1>6, <1>9, <2>2, TimeOrder
    <2>4. id >= some[k]
      <3>1. CASE id \in Older(have)
        BY <1>6, <2>2, <2>3, <3>1 DEF have
      <3>2. CASE id \notin Older(have)
        BY <1>3, <1>4, <1>5, <1>6, <2>1, <2>2, <3>2
      <3> QED BY <3>1, <3>2
    <2> QED BY <2>2, <2>4, TimeOrder, <1>6
  <1> QED BY <1>8, <1>9

LEMMA ListAnswer ==
  ASSUME KnownInv, HoleInv, NEW c \in Callers, MessagesAnswer(c)
  PROVE  KnownInv' /\ HoleInv'
  <1>1. /\ tracked' = tracked /\ posts' = posts /\ latest' = latest /\ feed' = feed /\ msgs' = msgs
        /\ gap \in BOOLEAN /\ get[c].phase = "asked" /\ MessageTypes
    BY DEF MessagesAnswer, sideVars, KnownInv, MessageTypes
  <1>2. PICK ids : ids = Older(get[c].have)
    OBVIOUS
  <1>4. PICK some : some = Latest(ids, get[c].ask)
    OBVIOUS
  <1>5. \/ /\ get' = [get EXCEPT ![c].phase = "answered", ![c].api = Len(some),
                                 ![c].todo = [i \in DOMAIN some |-> Seen(some[i], posts[some[i]])]]
           /\ gap' = (gap \/ Behind({"MessageCreate"}) \cap ToSet(some) # {})
        \/ get' = [get EXCEPT ![c] = NoCall] /\ gap' = gap
    BY <1>2, <1>4 DEF MessagesAnswer, Latest
  <1>6. CASE get' = [get EXCEPT ![c] = NoCall] /\ gap' = gap
    <2>1. NoCall = Call("idle", 0, <<>>, 0, <<>>, 0)
      BY DEF NoCall, Call
    <2>2. Moves(c, NoCall)
      BY <1>1, <1>6 DEF Moves
    <2>3. 0 \in Nat /\ "idle" \in {"idle", "done"}
      OBVIOUS
    <2> QED BY <2>1, <2>2, <2>3, CallRests
  <1>7. CASE /\ get' = [get EXCEPT ![c].phase = "answered", ![c].api = Len(some),
                                   ![c].todo = [i \in DOMAIN some |-> Seen(some[i], posts[some[i]])]]
             /\ gap' = (gap \/ Behind({"MessageCreate"}) \cap ToSet(some) # {})
    <2>1. ids \in SUBSET Ids /\ ids \subseteq DOMAIN posts /\ DOMAIN posts \subseteq latest
      BY <1>1, <1>2 DEF Older, MessageTypes
    <2>2. get[c].ask \in Nat /\ get[c] \in GetTypes
      BY <1>1, GetOf
    <2>3. /\ some \in Seq(Ids) /\ Len(some) \in Nat /\ DOMAIN some = 1..Len(some)
          /\ \A k \in 1..Len(some) : some[k] \in ids
          /\ \A id \in ids : some # <<>> => id <= some[1]
          /\ \A k \in 1..(Len(some) - 1) : \A id \in ids : id > some[k + 1] => id >= some[k]
      BY <1>4, <2>1, <2>2, AnswerIs DEF LatestOf
    <2>4. PICK todo : todo = [i \in 1..Len(some) |-> Seen(some[i], posts[some[i]])]
      OBVIOUS
    <2>5. /\ todo \in Seq(CachedTypes) /\ Len(todo) = Len(some) /\ (todo # <<>> <=> some # <<>>)
          /\ \A i \in 1..Len(some) : todo[i].id = some[i]
      <3>1. \A i \in 1..Len(some) : todo[i] \in CachedTypes /\ todo[i].id = some[i]
        BY <1>1, <2>1, <2>3, <2>4, PostOf, SeenTypes
      <3>2. todo \in [1..Len(some) -> CachedTypes]
        BY <2>4, <3>1
      <3>3. todo \in Seq(CachedTypes) /\ Len(todo) = Len(some)
        BY <2>3, <3>2
      <3> QED BY <2>3, <3>1, <3>3
    <2>6. PICK g : g = [get[c] EXCEPT !.phase = "answered", !.api = Len(some), !.todo = todo]
      OBVIOUS
    <2>7. g \in GetTypes /\ g.phase = "answered" /\ g.todo = todo
      <3>1. PICK h : h = [get[c] EXCEPT !.phase = "answered"]
        OBVIOUS
      <3>2. h \in GetTypes /\ h.phase = "answered"
        BY <2>2, <3>1 DEF GetTypes
      <3>3. PICK k : k = [h EXCEPT !.api = Len(some)]
        OBVIOUS
      <3>4. k \in GetTypes /\ k.phase = "answered"
        BY <2>3, <3>2, <3>3 DEF GetTypes
      <3>5. g = [k EXCEPT !.todo = todo]
        BY <2>6, <3>1, <3>3
      <3> QED BY <2>5, <3>4, <3>5 DEF GetTypes
    <2>8. Moves(c, g)
      <3>1. get' = [get EXCEPT ![c] = g]
        BY <1>7, <2>3, <2>4, <2>6
      <3>2. (gap => gap') /\ gap' \in BOOLEAN
        BY <1>1, <1>7
      <3> QED BY <1>1, <3>1, <3>2 DEF Moves
    <2>9. \A i \in 1..Len(g.todo) : g.todo[i].id \in latest
      BY <2>1, <2>3, <2>5, <2>7
    <2>10. ASSUME tracked, ~gap'
           PROVE  /\ g.todo # <<>> => ~Room(msgs) \/ Covers(Time(g.todo[1].id))
                  /\ \A i \in 1..(Len(g.todo) - 1) : \A id \in DOMAIN posts :
                         Time(id) > Time(g.todo[i + 1].id) => Time(id) >= Time(g.todo[i].id)
                  /\ \A i \in 1..Len(g.todo) : ~Pends(g.todo[i].id)
      <3>1. ~gap /\ Behind({"MessageCreate"}) \cap ToSet(some) = {}
        BY <1>7, <2>10
      <3>2. /\ some # <<>> => ~Room(msgs) \/ Covers(Time(some[1]))
            /\ \A k \in 1..(Len(some) - 1) : \A id \in DOMAIN posts :
                   Time(id) > Time(some[k + 1]) => Time(id) >= Time(some[k])
        BY <1>1, <1>2, <2>3, <2>10, <3>1, AnswerCovers
      <3>3. \A i \in 1..Len(some) : ~Pends(some[i])
        <4>1. \A i \in 1..Len(some) : some[i] \in ToSet(some) /\ some[i] \in Ids
          BY <2>3 DEF ToSet
        <4>2. DOMAIN feed = 1..Len(feed)
          BY <1>1 DEF MessageTypes
        <4>3. \A id \in Ids : Pends(id) => id \in Behind({"MessageCreate"})
          BY <4>2 DEF Pends, Behind
        <4> QED BY <3>1, <4>1, <4>3
      <3>4. some # <<>> => todo[1].id = some[1]
        BY <2>3, <2>5
      <3>5. \A i \in 1..(Len(some) - 1) : todo[i].id = some[i] /\ todo[i + 1].id = some[i + 1]
        BY <2>3, <2>5
      <3> QED BY <2>5, <2>7, <3>2, <3>3, <3>4, <3>5
    <2> QED BY <2>7, <2>8, <2>9, <2>10, CallMoves
  <1> QED BY <1>5, <1>6, <1>7
(* The first of the answer, as many as there is room for.                   *)
LEMMA ListStore ==
  ASSUME KnownInv, HoleInv, NEW c \in Callers, MessagesStore(c)
  PROVE  KnownInv' /\ HoleInv'
  <1>1. /\ tracked' = tracked /\ posts' = posts /\ latest' = latest /\ feed' = feed /\ msgs' = msgs /\ gap' = gap
        /\ gap \in BOOLEAN /\ tracked \in BOOLEAN /\ get[c].phase = "answered" /\ MessageTypes
    BY DEF MessagesStore, sideVars, KnownInv, MessageTypes
  <1>2. /\ get[c] \in GetTypes /\ get[c].todo \in Seq(CachedTypes) /\ Len(get[c].todo) \in Nat
        /\ Len(get[c].have) \in Nat /\ Len(get[c].have) <= maxMsgs /\ maxMsgs \in Nat
        /\ (get[c].todo = <<>> <=> Len(get[c].todo) = 0)
    BY <1>1, GetOf, ListTypes
  <1>3. PICK room : room = IF tracked THEN maxMsgs - Len(get[c].have) ELSE 0
    OBVIOUS
  <1>4. PICK todo : todo = IF Len(get[c].todo) < room THEN get[c].todo ELSE SubSeq(get[c].todo, 1, room)
    OBVIOUS
  <1>5. room \in Nat /\ (~tracked => room = 0)
    BY <1>2, <1>3
  <1>6. /\ todo \in Seq(CachedTypes) /\ Len(todo) \in Nat /\ Len(todo) <= Len(get[c].todo) /\ Len(todo) <= room
        /\ \A i \in 1..Len(todo) : todo[i] = get[c].todo[i]
    <2>1. CASE Len(get[c].todo) < room
      BY <1>2, <1>4, <1>5, <2>1
    <2>2. CASE ~(Len(get[c].todo) < room)
      <3>1. todo = SubSeq(get[c].todo, 1, room) /\ room \in 0..Len(get[c].todo)
        BY <1>2, <1>4, <1>5, <2>2
      <3> QED BY <1>2, <1>5, <3>1
    <2> QED BY <2>1, <2>2
  <1>7. todo # <<>> => 1 \in 1..Len(todo) /\ get[c].todo # <<>>
    BY <1>2, <1>6
  <1>8. PICK h : h = [get[c] EXCEPT !.phase = "storing"]
    OBVIOUS
  <1>9. h \in GetTypes /\ h.phase = "storing"
    BY <1>2, <1>8 DEF GetTypes
  <1>10. PICK g : g = [h EXCEPT !.todo = todo]
    OBVIOUS
  <1>11. g \in GetTypes /\ g.phase = "storing" /\ g.todo = todo
    BY <1>6, <1>9, <1>10 DEF GetTypes
  <1>12. Moves(c, g)
    <2>1. get' = [get EXCEPT ![c].phase = "storing", ![c].todo = todo]
      BY <1>3, <1>4 DEF MessagesStore
    <2>2. get' = [get EXCEPT ![c] = g]
      BY <1>8, <1>10, <2>1
    <2>3. (gap => gap') /\ gap' \in BOOLEAN
      BY <1>1
    <2> QED BY <1>1, <2>2, <2>3 DEF Moves
  <1>13. \A i \in 1..Len(todo) : i \in 1..Len(get[c].todo) /\ todo[i].id = get[c].todo[i].id /\ todo[i].id \in latest
    BY <1>2, <1>6 DEF KnownInv, KnownMessages
  <1>14. ~tracked => todo = <<>>
    BY <1>5, <1>6
  <1>15. ASSUME tracked, ~gap'
         PROVE  /\ todo # <<>> => ~Room(msgs) \/ Covers(Time(todo[1].id))
                /\ \A i \in 1..(Len(todo) - 1) : \A id \in DOMAIN posts :
                       Time(id) > Time(todo[i + 1].id) => Time(id) >= Time(todo[i].id)
                /\ \A i \in 1..Len(todo) : ~Pends(todo[i].id)
    <2>1. CallCovers(c) /\ NotPending
      BY <1>1, <1>15 DEF HoleInv
    <2>2. todo # <<>> => ~Room(msgs) \/ Covers(Time(todo[1].id))
      BY <1>7, <1>13, <2>1 DEF CallCovers
    <2>3. \A i \in 1..(Len(todo) - 1) : /\ i \in 1..Len(todo) /\ i + 1 \in 1..Len(todo)
                                        /\ i \in 1..(Len(get[c].todo) - 1)
      BY <1>2, <1>6
    <2>4. \A i \in 1..(Len(todo) - 1) : \A id \in DOMAIN posts :
              Time(id) > Time(todo[i + 1].id) => Time(id) >= Time(todo[i].id)
      BY <1>13, <2>1, <2>3 DEF CallCovers
    <2>5. \A i \in 1..Len(todo) : ~Pends(todo[i].id)
      BY <1>13, <2>1 DEF NotPending
    <2> QED BY <2>2, <2>4, <2>5
  <1> QED BY <1>11, <1>12, <1>13, <1>14, <1>15, CallMoves

(* One of them is stored.                                                   *)
LEMMA StoreTaken ==
  ASSUME KnownInv, NEW c \in Callers, StoreOne(c)
  PROVE  LET m == get[c].todo[1]
             g == [get[c] EXCEPT !.todo = Tail(get[c].todo)] IN
         /\ tracked' = tracked /\ posts' = posts /\ latest' = latest /\ feed' = feed /\ gap' = gap
         /\ tracked /\ m \in CachedTypes /\ m.id \in latest /\ get[c].phase = "storing"
         /\ msgs' = AddMessage(msgs, m) /\ get' = [get EXCEPT ![c] = g] /\ get[c].todo # <<>>
         /\ g \in GetTypes /\ g.phase = "storing" /\ g.todo \in Seq(CachedTypes)
         /\ Len(g.todo) \in Nat /\ Len(get[c].todo) = Len(g.todo) + 1
         /\ \A i \in 1..Len(g.todo) : i + 1 \in 1..Len(get[c].todo) /\ g.todo[i] = get[c].todo[i + 1]
  <1>1. /\ tracked' = tracked /\ posts' = posts /\ latest' = latest /\ feed' = feed /\ gap' = gap
        /\ get[c].phase = "storing" /\ get[c].todo # <<>> /\ msgs' = AddMessage(msgs, Head(get[c].todo))
        /\ MessageTypes /\ tracked \in BOOLEAN
    BY DEF StoreOne, sideVars, KnownInv, MessageTypes
  <1>2. get[c] \in GetTypes /\ get[c].todo \in Seq(CachedTypes)
    BY <1>1, GetOf
  <1>3. PICK todo : todo = Tail(get[c].todo)
    OBVIOUS
  <1>4. /\ todo \in Seq(CachedTypes) /\ Len(todo) \in Nat /\ Len(get[c].todo) = Len(todo) + 1
        /\ Head(get[c].todo) = get[c].todo[1] /\ get[c].todo[1] \in CachedTypes /\ 1 \in 1..Len(get[c].todo)
    BY <1>1, <1>2, <1>3
  <1>5. \A i \in 1..Len(todo) : i + 1 \in 1..Len(get[c].todo) /\ todo[i] = get[c].todo[i + 1]
    BY <1>1, <1>2, <1>3, <1>4
  <1>6. PICK g : g = [get[c] EXCEPT !.todo = todo]
    OBVIOUS
  <1>7. g \in GetTypes /\ g.phase = "storing" /\ g.todo = todo
    BY <1>1, <1>2, <1>4, <1>6 DEF GetTypes
  <1>8. get' = [get EXCEPT ![c] = g]
    BY <1>3, <1>6 DEF StoreOne
  <1>9. tracked /\ get[c].todo[1].id \in latest
    BY <1>1, <1>4 DEF KnownInv, Untracked, KnownMessages
  <1> QED BY <1>1, <1>3, <1>4, <1>5, <1>6, <1>7, <1>8, <1>9

LEMMA StoreKnown ==
  ASSUME KnownInv, NEW c \in Callers, StoreOne(c)
  PROVE  KnownInv'
  <1>1. PICK m : m = get[c].todo[1]
    OBVIOUS
  <1>2. PICK g : g = [get[c] EXCEPT !.todo = Tail(get[c].todo)]
    OBVIOUS
  <1>3. /\ tracked' = tracked /\ posts' = posts /\ latest' = latest /\ feed' = feed /\ gap' = gap
        /\ tracked /\ m \in CachedTypes /\ m.id \in latest /\ get[c].phase = "storing"
        /\ msgs' = AddMessage(msgs, m) /\ get' = [get EXCEPT ![c] = g]
        /\ g \in GetTypes /\ g.phase = "storing"
        /\ \A i \in 1..Len(g.todo) : i + 1 \in 1..Len(get[c].todo) /\ g.todo[i] = get[c].todo[i + 1]
    BY <1>1, <1>2, StoreTaken
  <1>4. MessageTypes /\ KnownFeed /\ KnownMessages
    BY DEF KnownInv
  <1>5. get' \in [Callers -> GetTypes] /\ get'[c] = g /\ \A d \in Callers : d # c => get'[d] = get[d]
    BY <1>3, <1>4 DEF MessageTypes
  <1>6. PICK r : r = AddMessage(msgs, m)
    OBVIOUS
  <1>7. msgs' = r /\ r \in Lists /\ msgs \in Lists /\ \A id : Holds(r, id) => Holds(msgs, id) \/ id = m.id
    BY <1>3, <1>4, <1>6, AddOrdered, AddKeeps DEF MessageTypes
  <1>8. MessageTypes'
    BY <1>3, <1>4, <1>5, <1>7 DEF MessageTypes
  <1>9. KnownMessages'
    <2>1. DOMAIN msgs = 1..Len(msgs) /\ DOMAIN r = 1..Len(r)
      BY <1>7, ListTypes
    <2>2. \A i \in 1..Len(msgs') : msgs'[i].id \in latest'
      BY <1>3, <1>4, <1>7, <2>1 DEF Holds, KnownMessages
    <2>3. KnownMessages
      BY <1>4
    <2>4. \A d \in Callers : /\ \A i \in 1..Len(get'[d].todo) : get'[d].todo[i].id \in latest
                             /\ get'[d].phase \notin {"answered", "storing"} => get'[d].todo = <<>>
      BY <1>3, <1>5, <2>3 DEF KnownMessages
    <2> QED BY <1>3, <2>2, <2>4 DEF KnownMessages
  <1>10. KnownFeed' /\ Untracked'
    BY <1>3, <1>4 DEF KnownFeed, Untracked
  <1> QED BY <1>8, <1>9, <1>10 DEF KnownInv

LEMMA ListStoreOne ==
  ASSUME KnownInv, HoleInv, NEW c \in Callers, StoreOne(c)
  PROVE  HoleInv'
  <1> SUFFICES ASSUME tracked', ~gap'
               PROVE  /\ DistinctTimes' /\ PendsInOrder' /\ NotPending'
                      /\ ListCovers' /\ \A d \in Callers : CallCovers(d)'
    BY DEF HoleInv
  <1>1. PICK m : m = get[c].todo[1]
    OBVIOUS
  <1>2. PICK g : g = [get[c] EXCEPT !.todo = Tail(get[c].todo)]
    OBVIOUS
  <1>3. /\ tracked' = tracked /\ posts' = posts /\ latest' = latest /\ feed' = feed /\ gap' = gap
        /\ tracked /\ m \in CachedTypes /\ m.id \in latest /\ get[c].phase = "storing"
        /\ msgs' = AddMessage(msgs, m) /\ get' = [get EXCEPT ![c] = g] /\ get[c].todo # <<>>
        /\ g \in GetTypes /\ g.phase = "storing" /\ g.todo \in Seq(CachedTypes)
        /\ Len(g.todo) \in Nat /\ Len(get[c].todo) = Len(g.todo) + 1
        /\ \A i \in 1..Len(g.todo) : i + 1 \in 1..Len(get[c].todo) /\ g.todo[i] = get[c].todo[i + 1]
    BY <1>1, <1>2, StoreTaken
  <1>4. MessageTypes /\ KnownMessages /\ latest \subseteq Ids
    BY DEF KnownInv, MessageTypes
  <1>5. get'[c] = g /\ \A d \in Callers : d # c => get'[d] = get[d]
    BY <1>3, <1>4 DEF MessageTypes
  <1>6. /\ DistinctTimes /\ PendsInOrder /\ NotPending /\ ListCovers /\ \A d \in Callers : CallCovers(d)
    BY <1>3 DEF HoleInv
  <1>7. (\A id : Pends(id)' <=> Pends(id)) /\ (Resets' <=> Resets)
    BY <1>3 DEF Pends, Resets
  <1>8. PICK r : r = AddMessage(msgs, m)
    OBVIOUS
  <1>9. /\ r \in Lists /\ msgs \in Lists /\ (AtFront(msgs, m, r) \/ AtBack(msgs, m, r) \/ LeftOut(msgs, m, r))
        /\ DOMAIN msgs = 1..Len(msgs) /\ DOMAIN r = 1..Len(r) /\ msgs' = r
    BY <1>3, <1>4, <1>8, AddCases, AddOrdered, ListTypes DEF MessageTypes
  <1>10. /\ Room(msgs) => \A id : Holds(msgs, id) => Holds(r, id)
         /\ ~Room(msgs) => ~Room(r)
         /\ LeftOut(msgs, m, r) \/ Holds(r, m.id)
         /\ \A id : Holds(r, id) => Holds(msgs, id) \/ id = m.id
    BY <1>3, <1>8, <1>9, AddKeeps
  <1>11. /\ \A id \in Ids : Time(id) \in Nat
         /\ \A id \in DOMAIN posts : id \in latest /\ id \in Ids
         /\ 1 \in 1..Len(get[c].todo) /\ m.id \in Ids
    BY <1>3, <1>4, Times DEF MessageTypes
  <1>12. Room(msgs)' <=> Room(r)
    BY <1>9 DEF Room
  <1>13. \A t : Room(msgs) /\ Covers(t) => Covers(t)'
    <2>1. Room(msgs) => \A id : Present(id) => Present(id)'
      BY <1>7, <1>9, <1>10 DEF Present
    <2> QED BY <1>3, <1>7, <2>1 DEF Covers
  <1>14. DistinctTimes' /\ PendsInOrder'
    BY <1>3, <1>6, <1>7 DEF DistinctTimes, PendsInOrder
  <1>15. NotPending'
    <2>1. ~Pends(m.id) /\ \A id : Holds(msgs, id) => ~Pends(id)
      BY <1>1, <1>6, <1>9, <1>11 DEF NotPending, Holds
    <2>2. \A i \in 1..Len(r) : ~Pends(r[i].id)
      BY <1>9, <1>10, <2>1 DEF Holds
    <2>3. \A i \in 1..Len(g.todo) : ~Pends(g.todo[i].id)
      BY <1>3, <1>6 DEF NotPending
    <2> QED BY <1>5, <1>6, <1>7, <1>9, <2>2, <2>3 DEF NotPending
  <1>16. ~Room(msgs) \/ Covers(Time(m.id))
    BY <1>1, <1>3, <1>6 DEF CallCovers
  <1>17. ListCovers'
    <2> SUFFICES ASSUME r # <<>>
                 PROVE  Covers(Time(r[Len(r)].id))'
      BY <1>9 DEF ListCovers
    <2>1. CASE LeftOut(msgs, m, r)
      <3>1. r = msgs
        BY <2>1 DEF LeftOut
      <3>2. Covers(Time(r[Len(r)].id))
        BY <1>6, <3>1 DEF ListCovers
      <3> QED BY <1>3, <1>7, <1>9, <3>1, <3>2 DEF Covers, Present
    <2>2. CASE AtBack(msgs, m, r)
      <3>1. r[Len(r)] = m /\ Room(msgs)
        BY <1>9, <2>2 DEF AtBack, Lists
      <3> QED BY <1>13, <1>16, <3>1
    <2>3. CASE AtFront(msgs, m, r) /\ Len(r) # 1
      <3>1. PICK z \in 1..Len(msgs) :
                /\ r[Len(r)] = msgs[z]
                /\ \A id : Holds(msgs, id) /\ Time(id) > Time(msgs[z].id) => Holds(r, id)
        <4>1. msgs \in Lists /\ m \in CachedTypes /\ r = AddMessage(msgs, m)
          BY <1>3, <1>8, <1>9
        <4> QED BY <2>3, <4>1, AddKeeps
      <3>2. /\ Time(msgs[z].id) >= Time(msgs[Len(msgs)].id) /\ msgs # <<>>
            /\ Time(msgs[z].id) \in Nat /\ Time(msgs[Len(msgs)].id) \in Nat
        <4>1. Time(msgs[z].id) >= Time(msgs[Len(msgs)].id)
          BY <1>9, FirstAndLast
        <4>2. Time(msgs[z].id) \in Nat /\ Len(msgs) \in 1..Len(msgs) /\ msgs # <<>>
          BY <1>9, ListTypes
        <4>3. Time(msgs[Len(msgs)].id) \in Nat
          BY <1>9, <4>2, ListTypes
        <4> QED BY <4>1, <4>2, <4>3
      <3>3. ASSUME ~Resets, NEW id \in DOMAIN posts, Time(id) > Time(msgs[z].id)
            PROVE  Present(id)'
        <4>1. Time(id) > Time(msgs[Len(msgs)].id)
          BY <1>11, <3>2, <3>3
        <4>2. Present(id)
          BY <1>6, <3>2, <3>3, <4>1 DEF ListCovers, Covers
        <4> QED BY <1>7, <1>9, <3>1, <3>3, <4>2 DEF Present
      <3> QED BY <1>3, <1>7, <3>1, <3>3 DEF Covers
    <2>4. CASE AtFront(msgs, m, r) /\ Len(r) = 1
      <3>1. r[Len(r)] = m
        BY <2>4 DEF AtFront
      <3>2. CASE Room(msgs)
        BY <1>13, <1>16, <3>1, <3>2
      <3>3. CASE ~Room(msgs)
        <4>1. Len(msgs) = 1 /\ msgs # <<>>
          <5>1. Len(r) = Len(msgs)
            BY <2>4, <3>3 DEF AtFront
          <5> QED BY <1>9, <2>4, <5>1, ListTypes
        <4>2. Time(m.id) >= Time(msgs[1].id) /\ Time(msgs[1].id) \in Nat /\ msgs[1].id \in Ids
          BY <1>9, <2>4, <4>1, ListTypes DEF AtFront
        <4>3. ASSUME ~Resets, NEW id \in DOMAIN posts, Time(id) > Time(m.id)
              PROVE  Present(id)'
          <5>1. Time(id) > Time(msgs[1].id)
            BY <1>11, <4>2, <4>3
          <5>2. Present(id)
            BY <1>6, <4>1, <4>3, <5>1 DEF ListCovers, Covers
          <5>3. ~Holds(msgs, id)
            BY <1>9, <4>1, <4>2, <5>1 DEF Holds
          <5> QED BY <1>7, <5>2, <5>3 DEF Present
        <4> QED BY <1>3, <1>7, <3>1, <4>3 DEF Covers
      <3> QED BY <3>2, <3>3
    <2> QED BY <1>9, <2>1, <2>2, <2>3, <2>4
  <1>18. \A d \in Callers : d # c => CallCovers(d)'
    BY <1>3, <1>5, <1>6, <1>10, <1>12, <1>13 DEF CallCovers
  <1>19. CallCovers(c)'
    <2>1. \A i \in 1..(Len(g.todo) - 1) : \A id \in DOMAIN posts :
              Time(id) > Time(g.todo[i + 1].id) => Time(id) >= Time(g.todo[i].id)
      <3> TAKE i \in 1..(Len(g.todo) - 1)
      <3>1. /\ i \in 1..Len(g.todo) /\ i + 1 \in 1..Len(g.todo)
            /\ i + 1 \in 1..(Len(get[c].todo) - 1)
        BY <1>3
      <3> QED BY <1>3, <1>6, <3>1 DEF CallCovers
    <2>2. ASSUME g.todo # <<>>, Room(msgs), ~Resets, NEW id \in DOMAIN posts, Time(id) > Time(g.todo[1].id)
          PROVE  Present(id)'
      <3>1. /\ 1 \in 1..Len(g.todo) /\ 1 \in 1..(Len(get[c].todo) - 1) /\ g.todo[1] = get[c].todo[1 + 1]
        BY <1>3, <2>2
      <3>2. Time(id) >= Time(m.id)
        BY <1>1, <1>6, <2>2, <3>1 DEF CallCovers
      <3>3. CASE id = m.id
        <4>1. CASE Holds(r, m.id)
          BY <1>9, <3>3, <4>1 DEF Present
        <4>2. CASE LeftOut(msgs, m, r)
          <5>1. r = msgs
            BY <4>2 DEF LeftOut
          <5>2. CASE Holds(msgs, m.id)
            BY <1>9, <3>3, <5>1, <5>2 DEF Present
          <5>3. CASE msgs # <<>> /\ Time(msgs[Len(msgs)].id) < Time(m.id)
            <6>1. Time(id) > Time(msgs[Len(msgs)].id)
              <7>1. Time(msgs[Len(msgs)].id) \in Nat /\ Time(id) \in Nat
                BY <1>9, <1>11, <5>3, ListTypes
              <7> QED BY <3>3, <5>3, <7>1
            <6>2. Present(id)
              BY <1>6, <2>2, <5>3, <6>1 DEF ListCovers, Covers
            <6> QED BY <1>7, <1>9, <5>1, <6>2 DEF Present
          <5> QED BY <2>2, <4>2, <5>2, <5>3 DEF LeftOut
        <4> QED BY <1>10, <4>1, <4>2
      <3>4. CASE id # m.id
        <4>1. Time(id) > Time(m.id)
          <5>1. Time(id) # Time(m.id)
            BY <1>3, <1>6, <1>11, <3>4 DEF DistinctTimes
          <5> QED BY <1>11, <3>2, <5>1
        <4>2. Present(id)
          BY <1>16, <2>2, <4>1 DEF Covers
        <4> QED BY <1>7, <1>9, <1>10, <2>2, <4>2 DEF Present
      <3> QED BY <3>3, <3>4
    <2>3. g.todo # <<>> /\ Room(msgs) => Covers(Time(g.todo[1].id))'
      BY <1>3, <1>7, <2>2 DEF Covers
    <2> QED BY <1>3, <1>5, <1>10, <1>12, <2>1, <2>3 DEF CallCovers
  <1> QED BY <1>14, <1>15, <1>17, <1>18, <1>19

-----------------------------------------------------------------------------
(* All of it.                                                               *)
ListInv == KnownInv /\ HoleInv

LEMMA ListStep ==
  ASSUME ListInv, [MessagesNext]_messageVars
  PROVE  ListInv'
  <1>0. KnownInv /\ HoleInv
    BY DEF ListInv
  <1>1. CASE MessageServer
    <2>1. CASE \E id \in Ids, empty \in BOOLEAN : Post(id, empty)
      BY <1>0, <2>1, ListPost DEF ListInv
    <2>2. CASE \E id \in DOMAIN posts : ClearAll(id) \/ \E empties \in BOOLEAN : Edit(id, empties)
      BY <1>0, <2>2, EditAlters, ClearAllAlters, ListAltered DEF ListInv
    <2>3. CASE \E ids \in SUBSET DOMAIN posts : Cardinality(ids) \in 1..2 /\ DeleteSome(ids)
      BY <1>0, <2>3, ListDeleteSome DEF ListInv
    <2>4. CASE \E id \in DOMAIN posts, x \in Faces : ClearEmoji(id, x) \/ \E u \in People : React(id, x, u)
      BY <1>0, <2>4, ClearEmojiAlters, ReactAlters, ListAltered DEF ListInv
    <2>5. CASE NewSession
      BY <1>0, <2>5, ListNewSession DEF ListInv
    <2> QED BY <1>1, <2>1, <2>2, <2>3, <2>4, <2>5 DEF MessageServer
  <1>2. CASE MessageEvent
    BY <1>0, <1>2, KnownEvent, HoleEvent DEF ListInv
  <1>3. CASE ClearFew \/ UNCHANGED messageVars
    <2>1. /\ tracked' = tracked /\ posts' = posts /\ latest' = latest /\ feed' = feed /\ msgs' = msgs
          /\ get' = get /\ gap' = gap
      BY <1>3 DEF ClearFew, messageVars, sideVars
    <2>2. KnownInv'
      BY <1>0, <2>1 DEF KnownInv, MessageTypes, KnownFeed, KnownMessages, Untracked
    <2>3. HoleInv'
      BY <1>0, <2>1 DEF HoleInv, DistinctTimes, PendsInOrder, NotPending, ListCovers, CallCovers,
                        Covers, Present, Pends, Resets, Room
    <2> QED BY <2>2, <2>3 DEF ListInv
  <1>4. ASSUME NEW c \in Callers,
               \/ \E limit \in Limits : MessagesCall(c, limit)
               \/ MessagesAnswer(c) \/ MessagesStore(c) \/ StoreOne(c) \/ MessagesReturn(c) \/ Forget(c)
        PROVE  ListInv'
    <2>1. CASE \E limit \in Limits : MessagesCall(c, limit)
      BY <1>0, <2>1, ListCall DEF ListInv
    <2>2. CASE MessagesAnswer(c)
      BY <1>0, <2>2, ListAnswer DEF ListInv
    <2>3. CASE MessagesStore(c)
      BY <1>0, <2>3, ListStore DEF ListInv
    <2>4. CASE StoreOne(c)
      BY <1>0, <2>4, StoreKnown, ListStoreOne DEF ListInv
    <2>5. CASE MessagesReturn(c) \/ Forget(c)
      BY <1>0, <2>5, ListReturn DEF ListInv
    <2> QED BY <1>4, <2>1, <2>2, <2>3, <2>4, <2>5
  <1> QED BY <1>1, <1>2, <1>3, <1>4 DEF MessagesNext

LEMMA ListStarts ==
  ASSUME MessagesInit
  PROVE  ListInv
  <1>1. <<>> \in Lists /\ <<>> \in Seq(MessageNews) /\ Len(<<>>) = 0 /\ 1..0 = {} /\ 1..(0 - 1) = {}
    BY MessagesAssumption DEF Lists, Ordered
  <1>2. posts = <<>> /\ DOMAIN posts = {}
    BY DEF MessagesInit
  <1>3. NoCall \in GetTypes /\ NoCall.todo = <<>> /\ NoCall.phase = "idle"
    <2>1. NoCall = Call("idle", 0, <<>>, 0, <<>>, 0)
      BY DEF NoCall, Call
    <2>2. 0 \in Nat /\ "idle" \in {"idle", "done"}
      OBVIOUS
    <2> QED BY <2>1, <2>2, RestTypes
  <1>4. \A c \in Callers : get[c] = NoCall
    BY DEF MessagesInit
  <1>5. MessageTypes
    <2>1. posts \in [DOMAIN posts -> PostTypes]
      BY <1>2
    <2> QED BY <1>1, <1>2, <1>3, <2>1 DEF MessagesInit, MessageTypes
  <1>6. KnownInv
    BY <1>1, <1>3, <1>4, <1>5 DEF MessagesInit, KnownInv, KnownFeed, KnownMessages, Untracked
  <1>7. HoleInv
    BY <1>1, <1>2, <1>3, <1>4 DEF MessagesInit, HoleInv, DistinctTimes, PendsInOrder, NotPending, ListCovers, CallCovers
  <1> QED BY <1>6, <1>7 DEF ListInv

LEMMA ListShows ==
  ASSUME ListInv
  PROVE  MessageList
  <1>1. KnownInv /\ HoleInv /\ msgs \in Lists /\ MessageTypes
    BY DEF ListInv, KnownInv, MessageTypes
  <1>2. DOMAIN msgs = 1..Len(msgs) /\ Ordered(msgs) /\ Len(msgs) <= maxMsgs
    BY <1>1, ListTypes DEF Lists
  <1>3. InOrder
    BY <1>2 DEF InOrder, Ordered
  <1>4. NoHoles
    <2> SUFFICES ASSUME feed = <<>>, msgs # <<>>, ~gap, NEW id \in DOMAIN posts, Time(id) > Time(msgs[Len(msgs)].id)
                 PROVE  Holds(msgs, id)
      BY DEF NoHoles
    <2>1. tracked
      BY <1>1 DEF KnownInv, Untracked
    <2>2. Len(feed) = 0 /\ 1..0 = {}
      OBVIOUS
    <2>3. ~Resets /\ ~Pends(id)
      BY <2>2 DEF Resets, Pends
    <2> QED BY <1>1, <2>1, <2>3 DEF HoleInv, ListCovers, Covers, Present
  <1> QED BY <1>3, <1>4 DEF MessageList

(* The list of a channel's messages is in order and has no hole.            *)
THEOREM ListHasNoHoles == MessagesSpec => []MessageList
  <1>1. MessagesInit => ListInv
    BY ListStarts
  <1>2. ListInv /\ [MessagesNext]_messageVars => ListInv'
    BY ListStep
  <1>3. ListInv => MessageList
    BY ListShows
  <1> QED BY <1>1, <1>2, <1>3, PTL DEF MessagesSpec

-----------------------------------------------------------------------------
(* What is cached comes to agree with the channel.                          *)

(* The events of f after the n-th turn m into this.                         *)
Becomes(m, n, f, last) ==
    \E h \in [n..Len(f) -> CachedTypes] :
        /\ h[n] = m /\ h[Len(f)] = last
        /\ \A k \in (n + 1)..Len(f) : TurnedInto(h[k - 1], f[k], h[k])

LEMMA TurnOnlyOne ==
  ASSUME NEW m, NEW e, NEW r, NEW s, TurnedInto(m, e, r), TurnedInto(m, e, s)
  PROVE  r = s
  <1>1. r \in CachedTypes /\ s \in CachedTypes /\ r.id = s.id /\ r.text = s.text
    BY DEF TurnedInto
  <1>2. \A x \in Faces : <<r.count[x], r.me[x]>> = <<s.count[x], s.me[x]>>
    BY DEF TurnedInto
  <1>3. \A x \in Faces : r.count[x] = s.count[x] /\ r.me[x] = s.me[x]
    BY <1>2
  <1>4. r.count = s.count
    BY <1>1, <1>3 DEF CachedTypes
  <1>5. r.me = s.me
    BY <1>1, <1>3 DEF CachedTypes
  <1> QED BY <1>1, <1>4, <1>5 DEF CachedTypes

LEMMA BecomesMore ==
  ASSUME NEW m, NEW n \in Nat, NEW f, NEW g, NEW e, NEW last, NEW r, Len(f) \in Nat, n <= Len(f),
         Len(g) = Len(f) + 1, g[Len(f) + 1] = e, \A k \in 1..Len(f) : g[k] = f[k],
         Becomes(m, n, f, last), TurnedInto(last, e, r)
  PROVE  Becomes(m, n, g, r)
  <1>1. PICK h \in [n..Len(f) -> CachedTypes] :
            /\ h[n] = m /\ h[Len(f)] = last
            /\ \A k \in (n + 1)..Len(f) : TurnedInto(h[k - 1], f[k], h[k])
    BY DEF Becomes
  <1>2. PICK j : j = [k \in n..Len(g) |-> IF k = Len(g) THEN r ELSE h[k]]
    OBVIOUS
  <1>3. r \in CachedTypes
    BY DEF TurnedInto
  <1>4. j \in [n..Len(g) -> CachedTypes] /\ j[Len(g)] = r /\ \A k \in n..Len(f) : j[k] = h[k]
    BY <1>2, <1>3
  <1>5. ASSUME NEW k \in (n + 1)..Len(g)
        PROVE  TurnedInto(j[k - 1], g[k], j[k])
    <2>1. CASE k = Len(g)
      <3>1. k - 1 = Len(f) /\ g[k] = e /\ Len(f) \in n..Len(f)
        BY <2>1
      <3> QED BY <1>1, <1>4, <2>1, <3>1
    <2>2. CASE k # Len(g)
      <3>1. k \in (n + 1)..Len(f) /\ k \in n..Len(f) /\ k - 1 \in n..Len(f) /\ k \in 1..Len(f)
        BY <2>2
      <3> QED BY <1>1, <1>4, <3>1
    <2> QED BY <2>1, <2>2
  <1>6. j[n] = m
    BY <1>1, <1>4
  <1> QED BY <1>4, <1>5, <1>6 DEF Becomes

LEMMA BecomesLess ==
  ASSUME NEW m, NEW n \in Nat, n # 0, NEW f, NEW g, NEW last, Len(f) \in Nat, n <= Len(f),
         Len(g) = Len(f) - 1, \A k \in 1..Len(g) : g[k] = f[k + 1],
         Becomes(m, n, f, last)
  PROVE  Becomes(m, n - 1, g, last)
  <1>1. PICK h \in [n..Len(f) -> CachedTypes] :
            /\ h[n] = m /\ h[Len(f)] = last
            /\ \A k \in (n + 1)..Len(f) : TurnedInto(h[k - 1], f[k], h[k])
    BY DEF Becomes
  <1>2. PICK j : j = [k \in (n - 1)..Len(g) |-> h[k + 1]]
    OBVIOUS
  <1>3. \A k \in (n - 1)..Len(g) : k + 1 \in n..Len(f)
    OBVIOUS
  <1>4. j \in [(n - 1)..Len(g) -> CachedTypes] /\ \A k \in (n - 1)..Len(g) : j[k] = h[k + 1]
    BY <1>2, <1>3
  <1>5. n - 1 \in (n - 1)..Len(g) /\ Len(g) \in (n - 1)..Len(g) /\ (n - 1) + 1 = n /\ Len(g) + 1 = Len(f)
    OBVIOUS
  <1>6. j[n - 1] = m /\ j[Len(g)] = last
    BY <1>1, <1>4, <1>5
  <1>7. ASSUME NEW k \in ((n - 1) + 1)..Len(g)
        PROVE  TurnedInto(j[k - 1], g[k], j[k])
    <2>1. /\ k + 1 \in (n + 1)..Len(f) /\ (k + 1) - 1 = k /\ (k - 1) + 1 = k /\ k \in 1..Len(g)
          /\ k \in (n - 1)..Len(g) /\ k - 1 \in (n - 1)..Len(g)
      OBVIOUS
    <2>2. TurnedInto(h[k], f[k + 1], h[k + 1])
      BY <1>1, <2>1
    <2> QED BY <1>4, <2>1, <2>2
  <1> QED BY <1>4, <1>6, <1>7 DEF Becomes

LEMMA BecomesTaken ==
  ASSUME NEW m, NEW r, NEW f, NEW last, Len(f) \in Nat, Len(f) # 0,
         Becomes(m, 0, f, last), TurnedInto(m, f[1], r)
  PROVE  Becomes(r, 1, f, last)
  <1>1. PICK h \in [0..Len(f) -> CachedTypes] :
            /\ h[0] = m /\ h[Len(f)] = last
            /\ \A k \in (0 + 1)..Len(f) : TurnedInto(h[k - 1], f[k], h[k])
    BY DEF Becomes
  <1>2. TurnedInto(m, f[1], h[1])
    <2>1. 1 \in (0 + 1)..Len(f) /\ 1 - 1 = 0
      OBVIOUS
    <2> QED BY <1>1, <2>1
  <1>3. h[1] = r
    BY <1>2, TurnOnlyOne
  <1>4. PICK j : j = [k \in 1..Len(f) |-> h[k]]
    OBVIOUS
  <1>5. j \in [1..Len(f) -> CachedTypes] /\ \A k \in 1..Len(f) : j[k] = h[k]
    BY <1>4
  <1>6. j[1] = r /\ j[Len(f)] = last
    BY <1>1, <1>3, <1>5
  <1>7. \A k \in (1 + 1)..Len(f) : TurnedInto(j[k - 1], f[k], j[k])
    <2> TAKE k \in (1 + 1)..Len(f)
    <2>1. k \in (0 + 1)..Len(f) /\ k \in 1..Len(f) /\ k - 1 \in 1..Len(f)
      OBVIOUS
    <2> QED BY <1>1, <1>5, <2>1
  <1> QED BY <1>5, <1>6, <1>7 DEF Becomes

(* Whether an event is the last of its kind about a message, and then says  *)
(* how the message is now.                                                  *)
TextTold(f, id, p) ==
    \A k \in 1..Len(f) :
        Edits(f[k], id) /\ (\A l \in (k + 1)..Len(f) : ~Edits(f[l], id)) => f[k].text = p.text
FacesTold(f, id, p) ==
    \A k \in 1..Len(f) : \A x \in Faces :
        ClearsFace(f[k], id, x) /\ (\A l \in (k + 1)..Len(f) : ~Reacts(f[l], id)) => p.by[x] = {}

(* The text that a message has after each event, if it had this one first.  *)
TextsOf(t, f, id, text) ==
    /\ t \in [0..Len(f) -> Nat] /\ t[0] = text
    /\ \A k \in 1..Len(f) : t[k] = IF Edits(f[k], id) THEN f[k].text ELSE t[k - 1]

LEMMA TextsAre ==
  ASSUME NEW f \in Seq(MessageNews), NEW id, NEW text \in Nat
  PROVE  \E t : TextsOf(t, f, id, text)
  <1>1. PICK N : N = Len(f)
    OBVIOUS
  <1>2. N \in Nat /\ \A k \in 1..N : f[k] \in MessageNews
    BY <1>1
  <1>3. \A k \in 1..N : Edits(f[k], id) => f[k].text \in Nat
    BY <1>2, NewsKinds DEF Edits
  <1>4. PICK X : X = Nat
    OBVIOUS
  <1>5. PICK turn : turn = [q \in (1..N) \X X |-> IF Edits(f[q[1]], id) THEN f[q[1]].text ELSE q[2]]
    OBVIOUS
  <1>6. turn \in [(1..N) \X X -> X]
    <2>1. \A q \in (1..N) \X X : q[1] \in 1..N /\ q[2] \in X
      OBVIOUS
    <2>2. \A q \in (1..N) \X X : (IF Edits(f[q[1]], id) THEN f[q[1]].text ELSE q[2]) \in X
      BY <1>3, <1>4, <2>1
    <2> QED BY <1>5, <2>2
  <1>7. PICK t : Runs(t, X, N, text, turn)
    BY <1>2, <1>4, <1>6, Loop
  <1>8. t \in [0..N -> X] /\ \A n \in 0..N : t[n] = IF n = 0 THEN text ELSE turn[<<n, t[n - 1]>>]
    BY <1>7 DEF Runs
  <1>9. t[0] = text
    <2>1. 0 \in 0..N
      BY <1>2
    <2> QED BY <1>8, <2>1
  <1>10. \A k \in 1..N : t[k] = IF Edits(f[k], id) THEN f[k].text ELSE t[k - 1]
    <2> TAKE k \in 1..N
    <2>1. k \in 0..N /\ k # 0 /\ k - 1 \in 0..N
      BY <1>2
    <2>2. t[k - 1] \in X /\ t[k] = turn[<<k, t[k - 1]>>]
      BY <1>8, <2>1
    <2> QED BY <1>5, <2>2
  <1> QED BY <1>1, <1>4, <1>8, <1>9, <1>10 DEF TextsOf

LEMMA TextsEnd ==
  ASSUME NEW f, Len(f) \in Nat, NEW id, NEW p, TextTold(f, id, p), NEW text, NEW t, TextsOf(t, f, id, text)
  PROVE  t[Len(f)] = text \/ t[Len(f)] = p.text
  <1> DEFINE Told1(k) == \/ t[k] = text
                         \/ \E j \in 1..k : /\ Edits(f[j], id) /\ t[k] = f[j].text
                                            /\ \A l \in (j + 1)..k : ~Edits(f[l], id)
             G == {k \in Nat : k <= Len(f) => Told1(k)}
  <1>1. 0 \in G
    BY DEF TextsOf
  <1>2. ASSUME NEW k \in Nat, k \in G
        PROVE  k + 1 \in G
    <2> SUFFICES ASSUME k + 1 <= Len(f)
                 PROVE  Told1(k + 1)
      OBVIOUS
    <2>1. Told1(k) /\ k + 1 \in 1..Len(f) /\ (k + 1) - 1 = k
      BY <1>2
    <2>2. t[k + 1] = IF Edits(f[k + 1], id) THEN f[k + 1].text ELSE t[k]
      BY <2>1 DEF TextsOf
    <2>3. CASE Edits(f[k + 1], id)
      <3>1. k + 1 \in 1..(k + 1) /\ ((k + 1) + 1)..(k + 1) = {}
        OBVIOUS
      <3> QED BY <2>2, <2>3, <3>1
    <2>4. CASE ~Edits(f[k + 1], id)
      <3>1. t[k + 1] = t[k]
        BY <2>2, <2>4
      <3>2. CASE t[k] = text
        BY <3>1, <3>2
      <3>3. CASE \E j \in 1..k : /\ Edits(f[j], id) /\ t[k] = f[j].text
                                 /\ \A l \in (j + 1)..k : ~Edits(f[l], id)
        <4>1. PICK j \in 1..k : /\ Edits(f[j], id) /\ t[k] = f[j].text
                                /\ \A l \in (j + 1)..k : ~Edits(f[l], id)
          BY <3>3
        <4>2. j \in 1..(k + 1) /\ \A l \in (j + 1)..(k + 1) : l \in (j + 1)..k \/ l = k + 1
          OBVIOUS
        <4> QED BY <2>4, <3>1, <4>1, <4>2
      <3> QED BY <2>1, <3>2, <3>3
    <2> QED BY <2>3, <2>4
  <1>3. Len(f) \in G
    <2> HIDE DEF G
    <2> QED BY <1>1, <1>2, UpFromZero
  <1>4. Told1(Len(f))
    BY <1>3
  <1> QED BY <1>4 DEF TextTold

(* What the API answers already has all changes whose events are to come,   *)
(* if there is none of a reaction: they make nothing else of it.            *)
LEMMA StoredBecomes ==
  ASSUME NEW f \in Seq(MessageNews), NEW id \in Ids, NEW p \in PostTypes, TextTold(f, id, p), FacesTold(f, id, p),
         \A k \in 1..Len(f) : ~Reacts(f[k], id), NEW m, m = Seen(id, p)
  PROVE  \E last : Looks(last, id, p) /\ Becomes(m, 0, f, last)
  <1>1. /\ m \in CachedTypes /\ m.id = id /\ (m.text = p.text \/ (p.empty /\ m.text = 0))
        /\ \A x \in Faces : m.count[x] = Cardinality(p.by[x]) /\ m.me[x] = (Self \in p.by[x])
    BY SeenTypes DEF Looks
  <1>2. Len(f) \in Nat /\ m.text \in Nat
    BY <1>1 DEF CachedTypes
  <1>3. PICK t : TextsOf(t, f, id, m.text)
    BY <1>2, TextsAre
  <1>4. /\ t \in [0..Len(f) -> Nat] /\ t[0] = m.text /\ (t[Len(f)] = m.text \/ t[Len(f)] = p.text)
        /\ \A k \in 1..Len(f) : t[k] = IF Edits(f[k], id) THEN f[k].text ELSE t[k - 1]
    BY <1>2, <1>3, TextsEnd DEF TextsOf
  <1>5. PICK h : h = [k \in 0..Len(f) |-> [m EXCEPT !.text = t[k]]]
    OBVIOUS
  <1>6. ASSUME NEW k \in 0..Len(f)
        PROVE  h[k] \in CachedTypes /\ h[k].id = id /\ h[k].text = t[k] /\ h[k].count = m.count /\ h[k].me = m.me
    <2>1. h[k] = [m EXCEPT !.text = t[k]] /\ t[k] \in Nat
      BY <1>4, <1>5
    <2> QED BY <1>1, <2>1 DEF CachedTypes
  <1>7. h \in [0..Len(f) -> CachedTypes]
    BY <1>5, <1>6
  <1>8. h[0] = m /\ Looks(h[Len(f)], id, p)
    <2>1. 0 \in 0..Len(f) /\ Len(f) \in 0..Len(f)
      BY <1>2
    <2>2. [m EXCEPT !.text = m.text] = m
      BY <1>1 DEF CachedTypes
    <2>3. h[0] = m
      BY <1>4, <1>5, <2>1, <2>2
    <2>4. Looks(h[Len(f)], id, p)
      BY <1>1, <1>4, <1>6, <2>1 DEF Looks
    <2> QED BY <2>3, <2>4
  <1>9. ASSUME NEW k \in (0 + 1)..Len(f)
        PROVE  TurnedInto(h[k - 1], f[k], h[k])
    <2>1. k \in 1..Len(f) /\ k \in 0..Len(f) /\ k - 1 \in 0..Len(f)
      BY <1>2
    <2>2. \A x \in Faces : ClearsFace(f[k], id, x) => m.count[x] = 0 /\ m.me[x] = FALSE
      <3> TAKE x \in Faces
      <3> HAVE ClearsFace(f[k], id, x)
      <3>1. \A l \in (k + 1)..Len(f) : l \in 1..Len(f)
        BY <2>1
      <3>2. p.by[x] = {}
        BY <2>1, <3>1 DEF FacesTold
      <3>3. Cardinality({}) = 0 /\ (Self \in {}) = FALSE
        BY FS_EmptySet
      <3> QED BY <1>1, <3>2, <3>3
    <2>3. \A x \in Faces : <<m.count[x], m.me[x]>> = Turn(f[k], id, x, m.count[x], m.me[x])
      BY <2>1, <2>2 DEF Turn, ReactsWith
    <2>4. /\ h[k] \in CachedTypes /\ h[k].id = id /\ h[k].count = m.count /\ h[k].me = m.me /\ h[k].text = t[k]
          /\ h[k - 1].id = id /\ h[k - 1].count = m.count /\ h[k - 1].me = m.me /\ h[k - 1].text = t[k - 1]
      BY <1>6, <2>1
    <2>5. h[k].text = IF Edits(f[k], id) THEN f[k].text ELSE h[k - 1].text
      BY <1>4, <2>1, <2>4
    <2> QED BY <2>3, <2>4, <2>5 DEF TurnedInto
  <1> QED BY <1>7, <1>8, <1>9 DEF Becomes
(* A sequence with one more event, and with one less.                       *)
More(f, e, g) == Len(f) \in Nat /\ Len(g) = Len(f) + 1 /\ g[Len(f) + 1] = e /\ \A k \in 1..Len(f) : g[k] = f[k]
Less(f, g) == Len(f) \in Nat \ {0} /\ Len(g) = Len(f) - 1 /\ \A k \in 1..Len(g) : g[k] = f[k + 1]

(* What the event says of this message is so of its new contents.           *)
Conveys(e, id, p, q) ==
    /\ q.text = IF Edits(e, id) THEN e.text ELSE p.text
    /\ \A x \in Faces : /\ ClearsFace(e, id, x) => q.by[x] = {}
                        /\ Reacts(e, id) \/ (p.by[x] = {} => q.by[x] = {})

LEMMA ToldMore ==
  ASSUME NEW f, NEW e, NEW g, More(f, e, g), NEW id, NEW p, NEW q, Conveys(e, id, p, q),
         TextTold(f, id, p), FacesTold(f, id, p)
  PROVE  TextTold(g, id, q) /\ FacesTold(g, id, q)
  <1>1. \A k \in 1..Len(g) : (k \in 1..Len(f) /\ g[k] = f[k]) \/ (k = Len(f) + 1 /\ g[k] = e)
    BY DEF More
  <1>2. \A k \in 1..Len(f) : /\ Len(f) + 1 \in (k + 1)..Len(g) /\ g[Len(f) + 1] = e
                             /\ \A l \in (k + 1)..Len(f) : l \in (k + 1)..Len(g) /\ g[l] = f[l]
    BY DEF More
  <1>3. TextTold(g, id, q)
    <2> SUFFICES ASSUME NEW k \in 1..Len(g), Edits(g[k], id), \A l \in (k + 1)..Len(g) : ~Edits(g[l], id)
                 PROVE  g[k].text = q.text
      BY DEF TextTold
    <2>1. CASE k \in 1..Len(f) /\ g[k] = f[k]
      <3>1. ~Edits(e, id) /\ \A l \in (k + 1)..Len(f) : ~Edits(f[l], id)
        BY <1>2, <2>1
      <3> QED BY <2>1, <3>1 DEF TextTold, Conveys
    <2>2. CASE k = Len(f) + 1 /\ g[k] = e
      BY <2>2 DEF Conveys
    <2> QED BY <1>1, <2>1, <2>2
  <1>4. FacesTold(g, id, q)
    <2> SUFFICES ASSUME NEW k \in 1..Len(g), NEW x \in Faces, ClearsFace(g[k], id, x),
                        \A l \in (k + 1)..Len(g) : ~Reacts(g[l], id)
                 PROVE  q.by[x] = {}
      BY DEF FacesTold
    <2>1. CASE k \in 1..Len(f) /\ g[k] = f[k]
      <3>1. ~Reacts(e, id) /\ \A l \in (k + 1)..Len(f) : ~Reacts(f[l], id)
        BY <1>2, <2>1
      <3> QED BY <2>1, <3>1 DEF FacesTold, Conveys
    <2>2. CASE k = Len(f) + 1 /\ g[k] = e
      BY <2>2 DEF Conveys
    <2> QED BY <1>1, <2>1, <2>2
  <1> QED BY <1>3, <1>4

LEMMA ToldLess ==
  ASSUME NEW f, NEW g, Less(f, g), NEW id, NEW p, TextTold(f, id, p), FacesTold(f, id, p)
  PROVE  TextTold(g, id, p) /\ FacesTold(g, id, p)
  <1>1. \A k \in 1..Len(g) : k + 1 \in 1..Len(f) /\ g[k] = f[k + 1]
    BY DEF Less
  <1>2. ASSUME NEW k \in 1..Len(g), NEW l \in ((k + 1) + 1)..Len(f)
        PROVE  l - 1 \in (k + 1)..Len(g) /\ g[l - 1] = f[l]
    <2>1. l - 1 \in (k + 1)..Len(g) /\ l - 1 \in 1..Len(g) /\ (l - 1) + 1 = l
      BY DEF Less
    <2> QED BY <1>1, <2>1
  <1>3. TextTold(g, id, p)
    <2> SUFFICES ASSUME NEW k \in 1..Len(g), Edits(g[k], id), \A l \in (k + 1)..Len(g) : ~Edits(g[l], id)
                 PROVE  g[k].text = p.text
      BY DEF TextTold
    <2>1. \A l \in ((k + 1) + 1)..Len(f) : ~Edits(f[l], id)
      BY <1>2
    <2> QED BY <1>1, <2>1 DEF TextTold
  <1>4. FacesTold(g, id, p)
    <2> SUFFICES ASSUME NEW k \in 1..Len(g), NEW x \in Faces, ClearsFace(g[k], id, x),
                        \A l \in (k + 1)..Len(g) : ~Reacts(g[l], id)
                 PROVE  p.by[x] = {}
      BY DEF FacesTold
    <2>1. \A l \in ((k + 1) + 1)..Len(f) : ~Reacts(f[l], id)
      BY <1>2
    <2> QED BY <1>1, <2>1 DEF FacesTold
  <1> QED BY <1>3, <1>4

(* A message that was cached, or told of, at the n-th event agrees with the *)
(* channel when the rest has been handled, or is deleted by then; or is one *)
(* of lost.                                                                 *)
Agrees(m, n, f, p, lost) ==
    \/ m.id \in lost
    \/ \E k \in (n + 1)..Len(f) : Deletes(f[k], m.id)
    \/ m.id \in DOMAIN p /\ \E last : Looks(last, m.id, p[m.id]) /\ Becomes(m, n, f, last)

(* An event that turns what is fresh of a message into what is fresh then.  *)
Freshens(e, id, p, q) == \A m : Looks(m, id, p) => \E r : Looks(r, id, q) /\ TurnedInto(m, e, r)
Keeps(e, id, p, q, lost) ==
    id \in DOMAIN p => \/ id \in lost \/ Deletes(e, id)
                       \/ id \in DOMAIN q /\ Freshens(e, id, p[id], q[id])

LEMMA AgreesMore ==
  ASSUME NEW m, NEW n \in Nat, NEW f, NEW e, NEW g, More(f, e, g), n <= Len(f),
         NEW p, NEW q, NEW lost, NEW more, lost \subseteq more,
         Agrees(m, n, f, p, lost), Keeps(e, m.id, p, q, more)
  PROVE  Agrees(m, n, g, q, more)
  <1>0. /\ Len(f) \in Nat /\ Len(g) = Len(f) + 1 /\ g[Len(f) + 1] = e /\ \A k \in 1..Len(f) : g[k] = f[k]
    BY DEF More
  <1>1. Len(f) + 1 \in (n + 1)..Len(g) /\ \A k \in (n + 1)..Len(f) : k \in (n + 1)..Len(g) /\ g[k] = f[k]
    BY <1>0
  <1>2. CASE m.id \in more \/ (\E k \in (n + 1)..Len(f) : Deletes(f[k], m.id)) \/ Deletes(e, m.id)
    BY <1>0, <1>1, <1>2 DEF Agrees
  <1>3. CASE ~(m.id \in more \/ (\E k \in (n + 1)..Len(f) : Deletes(f[k], m.id)) \/ Deletes(e, m.id))
    <2>1. m.id \in DOMAIN p /\ \E last : Looks(last, m.id, p[m.id]) /\ Becomes(m, n, f, last)
      BY <1>3 DEF Agrees
    <2>2. m.id \in DOMAIN q /\ Freshens(e, m.id, p[m.id], q[m.id])
      BY <1>3, <2>1 DEF Keeps
    <2>3. PICK now : Looks(now, m.id, p[m.id]) /\ Becomes(m, n, f, now)
      BY <2>1
    <2>4. PICK next : Looks(next, m.id, q[m.id]) /\ TurnedInto(now, e, next)
      BY <2>2, <2>3 DEF Freshens
    <2>5. Becomes(m, n, g, next)
      BY <1>0, <2>3, <2>4, BecomesMore
    <2> QED BY <2>2, <2>4, <2>5 DEF Agrees
  <1> QED BY <1>2, <1>3

LEMMA AgreesLess ==
  ASSUME NEW m, NEW n \in Nat, n # 0, NEW f, NEW g, Less(f, g), n <= Len(f), NEW p, NEW lost,
         Agrees(m, n, f, p, lost)
  PROVE  Agrees(m, n - 1, g, p, lost)
  <1>0. /\ Len(f) \in Nat \ {0} /\ Len(g) = Len(f) - 1 /\ \A k \in 1..Len(g) : g[k] = f[k + 1]
    BY DEF Less
  <1>1. CASE \E k \in (n + 1)..Len(f) : Deletes(f[k], m.id)
    <2>1. PICK k \in (n + 1)..Len(f) : Deletes(f[k], m.id)
      BY <1>1
    <2>2. k - 1 \in ((n - 1) + 1)..Len(g) /\ k - 1 \in 1..Len(g) /\ (k - 1) + 1 = k
      BY <1>0
    <2>3. Deletes(g[k - 1], m.id)
      BY <1>0, <2>1, <2>2
    <2> QED BY <2>2, <2>3 DEF Agrees
  <1>2. CASE m.id \in DOMAIN p /\ \E last : Looks(last, m.id, p[m.id]) /\ Becomes(m, n, f, last)
    <2>1. PICK last : Looks(last, m.id, p[m.id]) /\ Becomes(m, n, f, last)
      BY <1>2
    <2>2. Becomes(m, n - 1, g, last)
      BY <1>0, <2>1, BecomesLess
    <2> QED BY <1>2, <2>1, <2>2 DEF Agrees
  <1>3. CASE m.id \in lost
    BY <1>3 DEF Agrees
  <1> QED BY <1>1, <1>2, <1>3 DEF Agrees

LEMMA AgreesTaken ==
  ASSUME NEW m, NEW r, NEW f, NEW g, Less(f, g), NEW p, NEW lost, ~Deletes(f[1], m.id),
         Agrees(m, 0, f, p, lost), TurnedInto(m, f[1], r)
  PROVE  Agrees(r, 0, g, p, lost)
  <1>0. Len(f) \in Nat \ {0} /\ r.id = m.id
    BY DEF Less, TurnedInto
  <1>1. Agrees(r, 1, f, p, lost)
    <2>1. CASE \E k \in (0 + 1)..Len(f) : Deletes(f[k], m.id)
      <3>1. PICK k \in (0 + 1)..Len(f) : Deletes(f[k], m.id)
        BY <2>1
      <3>2. k # 1
        BY <3>1
      <3>3. k \in (1 + 1)..Len(f)
        BY <1>0, <3>2
      <3> QED BY <1>0, <3>1, <3>3 DEF Agrees
    <2>2. CASE m.id \in DOMAIN p /\ \E last : Looks(last, m.id, p[m.id]) /\ Becomes(m, 0, f, last)
      <3>1. PICK last : Looks(last, m.id, p[m.id]) /\ Becomes(m, 0, f, last)
        BY <2>2
      <3>2. Becomes(r, 1, f, last)
        BY <1>0, <3>1, BecomesTaken
      <3> QED BY <1>0, <2>2, <3>1, <3>2 DEF Agrees
    <2>3. CASE m.id \in lost
      BY <1>0, <2>3 DEF Agrees
    <2> QED BY <2>1, <2>2, <2>3 DEF Agrees
  <1>2. 1 \in Nat /\ 1 # 0 /\ 1 <= Len(f) /\ 1 - 1 = 0
    BY <1>0
  <1> QED BY <1>1, <1>2, AgreesLess
-----------------------------------------------------------------------------
(* The cached messages agree with the channel, those that still come as     *)
(* events, and those of an answer that a call has yet to store: these are   *)
(* what the channel has already, and no reaction to them is under way that  *)
(* would be counted again.  A READY under way empties the list.             *)

InStep(m, f, p, lost) ==
    \/ m.id \in lost
    \/ m.id \in DOMAIN p /\ m = Seen(m.id, p[m.id]) /\ \A n \in 1..Len(f) : ~Reacts(f[n], m.id)

HeldAgree == Resets \/ \A i \in 1..Len(msgs) : Agrees(msgs[i], 0, feed, posts, unsure)
ComingAgree ==
    \A n \in 1..Len(feed) : feed[n].type = "MessageCreate" =>
        Agrees(Seen(feed[n].id, feed[n].post), n, feed, posts, unsure)
AnswersAgree ==
    \A c \in Callers : \A i \in 1..Len(get[c].todo) : InStep(get[c].todo[i], feed, posts, unsure)
ContentsTold ==
    \A id \in DOMAIN posts : TextTold(feed, id, posts[id]) /\ FacesTold(feed, id, posts[id])
ContentsKnown == \A n \in 1..Len(feed) : Updating(feed[n]) => feed[n].id \in latest
FreshInv == tracked => HeldAgree /\ ComingAgree /\ AnswersAgree /\ ContentsTold /\ ContentsKnown

LEMMA NothingSaid ==
  ASSUME NEW e, NEW id, NEW p, ~Edits(e, id), ~Reacts(e, id), \A x \in Faces : ~ClearsFace(e, id, x)
  PROVE  Conveys(e, id, p, p)
  BY DEF Conveys

(* What a step of the server leaves so of the messages that agreed, and     *)
(* brings about for those that are told of next.                            *)
LEMMA FreshServer ==
  ASSUME KnownInv, tracked, FreshInv, Unheard, NEW e \in MessageNews, feed' = Append(feed, e), e.type # "Ready",
         unsure \subseteq unsure', latest \subseteq latest',
         \A id \in latest : Keeps(e, id, posts, posts', unsure'),
         \A id \in latest : Answered(id) => id \in unsure' \/ (posts'[id] = posts[id] /\ id \in DOMAIN posts' /\ ~Reacts(e, id)),
         e.type = "MessageCreate" => e.id \in DOMAIN posts' /\ posts'[e.id] = e.post /\ e.post \in PostTypes,
         Updating(e) => e.id \in latest',
         \A id \in DOMAIN posts' : IF id \in DOMAIN posts THEN Conveys(e, id, posts[id], posts'[id])
                                   ELSE ~Updating(e) /\ id \notin latest
  PROVE  FreshInv'
  <1>1. MessageTypes /\ HeldAgree /\ ComingAgree /\ AnswersAgree /\ ContentsTold /\ ContentsKnown
    BY DEF KnownInv, FreshInv
  <1>2. Grew(e) /\ Len(feed) \in Nat
    BY <1>1, FeedGrows
  <1>3. More(feed, e, feed')
    BY <1>2 DEF Grew, More
  <1>4. msgs' = msgs /\ get' = get /\ tracked' = tracked
    BY DEF Unheard
  <1>5. \A n \in 1..Len(feed') : (n \in 1..Len(feed) /\ feed'[n] = feed[n]) \/ (n = Len(feed) + 1 /\ feed'[n] = e)
    BY <1>2 DEF Grew
  <1>6. HeldAgree'
    <2>1. Resets => Resets'
      BY <1>1, <1>2, PendsGrow
    <2>2. ASSUME NEW i \in 1..Len(msgs), Agrees(msgs[i], 0, feed, posts, unsure)
          PROVE  Agrees(msgs[i], 0, feed', posts', unsure')
      <3>1. Keeps(e, msgs[i].id, posts, posts', unsure')
        BY DEF KnownInv, KnownMessages
      <3> QED BY <1>2, <1>3, <2>2, <3>1, AgreesMore
    <2> QED BY <1>1, <1>4, <2>1, <2>2 DEF HeldAgree
  <1>7. ComingAgree'
    <2> SUFFICES ASSUME NEW n \in 1..Len(feed'), feed'[n].type = "MessageCreate"
                 PROVE  Agrees(Seen(feed'[n].id, feed'[n].post), n, feed', posts', unsure')
      BY DEF ComingAgree
    <2>1. CASE n \in 1..Len(feed) /\ feed'[n] = feed[n]
      <3>1. PICK m : m = Seen(feed[n].id, feed[n].post)
        OBVIOUS
      <3>2. m.id = feed[n].id /\ m.id \in latest
        BY <2>1, <3>1 DEF Seen, KnownInv, KnownFeed
      <3>3. Agrees(m, n, feed, posts, unsure)
        BY <1>1, <2>1, <3>1 DEF ComingAgree
      <3>4. n \in Nat /\ n <= Len(feed)
        BY <2>1
      <3>5. Agrees(m, n, feed', posts', unsure')
        BY <1>3, <3>2, <3>3, <3>4, AgreesMore
      <3> QED BY <2>1, <3>1, <3>5
    <2>2. CASE n = Len(feed) + 1 /\ feed'[n] = e
      <3>1. PICK m : m = Seen(e.id, e.post)
        OBVIOUS
      <3>2. m \in CachedTypes /\ m.id = e.id /\ e.id \in DOMAIN posts' /\ Looks(m, e.id, posts'[e.id])
        BY <2>2, <3>1, NewsKinds, SeenTypes
      <3>3. PICK h : h = [k \in n..n |-> m]
        OBVIOUS
      <3>4. n \in Nat /\ Len(feed') = n
        BY <1>2, <2>2 DEF Grew
      <3>5. h \in [n..Len(feed') -> CachedTypes] /\ h[n] = m /\ h[Len(feed')] = m /\ (n + 1)..Len(feed') = {}
        BY <3>2, <3>3, <3>4
      <3>6. Becomes(m, n, feed', m)
        BY <3>5 DEF Becomes
      <3> QED BY <2>2, <3>1, <3>2, <3>6 DEF Agrees
    <2> QED BY <1>5, <2>1, <2>2
  <1>8. AnswersAgree'
    <2> SUFFICES ASSUME NEW c \in Callers, NEW i \in 1..Len(get[c].todo)
                 PROVE  InStep(get[c].todo[i], feed', posts', unsure')
      BY <1>4 DEF AnswersAgree
    <2>1. PICK m : m = get[c].todo[i]
      OBVIOUS
    <2>2. InStep(m, feed, posts, unsure) /\ m.id \in latest
      BY <1>1, <2>1 DEF AnswersAgree, KnownInv, KnownMessages
    <2>3. Answered(m.id)
      <3>1. i \in DOMAIN get[c].todo
        BY <1>1, GetOf
      <3> QED BY <2>1, <3>1 DEF Answered
    <2>4. CASE m.id \in unsure'
      BY <2>1, <2>4 DEF InStep
    <2>5. CASE m.id \notin unsure'
      <3>1. posts'[m.id] = posts[m.id] /\ m.id \in DOMAIN posts' /\ ~Reacts(e, m.id)
        BY <2>2, <2>3, <2>5
      <3>2. m.id \in DOMAIN posts /\ m = Seen(m.id, posts[m.id]) /\ \A n \in 1..Len(feed) : ~Reacts(feed[n], m.id)
        BY <2>2, <2>5 DEF InStep
      <3> QED BY <1>5, <2>1, <3>1, <3>2 DEF InStep
    <2> QED BY <2>4, <2>5
  <1>9. ContentsTold'
    <2> SUFFICES ASSUME NEW id \in DOMAIN posts'
                 PROVE  TextTold(feed', id, posts'[id]) /\ FacesTold(feed', id, posts'[id])
      BY DEF ContentsTold
    <2>1. CASE id \in DOMAIN posts
      <3>1. Conveys(e, id, posts[id], posts'[id]) /\ TextTold(feed, id, posts[id]) /\ FacesTold(feed, id, posts[id])
        BY <1>1, <2>1 DEF ContentsTold
      <3>2. PICK p : p = posts[id]
        OBVIOUS
      <3>3. PICK q : q = posts'[id]
        OBVIOUS
      <3>4. TextTold(feed', id, q) /\ FacesTold(feed', id, q)
        BY <1>3, <3>1, <3>2, <3>3, ToldMore
      <3> QED BY <3>3, <3>4
    <2>2. CASE id \notin DOMAIN posts
      <3>1. ~Updating(e) /\ id \notin latest
        BY <2>2
      <3>2. \A n \in 1..Len(feed') : Updating(feed'[n]) => feed'[n].id # id
        BY <1>1, <1>5, <3>1 DEF ContentsKnown
      <3> QED BY <3>2 DEF TextTold, FacesTold, Edits, ClearsFace, Updating
    <2> QED BY <2>1, <2>2
  <1>10. ContentsKnown'
    BY <1>1, <1>5 DEF ContentsKnown
  <1> QED BY <1>6, <1>7, <1>8, <1>9, <1>10 DEF FreshInv

LEMMA StaysFresh ==
  ASSUME NEW e, NEW id, NEW p, ~Edits(e, id), ~Reacts(e, id), \A x \in Faces : ~ClearsFace(e, id, x)
  PROVE  Freshens(e, id, p, p)
  <1> SUFFICES ASSUME NEW m, Looks(m, id, p)
               PROVE  TurnedInto(m, e, m)
    BY DEF Freshens
  <1>1. m \in CachedTypes /\ m.id = id
    BY DEF Looks
  <1> QED BY <1>1, TurnNothing

LEMMA FreshAltered ==
  ASSUME KnownInv, FreshInv, NEW id, NEW e, Alters(id, e), Updating(e), e.id = id,
         unsure \subseteq unsure', Answered(id) => id \in unsure',
         id \in unsure' \/ Freshens(e, id, posts[id], posts'[id]),
         Conveys(e, id, posts[id], posts'[id])
  PROVE  FreshInv'
  <1>0. Unheard /\ latest' = latest /\ e \in MessageNews /\ id \in DOMAIN posts
        /\ feed' = IF tracked THEN Append(feed, e) ELSE feed
    BY DEF Alters
  <1> SUFFICES ASSUME tracked
               PROVE  FreshInv'
    BY <1>0 DEF FreshInv, Unheard
  <1>1. MessageTypes /\ DOMAIN posts \subseteq latest
    BY DEF KnownInv, MessageTypes
  <1>2. PICK p \in PostTypes : posts' = [posts EXCEPT ![id] = p]
    BY DEF Alters
  <1>3. DOMAIN posts' = DOMAIN posts /\ \A i \in DOMAIN posts : i # id => posts'[i] = posts[i]
    BY <1>2
  <1>4. \A i : i # id => ~Edits(e, i) /\ ~Reacts(e, i) /\ \A x \in Faces : ~ClearsFace(e, i, x)
    BY DEF Edits, Reacts, ClearsFace
  <1>5. ASSUME NEW i \in latest
        PROVE  Keeps(e, i, posts, posts', unsure')
    <2>1. CASE i = id
      BY <1>0, <1>3, <2>1 DEF Keeps
    <2>2. CASE i # id /\ i \in DOMAIN posts
      <3>1. PICK p1 : p1 = posts[i]
        OBVIOUS
      <3>2. Freshens(e, i, p1, p1)
        BY <1>4, <2>2, StaysFresh
      <3>3. posts'[i] = p1
        BY <1>3, <2>2, <3>1
      <3> QED BY <1>3, <2>2, <3>1, <3>2, <3>3 DEF Keeps
    <2> QED BY <2>1, <2>2 DEF Keeps
  <1>6. e.type # "Ready" /\ e.type # "MessageCreate"
    BY DEF Alters
  <1>7. \A i \in DOMAIN posts' : i \in DOMAIN posts /\ Conveys(e, i, posts[i], posts'[i])
    <2> TAKE i \in DOMAIN posts'
    <2>1. CASE i = id
      BY <1>0, <2>1
    <2>2. CASE i # id
      <3>1. PICK q : q = posts[i]
        OBVIOUS
      <3>2. Conveys(e, i, q, q)
        BY <1>4, <2>2, NothingSaid
      <3>3. i \in DOMAIN posts /\ posts'[i] = q
        BY <1>3, <2>2, <3>1
      <3> QED BY <3>1, <3>2, <3>3
    <2> QED BY <2>1, <2>2
  <1>8. AnswersAgree
    BY DEF FreshInv
  <1>9. \A i \in latest : Answered(i) => i \in unsure' \/ (posts'[i] = posts[i] /\ i \in DOMAIN posts' /\ ~Reacts(e, i))
    <2> SUFFICES ASSUME NEW i \in latest, Answered(i), i \notin unsure'
                 PROVE  posts'[i] = posts[i] /\ i \in DOMAIN posts' /\ ~Reacts(e, i)
      OBVIOUS
    <2>1. i # id
      OBVIOUS
    <2>2. i \in DOMAIN posts
      <3>1. PICK c \in Callers : \E k \in DOMAIN get[c].todo : get[c].todo[k].id = i
        BY DEF Answered
      <3>2. PICK k \in 1..Len(get[c].todo) : get[c].todo[k].id = i
        BY <1>1, <3>1, GetOf
      <3> QED BY <1>8, <3>2 DEF AnswersAgree, InStep
    <2> QED BY <1>3, <1>4, <2>1, <2>2
  <1>10. e.id \in latest'
    BY <1>0, <1>1
  <1>11. feed' = Append(feed, e) /\ latest \subseteq latest'
    BY <1>0
  <1> QED BY <1>0, <1>5, <1>6, <1>7, <1>9, <1>10, <1>11, FreshServer

(* An event that tells of the text, if there is a new one, and of the       *)
(* reactions.                                                               *)
LEMMA TurnsFresh ==
  ASSUME NEW id \in Ids, NEW p \in PostTypes, NEW q \in PostTypes, NEW e,
         q.text = (IF Edits(e, id) THEN e.text ELSE p.text), Edits(e, id) \/ (p.empty => q.empty),
         \A x \in Faces : <<Cardinality(q.by[x]), Self \in q.by[x]>>
                            = Turn(e, id, x, Cardinality(p.by[x]), Self \in p.by[x])
  PROVE  Freshens(e, id, p, q)
  <1> SUFFICES ASSUME NEW m, Looks(m, id, p)
               PROVE  \E r : Looks(r, id, q) /\ TurnedInto(m, e, r)
    BY DEF Freshens
  <1>1. PICK n : n = Seen(id, q)
    OBVIOUS
  <1>2. PICK r : r = [n EXCEPT !.text = IF Edits(e, id) THEN e.text ELSE m.text]
    OBVIOUS
  <1>3. /\ m \in CachedTypes /\ m.id = id /\ (m.text = p.text \/ (p.empty /\ m.text = 0))
        /\ \A x \in Faces : m.count[x] = Cardinality(p.by[x]) /\ m.me[x] = (Self \in p.by[x])
    BY DEF Looks
  <1>4. /\ n \in CachedTypes /\ n.id = id
        /\ \A x \in Faces : n.count[x] = Cardinality(q.by[x]) /\ n.me[x] = (Self \in q.by[x])
    BY <1>1, SeenTypes
  <1>5. q.text \in Nat /\ m.text \in Nat
    BY <1>3 DEF PostTypes, CachedTypes
  <1>6. /\ r \in CachedTypes /\ r.id = id /\ r.text = (IF Edits(e, id) THEN e.text ELSE m.text)
        /\ r.count = n.count /\ r.me = n.me
    BY <1>2, <1>4, <1>5 DEF CachedTypes
  <1>7. Looks(r, id, q)
    BY <1>3, <1>4, <1>6 DEF Looks
  <1>8. \A x \in Faces : <<r.count[x], r.me[x]>> = Turn(e, id, x, m.count[x], m.me[x])
    BY <1>3, <1>4, <1>6
  <1>9. TurnedInto(m, e, r)
    BY <1>3, <1>6, <1>8 DEF TurnedInto
  <1> QED BY <1>7, <1>9

LEMMA EditFresh ==
  ASSUME KnownInv, FreshInv, NEW id \in DOMAIN posts, NEW empties \in BOOLEAN, Edit(id, empties)
  PROVE  FreshInv'
  <1>1. PICK e : e = EditOf(id, empties)
    OBVIOUS
  <1>2. Alters(id, e)
    BY <1>1, EditAlters
  <1>3. e.type = "MessageUpdate" /\ e.id = id /\ e.text = IF empties THEN 0 ELSE posts[id].text + 1
    BY <1>1 DEF EditOf
  <1>4. id \in Ids /\ posts[id] \in PostTypes /\ posts[id].text \in Nat
    BY PostOf DEF KnownInv
  <1>5. posts \in [DOMAIN posts -> PostTypes]
    BY DEF KnownInv, MessageTypes
  <1>6. PICK p : p = posts'[id]
    OBVIOUS
  <1>7. /\ p.text = (IF empties THEN posts[id].text ELSE posts[id].text + 1) /\ p.empty = empties
        /\ p.by = posts[id].by /\ p \in PostTypes
    <2>1. p = [posts[id] EXCEPT !.text = IF empties THEN posts[id].text ELSE posts[id].text + 1, !.empty = empties]
      BY <1>5, <1>6 DEF Edit
    <2>2. PICK text \in Nat : text = IF empties THEN posts[id].text ELSE posts[id].text + 1
      BY <1>4
    <2>3. p = [posts[id] EXCEPT !.text = text, !.empty = empties]
      BY <2>1, <2>2
    <2>4. p.text = text /\ p.empty = empties /\ p.by = posts[id].by /\ p \in PostTypes
      BY <1>4, <2>2, <2>3 DEF PostTypes
    <2> QED BY <2>2, <2>4
  <1>8. unsure \subseteq unsure' /\ (Answered(id) => id \in unsure')
    BY DEF Edit, Overtakes
  <1>9. ~Reacts(e, id) /\ (\A x \in Faces : ~ClearsFace(e, id, x)) /\ (Edits(e, id) <=> ~empties)
    BY <1>3, <1>4 DEF Edits, Reacts, ClearsFace
  <1>10. Conveys(e, id, posts[id], p)
    BY <1>3, <1>7, <1>9 DEF Conveys
  <1>11. Freshens(e, id, posts[id], p)
    <2>1. \A x \in Faces : <<Cardinality(p.by[x]), Self \in p.by[x]>>
                              = Turn(e, id, x, Cardinality(posts[id].by[x]), Self \in posts[id].by[x])
      BY <1>7, <1>9 DEF Turn, ReactsWith
    <2>2. p.text = (IF Edits(e, id) THEN e.text ELSE posts[id].text) /\ (Edits(e, id) \/ (posts[id].empty => p.empty))
      BY <1>3, <1>7, <1>9
    <2> QED BY <1>4, <1>7, <2>1, <2>2, TurnsFresh
  <1>12. Updating(e)
    BY <1>3 DEF Updating
  <1> QED BY <1>2, <1>3, <1>6, <1>8, <1>10, <1>11, <1>12, FreshAltered

(* One user more or less.                                                   *)
LEMMA OneUser ==
  ASSUME NEW S, IsFiniteSet(S), NEW u
  PROVE  /\ Cardinality(S) \in Nat
         /\ u \notin S => Cardinality(S \cup {u}) = Cardinality(S) + 1
         /\ u \in S => /\ Cardinality(S) # 0 /\ Cardinality(S \ {u}) = Cardinality(S) - 1
                       /\ Cardinality(S) = 1 => S \ {u} = {}
  <1>1. Cardinality(S) \in Nat
    BY FS_CardinalityType
  <1>2. u \notin S => Cardinality(S \cup {u}) = Cardinality(S) + 1
    BY FS_AddElement
  <1>3. ASSUME u \in S
        PROVE  /\ Cardinality(S) # 0 /\ Cardinality(S \ {u}) = Cardinality(S) - 1
               /\ Cardinality(S) = 1 => S \ {u} = {}
    <2>1. IsFiniteSet(S \ {u}) /\ Cardinality(S \ {u}) = Cardinality(S) - 1
      BY <1>3, FS_RemoveElement
    <2>2. Cardinality(S \ {u}) \in Nat
      BY <2>1, FS_CardinalityType
    <2>3. Cardinality(S) # 0
      BY <1>1, <2>1, <2>2
    <2>4. Cardinality(S) = 1 => S \ {u} = {}
      BY <2>1, FS_EmptySet
    <2> QED BY <2>1, <2>3, <2>4
  <1> QED BY <1>1, <1>2, <1>3

LEMMA ReactFresh ==
  ASSUME KnownInv, FreshInv, NEW id \in DOMAIN posts, NEW x \in Faces, NEW u \in People, React(id, x, u)
  PROVE  FreshInv'
  <1>1. PICK on : on = (u \in posts[id].by[x])
    OBVIOUS
  <1>2. PICK e : e = [type |-> IF u \in posts[id].by[x] THEN "ReactionRemove" ELSE "ReactionAdd",
                      id |-> id, emoji |-> x, user |-> u]
    OBVIOUS
  <1>3. Alters(id, e)
    BY <1>2, ReactAlters
  <1>4. e.type = (IF u \in posts[id].by[x] THEN "ReactionRemove" ELSE "ReactionAdd") /\ e.id = id /\ e.emoji = x /\ e.user = u
    BY <1>2
  <1>5. /\ id \in Ids /\ posts[id] \in PostTypes /\ posts[id].by \in [Faces -> SUBSET People]
        /\ \A y \in Faces : IsFiniteSet(posts[id].by[y])
    BY PostOf DEF KnownInv
  <1>6. posts \in [DOMAIN posts -> PostTypes]
    BY DEF KnownInv, MessageTypes
  <1>7. PICK S : S = posts[id].by[x]
    OBVIOUS
  <1>8. PICK T : T = IF u \in S THEN S \ {u} ELSE S \cup {u}
    OBVIOUS
  <1>9. PICK p : p = posts'[id]
    OBVIOUS
  <1>10. p \in PostTypes
    <2>1. PICK q \in PostTypes : posts' = [posts EXCEPT ![id] = q]
      BY <1>3 DEF Alters
    <2> QED BY <1>6, <1>9, <2>1
  <1>11. p.text = posts[id].text /\ p.empty = posts[id].empty /\ p.by[x] = T /\ \A y \in Faces : y # x => p.by[y] = posts[id].by[y]
    <2>1. p = [posts[id] EXCEPT !.by[x] = T]
      BY <1>6, <1>7, <1>8, <1>9 DEF React
    <2>2. p = [posts[id] EXCEPT !.by = [posts[id].by EXCEPT ![x] = T]]
      BY <1>5, <2>1 DEF PostTypes
    <2>3. p.text = posts[id].text /\ p.empty = posts[id].empty /\ p.by = [posts[id].by EXCEPT ![x] = T]
      BY <1>5, <2>2 DEF PostTypes
    <2> QED BY <1>5, <2>3
  <1>12. unsure \subseteq unsure' /\ (Answered(id) => id \in unsure')
    BY DEF React, Overtakes
  <1>13. Reacts(e, id) /\ ~Edits(e, id) /\ \A y \in Faces : ~ClearsFace(e, id, y)
    BY <1>4 DEF Edits, Reacts, ClearsFace
  <1>14. Conveys(e, id, posts[id], p)
    BY <1>11, <1>13 DEF Conveys
  <1>15. /\ Cardinality(S) \in Nat
         /\ u \notin S => Cardinality(S \cup {u}) = Cardinality(S) + 1
         /\ u \in S => /\ Cardinality(S) # 0 /\ Cardinality(S \ {u}) = Cardinality(S) - 1
                       /\ Cardinality(S) = 1 => S \ {u} = {}
    <2>1. IsFiniteSet(S)
      BY <1>5, <1>7
    <2> QED BY <2>1, OneUser
  <1>16. \A y \in Faces : <<Cardinality(p.by[y]), Self \in p.by[y]>>
                            = Turn(e, id, y, Cardinality(posts[id].by[y]), Self \in posts[id].by[y])
    <2> TAKE y \in Faces
    <2>1. CASE y # x
      BY <1>4, <1>11, <1>13, <2>1 DEF Turn, ReactsWith
    <2>2. CASE y = x /\ u \in S
      <3>1. e.type = "ReactionRemove" /\ p.by[y] = S \ {u} /\ posts[id].by[y] = S /\ ReactsWith(e, id, y)
        BY <1>4, <1>7, <1>8, <1>11, <1>13, <2>2 DEF ReactsWith
      <3>2. (Self \in (S \ {u})) = IF Cardinality(S) = 1 \/ u = Self THEN FALSE ELSE Self \in S
        <4>1. CASE Cardinality(S) = 1
          <5>1. S \ {u} = {}
            BY <1>15, <2>2, <4>1
          <5>2. (Self \in (S \ {u})) = FALSE
            BY <5>1
          <5> QED BY <4>1, <5>2, Zenon
        <4>2. CASE u = Self
          <5>1. (Self \in (S \ {u})) = FALSE
            BY <4>2
          <5> QED BY <4>2, <5>1, Zenon
        <4>3. CASE Cardinality(S) # 1 /\ u # Self
          <5>1. (Self \in (S \ {u})) = (Self \in S)
            BY <4>3
          <5> QED BY <4>3, <5>1, Zenon
        <4> QED BY <4>1, <4>2, <4>3
      <3>3. Turn(e, id, y, Cardinality(S), Self \in S)
              = <<Cardinality(S) - 1, IF Cardinality(S) = 1 \/ u = Self THEN FALSE ELSE Self \in S>>
        BY <1>4, <1>15, <2>2, <3>1 DEF Turn
      <3> QED BY <1>15, <2>2, <3>1, <3>2, <3>3
    <2>3. CASE y = x /\ u \notin S
      <3>1. e.type = "ReactionAdd" /\ p.by[y] = S \cup {u} /\ posts[id].by[y] = S /\ ReactsWith(e, id, y)
        BY <1>4, <1>7, <1>8, <1>11, <1>13, <2>3 DEF ReactsWith
      <3>2. (Self \in (S \cup {u})) = (Self \in S \/ u = Self)
        OBVIOUS
      <3>3. Turn(e, id, y, Cardinality(S), Self \in S) = <<Cardinality(S) + 1, Self \in S \/ u = Self>>
        BY <1>4, <3>1 DEF Turn
      <3> QED BY <1>15, <2>3, <3>1, <3>2, <3>3
    <2> QED BY <2>1, <2>2, <2>3
  <1>17. Freshens(e, id, posts[id], p)
    BY <1>5, <1>10, <1>11, <1>13, <1>16, TurnsFresh
  <1>18. Updating(e)
    BY <1>4 DEF Updating
  <1> QED BY <1>3, <1>4, <1>9, <1>12, <1>14, <1>17, <1>18, FreshAltered

LEMMA ClearEmojiFresh ==
  ASSUME KnownInv, FreshInv, NEW id \in DOMAIN posts, NEW x \in Faces, ClearEmoji(id, x)
  PROVE  FreshInv'
  <1>1. PICK e : e = [type |-> "ReactionRemoveEmoji", id |-> id, emoji |-> x]
    OBVIOUS
  <1>2. Alters(id, e)
    BY <1>1, ClearEmojiAlters
  <1>3. e.type = "ReactionRemoveEmoji" /\ e.id = id /\ e.emoji = x
    BY <1>1
  <1>4. id \in Ids /\ posts[id] \in PostTypes /\ posts[id].by \in [Faces -> SUBSET People]
    BY PostOf DEF KnownInv
  <1>5. posts \in [DOMAIN posts -> PostTypes]
    BY DEF KnownInv, MessageTypes
  <1>6. PICK p : p = posts'[id]
    OBVIOUS
  <1>7. p \in PostTypes
    <2>1. PICK q \in PostTypes : posts' = [posts EXCEPT ![id] = q]
      BY <1>2 DEF Alters
    <2> QED BY <1>5, <1>6, <2>1
  <1>8. p.text = posts[id].text /\ p.empty = posts[id].empty /\ p.by[x] = {} /\ \A y \in Faces : y # x => p.by[y] = posts[id].by[y]
    <2>1. p = [posts[id] EXCEPT !.by[x] = {}]
      BY <1>5, <1>6 DEF ClearEmoji
    <2>2. p = [posts[id] EXCEPT !.by = [posts[id].by EXCEPT ![x] = {}]]
      BY <1>4, <2>1 DEF PostTypes
    <2>3. p.text = posts[id].text /\ p.empty = posts[id].empty /\ p.by = [posts[id].by EXCEPT ![x] = {}]
      BY <1>4, <2>2 DEF PostTypes
    <2> QED BY <1>4, <2>3
  <1>9. unsure \subseteq unsure' /\ (Answered(id) => id \in unsure')
    BY DEF ClearEmoji, Overtakes
  <1>10. ~Edits(e, id) /\ ~Reacts(e, id) /\ \A y \in Faces : ClearsFace(e, id, y) <=> y = x
    BY <1>3 DEF Edits, Reacts, ClearsFace
  <1>11. Conveys(e, id, posts[id], p)
    BY <1>8, <1>10 DEF Conveys
  <1>12. \A y \in Faces : <<Cardinality(p.by[y]), Self \in p.by[y]>>
                            = Turn(e, id, y, Cardinality(posts[id].by[y]), Self \in posts[id].by[y])
    <2> TAKE y \in Faces
    <2>1. CASE y # x
      BY <1>8, <1>10, <2>1 DEF Turn, ReactsWith
    <2>2. CASE y = x
      <3>1. Cardinality({}) = 0 /\ (Self \in {}) = FALSE
        BY FS_EmptySet
      <3>2. Turn(e, id, y, Cardinality(posts[id].by[y]), Self \in posts[id].by[y]) = <<0, FALSE>>
        BY <1>10, <2>2 DEF Turn, ReactsWith
      <3>3. p.by[y] = {}
        BY <1>8, <2>2
      <3> QED BY <3>1, <3>2, <3>3, Zenon
    <2> QED BY <2>1, <2>2
  <1>13. Freshens(e, id, posts[id], p)
    BY <1>4, <1>7, <1>8, <1>10, <1>12, TurnsFresh
  <1>14. Updating(e)
    BY <1>3 DEF Updating
  <1> QED BY <1>2, <1>3, <1>6, <1>9, <1>11, <1>13, <1>14, FreshAltered

LEMMA ClearAllFresh ==
  ASSUME KnownInv, FreshInv, NEW id \in DOMAIN posts, ClearAll(id)
  PROVE  FreshInv'
  <1>1. PICK e : e = [type |-> "ReactionRemoveAll", id |-> id]
    OBVIOUS
  <1>2. Alters(id, e)
    BY <1>1, ClearAllAlters
  <1>3. e.type = "ReactionRemoveAll" /\ e.id = id
    BY <1>1
  <1>4. posts \in [DOMAIN posts -> PostTypes]
    BY DEF KnownInv, MessageTypes
  <1>5. PICK p : p = posts'[id]
    OBVIOUS
  <1>6. p.text = posts[id].text /\ \A x \in Faces : p.by[x] = {}
    <2>1. p = [posts[id] EXCEPT !.by = [x \in Faces |-> {}]]
      BY <1>4, <1>5 DEF ClearAll
    <2> QED BY <1>4, <2>1 DEF PostTypes
  <1>7. unsure \subseteq unsure' /\ id \in unsure'
    BY DEF ClearAll
  <1>8. Conveys(e, id, posts[id], p)
    BY <1>3, <1>6 DEF Conveys, Edits, Reacts, ClearsFace
  <1>9. Updating(e)
    BY <1>3 DEF Updating
  <1> QED BY <1>2, <1>3, <1>5, <1>7, <1>8, <1>9, FreshAltered
(* Nothing is said of a message: it stays.                                  *)
LEMMA KeepsOthers ==
  ASSUME MessageTypes, NEW e, NEW id, ~Edits(e, id), ~Reacts(e, id), \A x \in Faces : ~ClearsFace(e, id, x),
         id \in DOMAIN posts => id \in DOMAIN posts' /\ posts'[id] = posts[id], NEW lost
  PROVE  Keeps(e, id, posts, posts', lost)
  <1> SUFFICES ASSUME id \in DOMAIN posts
               PROVE  Keeps(e, id, posts, posts', lost)
    BY DEF Keeps
  <1>1. PICK p : p = posts[id]
    OBVIOUS
  <1>2. Freshens(e, id, p, p)
    BY StaysFresh
  <1> QED BY <1>1, <1>2 DEF Keeps

LEMMA DeleteFresh ==
  ASSUME KnownInv, FreshInv, NEW ids \in SUBSET DOMAIN posts, DeleteSome(ids)
  PROVE  FreshInv'
  <1>1. Unheard /\ latest' = latest
    BY DEF DeleteSome, Rest, sideVars, Unheard
  <1> SUFFICES ASSUME tracked
               PROVE  FreshInv'
    BY <1>1 DEF FreshInv, Unheard
  <1>2. MessageTypes /\ DOMAIN posts \subseteq latest /\ latest \subseteq Ids /\ AnswersAgree
    BY DEF KnownInv, MessageTypes, FreshInv
  <1>3. PICK e : e = [type |-> "MessageDeleteBulk", ids |-> ids]
    OBVIOUS
  <1>4. e \in MessageNews /\ e.type = "MessageDeleteBulk" /\ e.ids = ids
    BY <1>2, <1>3 DEF MessageNews
  <1>5. feed' = Append(feed, e)
    BY <1>3, SentNow DEF DeleteSome
  <1>6. DOMAIN posts' = DOMAIN posts \ ids /\ \A i \in DOMAIN posts' : posts'[i] = posts[i]
    BY DEF DeleteSome
  <1>7. unsure \subseteq unsure' /\ \A i \in ids : Answered(i) => i \in unsure'
    BY DEF DeleteSome
  <1>8. \A i : ~Edits(e, i) /\ ~Reacts(e, i) /\ \A x \in Faces : ~ClearsFace(e, i, x)
    BY <1>4 DEF Edits, Reacts, ClearsFace
  <1>9. ASSUME NEW i \in latest
        PROVE  Keeps(e, i, posts, posts', unsure')
    <2>1. CASE i \in ids
      BY <1>4, <2>1 DEF Keeps, Deletes
    <2>2. CASE i \notin ids
      BY <1>2, <1>6, <1>8, <2>2, KeepsOthers
    <2> QED BY <2>1, <2>2
  <1>10. \A i \in latest : Answered(i) => i \in unsure' \/ (posts'[i] = posts[i] /\ i \in DOMAIN posts' /\ ~Reacts(e, i))
    <2> SUFFICES ASSUME NEW i \in latest, Answered(i), i \notin unsure'
                 PROVE  posts'[i] = posts[i] /\ i \in DOMAIN posts' /\ ~Reacts(e, i)
      OBVIOUS
    <2>1. i \notin ids
      BY <1>7
    <2>2. i \in DOMAIN posts
      <3>1. PICK c \in Callers : \E k \in DOMAIN get[c].todo : get[c].todo[k].id = i
        BY DEF Answered
      <3>2. PICK k \in 1..Len(get[c].todo) : get[c].todo[k].id = i
        BY <1>2, <3>1, GetOf
      <3> QED BY <1>2, <1>7, <3>2 DEF AnswersAgree, InStep
    <2> QED BY <1>6, <1>8, <2>1, <2>2
  <1>11. \A i \in DOMAIN posts' : i \in DOMAIN posts /\ Conveys(e, i, posts[i], posts'[i])
    <2> TAKE i \in DOMAIN posts'
    <2>1. PICK q : q = posts[i]
      OBVIOUS
    <2>2. Conveys(e, i, q, q)
      BY <1>8, NothingSaid
    <2> QED BY <1>6, <2>1, <2>2
  <1>12. e.type # "Ready" /\ e.type # "MessageCreate" /\ ~Updating(e) /\ latest \subseteq latest'
    BY <1>1, <1>4 DEF Updating
  <1> QED BY <1>1, <1>4, <1>5, <1>7, <1>9, <1>10, <1>11, <1>12, FreshServer

LEMMA PostFresh ==
  ASSUME KnownInv, FreshInv, NEW id \in Ids, NEW empty \in BOOLEAN, Post(id, empty)
  PROVE  FreshInv'
  <1>1. Unheard /\ latest' = latest \cup {id} /\ id \notin latest /\ unsure' = unsure
    BY DEF Post, Rest, sideVars, Unheard
  <1> SUFFICES ASSUME tracked
               PROVE  FreshInv'
    BY <1>1 DEF FreshInv, Unheard
  <1>2. MessageTypes /\ DOMAIN posts \subseteq latest /\ latest \subseteq Ids /\ AnswersAgree
    BY DEF KnownInv, MessageTypes, FreshInv
  <1>3. PICK p : p = [text |-> IF empty THEN 0 ELSE 1, empty |-> empty, by |-> [x \in Faces |-> {}]]
    OBVIOUS
  <1>4. PICK e : e = [type |-> "MessageCreate", id |-> id, post |-> p]
    OBVIOUS
  <1>5. p \in PostTypes
    BY <1>3, FS_EmptySet DEF PostTypes
  <1>6. e \in MessageNews /\ e.type = "MessageCreate" /\ e.id = id /\ e.post = p
    BY <1>4, <1>5 DEF MessageNews
  <1>7. posts' = [i \in DOMAIN posts \cup {id} |-> IF i = id THEN p ELSE posts[i]] /\ feed' = Append(feed, e)
    BY <1>3, <1>4, SentNow DEF Post
  <1>8. /\ DOMAIN posts' = DOMAIN posts \cup {id} /\ posts'[id] = p /\ id \notin DOMAIN posts
        /\ \A i \in DOMAIN posts : posts'[i] = posts[i]
    BY <1>1, <1>2, <1>7
  <1>9. \A i : ~Edits(e, i) /\ ~Reacts(e, i) /\ \A x \in Faces : ~ClearsFace(e, i, x)
    BY <1>6 DEF Edits, Reacts, ClearsFace
  <1>10. \A i \in latest : Keeps(e, i, posts, posts', unsure')
    BY <1>2, <1>8, <1>9, KeepsOthers
  <1>11. \A i \in latest : Answered(i) => i \in unsure' \/ (posts'[i] = posts[i] /\ i \in DOMAIN posts' /\ ~Reacts(e, i))
    <2> SUFFICES ASSUME NEW i \in latest, Answered(i), i \notin unsure'
                 PROVE  posts'[i] = posts[i] /\ i \in DOMAIN posts' /\ ~Reacts(e, i)
      OBVIOUS
    <2>1. i \in DOMAIN posts
      <3>1. PICK c \in Callers : \E k \in DOMAIN get[c].todo : get[c].todo[k].id = i
        BY DEF Answered
      <3>2. PICK k \in 1..Len(get[c].todo) : get[c].todo[k].id = i
        BY <1>2, <3>1, GetOf
      <3> QED BY <1>1, <1>2, <3>2 DEF AnswersAgree, InStep
    <2> QED BY <1>8, <1>9, <2>1
  <1>12. \A i \in DOMAIN posts' : IF i \in DOMAIN posts THEN Conveys(e, i, posts[i], posts'[i])
                                  ELSE ~Updating(e) /\ i \notin latest
    <2> TAKE i \in DOMAIN posts'
    <2>1. CASE i \in DOMAIN posts
      <3>1. PICK q : q = posts[i]
        OBVIOUS
      <3>2. Conveys(e, i, q, q)
        BY <1>9, NothingSaid
      <3> QED BY <1>8, <2>1, <3>1, <3>2
    <2>2. CASE i \notin DOMAIN posts
      BY <1>1, <1>6, <1>8, <2>2 DEF Updating
    <2> QED BY <2>1, <2>2
  <1>13. e.type # "Ready" /\ ~Updating(e) /\ latest \subseteq latest' /\ unsure \subseteq unsure'
    BY <1>1, <1>6 DEF Updating
  <1>14. e.id \in DOMAIN posts' /\ posts'[e.id] = e.post /\ e.post \in PostTypes
    BY <1>5, <1>6, <1>8
  <1> QED BY <1>1, <1>6, <1>7, <1>10, <1>11, <1>12, <1>13, <1>14, FreshServer

LEMMA SessionFresh ==
  ASSUME KnownInv, FreshInv, NewSession
  PROVE  FreshInv'
  <1>1. PICK e : e = [type |-> "Ready"]
    OBVIOUS
  <1>2. feed' = <<e>> /\ Len(feed') = 1 /\ feed'[1] = e /\ e.type = "Ready"
    BY <1>1 DEF NewSession
  <1>3. msgs' = msgs /\ get' = get /\ posts' = posts /\ unsure' = unsure /\ latest' = latest /\ tracked' = tracked
    BY DEF NewSession, Rest, sideVars
  <1>4. \A n \in 1..Len(feed') : feed'[n].type = "Ready"
    BY <1>2
  <1>5. HeldAgree'
    BY <1>2 DEF HeldAgree, Resets
  <1>6. ComingAgree' /\ ContentsTold' /\ ContentsKnown'
    BY <1>4 DEF ComingAgree, ContentsTold, TextTold, FacesTold, Edits, ClearsFace, ContentsKnown, Updating
  <1>7. AnswersAgree => AnswersAgree'
    BY <1>3, <1>4 DEF AnswersAgree, InStep, Reacts
  <1> QED BY <1>3, <1>5, <1>6, <1>7 DEF FreshInv
(* MessageSet of a new message holds that one and what was held.            *)
LEMMA AddHolds ==
  ASSUME NEW list \in Lists, NEW m \in CachedTypes, NEW r, r = AddMessage(list, m)
  PROVE  \A i \in 1..Len(r) : r[i] = m \/ \E j \in 1..Len(list) : r[i] = list[j]
  <1>1. r \in Seq(CachedTypes) /\ (AtFront(list, m, r) \/ AtBack(list, m, r) \/ LeftOut(list, m, r))
    BY AddCases
  <1>2. list \in Seq(CachedTypes) /\ Len(list) \in Nat /\ maxMsgs \in Nat
    BY ListTypes
  <1>3. CASE AtFront(list, m, r)
    <2>1. \A i \in 1..Len(r) : i = 1 \/ (i \in 2..Len(r) /\ i - 1 \in 1..Len(list) /\ r[i] = list[i - 1])
      BY <1>2, <1>3 DEF AtFront
    <2> QED BY <1>3, <2>1 DEF AtFront
  <1>4. CASE AtBack(list, m, r)
    <2>1. \A i \in 1..Len(r) : (i = Len(list) + 1 /\ r[i] = m) \/ (i \in 1..Len(list) /\ r[i] = list[i])
      BY <1>2, <1>4 DEF AtBack
    <2> QED BY <2>1
  <1>5. CASE LeftOut(list, m, r)
    BY <1>5 DEF LeftOut
  <1> QED BY <1>1, <1>3, <1>4, <1>5

(* The list after an event that starts no session.                          *)
LEMMA HeldFresh ==
  ASSUME KnownInv, FreshInv, tracked, MessageEvent, NEW e, e = feed[1], e.type # "Ready",
         \A i \in 1..Len(msgs) : Agrees(msgs[i], 0, feed, posts, unsure)
  PROVE  \A i \in 1..Len(msgs') : Agrees(msgs'[i], 0, feed', posts, unsure)
  <1>1. /\ Shrank /\ e \in MessageNews /\ MessageTypes /\ msgs \in Lists
        /\ e.type = "MessageCreate" => msgs' = AddMessage(msgs, Seen(e.id, e.post))
        /\ e.type = "MessageDeleteBulk" => msgs' = MessageRemove(msgs, e.ids)
        /\ Updating(e) => msgs' = EventOn(msgs, e)
        /\ \/ e.type = "MessageCreate" \/ e.type = "MessageDeleteBulk" \/ Updating(e)
    BY EventTaken DEF KnownInv, MessageTypes
  <1>2. Less(feed, feed')
    BY <1>1 DEF Shrank, Less
  <1>3. ASSUME NEW i \in 1..Len(msgs), NEW r, TurnedInto(msgs[i], e, r), ~Deletes(e, msgs[i].id)
        PROVE  Agrees(r, 0, feed', posts, unsure)
    BY <1>2, <1>3, AgreesTaken
  <1>4. \A i \in 1..Len(msgs) : msgs[i] \in CachedTypes
    BY <1>1, ListTypes
  <1>5. CASE e.type = "MessageCreate"
    <2>1. PICK m : m = Seen(e.id, e.post)
      OBVIOUS
    <2>2. m \in CachedTypes
      BY <1>1, <1>5, <2>1, NewsKinds, SeenTypes
    <2>3. PICK r : r = AddMessage(msgs, m)
      OBVIOUS
    <2>4. msgs' = r /\ \A i \in 1..Len(r) : r[i] = m \/ \E j \in 1..Len(msgs) : r[i] = msgs[j]
      BY <1>1, <1>5, <2>1, <2>2, <2>3, AddHolds
    <2>5. Agrees(m, 0, feed', posts, unsure)
      <3>1. 1 \in 1..Len(feed) /\ 1 \in Nat /\ 1 # 0 /\ 1 <= Len(feed) /\ 1 - 1 = 0
        BY <1>2 DEF Less
      <3>2. Agrees(m, 1, feed, posts, unsure)
        BY <1>5, <2>1, <3>1 DEF FreshInv, ComingAgree
      <3> QED BY <1>2, <3>1, <3>2, AgreesLess
    <2>6. \A j \in 1..Len(msgs) : Agrees(msgs[j], 0, feed', posts, unsure)
      <3> TAKE j \in 1..Len(msgs)
      <3>1. ~Edits(e, msgs[j].id) /\ ~Reacts(e, msgs[j].id) /\ ~Deletes(e, msgs[j].id)
            /\ \A x \in Faces : ~ClearsFace(e, msgs[j].id, x)
        BY <1>5 DEF Edits, Reacts, Deletes, ClearsFace
      <3>2. TurnedInto(msgs[j], e, msgs[j])
        BY <1>4, <3>1, TurnNothing
      <3> QED BY <1>3, <3>1, <3>2
    <2> QED BY <2>4, <2>5, <2>6
  <1>6. CASE e.type = "MessageDeleteBulk"
    <2>1. PICK r : r = MessageRemove(msgs, e.ids)
      OBVIOUS
    <2>2. Spares(msgs, e.ids, r)
      BY <1>1, <2>1, RemoveSome
    <2>3. msgs' = r /\ \A i \in 1..Len(r) : r[i].id \notin e.ids /\ \E j \in 1..Len(msgs) : r[i] = msgs[j]
      BY <1>1, <1>6, <2>1, <2>2 DEF Spares
    <2>4. \A j \in 1..Len(msgs) : msgs[j].id \notin e.ids => Agrees(msgs[j], 0, feed', posts, unsure)
      <3> TAKE j \in 1..Len(msgs)
      <3> HAVE msgs[j].id \notin e.ids
      <3>1. ~Edits(e, msgs[j].id) /\ ~Reacts(e, msgs[j].id) /\ ~Deletes(e, msgs[j].id)
            /\ \A x \in Faces : ~ClearsFace(e, msgs[j].id, x)
        BY <1>6 DEF Edits, Reacts, Deletes, ClearsFace
      <3>2. TurnedInto(msgs[j], e, msgs[j])
        BY <1>4, <3>1, TurnNothing
      <3> QED BY <1>3, <3>1, <3>2
    <2> QED BY <2>3, <2>4
  <1>7. CASE Updating(e)
    <2>1. PICK r : r = EventOn(msgs, e)
      OBVIOUS
    <2>2. Len(r) = Len(msgs) /\ \A i \in 1..Len(msgs) : TurnedInto(msgs[i], e, r[i])
      BY <1>1, <1>7, <2>1, TurnList
    <2>3. \A id : ~Deletes(e, id)
      BY <1>7 DEF Updating, Deletes
    <2>4. \A i \in 1..Len(msgs) : Agrees(r[i], 0, feed', posts, unsure)
      BY <1>3, <2>2, <2>3
    <2>5. msgs' = r
      BY <1>1, <1>7, <2>1
    <2> QED BY <2>2, <2>4, <2>5
  <1> QED BY <1>1, <1>5, <1>6, <1>7

LEMMA EventFresh ==
  ASSUME KnownInv, FreshInv, MessageEvent
  PROVE  FreshInv'
  <1>1. PICK e : e = feed[1]
    OBVIOUS
  <1>2. Shrank /\ tracked' = tracked /\ posts' = posts /\ latest' = latest /\ get' = get /\ unsure' = unsure
    BY <1>1, EventTaken
  <1> SUFFICES ASSUME tracked
               PROVE  HeldAgree' /\ ComingAgree' /\ AnswersAgree' /\ ContentsTold' /\ ContentsKnown'
    BY <1>2 DEF FreshInv
  <1>3. HeldAgree /\ ComingAgree /\ AnswersAgree /\ ContentsTold /\ ContentsKnown
    BY DEF FreshInv
  <1>4. Less(feed, feed')
    BY <1>2 DEF Shrank, Less
  <1>5. \A n \in 1..Len(feed') : /\ feed'[n] = feed[n + 1] /\ n + 1 \in 1..Len(feed) /\ n + 1 \in Nat
                                 /\ n + 1 # 0 /\ n + 1 <= Len(feed) /\ (n + 1) - 1 = n /\ n + 1 # 1
    BY <1>4 DEF Less
  <1>6. HeldAgree'
    <2>1. CASE e.type = "Ready"
      <3>1. msgs' = <<>>
        BY <1>1, <2>1, EventTaken
      <3> QED BY <3>1 DEF HeldAgree
    <2>2. CASE e.type # "Ready"
      <3>1. ~Resets
        <4>1. \A n \in 1..Len(feed) : feed[n].type = "Ready" => n = 1
          BY DEF KnownInv, KnownFeed
        <4> QED BY <1>1, <2>2, <4>1 DEF Resets
      <3>2. \A i \in 1..Len(msgs') : Agrees(msgs'[i], 0, feed', posts, unsure)
        BY <1>1, <1>3, <2>2, <3>1, HeldFresh DEF HeldAgree
      <3> QED BY <1>2, <3>2 DEF HeldAgree
    <2> QED BY <2>1, <2>2
  <1>7. ComingAgree'
    <2> SUFFICES ASSUME NEW n \in 1..Len(feed'), feed'[n].type = "MessageCreate"
                 PROVE  Agrees(Seen(feed'[n].id, feed'[n].post), n, feed', posts, unsure)
      BY <1>2 DEF ComingAgree
    <2>1. PICK m : m = Seen(feed'[n].id, feed'[n].post)
      OBVIOUS
    <2>2. PICK k : k = n + 1
      OBVIOUS
    <2>3. k \in 1..Len(feed) /\ k \in Nat /\ k # 0 /\ k <= Len(feed) /\ k - 1 = n /\ feed'[n] = feed[k]
      BY <1>5, <2>2
    <2>4. Agrees(m, k, feed, posts, unsure)
      BY <1>3, <2>1, <2>3 DEF ComingAgree
    <2>5. Agrees(m, k - 1, feed', posts, unsure)
      BY <1>4, <2>3, <2>4, AgreesLess
    <2> QED BY <2>1, <2>3, <2>5
  <1>8. AnswersAgree'
    BY <1>3, <1>5, <1>2 DEF AnswersAgree, InStep
  <1>9. ContentsTold'
    BY <1>3, <1>4, <1>2, ToldLess DEF ContentsTold
  <1>10. ContentsKnown'
    BY <1>3, <1>5, <1>2 DEF ContentsKnown
  <1> QED BY <1>6, <1>7, <1>8, <1>9, <1>10
-----------------------------------------------------------------------------
(* Calls, and what agrees.                                                  *)

(* A step of a call that gives it only what is in step.                     *)
LEMMA CallFresh ==
  ASSUME FreshInv, tracked' = tracked, posts' = posts, latest' = latest, feed' = feed, msgs' = msgs,
         unsure \subseteq unsure',
         \A d \in Callers : \A i \in 1..Len(get'[d].todo) :
             \/ \E j \in 1..Len(get[d].todo) : get'[d].todo[i] = get[d].todo[j]
             \/ InStep(get'[d].todo[i], feed, posts, unsure')
  PROVE  FreshInv'
  <1> SUFFICES ASSUME tracked
               PROVE  HeldAgree' /\ ComingAgree' /\ AnswersAgree' /\ ContentsTold' /\ ContentsKnown'
    BY DEF FreshInv
  <1>1. HeldAgree /\ ComingAgree /\ AnswersAgree /\ ContentsTold /\ ContentsKnown
    BY DEF FreshInv
  <1>2. \A m, n : Agrees(m, n, feed, posts, unsure) => Agrees(m, n, feed', posts', unsure')
    BY DEF Agrees
  <1>3. HeldAgree'
    BY <1>1, <1>2 DEF HeldAgree, Resets
  <1>4. ComingAgree'
    BY <1>1, <1>2 DEF ComingAgree
  <1>5. AnswersAgree'
    <2>1. \A m : InStep(m, feed, posts, unsure) => InStep(m, feed, posts, unsure')
      BY DEF InStep
    <2>2. ASSUME NEW d \in Callers, NEW i \in 1..Len(get'[d].todo)
          PROVE  InStep(get'[d].todo[i], feed, posts, unsure')
      <3>1. CASE \E j \in 1..Len(get[d].todo) : get'[d].todo[i] = get[d].todo[j]
        <4>1. PICK j \in 1..Len(get[d].todo) : get'[d].todo[i] = get[d].todo[j]
          BY <3>1
        <4>2. InStep(get[d].todo[j], feed, posts, unsure)
          BY <1>1 DEF AnswersAgree
        <4> QED BY <2>1, <4>1, <4>2
      <3> QED BY <3>1
    <2> QED BY <2>2 DEF AnswersAgree
  <1>6. ContentsTold' /\ ContentsKnown'
    BY <1>1 DEF ContentsTold, ContentsKnown
  <1> QED BY <1>3, <1>4, <1>5, <1>6

(* A step of a call after which it has nothing to store.                    *)
LEMMA RestFresh ==
  ASSUME KnownInv, FreshInv, tracked' = tracked, posts' = posts, latest' = latest, feed' = feed, msgs' = msgs,
         unsure' = unsure, NEW c \in Callers, NEW g, g.todo = <<>>, get' = [get EXCEPT ![c] = g]
  PROVE  FreshInv'
  <1>1. get \in [Callers -> GetTypes]
    BY DEF KnownInv, MessageTypes
  <1>2. get'[c] = g /\ (\A d \in Callers : d # c => get'[d] = get[d]) /\ Len(g.todo) = 0 /\ 1..0 = {}
    BY <1>1
  <1>3. \A d \in Callers : \A i \in 1..Len(get'[d].todo) :
            \E j \in 1..Len(get[d].todo) : get'[d].todo[i] = get[d].todo[j]
    BY <1>2
  <1> QED BY <1>3, CallFresh

LEMMA AskFresh ==
  ASSUME KnownInv, FreshInv, NEW c \in Callers,
         (\E limit \in Limits : MessagesCall(c, limit)) \/ MessagesReturn(c) \/ Forget(c)
  PROVE  FreshInv'
  <1>1. /\ tracked' = tracked /\ posts' = posts /\ latest' = latest /\ feed' = feed /\ msgs' = msgs
        /\ unsure' = unsure
    BY DEF MessagesCall, MessagesReturn, Forget, sideVars
  <1>2. \A phase, limit, have, ask, api : Call(phase, limit, have, ask, <<>>, api).todo = <<>>
    BY DEF Call
  <1>3. ASSUME NEW limit, NEW n, Returns(c, limit, n)
        PROVE  \E g : g.todo = <<>> /\ get' = [get EXCEPT ![c] = g]
    <2>1. PICK g : g = [NoCall EXCEPT !.phase = "done", !.limit = limit, !.api = n]
      OBVIOUS
    <2>2. g = Call("done", limit, <<>>, 0, <<>>, n)
      BY <2>1, CallDone
    <2>3. get' = [get EXCEPT ![c] = g]
      BY <1>3, <2>1 DEF Returns
    <2> QED BY <1>2, <2>2, <2>3
  <1>4. \E g : g.todo = <<>> /\ get' = [get EXCEPT ![c] = g]
    <2>1. CASE \E limit \in Limits : MessagesCall(c, limit)
      <3>1. PICK limit \in Limits : MessagesCall(c, limit)
        BY <2>1
      <3>2. PICK have : have = IF tracked THEN msgs ELSE <<>>
        OBVIOUS
      <3>3. PICK fetch : fetch = (IF limit < maxMsgs THEN maxMsgs ELSE limit) - Len(have)
        OBVIOUS
      <3>4. \/ Returns(c, limit, Len(have)) \/ Returns(c, limit, limit)
            \/ get' = [get EXCEPT ![c] = [NoCall EXCEPT !.phase = "asked", !.limit = limit, !.have = have, !.ask = fetch]]
        BY <3>1, <3>2, <3>3 DEF MessagesCall
      <3>5. CASE get' = [get EXCEPT ![c] = [NoCall EXCEPT !.phase = "asked", !.limit = limit, !.have = have, !.ask = fetch]]
        <4>1. PICK g : g = [NoCall EXCEPT !.phase = "asked", !.limit = limit, !.have = have, !.ask = fetch]
          OBVIOUS
        <4>2. g = Call("asked", limit, have, fetch, <<>>, 0)
          BY <4>1, CallAsked
        <4>3. g.todo = <<>>
          BY <1>2, <4>2
        <4>4. get' = [get EXCEPT ![c] = g]
          BY <3>5, <4>1
        <4> QED BY <4>3, <4>4
      <3> QED BY <1>3, <3>4, <3>5
    <2>2. CASE MessagesReturn(c)
      BY <1>3, <2>2 DEF MessagesReturn
    <2>3. CASE Forget(c)
      <3>1. NoCall.todo = <<>>
        BY DEF NoCall
      <3> QED BY <2>3, <3>1 DEF Forget
    <2> QED BY <2>1, <2>2, <2>3
  <1> QED BY <1>1, <1>4, RestFresh
LEMMA AnswerFresh ==
  ASSUME KnownInv, FreshInv, NEW c \in Callers, MessagesAnswer(c)
  PROVE  FreshInv'
  <1>1. /\ tracked' = tracked /\ posts' = posts /\ latest' = latest /\ feed' = feed /\ msgs' = msgs
        /\ get[c].phase = "asked" /\ MessageTypes /\ get \in [Callers -> GetTypes]
    BY DEF MessagesAnswer, sideVars, KnownInv, MessageTypes
  <1>2. PICK ids : ids = Older(get[c].have)
    OBVIOUS
  <1>3. PICK some : some = Latest(ids, get[c].ask)
    OBVIOUS
  <1>4. \/ /\ get' = [get EXCEPT ![c].phase = "answered", ![c].api = Len(some),
                                 ![c].todo = [i \in DOMAIN some |-> Seen(some[i], posts[some[i]])]]
           /\ unsure' = unsure \cup (Behind({"ReactionAdd", "ReactionRemove"}) \cap ToSet(some))
        \/ get' = [get EXCEPT ![c] = NoCall] /\ unsure' = unsure
    BY <1>2, <1>3 DEF MessagesAnswer, Latest
  <1>5. CASE get' = [get EXCEPT ![c] = NoCall] /\ unsure' = unsure
    <2>1. NoCall.todo = <<>>
      BY DEF NoCall
    <2> QED BY <1>1, <1>5, <2>1, RestFresh
  <1>6. CASE /\ get' = [get EXCEPT ![c].phase = "answered", ![c].api = Len(some),
                                   ![c].todo = [i \in DOMAIN some |-> Seen(some[i], posts[some[i]])]]
             /\ unsure' = unsure \cup (Behind({"ReactionAdd", "ReactionRemove"}) \cap ToSet(some))
    <2>1. ids \in SUBSET Ids /\ ids \subseteq DOMAIN posts /\ DOMAIN posts \subseteq latest
      BY <1>1, <1>2 DEF Older, MessageTypes
    <2>2. get[c].ask \in Nat /\ get[c] \in GetTypes
      BY <1>1, GetOf
    <2>3. /\ some \in Seq(Ids) /\ Len(some) \in Nat /\ DOMAIN some = 1..Len(some)
          /\ \A k \in 1..Len(some) : some[k] \in ids
      BY <1>3, <2>1, <2>2, AnswerIs DEF LatestOf
    <2>4. PICK todo : todo = [i \in 1..Len(some) |-> Seen(some[i], posts[some[i]])]
      OBVIOUS
    <2>5. Len(todo) = Len(some) /\ DOMAIN todo = 1..Len(some)
      BY <2>3, <2>4
    <2>6. ASSUME NEW i \in 1..Len(some)
          PROVE  InStep(todo[i], feed, posts, unsure')
      <3>1. some[i] \in DOMAIN posts /\ todo[i] = Seen(some[i], posts[some[i]]) /\ todo[i].id = some[i]
        BY <2>1, <2>3, <2>4 DEF Seen
      <3>2. some[i] \in unsure' \/ \A n \in 1..Len(feed) : ~Reacts(feed[n], some[i])
        <4>1. some[i] \in ToSet(some) /\ some[i] \in Ids
          BY <2>1, <2>3 DEF ToSet
        <4>2. DOMAIN feed = 1..Len(feed)
          BY <1>1 DEF MessageTypes
        <4>3. (\E n \in 1..Len(feed) : Reacts(feed[n], some[i])) => some[i] \in Behind({"ReactionAdd", "ReactionRemove"})
          BY <4>1, <4>2 DEF Reacts, Behind
        <4> QED BY <1>6, <4>1, <4>3
      <3> QED BY <3>1, <3>2 DEF InStep
    <2>7. PICK g : g = [get[c] EXCEPT !.phase = "answered", !.api = Len(some), !.todo = todo]
      OBVIOUS
    <2>8. g.todo = todo
      BY <2>2, <2>7 DEF GetTypes
    <2>9. get' = [get EXCEPT ![c] = g]
      BY <1>6, <2>3, <2>4, <2>7
    <2>10. get'[c].todo = todo /\ \A d \in Callers : d # c => get'[d] = get[d]
      BY <1>1, <2>8, <2>9
    <2>11. unsure \subseteq unsure'
      BY <1>6
    <2>12. \A d \in Callers : \A i \in 1..Len(get'[d].todo) :
             \/ \E j \in 1..Len(get[d].todo) : get'[d].todo[i] = get[d].todo[j]
             \/ InStep(get'[d].todo[i], feed, posts, unsure')
      BY <2>5, <2>6, <2>10
    <2> QED BY <1>1, <2>11, <2>12, CallFresh
  <1> QED BY <1>4, <1>5, <1>6

LEMMA StoreFresh ==
  ASSUME KnownInv, FreshInv, NEW c \in Callers, MessagesStore(c)
  PROVE  FreshInv'
  <1>1. /\ tracked' = tracked /\ posts' = posts /\ latest' = latest /\ feed' = feed /\ msgs' = msgs /\ unsure' = unsure
        /\ tracked \in BOOLEAN /\ MessageTypes /\ get \in [Callers -> GetTypes]
    BY DEF MessagesStore, sideVars, KnownInv, MessageTypes
  <1>2. /\ get[c] \in GetTypes /\ get[c].todo \in Seq(CachedTypes) /\ Len(get[c].todo) \in Nat
        /\ Len(get[c].have) \in Nat /\ Len(get[c].have) <= maxMsgs /\ maxMsgs \in Nat
    BY <1>1, GetOf, ListTypes
  <1>3. PICK room : room = IF tracked THEN maxMsgs - Len(get[c].have) ELSE 0
    OBVIOUS
  <1>4. PICK todo : todo = IF Len(get[c].todo) < room THEN get[c].todo ELSE SubSeq(get[c].todo, 1, room)
    OBVIOUS
  <1>5. room \in Nat
    BY <1>2, <1>3
  <1>6. \A i \in 1..Len(todo) : i \in 1..Len(get[c].todo) /\ todo[i] = get[c].todo[i]
    <2>1. CASE Len(get[c].todo) < room
      BY <1>4, <2>1
    <2>2. CASE ~(Len(get[c].todo) < room)
      <3>1. todo = SubSeq(get[c].todo, 1, room) /\ room \in 0..Len(get[c].todo)
        BY <1>2, <1>4, <1>5, <2>2
      <3> QED BY <1>2, <1>5, <3>1
    <2> QED BY <2>1, <2>2
  <1>7. get'[c].todo = todo /\ \A d \in Callers : d # c => get'[d] = get[d]
    <2>1. PICK g : g = [get[c] EXCEPT !.phase = "storing", !.todo = todo]
      OBVIOUS
    <2>2. g.todo = todo
      BY <1>2, <2>1 DEF GetTypes
    <2>3. get' = [get EXCEPT ![c].phase = "storing", ![c].todo = todo]
      BY <1>3, <1>4 DEF MessagesStore
    <2>4. get' = [get EXCEPT ![c] = g]
      BY <2>1, <2>3
    <2> QED BY <1>1, <2>2, <2>4
  <1>8. \A d \in Callers : \A i \in 1..Len(get'[d].todo) :
            \E j \in 1..Len(get[d].todo) : get'[d].todo[i] = get[d].todo[j]
    BY <1>6, <1>7
  <1> QED BY <1>1, <1>8, CallFresh

LEMMA StoreOneFresh ==
  ASSUME KnownInv, FreshInv, NEW c \in Callers, StoreOne(c)
  PROVE  FreshInv'
  <1>1. PICK m : m = get[c].todo[1]
    OBVIOUS
  <1>2. PICK g : g = [get[c] EXCEPT !.todo = Tail(get[c].todo)]
    OBVIOUS
  <1>3. /\ tracked' = tracked /\ posts' = posts /\ latest' = latest /\ feed' = feed
        /\ tracked /\ m \in CachedTypes /\ msgs' = AddMessage(msgs, m) /\ get' = [get EXCEPT ![c] = g]
        /\ Len(g.todo) \in Nat /\ Len(get[c].todo) = Len(g.todo) + 1
        /\ \A i \in 1..Len(g.todo) : i + 1 \in 1..Len(get[c].todo) /\ g.todo[i] = get[c].todo[i + 1]
    BY <1>1, <1>2, StoreTaken
  <1>4. /\ unsure' = unsure /\ MessageTypes /\ msgs \in Lists /\ get \in [Callers -> GetTypes]
        /\ feed \in Seq(MessageNews)
    BY DEF StoreOne, KnownInv, MessageTypes
  <1>5. HeldAgree /\ ComingAgree /\ AnswersAgree /\ ContentsTold /\ ContentsKnown
    BY <1>3 DEF FreshInv
  <1>6. Agrees(m, 0, feed, posts, unsure)
    <2>1. 1 \in 1..Len(get[c].todo)
      BY <1>3
    <2>2. InStep(m, feed, posts, unsure)
      BY <1>1, <1>5, <2>1 DEF AnswersAgree
    <2>3. CASE m.id \in unsure
      BY <2>3 DEF Agrees
    <2>4. CASE m.id \in DOMAIN posts /\ m = Seen(m.id, posts[m.id]) /\ \A n \in 1..Len(feed) : ~Reacts(feed[n], m.id)
      <3>1. PICK id \in DOMAIN posts : id = m.id
        BY <2>4
      <3>2. PICK p : p = posts[id]
        OBVIOUS
      <3>3. id \in Ids /\ p \in PostTypes /\ m = Seen(id, p) /\ \A n \in 1..Len(feed) : ~Reacts(feed[n], id)
        BY <1>4, <2>4, <3>1, <3>2, PostOf
      <3>4. TextTold(feed, id, p) /\ FacesTold(feed, id, p)
        BY <1>5, <3>2 DEF ContentsTold
      <3>5. \E last : Looks(last, id, p) /\ Becomes(m, 0, feed, last)
        BY <1>4, <3>3, <3>4, StoredBecomes
      <3> QED BY <2>4, <3>1, <3>2, <3>5 DEF Agrees
    <2> QED BY <2>2, <2>3, <2>4 DEF InStep
  <1>7. PICK r : r = AddMessage(msgs, m)
    OBVIOUS
  <1>8. \A i \in 1..Len(r) : r[i] = m \/ \E j \in 1..Len(msgs) : r[i] = msgs[j]
    BY <1>3, <1>4, <1>7, AddHolds
  <1>9. HeldAgree'
    <2>1. Resets \/ \A i \in 1..Len(r) : Agrees(r[i], 0, feed, posts, unsure)
      BY <1>5, <1>6, <1>8 DEF HeldAgree
    <2>2. msgs' = r
      BY <1>3, <1>7
    <2> QED BY <1>3, <1>4, <2>1, <2>2 DEF HeldAgree, Resets
  <1>10. ComingAgree' /\ ContentsTold' /\ ContentsKnown'
    BY <1>3, <1>4, <1>5 DEF ComingAgree, ContentsTold, ContentsKnown
  <1>11. AnswersAgree'
    <2>1. get'[c] = g /\ \A d \in Callers : d # c => get'[d] = get[d]
      BY <1>3, <1>4
    <2>2. \A d \in Callers : \A i \in 1..Len(get'[d].todo) : InStep(get'[d].todo[i], feed, posts, unsure)
      BY <1>3, <1>5, <2>1 DEF AnswersAgree
    <2> QED BY <1>3, <1>4, <2>2 DEF AnswersAgree
  <1> QED BY <1>9, <1>10, <1>11 DEF FreshInv

-----------------------------------------------------------------------------
(* All of it, for what is cached.                                           *)

LEMMA FreshStep ==
  ASSUME KnownInv, FreshInv, [MessagesNext]_messageVars
  PROVE  FreshInv'
  <1>1. CASE MessageServer
    <2>1. CASE \E id \in Ids, empty \in BOOLEAN : Post(id, empty)
      BY <2>1, PostFresh
    <2>2. CASE \E id \in DOMAIN posts : ClearAll(id) \/ \E empties \in BOOLEAN : Edit(id, empties)
      BY <2>2, EditFresh, ClearAllFresh
    <2>3. CASE \E ids \in SUBSET DOMAIN posts : Cardinality(ids) \in 1..2 /\ DeleteSome(ids)
      BY <2>3, DeleteFresh
    <2>4. CASE \E id \in DOMAIN posts, x \in Faces : ClearEmoji(id, x) \/ \E u \in People : React(id, x, u)
      BY <2>4, ClearEmojiFresh, ReactFresh
    <2>5. CASE NewSession
      BY <2>5, SessionFresh
    <2> QED BY <1>1, <2>1, <2>2, <2>3, <2>4, <2>5 DEF MessageServer
  <1>2. CASE MessageEvent
    BY <1>2, EventFresh
  <1>3. CASE ClearFew \/ UNCHANGED messageVars
    <2>1. /\ tracked' = tracked /\ posts' = posts /\ latest' = latest /\ feed' = feed /\ msgs' = msgs
          /\ get' = get /\ unsure' = unsure
      BY <1>3 DEF ClearFew, messageVars, sideVars
    <2>2. \A d \in Callers : \A i \in 1..Len(get'[d].todo) :
              \E j \in 1..Len(get[d].todo) : get'[d].todo[i] = get[d].todo[j]
      BY <2>1
    <2> QED BY <2>1, <2>2, CallFresh
  <1>4. ASSUME NEW c \in Callers,
               \/ \E limit \in Limits : MessagesCall(c, limit)
               \/ MessagesAnswer(c) \/ MessagesStore(c) \/ StoreOne(c) \/ MessagesReturn(c) \/ Forget(c)
        PROVE  FreshInv'
    <2>1. CASE (\E limit \in Limits : MessagesCall(c, limit)) \/ MessagesReturn(c) \/ Forget(c)
      BY <2>1, AskFresh
    <2>2. CASE MessagesAnswer(c)
      BY <2>2, AnswerFresh
    <2>3. CASE MessagesStore(c)
      BY <2>3, StoreFresh
    <2>4. CASE StoreOne(c)
      BY <2>4, StoreOneFresh
    <2> QED BY <1>4, <2>1, <2>2, <2>3, <2>4
  <1> QED BY <1>1, <1>2, <1>3, <1>4 DEF MessagesNext

LEMMA FreshShows ==
  ASSUME KnownInv, FreshInv
  PROVE  MessagesFresh
  <1> SUFFICES ASSUME feed = <<>>, NEW i \in DOMAIN msgs, msgs[i].id \notin unsure
               PROVE  msgs[i].id \in DOMAIN posts /\ Fresh(msgs[i], posts[msgs[i].id])
    BY DEF MessagesFresh
  <1>1. msgs \in Lists
    BY DEF KnownInv, MessageTypes
  <1>2. i \in 1..Len(msgs) /\ msgs # <<>>
    BY <1>1, ListTypes
  <1>3. tracked
    BY <1>2 DEF KnownInv, Untracked
  <1>4. Len(feed) = 0 /\ 1..0 = {} /\ (0 + 1)..0 = {}
    OBVIOUS
  <1>5. ~Resets
    BY <1>4 DEF Resets
  <1>6. Agrees(msgs[i], 0, feed, posts, unsure)
    BY <1>2, <1>3, <1>5 DEF FreshInv, HeldAgree
  <1>7. /\ msgs[i].id \in DOMAIN posts
        /\ \E last : Looks(last, msgs[i].id, posts[msgs[i].id]) /\ Becomes(msgs[i], 0, feed, last)
    BY <1>4, <1>6 DEF Agrees
  <1>8. Looks(msgs[i], msgs[i].id, posts[msgs[i].id])
    BY <1>4, <1>7 DEF Becomes
  <1>9. MessageTypes
    BY DEF KnownInv
  <1>10. PICK id \in DOMAIN posts : id = msgs[i].id
    BY <1>7
  <1>11. id \in Ids /\ posts[id] \in PostTypes
    BY <1>9, PostOf
  <1> QED BY <1>8, <1>10, <1>11, LooksFresh

(* When the handler has caught up, each cached message has the reactions    *)
(* that it has in the channel, and its text, or the last it had if an edit  *)
(* has left none, but for those that an answer of the API or a removal of   *)
(* all reactions has left in doubt.                                         *)
THEOREM CachedMessagesAreFresh == MessagesSpec => []MessagesFresh
  <1>1. MessagesInit => ListInv /\ FreshInv
    <2> SUFFICES ASSUME MessagesInit
                 PROVE  FreshInv
      BY ListStarts
    <2>1. Len(<<>>) = 0 /\ 1..0 = {} /\ feed = <<>> /\ msgs = <<>> /\ posts = <<>> /\ DOMAIN posts = {}
      BY DEF MessagesInit
    <2>2. \A c \in Callers : get[c].todo = <<>>
      BY DEF MessagesInit, NoCall
    <2> QED BY <2>1, <2>2 DEF FreshInv, HeldAgree, ComingAgree, AnswersAgree, ContentsTold, ContentsKnown
  <1>2. ListInv /\ FreshInv /\ [MessagesNext]_messageVars => ListInv' /\ FreshInv'
    BY ListStep, FreshStep DEF ListInv
  <1>3. ListInv /\ FreshInv => MessagesFresh
    BY FreshShows DEF ListInv
  <1> QED BY <1>1, <1>2, <1>3, PTL DEF MessagesSpec
=============================================================================
