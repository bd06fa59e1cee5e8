---------------------------- MODULE HandlerProofs ----------------------------
(***************************************************************************)
(* Why a handler of Handler stays registered until its own rm is called:    *)
(* the free list of its slab; and why events reach the handlers they are    *)
(* for, in order where that is promised.                                    *)
(***************************************************************************)
EXTENDS Handler, SequenceTheorems, TLAPS

(* Free lists, apart from the state: what Put and Pop do to one.            *)
LEMMA ListBounds ==
  ASSUME NEW seq \in Seq(EntryType), NEW list \in Seq(Nat), NEW head \in Nat,
         FreeListOf(seq, head, list)
  PROVE  /\ head = Len(seq) <=> list = <<>>
         /\ \A k \in 1..Len(list) : /\ list[k] \in 0..(Len(seq) - 1)
                                    /\ seq[list[k] + 1].index \in Nat
  <1>1. \A k \in 1..Len(list) : list[k] \in Nat /\ list[k] < Len(seq)
    BY DEF FreeListOf
  <1>2. Len(list) \in Nat /\ Len(seq) \in Nat
    OBVIOUS
  <1>3. ASSUME NEW k \in 1..Len(list) PROVE seq[list[k] + 1].index \in Nat
    <2>1. k # 1 => k - 1 \in 1..Len(list) BY <1>2
    <2>2. seq[list[k] + 1].index = IF k = 1 THEN Len(seq) ELSE list[k - 1]
      BY DEF FreeListOf
    <2> QED BY <1>1, <1>2, <2>1, <2>2
  <1>4. list # <<>> => Len(list) \in 1..Len(list)
    BY <1>2
  <1>5. head = Len(seq) <=> list = <<>>
    BY <1>1, <1>2, <1>4 DEF FreeListOf
  <1> QED BY <1>1, <1>2, <1>3, <1>5

LEMMA ListGrow ==
  ASSUME NEW seq \in Seq(EntryType), NEW list \in Seq(Nat), NEW head \in Nat,
         FreeListOf(seq, head, list), head = Len(seq), NEW x
  PROVE  FreeListOf(Append(seq, x), head + 1, list)
  <1>1. list = <<>>
    BY ListBounds
  <1>2. Len(Append(seq, x)) = head + 1
    OBVIOUS
  <1> QED BY <1>1, <1>2 DEF FreeListOf

LEMMA ListTake ==
  ASSUME NEW seq \in Seq(EntryType), NEW list \in Seq(Nat), NEW head \in Nat,
         FreeListOf(seq, head, list), head # Len(seq), NEW x
  PROVE  FreeListOf([seq EXCEPT ![head + 1] = x], seq[head + 1].index,
                    SubSeq(list, 1, Len(list) - 1))
  <1> DEFINE n == Len(list)
             seq2 == [seq EXCEPT ![head + 1] = x]
             list2 == SubSeq(list, 1, n - 1)
  <1>1. n \in Nat \ {0} /\ head = list[n] /\ n \in 1..n
    BY ListBounds DEF FreeListOf
  <1>2. Len(list2) = n - 1 /\ \A k \in 1..(n - 1) : list2[k] = list[k]
    <2>1. n - 1 \in 0..Len(list) /\ n - 1 + 1 = n
      BY <1>1
    <2> QED BY <1>1, <2>1, SubSeqProperties
  <1>3. Len(seq2) = Len(seq)
    OBVIOUS
  <1>4. \A k \in 1..n : list[k] \in 0..(Len(seq) - 1)
    BY ListBounds
  <1>5. \A j, k \in 1..n : list[j] = list[k] => j = k
    BY DEF FreeListOf
  <1> HIDE DEF n, seq2, list2
  <1>6. ASSUME NEW k \in 1..(n - 1)
        PROVE  /\ list2[k] < Len(seq2)
               /\ seq2[list2[k] + 1].index = IF k = 1 THEN Len(seq2) ELSE list2[k - 1]
    <2>1. k \in 1..n /\ k # n
      BY <1>1
    <2>2. list[k] # head /\ list[k] \in 0..(Len(seq) - 1)
      BY <1>1, <1>4, <1>5, <2>1
    <2>3. seq2[list[k] + 1] = seq[list[k] + 1]
      BY <2>2 DEF seq2
    <2>4. seq[list[k] + 1].index = IF k = 1 THEN Len(seq) ELSE list[k - 1]
      BY <2>1 DEF FreeListOf, n
    <2>5. k # 1 => list2[k - 1] = list[k - 1]
      BY <1>1, <1>2
    <2>6. list2[k] = list[k]
      BY <1>2
    <2> QED BY <1>3, <2>2, <2>3, <2>4, <2>5, <2>6
  <1>7. \A j, k \in 1..(n - 1) : list2[j] = list2[k] => j = k
    BY <1>1, <1>2, <1>5
  <1>8. seq[head + 1].index = IF list2 = <<>> THEN Len(seq2) ELSE list2[n - 1]
    <2>1. seq[list[n] + 1].index = IF n = 1 THEN Len(seq) ELSE list[n - 1]
      BY <1>1 DEF FreeListOf, n
    <2>2. list2 = <<>> <=> n = 1
      <3>1. list2 \in Seq(Nat)
        <4>1. \A i \in 1..(n - 1) : list[i] \in Nat
          BY <1>1, <1>4
        <4> QED BY <1>1, <4>1, SubSeqProperties DEF list2
      <3> QED BY <1>1, <1>2, <3>1, EmptySeq
    <2>3. n # 1 => list2[n - 1] = list[n - 1]
      BY <1>1, <1>2
    <2> QED BY <1>1, <1>3, <2>1, <2>2, <2>3
  <1>9. FreeListOf(seq2, seq[head + 1].index, list2)
    BY <1>2, <1>6, <1>7, <1>8 DEF FreeListOf
  <1> QED BY <1>9 DEF seq2, list2, n

LEMMA ListPush ==
  ASSUME NEW seq \in Seq(EntryType), NEW list \in Seq(Nat), NEW head \in Nat,
         FreeListOf(seq, head, list),
         NEW i \in 0..(Len(seq) - 1), seq[i + 1].index = Valid, NEW h
  PROVE  FreeListOf([seq EXCEPT ![i + 1] = Entry(head, h)], i, Append(list, i))
  <1> DEFINE n == Len(list)
             seq2 == [seq EXCEPT ![i + 1] = Entry(head, h)]
             list2 == Append(list, i)
  <1>1. n \in Nat /\ Len(seq) \in Nat
    OBVIOUS
  <1>2. /\ Len(list2) = n + 1 /\ list2[n + 1] = i /\ list2 # <<>>
        /\ \A k \in 1..n : list2[k] = list[k]
    OBVIOUS
  <1>3. Len(seq2) = Len(seq) /\ seq2[i + 1].index = head
    BY DEF Entry
  <1>4. \A k \in 1..n : list[k] \in 0..(Len(seq) - 1) /\ list[k] # i
    BY ListBounds DEF Valid
  <1>5. \A j, k \in 1..n : list[j] = list[k] => j = k
    BY DEF FreeListOf
  <1>6. head = IF n = 0 THEN Len(seq) ELSE list[n]
    BY DEF FreeListOf
  <1> HIDE DEF n, seq2, list2
  <1>7. ASSUME NEW k \in 1..(n + 1)
        PROVE  /\ list2[k] < Len(seq2)
               /\ seq2[list2[k] + 1].index = IF k = 1 THEN Len(seq2) ELSE list2[k - 1]
    <2>1. CASE k = n + 1
      <3>1. list2[k] = i
        BY <1>2, <2>1
      <3>2. k # 1 => list2[k - 1] = list[n]
        BY <1>1, <1>2, <2>1
      <3>3. k = 1 <=> n = 0
        BY <1>1, <2>1
      <3> QED BY <1>3, <1>6, <3>1, <3>2, <3>3
    <2>2. CASE k \in 1..n
      <3>1. list2[k] = list[k] /\ list[k] \in 0..(Len(seq) - 1) /\ list[k] # i
        BY <1>2, <1>4, <2>2
      <3>2. seq2[list[k] + 1] = seq[list[k] + 1]
        BY <3>1 DEF seq2
      <3>3. seq[list[k] + 1].index = IF k = 1 THEN Len(seq) ELSE list[k - 1]
        BY <2>2 DEF FreeListOf, n
      <3>4. k # 1 => list2[k - 1] = list[k - 1]
        BY <1>1, <1>2, <2>2
      <3> QED BY <1>3, <3>1, <3>2, <3>3, <3>4
    <2> QED BY <1>1, <2>1, <2>2
  <1>8. ASSUME NEW j \in 1..(n + 1), NEW k \in 1..(n + 1), list2[j] = list2[k]
        PROVE  j = k
    <2>1. \A m \in 1..(n + 1) : m \in 1..n \/ m = n + 1
      BY <1>1
    <2>2. \A m \in 1..n : list2[m] # list2[n + 1]
      BY <1>2, <1>4
    <2> QED BY <1>2, <1>5, <1>8, <2>1, <2>2
  <1>9. FreeListOf(seq2, i, list2)
    BY <1>2, <1>7, <1>8 DEF FreeListOf
  <1> QED BY <1>9 DEF seq2, list2

-----------------------------------------------------------------------------
(* What the proof knows of the registry.                                    *)
Sound ==
    /\ RegistryType
    /\ FreeList
    /\ NoneLost

(* Before anybody registers the slabs are empty.                            *)
LEMMA SoundInit == Init => Sound
  <1> SUFFICES ASSUME Init PROVE Sound
    OBVIOUS
  <1>1. RegistryType
    BY DEF Init, RegistryType
  <1>2. \A h \in Handlers : ~Registered(h)
    BY DEF Init, Registered
  <1>3. FreeList
    BY DEF Init, FreeList, Linked, Owned, FreeListOf
  <1>4. NoneLost
    BY <1>2 DEF NoneLost
  <1> QED BY <1>1, <1>2, <1>3, <1>4 DEF Sound

(* A step that touches neither the slabs nor the set of registered handlers *)
(* keeps everything.                                                        *)
LEMMA SoundFrame ==
  ASSUME Sound, RegistryType',
         UNCHANGED <<entries, free, freed, id>>,
         \A h \in Handlers : Registered(h)' = Registered(h)
  PROVE  Sound'
  <1>1. FreeList'
    <2> SUFFICES ASSUME NEW s \in Slabs PROVE Linked(s)' /\ Owned(s)'
      BY DEF FreeList
    <2>1. Linked(s) /\ Owned(s) BY DEF Sound, FreeList
    <2>2. Linked(s)' BY <2>1 DEF Linked
    <2>3. ASSUME NEW h, NEW i, Owns(h, s, i) PROVE Owns(h, s, i)'
      BY <2>3 DEF Owns
    <2>4. Owned(s)' BY <2>1, <2>3 DEF Owned
    <2> QED BY <2>2, <2>4
  <1>2. NoneLost'
    BY DEF Sound, NoneLost
  <1> QED BY <1>1, <1>2 DEF Sound

(* A step of h puts entry x at place p of its own slab s, its own place or  *)
(* one that is nobody's; seq, list and head are what becomes of the slab.   *)
Places(h, s, p, x, seq, list, head) ==
    /\ s \in Slabs /\ s = Kind[h]
    /\ x \in EntryType /\ seq \in Seq(EntryType)
    /\ p \in Nat \ {0} /\ p \in 1..Len(seq) /\ seq[p] = x
    /\ Len(seq) >= Len(entries[s])
    /\ \A k \in 1..Len(seq) : k # p => k \in 1..Len(entries[s]) /\ seq[k] = entries[s][k]
    /\ FreeListOf(seq, head, list)
    /\ entries' = [entries EXCEPT ![s] = seq]
    /\ free' = [free EXCEPT ![s] = head] /\ freed' = [freed EXCEPT ![s] = list]
    /\ RegistryType'
    /\ \A g \in Handlers \ {h} : Registered(g)' = Registered(g) /\ id'[g] = id[g]
    /\ \A g \in Handlers \ {h} : Registered(g) /\ Kind[g] = s => id[g] + 1 # p
    /\ Registered(h) => id[h] + 1 = p
    /\ x.index = Valid => x = Entry(Valid, h) /\ id'[h] + 1 = p
    /\ x.index = Valid <=> Registered(h)'

LEMMA OneEntry ==
  ASSUME Sound, NEW h \in Handlers, NEW s, NEW p, NEW x, NEW seq, NEW list, NEW head,
         Places(h, s, p, x, seq, list, head)
  PROVE  Sound'
  <1> USE DEF Places
  <1>1. entries'[s] = seq /\ free'[s] = head /\ freed'[s] = list
    BY DEF Sound, RegistryType
  <1>2. \A t \in Slabs \ {s} :
            entries'[t] = entries[t] /\ free'[t] = free[t] /\ freed'[t] = freed[t]
    BY DEF Sound, RegistryType
  <1>3. ASSUME NEW t \in Slabs, t # s PROVE Linked(t)' /\ Owned(t)'
    <2>1. Linked(t) /\ Owned(t) BY DEF Sound, FreeList
    <2>2. Linked(t)' BY <1>2, <1>3, <2>1 DEF Linked
    <2>3. Owned(t)'
      <3>1. ASSUME NEW g, NEW i, Owns(g, t, i) PROVE Owns(g, t, i)'
        BY <1>3, <3>1 DEF Owns
      <3> QED BY <1>2, <1>3, <2>1, <3>1 DEF Owned
    <2> QED BY <2>2, <2>3
  <1>4. Linked(s)'
    BY <1>1 DEF Linked
  <1>5. Owned(s)'
    <2> SUFFICES ASSUME NEW k \in 1..Len(seq), seq[k].index = Valid
                 PROVE  Owns(seq[k].handler, s, k - 1)'
      BY <1>1 DEF Owned
    <2>1. \A g \in Handlers : id[g] \in Nat /\ id'[g] \in Nat
      BY DEF Sound, RegistryType
    <2>2. CASE k = p
      <3>1. Registered(h)' /\ seq[k].handler = h /\ id'[h] = k - 1
        BY <2>1, <2>2 DEF Entry
      <3> QED BY <3>1 DEF Owns
    <2>3. CASE k # p
      <3> DEFINE g == seq[k].handler
      <3>1. Owns(g, s, k - 1)
        <4>1. k \in 1..Len(entries[s]) /\ seq[k] = entries[s][k]
          BY <2>3
        <4>2. Owned(s)
          BY DEF Sound, FreeList
        <4> QED BY <4>1, <4>2 DEF Owned
      <3>2. g # h
        BY <2>1, <2>3, <3>1 DEF Owns
      <3> QED BY <3>1, <3>2 DEF Owns
    <2> QED BY <2>2, <2>3
  <1>6. NoneLost'
    <2> SUFFICES ASSUME NEW g \in Handlers, Registered(g)'
                 PROVE  /\ id'[g] < Len(entries'[Kind[g]])
                        /\ entries'[Kind[g]][id'[g] + 1] = Entry(Valid, g)
      BY DEF NoneLost
    <2>1. id'[g] \in Nat /\ id[g] \in Nat
      BY DEF Sound, RegistryType
    <2>2. CASE g = h
      BY <1>1, <2>1, <2>2
    <2>3. CASE g # h
      <3>1. /\ id'[g] = id[g] /\ id[g] < Len(entries[Kind[g]])
            /\ entries[Kind[g]][id[g] + 1] = Entry(Valid, g)
        BY <2>3 DEF Sound, NoneLost
      <3>2. CASE Kind[g] = s
        <4>1. id[g] + 1 # p /\ id[g] + 1 \in 1..Len(seq)
          BY <2>1, <2>3, <3>1, <3>2
        <4> QED BY <1>1, <2>1, <3>1, <3>2, <4>1
      <3>3. CASE Kind[g] # s
        BY <1>2, <3>1, <3>3, ConstantsAssumption DEF Slabs
      <3> QED BY <3>2, <3>3
    <2> QED BY <2>2, <2>3
  <1>7. FreeList'
    BY <1>3, <1>4, <1>5 DEF FreeList
  <1> QED BY <1>6, <1>7 DEF Sound

LEMMA SoundAdd ==
  ASSUME Sound, NEW h \in Handlers, AddLocked(h)
  PROVE  Sound'
  <1> DEFINE s == Kind[h]
             i == free[s]
             e == entries[s]
             x == Entry(Valid, h)
  <1>1. s \in Slabs
    BY ConstantsAssumption DEF Slabs
  <1>2. /\ e \in Seq(EntryType) /\ freed[s] \in Seq(Nat) /\ i \in Nat
        /\ FreeListOf(e, i, freed[s])
    BY <1>1 DEF Sound, RegistryType, FreeList, Linked
  <1>3. /\ ~Registered(h) /\ Registered(h)' /\ id'[h] = i /\ id' \in [Handlers -> Nat]
        /\ user' \in [Handlers -> {"out", "adding", "in", "removing", "cleanup", "gone"}]
        /\ \A g \in Handlers \ {h} : Registered(g)' = Registered(g) /\ id'[g] = id[g]
    BY <1>2 DEF AddLocked, Put, GoTo, Sound, RegistryType, Registered
  <1>4. x \in EntryType /\ x.index = Valid
    BY DEF Entry, EntryType, Valid
  <1>5. \A g \in Handlers : Registered(g) /\ Kind[g] = s =>
            id[g] + 1 \in 1..Len(e) /\ e[id[g] + 1].index = Valid
    <2> SUFFICES ASSUME NEW g \in Handlers, Registered(g), Kind[g] = s
                 PROVE  id[g] + 1 \in 1..Len(e) /\ e[id[g] + 1].index = Valid
      OBVIOUS
    <2>1. id[g] \in Nat /\ id[g] < Len(e) /\ e[id[g] + 1] = Entry(Valid, g)
      BY DEF Sound, RegistryType, NoneLost
    <2> QED BY <1>2, <2>1 DEF Entry
  <1>6. CASE Full(s)
    <2> DEFINE seq == Append(e, x)
    <2>1. /\ entries' = [entries EXCEPT ![s] = seq]
          /\ free' = [free EXCEPT ![s] = i + 1]
          /\ freed' = [freed EXCEPT ![s] = freed[s]] /\ i = Len(e)
      BY <1>6 DEF AddLocked, Put, Full, Sound, RegistryType
    <2>2. /\ seq \in Seq(EntryType) /\ Len(seq) = i + 1 /\ seq[i + 1] = x
          /\ \A k \in 1..i : seq[k] = e[k]
      BY <1>2, <1>4, <2>1
    <2>3. FreeListOf(seq, i + 1, freed[s])
      BY <1>2, <2>1, ListGrow
    <2>4. RegistryType'
      BY <1>1, <1>2, <1>3, <2>1, <2>2 DEF Sound, RegistryType
    <2>5. \A g \in Handlers \ {h} : Registered(g) /\ Kind[g] = s => id[g] + 1 # i + 1
      BY <1>2, <1>5, <2>1
    <2> HIDE DEF seq, x, s, i, e
    <2>6. i + 1 \in Nat \ {0} /\ i + 1 \in Nat /\ i + 1 \in 1..Len(seq) /\ Len(seq) >= Len(e)
      BY <1>2, <2>1, <2>2
    <2>7. \A k \in 1..Len(seq) : k # i + 1 => k \in 1..Len(e) /\ seq[k] = e[k]
      BY <1>2, <2>1, <2>2
    <2>8. Places(h, s, i + 1, x, seq, freed[s], i + 1)
      <3>1. x = Entry(Valid, h)
        BY DEF x
      <3> QED BY <1>1, <1>2, <1>3, <1>4, <2>1, <2>2, <2>3, <2>4, <2>5, <2>6, <2>7, <3>1
              DEF Places, s, e
    <2> QED BY <2>8, OneEntry
  <1>7. CASE ~Full(s)
    <2> DEFINE seq == [e EXCEPT ![i + 1] = x]
               list == SubSeq(freed[s], 1, Len(freed[s]) - 1)
               head == e[i + 1].index
    <2>1. /\ entries' = [entries EXCEPT ![s] = seq]
          /\ free' = [free EXCEPT ![s] = head]
          /\ freed' = [freed EXCEPT ![s] = list] /\ i # Len(e)
      BY <1>7 DEF AddLocked, Put, Full
    <2>2. /\ freed[s] # <<>> /\ i = freed[s][Len(freed[s])]
          /\ Len(freed[s]) \in 1..Len(freed[s])
      <3>1. freed[s] # <<>>
        BY <1>2, <2>1, ListBounds
      <3>2. Len(freed[s]) \in 1..Len(freed[s])
        BY <1>2, <3>1
      <3> QED BY <1>2, <3>1, <3>2 DEF FreeListOf
    <2>3. i \in 0..(Len(e) - 1) /\ head \in Nat
      BY <1>2, <2>2, ListBounds
    <2>4. list \in Seq(Nat)
      <3>1. \A k \in 1..(Len(freed[s]) - 1) : freed[s][k] \in Nat
        BY <1>2
      <3> QED BY <1>2, <3>1, SubSeqProperties
    <2>5. /\ seq \in Seq(EntryType) /\ Len(seq) = Len(e) /\ seq[i + 1] = x
          /\ \A k \in 1..Len(e) : k # i + 1 => seq[k] = e[k]
      BY <1>2, <1>4, <2>3
    <2>6. FreeListOf(seq, head, list)
      BY <1>2, <2>1, ListTake
    <2>7. RegistryType'
      BY <1>1, <1>2, <1>3, <2>1, <2>3, <2>4, <2>5 DEF Sound, RegistryType
    <2>8. \A g \in Handlers \ {h} : Registered(g) /\ Kind[g] = s => id[g] + 1 # i + 1
      BY <1>5, <2>3 DEF Valid
    <2> HIDE DEF seq, list, head, x, s, i, e
    <2>9. i + 1 \in Nat \ {0} /\ i + 1 \in 1..Len(seq) /\ Len(seq) >= Len(e)
      BY <1>2, <2>3, <2>5
    <2>10. Places(h, s, i + 1, x, seq, list, head)
      <3>1. x = Entry(Valid, h)
        BY DEF x
      <3> QED BY <1>1, <1>2, <1>3, <1>4, <2>1, <2>3, <2>4, <2>5, <2>6, <2>7, <2>8, <2>9, <3>1
              DEF Places, s, e
    <2> QED BY <2>10, OneEntry
  <1> QED BY <1>6, <1>7

LEMMA SoundRemove ==
  ASSUME Sound, NEW h \in Handlers, RemoveLocked(h)
  PROVE  Sound'
  <1> DEFINE s == Kind[h]
             i == id[h]
             e == entries[s]
             x == Entry(free[s], None)
             seq == [e EXCEPT ![i + 1] = x]
             list == Append(freed[s], i)
  <1>1. s \in Slabs
    BY ConstantsAssumption DEF Slabs
  <1>2. /\ e \in Seq(EntryType) /\ freed[s] \in Seq(Nat) /\ free[s] \in Nat /\ i \in Nat
        /\ FreeListOf(e, free[s], freed[s])
    BY <1>1 DEF Sound, RegistryType, FreeList, Linked
  <1>3. /\ Registered(h) /\ ~Registered(h)' /\ id' = id
        /\ user' \in [Handlers -> {"out", "adding", "in", "removing", "cleanup", "gone"}]
        /\ \A g \in Handlers \ {h} : Registered(g)' = Registered(g)
    BY DEF RemoveLocked, GoTo, Sound, RegistryType, Registered
  <1>4. i \in 0..(Len(e) - 1) /\ e[i + 1] = Entry(Valid, h)
    BY <1>2, <1>3 DEF Sound, NoneLost
  <1>5. x \in EntryType /\ x.index \in Nat /\ e[i + 1].index = Valid
    BY <1>2, <1>4 DEF Entry, EntryType
  <1>6. /\ entries' = [entries EXCEPT ![s] = seq]
        /\ free' = [free EXCEPT ![s] = i] /\ freed' = [freed EXCEPT ![s] = list]
    BY DEF RemoveLocked, Pop
  <1>7. /\ seq \in Seq(EntryType) /\ Len(seq) = Len(e) /\ seq[i + 1] = x
        /\ \A k \in 1..Len(e) : k # i + 1 => seq[k] = e[k]
    BY <1>2, <1>4, <1>5
  <1>8. list \in Seq(Nat)
    BY <1>2
  <1>9. FreeListOf(seq, i, list)
    BY <1>2, <1>4, <1>5, ListPush
  <1>10. RegistryType'
    BY <1>1, <1>2, <1>3, <1>6, <1>7, <1>8 DEF Sound, RegistryType
  <1>11. ASSUME NEW g \in Handlers \ {h}, Registered(g), Kind[g] = s
         PROVE  id[g] + 1 # i + 1
    <2>1. id[g] \in Nat /\ e[id[g] + 1] = Entry(Valid, g)
      BY <1>11 DEF Sound, RegistryType, NoneLost
    <2> QED BY <1>4, <2>1 DEF Entry
  <1> HIDE DEF seq, list, x, s, i, e
  <1>12. i + 1 \in Nat \ {0} /\ i + 1 \in 1..Len(seq) /\ Len(seq) >= Len(e)
    BY <1>2, <1>4, <1>7
  <1>13. x.index # Valid
    BY <1>5 DEF Valid
  <1>14. Places(h, s, i + 1, x, seq, list, i)
    BY <1>1, <1>2, <1>3, <1>5, <1>6, <1>7, <1>8, <1>9, <1>10, <1>11, <1>12, <1>13
       DEF Places, s, e, i
  <1> QED BY <1>14, OneEntry

LEMMA SoundStep ==
  ASSUME Sound, [Next]_vars
  PROVE  Sound'
  <1>1. ASSUME NEW h \in Handlers, AddHandler(h) \/ Remove(h) \/ Cleanup(h)
        PROVE  Sound'
    <2>1. UNCHANGED <<entries, free, freed, id>>
      BY <1>1 DEF AddHandler, Remove, Cleanup, slab, Sound
    <2>2. \E label \in {"adding", "removing", "gone"} : user' = [user EXCEPT ![h] = label]
      BY <1>1 DEF AddHandler, Remove, Cleanup, GoTo
    <2>3. RegistryType'
      BY <2>1, <2>2 DEF Sound, RegistryType
    <2>4. Registered(h)' = Registered(h)
      BY <1>1 DEF AddHandler, Remove, Cleanup, GoTo, Sound, RegistryType, Registered
    <2>5. \A g \in Handlers : Registered(g)' = Registered(g)
      BY <2>2, <2>4 DEF Sound, RegistryType, Registered
    <2> QED BY <2>1, <2>3, <2>5, SoundFrame
  <1>2. ASSUME UNCHANGED <<slab, owners>>
        PROVE  Sound'
    <2>1. UNCHANGED <<entries, free, freed, id, user>>
      BY <1>2 DEF slab, owners
    <2>2. RegistryType' /\ \A g \in Handlers : Registered(g)' = Registered(g)
      BY <2>1 DEF Sound, RegistryType, Registered
    <2> QED BY <2>1, <2>2, SoundFrame
  <1>3. ASSUME NEW c \in Callers, Call(c) \/ Walk(c)
        PROVE  Sound'
    BY <1>2, <1>3 DEF Call, Walk, CallNext, SyncDone, CallReturn
  <1>4. ASSUME Begin \/ FunctionRuns \/ Received \/ SendCancelled
        PROVE  Sound'
    BY <1>2, <1>4 DEF Begin, FunctionRuns, Received, SendCancelled, Deliver
  <1>5. ASSUME Stopped \/ UNCHANGED vars
        PROVE  Sound'
    BY <1>2, <1>5 DEF Stopped, vars
  <1> QED BY <1>1, <1>3, <1>4, <1>5, SoundAdd, SoundRemove DEF Next, Owner

(* Whatever handlers come and go, one that is registered has its own valid  *)
(* entry, and the free entries of a slab form a list.                       *)
THEOREM SlabsSound == Spec => [](NoneLost /\ FreeList)
  <1>1. Init => Sound
    BY SoundInit
  <1>2. Sound /\ [Next]_vars => Sound'
    BY SoundStep
  <1>3. Sound => NoneLost /\ FreeList
    BY DEF Sound
  <1> QED BY <1>1, <1>2, <1>3, PTL DEF Spec

-----------------------------------------------------------------------------
(* A Call walks over entries that stay where they are: whoever registers or *)
(* removes a handler waits for it.                                          *)
Event == [n: 1..MaxEvents, type: Types]
Offers(t) == Targets(t, t) \cup Targets(Iface, t)

Walks(c) == event[c] \in Event /\ event[c].n <= sent /\ todo[c] \subseteq Offers(event[c].type)

Calling ==
    /\ TypeOK
    /\ \A c \in walking : Walks(c)
    /\ AllCalled

(* The entries an event is for are those of registered handlers that take   *)
(* it, and no two of them are of one handler.                               *)
LEMMA OffersOwned ==
  ASSUME Sound, NEW t \in Types, NEW p \in Offers(t)
  PROVE  /\ p \in Slabs \X Nat
         /\ Handled(p) \in Handlers /\ Registered(Handled(p)) /\ t \in Accepts[Handled(p)]
         /\ p = <<Kind[Handled(p)], id[Handled(p)] + 1>>
  <1>1. PICK s \in {t, Iface} : p \in Targets(s, t)
    BY DEF Offers
  <1>2. PICK k \in 1..Len(entries[s]) : p = <<s, k>> /\ Wanted(s, k, t)
    BY <1>1 DEF Targets, Place
  <1>3. s \in Slabs /\ k \in Nat \ {0}
    BY <1>1, <1>2 DEF Slabs, Sound, RegistryType
  <1>4. Handled(p) = entries[s][k].handler
    BY <1>2 DEF Handled
  <1>5. entries[s][k].index = Valid /\ t \in Accepts[Handled(p)]
    BY <1>2, <1>4 DEF Wanted
  <1>6. Owns(Handled(p), s, k - 1)
    BY <1>2, <1>3, <1>4, <1>5 DEF Sound, FreeList, Owned
  <1>7. p \in Slabs \X Nat
    BY <1>2, <1>3
  <1>8. /\ Handled(p) \in Handlers /\ Registered(Handled(p))
        /\ Kind[Handled(p)] = s /\ id[Handled(p)] + 1 = k
    BY <1>3, <1>6 DEF Owns
  <1> QED BY <1>2, <1>5, <1>7, <1>8

LEMMA OffersAll ==
  ASSUME Sound, NEW t \in Types, NEW h \in Handlers, Registered(h), t \in Accepts[h]
  PROVE  \E p \in Offers(t) : Handled(p) = h
  <1> DEFINE s == Kind[h]
             k == id[h] + 1
  <1>1. s \in {t, Iface} /\ s \in Slabs
    BY ConstantsAssumption DEF Slabs
  <1>2. id[h] \in Nat /\ id[h] < Len(entries[s]) /\ entries[s][k] = Entry(Valid, h)
    BY DEF Sound, RegistryType, NoneLost
  <1>3. k \in 1..Len(entries[s])
    BY <1>1, <1>2 DEF Sound, RegistryType
  <1>4. Wanted(s, k, t)
    BY <1>2 DEF Wanted, Entry
  <1>5. <<s, k>> \in Targets(s, t)
    BY <1>3, <1>4 DEF Targets, Place
  <1>6. <<s, k>> \in Offers(t)
    BY <1>1, <1>5 DEF Offers
  <1>7. Handled(<<s, k>>) = h
    BY <1>2 DEF Handled, Entry
  <1> QED BY <1>6, <1>7

(* What the walk needs of the registry.                                     *)
Kept == /\ UNCHANGED entries
        /\ \A h \in Handlers : Registered(h)' = Registered(h)

LEMMA CallingFrame ==
  ASSUME Calling, TypeOK', walking = {} \/ Kept,
         UNCHANGED <<walking, event, todo, called>>, sent' = sent
  PROVE  Calling'
  <1>1. CASE walking = {}
    BY <1>1 DEF Calling, AllCalled
  <1>2. CASE Kept
    <2>1. \A p : Handled(p)' = Handled(p)
      BY <1>2 DEF Kept, Handled
    <2>2. \A t : Offers(t)' = Offers(t)
      BY <1>2 DEF Kept, Offers, Targets, Wanted, Place
    <2>3. \A c \in walking : Walks(c)'
      BY <2>2 DEF Calling, Walks
    <2>4. AllCalled'
      <3> SUFFICES ASSUME NEW c \in walking
                   PROVE  LET next == {Handled(p) : p \in todo[c]} IN
                          /\ called[c] \cap next = {}
                          /\ called[c] \cup next =
                               {h \in Handlers : Registered(h)' /\ event[c].type \in Accepts[h]}
        BY <2>1 DEF AllCalled
      <3> QED BY <1>2 DEF Calling, AllCalled, Kept
    <2> QED BY <2>3, <2>4 DEF Calling
  <1> QED BY <1>1, <1>2

(* The lock is taken: nobody has been called yet, everybody will be.        *)
LEMMA CallCalls ==
  ASSUME Sound, Calling, NEW c \in Callers, Call(c)
  PROVE  Calling'
  <1>1. PICK t \in Types :
            /\ event' = [event EXCEPT ![c] = [n |-> sent + 1, type |-> t]]
            /\ todo' = [todo EXCEPT ![c] = Offers(t)]
    BY DEF Call, Offers
  <1>2. /\ c \notin walking /\ sent < MaxEvents /\ sent' = sent + 1
        /\ walking' = walking \cup {c} /\ called' = [called EXCEPT ![c] = {}]
        /\ UNCHANGED <<entries, free, freed, user, id, popped, closed, left, inSync, spawned, running, got>>
    BY DEF Call, slab, owners, runs
  <1>3. sent \in Nat /\ MaxEvents \in Nat
    BY ConstantsAssumption DEF Calling, TypeOK
  <1>4. Offers(t) \subseteq Slabs \X Nat
    BY OffersOwned
  <1>5. [n |-> sent + 1, type |-> t] \in Event /\ [n |-> sent + 1, type |-> t].n = sent + 1
    BY <1>2, <1>3 DEF Event
  <1>6. TypeOK'
    <2>1. RegistryType' /\ popped' \in [Handlers -> Handlers \cup {None}]
          /\ closed' \in [Handlers -> BOOLEAN] /\ walking' \subseteq Callers
      BY <1>2 DEF Calling, TypeOK, RegistryType
    <2>2. event' \in [Callers -> [n: 0..MaxEvents, type: Slabs]]
      <3>1. [n |-> sent + 1, type |-> t] \in [n: 0..MaxEvents, type: Slabs]
        BY <1>2, <1>3 DEF Slabs
      <3> QED BY <1>1, <3>1 DEF Calling, TypeOK
    <2>3. todo' \in [Callers -> SUBSET (Slabs \X Nat)]
      BY <1>1, <1>4 DEF Calling, TypeOK
    <2>4. called' \in [Callers -> SUBSET Handlers] /\ inSync' \in [Callers -> Sync \cup {None}]
      BY <1>2 DEF Calling, TypeOK
    <2>5. /\ spawned' \subseteq RunType /\ running' \subseteq RunType
          /\ got' \in [Handlers -> Seq([n: 1..MaxEvents, type: Types])]
      BY <1>2 DEF Calling, TypeOK
    <2>6. sent' \in 0..MaxEvents /\ left' \in [Handlers -> 0..MaxEvents]
      BY <1>2, <1>3 DEF Calling, TypeOK
    <2> QED BY <2>1, <2>2, <2>3, <2>4, <2>5, <2>6 DEF TypeOK
  <1>7. (\A p : Handled(p)' = Handled(p)) /\ (\A x : Offers(x)' = Offers(x))
        /\ (\A h \in Handlers : Registered(h)' = Registered(h))
    BY <1>2 DEF Handled, Offers, Targets, Wanted, Place, Registered
  <1>8. event'[c] = [n |-> sent + 1, type |-> t] /\ todo'[c] = Offers(t) /\ called'[c] = {}
    BY <1>1, <1>2 DEF Calling, TypeOK
  <1>9. \A d \in walking : d # c /\ event'[d] = event[d] /\ todo'[d] = todo[d] /\ called'[d] = called[d]
    BY <1>1, <1>2 DEF Calling, TypeOK
  <1>10. ASSUME NEW d \in walking' PROVE Walks(d)'
    <2>1. CASE d = c
      BY <1>2, <1>3, <1>5, <1>7, <1>8, <2>1 DEF Walks
    <2>2. CASE d \in walking
      <3>1. event[d].n \in Nat
        BY <2>2, ConstantsAssumption DEF Calling, Walks, Event
      <3> QED BY <1>2, <1>3, <1>7, <1>9, <2>2, <3>1 DEF Calling, Walks
    <2> QED BY <1>2, <2>1, <2>2
  <1>11. AllCalled'
    <2> SUFFICES ASSUME NEW d \in walking'
                 PROVE  LET next == {Handled(p) : p \in todo'[d]} IN
                        /\ called'[d] \cap next = {}
                        /\ called'[d] \cup next =
                             {h \in Handlers : Registered(h) /\ event'[d].type \in Accepts[h]}
      BY <1>7 DEF AllCalled
    <2>1. CASE d = c
      <3>1. {Handled(p) : p \in Offers(t)} = {h \in Handlers : Registered(h) /\ t \in Accepts[h]}
        BY OffersOwned, OffersAll
      <3> QED BY <1>8, <2>1, <3>1
    <2>2. CASE d \in walking
      BY <1>9, <2>2 DEF Calling, AllCalled
    <2> QED BY <1>2, <2>1, <2>2
  <1> QED BY <1>6, <1>10, <1>11 DEF Calling

(* The next entry is handled: its handler moves from one set to the other.  *)
LEMMA CallingNext ==
  ASSUME Sound, Calling, NEW c \in Callers, CallNext(c)
  PROVE  Calling'
  <1>1. PICK p \in todo[c] :
            /\ todo' = [todo EXCEPT ![c] = @ \ {p}]
            /\ called' = [called EXCEPT ![c] = @ \cup {Handled(p)}]
            /\ running' = running \cup {Run(x, event[c]) : x \in {Handled(p)} \cap Sync}
            /\ spawned' = spawned \cup {Run(x, event[c]) : x \in {Handled(p)} \ Sync}
            /\ inSync' = [inSync EXCEPT ![c] = IF Handled(p) \in Sync THEN Handled(p) ELSE None]
    BY DEF CallNext
  <1>2. /\ c \in walking
        /\ UNCHANGED <<entries, free, freed, user, id, popped, closed, left, walking, event, sent, got>>
    BY DEF CallNext, slab, owners
  <1>3. Walks(c) /\ event[c] \in Event /\ event[c].type \in Types
    BY <1>2 DEF Calling, Walks, Event
  <1>4. \A q \in todo[c] :
            /\ Handled(q) \in Handlers /\ q = <<Kind[Handled(q)], id[Handled(q)] + 1>>
    BY <1>3, OffersOwned DEF Walks
  <1>5. TypeOK'
    <2>1. RegistryType' /\ popped' \in [Handlers -> Handlers \cup {None}]
          /\ closed' \in [Handlers -> BOOLEAN] /\ walking' \subseteq Callers
          /\ event' \in [Callers -> [n: 0..MaxEvents, type: Slabs]]
      BY <1>2 DEF Calling, TypeOK, RegistryType
    <2>2. todo' \in [Callers -> SUBSET (Slabs \X Nat)] /\ called' \in [Callers -> SUBSET Handlers]
      BY <1>1, <1>4 DEF Calling, TypeOK
    <2>3. inSync' \in [Callers -> Sync \cup {None}]
      BY <1>1 DEF Calling, TypeOK
    <2>4. spawned' \subseteq RunType /\ running' \subseteq RunType
      BY <1>1, <1>3, <1>4 DEF Calling, TypeOK, RunType, Run, Event
    <2>5. /\ sent' \in 0..MaxEvents /\ left' \in [Handlers -> 0..MaxEvents]
          /\ got' \in [Handlers -> Seq([n: 1..MaxEvents, type: Types])]
      BY <1>2 DEF Calling, TypeOK
    <2> QED BY <2>1, <2>2, <2>3, <2>4, <2>5 DEF TypeOK
  <1>6. (\A q : Handled(q)' = Handled(q)) /\ (\A x : Offers(x)' = Offers(x))
        /\ (\A h \in Handlers : Registered(h)' = Registered(h))
    BY <1>2 DEF Handled, Offers, Targets, Wanted, Place, Registered
  <1>7. todo'[c] = todo[c] \ {p} /\ called'[c] = called[c] \cup {Handled(p)}
    BY <1>1 DEF Calling, TypeOK
  <1>8. \A d \in walking \ {c} : todo'[d] = todo[d] /\ called'[d] = called[d]
    BY <1>1 DEF Calling, TypeOK
  <1>9. ASSUME NEW d \in walking' PROVE Walks(d)'
    BY <1>2, <1>6, <1>7, <1>8 DEF Calling, Walks
  <1>10. AllCalled'
    <2> SUFFICES ASSUME NEW d \in walking
                 PROVE  LET next == {Handled(q) : q \in todo'[d]} IN
                        /\ called'[d] \cap next = {}
                        /\ called'[d] \cup next =
                             {h \in Handlers : Registered(h) /\ event[d].type \in Accepts[h]}
      BY <1>2, <1>6 DEF AllCalled
    <2>1. CASE d = c
      <3>1. {Handled(q) : q \in todo[c] \ {p}} = {Handled(q) : q \in todo[c]} \ {Handled(p)}
        BY <1>4
      <3>2. Handled(p) \in {Handled(q) : q \in todo[c]}
        BY <1>1
      <3> QED BY <1>2, <1>7, <2>1, <3>1, <3>2 DEF Calling, AllCalled
    <2>2. CASE d # c
      BY <1>8, <2>2 DEF Calling, AllCalled
    <2> QED BY <2>1, <2>2
  <1> QED BY <1>5, <1>9, <1>10 DEF Calling

LEMMA CallingReturn ==
  ASSUME Calling, NEW c \in Callers, CallReturn(c)
  PROVE  Calling'
  <1>1. /\ walking' = walking \ {c}
        /\ UNCHANGED <<slab, owners, event, todo, called, inSync, runs, sent, got>>
    BY DEF CallReturn
  <1>2. TypeOK'
    BY <1>1 DEF Calling, TypeOK, RegistryType, slab, owners, runs
  <1>3. (\A p : Handled(p)' = Handled(p)) /\ (\A x : Offers(x)' = Offers(x))
        /\ (\A h \in Handlers : Registered(h)' = Registered(h))
    BY <1>1 DEF Handled, Offers, Targets, Wanted, Place, Registered, slab, owners
  <1>4. \A d \in walking' : Walks(d)'
    BY <1>1, <1>3 DEF Calling, Walks
  <1>5. AllCalled'
    <2> SUFFICES ASSUME NEW d \in walking
                 PROVE  LET next == {Handled(q) : q \in todo[d]} IN
                        /\ called[d] \cap next = {}
                        /\ called[d] \cup next =
                             {h \in Handlers : Registered(h) /\ event[d].type \in Accepts[h]}
      BY <1>1, <1>3 DEF AllCalled
    <2> QED BY DEF Calling, AllCalled
  <1> QED BY <1>2, <1>4, <1>5 DEF Calling

(* What the steps of the owners and of the goroutines do not touch.         *)
LEMMA CallingOwner ==
  ASSUME Sound, Sound', Calling, NEW h \in Handlers, AddHandler(h) \/ Remove(h) \/ Owner(h)
  PROVE  Calling'
  <1>1. UNCHANGED <<walking, event, todo, called, inSync, spawned, running, sent, got>>
    BY DEF AddHandler, Remove, Owner, AddLocked, RemoveLocked, Cleanup, calls, runs
  <1>2. walking = {} \/ Kept
    <2>1. CASE AddHandler(h) \/ Remove(h) \/ Cleanup(h)
      <3>1. entries' = entries
        BY <2>1 DEF AddHandler, Remove, Cleanup, slab
      <3>2. \A g \in Handlers : Registered(g)' = Registered(g)
        BY <2>1 DEF AddHandler, Remove, Cleanup, GoTo, Sound, RegistryType, Registered
      <3> QED BY <3>1, <3>2 DEF Kept
    <2> QED BY <2>1 DEF Owner, AddLocked, RemoveLocked
  <1>3. popped' \in [Handlers -> Handlers \cup {None}]
    <2>1. CASE RemoveLocked(h)
      <3>1. entries[Kind[h]][id[h] + 1] = Entry(Valid, h)
        BY <2>1 DEF RemoveLocked, Sound, NoneLost, Registered
      <3>2. popped' = [popped EXCEPT ![h] = h]
        BY <2>1, <3>1 DEF RemoveLocked, Entry
      <3> QED BY <3>2 DEF Calling, TypeOK
    <2>2. CASE ~RemoveLocked(h)
      BY <2>2 DEF AddHandler, Remove, Owner, AddLocked, Cleanup, Calling, TypeOK
    <2> QED BY <2>1, <2>2
  <1>4. closed' \in [Handlers -> BOOLEAN] /\ left' \in [Handlers -> 0..MaxEvents]
    <2>1. CASE Cleanup(h)
      BY <2>1 DEF Cleanup, Calling, TypeOK
    <2>2. CASE ~Cleanup(h)
      BY <2>2 DEF AddHandler, Remove, Owner, AddLocked, RemoveLocked, Calling, TypeOK
    <2> QED BY <2>1, <2>2
  <1>5. TypeOK'
    BY <1>1, <1>3, <1>4 DEF Calling, TypeOK, Sound
  <1> QED BY <1>1, <1>2, <1>5, CallingFrame

LEMMA CallingRun ==
  ASSUME Sound, Calling,
         Begin \/ FunctionRuns \/ Received \/ SendCancelled \/ (\E c \in Callers : SyncDone(c))
  PROVE  Calling'
  <1>1. UNCHANGED <<slab, owners, walking, event, todo, called, sent>>
    BY DEF Begin, FunctionRuns, Received, SendCancelled, Deliver, SyncDone, calls
  <1>2. Kept
    BY <1>1 DEF Kept, Registered, slab, owners
  <1>3. /\ spawned' \subseteq RunType /\ running' \subseteq RunType /\ inSync' \in [Callers -> Sync \cup {None}]
        /\ got' \in [Handlers -> Seq([n: 1..MaxEvents, type: Types])]
    <2>1. CASE FunctionRuns \/ Received
      <3>1. PICK r \in running : Deliver(r)
        BY <2>1 DEF FunctionRuns, Received
      <3>2. r \in RunType
        BY <3>1 DEF Calling, TypeOK
      <3> DEFINE E == [n: 1..MaxEvents, type: Types]
      <3>3. /\ r.handler \in Handlers /\ r.event \in E
            /\ got \in [Handlers -> Seq(E)] /\ got[r.handler] \in Seq(E)
        BY <3>2 DEF RunType, Calling, TypeOK
      <3> HIDE DEF E
      <3>4. got' = [got EXCEPT ![r.handler] = Append(got[r.handler], r.event)]
        BY <3>1 DEF Deliver
      <3>5. Append(got[r.handler], r.event) \in Seq(E)
        BY <3>3
      <3>6. got' \in [Handlers -> Seq(E)]
        BY <3>3, <3>4, <3>5
      <3>7. spawned' = spawned /\ running' \subseteq RunType /\ inSync' = inSync
        BY <3>1 DEF Deliver, calls, Calling, TypeOK
      <3> QED BY <3>6, <3>7 DEF E, Calling, TypeOK
    <2>2. CASE Begin \/ SendCancelled
      BY <2>2 DEF Begin, SendCancelled, calls, Calling, TypeOK
    <2>3. CASE \E c \in Callers : SyncDone(c)
      BY <2>3 DEF SyncDone, runs, Calling, TypeOK
    <2> QED BY <2>1, <2>2, <2>3
  <1>4. TypeOK'
    BY <1>1, <1>3 DEF Calling, TypeOK, RegistryType, slab, owners
  <1> QED BY <1>1, <1>2, <1>4, CallingFrame

LEMMA CallingInit == Init => Calling
  <1> SUFFICES ASSUME Init PROVE Calling
    OBVIOUS
  <1>1. Sound
    BY SoundInit
  <1>2. walking = {}
    BY DEF Init
  <1>3. /\ popped \in [Handlers -> Handlers \cup {None}] /\ closed \in [Handlers -> BOOLEAN]
        /\ event \in [Callers -> [n: 0..MaxEvents, type: Slabs]]
        /\ sent \in 0..MaxEvents /\ left \in [Handlers -> 0..MaxEvents]
    BY ConstantsAssumption DEF Init, NoEvent, Slabs
  <1>4. /\ todo \in [Callers -> SUBSET (Slabs \X Nat)]
        /\ called \in [Callers -> SUBSET Handlers] /\ inSync \in [Callers -> Sync \cup {None}]
        /\ spawned \subseteq RunType /\ running \subseteq RunType /\ walking \subseteq Callers
        /\ got \in [Handlers -> Seq([n: 1..MaxEvents, type: Types])]
    BY DEF Init
  <1>5. TypeOK
    BY <1>1, <1>3, <1>4 DEF TypeOK, Sound
  <1> QED BY <1>2, <1>5 DEF Calling, AllCalled

LEMMA CallingStep ==
  ASSUME Sound, Calling, [Next]_vars
  PROVE  Calling'
  <1>1. Sound'
    BY SoundStep
  <1>2. CASE \E h \in Handlers : AddHandler(h) \/ Remove(h) \/ Owner(h)
    BY <1>1, <1>2, CallingOwner
  <1>3. CASE \E c \in Callers : Call(c) \/ CallNext(c) \/ CallReturn(c)
    BY <1>3, CallCalls, CallingNext, CallingReturn
  <1>4. CASE Begin \/ FunctionRuns \/ Received \/ SendCancelled \/ (\E c \in Callers : SyncDone(c))
    BY <1>4, CallingRun
  <1>5. CASE Stopped \/ UNCHANGED vars
    <2>1. UNCHANGED vars
      BY <1>5 DEF Stopped
    <2>2. TypeOK' /\ Kept /\ UNCHANGED <<walking, event, todo, called, sent>>
      BY <2>1 DEF vars, slab, owners, calls, runs, Calling, TypeOK, RegistryType, Kept, Registered
    <2> QED BY <2>2, CallingFrame
  <1> QED BY <1>2, <1>3, <1>4, <1>5 DEF Next, Walk

(* Whatever handlers come and go, every variable keeps its type.            *)
THEOREM TypeCorrect == Spec => []TypeOK
  <1>1. Init => Sound /\ Calling
    BY SoundInit, CallingInit
  <1>2. Sound /\ Calling /\ [Next]_vars => (Sound /\ Calling)'
    BY SoundStep, CallingStep
  <1>3. Calling => TypeOK
    BY DEF Calling
  <1> QED BY <1>1, <1>2, <1>3, PTL DEF Spec

(* An event reaches every handler that is registered for it, once, and no   *)
(* other, whoever registers or removes handlers meanwhile.                  *)
THEOREM EventsReachAll == Spec => []AllCalled
  <1>1. Init => Sound /\ Calling
    BY SoundInit, CallingInit
  <1>2. Sound /\ Calling /\ [Next]_vars => (Sound /\ Calling)'
    BY SoundStep, CallingStep
  <1>3. Calling => AllCalled
    BY DEF Calling
  <1> QED BY <1>1, <1>2, <1>3, PTL DEF Spec

-----------------------------------------------------------------------------
(* Every run of a synchronous handler is one that a caller, which holds the *)
(* read lock, waits for.                                                    *)
Awaited ==
    /\ \A c \in Callers : inSync[c] # None => c \in walking
    /\ \A r \in running : r.handler \in Sync =>
           \E c \in walking : inSync[c] = r.handler /\ event[c] = r.event
    /\ \A r \in spawned : r.handler \notin Sync

(* No run and nothing a handler has seen is of an event yet to come.        *)
Past ==
    /\ \A r \in spawned \cup running : r.event.n <= sent
    /\ \A h \in Handlers : \A k \in DOMAIN got[h] : got[h][k].n <= sent

Quiet == Awaited /\ Past /\ NoLateEvent

LEMMA QuietInit == Init => Quiet
  <1> SUFFICES ASSUME Init PROVE Quiet
    OBVIOUS
  <1>1. ASSUME NEW h \in Handlers PROVE DOMAIN got[h] = {} /\ ~Removed(h)
    <2>1. got[h] = <<>> /\ user[h] = "out"
      BY DEF Init
    <2> QED BY <2>1 DEF Removed
  <1> QED BY <1>1 DEF Init, Quiet, Awaited, Past, NoLateEvent

(* What starts no run and delivers nothing.                                 *)
LEMMA QuietFrame ==
  ASSUME Calling, Quiet, UNCHANGED <<event, sent, got>>,
         running' \cup spawned' \subseteq running \cup spawned,
         \A r \in spawned' : r.handler \notin Sync,
         walking' \subseteq walking,
         \A c \in Callers :
             \/ inSync'[c] = inSync[c] /\ (c \in walking' \/ inSync[c] = None)
             \/ inSync'[c] = None /\ Run(inSync[c], event[c]) \notin running,
         \A h \in Handlers : Removed(h)' => Removed(h) /\ left'[h] = left[h]
  PROVE  Quiet'
  <1>1. Awaited'
    <2>1. ASSUME NEW c \in Callers, inSync'[c] # None
          PROVE  c \in walking'
      BY <2>1 DEF Quiet, Awaited
    <2>2. ASSUME NEW r \in running', r.handler \in Sync
          PROVE  \E c \in walking' : inSync'[c] = r.handler /\ event'[c] = r.event
      <3>1. r \in running /\ r \in RunType
        BY <2>2 DEF Calling, TypeOK, Quiet, Awaited
      <3>2. PICK c \in walking : inSync[c] = r.handler /\ event[c] = r.event
        BY <2>2, <3>1 DEF Quiet, Awaited
      <3>3. c \in Callers /\ r.handler # None /\ r = Run(r.handler, r.event)
        BY <2>2, <3>1, <3>2, ConstantsAssumption DEF Calling, TypeOK, RunType, Run
      <3>4. Run(inSync[c], event[c]) \in running
        BY <3>1, <3>2, <3>3
      <3>5. inSync'[c] = inSync[c] /\ c \in walking'
        BY <3>2, <3>3, <3>4
      <3> QED BY <3>2, <3>5
    <2> QED BY <2>1, <2>2 DEF Awaited
  <1>2. Past'
    BY DEF Quiet, Past
  <1>3. NoLateEvent'
    BY DEF Quiet, NoLateEvent, RunsOf
  <1> QED BY <1>1, <1>2, <1>3 DEF Quiet

LEMMA QuietCall ==
  ASSUME Calling, Quiet, NEW c \in Callers, Call(c)
  PROVE  Quiet'
  <1>1. /\ c \notin walking /\ walking' = walking \cup {c} /\ sent' = sent + 1
        /\ UNCHANGED <<user, left, inSync, spawned, running, got>>
        /\ \A d \in walking : event'[d] = event[d]
    BY DEF Call, owners, runs, Calling, TypeOK
  <1>2. sent \in Nat
    BY ConstantsAssumption DEF Calling, TypeOK
  <1>3. Awaited'
    BY <1>1 DEF Quiet, Awaited
  <1>4. Past'
    <2>1. ASSUME NEW r \in spawned \cup running PROVE r.event.n <= sent + 1
      <3>1. r.event.n \in Nat /\ r.event.n <= sent
        BY ConstantsAssumption DEF Quiet, Past, Calling, TypeOK, RunType
      <3> QED BY <1>2, <3>1
    <2>2. ASSUME NEW h \in Handlers, NEW k \in DOMAIN got[h] PROVE got[h][k].n <= sent + 1
      <3> DEFINE E == [n: 1..MaxEvents, type: Types]
      <3>1. got[h] \in Seq(E)
        BY DEF Calling, TypeOK
      <3> HIDE DEF E
      <3>2. got[h][k] \in E
        BY <3>1
      <3>3. got[h][k].n \in Nat
        BY <3>2, ConstantsAssumption DEF E
      <3> QED BY <1>2, <3>3 DEF Quiet, Past
    <2> QED BY <1>1, <2>1, <2>2 DEF Past
  <1>5. NoLateEvent'
    BY <1>1 DEF Quiet, NoLateEvent, RunsOf, Removed
  <1> QED BY <1>3, <1>4, <1>5 DEF Quiet

(* A new run is of a handler that is registered, and of this caller's event.*)
LEMMA QuietNext ==
  ASSUME Sound, Calling, Quiet, NEW c \in Callers, CallNext(c)
  PROVE  Quiet'
  <1>1. PICK p \in todo[c] :
            /\ running' = running \cup {Run(x, event[c]) : x \in {Handled(p)} \cap Sync}
            /\ spawned' = spawned \cup {Run(x, event[c]) : x \in {Handled(p)} \ Sync}
            /\ inSync' = [inSync EXCEPT ![c] = IF Handled(p) \in Sync THEN Handled(p) ELSE None]
    BY DEF CallNext
  <1>2. /\ c \in walking /\ inSync[c] = None
        /\ UNCHANGED <<user, left, walking, event, sent, got>>
    BY DEF CallNext, owners
  <1>3. Walks(c) /\ event[c].type \in Types
    BY <1>2 DEF Calling, Walks, Event
  <1>4. Handled(p) \in Handlers /\ Handled(p) # None /\ ~Removed(Handled(p))
    BY <1>1, <1>3, OffersOwned, ConstantsAssumption DEF Walks, Registered, Removed
  <1>5. \A x : Run(x, event[c]).handler = x /\ Run(x, event[c]).event = event[c]
    BY DEF Run
  <1>6. inSync'[c] = (IF Handled(p) \in Sync THEN Handled(p) ELSE None)
        /\ \A d \in Callers \ {c} : inSync'[d] = inSync[d]
    BY <1>1 DEF Calling, TypeOK
  <1>7. Awaited'
    <2>1. ASSUME NEW r \in running', r.handler \in Sync
          PROVE  \E d \in walking' : inSync'[d] = r.handler /\ event'[d] = r.event
      <3>1. CASE r \in running
        <4>1. PICK d \in walking : inSync[d] = r.handler /\ event[d] = r.event
          BY <2>1, <3>1 DEF Quiet, Awaited
        <4>2. d # c /\ d \in Callers
          BY <1>2, <2>1, <4>1, ConstantsAssumption DEF Calling, TypeOK
        <4> QED BY <1>2, <1>6, <4>1, <4>2
      <3>2. CASE r \notin running
        BY <1>1, <1>2, <1>5, <1>6, <2>1, <3>2
      <3> QED BY <3>1, <3>2
    <2>2. \A r \in spawned' : r.handler \notin Sync
      BY <1>1, <1>5 DEF Quiet, Awaited
    <2> QED BY <1>2, <1>6, <2>1, <2>2 DEF Quiet, Awaited
  <1>8. Past'
    BY <1>1, <1>2, <1>3, <1>5 DEF Quiet, Past, Walks
  <1>9. NoLateEvent'
    <2>1. ASSUME NEW h \in Handlers, Removed(h) PROVE RunsOf(h)' = RunsOf(h)
      BY <1>1, <1>4, <1>5, <2>1 DEF RunsOf
    <2> QED BY <1>2, <2>1 DEF Quiet, NoLateEvent, Removed
  <1> QED BY <1>7, <1>8, <1>9 DEF Quiet

LEMMA QuietDeliver ==
  ASSUME Calling, Quiet, NEW r \in running, Deliver(r)
  PROVE  Quiet'
  <1>1. /\ running' = running \ {r} /\ got' = [got EXCEPT ![r.handler] = Append(@, r.event)]
        /\ UNCHANGED <<user, left, walking, event, inSync, spawned, sent>>
    BY DEF Deliver, calls, owners
  <1>2. r.handler \in Handlers /\ r.event \in Event /\ r.event.n <= sent
    BY DEF Calling, TypeOK, RunType, Event, Quiet, Past
  <1>3. ASSUME NEW h \in Handlers, NEW k \in DOMAIN got'[h]
        PROVE  \/ got'[h][k] = r.event /\ h = r.handler
               \/ k \in DOMAIN got[h] /\ got'[h][k] = got[h][k]
    <2>1. CASE h # r.handler
      BY <1>1, <1>3, <2>1 DEF Calling, TypeOK
    <2>2. CASE h = r.handler
      <3>1. got'[h] = Append(got[h], r.event) /\ got[h] \in Seq(Event)
        BY <1>1, <2>2 DEF Calling, TypeOK, Event
      <3> QED BY <1>2, <1>3, <2>2, <3>1
    <2> QED BY <2>1, <2>2
  <1>4. Awaited'
    BY <1>1 DEF Quiet, Awaited
  <1>5. Past'
    BY <1>1, <1>2, <1>3 DEF Quiet, Past
  <1>6. NoLateEvent'
    <2> SUFFICES ASSUME NEW h \in Handlers, Removed(h)
                 PROVE  /\ RunsOf(h)' \subseteq RunsOf(h)
                        /\ \A k \in DOMAIN got'[h] : got'[h][k].n <= left[h]
      BY <1>1 DEF Quiet, NoLateEvent, Removed
    <2>1. RunsOf(h)' \subseteq RunsOf(h)
      BY <1>1 DEF RunsOf
    <2>2. r.handler = h => r.event.n <= left[h]
      BY DEF Quiet, NoLateEvent, RunsOf
    <2> QED BY <1>3, <2>1, <2>2 DEF Quiet, NoLateEvent
  <1> QED BY <1>4, <1>5, <1>6 DEF Quiet

(* rm has the lock, so no caller waits for a run, and every event there is  *)
(* was handed out before.                                                   *)
LEMMA QuietRemove ==
  ASSUME Sound, Calling, Quiet, NEW h \in Handlers, RemoveLocked(h)
  PROVE  Quiet'
  <1>1. /\ walking = {} /\ left' = [left EXCEPT ![h] = sent] /\ user' = [user EXCEPT ![h] = "cleanup"]
        /\ UNCHANGED <<walking, event, inSync, spawned, running, sent, got>>
    BY DEF RemoveLocked, GoTo, calls, runs
  <1>2. \A r \in spawned \cup running : r.handler \notin Sync
    BY <1>1 DEF Quiet, Awaited
  <1>3. Awaited' /\ Past'
    BY <1>1 DEF Quiet, Awaited, Past
  <1>4. NoLateEvent'
    <2> SUFFICES ASSUME NEW g \in Handlers, Removed(g)'
                 PROVE  /\ g \in Sync => RunsOf(g) = {}
                        /\ \A r \in RunsOf(g) : r.event.n <= left'[g]
                        /\ \A k \in DOMAIN got[g] : got[g][k].n <= left'[g]
      BY <1>1 DEF NoLateEvent, RunsOf
    <2>1. CASE g = h
      BY <1>1, <1>2, <2>1 DEF Quiet, Past, RunsOf, Calling, TypeOK
    <2>2. CASE g # h
      BY <1>1, <2>2 DEF Quiet, NoLateEvent, Removed, Calling, TypeOK, RegistryType
    <2> QED BY <2>1, <2>2
  <1> QED BY <1>3, <1>4 DEF Quiet

LEMMA QuietStep ==
  ASSUME Sound, Calling, Quiet, [Next]_vars
  PROVE  Quiet'
  <1>1. ASSUME NEW h \in Handlers, AddHandler(h) \/ Remove(h) \/ AddLocked(h) \/ Cleanup(h)
        PROVE  Quiet'
    <2>1. UNCHANGED <<left, walking, event, inSync, spawned, running, sent, got>>
      BY <1>1 DEF AddHandler, Remove, AddLocked, Cleanup, calls, runs
    <2>2. \A g \in Handlers : Removed(g)' => Removed(g)
      BY <1>1 DEF AddHandler, Remove, AddLocked, Cleanup, GoTo, Removed, Calling, TypeOK, RegistryType
    <2> QED BY <2>1, <2>2, QuietFrame DEF Quiet, Awaited
  <1>2. ASSUME NEW c \in Callers, SyncDone(c) \/ CallReturn(c)
        PROVE  Quiet'
    <2>1. /\ UNCHANGED <<user, left, event, spawned, running, sent, got>> /\ walking' \subseteq walking
          /\ SyncDone(c) => /\ walking' = walking
                            /\ inSync' = [inSync EXCEPT ![c] = None]
                            /\ Run(inSync[c], event[c]) \notin running
          /\ CallReturn(c) => /\ inSync' = inSync /\ inSync[c] = None
                              /\ walking' = walking \ {c}
      BY <1>2 DEF SyncDone, CallReturn, owners, runs
    <2>2. ASSUME NEW d \in Callers
          PROVE  \/ inSync'[d] = inSync[d] /\ (d \in walking' \/ inSync[d] = None)
                 \/ inSync'[d] = None /\ Run(inSync[d], event[d]) \notin running
      <3>1. d \in walking \/ inSync[d] = None
        BY DEF Quiet, Awaited
      <3>2. SyncDone(c) => IF d = c THEN inSync'[d] = None ELSE inSync'[d] = inSync[d]
        BY <2>1 DEF Calling, TypeOK
      <3> QED BY <1>2, <2>1, <3>1, <3>2
    <2>3. \A h \in Handlers : Removed(h)' => Removed(h) /\ left'[h] = left[h]
      BY <2>1 DEF Removed
    <2>4. running' \cup spawned' \subseteq running \cup spawned /\ \A r \in spawned' : r.handler \notin Sync
      BY <2>1 DEF Quiet, Awaited
    <2> QED BY <2>1, <2>2, <2>3, <2>4, QuietFrame
  <1>3. CASE Begin \/ SendCancelled \/ Stopped \/ UNCHANGED vars
    <2>1. UNCHANGED <<user, left, walking, event, inSync, sent, got>>
      BY <1>3 DEF Begin, SendCancelled, Stopped, vars, calls, owners
    <2>2. running' \cup spawned' \subseteq running \cup spawned /\ spawned' \subseteq spawned
      BY <1>3 DEF Begin, SendCancelled, Stopped, vars, runs
    <2> QED BY <2>1, <2>2, QuietFrame DEF Quiet, Awaited, Removed
  <1>4. CASE FunctionRuns \/ Received
    BY <1>4, QuietDeliver DEF FunctionRuns, Received
  <1> QED BY <1>1, <1>2, <1>3, <1>4, QuietCall, QuietNext, QuietRemove DEF Next, Owner, Walk

(* A handler that rm has taken out sees no event that arrived after that,   *)
(* and a synchronous one is not in the middle of any.                       *)
THEOREM NothingComesLate == Spec => []NoLateEvent
  <1>1. Init => Sound /\ Calling /\ Quiet
    BY SoundInit, CallingInit, QuietInit
  <1>2. Sound /\ Calling /\ Quiet /\ [Next]_vars => (Sound /\ Calling /\ Quiet)'
    BY SoundStep, CallingStep, QuietStep
  <1>3. Quiet => NoLateEvent
    BY DEF Quiet
  <1> QED BY <1>1, <1>2, <1>3, PTL DEF Spec

-----------------------------------------------------------------------------
(* The order of events, with one goroutine that calls: the event it is at   *)
(* is later than all a synchronous handler has been run with that has yet   *)
(* to be run with this one.                                                 *)
OneCaller == \A c, d \in Callers : c = d

AllBefore(h, e) == \A k \in DOMAIN got[h] : got[h][k].n < e.n

Later ==
    /\ \A c \in Callers : inSync[c] # None => inSync[c] \in called[c]
    /\ \A h \in Sync : \A c \in walking :
           h \notin called[c] \/ Run(h, event[c]) \in running => AllBefore(h, event[c])

Ordered == Later /\ SyncInOrder

LEMMA OrderedInit == Init => Ordered
  <1> SUFFICES ASSUME Init PROVE Ordered
    OBVIOUS
  <1>1. ASSUME NEW h \in Sync PROVE DOMAIN got[h] = {}
    <2>1. got[h] = <<>>
      BY ConstantsAssumption DEF Init
    <2> QED BY <2>1
  <1> QED BY <1>1 DEF Init, Ordered, Later, SyncInOrder

(* What does not start anything and delivers nothing.                       *)
LEMMA OrderedFrame ==
  ASSUME Calling, Ordered, UNCHANGED <<event, called, sent, got>>,
         \A r \in running' : r \in running \/ r.handler \notin Sync,
         walking' \subseteq walking,
         \A c \in Callers : inSync'[c] = inSync[c] \/ inSync'[c] = None
  PROVE  Ordered'
  <1>1. Later'
    BY DEF Ordered, Later, AllBefore, Run
  <1>2. SyncInOrder'
    BY DEF Ordered, SyncInOrder
  <1> QED BY <1>1, <1>2 DEF Ordered

(* A Call: its event is the latest of all.                                  *)
LEMMA OrderedCall ==
  ASSUME OneCaller, Calling, Quiet, Ordered, NEW c \in Callers, Call(c)
  PROVE  Ordered'
  <1>1. /\ c \notin walking /\ walking' = walking \cup {c} /\ sent' = sent + 1
        /\ UNCHANGED <<inSync, running, got>>
    BY DEF Call, runs
  <1>2. event'[c].n = sent + 1
    BY DEF Call, Calling, TypeOK
  <1>3. walking = {}
    BY <1>1 DEF OneCaller, Calling, TypeOK
  <1>4. inSync = [d \in Callers |-> None]
    BY <1>3 DEF Quiet, Awaited, Calling, TypeOK
  <1>6. Later'
    <2>1. sent \in Nat
      BY ConstantsAssumption DEF Calling, TypeOK
    <2>2. ASSUME NEW h \in Sync, NEW k \in DOMAIN got[h]
          PROVE  got[h][k].n \in Nat /\ got[h][k].n <= sent
      <3> DEFINE E == [n: 1..MaxEvents, type: Types]
      <3>1. got[h] \in Seq(E)
        BY ConstantsAssumption DEF Calling, TypeOK
      <3> HIDE DEF E
      <3>2. got[h][k] \in E
        BY <3>1
      <3>3. got[h][k].n \in 1..MaxEvents
        BY <3>2 DEF E
      <3>4. got[h][k].n <= sent
        BY ConstantsAssumption DEF Quiet, Past
      <3> QED BY <3>3, <3>4, ConstantsAssumption
    <2> QED BY <1>1, <1>2, <1>3, <1>4, <2>1, <2>2 DEF Later, AllBefore
  <1>7. SyncInOrder'
    BY <1>1 DEF Ordered, SyncInOrder
  <1> QED BY <1>6, <1>7 DEF Ordered

(* The next handler of the walk has not been called with this event.        *)
LEMMA OrderedNext ==
  ASSUME Sound, OneCaller, Calling, Quiet, Ordered, NEW c \in Callers, CallNext(c)
  PROVE  Ordered'
  <1>1. PICK p \in todo[c] :
            /\ called' = [called EXCEPT ![c] = @ \cup {Handled(p)}]
            /\ running' = running \cup {Run(x, event[c]) : x \in {Handled(p)} \cap Sync}
            /\ inSync' = [inSync EXCEPT ![c] = IF Handled(p) \in Sync THEN Handled(p) ELSE None]
    BY DEF CallNext
  <1>2. /\ c \in walking /\ inSync[c] = None
        /\ UNCHANGED <<walking, event, sent, got>>
    BY DEF CallNext
  <1>3. walking = {c} /\ Callers = {c}
    BY <1>2 DEF OneCaller, Calling, TypeOK
  <1>4. Handled(p) \in Handlers /\ Handled(p) # None /\ Handled(p) \notin called[c]
    <2>1. Handled(p) \in Handlers
      BY <1>1, <1>2, OffersOwned DEF Calling, Walks, Event
    <2>2. Handled(p) \in {Handled(q) : q \in todo[c]}
      BY <1>1
    <2> QED BY <1>2, <2>1, <2>2, ConstantsAssumption DEF Calling, AllCalled
  <1>5. /\ called'[c] = called[c] \cup {Handled(p)}
        /\ inSync'[c] = IF Handled(p) \in Sync THEN Handled(p) ELSE None
    BY <1>1 DEF Calling, TypeOK
  <1>6. \A r \in running : r.handler \notin Sync
    BY <1>2, <1>3, ConstantsAssumption DEF Quiet, Awaited
  <1>8. Later'
    <2> SUFFICES ASSUME NEW h \in Sync
                 PROVE  h \notin called'[c] \/ Run(h, event[c]) \in running'
                            => AllBefore(h, event[c])
      BY <1>2, <1>3, <1>5 DEF Ordered, Later, AllBefore, Run
    <2>1. CASE h \notin called[c]
      BY <1>2, <2>1 DEF Ordered, Later
    <2>2. CASE h \in called[c]
      <3>1. Run(h, event[c]) \notin running'
        BY <1>1, <1>4, <1>6, <2>2 DEF Run
      <3> QED BY <1>5, <2>2, <3>1
    <2> QED BY <2>1, <2>2
  <1>9. SyncInOrder'
    BY <1>2 DEF Ordered, SyncInOrder
  <1> QED BY <1>8, <1>9 DEF Ordered

(* A run ends: it was awaited, so nobody has seen a later event.            *)
LEMMA OrderedDeliver ==
  ASSUME OneCaller, Calling, Quiet, Ordered, NEW r \in running, Deliver(r)
  PROVE  Ordered'
  <1>1. /\ running' = running \ {r} /\ got' = [got EXCEPT ![r.handler] = Append(@, r.event)]
        /\ UNCHANGED <<walking, event, called, inSync, sent>>
    BY DEF Deliver, calls
  <1>2. r.handler \in Handlers /\ r.event \in Event /\ r = Run(r.handler, r.event)
    BY DEF Calling, TypeOK, RunType, Event, Run
  <1>4. ASSUME NEW h \in Sync, h # r.handler PROVE got'[h] = got[h]
    BY <1>1, <1>4, ConstantsAssumption DEF Calling, TypeOK
  <1>5. CASE r.handler \notin Sync
    <2>1. \A h \in Sync : got'[h] = got[h]
      BY <1>4, <1>5
    <2> QED BY <1>1, <2>1 DEF Ordered, Later, AllBefore, SyncInOrder, Run
  <1>6. CASE r.handler \in Sync
    <2> DEFINE h == r.handler
               n == Len(got[h])
    <2>1. PICK c \in walking : inSync[c] = h /\ event[c] = r.event
      BY <1>6 DEF Quiet, Awaited
    <2>2. walking = {c} /\ c \in Callers
      BY <2>1 DEF OneCaller, Calling, TypeOK
    <2>3. h \in called[c]
      BY <1>6, <2>1, <2>2, ConstantsAssumption DEF Ordered, Later
    <2>4. AllBefore(h, event[c])
      BY <1>2, <1>6, <2>1 DEF Ordered, Later
    <2>5. event[c].n <= sent
      BY <2>1 DEF Calling, Walks
    <2>6. /\ n \in Nat /\ DOMAIN got[h] = 1..n /\ DOMAIN got'[h] = 1..(n + 1)
          /\ \A k \in 1..n : got'[h][k] = got[h][k]
          /\ got'[h][n + 1] = event[c]
      <3>1. got[h] \in Seq(Event) /\ event[c] \in Event
        BY <1>2, <2>1 DEF Calling, TypeOK, Event
      <3>2. got'[h] = Append(got[h], event[c])
        BY <1>1, <1>2, <2>1 DEF Calling, TypeOK
      <3> QED BY <3>1, <3>2
    <2> HIDE DEF h, n
    <2>7. Later'
      <3>2. ASSUME NEW g \in Sync, g \notin called[c] \/ Run(g, event[c]) \in running'
            PROVE  \A k \in DOMAIN got'[g] : got'[g][k].n < event[c].n
        <4>1. g # h
          BY <1>1, <1>2, <2>1, <2>3, <3>2 DEF h
        <4> QED BY <1>1, <1>4, <2>1, <3>2, <4>1 DEF Ordered, Later, AllBefore, h
      <3> QED BY <1>1, <2>2, <3>2 DEF Ordered, Later, AllBefore, Run
    <2>8. SyncInOrder'
      <3> SUFFICES ASSUME NEW g \in Sync, NEW j \in DOMAIN got'[g], NEW k \in DOMAIN got'[g], j < k
                   PROVE  got'[g][j].n < got'[g][k].n
        BY DEF SyncInOrder
      <3>1. CASE g # h
        BY <1>4, <3>1 DEF Ordered, SyncInOrder, h
      <3>2. CASE g = h
        <4>1. j \in 1..n /\ (k \in 1..n \/ k = n + 1)
          BY <2>6, <3>2
        <4>2. CASE k \in 1..n
          BY <2>6, <3>2, <4>1, <4>2 DEF Ordered, SyncInOrder
        <4>3. CASE k = n + 1
          BY <2>4, <2>6, <3>2, <4>1, <4>3 DEF AllBefore
        <4> QED BY <4>1, <4>2, <4>3
      <3> QED BY <3>1, <3>2
    <2> QED BY <2>7, <2>8 DEF Ordered
  <1> QED BY <1>5, <1>6

LEMMA OrderedStep ==
  ASSUME Sound, OneCaller, Calling, Quiet, Ordered, [Next]_vars
  PROVE  Ordered'
  <1>1. CASE \E h \in Handlers : AddHandler(h) \/ Remove(h) \/ Owner(h)
    <2>1. UNCHANGED <<walking, event, called, inSync, running, sent, got>>
      BY <1>1 DEF AddHandler, Remove, Owner, AddLocked, RemoveLocked, Cleanup, calls, runs
    <2> QED BY <2>1, OrderedFrame
  <1>2. CASE \E c \in Callers : Call(c) \/ CallNext(c)
    BY <1>2, OrderedCall, OrderedNext
  <1>3. ASSUME NEW c \in Callers, SyncDone(c) \/ CallReturn(c)
        PROVE  Ordered'
    <2>1. /\ UNCHANGED <<event, called, running, sent, got>> /\ walking' \subseteq walking
          /\ inSync' = inSync \/ inSync' = [inSync EXCEPT ![c] = None]
      BY <1>3 DEF SyncDone, CallReturn, runs
    <2>2. \A d \in Callers : inSync'[d] = inSync[d] \/ inSync'[d] = None
      BY <2>1 DEF Calling, TypeOK
    <2> QED BY <2>1, <2>2, OrderedFrame
  <1>4. CASE FunctionRuns \/ Received
    BY <1>4, OrderedDeliver DEF FunctionRuns, Received
  <1>5. CASE Begin \/ SendCancelled \/ Stopped \/ UNCHANGED vars
    <2>1. UNCHANGED <<walking, event, called, inSync, sent, got>>
      BY <1>5 DEF Begin, SendCancelled, Stopped, vars, calls
    <2>2. \A r \in running' : r \in running \/ r.handler \notin Sync
      BY <1>5 DEF Begin, SendCancelled, Stopped, vars, runs, Quiet, Awaited
    <2> QED BY <2>1, <2>2, OrderedFrame
  <1> QED BY <1>1, <1>2, <1>3, <1>4, <1>5 DEF Next, Walk

(* Synchronous handlers see the events in the order they arrived in, each   *)
(* one once, if one goroutine calls them, as the event loop of a session    *)
(* does.                                                                    *)
THEOREM SynchronousInOrder ==
  ASSUME OneCaller
  PROVE  Spec => []SyncInOrder
  <1>1. Init => Sound /\ Calling /\ Quiet /\ Ordered
    BY SoundInit, CallingInit, QuietInit, OrderedInit
  <1>2. Sound /\ Calling /\ Quiet /\ Ordered /\ [Next]_vars => (Sound /\ Calling /\ Quiet /\ Ordered)'
    BY SoundStep, CallingStep, QuietStep, OrderedStep
  <1>3. Ordered => SyncInOrder
    BY DEF Ordered
  <1> QED BY <1>1, <1>2, <1>3, PTL DEF Spec
==============================================================================
