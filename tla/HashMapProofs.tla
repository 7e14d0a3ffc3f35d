--------------------------- MODULE HashMapProofs ----------------------------
(***************************************************************************)
(* The table of hash_map.hpp, for every key set, hash function, initial    *)
(* capacity and number of calls: types, the count of used slots, room to   *)
(* probe, that internal_get finds every stored entry, that iterators are   *)
(* complete, and that the table is the map of MapSpec.                     *)
(***************************************************************************)
EXTENDS HashMap, FiniteSetTheorems, TLAPS

-----------------------------------------------------------------------------
(* The inductive invariant.                                                *)

(* The local distance of internal_put never leaves 0, so neither does any  *)
(* stored one, and the robin-hood swap never happens.                      *)
ZeroDistances ==
  /\ \A i \in Used(entries) : entries[i].distance = 0
  /\ pc = "probe" => cur.distance = 0

UniqueKeys ==
  \A i, j \in Used(entries) : entries[i].key = entries[j].key => i = j

(* Every entry is reached from its home slot over used slots only, within  *)
(* the bound of internal_get.                                              *)
Chained ==
  \A i \in Used(entries) : \E r \in 0..capacity-1 :
     /\ r <= maxDistance
     /\ Index(Home(entries[i].key), r) = i
     /\ \A q \in 0..r-1 : entries[Index(Home(entries[i].key), q)] # None

(* internal_put has passed over other keys only, and counted each of them. *)
Probing ==
  pc = "probe" =>
    /\ cur.start = Home(cur.key)
    /\ cur.roll <= maxDistance
    /\ \A q \in 0..cur.roll-1 : Passes(Index(cur.start, q), cur.key)

(* The load at each point of put; a rehash has moved at most one entry per *)
(* old slot it has looked at.                                              *)
Loaded ==
  /\ pc = "idle" => size * 5 < capacity * 4
  /\ pc = "probe" => size < capacity
  /\ pc = "stored" => size <= capacity
  /\ oldCapacity # 0 => size + (IF pc = "probe" THEN 1 ELSE 0) <= oldIndex

(* What remove keeps, too: the count, and room for every probe.            *)
CountInv == /\ TypeOK
            /\ SizeCountsUsed
            /\ ZeroDistances
            /\ Probing
            /\ Loaded

(* What it breaks: every key is stored once and can be found.              *)
IInv == CountInv /\ UniqueKeys /\ Chained

-----------------------------------------------------------------------------
(* Arithmetic of the probe sequence start, start + 1, ... modulo capacity. *)

(* A probed index is an index of the table.                                *)
LEMMA IndexInRange ==
  ASSUME NEW n \in Nat \ {0}, NEW s \in Nat, NEW r \in Nat
  PROVE  (s + r) % n \in 0..n-1
  OBVIOUS

(* The home slot is an index of the table.                                 *)
LEMMA HomeInRange ==
  ASSUME NEW k \in Key, capacity \in Nat \ {0}
  PROVE  Home(k) \in 0..capacity-1
  BY HashAssumption DEF Home

(* One round of the probe sequence visits no slot twice.                   *)
LEMMA IndexInjective ==
  ASSUME NEW n \in Nat \ {0}, NEW s \in 0..n-1,
         NEW q \in 0..n-1, NEW r \in 0..n-1, (s + q) % n = (s + r) % n
  PROVE  q = r
<1>1. \A x \in 0..n-1 : (s + x) % n = IF s + x < n THEN s + x ELSE s + x - n
  OBVIOUS
<1>2. QED
  BY <1>1

(* One round of the probe sequence visits every slot.                      *)
LEMMA IndexOnto ==
  ASSUME NEW n \in Nat \ {0}, NEW s \in 0..n-1, NEW i \in 0..n-1
  PROVE  \E r \in 0..n-1 : (s + r) % n = i
<1>1. CASE s <= i
  <2>1. i - s \in 0..n-1 /\ (s + (i - s)) % n = i
    BY <1>1
  <2>2. QED
    BY <2>1
<1>2. CASE i < s
  <2>1. i - s + n \in 0..n-1 /\ (s + (i - s + n)) % n = i
    BY <1>2
  <2>2. QED
    BY <2>1
<1>3. QED
  BY <1>1, <1>2

(* The used slots of a table are finitely many, at most its capacity, and  *)
(* fewer than its capacity only if one is free.                            *)
LEMMA UsedFinite ==
  ASSUME NEW n \in Nat, NEW table \in Table(n)
  PROVE  /\ IsFiniteSet(Used(table))
         /\ Cardinality(Used(table)) \in 0..n
         /\ Cardinality(Used(table)) < n => \E i \in 0..n-1 : table[i] = None
<1>1. IsFiniteSet(0..n-1) /\ Cardinality(0..n-1) = n
  BY FS_Interval
<1>2. Used(table) \in SUBSET (0..n-1) /\ DOMAIN table = 0..n-1
  BY DEF Used, Table
<1>3. /\ IsFiniteSet(Used(table))
      /\ Cardinality(Used(table)) <= n
      /\ Cardinality(Used(table)) = n <=> Used(table) = 0..n-1
  BY <1>1, <1>2, FS_Subset
<1>4. Cardinality(Used(table)) \in Nat
  BY <1>3, FS_CardinalityType
<1>5. ASSUME Cardinality(Used(table)) < n
      PROVE  \E i \in 0..n-1 : table[i] = None
  BY <1>2, <1>3, <1>4, <1>5 DEF Used
<1>6. QED
  BY <1>3, <1>4, <1>5

-----------------------------------------------------------------------------
(* Initially the table is empty.                                           *)
LEMMA InitInvariant == Init => IInv
<1> SUFFICES ASSUME Init PROVE IInv
  OBVIOUS
<1> USE CapacityAssumption, BoundAssumption DEF Init
<1>1. entries \in Table(capacity) /\ oldEntries \in Table(oldCapacity)
  BY DEF EmptyTable, NoTable, Table, Slot
<1>2. Used(entries) = {}
  BY DEF EmptyTable, Used
<1>3. TypeOK
  BY <1>1 DEF TypeOK
<1>4. SizeCountsUsed
  BY <1>2, FS_EmptySet DEF SizeCountsUsed
<1>5. ZeroDistances /\ UniqueKeys /\ Chained
  BY <1>2 DEF ZeroDistances, UniqueKeys, Chained
<1>6. Probing /\ Loaded
  BY DEF Probing, Loaded
<1>7. QED
  BY <1>3, <1>4, <1>5, <1>6 DEF IInv, CountInv

(* internal_put meets a free slot or its own key before it has gone round. *)
LEMMA ProbeHasRoom ==
  ASSUME CountInv, pc = "probe"
  PROVE  /\ \E r \in cur.roll..capacity-1 :
               ~Passes(Index(cur.start, r), cur.key)
         /\ CurIndex \in 0..capacity-1
<1>1. /\ capacity \in Nat \ {0}
      /\ entries \in Table(capacity)
      /\ cur.start \in 0..capacity-1
      /\ cur.roll \in 0..capacity-1
  BY DEF CountInv, TypeOK
<1>2. PICK i \in 0..capacity-1 : entries[i] = None
  BY <1>1, UsedFinite DEF CountInv, SizeCountsUsed, Loaded
<1>3. PICK r \in 0..capacity-1 : Index(cur.start, r) = i
  BY <1>1, IndexOnto DEF Index
<1>4. ~Passes(Index(cur.start, r), cur.key)
  BY <1>2, <1>3 DEF Passes
<1>5. r \notin 0..cur.roll-1
  BY <1>4 DEF CountInv, Probing
<1>6. CurIndex \in 0..capacity-1
  <2>1. cur.start \in Nat /\ cur.roll \in Nat
    BY <1>1
  <2>2. QED
    BY <1>1, <2>1, IndexInRange DEF CurIndex, Index
<1>7. QED
  BY <1>1, <1>3, <1>4, <1>5, <1>6

(* A call of internal_put starts with correct locals.                      *)
LEMMA CallCorrect ==
  ASSUME NEW k \in Key, NEW v \in Value, capacity \in Nat \ {0}
  PROVE  /\ Call(k, v) \in [key : Key, value : Value, distance : Int,
                            start : 0..capacity-1, roll : 0..capacity-1]
         /\ Call(k, v).start = Home(Call(k, v).key)
         /\ Call(k, v).roll = 0
         /\ Call(k, v).distance = 0
  BY HomeInRange DEF Call

-----------------------------------------------------------------------------
(* Each action keeps the count and the room.                               *)

(* Queries and iterator steps leave the table alone.                       *)
LEMMA QueryStep ==
  ASSUME CountInv,
         \/ \E k \in Key : Get(k) \/ MaybeGet(k)
         \/ Iterate
         \/ IterNext
  PROVE  CountInv'
<1>1. /\ pc = "idle"
      /\ pc' \in {"idle", "panic"}
      /\ UNCHANGED <<entries, capacity, size, maxDistance, modificationCount,
                     cur, oldEntries, oldCapacity, oldIndex>>
  BY DEF Get, MaybeGet, Iterate, IterNext
<1>2. \A e \in Entry : Pair(e) \in [key : Key, value : Value]
  BY DEF Pair, Entry
<1>3. \A k \in Key : Lookup(k) \in Slot
  <2> SUFFICES ASSUME NEW k \in Key PROVE Lookup(k) \in Slot
    OBVIOUS
  <2> DEFINE rolls == {r \in 0..maxDistance : Hit(k, r)}
             roll == CHOOSE r \in rolls : TRUE
  <2>1. CASE rolls = {}
    BY <2>1 DEF Lookup, Slot
  <2>2. CASE rolls # {}
    <3>1. roll \in Nat /\ Home(k) \in Nat /\ capacity \in Nat \ {0}
      BY <2>2, HomeInRange DEF CountInv, TypeOK
    <3>2. Index(Home(k), roll) \in 0..capacity-1
      BY <3>1, IndexInRange DEF Index
    <3>3. entries[Index(Home(k), roll)] \in Slot
      BY <3>2 DEF CountInv, TypeOK, Table
    <3>4. QED
      BY <2>2, <3>3 DEF Lookup
  <2>3. QED
    BY <2>1, <2>2
<1>4. \A i \in Used(entries) : i \in Nat /\ entries[i] \in Entry
  BY DEF CountInv, TypeOK, Table, Slot, Used
<1>5. /\ ret' \in {None} \cup [key : Key, value : Value]
      /\ iter' \in {None} \cup [count : Nat, index : Nat,
                                initial : 0..MaxModifications]
  <2>1. CASE \E k \in Key : Get(k) \/ MaybeGet(k)
    BY <2>1, <1>2, <1>3 DEF Get, MaybeGet, CountInv, TypeOK, Slot
  <2>2. CASE Iterate
    BY <2>2 DEF Iterate, CountInv, TypeOK
  <2>3. CASE IterNext
    BY <2>3, <1>2, <1>4 DEF IterNext, Live, Ahead, CountInv, TypeOK
  <2>4. QED
    BY <2>1, <2>2, <2>3
<1>6. TypeOK'
  BY <1>1, <1>5 DEF CountInv, TypeOK
<1>7. SizeCountsUsed' /\ ZeroDistances'
  BY <1>1 DEF CountInv, SizeCountsUsed, ZeroDistances, Used
<1>8. Probing' /\ Loaded'
  BY <1>1 DEF CountInv, TypeOK, Probing, Loaded, Used, Home, Index
<1>9. QED
  BY <1>6, <1>7, <1>8 DEF CountInv

(* The steps that only move the program counter or start internal_put.     *)
LEMMA PutStep ==
  ASSUME CountInv, NEW k \in Key, NEW v \in Value, Put(k, v)
  PROVE  CountInv'
<1> USE DEF Put
<1>1. capacity \in Nat \ {0}
  BY DEF CountInv, TypeOK
<1>2. TypeOK'
  BY <1>1, CallCorrect, BoundAssumption DEF CountInv, TypeOK
<1>3. SizeCountsUsed' /\ ZeroDistances'
  BY <1>1, CallCorrect
     DEF CountInv, SizeCountsUsed, ZeroDistances, Used
<1>5. Probing'
  <2>1. cur'.roll = 0 /\ maxDistance' \in Nat
    BY <1>1, CallCorrect DEF CountInv, TypeOK
  <2>2. cur'.start = Home(cur'.key)
    BY <1>1, CallCorrect
  <2>3. cur'.start = Home(cur.key)'
    BY <2>2 DEF Home
  <2>4. QED
    BY <2>1, <2>3 DEF Probing
<1>6. Loaded'
  BY <1>1 DEF CountInv, TypeOK, Loaded
<1>7. QED
  BY <1>2, <1>3, <1>5, <1>6 DEF CountInv

(* An empty table of any capacity is well formed.                          *)
LEMMA EmptyTableFacts ==
  ASSUME NEW n \in Nat \ {0}
  PROVE  EmptyTable(n) \in Table(n) /\ Used(EmptyTable(n)) = {}
  BY DEF EmptyTable, Table, Slot, Used

(* clear leaves an empty table of the same capacity.                       *)
LEMMA ClearStep ==
  ASSUME CountInv, Clear
  PROVE  CountInv'
<1> USE DEF Clear
<1>1. capacity \in Nat \ {0} /\ pc = "idle" /\ pc' = "idle"
  BY DEF CountInv, TypeOK
<1>2. entries' \in Table(capacity) /\ Used(entries)' = {}
  BY <1>1, EmptyTableFacts DEF Used
<1>3. TypeOK'
  BY <1>2, BoundAssumption DEF CountInv, TypeOK
<1>4. SizeCountsUsed'
  BY <1>2, FS_EmptySet DEF SizeCountsUsed
<1>5. ZeroDistances' /\ Probing'
  BY <1>1, <1>2 DEF ZeroDistances, Probing
<1>6. Loaded'
  BY <1>1 DEF CountInv, TypeOK, Loaded
<1>7. QED
  BY <1>3, <1>4, <1>5, <1>6 DEF CountInv

(* The allocation of the larger table leaves every entry to be moved.      *)
LEMMA GrowStep ==
  ASSUME CountInv, Grow
  PROVE  CountInv'
<1> USE DEF Grow
<1>1. /\ capacity \in Nat \ {0}
      /\ capacity' = capacity * 2
      /\ capacity' \in Nat \ {0}
      /\ pc' = "rehash"
  BY DEF CountInv, TypeOK
<1>2. entries' \in Table(capacity') /\ Used(entries)' = {}
  BY <1>1, EmptyTableFacts DEF Used
<1>3. TypeOK'
  BY <1>1, <1>2 DEF CountInv, TypeOK
<1>4. SizeCountsUsed'
  BY <1>2, FS_EmptySet DEF SizeCountsUsed
<1>5. ZeroDistances' /\ Probing'
  BY <1>1, <1>2 DEF ZeroDistances, Probing
<1>6. Loaded'
  BY <1>1 DEF CountInv, TypeOK, Loaded
<1>7. QED
  BY <1>3, <1>4, <1>5, <1>6 DEF CountInv

(* put returns only while the table is under its load limit.               *)
LEMMA ReturnStep ==
  ASSUME CountInv, Return \/ FinishRehash
  PROVE  CountInv'
<1> USE DEF Return, FinishRehash, MoreToMove
<1>1. /\ pc \in {"stored", "rehash"}
      /\ pc' = "idle"
      /\ oldCapacity' = 0
      /\ oldEntries' \in Table(0)
      /\ oldIndex' = 0
      /\ UNCHANGED <<entries, capacity, size, maxDistance, modificationCount,
                     cur, iter, ret>>
  <2>1. NoTable \in Table(0)
    BY DEF NoTable, Table
  <2>2. CASE Return
    BY <2>2 DEF CountInv, TypeOK
  <2>3. CASE FinishRehash
    BY <2>1, <2>3 DEF CountInv, TypeOK
  <2>4. QED
    BY <2>2, <2>3
<1>2. TypeOK'
  BY <1>1 DEF CountInv, TypeOK
<1>3. SizeCountsUsed' /\ ZeroDistances'
  BY <1>1 DEF CountInv, SizeCountsUsed, ZeroDistances, Used
<1>4. Probing'
  BY <1>1 DEF CountInv, Probing, Used, Home, Index
<1>5. size * 5 < capacity * 4
  <2>1. CASE Return
    BY <2>1 DEF NeedsGrowth, CountInv, TypeOK
  <2>2. CASE FinishRehash
    BY <2>2 DEF CountInv, TypeOK, Loaded
  <2>3. QED
    BY <2>1, <2>2
<1>6. Loaded'
  BY <1>1, <1>5 DEF Loaded
<1>7. QED
  BY <1>2, <1>3, <1>4, <1>6 DEF CountInv

(* A step of the rehash moves a slot on, or calls internal_put for it.     *)
LEMMA RehashStep ==
  ASSUME CountInv, Rehash
  PROVE  CountInv'
<1> USE DEF Rehash, MoreToMove, NextOldIndex
<1> DEFINE e == oldEntries[oldIndex]
<1>1. /\ pc = "rehash"
      /\ capacity \in Nat \ {0}
      /\ oldCapacity \in Nat \ {0}
      /\ capacity = 2 * oldCapacity
      /\ oldIndex \in 0..oldCapacity-1
      /\ oldIndex' = oldIndex + 1
      /\ e \in Slot
      /\ UNCHANGED <<entries, capacity, size, maxDistance, modificationCount,
                     oldEntries, oldCapacity, iter, ret>>
  BY DEF CountInv, TypeOK, Table
<1>2. SizeCountsUsed'
  BY <1>1 DEF CountInv, SizeCountsUsed, Used, Home, Index
<1>3. \A i \in Used(entries)' : entries'[i].distance = 0
  BY <1>1 DEF CountInv, ZeroDistances, Used
<1>4. CASE e = None
  <2>1. pc' = "rehash" /\ cur' = cur
    BY <1>1, <1>4
  <2>2. TypeOK'
    BY <1>1, <2>1 DEF CountInv, TypeOK
  <2>3. ZeroDistances' /\ Probing' /\ Loaded'
    BY <1>1, <1>3, <2>1 DEF CountInv, TypeOK, ZeroDistances, Probing, Loaded
  <2>4. QED
    BY <1>2, <2>2, <2>3 DEF CountInv
<1>5. CASE e # None
  <2>1. /\ pc' = "probe"
        /\ e.key \in Key
        /\ e.value \in Value
        /\ cur' = Call(e.key, e.value)
    BY <1>1, <1>5 DEF Slot, Entry
  <2>2. TypeOK'
    BY <1>1, <2>1, CallCorrect DEF CountInv, TypeOK
  <2>3. ZeroDistances'
    BY <1>1, <1>3, <2>1, CallCorrect DEF ZeroDistances
  <2>4. cur'.roll = 0 /\ maxDistance' \in Nat
    BY <1>1, <2>1, CallCorrect DEF CountInv, TypeOK
  <2>5. cur'.start = Home(cur'.key)
    BY <1>1, <2>1, CallCorrect
  <2>6. cur'.start = Home(cur.key)'
    BY <1>1, <2>5 DEF Home
  <2>7. Probing'
    BY <2>4, <2>6 DEF Probing
  <2>8. Loaded'
    BY <1>1, <2>1 DEF CountInv, TypeOK, Loaded
  <2>9. QED
    BY <1>2, <2>2, <2>3, <2>7, <2>8 DEF CountInv
<1>6. QED
  BY <1>4, <1>5

(* A collision moves the probe on, and the search bound with it; nothing   *)
(* is swapped.                                                             *)
LEMMA CollisionMoves ==
  ASSUME CountInv, ProbeCollision
  PROVE  /\ pc = "probe" /\ pc' = "probe"
         /\ cur.roll + 1 < capacity
         /\ cur' = [cur EXCEPT !.roll = @ + 1]
         /\ maxDistance' = maxDistance + 1
         /\ UNCHANGED <<entries, capacity, size, modificationCount, oldEntries,
                        oldCapacity, oldIndex, iter, ret>>
<1> USE DEF ProbeCollision
<1>1. /\ pc = "probe"
      /\ Passes(CurIndex, cur.key)
      /\ CurIndex \in Used(entries)
  <2>1. CurIndex \in 0..capacity-1
    BY ProbeHasRoom
  <2>2. QED
    BY <2>1 DEF Passes, Used, CountInv, TypeOK, Table
<1>2. ~(entries[CurIndex].distance < cur.distance)
  BY <1>1 DEF CountInv, ZeroDistances
<1>3. cur.roll \in 0..capacity-1 /\ capacity \in Nat \ {0}
  BY <1>1 DEF CountInv, TypeOK
<1>4. cur.roll + 1 < capacity
  BY <1>1, <1>3, ProbeHasRoom DEF CurIndex
<1> QED
  BY <1>1, <1>2, <1>4 DEF CountCollision

(* It keeps the invariant.                                                 *)
LEMMA CollisionStep ==
  ASSUME CountInv, ProbeCollision
  PROVE  CountInv'
<1> USE DEF ProbeCollision
<1>1. pc = "probe" /\ Passes(CurIndex, cur.key)
  BY CollisionMoves
<1>3. /\ cur.roll \in 0..capacity-1
      /\ capacity \in Nat \ {0}
      /\ maxDistance \in Nat
      /\ cur \in [key : Key, value : Value, distance : Int,
                  start : 0..capacity-1, roll : 0..capacity-1]
  BY <1>1 DEF CountInv, TypeOK
<1>4. cur.roll + 1 < capacity
  BY CollisionMoves
<1>5. /\ pc' = "probe"
      /\ cur' = [cur EXCEPT !.roll = @ + 1]
      /\ maxDistance' = maxDistance + 1
      /\ UNCHANGED <<entries, capacity, size, modificationCount, oldEntries,
                     oldCapacity, oldIndex, iter, ret>>
  BY CollisionMoves
<1>6. /\ cur' \in [key : Key, value : Value, distance : Int,
                   start : 0..capacity-1, roll : 0..capacity-1]
      /\ cur'.roll = cur.roll + 1
      /\ cur'.key = cur.key
      /\ cur'.start = cur.start
      /\ cur'.distance = cur.distance
  BY <1>3, <1>4, <1>5
<1>7. TypeOK'
  BY <1>1, <1>3, <1>5, <1>6 DEF CountInv, TypeOK
<1>8. SizeCountsUsed' /\ ZeroDistances'
  BY <1>1, <1>5, <1>6
     DEF CountInv, SizeCountsUsed, ZeroDistances, Used
<1>10. Probing'
  <2>1. \A q \in 0..cur'.roll-1 : Passes(Index(cur.start, q), cur.key)
    BY <1>1, <1>3, <1>6 DEF CountInv, Probing, CurIndex
  <2>2. \A q \in 0..cur'.roll-1 : Passes(Index(cur.start, q), cur.key)'
    BY <1>5, <1>6, <2>1 DEF Passes, Index
  <2>3. cur'.start = Home(cur.key)'
    BY <1>1, <1>5, <1>6 DEF CountInv, Probing, Home
  <2>4. cur'.roll <= maxDistance'
    BY <1>1, <1>3, <1>5, <1>6 DEF CountInv, Probing
  <2>5. QED
    BY <2>2, <2>3, <2>4 DEF Probing
<1>11. Loaded'
  BY <1>1, <1>5 DEF CountInv, Loaded
<1>12. QED
  BY <1>7, <1>8, <1>10, <1>11 DEF CountInv

(* The entry is written to the slot that holds its key, or to a free one   *)
(* if none does.                                                           *)
LEMMA StoreWrites ==
  ASSUME CountInv, ProbeStore
  PROVE  /\ entries' \in Table(capacity)
         /\ Used(entries)' = Used(entries) \cup {CurIndex}
         /\ Cardinality(Used(entries)') =
              IF entries[CurIndex] = None THEN Cardinality(Used(entries)) + 1
                                          ELSE Cardinality(Used(entries))
         /\ entries'[CurIndex] = CurEntry
         /\ \A i \in Used(entries) : i # CurIndex => entries'[i] = entries[i]
         /\ \A i \in 0..capacity-1 : entries[i] # None => entries'[i] # None
<1> DEFINE at == CurIndex
<1>1. /\ pc = "probe"
      /\ capacity \in Nat \ {0}
      /\ at \in 0..capacity-1
      /\ maxDistance \in Nat
      /\ size \in Nat
      /\ entries \in Table(capacity)
      /\ DOMAIN entries = 0..capacity-1
      /\ cur.distance = 0
      /\ cur.roll \in 0..capacity-1
      /\ cur.key \in Key
  BY ProbeHasRoom DEF ProbeStore, CountInv, TypeOK, ZeroDistances, Table
<1>2. CurEntry \in Entry /\ CurEntry.key = cur.key /\ CurEntry.distance = 0
  BY <1>1 DEF CurEntry, CountInv, TypeOK, Entry
<1>3. /\ maxDistance' = maxDistance
      /\ entries' = [entries EXCEPT ![at] = CurEntry]
      /\ cur' = None
      /\ pc' = IF oldCapacity = 0 THEN "stored" ELSE "rehash"
      /\ size' = IF entries[at] = None THEN size + 1 ELSE size
      /\ UNCHANGED <<capacity, modificationCount, oldEntries, oldCapacity,
                     oldIndex, iter, ret>>
  BY <1>1 DEF ProbeStore, StoredSize
<1>4. /\ entries' \in Table(capacity)
      /\ Used(entries)' = Used(entries) \cup {at}
      /\ Cardinality(Used(entries)') =
           IF entries[at] = None THEN Cardinality(Used(entries)) + 1
                                 ELSE Cardinality(Used(entries))
  <2> DEFINE stored == [entries EXCEPT ![at] = CurEntry]
  <2>1. /\ stored \in Table(capacity)
        /\ Used(stored) = Used(entries) \cup {at}
        /\ Cardinality(Used(entries) \cup {at}) =
             IF entries[at] = None THEN Cardinality(Used(entries)) + 1
                                   ELSE Cardinality(Used(entries))
    <3> HIDE DEF at
    <3>1. stored \in Table(capacity)
      BY <1>1, <1>2 DEF Table, Slot
    <3>2. Used(stored) = Used(entries) \cup {at}
      BY <1>1, <1>2, NoneAssumption DEF Used
    <3>3. IsFiniteSet(Used(entries))
      BY <1>1, UsedFinite
    <3>4. at \in Used(entries) <=> entries[at] # None
      BY <1>1 DEF Used
    <3>5. QED
      BY <3>1, <3>2, <3>3, <3>4, FS_AddElement
  <2>2. entries' = stored
    BY <1>3
  <2>3. Used(entries)' = Used(stored)
    BY <2>2 DEF Used
  <2> QED
    BY <2>1, <2>2, <2>3
<1>5. /\ entries'[at] = CurEntry
      /\ \A i \in Used(entries) : i # at => entries'[i] = entries[i]
      /\ \A i \in 0..capacity-1 : entries[i] # None => entries'[i] # None
  BY <1>1, <1>2, <1>3, NoneAssumption DEF Used
<1> QED
  BY <1>4, <1>5

(* The entry is stored where the search for its key will come by.          *)
LEMMA StoreStep ==
  ASSUME CountInv, ProbeStore
  PROVE  CountInv'
<1> DEFINE at == CurIndex
<1>1. /\ pc = "probe"
      /\ capacity \in Nat \ {0}
      /\ at \in 0..capacity-1
      /\ maxDistance \in Nat
      /\ size \in Nat
      /\ entries \in Table(capacity)
      /\ DOMAIN entries = 0..capacity-1
      /\ cur.distance = 0
      /\ cur.roll \in 0..capacity-1
      /\ cur.key \in Key
  BY ProbeHasRoom DEF ProbeStore, CountInv, TypeOK, ZeroDistances, Table
<1>2. CurEntry \in Entry /\ CurEntry.key = cur.key /\ CurEntry.distance = 0
  BY <1>1 DEF CurEntry, CountInv, TypeOK, Entry
<1>3. /\ maxDistance' = maxDistance
      /\ entries' = [entries EXCEPT ![at] = CurEntry]
      /\ cur' = None
      /\ pc' = IF oldCapacity = 0 THEN "stored" ELSE "rehash"
      /\ size' = IF entries[at] = None THEN size + 1 ELSE size
      /\ UNCHANGED <<capacity, modificationCount, oldEntries, oldCapacity,
                     oldIndex, iter, ret>>
  BY <1>1 DEF ProbeStore, StoredSize
<1>4. /\ entries' \in Table(capacity)
      /\ Used(entries)' = Used(entries) \cup {at}
      /\ Cardinality(Used(entries)') =
           IF entries[at] = None THEN Cardinality(Used(entries)) + 1
                                 ELSE Cardinality(Used(entries))
  BY StoreWrites
<1>5. /\ entries'[at] = CurEntry
      /\ \A i \in Used(entries) : i # at => entries'[i] = entries[i]
      /\ \A i \in 0..capacity-1 : entries[i] # None => entries'[i] # None
  BY StoreWrites
<1>6. TypeOK'
  BY <1>1, <1>3, <1>4 DEF CountInv, TypeOK
<1>7. SizeCountsUsed'
  BY <1>3, <1>4 DEF CountInv, SizeCountsUsed
<1>8. ZeroDistances'
  BY <1>2, <1>3, <1>4, <1>5 DEF CountInv, ZeroDistances
<1>12. Probing'
  BY <1>3 DEF Probing
<1>13. Loaded'
  BY <1>1, <1>3 DEF CountInv, TypeOK, Loaded
<1>14. QED
  BY <1>6, <1>7, <1>8, <1>12, <1>13 DEF CountInv

(* Every step of the compiler's calls keeps the count.                      *)
LEMMA NextCounts == CountInv /\ [Next]_vars => CountInv'
<1> SUFFICES ASSUME CountInv, [Next]_vars PROVE CountInv'
  OBVIOUS
<1>1. CASE \E k \in Key, v \in Value : Put(k, v)
  BY <1>1, PutStep
<1>2. CASE \E k \in Key : Get(k) \/ MaybeGet(k)
  BY <1>2, QueryStep
<1>3. CASE Clear
  BY <1>3, ClearStep
<1>4. CASE Iterate \/ IterNext
  BY <1>4, QueryStep
<1>5. CASE ProbeCollision
  BY <1>5, CollisionStep
<1>6. CASE ProbeStore
  BY <1>6, StoreStep
<1>7. CASE Return \/ FinishRehash
  BY <1>7, ReturnStep
<1>8. CASE Grow
  BY <1>8, GrowStep
<1>9. CASE Rehash
  BY <1>9, RehashStep
<1>10. CASE UNCHANGED vars
  <2>1. TypeOK' /\ SizeCountsUsed' /\ ZeroDistances'
    BY <1>10 DEF vars, CountInv, TypeOK, SizeCountsUsed, ZeroDistances, Used
  <2>2. Probing' /\ Loaded'
    BY <1>10 DEF vars, CountInv, Probing, Loaded, Passes, Home, Index
  <2>3. QED
    BY <2>1, <2>2 DEF CountInv
<1>11. QED
  BY <1>1, <1>2, <1>3, <1>4, <1>5, <1>6, <1>7, <1>8, <1>9, <1>10
     DEF Next, Inside

-----------------------------------------------------------------------------
(* Every key stays where the search for it comes by.                       *)

(* A step that leaves the slots alone leaves every key to be found.        *)
LEMMA SameSlots ==
  ASSUME IInv, CountInv', UNCHANGED <<entries, capacity>>,
         maxDistance' >= maxDistance
  PROVE  IInv'
<1>1. maxDistance \in Nat /\ maxDistance' \in Nat /\ capacity \in Nat
  BY DEF IInv, CountInv, TypeOK
<1>2. UniqueKeys'
  BY DEF IInv, UniqueKeys, Used
<1>3. Chained'
  BY <1>1 DEF IInv, Chained, Used, Home, Index
<1> QED
  BY <1>2, <1>3 DEF IInv

(* An empty table has nothing to be found.                                 *)
LEMMA EmptiedSlots ==
  ASSUME CountInv', Used(entries)' = {}
  PROVE  IInv'
BY DEF IInv, UniqueKeys, Chained

(* put stores to the slot that has its key already, if one has.            *)
LEMMA StoreFindsKey ==
  ASSUME IInv, ProbeStore
  PROVE  \A i \in Used(entries) : entries[i].key = cur.key => i = CurIndex
<1> DEFINE at == CurIndex
<1>1. /\ pc = "probe"
      /\ capacity \in Nat \ {0}
      /\ at \in 0..capacity-1
      /\ maxDistance \in Nat
      /\ entries \in Table(capacity)
      /\ DOMAIN entries = 0..capacity-1
      /\ cur.roll \in 0..capacity-1
      /\ cur.key \in Key
  BY ProbeHasRoom DEF ProbeStore, IInv, CountInv, TypeOK, Table
<1>6. ASSUME NEW i \in Used(entries), entries[i].key = cur.key
      PROVE  i = at
  <2>1. PICK r \in 0..capacity-1 :
          /\ Index(Home(cur.key), r) = i
          /\ \A q \in 0..r-1 : entries[Index(Home(cur.key), q)] # None
    BY <1>6 DEF IInv, Chained
  <2>2. cur.start = Home(cur.key) /\ at = Index(Home(cur.key), cur.roll)
    BY <1>1 DEF IInv, CountInv, Probing, CurIndex
  <2>3. ~(r < cur.roll)
    BY <1>1, <1>6, <2>1, <2>2 DEF IInv, CountInv, Probing, Passes
  <2>4. ~(cur.roll < r)
    <3> SUFFICES ASSUME cur.roll < r PROVE FALSE
      OBVIOUS
    <3>1. entries[at] # None
      BY <1>1, <2>1, <2>2
    <3>2. entries[at].key = cur.key
      BY <3>1 DEF ProbeStore, Passes
    <3>3. at \in Used(entries)
      BY <1>1, <3>1 DEF Used
    <3>4. i = at
      BY <1>6, <3>2, <3>3 DEF IInv, UniqueKeys
    <3>5. Home(cur.key) \in 0..capacity-1
      BY <1>1, HomeInRange
    <3>6. r = cur.roll
      BY <1>1, <2>1, <2>2, <3>4, <3>5, IndexInjective DEF Index
    <3>7. QED
      BY <1>1, <3>6
  <2>5. r = cur.roll
    BY <1>1, <2>3, <2>4
  <2>6. QED
    BY <2>1, <2>2, <2>5
<1> QED
  BY <1>6

(* The entry is stored where the search for its key will come by.          *)
LEMMA StoreFinds ==
  ASSUME IInv, ProbeStore
  PROVE  UniqueKeys' /\ Chained'
<1> DEFINE at == CurIndex
<1>1. /\ pc = "probe"
      /\ capacity \in Nat \ {0}
      /\ at \in 0..capacity-1
      /\ maxDistance \in Nat
      /\ entries \in Table(capacity)
      /\ DOMAIN entries = 0..capacity-1
      /\ cur.roll \in 0..capacity-1
      /\ cur.key \in Key
  BY ProbeHasRoom DEF ProbeStore, IInv, CountInv, TypeOK, Table
<1>2. CurEntry.key = cur.key
  BY DEF CurEntry
<1>3. maxDistance' = maxDistance /\ capacity' = capacity
  BY <1>1 DEF ProbeStore, IInv, CountInv, ZeroDistances
<1>4. Used(entries)' = Used(entries) \cup {at}
  BY StoreWrites DEF IInv
<1>5. /\ entries'[at] = CurEntry
      /\ \A i \in Used(entries) : i # at => entries'[i] = entries[i]
      /\ \A i \in 0..capacity-1 : entries[i] # None => entries'[i] # None
  BY StoreWrites DEF IInv
<1>9. ASSUME NEW i \in Used(entries), entries[i].key = cur.key
      PROVE  i = at
  BY <1>9, StoreFindsKey
<1>10. UniqueKeys'
  <2> SUFFICES ASSUME NEW i \in Used(entries)', NEW j \in Used(entries)',
                      entries'[i].key = entries'[j].key
               PROVE  i = j
    BY DEF UniqueKeys
  <2> HIDE DEF at
  <2>1. CASE i = at \/ j = at
    BY <1>2, <1>4, <1>5, <1>9, <2>1
  <2>2. CASE i # at /\ j # at
    <3>1. /\ i \in Used(entries)
          /\ j \in Used(entries)
          /\ entries[i].key = entries[j].key
      BY <1>4, <1>5, <2>2
    <3>2. QED
      BY <3>1 DEF IInv, UniqueKeys
  <2>3. QED
    BY <2>1, <2>2
<1>11. Chained'
  <2> SUFFICES ASSUME NEW i \in Used(entries)'
               PROVE  \E r \in 0..capacity-1 :
                         /\ r <= maxDistance
                         /\ Index(Home(entries'[i].key), r) = i
                         /\ \A q \in 0..r-1 :
                              entries'[Index(Home(entries'[i].key), q)] # None
    BY <1>3 DEF Chained, Home, Index
  <2>1. \A k \in Key, q \in Nat : Index(Home(k), q) \in 0..capacity-1
    <3> SUFFICES ASSUME NEW k \in Key, NEW q \in Nat
                 PROVE  Index(Home(k), q) \in 0..capacity-1
      OBVIOUS
    <3>1. Home(k) \in Nat
      BY <1>1, HomeInRange
    <3>2. QED
      BY <1>1, <3>1, IndexInRange DEF Index
  <2>2. CASE i = at
    <3>1. /\ cur.roll <= maxDistance
          /\ Index(Home(cur.key), cur.roll) = i
          /\ \A q \in 0..cur.roll-1 : entries[Index(Home(cur.key), q)] # None
      BY <1>1, <2>2 DEF IInv, CountInv, Probing, CurIndex, Passes
    <3>2. \A q \in 0..cur.roll-1 : entries'[Index(Home(cur.key), q)] # None
      <4> SUFFICES ASSUME NEW q \in 0..cur.roll-1
                   PROVE  entries'[Index(Home(cur.key), q)] # None
        OBVIOUS
      <4>1. Index(Home(cur.key), q) \in 0..capacity-1
        <5>1. q \in Nat /\ cur.key \in Key
          BY <1>1
        <5>2. QED
          BY <2>1, <5>1
      <4>2. QED
        BY <1>5, <3>1, <4>1
    <3>3. QED
      BY <1>1, <1>2, <1>5, <2>2, <3>1, <3>2
  <2>3. CASE i # at
    <3>1. i \in Used(entries) /\ entries'[i] = entries[i]
      BY <1>4, <1>5, <2>3
    <3>2. entries[i].key \in Key
      BY <1>1, <3>1 DEF Used, Table, Slot, Entry
    <3>3. PICK r \in 0..capacity-1 :
            /\ r <= maxDistance
            /\ Index(Home(entries[i].key), r) = i
            /\ \A q \in 0..r-1 : entries[Index(Home(entries[i].key), q)] # None
      BY <3>1 DEF IInv, Chained
    <3>4. \A q \in 0..r-1 : entries'[Index(Home(entries[i].key), q)] # None
      <4> SUFFICES ASSUME NEW q \in 0..r-1
                   PROVE  entries'[Index(Home(entries[i].key), q)] # None
        OBVIOUS
      <4>1. Index(Home(entries[i].key), q) \in 0..capacity-1
        BY <2>1, <3>2
      <4>2. QED
        BY <1>5, <3>3, <4>1
    <3>5. QED
      BY <3>1, <3>3, <3>4
  <2>4. QED
    BY <2>2, <2>3
<1> QED
  BY <1>10, <1>11

-----------------------------------------------------------------------------
(* The theorems.                                                           *)

(* Every step keeps the invariant.                                         *)
LEMMA NextInvariant == IInv /\ [Next]_vars => IInv'
<1> SUFFICES ASSUME IInv, [Next]_vars PROVE IInv'
  OBVIOUS
<1>1. CountInv'
  BY NextCounts DEF IInv
<1>2. maxDistance \in Nat
  BY DEF IInv, CountInv, TypeOK
<1>3. CASE \/ \E k \in Key, v \in Value : Put(k, v)
           \/ \E k \in Key : Get(k) \/ MaybeGet(k)
           \/ Iterate \/ IterNext
           \/ Return \/ FinishRehash \/ Rehash
           \/ UNCHANGED vars
  <2>1. UNCHANGED <<entries, capacity, maxDistance>>
    BY <1>3 DEF Put, Get, MaybeGet, Iterate, IterNext, Return, FinishRehash,
                Rehash, vars
  <2> QED
    BY <1>1, <1>2, <2>1, SameSlots
<1>4. CASE Clear \/ Grow
  <2>1. \E n \in Nat \ {0} : entries' = EmptyTable(n)
    BY <1>4 DEF Clear, Grow, IInv, CountInv, TypeOK
  <2>2. Used(entries)' = {}
    BY <2>1, EmptyTableFacts DEF Used
  <2> QED
    BY <1>1, <2>2, EmptiedSlots
<1>5. CASE ProbeCollision
  <2>1. UNCHANGED <<entries, capacity>> /\ maxDistance' = maxDistance + 1
    BY <1>5, CollisionMoves DEF IInv
  <2> QED
    BY <1>1, <1>2, <2>1, SameSlots
<1>6. CASE ProbeStore
  BY <1>1, <1>6, StoreFinds DEF IInv
<1> QED
  BY <1>3, <1>4, <1>5, <1>6 DEF Next, Inside

(* The invariant holds throughout every use of the table.                  *)
THEOREM InvariantHolds == Spec => []IInv
<1>1. Init => IInv
  BY InitInvariant
<1>2. IInv /\ [Next]_vars => IInv'
  BY NextInvariant
<1>3. QED
  BY <1>1, <1>2, PTL DEF Spec

(* Every variable keeps its type.                                          *)
THEOREM TypeCorrect == Spec => []TypeOK
<1>1. IInv => TypeOK
  BY DEF IInv, CountInv
<1>2. QED
  BY <1>1, InvariantHolds, PTL

(* _size is the number of used slots at every step of every call.          *)
THEOREM SizeIsCorrect == Spec => []SizeCountsUsed
<1>1. IInv => SizeCountsUsed
  BY DEF IInv, CountInv
<1>2. QED
  BY <1>1, InvariantHolds, PTL

(* put always has a slot to store into: its panic is unreachable.          *)
THEOREM PutHasRoom == Spec => []RoomToProbe
<1>1. IInv => RoomToProbe
  BY ProbeHasRoom DEF IInv, CountInv, Loaded, RoomToProbe
<1>2. QED
  BY <1>1, InvariantHolds, PTL

(* Between two calls the lookup of a stored key returns its entry.         *)
LEMMA LookupStored ==
  ASSUME IInv, NEW i \in Used(entries)
  PROVE  Lookup(entries[i].key) = entries[i]
<1> DEFINE k == entries[i].key
           rolls == {r \in 0..maxDistance : Hit(k, r)}
<1>1. /\ capacity \in Nat \ {0}
      /\ maxDistance \in Nat
      /\ entries \in Table(capacity)
      /\ i \in 0..capacity-1
      /\ k \in Key
  BY DEF IInv, CountInv, TypeOK, Used, Table, Slot, Entry
<1>2. \A j \in Used(entries) : entries[j].key = k => j = i
  BY DEF IInv, UniqueKeys
<1> HIDE DEF k
<1>3. \A r \in Nat : Index(Home(k), r) \in 0..capacity-1
  <2> SUFFICES ASSUME NEW r \in Nat PROVE Index(Home(k), r) \in 0..capacity-1
    OBVIOUS
  <2>1. Home(k) \in Nat
    BY <1>1, HomeInRange
  <2>2. QED
    BY <1>1, <2>1, IndexInRange DEF Index
<1>4. \A r \in rolls : Index(Home(k), r) = i
  <2> SUFFICES ASSUME NEW r \in rolls PROVE Index(Home(k), r) = i
    OBVIOUS
  <2>1. r \in Nat /\ Hit(k, r)
    BY <1>1
  <2>2. Index(Home(k), r) \in Used(entries)
    BY <1>1, <1>3, <2>1 DEF Hit, Holds, Used, Table
  <2>3. QED
    BY <1>2, <2>1, <2>2 DEF Hit, Holds
<1>5. rolls # {}
  <2>1. PICK r \in 0..capacity-1 :
          /\ r <= maxDistance
          /\ Index(Home(k), r) = i
          /\ \A q \in 0..r-1 : entries[Index(Home(k), q)] # None
    BY DEF IInv, Chained, k
  <2>2. Home(k) \in 0..capacity-1
    BY <1>1, HomeInRange
  <2>3. ASSUME NEW q \in 0..r-1
        PROVE  Passes(Index(Home(k), q), k)
    <3>1. q \in 0..capacity-1 /\ q # r /\ q \in Nat
      BY <1>1, <2>1
    <3>2. Index(Home(k), q) # i
      BY <1>1, <2>1, <2>2, <3>1, IndexInjective DEF Index
    <3>3. Index(Home(k), q) \in Used(entries)
      BY <1>1, <1>3, <2>1, <3>1 DEF Used, Table
    <3>4. QED
      BY <1>2, <3>2, <3>3 DEF Passes, Used
  <2>4. Hit(k, r)
    BY <2>1, <2>3 DEF Hit, Holds, Used, k
  <2>5. QED
    BY <1>1, <2>1, <2>4
<1>6. (CHOOSE r \in rolls : TRUE) \in rolls
  BY <1>5
<1>7. Lookup(k) = entries[Index(Home(k), CHOOSE r \in rolls : TRUE)]
  BY <1>5 DEF Lookup
<1>8. QED
  BY <1>4, <1>6, <1>7 DEF k

(* internal_get finds every stored entry.                                  *)
THEOREM LookupCorrect == Spec => []StoredIsFound
<1>1. IInv => StoredIsFound
  BY LookupStored DEF StoredIsFound
<1>2. QED
  BY <1>1, InvariantHolds, PTL

-----------------------------------------------------------------------------
(* The table as a map.                                                     *)

(* During a rehash the keys already moved, the one on its way and those    *)
(* still to be moved are different.                                        *)
KeysApart ==
  /\ \A i, j \in Used(oldEntries) : oldEntries[i].key = oldEntries[j].key => i = j
  /\ \A i \in Used(entries), j \in Rest : entries[i].key # oldEntries[j].key
  /\ pc = "probe" /\ oldCapacity # 0 =>
       /\ \A i \in Used(entries) : entries[i].key # cur.key
       /\ \A j \in Rest : oldEntries[j].key # cur.key

(* A live iterator was made after the last modification, and has counted   *)
(* the used slots behind it.                                               *)
IteratorOK ==
  iter # None =>
    /\ iter.initial <= modificationCount
    /\ Live => /\ pc \in {"idle", "panic"}
               /\ iter.count = Cardinality(Used(entries)) - Cardinality(Ahead)

(* What every call of the interface keeps, remove included.                *)
TableInv == CountInv /\ IteratorOK

MapInv == IInv /\ KeysApart /\ TableInv

(* The value v is bound to k: by the put under way, else by an entry.      *)
Bound(k, v) ==
  \/ pc = "probe" /\ k = cur.key /\ v = cur.value
  \/ /\ pc = "probe" => k # cur.key
     /\ \E i \in Used(entries) : entries[i].key = k /\ entries[i].value = v
  \/ \E j \in Rest : oldEntries[j].key = k /\ oldEntries[j].value = v

IsGraph(f) ==
  /\ f = [k \in DOMAIN f |-> f[k]]
  /\ \A k, v : Bound(k, v) <=> k \in DOMAIN f /\ f[k] = v

(* Outside of a rehash nothing is left to move.                            *)
LEMMA NothingToMove ==
  ASSUME TypeOK, oldCapacity = 0
  PROVE  Rest = {} /\ Used(oldEntries) = {}
<1>1. DOMAIN oldEntries = 0..-1
  BY DEF TypeOK, Table
<1> QED
  BY <1>1 DEF Rest, Used

(* Contents is the function with these bindings.                           *)
LEMMA ContentsAreBound == MapInv => IsGraph(Contents)
<1> SUFFICES ASSUME MapInv PROVE IsGraph(Contents)
  OBVIOUS
<1> DEFINE here == Keys(entries, Used(entries))
           there == Keys(oldEntries, Rest)
           probing == pc = "probe"
           D == here \cup there \cup (IF probing THEN {cur.key} ELSE {})
<1>1. /\ Contents = [k \in D |->
                       IF probing /\ k = cur.key THEN cur.value
                       ELSE IF k \in here THEN ValueIn(entries, Used(entries), k)
                       ELSE ValueIn(oldEntries, Rest, k)]
      /\ DOMAIN Contents = D
  BY DEF Contents
<1>2. ASSUME NEW i \in Used(entries)
      PROVE  /\ entries[i].key \in here
             /\ ValueIn(entries, Used(entries), entries[i].key) = entries[i].value
  <2> DEFINE k == entries[i].key
             j == CHOOSE j \in Used(entries) : entries[j].key = k
  <2>1. j \in Used(entries) /\ entries[j].key = k
    OBVIOUS
  <2>2. j = i
    BY <2>1 DEF MapInv, IInv, CountInv, UniqueKeys
  <2> QED
    BY <2>2 DEF ValueIn, Keys
<1>3. ASSUME NEW i \in Rest
      PROVE  /\ oldEntries[i].key \in there
             /\ oldEntries[i].key \notin here
             /\ probing => oldEntries[i].key # cur.key
             /\ ValueIn(oldEntries, Rest, oldEntries[i].key) = oldEntries[i].value
  <2> DEFINE k == oldEntries[i].key
             j == CHOOSE j \in Rest : oldEntries[j].key = k
  <2>1. j \in Rest /\ oldEntries[j].key = k
    OBVIOUS
  <2>2. j = i
    BY <2>1 DEF MapInv, KeysApart, Rest
  <2>3. oldCapacity # 0
    BY NothingToMove DEF MapInv, IInv, CountInv
  <2>4. k \notin here
    BY DEF MapInv, KeysApart, Keys
  <2>5. probing => k # cur.key
    BY <2>3 DEF MapInv, KeysApart
  <2> QED
    BY <2>2, <2>4, <2>5 DEF ValueIn, Keys
<1>4. /\ \A k \in here : \E i \in Used(entries) : k = entries[i].key
      /\ \A k \in there : \E i \in Rest : k = oldEntries[i].key
  BY DEF Keys
<1> HIDE DEF here, there
<1>5. ASSUME NEW k, NEW v, Bound(k, v)
      PROVE  k \in D /\ Contents[k] = v
  <2>1. CASE probing /\ k = cur.key /\ v = cur.value
    BY <1>1, <2>1
  <2>2. ASSUME probing => k # cur.key,
               NEW i \in Used(entries), entries[i].key = k, entries[i].value = v
        PROVE  k \in D /\ Contents[k] = v
    BY <1>1, <1>2, <2>2
  <2>3. ASSUME NEW i \in Rest, oldEntries[i].key = k, oldEntries[i].value = v
        PROVE  k \in D /\ Contents[k] = v
    BY <1>1, <1>3, <2>3
  <2> QED
    BY <1>5, <2>1, <2>2, <2>3 DEF Bound
<1>6. ASSUME NEW k \in D
      PROVE  Bound(k, Contents[k])
  <2>1. CASE probing /\ k = cur.key
    BY <1>1, <2>1 DEF Bound
  <2>2. CASE (probing => k # cur.key) /\ k \in here
    <3>1. PICK i \in Used(entries) : k = entries[i].key
      BY <1>4, <2>2
    <3>2. Contents[k] = entries[i].value
      BY <1>1, <1>2, <2>2, <3>1
    <3> QED
      BY <2>2, <3>1, <3>2 DEF Bound
  <2>3. CASE (probing => k # cur.key) /\ k \in there
    <3>1. PICK i \in Rest : k = oldEntries[i].key
      BY <1>4, <2>3
    <3>2. Contents[k] = oldEntries[i].value
      BY <1>1, <1>3, <2>3, <3>1
    <3> QED
      BY <3>1, <3>2 DEF Bound
  <2> QED
    BY <2>1, <2>2, <2>3
<1>7. Contents = [k \in DOMAIN Contents |-> Contents[k]]
  BY <1>1
<1> QED
  BY <1>1, <1>5, <1>6, <1>7 DEF IsGraph

(* So it is in the next state.                                             *)
LEMMA NextContentsAreBound == MapInv' => IsGraph(Contents)'
BY ContentsAreBound, PTL

(* A function is known by its graph.                                       *)
LEMMA GraphsEqual ==
  ASSUME NEW f, NEW g,
         f = [k \in DOMAIN f |-> f[k]], g = [k \in DOMAIN g |-> g[k]],
         \A k, v : (k \in DOMAIN f /\ f[k] = v) <=> (k \in DOMAIN g /\ g[k] = v)
  PROVE  f = g
<1>1. DOMAIN f = DOMAIN g
  OBVIOUS
<1>2. \A k \in DOMAIN f : f[k] = g[k]
  OBVIOUS
<1> QED
  BY <1>1, <1>2

(* What binds the same, contains the same.                                 *)
LEMMA SameContents ==
  ASSUME MapInv, MapInv', \A k, v : Bound(k, v)' <=> Bound(k, v)
  PROVE  Contents' = Contents
<1>1. IsGraph(Contents)
  BY ContentsAreBound
<1>2. IsGraph(Contents)'
  BY NextContentsAreBound
<1> DEFINE f == Contents'
           g == Contents
<1>3. /\ f = [k \in DOMAIN f |-> f[k]]
      /\ \A k, v : Bound(k, v)' <=> k \in DOMAIN f /\ f[k] = v
  BY <1>2 DEF IsGraph
<1>4. /\ g = [k \in DOMAIN g |-> g[k]]
      /\ \A k, v : Bound(k, v) <=> k \in DOMAIN g /\ g[k] = v
  BY <1>1 DEF IsGraph
<1>5. \A k, v : (k \in DOMAIN f /\ f[k] = v) <=> (k \in DOMAIN g /\ g[k] = v)
  BY <1>3, <1>4
<1> HIDE DEF f, g
<1>6. f = g
  BY <1>3, <1>4, <1>5, GraphsEqual
<1> QED
  BY <1>6 DEF f, g

-----------------------------------------------------------------------------
(* Each action keeps the keys apart and the iterator's count.              *)

(* A query does not touch the table.                                       *)
LEMMA QueryKeepsApart ==
  ASSUME MapInv, UNCHANGED <<entries, oldEntries, oldCapacity, oldIndex>>,
         pc' # "probe"
  PROVE  KeysApart'
BY DEF MapInv, KeysApart, Used, Rest

(* The iterator's promise does not depend on a step outside of it.         *)
LEMMA IteratorStays ==
  ASSUME TableInv, UNCHANGED <<entries, modificationCount, iter>>,
         pc = "idle" => pc' \in {"idle", "panic"}, pc # "panic"
  PROVE  IteratorOK' /\ Live' = Live
<1>1. Live' = Live /\ Used(entries)' = Used(entries) /\ Ahead' = Ahead
  BY DEF Live, Used, Ahead
<1> QED
  BY <1>1 DEF TableInv, IteratorOK

(* A modification makes every iterator stale.                              *)
LEMMA IteratorEnds ==
  ASSUME TableInv, iter' = iter, modificationCount' = modificationCount + 1
  PROVE  IteratorOK' /\ ~Live'
<1>1. modificationCount \in Nat /\ (iter # None => iter.initial \in Nat)
  BY BoundAssumption DEF TableInv, CountInv, TypeOK
<1>2. ~Live' /\ (iter # None => iter.initial <= modificationCount')
  BY <1>1 DEF TableInv, IteratorOK, Live
<1> QED
  BY <1>2 DEF IteratorOK

(* Iterate and next: the iterator counts what it returned.                 *)
LEMMA UsedIsFinite ==
  ASSUME TypeOK
  PROVE  /\ IsFiniteSet(Used(entries)) /\ Used(entries) \subseteq Nat
         /\ Cardinality(Used(entries)) \in Nat
         /\ Ahead \subseteq Used(entries)
         /\ IsFiniteSet(Ahead) /\ Cardinality(Ahead) \in Nat
         /\ Cardinality(Ahead) <= Cardinality(Used(entries))
         /\ Cardinality(Ahead) = 0 <=> Ahead = {}
<1>1. IsFiniteSet(Used(entries))
  BY UsedFinite DEF TypeOK
<1>2. Used(entries) \subseteq Nat
  BY DEF Used, TypeOK, Table
<1>3. Ahead \subseteq Used(entries)
  BY DEF Ahead
<1>4. IsFiniteSet(Ahead) /\ Cardinality(Ahead) <= Cardinality(Used(entries))
  BY <1>1, <1>3, FS_Subset
<1>5. Cardinality(Ahead) = 0 <=> Ahead = {}
  BY <1>4, FS_EmptySet
<1>6. Cardinality(Used(entries)) \in Nat /\ Cardinality(Ahead) \in Nat
  BY <1>1, <1>4, FS_CardinalityType
<1> QED
  BY <1>1, <1>2, <1>3, <1>4, <1>5, <1>6

(* A new iterator has everything ahead.                                    *)
LEMMA IterateStarts ==
  ASSUME TableInv, Iterate
  PROVE  IteratorOK' /\ Live' /\ Ahead' = Used(entries)
<1>1. /\ iter' = [count |-> 0, index |-> 0, initial |-> modificationCount]
      /\ UNCHANGED <<entries, modificationCount, pc>> /\ pc = "idle"
      /\ modificationCount \in Nat
  BY BoundAssumption DEF Iterate, TableInv, CountInv, TypeOK
<1>2. iter' # None
  BY <1>1, NoneAssumption DEF Iterator
<1>3. Live'
  BY <1>1, <1>2 DEF Live
<1>4. Used(entries)' = Used(entries)
  BY <1>1 DEF Used
<1>5. Ahead' = Used(entries)
  <2>1. iter'.index = 0
    BY <1>1
  <2> QED
    BY <1>4, <2>1, UsedIsFinite DEF Ahead, TableInv, CountInv
<1>6. iter'.count = Cardinality(Used(entries)') - Cardinality(Ahead')
  BY <1>1, <1>4, <1>5, UsedIsFinite DEF TableInv, CountInv
<1> QED
  BY <1>1, <1>3, <1>5, <1>6 DEF IteratorOK

(* A live iterator has more to return exactly while something is ahead.    *)
LEMMA CountIsAhead ==
  ASSUME TableInv, Live
  PROVE  iter.count < size <=> Ahead # {}
<1>1. iter.count = Cardinality(Used(entries)) - Cardinality(Ahead)
  BY DEF TableInv, IteratorOK, Live
<1> QED
  BY <1>1, UsedIsFinite DEF TableInv, CountInv, SizeCountsUsed

(* next returns the first slot ahead, and passes it.                       *)
LEMMA NextAdvances ==
  ASSUME TableInv, IterNext, Live, iter.count < size
  PROVE  /\ \E i \in Ahead : ret' = Pair(entries[i]) /\ Ahead' = Ahead \ {i}
         /\ Live' /\ pc' = pc /\ IteratorOK'
<1>1. Ahead # {}
  BY CountIsAhead
<1>2. /\ UNCHANGED <<entries, modificationCount, pc>> /\ pc = "idle"
      /\ iter \in Iterator /\ iter.initial = modificationCount
      /\ modificationCount \in Nat /\ size \in Nat
      /\ iter.count = Cardinality(Used(entries)) - Cardinality(Ahead)
  BY <1>1, BoundAssumption DEF IterNext, TableInv, CountInv, TypeOK, IteratorOK, Live, Iterator
<1>3. PICK i \in Ahead :
        /\ \A j \in Ahead : i <= j
        /\ iter' = [count |-> iter.count + 1, index |-> i + 1, initial |-> iter.initial]
        /\ ret' = Pair(entries[i])
  BY <1>1, <1>2 DEF IterNext, Iterator
<1>4. i \in Nat /\ Ahead \subseteq Nat /\ Used(entries) \subseteq Nat
  BY UsedIsFinite DEF TableInv, CountInv
<1>5. Used(entries)' = Used(entries)
  BY <1>2 DEF Used
<1>6. Ahead' = Ahead \ {i}
  <2>1. Ahead' = {j \in Used(entries) : j >= i + 1}
    BY <1>3, <1>5 DEF Ahead
  <2>2. \A j \in Used(entries) : j >= i + 1 <=> j \in Ahead /\ j # i
    <3> SUFFICES ASSUME NEW j \in Used(entries) PROVE j >= i + 1 <=> j \in Ahead /\ j # i
      OBVIOUS
    <3>1. i >= iter.index /\ iter.index \in Nat /\ j \in Nat
      BY <1>2, <1>3, <1>4 DEF Ahead, Iterator
    <3> QED
      BY <1>3, <1>4, <3>1 DEF Ahead
  <2> QED
    BY <2>1, <2>2 DEF Ahead
<1>7. iter' # None /\ iter'.initial = modificationCount
  BY <1>2, <1>3, <1>4, NoneAssumption DEF Iterator
<1>8. Cardinality(Ahead') = Cardinality(Ahead) - 1
  BY <1>3, <1>6, UsedIsFinite, FS_RemoveElement DEF TableInv, CountInv
<1>9. iter'.count = Cardinality(Used(entries)') - Cardinality(Ahead')
  <2>1. Cardinality(Ahead) \in Nat /\ Cardinality(Used(entries)) \in Nat
    BY UsedIsFinite DEF TableInv, CountInv
  <2>2. iter'.count = iter.count + 1
    BY <1>3
  <2> QED
    BY <2>1, <2>2, <1>2, <1>5, <1>8
<1>10. Live'
  BY <1>2, <1>7 DEF Live
<1>11. IteratorOK'
  BY <1>2, <1>7, <1>9 DEF IteratorOK
<1> QED
  BY <1>2, <1>3, <1>6, <1>10, <1>11

(* next keeps the promise, or stops the program.                           *)
LEMMA NextKeepsIterator == ASSUME TableInv, IterNext PROVE IteratorOK'
<1>1. /\ UNCHANGED <<entries, modificationCount>> /\ pc = "idle"
      /\ pc' \in {"idle", "panic"}
  BY DEF IterNext
<1>2. CASE ~Live \/ iter.count >= size
  <2>1. iter' = iter
    BY <1>2 DEF IterNext
  <2> QED
    BY <1>1, <2>1, IteratorStays
<1>3. CASE Live /\ iter.count < size
  BY <1>3, NextAdvances
<1>4. Live => iter.count \in Int /\ size \in Int
  BY DEF TableInv, CountInv, TypeOK, Live
<1> QED
  BY <1>2, <1>3, <1>4

(* remove leaves one slot less in use: no entry is away from its distance  *)
(* 0, so that the loop that moves the following ones back stops at once.   *)
LEMMA RemoveCounts ==
  ASSUME CountInv, NEW k \in Key, Remove(k)
  PROVE  CountInv'
<1> DEFINE rolls == {r \in 0..maxDistance : Hit(k, r)}
           first == CHOOSE r \in rolls : TRUE
           At(r) == Index(Home(k), r)
           stops == {r \in first..capacity-1 : StopsShift(At(r + 1))}
           last  == CHOOSE r \in stops : \A q \in stops : r <= q
           moved == [i \in {At(r) : r \in first..last-1} |->
                       LET e == entries[(i + 1) % capacity]
                       IN  [e EXCEPT !.distance = @ - 1]]
           removed == [i \in DOMAIN entries |->
                         IF i = At(last) THEN None
                         ELSE IF i \in DOMAIN moved THEN moved[i]
                         ELSE entries[i]]
<1>1. /\ pc = "idle" /\ capacity \in Nat \ {0} /\ maxDistance \in Nat
      /\ size \in Nat /\ entries \in Table(capacity)
      /\ DOMAIN entries = 0..capacity-1 /\ oldCapacity = 0 /\ cur = None
      /\ size = Cardinality(Used(entries))
      /\ UNCHANGED <<capacity, maxDistance, cur, oldEntries, oldCapacity,
                     oldIndex, iter, ret>>
      /\ modificationCount' \in 0..MaxModifications
  BY BoundAssumption DEF Remove, CountInv, TypeOK, SizeCountsUsed, Table
<1>2. IF rolls = {} \/ stops = {}
      THEN pc' = "panic" /\ UNCHANGED <<entries, size>>
      ELSE entries' = removed /\ size' = size - 1 /\ pc' = pc
  BY DEF Remove, SizeAfterRemove
<1>3. CASE rolls = {} \/ stops = {}
  <2>1. TypeOK' /\ SizeCountsUsed' /\ ZeroDistances'
    BY <1>1, <1>2, <1>3
       DEF CountInv, TypeOK, SizeCountsUsed, ZeroDistances, Used
  <2>2. Probing' /\ Loaded'
    BY <1>1, <1>2, <1>3 DEF Probing, Loaded
  <2> QED
    BY <2>1, <2>2 DEF CountInv
<1>4. CASE rolls # {} /\ stops # {}
  <2>1. first \in Nat /\ Hit(k, first) /\ first \in 0..maxDistance
    BY <1>1, <1>4
  <2>2. \A r \in Nat : At(r) \in 0..capacity-1
    <3> SUFFICES ASSUME NEW r \in Nat PROVE At(r) \in 0..capacity-1
      OBVIOUS
    <3>1. Home(k) \in Nat
      BY <1>1, HomeInRange
    <3> QED
      BY <1>1, <3>1, IndexInRange DEF Index
  <2>3. At(first) \in Used(entries)
    BY <1>1, <2>1, <2>2 DEF Hit, Holds, Used
  <2>4. first \in stops /\ \A q \in stops : first <= q
    <3>1. PICK r \in first..capacity-1 : TRUE
      BY <1>4
    <3>2. first \in first..capacity-1
      BY <1>1, <2>1, <3>1
    <3>3. At(first + 1) \in 0..capacity-1
      BY <2>1, <2>2
    <3>4. StopsShift(At(first + 1))
      BY <1>1, <3>3 DEF StopsShift, CountInv, ZeroDistances, Used
    <3> QED
      BY <3>2, <3>4
  <2>5. last = first
    <3>1. stops \subseteq Int
      BY <2>1
    <3> HIDE DEF stops, first
    <3>2. \E r \in stops : \A q \in stops : r <= q
      BY <2>4
    <3>3. last \in stops /\ \A q \in stops : last <= q
      BY <3>2
    <3> HIDE DEF last
    <3> QED
      BY <2>4, <3>1, <3>3
  <2>6. entries' = [entries EXCEPT ![At(first)] = None]
    <3>1. first..first-1 = {}
      BY <2>1
    <3>2. DOMAIN moved = {}
      BY <2>5, <3>1
    <3>3. removed = [i \in DOMAIN entries |->
                       IF i = At(first) THEN None ELSE entries[i]]
      BY <2>5, <3>2
    <3> QED
      BY <1>2, <1>4, <3>3
  <2> DEFINE at == At(first)
  <2> HIDE DEF first, stops, rolls, moved, removed, At
  <2>7. entries' \in Table(capacity)
    BY <1>1, <2>6 DEF Table, Slot
  <2>8. Used(entries)' = Used(entries) \ {at}
    BY <1>1, <2>3, <2>6 DEF Used
  <2>9. \A i \in Used(entries)' : entries'[i] = entries[i]
    BY <1>1, <2>3, <2>6, <2>8 DEF Used
  <2>10. size' = Cardinality(Used(entries)') /\ size' \in Nat /\ size' <= size
    <3>1. IsFiniteSet(Used(entries))
      BY <1>1, UsedFinite
    <3>2. Cardinality(Used(entries)') = Cardinality(Used(entries)) - 1
      BY <2>3, <2>8, <3>1, FS_RemoveElement
    <3>3. Cardinality(Used(entries)') \in Nat
      BY <2>8, <3>1, FS_RemoveElement, FS_CardinalityType
    <3> QED
      BY <1>1, <1>2, <1>4, <3>2, <3>3
  <2>11. TypeOK'
    BY <1>1, <1>2, <1>4, <2>7, <2>10 DEF CountInv, TypeOK
  <2>12. SizeCountsUsed' /\ ZeroDistances'
    BY <1>1, <1>2, <1>4, <2>8, <2>9, <2>10
       DEF CountInv, SizeCountsUsed, ZeroDistances
  <2>13. Probing' /\ Loaded'
    BY <1>1, <1>2, <1>4, <2>10 DEF CountInv, Probing, Loaded
  <2> QED
    BY <2>11, <2>12, <2>13 DEF CountInv
<1> QED
  BY <1>3, <1>4

(* Every call of the interface keeps the count, the room and the iterator. *)
LEMMA FullStep == ASSUME TableInv, [FullNext]_vars PROVE TableInv'
<1>1. CASE \E k \in Key : Remove(k)
  <2>1. iter' = iter /\ modificationCount' = modificationCount + 1
    BY <1>1 DEF Remove
  <2> QED
    BY <1>1, <2>1, RemoveCounts, IteratorEnds DEF TableInv
<1>2. CASE [Next]_vars
  <2>1. CountInv'
    BY <1>2, NextCounts DEF TableInv
  <2>2. CASE \/ \E k \in Key, v \in Value : Put(k, v)
             \/ Clear
    <3>1. iter' = iter /\ modificationCount' = modificationCount + 1
      BY <2>2 DEF Put, Clear
    <3> QED
      BY <2>1, <3>1, IteratorEnds DEF TableInv
  <2>3. CASE \/ \E k \in Key : Get(k) \/ MaybeGet(k)
             \/ ProbeCollision
             \/ Rehash
    <3>1. /\ UNCHANGED <<entries, modificationCount, iter>>
          /\ pc = "idle" => pc' \in {"idle", "panic"}
          /\ pc # "panic"
      BY <2>3, CollisionMoves DEF Get, MaybeGet, Rehash, TableInv
    <3> QED
      BY <2>1, <3>1, IteratorStays DEF TableInv
  <2>4. CASE Iterate
    BY <2>1, <2>4, IterateStarts DEF TableInv
  <2>5. CASE IterNext
    BY <2>1, <2>5, NextKeepsIterator DEF TableInv
  <2>6. CASE ProbeStore \/ Return \/ Grow \/ FinishRehash
    <3>1. /\ pc \in {"probe", "stored", "rehash"}
          /\ UNCHANGED <<modificationCount, iter>>
      BY <2>6 DEF ProbeStore, Return, Grow, FinishRehash
    <3>2. ~Live /\ ~Live'
      BY <3>1 DEF TableInv, IteratorOK, Live
    <3>3. IteratorOK'
      BY <3>1, <3>2 DEF TableInv, IteratorOK
    <3> QED
      BY <2>1, <3>3 DEF TableInv
  <2>7. CASE UNCHANGED vars
    BY <2>1, <2>7 DEF vars, TableInv, IteratorOK, Used, Ahead, Live
  <2> QED
    BY <1>2, <2>2, <2>3, <2>4, <2>5, <2>6, <2>7 DEF Next, Inside
<1> QED
  BY <1>1, <1>2 DEF FullNext

(* A new table leaves all keys to be moved.                                *)
LEMMA GrowKeepsApart == ASSUME MapInv, Grow PROVE KeysApart'
<1>1. /\ entries' = EmptyTable(capacity * 2) /\ capacity * 2 \in Nat \ {0}
      /\ oldEntries' = entries /\ pc' = "rehash"
  BY DEF Grow, MapInv, IInv, CountInv, TypeOK
<1>2. Used(entries)' = {} /\ Used(oldEntries)' = Used(entries)
  BY <1>1, EmptyTableFacts DEF Used
<1> QED
  BY <1>1, <1>2 DEF KeysApart, MapInv, IInv, CountInv, UniqueKeys

(* The key that a step of the rehash takes is nowhere else.                *)
LEMMA RehashKeepsApart == ASSUME MapInv, Rehash PROVE KeysApart'
<1>1. /\ oldIndex' = oldIndex + 1 /\ oldIndex \in 0..oldCapacity-1 /\ oldCapacity \in Nat
      /\ UNCHANGED <<entries, oldEntries, oldCapacity>>
      /\ DOMAIN oldEntries = 0..oldCapacity-1
  BY DEF Rehash, MoreToMove, NextOldIndex, MapInv, IInv, CountInv, TypeOK, Table
<1>2. Used(entries)' = Used(entries) /\ Used(oldEntries)' = Used(oldEntries)
  BY <1>1 DEF Used
<1>3. Rest' \subseteq Rest /\ oldIndex \notin Rest'
  BY <1>1, <1>2 DEF Rest, Used
<1>4. ASSUME pc' = "probe"
      PROVE  oldIndex \in Rest /\ cur'.key = oldEntries[oldIndex].key
  <2>1. oldEntries[oldIndex] # None /\ cur' = Call(oldEntries[oldIndex].key, oldEntries[oldIndex].value)
    BY <1>4 DEF Rehash
  <2> QED
    BY <2>1, <1>1 DEF Rest, Used, Call
<1>5. Rest \subseteq Used(oldEntries)
  BY DEF Rest
<1> QED
  BY <1>1, <1>2, <1>3, <1>4, <1>5 DEF KeysApart, MapInv

(* The key on its way arrives.                                             *)
LEMMA StoreKeepsApart == ASSUME MapInv, ProbeStore PROVE KeysApart'
<1>1. /\ pc = "probe" /\ pc' # "probe"
      /\ UNCHANGED <<oldEntries, oldCapacity, oldIndex>>
      /\ Used(entries)' = Used(entries) \cup {CurIndex}
      /\ entries'[CurIndex] = CurEntry
      /\ \A i \in Used(entries) : i # CurIndex => entries'[i] = entries[i]
  BY StoreWrites, StoreFindsKey DEF ProbeStore, MapInv, IInv
<1>2. Used(oldEntries)' = Used(oldEntries) /\ Rest' = Rest
  BY <1>1 DEF Used, Rest
<1>3. CurEntry.key = cur.key
  BY DEF CurEntry
<1>4. ASSUME NEW j \in Rest PROVE cur.key # oldEntries[j].key
  <2>1. oldCapacity # 0
    BY NothingToMove DEF MapInv, IInv, CountInv
  <2> QED
    BY <2>1, <1>1 DEF KeysApart, MapInv
<1>5. ASSUME NEW i \in Used(entries)', NEW j \in Rest
      PROVE  entries'[i].key # oldEntries[j].key
  <2>1. CASE i = CurIndex
    BY <2>1, <1>1, <1>3, <1>4
  <2>2. CASE i # CurIndex
    BY <2>2, <1>1 DEF KeysApart, MapInv
  <2> QED
    BY <2>1, <2>2
<1> QED
  BY <1>1, <1>2, <1>5 DEF KeysApart, MapInv

(* Every step keeps both.                                                  *)
LEMMA MapStep == ASSUME MapInv, [Next]_vars PROVE MapInv'
<1>1. IInv' /\ TableInv'
  BY NextInvariant, FullStep DEF MapInv, FullNext
<1>2. CASE \E k \in Key, v \in Value : Put(k, v)
  <2>1. UNCHANGED <<entries, oldEntries, oldCapacity, oldIndex>> /\ oldCapacity = 0
    BY <1>2 DEF Put, MapInv, IInv, CountInv, TypeOK
  <2>2. Rest' = {} /\ Used(oldEntries)' = {}
    BY <2>1, NothingToMove DEF MapInv, IInv, CountInv, Rest, Used
  <2> QED
    BY <1>1, <2>1, <2>2 DEF MapInv, KeysApart
<1>3. CASE \/ \E k \in Key : Get(k) \/ MaybeGet(k)
           \/ Iterate \/ IterNext
  <2>1. /\ UNCHANGED <<entries, oldEntries, oldCapacity, oldIndex>>
        /\ pc' \in {"idle", "panic"}
    BY <1>3 DEF Get, MaybeGet, Iterate, IterNext
  <2> QED
    BY <1>1, <2>1, QueryKeepsApart DEF MapInv
<1>4. CASE Clear
  <2>1. /\ entries' = EmptyTable(capacity) /\ capacity \in Nat \ {0} /\ pc' = "idle"
        /\ UNCHANGED <<oldEntries, oldCapacity, oldIndex>>
    BY <1>4 DEF Clear, MapInv, IInv, CountInv, TypeOK
  <2>2. Used(entries)' = {} /\ Used(oldEntries)' = Used(oldEntries)
    BY <2>1, EmptyTableFacts DEF Used
  <2> QED
    BY <1>1, <2>1, <2>2 DEF MapInv, KeysApart
<1>5. CASE ProbeCollision
  <2>1. /\ UNCHANGED <<entries, oldEntries, oldCapacity, oldIndex>>
        /\ pc = "probe" /\ pc' = "probe" /\ cur' = [cur EXCEPT !.roll = @ + 1]
    BY <1>5, CollisionMoves DEF MapInv, IInv
  <2>2. cur'.key = cur.key
    BY <2>1 DEF MapInv, IInv, CountInv, TypeOK
  <2>3. KeysApart'
    BY <2>1, <2>2 DEF KeysApart, MapInv, Used, Rest
  <2> QED
    BY <1>1, <2>3 DEF MapInv
<1>6. CASE ProbeStore
  BY <1>1, <1>6, StoreKeepsApart DEF MapInv
<1>7. CASE Return \/ FinishRehash
  <2>1. pc' = "idle" /\ oldCapacity' = 0
    BY <1>7 DEF Return, FinishRehash, MapInv, IInv, CountInv, TypeOK
  <2>2. Used(oldEntries)' = {} /\ Rest' = {}
    <3>1. DOMAIN oldEntries' = {}
      BY <1>1, <2>1 DEF IInv, CountInv, TypeOK, Table
    <3> QED
      BY <3>1 DEF Used, Rest
  <2> QED
    BY <1>1, <2>1, <2>2 DEF MapInv, KeysApart
<1>8. CASE Grow
  BY <1>1, <1>8, GrowKeepsApart DEF MapInv
<1>9. CASE Rehash
  BY <1>1, <1>9, RehashKeepsApart DEF MapInv
<1>10. CASE UNCHANGED vars
  BY <1>1, <1>10 DEF vars, MapInv, KeysApart, Used, Rest
<1> QED
  BY <1>2, <1>3, <1>4, <1>5, <1>6, <1>7, <1>8, <1>9, <1>10 DEF Next, Inside

(* The empty table satisfies them.                                         *)
LEMMA MapInit == Init => MapInv
<1> SUFFICES ASSUME Init PROVE MapInv
  OBVIOUS
<1>1. IInv
  BY InitInvariant
<1>2. Used(entries) = {} /\ Used(oldEntries) = {}
  BY CapacityAssumption, EmptyTableFacts DEF Init, Used, NoTable
<1> QED
  BY <1>1, <1>2 DEF Init, IInv, MapInv, TableInv, KeysApart, IteratorOK, Rest

(* The iterator that is live at a call has returned what lies behind its   *)
(* index, and next stops exactly when nothing is ahead (hash_map.hpp:94).  *)
THEOREM IteratorHolds == Spec => []IteratorComplete
<1>1. MapInv => IteratorComplete
  BY CountIsAhead DEF MapInv, TableInv, IteratorOK, IteratorComplete, Live
<1>2. Init => MapInv
  BY MapInit
<1>3. MapInv /\ [Next]_vars => MapInv'
  BY MapStep
<1> QED
  BY <1>1, <1>2, <1>3, PTL DEF Spec

(* With remove in the interface the table forgets keys, but still counts   *)
(* its slots, has room for every put, and its iterators are complete.      *)
THEOREM RemoveKeepsCount ==
  FullSpec => [](TypeOK /\ SizeCountsUsed /\ RoomToProbe /\ IteratorComplete)
<1>1. TableInv => TypeOK /\ SizeCountsUsed
  BY DEF TableInv, CountInv
<1>2. TableInv => RoomToProbe
  BY ProbeHasRoom DEF TableInv, CountInv, Loaded, RoomToProbe
<1>3. TableInv => IteratorComplete
  BY CountIsAhead DEF TableInv, IteratorOK, IteratorComplete, Live
<1>4. Init => TableInv
  BY MapInit DEF MapInv
<1>5. TableInv /\ [FullNext]_vars => TableInv'
  BY FullStep
<1> QED
  BY <1>1, <1>2, <1>3, <1>4, <1>5, PTL DEF FullSpec

-----------------------------------------------------------------------------
(* The refinement of the map of MapSpec, step by step.                     *)

Todo == IF Live THEN Keys(entries, Ahead) ELSE {}
Iteration == IF iter = None THEN "none" ELSE IF Live THEN "live" ELSE "stale"

(* Between two calls the map is what the used slots hold.                  *)
LEMMA IdleContents ==
  ASSUME MapInv, pc = "idle"
  PROVE  /\ DOMAIN Contents = Keys(entries, Used(entries))
         /\ \A i \in Used(entries) : Contents[entries[i].key] = entries[i].value
<1>1. IsGraph(Contents)
  BY ContentsAreBound
<1>2. Rest = {}
  BY NothingToMove DEF MapInv, IInv, CountInv, TypeOK
<1>3. \A k, v : Bound(k, v) <=> \E i \in Used(entries) : entries[i].key = k /\ entries[i].value = v
  BY <1>2 DEF Bound
<1>4. \A k : k \in DOMAIN Contents => Bound(k, Contents[k])
  BY <1>1 DEF IsGraph
<1>5. \A i \in Used(entries) :
        entries[i].key \in DOMAIN Contents /\ Contents[entries[i].key] = entries[i].value
  <2>1. \A i \in Used(entries) : Bound(entries[i].key, entries[i].value)
    BY <1>3
  <2>2. \A k, v : Bound(k, v) => k \in DOMAIN Contents /\ Contents[k] = v
    BY <1>1 DEF IsGraph
  <2> QED
    BY <2>1, <2>2
<1> QED
  BY <1>3, <1>4, <1>5 DEF Keys

(* internal_get returns the binding of the map.                            *)
LEMMA LookupIsBinding ==
  ASSUME MapInv, pc = "idle", NEW k \in Key
  PROVE  IF k \in DOMAIN Contents
         THEN Lookup(k) # None /\ Pair(Lookup(k)) = [key |-> k, value |-> Contents[k]]
         ELSE Lookup(k) = None
<1>1. CASE k \in DOMAIN Contents
  <2>1. PICK i \in Used(entries) : k = entries[i].key
    BY <1>1, IdleContents DEF Keys
  <2>2. Lookup(k) = entries[i] /\ entries[i] # None
    BY <2>1, LookupStored DEF MapInv, Used
  <2>3. Contents[k] = entries[i].value
    BY <2>1, IdleContents
  <2> QED
    BY <1>1, <2>1, <2>2, <2>3 DEF Pair
<1>2. CASE k \notin DOMAIN Contents
  <2> DEFINE rolls == {r \in 0..maxDistance : Hit(k, r)}
  <2>1. ASSUME NEW r \in rolls PROVE FALSE
    <3>1. /\ Hit(k, r) /\ r \in Nat
          /\ capacity \in Nat \ {0} /\ entries \in Table(capacity)
      BY DEF MapInv, IInv, CountInv, TypeOK
    <3>2. Home(k) \in Nat
      BY <3>1, HomeInRange
    <3>3. Index(Home(k), r) \in 0..capacity-1
      BY <3>1, <3>2, IndexInRange DEF Index
    <3>4. Index(Home(k), r) \in Used(entries) /\ entries[Index(Home(k), r)].key = k
      BY <3>1, <3>3 DEF Hit, Holds, Used, Table
    <3> QED
      BY <1>2, <3>4, IdleContents DEF Keys
  <2>2. rolls = {}
    BY <2>1
  <2> QED
    BY <1>2, <2>2 DEF Lookup
<1> QED
  BY <1>1, <1>2

(* A step that leaves the bindings, the iterator and the answer alone is   *)
(* none of the map.                                                        *)
LEMMA Stutters ==
  ASSUME Contents' = Contents, ret' = ret, Todo' = Todo, Iteration' = Iteration,
         (pc = "panic")' = (pc = "panic")
  PROVE  UNCHANGED Map!vars
BY DEF Map!vars, Todo, Iteration

(* Queries read the map.                                                   *)
LEMMA QueryRefines ==
  ASSUME MapInv, MapInv', NEW k \in Key, Get(k) \/ MaybeGet(k)
  PROVE  Map!Next
<1>1. /\ UNCHANGED <<entries, oldEntries, oldCapacity, oldIndex, iter, modificationCount, cur>>
      /\ pc = "idle" /\ pc' # "probe"
  BY DEF Get, MaybeGet
<1>2. /\ Used(entries)' = Used(entries) /\ Rest' = Rest
      /\ Live' = Live /\ Ahead' = Ahead
  BY <1>1 DEF Used, Rest, Live, Ahead
<1>3. Contents' = Contents
  <2>1. \A x, v : Bound(x, v)' <=> Bound(x, v)
    BY <1>1, <1>2 DEF Bound
  <2> QED
    BY <2>1, SameContents
<1>4. Todo' = Todo /\ Iteration' = Iteration
  BY <1>1, <1>2 DEF Todo, Iteration, Keys
<1>5. CASE MaybeGet(k)
  <2>1. ret' = (IF k \in DOMAIN Contents THEN [key |-> k, value |-> Contents[k]] ELSE None)
        /\ pc' = pc
    BY <1>1, <1>5, LookupIsBinding DEF MaybeGet
  <2>2. Map!MaybeGet(k)
    BY <2>1, <1>3, <1>4 DEF Map!MaybeGet, Map!Pair, Todo, Iteration
  <2> QED
    BY <2>2, <1>1 DEF Map!Next
<1>6. CASE Get(k)
  <2>1. CASE k \in DOMAIN Contents
    <3>1. ret' = [key |-> k, value |-> Contents[k]] /\ pc' = pc
      BY <1>1, <1>6, <2>1, LookupIsBinding DEF Get
    <3>2. Map!MaybeGet(k)
      BY <3>1, <2>1, <1>3, <1>4 DEF Map!MaybeGet, Map!Pair, Todo, Iteration
    <3> QED
      BY <3>2, <2>1, <1>1 DEF Map!Next, Map!Get
  <2>2. CASE k \notin DOMAIN Contents
    <3>1. ret' = ret /\ pc' = "panic"
      BY <1>1, <1>6, <2>2, LookupIsBinding DEF Get
    <3>2. Map!Panic
      BY <3>1, <1>3, <1>4 DEF Map!Panic, Todo, Iteration
    <3> QED
      BY <3>2, <2>2, <1>1 DEF Map!Next, Map!Get
  <2> QED
    BY <2>1, <2>2
<1> QED
  BY <1>5, <1>6

(* A modification invalidates the iterators.                               *)
LEMMA Invalidates ==
  ASSUME iter' = iter, ~Live'
  PROVE  Map!Invalidate
BY DEF Map!Invalidate, Live

(* A put takes effect when it is called.                                   *)
LEMMA PutRefines ==
  ASSUME MapInv, MapInv', NEW k \in Key, NEW v \in Value, Put(k, v)
  PROVE  Map!Next
<1>1. /\ UNCHANGED <<entries, oldEntries, oldCapacity, oldIndex, iter, ret>>
      /\ pc = "idle" /\ pc' = "probe" /\ modificationCount' = modificationCount + 1
      /\ cur' = Call(k, v) /\ oldCapacity = 0
  BY DEF Put, MapInv, IInv, CountInv, TypeOK
<1>2. Used(entries)' = Used(entries) /\ Rest' = {} /\ Rest = {}
  BY <1>1, NothingToMove DEF Used, Rest, MapInv, IInv, CountInv
<1>3. cur'.key = k /\ cur'.value = v
  BY <1>1 DEF Call
<1> DEFINE f == [x \in DOMAIN Contents \cup {k} |-> IF x = k THEN v ELSE Contents[x]]
           g == Contents'
<1>4. \A x, w : Bound(x, w)' <=> (x \in DOMAIN f /\ f[x] = w)
  <2>1. \A x, w : Bound(x, w) <=> x \in DOMAIN Contents /\ Contents[x] = w
    BY ContentsAreBound DEF IsGraph
  <2>2. \A x, w : Bound(x, w)' <=> (x = k /\ w = v) \/ (x # k /\ Bound(x, w))
    BY <1>1, <1>2, <1>3 DEF Bound
  <2> QED
    BY <2>1, <2>2
<1>5. /\ g = [x \in DOMAIN g |-> g[x]]
      /\ \A x, w : Bound(x, w)' <=> x \in DOMAIN g /\ g[x] = w
  BY NextContentsAreBound DEF IsGraph
<1>6. f = [x \in DOMAIN f |-> f[x]]
  OBVIOUS
<1>7. \A x, w : (x \in DOMAIN g /\ g[x] = w) <=> (x \in DOMAIN f /\ f[x] = w)
  BY <1>4, <1>5
<1>8. g = f
  <2> HIDE DEF f, g
  <2> QED
    BY <1>5, <1>6, <1>7, GraphsEqual
<1>9. Map!Invalidate
  BY <1>1, IteratorEnds, Invalidates DEF MapInv
<1>10. Map!Put(k, v)
  BY <1>1, <1>8, <1>9 DEF Map!Put
<1> QED
  BY <1>1, <1>10 DEF Map!Next

(* clear empties the map.                                                  *)
LEMMA ClearRefines == ASSUME MapInv, MapInv', Clear PROVE Map!Next
<1>1. /\ UNCHANGED <<oldEntries, oldCapacity, oldIndex, iter, ret, pc>>
      /\ pc = "idle" /\ modificationCount' = modificationCount + 1
      /\ entries' = EmptyTable(capacity) /\ capacity \in Nat \ {0} /\ oldCapacity = 0
  BY DEF Clear, MapInv, IInv, CountInv, TypeOK
<1>2. Used(entries)' = {} /\ Rest' = {}
  BY <1>1, NothingToMove, EmptyTableFacts DEF Used, Rest, MapInv, IInv, CountInv
<1>3. \A x, w : ~Bound(x, w)'
  BY <1>1, <1>2 DEF Bound
<1> DEFINE g == Contents'
<1>4. /\ g = [x \in DOMAIN g |-> g[x]]
      /\ \A x, w : Bound(x, w)' <=> x \in DOMAIN g /\ g[x] = w
  BY NextContentsAreBound DEF IsGraph
<1>5. DOMAIN g = {}
  <2> HIDE DEF g
  <2> QED
    BY <1>3, <1>4
<1>6. g = [x \in {} |-> None]
  <2> HIDE DEF g
  <2> QED
    BY <1>4, <1>5
<1>7. Map!Invalidate
  BY <1>1, IteratorEnds, Invalidates DEF MapInv
<1>8. Map!Clear
  BY <1>1, <1>6, <1>7 DEF Map!Clear
<1> QED
  BY <1>1, <1>8 DEF Map!Next

(* A new iterator has all keys to return.                                  *)
LEMMA IterateRefines == ASSUME MapInv, MapInv', Iterate PROVE Map!Next
<1>1. /\ UNCHANGED <<entries, oldEntries, oldCapacity, oldIndex, ret, pc, cur>>
      /\ pc = "idle"
  BY DEF Iterate
<1>2. Used(entries)' = Used(entries) /\ Rest' = Rest
  BY <1>1 DEF Used, Rest
<1>3. Contents' = Contents
  <2>1. \A x, v : Bound(x, v)' <=> Bound(x, v)
    BY <1>1, <1>2 DEF Bound
  <2> QED
    BY <2>1, SameContents
<1>4. Live' /\ Ahead' = Used(entries)
  BY IterateStarts DEF MapInv
<1>5. Todo' = DOMAIN Contents
  BY <1>1, <1>4, IdleContents DEF Todo, Keys
<1>6. Iteration' = "live"
  BY <1>4 DEF Iteration, Live
<1>7. Map!Iterate
  BY <1>1, <1>3, <1>5, <1>6 DEF Map!Iterate, Todo, Iteration
<1> QED
  BY <1>1, <1>7 DEF Map!Next

(* next returns one of the keys to return, or none is left, or it panics   *)
(* because the iterator is stale.                                          *)
LEMMA NextRefines == ASSUME MapInv, MapInv', IterNext PROVE Map!Next
<1>1. /\ UNCHANGED <<entries, oldEntries, oldCapacity, oldIndex, modificationCount, cur>>
      /\ pc = "idle" /\ pc' # "probe" /\ iter # None
  BY DEF IterNext
<1>2. Used(entries)' = Used(entries) /\ Rest' = Rest
  BY <1>1 DEF Used, Rest
<1>3. Contents' = Contents
  <2>1. \A x, v : Bound(x, v)' <=> Bound(x, v)
    BY <1>1, <1>2 DEF Bound
  <2> QED
    BY <2>1, SameContents
<1>4. CASE ~Live
  <2>1. iter' = iter /\ ret' = ret /\ pc' = "panic"
    BY <1>4 DEF IterNext
  <2>2. Todo' = Todo /\ Iteration' = Iteration /\ Iteration = "stale"
    BY <1>1, <1>4, <2>1 DEF Todo, Iteration, Live
  <2>3. Map!VisitStale
    BY <2>1, <2>2, <1>3 DEF Map!VisitStale, Map!Panic, Todo, Iteration
  <2> QED
    BY <1>1, <2>3 DEF Map!Next
<1>5. CASE Live /\ ~(iter.count < size)
  <2>1. Ahead = {}
    BY <1>5, CountIsAhead DEF MapInv
  <2>2. iter.count >= size
    BY <1>5 DEF MapInv, IInv, CountInv, TypeOK, Live
  <2>3. iter' = iter /\ ret' = None /\ pc' = pc
    BY <1>5, <2>2 DEF IterNext
  <2>4. Live' = Live /\ Ahead' = Ahead
    BY <1>1, <1>2, <2>3 DEF Live, Ahead
  <2>5. Todo' = Todo /\ Todo = {} /\ Iteration' = Iteration /\ Iteration = "live"
    BY <1>1, <1>5, <2>1, <2>3, <2>4 DEF Todo, Iteration, Keys
  <2>6. Map!VisitDone
    BY <2>3, <2>5, <1>3 DEF Map!VisitDone, Todo, Iteration
  <2> QED
    BY <1>1, <2>6 DEF Map!Next
<1>6. CASE Live /\ iter.count < size
  <2>1. Live' /\ pc' = pc
    BY <1>6, NextAdvances DEF MapInv
  <2>2. PICK i \in Ahead : ret' = Pair(entries[i]) /\ Ahead' = Ahead \ {i}
    BY <1>6, NextAdvances DEF MapInv
  <2> DEFINE k == entries[i].key
  <2>3. Ahead \subseteq Used(entries)
    BY DEF Ahead
  <2>4. ret' = [key |-> k, value |-> Contents[k]]
    BY <1>1, <2>2, <2>3, IdleContents DEF Pair
  <2>5. \A j \in Ahead : entries[j].key = k => j = i
    BY <2>3 DEF MapInv, IInv, CountInv, UniqueKeys
  <2>6. Todo = Keys(entries, Ahead) /\ Todo' = Keys(entries, Ahead \ {i})
    BY <1>1, <1>6, <2>1, <2>2 DEF Todo, Keys
  <2>7. k \in Todo /\ Todo' = Todo \ {k}
    BY <2>5, <2>6 DEF Keys
  <2>8. Iteration = "live" /\ Iteration' = "live"
    BY <1>6, <2>1 DEF Iteration, Live
  <2>9. Map!Visit
    <3> HIDE DEF k
    <3> QED
      BY <2>1, <2>4, <2>7, <2>8, <1>3 DEF Map!Visit, Map!Pair, Todo, Iteration
  <2> QED
    BY <1>1, <2>9 DEF Map!Next
<1> QED
  BY <1>4, <1>5, <1>6

(* What happens inside of a put after the call is invisible.               *)
LEMMA InsideStutters ==
  ASSUME MapInv, MapInv', Inside
  PROVE  UNCHANGED Map!vars
<1>1. /\ UNCHANGED <<iter, modificationCount, ret>>
      /\ pc \in {"probe", "stored", "rehash"}
  BY DEF Inside, ProbeCollision, ProbeStore, Return, Grow, Rehash, FinishRehash
<1>2. ~Live /\ ~Live'
  BY <1>1 DEF MapInv, TableInv, IteratorOK, Live
<1>3. Todo' = Todo /\ Iteration' = Iteration
  BY <1>1, <1>2 DEF Todo, Iteration
<1>4. pc' # "panic"
  <2>1. CASE ProbeCollision
    BY <2>1, CollisionMoves DEF MapInv, IInv
  <2> QED
    BY <1>1, <2>1 DEF Inside, ProbeStore, Return, Grow, Rehash, FinishRehash
<1>5. \A k, v : Bound(k, v)' <=> Bound(k, v)
  <2>1. CASE ProbeCollision
    <3>1. /\ UNCHANGED <<entries, oldEntries, oldIndex, pc>>
          /\ pc = "probe" /\ cur' = [cur EXCEPT !.roll = @ + 1]
      BY <2>1, CollisionMoves DEF MapInv, IInv
    <3>2. cur'.key = cur.key /\ cur'.value = cur.value
      BY <3>1 DEF MapInv, IInv, CountInv, TypeOK
    <3> QED
      BY <3>1, <3>2 DEF Bound, Used, Rest
  <2>2. CASE ProbeStore
    <3>1. /\ pc = "probe" /\ pc' # "probe" /\ UNCHANGED <<oldEntries, oldIndex>>
          /\ Used(entries)' = Used(entries) \cup {CurIndex}
          /\ entries'[CurIndex] = CurEntry
          /\ \A i \in Used(entries) : i # CurIndex => entries'[i] = entries[i]
          /\ \A i \in Used(entries) : entries[i].key = cur.key => i = CurIndex
      BY <2>2, StoreWrites, StoreFindsKey DEF ProbeStore, MapInv, IInv
    <3>2. CurIndex \in Used(entries) => entries[CurIndex].key = cur.key
      BY <2>2 DEF ProbeStore, Passes, Used
    <3>3. Rest' = Rest
      BY <3>1 DEF Rest, Used
    <3>4. CurEntry.key = cur.key /\ CurEntry.value = cur.value
      BY DEF CurEntry
    <3>5. ASSUME NEW k, NEW v
          PROVE  (\E i \in Used(entries)' : entries'[i].key = k /\ entries'[i].value = v)
                 <=> \/ k = cur.key /\ v = cur.value
                     \/ /\ k # cur.key
                        /\ \E i \in Used(entries) : entries[i].key = k /\ entries[i].value = v
      <4> DEFINE at == CurIndex
                 e == CurEntry
                 S == Used(entries)
                 T == Used(entries)'
                 old == entries
                 new == entries'
                 c == cur
      <4>1. /\ T = S \cup {at} /\ new[at] = e
            /\ \A i \in S : i # at => new[i] = old[i]
            /\ \A i \in S : old[i].key = c.key <=> i = at
            /\ e.key = c.key /\ e.value = c.value
        BY <3>1, <3>2, <3>4
      <4> HIDE DEF at, e, S, T, old, new, c
      <4>2. (\E i \in T : new[i].key = k /\ new[i].value = v)
            <=> \/ k = c.key /\ v = c.value
                \/ k # c.key /\ \E i \in S : old[i].key = k /\ old[i].value = v
        BY <4>1
      <4> QED
        BY <4>2 DEF at, e, S, T, old, new, c
    <3> QED
      BY <3>1, <3>3, <3>5 DEF Bound
  <2>3. CASE Return
    BY <2>3 DEF Return, Bound, Used, Rest
  <2>4. CASE FinishRehash
    <3>1. /\ Rest = {}
          /\ UNCHANGED entries /\ pc = "rehash" /\ pc' = "idle"
      <4>1. oldIndex = oldCapacity /\ DOMAIN oldEntries = 0..oldCapacity-1
            /\ oldCapacity \in Nat
        BY <2>4 DEF FinishRehash, MoreToMove, MapInv, IInv, CountInv, TypeOK, Table
      <4> QED
        BY <4>1, <2>4 DEF FinishRehash, Rest, Used
    <3>2. Rest' = {}
      BY <2>4, NothingToMove DEF FinishRehash, Rest, Used, NoTable
    <3> QED
      BY <3>1, <3>2 DEF Bound, Used
  <2>5. CASE Grow
    <3>1. /\ entries' = EmptyTable(capacity * 2) /\ capacity * 2 \in Nat \ {0}
          /\ oldEntries' = entries /\ oldIndex' = 0
          /\ pc = "stored" /\ pc' = "rehash" /\ oldCapacity = 0
      BY <2>5 DEF Grow, MapInv, IInv, CountInv, TypeOK
    <3>2. Used(entries)' = {} /\ Rest = {}
      BY <3>1, EmptyTableFacts, NothingToMove DEF Used, MapInv, IInv, CountInv
    <3>3. Rest' = Used(entries)
      BY <3>1, UsedIsFinite DEF Rest, Used, MapInv, IInv, CountInv
    <3> QED
      BY <3>1, <3>2, <3>3 DEF Bound
  <2>6. CASE Rehash
    <3>1. /\ oldIndex' = oldIndex + 1 /\ oldIndex \in 0..oldCapacity-1 /\ oldCapacity \in Nat
          /\ UNCHANGED <<entries, oldEntries>> /\ pc = "rehash"
          /\ DOMAIN oldEntries = 0..oldCapacity-1
      BY <2>6 DEF Rehash, MoreToMove, NextOldIndex, MapInv, IInv, CountInv, TypeOK, Table
    <3>2. Used(entries)' = Used(entries) /\ Used(oldEntries)' = Used(oldEntries)
      BY <3>1 DEF Used
    <3>3. Rest' = Rest \ {oldIndex}
      BY <3>1, <3>2 DEF Rest, Used
    <3>4. CASE oldEntries[oldIndex] = None
      <4>1. pc' = pc /\ oldIndex \notin Rest
        BY <2>6, <3>4 DEF Rehash, Rest, Used
      <4> QED
        BY <3>1, <3>2, <3>3, <4>1 DEF Bound
    <3>5. CASE oldEntries[oldIndex] # None
      <4> DEFINE e == oldEntries[oldIndex]
      <4>1. pc' = "probe" /\ cur' = Call(e.key, e.value)
        BY <2>6, <3>5 DEF Rehash
      <4>2. cur'.key = e.key /\ cur'.value = e.value
        BY <4>1 DEF Call
      <4>3. oldIndex \in Rest
        BY <3>1, <3>5 DEF Rest, Used
      <4>4. \A i \in Used(entries) : entries[i].key # e.key
        BY <4>3 DEF MapInv, KeysApart
      <4> QED
        BY <3>1, <3>2, <3>3, <4>1, <4>2, <4>3, <4>4 DEF Bound
    <3> QED
      BY <3>4, <3>5
  <2> QED
    BY <2>1, <2>2, <2>3, <2>4, <2>5, <2>6 DEF Inside
<1>6. Contents' = Contents
  BY <1>5, SameContents
<1>7. (pc = "panic")' = (pc = "panic")
  BY <1>1, <1>4
<1> QED
  BY <1>1, <1>3, <1>6, <1>7, Stutters

(* Every step of the table is one of the map, or none.                     *)
LEMMA StepRefines ==
  ASSUME MapInv, MapInv', [Next]_vars
  PROVE  [Map!Next]_Map!vars
<1>1. CASE \E k \in Key, v \in Value : Put(k, v)
  BY <1>1, PutRefines
<1>2. CASE \E k \in Key : Get(k) \/ MaybeGet(k)
  BY <1>2, QueryRefines
<1>3. CASE Clear
  BY <1>3, ClearRefines
<1>4. CASE Iterate \/ IterNext
  BY <1>4, IterateRefines, NextRefines
<1>5. CASE Inside
  BY <1>5, InsideStutters
<1>6. CASE UNCHANGED vars
  <2>1. /\ Used(entries)' = Used(entries) /\ Rest' = Rest
        /\ Live' = Live /\ Ahead' = Ahead
    BY <1>6 DEF vars, Used, Rest, Live, Ahead
  <2>2. \A k, v : Bound(k, v)' <=> Bound(k, v)
    BY <1>6, <2>1 DEF vars, Bound
  <2>3. Contents' = Contents
    BY <2>2, SameContents
  <2>4. /\ Todo' = Todo /\ Iteration' = Iteration /\ ret' = ret
        /\ (pc = "panic")' = (pc = "panic")
    BY <1>6, <2>1 DEF vars, Todo, Iteration, Keys
  <2> QED
    BY <2>3, <2>4, Stutters
<1> QED
  BY <1>1, <1>2, <1>3, <1>4, <1>5, <1>6 DEF Next

(* The table implements the finite map its clients rely on: a put takes    *)
(* effect at the call, rehashing is invisible, and the only panics are a   *)
(* get of an absent key and a stale iterator.                              *)
THEOREM TableIsMap == Spec => ImplementsMap
<1>1. Init => MapInv
  BY MapInit
<1>2. MapInv /\ [Next]_vars => MapInv'
  BY MapStep
<1>3. Init => Map!Init
  <2> SUFFICES ASSUME Init PROVE Map!Init
    OBVIOUS
  <2>1. Used(entries) = {} /\ pc = "idle" /\ iter = None /\ ret = None
    BY CapacityAssumption, EmptyTableFacts DEF Init, Used
  <2>2. Contents = [k \in DOMAIN Contents |-> Contents[k]]
    BY MapInit, ContentsAreBound DEF IsGraph
  <2>3. DOMAIN Contents = {}
    BY <2>1, MapInit, IdleContents DEF Keys
  <2>4. Contents = [k \in {} |-> None]
    BY <2>2, <2>3
  <2> QED
    BY <2>1, <2>4 DEF Map!Init, Live
<1>4. MapInv /\ MapInv' /\ [Next]_vars => [Map!Next]_Map!vars
  BY StepRefines
<1> QED
  BY <1>1, <1>2, <1>3, <1>4, PTL DEF Spec, ImplementsMap, Map!Spec
=============================================================================
