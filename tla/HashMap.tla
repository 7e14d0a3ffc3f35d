------------------------------- MODULE HashMap -------------------------------
(***************************************************************************)
(* The open-addressing table of src/include/hash_map.hpp, behind every     *)
(* table of the compiler.  The public calls are actions of an arbitrary    *)
(* client; the loops of internal_put and of the rehash are one action per  *)
(* iteration, the read-only loops (internal_get, Iterator::next, remove)   *)
(* are one action each.                                                    *)
(***************************************************************************)
EXTENDS Integers, FiniteSets

CONSTANTS
  Key, Value,
  Hash,              \* the HashFunction parameter of the template
  InitialCapacity,   \* the argument of init
  MaxModifications,  \* bound on put/clear/remove calls (below the uint32 wrap)
  None               \* an unused slot, a NULL Entry*, no iterator

Entry == [distance : Int, key : Key, value : Value]
Iterator == [count : Nat, index : Nat, initial : Nat]

ASSUME HashAssumption == Hash \in [Key -> Nat]
ASSUME CapacityAssumption == InitialCapacity \in Nat \ {0}
ASSUME BoundAssumption == MaxModifications \in Nat
ASSUME NoneAssumption == None \notin Entry \cup Iterator

VARIABLES
  entries,            \* _entries: [0 .. capacity - 1 -> Entry or None]
  capacity,           \* _capacity
  size,               \* _size
  maxDistance,        \* _max_distance_from_start_index
  modificationCount,  \* _modification_count
  pc,                 \* where the thread is: "idle" between two calls
  cur,                \* the locals of internal_put while it probes
  oldEntries,         \* old_entries of a put that grows the table
  oldCapacity,        \* old_capacity, 0 outside the rehash
  oldIndex,           \* its loop index
  iter,               \* the client's Iterator
  ret                 \* the entry the last query returned

vars == <<entries, capacity, size, maxDistance, modificationCount, pc, cur,
          oldEntries, oldCapacity, oldIndex, iter, ret>>

NoTable == [i \in {} |-> None]
EmptyTable(n) == [i \in 0..n-1 |-> None]
Used(table) == {i \in DOMAIN table : table[i] # None}

Home(k) == Hash[k] % capacity
Index(start, roll) == (start + roll) % capacity

Init == /\ entries = EmptyTable(InitialCapacity)
        /\ capacity = InitialCapacity
        /\ size = 0
        /\ maxDistance = 0
        /\ modificationCount = 0
        /\ pc = "idle"
        /\ cur = None
        /\ oldEntries = NoTable
        /\ oldCapacity = 0
        /\ oldIndex = 0
        /\ iter = None
        /\ ret = None

-----------------------------------------------------------------------------
(* internal_get: the first hit of the probe sequence of k.                 *)

Holds(i, k) == entries[i] # None /\ entries[i].key = k
Passes(i, k) == entries[i] # None /\ entries[i].key # k

Hit(k, roll) == /\ Holds(Index(Home(k), roll), k)
                /\ \A q \in 0..roll-1 : Passes(Index(Home(k), q), k)

Lookup(k) == LET rolls == {r \in 0..maxDistance : Hit(k, r)}
             IN  IF rolls = {} THEN None
                 ELSE entries[Index(Home(k), CHOOSE r \in rolls : TRUE)]

Pair(e) == [key |-> e.key, value |-> e.value]

MaybeGet(k) ==
  /\ pc = "idle"
  /\ ret' = IF Lookup(k) = None THEN None ELSE Pair(Lookup(k))
  /\ UNCHANGED <<entries, capacity, size, maxDistance, modificationCount, pc,
                 cur, oldEntries, oldCapacity, oldIndex, iter>>

Get(k) ==
  /\ pc = "idle"
  /\ IF Lookup(k) = None
     THEN pc' = "panic" /\ ret' = ret
     ELSE pc' = pc /\ ret' = Pair(Lookup(k))
  /\ UNCHANGED <<entries, capacity, size, maxDistance, modificationCount,
                 cur, oldEntries, oldCapacity, oldIndex, iter>>

-----------------------------------------------------------------------------
(* put and internal_put.                                                   *)

Call(k, v) == [key |-> k, value |-> v, distance |-> 0,
               start |-> Home(k), roll |-> 0]

Put(k, v) ==
  /\ pc = "idle"
  /\ modificationCount < MaxModifications
  /\ modificationCount' = modificationCount + 1
  /\ cur' = Call(k, v)
  /\ pc' = "probe"
  /\ UNCHANGED <<entries, capacity, size, maxDistance, oldEntries,
                 oldCapacity, oldIndex, iter, ret>>

CountOnlyDistance == maxDistance   \* mutant: line 141 counts nothing
CountCollision == maxDistance + 1
CurIndex == Index(cur.start, cur.roll)
CurEntry == [distance |-> cur.distance, key |-> cur.key, value |-> cur.value]

(* One iteration that meets another key: the robin-hood swap, then the     *)
(* loop's increment, which counts in _max_distance_from_start_index        *)
(* (line 141) and never in the local distance_from_start_index.            *)
ProbeCollision ==
  /\ pc = "probe"
  /\ Passes(CurIndex, cur.key)
  /\ LET there == entries[CurIndex] IN
     IF there.distance < cur.distance
     THEN /\ entries' = [entries EXCEPT ![CurIndex] = CurEntry]
          /\ maxDistance' = cur.distance + 1
          /\ cur' = [cur EXCEPT !.key = there.key, !.value = there.value,
                                !.distance = there.distance, !.roll = @ + 1]
     ELSE /\ maxDistance' = CountCollision
          /\ cur' = [cur EXCEPT !.roll = @ + 1]
          /\ UNCHANGED entries
  /\ pc' = IF cur.roll + 1 < capacity THEN "probe" ELSE "panic"
  /\ UNCHANGED <<capacity, size, modificationCount, oldEntries, oldCapacity,
                 oldIndex, iter, ret>>

StoredSize(slot) == IF slot = None THEN size + 1 ELSE size

ProbeStore ==
  /\ pc = "probe"
  /\ ~Passes(CurIndex, cur.key)
  /\ size' = StoredSize(entries[CurIndex])
  /\ maxDistance' = IF cur.distance > maxDistance THEN cur.distance
                                                  ELSE maxDistance
  /\ entries' = [entries EXCEPT ![CurIndex] = CurEntry]
  /\ cur' = None
  /\ pc' = IF oldCapacity = 0 THEN "stored" ELSE "rehash"
  /\ UNCHANGED <<capacity, modificationCount, oldEntries, oldCapacity,
                 oldIndex, iter, ret>>

GrowWhenOverfull == size > capacity   \* mutant: grows too late
NeedsGrowth == size * 5 >= capacity * 4

Return ==
  /\ pc = "stored"
  /\ ~NeedsGrowth
  /\ pc' = "idle"
  /\ UNCHANGED <<entries, capacity, size, maxDistance, modificationCount, cur,
                 oldEntries, oldCapacity, oldIndex, iter, ret>>

Grow ==
  /\ pc = "stored"
  /\ NeedsGrowth
  /\ oldEntries' = entries
  /\ oldCapacity' = capacity
  /\ oldIndex' = 0
  /\ capacity' = capacity * 2
  /\ entries' = EmptyTable(capacity * 2)
  /\ size' = 0
  /\ maxDistance' = 0
  /\ pc' = "rehash"
  /\ UNCHANGED <<modificationCount, cur, iter, ret>>

StopBeforeLast == oldIndex < oldCapacity - 1   \* mutant: off by one
MoreToMove == oldIndex < oldCapacity
StayAtSlot == oldIndex   \* mutant: no increment
NextOldIndex == oldIndex + 1

Rehash ==
  /\ pc = "rehash"
  /\ MoreToMove
  /\ oldIndex' = NextOldIndex
  /\ LET e == oldEntries[oldIndex] IN
     IF e = None THEN UNCHANGED <<cur, pc>>
                 ELSE cur' = Call(e.key, e.value) /\ pc' = "probe"
  /\ UNCHANGED <<entries, capacity, size, maxDistance, modificationCount,
                 oldEntries, oldCapacity, iter, ret>>

FinishRehash ==
  /\ pc = "rehash"
  /\ ~MoreToMove
  /\ oldEntries' = NoTable
  /\ oldCapacity' = 0
  /\ oldIndex' = 0
  /\ pc' = "idle"
  /\ UNCHANGED <<entries, capacity, size, maxDistance, modificationCount, cur,
                 iter, ret>>

Clear ==
  /\ pc = "idle"
  /\ modificationCount < MaxModifications
  /\ modificationCount' = modificationCount + 1
  /\ entries' = EmptyTable(capacity)
  /\ size' = 0
  /\ maxDistance' = 0
  /\ UNCHANGED <<capacity, pc, cur, oldEntries, oldCapacity,
                 oldIndex, iter, ret>>

-----------------------------------------------------------------------------
(* Iterator.                                                               *)

Iterate ==
  /\ pc = "idle"
  /\ iter' = [count |-> 0, index |-> 0, initial |-> modificationCount]
  /\ UNCHANGED <<entries, capacity, size, maxDistance, modificationCount, pc,
                 cur, oldEntries, oldCapacity, oldIndex, ret>>

LiveForever == iter # None   \* mutant: no modification count
Live == iter # None /\ iter.initial = modificationCount
Ahead == {i \in Used(entries) : i >= iter.index}

IterNext ==
  /\ pc = "idle"
  /\ iter # None
  /\ IF ~Live THEN pc' = "panic" /\ UNCHANGED <<iter, ret>>
     ELSE IF iter.count >= size THEN ret' = None /\ UNCHANGED <<iter, pc>>
     ELSE IF Ahead = {} THEN pc' = "panic" /\ UNCHANGED <<iter, ret>>
     ELSE \E i \in Ahead :
            /\ \A j \in Ahead : i <= j
            /\ iter' = [count |-> iter.count + 1, index |-> i + 1,
                        initial |-> iter.initial]
            /\ ret' = Pair(entries[i])
            /\ UNCHANGED pc
  /\ UNCHANGED <<entries, capacity, size, maxDistance, modificationCount, cur,
                 oldEntries, oldCapacity, oldIndex>>

-----------------------------------------------------------------------------
(* remove, which nothing in the compiler calls.  The hit is found as       *)
(* internal_get finds it; the loop then moves each following entry one     *)
(* slot back until the next slot is unused or at distance 0.               *)

SizeKept == size   \* mutant: remove forgets the size
SizeAfterRemove == size - 1
StopsShift(i) == entries[i] = None \/ entries[i].distance = 0

Remove(k) ==
  /\ pc = "idle"
  /\ modificationCount < MaxModifications
  /\ modificationCount' = modificationCount + 1
  /\ LET rolls == {r \in 0..maxDistance : Hit(k, r)}
         first == CHOOSE r \in rolls : TRUE
         Slot(r) == Index(Home(k), r)
         stops == {r \in first..capacity-1 : StopsShift(Slot(r + 1))}
         last  == CHOOSE r \in stops : \A q \in stops : r <= q
         moved == [i \in {Slot(r) : r \in first..last-1} |->
                     LET e == entries[(i + 1) % capacity]
                     IN  [e EXCEPT !.distance = @ - 1]]
     IN  IF rolls = {} \/ stops = {}
         THEN pc' = "panic" /\ UNCHANGED <<entries, size>>
         ELSE /\ entries' = [i \in DOMAIN entries |->
                               IF i = Slot(last) THEN None
                               ELSE IF i \in DOMAIN moved THEN moved[i]
                               ELSE entries[i]]
              /\ size' = SizeAfterRemove
              /\ UNCHANGED pc
  /\ UNCHANGED <<capacity, maxDistance, cur, oldEntries, oldCapacity, oldIndex,
                 iter, ret>>

-----------------------------------------------------------------------------
(* The thread inside a call, the calls the compiler makes (and clear), and *)
(* the whole public interface.                                             *)

Inside == \/ ProbeCollision
          \/ ProbeStore
          \/ Return
          \/ Grow
          \/ Rehash
          \/ FinishRehash

Next == \/ \E k \in Key, v \in Value : Put(k, v)
        \/ \E k \in Key : Get(k) \/ MaybeGet(k)
        \/ Clear
        \/ Iterate
        \/ IterNext
        \/ Inside

FullNext == Next \/ \E k \in Key : Remove(k)

Spec == Init /\ [][Next]_vars /\ WF_vars(Inside)
FullSpec == Init /\ [][FullNext]_vars

-----------------------------------------------------------------------------
(* Properties.                                                             *)

Slot == Entry \cup {None}
Table(n) == [0..n-1 -> Slot]

(* Every variable keeps its type; the locals of internal_put exist exactly *)
(* while it runs and the old table exactly while put rehashes.             *)
TypeOK ==
  /\ capacity \in Nat \ {0}
  /\ entries \in Table(capacity)
  /\ size \in Nat
  /\ maxDistance \in Nat
  /\ modificationCount \in 0..MaxModifications
  /\ pc \in {"idle", "probe", "stored", "rehash", "panic"}
  /\ IF pc = "probe"
     THEN cur \in [key : Key, value : Value, distance : Int,
                   start : 0..capacity-1, roll : 0..capacity-1]
     ELSE cur = None
  /\ oldCapacity \in Nat
  /\ oldEntries \in Table(oldCapacity)
  /\ oldCapacity # 0 => capacity = 2 * oldCapacity
  /\ pc \in {"idle", "stored"} => oldCapacity = 0
  /\ pc = "rehash" => oldCapacity # 0
  /\ oldIndex \in 0..oldCapacity
  /\ iter \in {None} \cup [count : Nat, index : Nat,
                           initial : 0..MaxModifications]
  /\ ret \in {None} \cup [key : Key, value : Value]

(* internal_get finds every entry the table holds: no probe sequence is    *)
(* cut by an unused slot, by the bound _max_distance_from_start_index or   *)
(* by a second entry with the same key (hash_map.hpp:178-192), whatever    *)
(* collisions, overwrites and rehashes came before.                        *)
StoredIsFound ==
  pc = "idle" => \A i \in Used(entries) : Lookup(entries[i].key) = entries[i]

(* _size counts the used slots at every step, also half-way through a      *)
(* rehash (hash_map.hpp:162, 131, 76).                                     *)
SizeCountsUsed == size = Cardinality(Used(entries))

(* Between two calls at least a fifth of the table is free, so internal_put*)
(* never runs out of slots ("put into hashmap", hash_map.hpp:176) and      *)
(* internal_get ends although _max_distance_from_start_index outgrows the  *)
(* capacity.                                                               *)
RoomToProbe ==
  /\ pc = "idle" => size * 5 < capacity * 4
  /\ pc = "probe" => \E r \in cur.roll..capacity-1 :
                        ~Passes(Index(cur.start, r), cur.key)

(* A live iterator has returned exactly the used slots behind its index,   *)
(* so its early exit on _count (hash_map.hpp:94) skips nothing and its     *)
(* scan never runs off the table ("no next item", hash_map.hpp:105).       *)
IteratorComplete ==
  (pc = "idle" /\ Live) =>
     /\ iter.count = Cardinality(Used(entries)) - Cardinality(Ahead)
     /\ iter.count < size <=> Ahead # {}

(* The bindings the table stands for: those stored, those of the old table *)
(* that are still to be moved, and the one being put.                      *)
Rest == {i \in Used(oldEntries) : i >= oldIndex}
Keys(table, slots) == {table[i].key : i \in slots}
ValueIn(table, slots, k) == table[CHOOSE i \in slots : table[i].key = k].value
Contents ==
  LET here  == Keys(entries, Used(entries))
      there == Keys(oldEntries, Rest)
      probing == pc = "probe"
  IN [k \in here \cup there \cup (IF probing THEN {cur.key} ELSE {}) |->
        IF probing /\ k = cur.key THEN cur.value
        ELSE IF k \in here THEN ValueIn(entries, Used(entries), k)
        ELSE ValueIn(oldEntries, Rest, k)]

Map == INSTANCE MapSpec WITH
  map <- Contents,
  todo <- IF Live THEN Keys(entries, Ahead) ELSE {},
  iteration <- IF iter = None THEN "none" ELSE IF Live THEN "live" ELSE "stale",
  panicked <- pc = "panic"

(* The table implements the finite map its clients rely on: a put takes    *)
(* effect at the call, rehashing is invisible, and the only panics are a   *)
(* get of an absent key and a stale iterator.                              *)
ImplementsMap == Map!Spec

(* Every put returns: the probing and rehashing loops end.                 *)
PutReturns == (pc \in {"probe", "stored", "rehash"}) ~> (pc = "idle")
=============================================================================
