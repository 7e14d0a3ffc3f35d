------------------------------- MODULE MapSpec -------------------------------
(***************************************************************************)
(* What the clients of HashMap (the import, function, string, type and     *)
(* link tables of the compiler) take for granted: a finite map with        *)
(* put, get, maybe_get, clear and an iterator that enumerates the keys,    *)
(* each exactly once, and that must not outlive a modification.            *)
(* The program stops, by jane_panic, only when it asks get for an absent   *)
(* key or advances a stale iterator.                                       *)
(***************************************************************************)
CONSTANTS Key, Value, None

VARIABLES
  map,        \* the bindings: a function from a subset of Key to Value
  ret,        \* the entry the last query returned, or None
  todo,       \* the keys the current iterator has yet to return
  iteration,  \* "none", "live" or "stale"
  panicked    \* jane_panic was called

vars == <<map, ret, todo, iteration, panicked>>

Pair(k) == [key |-> k, value |-> map[k]]

Init == /\ map = [k \in {} |-> None]
        /\ ret = None
        /\ todo = {}
        /\ iteration = "none"
        /\ panicked = FALSE

Invalidate == /\ todo' = {}
              /\ iteration' = IF iteration = "none" THEN "none" ELSE "stale"

Put(k, v) == /\ map' = [x \in DOMAIN map \cup {k} |-> IF x = k THEN v ELSE map[x]]
             /\ Invalidate
             /\ UNCHANGED <<ret, panicked>>

Clear == /\ map' = [k \in {} |-> None]
         /\ Invalidate
         /\ UNCHANGED <<ret, panicked>>

Panic == panicked' = TRUE /\ UNCHANGED <<map, ret, todo, iteration>>

MaybeGet(k) == /\ ret' = IF k \in DOMAIN map THEN Pair(k) ELSE None
               /\ UNCHANGED <<map, todo, iteration, panicked>>

Get(k) == IF k \in DOMAIN map THEN MaybeGet(k) ELSE Panic

Iterate == /\ todo' = DOMAIN map
           /\ iteration' = "live"
           /\ UNCHANGED <<map, ret, panicked>>

Visit == /\ iteration = "live"
         /\ \E k \in todo : ret' = Pair(k) /\ todo' = todo \ {k}
         /\ UNCHANGED <<map, iteration, panicked>>

VisitDone == /\ iteration = "live"
             /\ todo = {}
             /\ ret' = None
             /\ UNCHANGED <<map, todo, iteration, panicked>>

VisitStale == iteration = "stale" /\ Panic

Next == /\ ~panicked
        /\ \/ \E k \in Key : Get(k) \/ MaybeGet(k) \/ \E v \in Value : Put(k, v)
           \/ Clear
           \/ Iterate
           \/ Visit
           \/ VisitDone
           \/ VisitStale

Spec == Init /\ [][Next]_vars
=============================================================================
