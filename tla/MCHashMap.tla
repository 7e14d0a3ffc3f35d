----------------------------- MODULE MCHashMap ------------------------------
(* Four keys: a and b collide at every capacity, c and d at capacities 2   *)
(* and 4 and in the last slot, so that probing wraps around the end.       *)
EXTENDS HashMap, TLC

CONSTANTS a, b, c, d

MCHash == (a :> 0) @@ (b :> 0) @@ (c :> 3) @@ (d :> 7)
=============================================================================
