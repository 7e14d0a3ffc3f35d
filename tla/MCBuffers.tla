------------------------------ MODULE MCBuffers -----------------------------
(* A few strings and files for TLC; the largest capacity is 8 and a file   *)
(* of 8 bytes passes the guard of os_fetch_file all the same.              *)
EXTENDS Buffers, TLC

MCStrings == {<<"a">>, <<"a", "/", "a">>}
MCFiles == {<<"/", "a">>} \cup {[i \in 1..n |-> "a"] : n \in {7, 8, 16}}
MCDirectories == {<<"/">>, <<"/", "a">>, <<"/", "a", "a">>}
Symmetry == Permutations(Buf)
=============================================================================
