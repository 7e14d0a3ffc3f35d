-------------------------------- MODULE Text --------------------------------
(***************************************************************************)
(* What the contents of a buffer mean to those who read it as a C string:  *)
(* fopen, fprintf with "%s" and LLVM get buf_ptr and no length.            *)
(***************************************************************************)
EXTENDS Naturals, Sequences

CONSTANT Nul

Ends(s) == {n \in DOMAIN s : s[n] = Nul}

(* The bytes in front of the first NUL, or all: behind the last byte of a  *)
(* buffer stands its terminator.                                           *)
CString(s) == IF Ends(s) = {} THEN s
              ELSE SubSeq(s, 1, (CHOOSE n \in Ends(s) : \A m \in Ends(s) : n <= m) - 1)

(* What buf_appendf makes of s and a formatted t (buffer.cpp:24-48): the   *)
(* size it asks for counts the NUL that vsnprintf writes, so that this NUL *)
(* becomes a byte of the contents, in front of the terminator.             *)
Formatted(s, t) == s \o t \o <<Nul>>

(* toupper, of the one lower-case letter that stands for all.              *)
Uppercase(c) == IF c = "a" THEN "A" ELSE c
=============================================================================
