------------------------------- MODULE MCExec -------------------------------
(* Programs for TLC whose output fits a pipe of two bytes, fills it or     *)
(* does not fit, alone or together with what they write to stderr.         *)
EXTENDS Exec

MCPrograms == [out : 0..3, err : 0..3, reads : BOOLEAN]
=============================================================================
