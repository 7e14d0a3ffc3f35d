----------------------------- MODULE MCTokenizer ----------------------------
(***************************************************************************)
(* Source texts for TLC: every short text over one character of each kind, *)
(* and longer ones over the alphabets in which comments, words and strings *)
(* become interesting.                                                     *)
(***************************************************************************)
EXTENDS Tokenizer

Texts(chars, n) == UNION {[1..m -> chars] : m \in 0..n}

MCBuffers ==
  Texts({"a", "1", "\"", "/", "*", "-", "=", ">", "&", "(", "$", " ", "\n"}, 3)
    \cup Texts({"a", "s", "_", "0", " ", "|"}, 4)
    \cup Texts({"!", "=", ">", "<", "-", "&", "|"} , 3)
    \cup Texts({"/", "*", "a"}, 7)
    \cup Texts({"/", "\"", "\n", "-", "a"}, 5)
MCOperators == Texts({"<", "=", "-", "a", " "}, 3)
=============================================================================
