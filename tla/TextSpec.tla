------------------------------ MODULE TextSpec ------------------------------
(***************************************************************************)
(* What the calls on buffers and lists promise: a buffer is a string of    *)
(* bytes of any length, a list a sequence of items, and a call changes the *)
(* ones it is given and no other.  There is no memory, no capacity and no  *)
(* terminator here.                                                        *)
(***************************************************************************)
EXTENDS Text

CONSTANTS Buf, List  \* the buffers and the lists

VARIABLES
  call,  \* the last call: its operation and arguments
  text,  \* the contents of every buffer
  list   \* the items of every list

Init == /\ call = <<"none">>
        /\ text = [b \in Buf |-> <<>>]
        /\ list = [l \in List |-> <<>>]

Is(op, n) == Len(call') = n + 1 /\ call'[1] = op
Arg(n) == call'[n + 1]

(* The buffer of the call becomes t, or keeps what it promises to keep.    *)
Becomes(t) == text' = [text EXCEPT ![Arg(1)] = t]
Keeps(t, n) == /\ Len(text'[Arg(1)]) = n
               /\ \A i \in DOMAIN t : i <= n => text'[Arg(1)][i] = t[i]
               /\ Becomes(text'[Arg(1)])
Old == text[Arg(1)]

Assign == (Is("assign", 2) \/ Is("fetch", 2)) /\ Becomes(Arg(2))
Copy == Is("copy", 2) /\ Becomes(text[Arg(2)])
AppendMem == Is("append", 2) /\ Becomes(Old \o Arg(2))
Concat == /\ Is("concat", 2)
          /\ IF Arg(2) = Arg(1) THEN Keeps(Old, 2 * Len(Old))
                                ELSE Becomes(Old \o text[Arg(2)])
Format == Is("format", 2) /\ Becomes(Formatted(Old, Arg(2)))
Slice == Is("slice", 4) /\ Becomes(SubSeq(text[Arg(2)], Arg(3) + 1, Arg(4)))
Alloc == Is("alloc", 2) /\ Keeps(<<>>, Arg(2))
Resize == Is("resize", 2) /\ Keeps(Old, Arg(2))
Upcase == Is("upcase", 1) /\ Becomes([i \in DOMAIN Old |-> Uppercase(Old[i])])
(* os_get_cwd promises a path to those who read C strings, no more.        *)
Cwd == /\ Is("cwd", 2)
       /\ CString(text'[Arg(1)]) = Arg(2)
       /\ Becomes(text'[Arg(1)])
Join == Is("join", 3) /\ Becomes(text[Arg(2)] \o <<"/">> \o text[Arg(3)])
(* The parts of a path, joined, are the path, or lead to it from ".".      *)
Split ==
  /\ Is("split", 3)
  /\ text'[Arg(1)] \o <<"/">> \o text'[Arg(2)]
       \in {text[Arg(3)], <<".", "/">> \o text[Arg(3)]}
  /\ text' = [text EXCEPT ![Arg(1)] = text'[Arg(1)], ![Arg(2)] = text'[Arg(2)]]

TextNext == /\ \/ Assign \/ Copy \/ AppendMem \/ Concat \/ Format \/ Slice
               \/ Alloc \/ Resize \/ Upcase \/ Cwd \/ Join \/ Split
            /\ UNCHANGED list

(* A list is a stack that can be cleared; add_one pushes an item that is   *)
(* yet to be assigned.                                                     *)
Listed(s) == list' = [list EXCEPT ![Arg(1)] = s]
Items == list[Arg(1)]
Push == Is("push", 2) /\ Listed(Items \o <<Arg(2)>>)
Pop == Is("pop", 1) /\ Items # <<>> /\ Listed(SubSeq(Items, 1, Len(Items) - 1))
AddOne == /\ Is("add_one", 1)
          /\ Len(list'[Arg(1)]) = Len(Items) + 1
          /\ Listed(Items \o <<list'[Arg(1)][Len(Items) + 1]>>)
Clear == Is("clear", 1) /\ Listed(<<>>)

ListNext == (Push \/ Pop \/ AddOne \/ Clear) /\ UNCHANGED text

(* A call may also end the program.                                        *)
Stop == Is("failed", 0) /\ UNCHANGED <<text, list>>

Next == TextNext \/ ListNext \/ Stop
Spec == Init /\ [][Next]_<<call, text, list>>
=============================================================================
