------------------------------- MODULE Imports -------------------------------
(***************************************************************************)
(* codegen_add_root_code and codegen_add_code of src/codegen.cpp: loading  *)
(* the root source and, recursively, every path its "use" declarations     *)
(* name.  import_table is keyed by the path as written; a key stands for   *)
(* the text of one file.                                                   *)
(***************************************************************************)
EXTENDS Integers, Sequences, FiniteSets

CONSTANTS
  Path,      \* the paths that "use" declarations name
  RootKey,   \* the key of the root import: main.cpp:77 passes the root's
             \* text where its path belongs
  File,      \* source files
  RootFile,  \* the file main reads
  Programs,  \* the source trees: see Tree
  Missing,   \* what a path without a file leads to
  Unreadable \* the "uses" of a file that does not tokenize or parse

ASSUME RootAssumption == RootKey \notin Path /\ RootFile \in File
ASSUME PathAssumption == IsFiniteSet(Path)

Key == Path \cup {RootKey}

(* What a path leads to, and the paths a file uses, in order.              *)
Tree == [target : [Path -> File \cup {Missing}],
         uses : [File -> Seq(Path) \cup {Unreadable}]]
ASSUME ProgramsAssumption == Programs \subseteq Tree
ASSUME FileAssumption == Missing \notin File
ASSUME TextAssumption == Unreadable \notin Seq(Path)

VARIABLES
  tree,         \* the source tree
  importTable,  \* the keys of g->import_table
  stack,        \* the activations of codegen_add_code, with their loop index
  loaded,       \* history: the keys codegen_add_code was called with
  outcome       \* "running", "done", "error" (a syntax error) or "panic"

vars == <<tree, importTable, stack, loaded, outcome>>

Target(key) == IF key = RootKey THEN RootFile ELSE tree.target[key]
Uses(key) == tree.uses[Target(key)]

Init == /\ tree \in Programs
        /\ importTable = {}
        /\ stack = <<>>
        /\ loaded = <<>>
        /\ outcome = "running"

(* codegen_add_code up to its loop, called with the activations callers:   *)
(* the source is fetched, tokenized and parsed, and only then entered in   *)
(* import_table.                                                           *)
Parses(key) == Uses(key) # Unreadable

TableUnchanged(key) == importTable   \* mutant: the table is filled in too late
TableWith(key) == importTable \cup {key}

AddCode(key, callers) ==
  /\ loaded' = Append(loaded, key)
  /\ IF Target(key) = Missing
     THEN outcome' = "panic" /\ UNCHANGED <<importTable, stack>>
     ELSE IF ~Parses(key)
     THEN outcome' = "error" /\ UNCHANGED <<importTable, stack>>
     ELSE /\ importTable' = TableWith(key)
          /\ stack' = Append(callers, [key |-> key, decl |-> 1])
          /\ UNCHANGED outcome

AddRootCode == /\ outcome = "running"
               /\ loaded = <<>>
               /\ AddCode(RootKey, <<>>)
               /\ UNCHANGED tree

Top == stack[Len(stack)]
SkipsLast == Top.decl < Len(Uses(Top.key))   \* mutant: off by one
MoreDecls == Top.decl <= Len(Uses(Top.key))
Used == Uses(Top.key)[Top.decl]
SameDecl == stack   \* mutant: no increment
NextDecl == [stack EXCEPT ![Len(stack)] = [key |-> Top.key, decl |-> Top.decl + 1]]

(* One iteration of the loop over the declarations of the innermost file:  *)
(* a path that is in the table is passed over, another is loaded first.    *)
KnownUse == /\ outcome = "running"
            /\ stack # <<>>
            /\ MoreDecls
            /\ Used \in importTable
            /\ stack' = NextDecl
            /\ UNCHANGED <<tree, importTable, loaded, outcome>>

NewUse == /\ outcome = "running"
          /\ stack # <<>>
          /\ MoreDecls
          /\ Used \notin importTable
          /\ AddCode(Used, NextDecl)
          /\ UNCHANGED tree

Return == /\ outcome = "running"
          /\ stack # <<>>
          /\ ~MoreDecls
          /\ stack' = SubSeq(stack, 1, Len(stack) - 1)
          /\ outcome' = IF Len(stack) = 1 THEN "done" ELSE outcome
          /\ UNCHANGED <<tree, importTable, loaded>>

Next == AddRootCode \/ KnownUse \/ NewUse \/ Return

Spec == Init /\ [][Next]_vars /\ WF_vars(Next)
-----------------------------------------------------------------------------
(* Properties.                                                             *)

Activation == [key : Key, decl : Nat \ {0}]

(* Every variable keeps its type, and what is in the table was parsed.     *)
TypeOK == /\ tree \in Programs
          /\ importTable \subseteq Key
          /\ \A key \in importTable : Target(key) \in File /\ Uses(key) \in Seq(Path)
          /\ stack \in Seq(Activation)
          /\ \A i \in DOMAIN stack : stack[i].key \in importTable
          /\ loaded \in Seq(Key)
          /\ outcome \in {"running", "done", "error", "panic"}

(* No path is loaded twice, however the files use one another: in a cycle  *)
(* of imports the table is filled in before the recursion                  *)
(* (codegen.cpp:640, 651), which is what makes the recursion end.          *)
LoadedOnce == \A i, j \in DOMAIN loaded : loaded[i] = loaded[j] => i = j

(* When loading succeeds the table holds exactly the files the root needs: *)
(* it is closed under "use", and it is within every such set.              *)
Loadable(key) == Target(key) # Missing /\ Uses(key) # Unreadable

Closed(keys) == \A key \in keys : Loadable(key) =>
                  \A i \in DOMAIN Uses(key) : Uses(key)[i] \in keys
ExactlyTheUsed ==
  /\ outcome = "done" => RootKey \in importTable /\ Closed(importTable)
  /\ \A keys \in SUBSET Key :
       (RootKey \in keys /\ Closed(keys)) => importTable \subseteq keys

(* Loading ends, with the imports, a syntax error or a missing file.       *)
Terminates == <>(outcome # "running")
=============================================================================
