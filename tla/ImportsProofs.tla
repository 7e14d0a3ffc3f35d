---------------------------- MODULE ImportsProofs ----------------------------
(***************************************************************************)
(* Proofs that loading enters each path once and ends with exactly the     *)
(* imports the root needs, for every source tree.                          *)
(***************************************************************************)
EXTENDS Imports, TLAPS

(* The first n uses of a file are in the table.                            *)
UsesLoaded(key, n) == \A k \in 1..n : Uses(key)[k] \in importTable

(* The activations belong to different files of the table, and each has    *)
(* seen to the uses before its index.                                      *)
StackOK ==
  \A i \in DOMAIN stack :
    /\ stack[i].key \in importTable
    /\ stack[i].decl \in 1..Len(Uses(stack[i].key)) + 1
    /\ UsesLoaded(stack[i].key, stack[i].decl - 1)
    /\ \A j \in DOMAIN stack : stack[i].key = stack[j].key => i = j

(* A file whose activation has returned has all its uses in the table.     *)
ReturnedOK ==
  \A key \in importTable :
    (\A i \in DOMAIN stack : stack[i].key # key) =>
      UsesLoaded(key, Len(Uses(key)))

HistoryOK ==
  /\ loaded = <<>> => importTable = {} /\ stack = <<>> /\ outcome = "running"
  /\ outcome \in {"running", "done"} =>
       /\ \A i \in DOMAIN loaded : loaded[i] \in importTable
       /\ loaded # <<>> => RootKey \in importTable
  /\ outcome = "done" => stack = <<>> /\ loaded # <<>>

Needed == \A keys \in SUBSET Key :
            (RootKey \in keys /\ Closed(keys)) => importTable \subseteq keys

(* The inductive invariant.                                                *)
IInv == TypeOK /\ StackOK /\ ReturnedOK /\ HistoryOK /\ LoadedOnce /\ Needed

-----------------------------------------------------------------------------

(* What the table holds was found, read and parsed.                        *)
LEMMA TreeType ==
  ASSUME TypeOK
  PROVE  /\ \A key \in Key : Target(key) \in File \cup {Missing}
         /\ \A key \in Key : Target(key) # Missing =>
                               Uses(key) \in Seq(Path) \cup {Unreadable}
         /\ \A key \in importTable : Uses(key) \in Seq(Path)
BY ProgramsAssumption, RootAssumption DEF TypeOK, Tree, Target, Uses, Key

(* The loop's increment touches the index of the innermost activation.     *)
LEMMA NextDeclType ==
  ASSUME stack \in Seq(Activation), stack # <<>>
  PROVE  /\ Len(stack) \in Nat \ {0}
         /\ Top \in Activation
         /\ NextDecl \in Seq(Activation)
         /\ Len(NextDecl) = Len(stack)
         /\ \A i \in 1..Len(stack) :
              NextDecl[i] = IF i = Len(stack)
                            THEN [key |-> Top.key, decl |-> Top.decl + 1]
                            ELSE stack[i]
<1>1. Len(stack) \in Nat \ {0} /\ \A i \in 1..Len(stack) : stack[i] \in Activation
  OBVIOUS
<1>2. Top \in Activation
  BY <1>1 DEF Top
<1>3. [key |-> Top.key, decl |-> Top.decl + 1] \in Activation
  BY <1>2 DEF Activation
<1> QED
  BY <1>1, <1>2, <1>3 DEF NextDecl

(* A program that has not changed leads every path where it led it.        *)
LEMMA SameTree ==
  ASSUME UNCHANGED tree
  PROVE  /\ \A key : Target(key)' = Target(key)
         /\ \A key : Uses(key)' = Uses(key)
         /\ \A keys : Closed(keys)' = Closed(keys)
BY DEF Target, Uses, Closed, Loadable

-----------------------------------------------------------------------------
(* Before anything is loaded the invariant holds.                          *)
LEMMA InitInvariant == Init => IInv
<1> SUFFICES ASSUME Init PROVE IInv
  OBVIOUS
<1>1. TypeOK
  BY DEF Init, TypeOK
<1>2. StackOK /\ ReturnedOK
  BY DEF Init, StackOK, ReturnedOK
<1>3. HistoryOK /\ LoadedOnce /\ Needed
  BY DEF Init, HistoryOK, LoadedOnce, Needed
<1> QED
  BY <1>1, <1>2, <1>3 DEF IInv

(* What codegen_add_code may be called with: a key the root needs and the  *)
(* table lacks, by activations that have seen to it already.               *)
CallOK(key, callers) ==
  /\ key \in Key \ importTable
  /\ callers \in Seq(Activation)
  /\ Len(callers) = Len(stack)
  /\ \A i \in 1..Len(stack) :
       /\ callers[i].key = stack[i].key
       /\ callers[i].decl \in 1..Len(Uses(stack[i].key)) + 1
       /\ \A k \in 1..callers[i].decl - 1 :
            Uses(stack[i].key)[k] \in importTable \cup {key}
  /\ RootKey \in importTable \cup {key}
  /\ \A keys \in SUBSET Key : (RootKey \in keys /\ Closed(keys)) => key \in keys

(* A call that fails leaves the table and the callers as they are.         *)
LEMMA FailedAdd ==
  ASSUME IInv, outcome = "running", UNCHANGED <<tree, importTable, stack>>,
         NEW key \in Key \ importTable, loaded' = Append(loaded, key),
         outcome' \in {"panic", "error"}
  PROVE  IInv'
<1>1. loaded \in Seq(Key) /\ loaded' \in Seq(Key) /\ loaded' # <<>>
  BY DEF IInv, TypeOK
<1>2. TypeOK'
  <2>1. \A k : Target(k)' = Target(k) /\ Uses(k)' = Uses(k)
    BY SameTree
  <2> QED
    BY <1>1, <2>1 DEF IInv, TypeOK
<1>3. StackOK' /\ ReturnedOK' /\ Needed'
  <2>1. \A k : Uses(k)' = Uses(k)
    BY SameTree
  <2>2. \A keys : Closed(keys)' = Closed(keys)
    BY SameTree
  <2>3. StackOK'
    BY <2>1 DEF IInv, StackOK, UsesLoaded
  <2>4. ReturnedOK'
    BY <2>1 DEF IInv, ReturnedOK, UsesLoaded
  <2>5. Needed'
    BY <2>2 DEF IInv, Needed
  <2> QED
    BY <2>3, <2>4, <2>5
<1>4. HistoryOK'
  BY <1>1 DEF HistoryOK
<1>5. \A i \in 1..Len(loaded) : loaded[i] \in importTable
  BY <1>1 DEF IInv, HistoryOK
<1>6. LoadedOnce'
  BY <1>1, <1>5 DEF IInv, LoadedOnce
<1> QED
  BY <1>2, <1>3, <1>4, <1>6 DEF IInv

(* A call that parses its file enters it in the table and starts its loop. *)
LEMMA EnteredAdd ==
  ASSUME IInv, outcome = "running", UNCHANGED <<tree, outcome>>,
         NEW key, NEW callers, CallOK(key, callers),
         Target(key) # Missing, Uses(key) # Unreadable,
         importTable' = importTable \cup {key},
         stack' = Append(callers, [key |-> key, decl |-> 1]),
         loaded' = Append(loaded, key)
  PROVE  IInv'
<1>1. /\ loaded \in Seq(Key) /\ loaded' \in Seq(Key) /\ loaded' # <<>>
      /\ stack \in Seq(Activation)
      /\ \A i \in 1..Len(loaded) : loaded[i] \in importTable
      /\ \A i \in 1..Len(stack) : stack[i].key \in importTable
  <2>1. loaded \in Seq(Key) /\ stack \in Seq(Activation) /\ key \in Key
    BY DEF IInv, TypeOK, CallOK
  <2>2. DOMAIN loaded = 1..Len(loaded) /\ DOMAIN stack = 1..Len(stack)
    BY <2>1
  <2>3. loaded' \in Seq(Key) /\ loaded' # <<>>
    BY <2>1
  <2>4. \A i \in 1..Len(loaded) : loaded[i] \in importTable
    BY <2>2 DEF IInv, HistoryOK
  <2>5. \A i \in 1..Len(stack) : stack[i].key \in importTable
    BY <2>2 DEF IInv, TypeOK
  <2> QED
    BY <2>1, <2>3, <2>4, <2>5
<1>2. \A k : Target(k)' = Target(k) /\ Uses(k)' = Uses(k)
  BY SameTree
<1>3. Target(key) \in File /\ Uses(key) \in Seq(Path)
  BY TreeType, RootAssumption DEF IInv, CallOK
<1>4. /\ callers \in Seq(Activation) /\ Len(callers) = Len(stack)
      /\ Len(stack) \in Nat
      /\ [key |-> key, decl |-> 1] \in Activation
  BY <1>1 DEF CallOK, Activation
<1>5. /\ stack' \in Seq(Activation)
      /\ Len(stack') = Len(stack) + 1
      /\ \A i \in 1..Len(stack) : stack'[i] = callers[i]
      /\ stack'[Len(stack) + 1] = [key |-> key, decl |-> 1]
      /\ DOMAIN stack' = 1..Len(stack) + 1
  BY <1>4
<1>6. \A i \in DOMAIN stack' : stack'[i].key \in importTable'
  <2>1. \A i \in 1..Len(stack) : stack'[i].key \in importTable
    BY <1>1, <1>5 DEF CallOK
  <2>2. stack'[Len(stack) + 1].key = key
    BY <1>5
  <2>3. \A i \in DOMAIN stack' : i \in 1..Len(stack) \/ i = Len(stack) + 1
    BY <1>4, <1>5
  <2> QED
    BY <2>1, <2>2, <2>3
<1>7. TypeOK'
  BY <1>1, <1>2, <1>3, <1>5, <1>6 DEF IInv, TypeOK, CallOK
<1>8. StackOK'
  <2> SUFFICES ASSUME NEW i \in 1..Len(stack) + 1
               PROVE  /\ stack'[i].decl \in 1..Len(Uses(stack'[i].key)) + 1
                      /\ \A k \in 1..stack'[i].decl - 1 :
                           Uses(stack'[i].key)[k] \in importTable'
                      /\ \A j \in 1..Len(stack) + 1 :
                           stack'[i].key = stack'[j].key => i = j
    BY <1>2, <1>5, <1>6 DEF StackOK, UsesLoaded
  <2>1. \A j \in 1..Len(stack) : stack'[j].key = stack[j].key /\ stack[j].key # key
    BY <1>1, <1>5 DEF CallOK
  <2>2. CASE i \in 1..Len(stack)
    <3>1. \A j \in 1..Len(stack) : stack'[i].key = stack'[j].key => i = j
      <4>1. DOMAIN stack = 1..Len(stack)
        BY <1>1
      <4>2. \A j \in 1..Len(stack) : stack[i].key = stack[j].key => i = j
        BY <4>1, <2>2 DEF IInv, StackOK
      <4> QED
        BY <4>2, <2>1, <2>2
    <3>2. stack'[i].key # stack'[Len(stack) + 1].key
      BY <2>1, <2>2, <1>5
    <3>3. \A j \in 1..Len(stack) + 1 : j \in 1..Len(stack) \/ j = Len(stack) + 1
      BY <1>4
    <3> QED
      BY <2>1, <2>2, <3>1, <3>2, <3>3, <1>5 DEF CallOK
  <2>3. CASE i = Len(stack) + 1
    <3>1. stack'[i] = [key |-> key, decl |-> 1]
      BY <2>3, <1>5
    <3>2. Len(Uses(key)) \in Nat
      BY <1>3
    <3>3. \A j \in 1..Len(stack) + 1 : j \in 1..Len(stack) \/ j = i
      BY <1>4, <2>3
    <3>4. \A j \in 1..Len(stack) + 1 : stack'[i].key = stack'[j].key => i = j
      BY <2>1, <3>1, <3>3
    <3>5. stack'[i].decl = 1 /\ stack'[i].key = key
      BY <2>3, <1>5
    <3>6. 1 \in 1..Len(Uses(key)) + 1 /\ 1..1 - 1 = {}
      BY <3>2
    <3> QED
      BY <3>4, <3>5, <3>6
  <2>4. i \in 1..Len(stack) \/ i = Len(stack) + 1
    BY <1>4
  <2> QED
    BY <2>2, <2>3, <2>4, Zenon
<1>9. ReturnedOK'
  <2> SUFFICES ASSUME NEW old \in importTable \cup {key},
                      \A i \in 1..Len(stack) + 1 : stack'[i].key # old
               PROVE  \A k \in 1..Len(Uses(old)) : Uses(old)[k] \in importTable'
    BY <1>2, <1>5 DEF ReturnedOK, UsesLoaded
  <2>1. old # key
    BY <1>4, <1>5
  <2>2. \A i \in 1..Len(stack) : stack[i].key # old
    BY <1>4, <1>5 DEF CallOK
  <2>3. DOMAIN stack = 1..Len(stack)
    BY <1>1
  <2>4. old \in importTable
    BY <2>1
  <2>5. UsesLoaded(old, Len(Uses(old)))
    BY <2>2, <2>3, <2>4 DEF IInv, ReturnedOK
  <2> QED
    BY <2>5 DEF UsesLoaded
<1>10. HistoryOK'
  <2>1. \A i \in 1..Len(loaded) + 1 : loaded'[i] \in importTable'
    BY <1>1
  <2> QED
    BY <1>1, <2>1 DEF HistoryOK, CallOK
<1>11. LoadedOnce'
  BY <1>1 DEF IInv, LoadedOnce, CallOK
<1>12. Needed'
  BY SameTree DEF IInv, Needed, CallOK
<1> QED
  BY <1>7, <1>8, <1>9, <1>10, <1>11, <1>12 DEF IInv

(* A call keeps the invariant.                                             *)
LEMMA AddStep ==
  ASSUME IInv, outcome = "running", UNCHANGED tree,
         NEW key, NEW callers, CallOK(key, callers), AddCode(key, callers)
  PROVE  IInv'
<1>1. key \in Key \ importTable /\ loaded' = Append(loaded, key)
  BY DEF CallOK, AddCode
<1>2. CASE Target(key) = Missing \/ Uses(key) = Unreadable
  BY <1>1, <1>2, FailedAdd DEF AddCode, Parses
<1>3. CASE Target(key) # Missing /\ Uses(key) # Unreadable
  BY <1>1, <1>3, EnteredAdd DEF AddCode, Parses, TableWith
<1> QED
  BY <1>2, <1>3

-----------------------------------------------------------------------------
(* The step of the loop sees to the use at the index, which the root       *)
(* needs because the innermost file is in the table.                       *)
LEMMA LoopStep ==
  ASSUME IInv, stack # <<>>, MoreDecls
  PROVE  /\ Used \in Path
         /\ \A i \in 1..Len(stack) :
              /\ NextDecl[i].key = stack[i].key
              /\ NextDecl[i].decl \in 1..Len(Uses(stack[i].key)) + 1
              /\ \A k \in 1..NextDecl[i].decl - 1 :
                   Uses(stack[i].key)[k] \in importTable \cup {Used}
         /\ \A keys \in SUBSET Key :
              (RootKey \in keys /\ Closed(keys)) => Used \in keys
<1>1. /\ stack \in Seq(Activation)
      /\ Len(stack) \in 1..Len(stack)
      /\ DOMAIN stack = 1..Len(stack)
  BY NextDeclType DEF IInv, TypeOK
<1>2. /\ Top.key \in importTable
      /\ Top.decl \in 1..Len(Uses(Top.key)) + 1
      /\ UsesLoaded(Top.key, Top.decl - 1)
  BY <1>1 DEF IInv, StackOK, Top
<1>3. Uses(Top.key) \in Seq(Path) /\ Target(Top.key) \in File
  BY <1>2 DEF IInv, TypeOK
<1>4. Top.decl \in 1..Len(Uses(Top.key)) /\ Used \in Path
  BY <1>2, <1>3 DEF MoreDecls, Used
<1>5. ASSUME NEW i \in 1..Len(stack)
      PROVE  /\ NextDecl[i].key = stack[i].key
             /\ NextDecl[i].decl \in 1..Len(Uses(stack[i].key)) + 1
             /\ \A k \in 1..NextDecl[i].decl - 1 :
                  Uses(stack[i].key)[k] \in importTable \cup {Used}
  <2>1. NextDecl[i] = IF i = Len(stack)
                      THEN [key |-> Top.key, decl |-> Top.decl + 1] ELSE stack[i]
    BY <1>1, NextDeclType
  <2>2. CASE i # Len(stack)
    <3>1. NextDecl[i] = stack[i]
      BY <2>1, <2>2
    <3>2. /\ stack[i].decl \in 1..Len(Uses(stack[i].key)) + 1
          /\ UsesLoaded(stack[i].key, stack[i].decl - 1)
      BY <1>1 DEF IInv, StackOK
    <3> QED
      BY <3>1, <3>2 DEF UsesLoaded
  <2>3. CASE i = Len(stack)
    <3>1. NextDecl[i].key = Top.key /\ NextDecl[i].decl = Top.decl + 1
      BY <2>1, <2>3
    <3>2. stack[i].key = Top.key
      BY <2>3 DEF Top
    <3>3. Len(Uses(Top.key)) \in Nat
      BY <1>3
    <3>4. ASSUME NEW k \in 1..Top.decl
          PROVE  Uses(Top.key)[k] \in importTable \cup {Used}
      <4>1. CASE k = Top.decl
        BY <4>1 DEF Used
      <4>2. CASE k # Top.decl
        <5>1. k \in 1..Top.decl - 1
          BY <1>4, <4>2
        <5> QED
          BY <5>1, <1>2 DEF UsesLoaded
      <4> QED
        BY <4>1, <4>2
    <3>5. Top.decl + 1 \in 1..Len(Uses(Top.key)) + 1 /\ (Top.decl + 1) - 1 = Top.decl
      BY <1>4, <3>3
    <3> QED
      BY <3>1, <3>2, <3>4, <3>5
  <2> QED
    BY <2>2, <2>3
<1>6. ASSUME NEW keys \in SUBSET Key, RootKey \in keys, Closed(keys)
      PROVE  Used \in keys
  <2>1. Top.key \in keys
    BY <1>2, <1>6 DEF IInv, Needed
  <2>2. Loadable(Top.key)
    BY <1>3, FileAssumption, TextAssumption DEF Loadable
  <2>3. Top.decl \in DOMAIN Uses(Top.key)
    BY <1>3, <1>4
  <2> QED
    BY <1>6, <2>1, <2>2, <2>3 DEF Closed, Used
<1> QED
  BY <1>4, <1>5, <1>6

(* Loading the root calls codegen_add_code with an empty table.            *)
LEMMA AddRootCodeStep == IInv /\ AddRootCode => IInv'
<1> SUFFICES ASSUME IInv, AddRootCode PROVE IInv'
  OBVIOUS
<1>1. importTable = {} /\ stack = <<>>
  BY DEF AddRootCode, IInv, HistoryOK
<1>2. CallOK(RootKey, <<>>)
  BY <1>1 DEF CallOK, Key
<1> QED
  BY <1>2, AddStep DEF AddRootCode

(* A new path is loaded from the loop of the innermost file.               *)
LEMMA NewUseStep == IInv /\ NewUse => IInv'
<1> SUFFICES ASSUME IInv, NewUse PROVE IInv'
  OBVIOUS
<1>1. stack \in Seq(Activation) /\ stack # <<>> /\ MoreDecls /\ outcome = "running"
  BY DEF NewUse, IInv, TypeOK
<1>2. RootKey \in importTable
  BY <1>1 DEF IInv, HistoryOK
<1>3. NextDecl \in Seq(Activation) /\ Len(NextDecl) = Len(stack)
  BY <1>1, NextDeclType
<1>4. Used \in Key \ importTable
  BY <1>1, LoopStep DEF NewUse, Key
<1>5. CallOK(Used, NextDecl)
  BY <1>1, <1>2, <1>3, <1>4, LoopStep DEF CallOK
<1> QED
  BY <1>1, <1>5, AddStep DEF NewUse

(* A known path is passed over.                                            *)
LEMMA KnownUseStep == IInv /\ KnownUse => IInv'
<1> SUFFICES ASSUME IInv, KnownUse PROVE IInv'
  OBVIOUS
<1>1. /\ stack \in Seq(Activation) /\ stack # <<>> /\ MoreDecls
      /\ DOMAIN stack = 1..Len(stack)
      /\ importTable \cup {Used} = importTable
      /\ UNCHANGED <<tree, importTable, loaded, outcome>>
      /\ stack' = NextDecl
  BY DEF KnownUse, IInv, TypeOK
<1>2. \A k : Target(k)' = Target(k) /\ Uses(k)' = Uses(k)
  BY <1>1, SameTree
<1>3. /\ stack' \in Seq(Activation) /\ Len(stack') = Len(stack)
      /\ DOMAIN stack' = 1..Len(stack)
  <2>1. NextDecl \in Seq(Activation) /\ Len(NextDecl) = Len(stack)
    BY <1>1, NextDeclType
  <2> QED
    BY <1>1, <2>1
<1>4. \A i \in 1..Len(stack) :
        /\ stack'[i].key = stack[i].key
        /\ stack'[i].decl \in 1..Len(Uses(stack[i].key)) + 1
        /\ \A k \in 1..stack'[i].decl - 1 : Uses(stack[i].key)[k] \in importTable
  BY <1>1, LoopStep
<1>5. TypeOK'
  BY <1>1, <1>2, <1>3, <1>4 DEF IInv, TypeOK
<1>6. StackOK'
  BY <1>1, <1>2, <1>3, <1>4 DEF IInv, StackOK, UsesLoaded
<1>7. ReturnedOK'
  BY <1>1, <1>2, <1>3, <1>4 DEF IInv, ReturnedOK, UsesLoaded
<1>8. stack' # <<>>
  BY <1>1, <1>3
<1>9. HistoryOK' /\ LoadedOnce'
  BY <1>1, <1>8 DEF IInv, HistoryOK, LoadedOnce, KnownUse
<1>10. Needed'
  BY <1>1, SameTree DEF IInv, Needed
<1> QED
  BY <1>5, <1>6, <1>7, <1>9, <1>10 DEF IInv

(* The innermost loop ends with every use of its file in the table.        *)
LEMMA ReturnStep == IInv /\ Return => IInv'
<1> SUFFICES ASSUME IInv, Return PROVE IInv'
  OBVIOUS
<1>1. /\ stack \in Seq(Activation) /\ stack # <<>>
      /\ DOMAIN stack = 1..Len(stack)
      /\ Len(stack) \in Nat \ {0}
      /\ ~MoreDecls /\ outcome = "running"
      /\ UNCHANGED <<tree, importTable, loaded>>
      /\ stack' = SubSeq(stack, 1, Len(stack) - 1)
  BY NextDeclType DEF Return, IInv, TypeOK
<1>2. \A k : Target(k)' = Target(k) /\ Uses(k)' = Uses(k)
  BY <1>1, SameTree
<1>3. /\ stack' \in Seq(Activation) /\ Len(stack') = Len(stack) - 1
      /\ DOMAIN stack' = 1..Len(stack) - 1
      /\ \A i \in 1..Len(stack) - 1 : stack'[i] = stack[i] /\ i \in 1..Len(stack)
  BY <1>1
<1>4. TypeOK'
  <2>1. outcome' \in {"running", "done"}
    BY <1>1 DEF Return
  <2> QED
    BY <1>1, <1>2, <1>3, <2>1 DEF IInv, TypeOK
<1>5. StackOK'
  BY <1>1, <1>2, <1>3 DEF IInv, StackOK, UsesLoaded
<1>6. UsesLoaded(Top.key, Len(Uses(Top.key)))
  <2>1. /\ Top.decl \in 1..Len(Uses(Top.key)) + 1
        /\ UsesLoaded(Top.key, Top.decl - 1)
        /\ Top.key \in importTable
    BY <1>1 DEF IInv, StackOK, Top
  <2>2. Len(Uses(Top.key)) \in Nat
    BY <2>1 DEF IInv, TypeOK
  <2>3. Top.decl - 1 = Len(Uses(Top.key))
    BY <1>1, <2>1, <2>2 DEF MoreDecls
  <2> QED
    BY <2>1, <2>3
<1>7. ReturnedOK'
  <2> SUFFICES ASSUME NEW key \in importTable,
                      \A i \in 1..Len(stack) - 1 : stack[i].key # key
               PROVE  UsesLoaded(key, Len(Uses(key)))
    BY <1>1, <1>2, <1>3 DEF ReturnedOK, UsesLoaded
  <2>1. CASE key = Top.key
    BY <1>6, <2>1
  <2>2. CASE key # Top.key
    <3>1. \A i \in DOMAIN stack : i \in 1..Len(stack) - 1 \/ i = Len(stack)
      BY <1>1
    <3>2. \A i \in DOMAIN stack : stack[i].key # key
      BY <2>2, <3>1 DEF Top
    <3> QED
      BY <3>2 DEF IInv, ReturnedOK
  <2> QED
    BY <2>1, <2>2
<1>8. HistoryOK'
  <2>1. loaded # <<>>
    BY <1>1 DEF IInv, HistoryOK
  <2>2. outcome' = "done" => stack' = <<>>
    BY <1>1, <1>3 DEF Return
  <2> QED
    BY <1>1, <2>1, <2>2 DEF IInv, HistoryOK
<1>9. LoadedOnce' /\ Needed'
  <2>1. LoadedOnce'
    BY <1>1 DEF IInv, LoadedOnce
  <2>2. Needed'
    BY <1>1, SameTree DEF IInv, Needed
  <2> QED
    BY <2>1, <2>2
<1> QED
  BY <1>4, <1>5, <1>7, <1>8, <1>9 DEF IInv

(* Every step keeps the invariant.                                         *)
LEMMA NextInvariant == IInv /\ [Next]_vars => IInv'
<1> SUFFICES ASSUME IInv, [Next]_vars PROVE IInv'
  OBVIOUS
<1>1. CASE UNCHANGED vars
  <2>1. UNCHANGED <<tree, importTable, stack, loaded, outcome>>
    BY <1>1 DEF vars
  <2>2. TypeOK' /\ StackOK' /\ ReturnedOK'
    BY <2>1, SameTree DEF IInv, TypeOK, StackOK, ReturnedOK, UsesLoaded
  <2>3. HistoryOK' /\ LoadedOnce' /\ Needed'
    BY <2>1, SameTree DEF IInv, HistoryOK, LoadedOnce, Needed
  <2> QED
    BY <2>2, <2>3 DEF IInv
<1> QED
  BY <1>1, AddRootCodeStep, NewUseStep, KnownUseStep, ReturnStep DEF Next

-----------------------------------------------------------------------------
(* The invariant holds of every source tree and at every step.             *)
THEOREM InvariantHolds == Spec => []IInv
BY InitInvariant, NextInvariant, PTL DEF Spec

(* The variables keep their types, and the table holds parsed files only.  *)
THEOREM TypeCorrect == Spec => []TypeOK
<1>1. IInv => TypeOK
  BY DEF IInv
<1> QED
  BY <1>1, InvariantHolds, PTL

(* No path is loaded twice, whatever cycles the imports form.              *)
THEOREM LoadsOnce == Spec => []LoadedOnce
<1>1. IInv => LoadedOnce
  BY DEF IInv
<1> QED
  BY <1>1, InvariantHolds, PTL

(* A successful load enters exactly the files the root needs.              *)
THEOREM LoadsTheUsed == Spec => []ExactlyTheUsed
<1>1. IInv => ExactlyTheUsed
  <2> SUFFICES ASSUME IInv PROVE ExactlyTheUsed
    OBVIOUS
  <2>1. ASSUME outcome = "done" PROVE RootKey \in importTable /\ Closed(importTable)
    <3>1. stack = <<>> /\ loaded # <<>>
      BY <2>1 DEF IInv, HistoryOK
    <3>2. RootKey \in importTable
      BY <2>1, <3>1 DEF IInv, HistoryOK
    <3>3. \A key \in importTable : UsesLoaded(key, Len(Uses(key)))
      BY <3>1 DEF IInv, ReturnedOK
    <3>4. \A key \in importTable : DOMAIN Uses(key) = 1..Len(Uses(key))
      BY DEF IInv, TypeOK
    <3> QED
      BY <3>2, <3>3, <3>4 DEF Closed, UsesLoaded
  <2> QED
    BY <2>1 DEF IInv, Needed, ExactlyTheUsed
<1> QED
  BY <1>1, InvariantHolds, PTL
=============================================================================
