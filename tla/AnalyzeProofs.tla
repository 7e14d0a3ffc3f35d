---------------------------- MODULE AnalyzeProofs ----------------------------
(***************************************************************************)
(* Proofs that the tables of the analysis fit together and that what code  *)
(* generation takes from them is right, for all programs and settings and  *)
(* whatever the analysis of bodies finds.                                  *)
(***************************************************************************)
EXTENDS Analyze, SequenceTheorems, TLAPS

-----------------------------------------------------------------------------
(* The invariant.                                                          *)

(* An entry that no extern block made belongs to a definition that gets    *)
(* code, and every such definition has its entry unless a block took it.   *)
Registered ==
  /\ fnDefs \in Seq(Import \X Nat)
  /\ \A id \in ToSet(fnDefs) :
       /\ DeclarationOf(id).name \in DOMAIN fnTable
       /\ \/ fnTable[DeclarationOf(id).name].extern
          \/ fnTable[DeclarationOf(id).name].decl = id
  /\ \A n \in DOMAIN fnTable :
       \/ /\ fnTable[n].extern
          /\ DeclarationOf(fnTable[n].decl).kind = "Extern"
       \/ /\ ~fnTable[n].extern
          /\ fnTable[n].decl \in ToSet(fnDefs)

(* The analysis never gets past an extern block.                           *)
NoExternBehind ==
  \A id \in Declared : DeclarationOf(id).kind = "Extern" =>
    /\ phase # "select"
    /\ id[1] = Current
    /\ phase = "analyze" => id[2] >= at

(* An import that was finished without an error knew what is exported.     *)
OutKnown ==
  /\ errors = {}
  /\ visited # <<>>
  /\ phase = "select" \/ Len(visited) > 1
  => out[1] /\ out[2] # "unknown"

Ended == outcome = "done" => phase = "select" /\ ToSet(visited) = DOMAIN program

IInv == /\ program \in Programs
        /\ visited \in Seq(Import)
        /\ TypeOK
        /\ DefinedOnce
        /\ Registered
        /\ NoExternBehind
        /\ OutKnown
        /\ Ended

-----------------------------------------------------------------------------
(* Initially.                                                              *)

(* Nothing is visited, declared or stored.                                 *)
LEMMA InitInvariant == Init => IInv
<1> SUFFICES ASSUME Init PROVE IInv
  OBVIOUS
<1>1. ToSet(visited) = {} /\ ToSet(fnDefs) = {}
  BY DEF Init, ToSet
<1>2. Declared = {}
  BY <1>1 DEF Declared
<1>3. Seen = {} /\ FnDefsOf(Declared) = {} /\ FnDefsOf(Seen) = {}
  BY <1>2 DEF Seen, FnDefsOf
<1>4. TypeOK
  BY <1>1, <1>2, <1>3, ProgramsAssumption, SettingsAssumption DEF Init, TypeOK
<1>5. DefinedOnce
  <2>1. \A i \in DOMAIN fnDefs : FALSE
    BY DEF Init
  <2>2. skip = {}
    BY DEF Init
  <2> QED
    BY <2>1, <2>2, <1>1, <1>3 DEF DefinedOnce
<1>6. Registered
  BY <1>1 DEF Init, Registered
<1>7. NoExternBehind /\ OutKnown /\ Ended
  BY <1>2 DEF Init, NoExternBehind, OutKnown, Ended
<1> QED
  BY <1>4, <1>5, <1>6, <1>7 DEF Init, IInv

-----------------------------------------------------------------------------
(* What is declared and what is seen.                                      *)

(* The declarations are the positions in the visited imports.              *)
LEMMA DeclaredIs ==
  \A id : id \in Declared <=>
            \E m \in ToSet(visited) : \E i \in DOMAIN program[m] : id = <<m, i>>
BY DEF Declared

(* A visited import has a list of declarations.                            *)
LEMMA Lists ==
  ASSUME program \in Programs, NEW m \in DOMAIN program
  PROVE  /\ program[m] \in Seq(ToSet(program[m]))
         /\ m \in Import
         /\ DOMAIN program[m] = 1..Len(program[m])
         /\ Len(program[m]) \in Nat
<1>1. program[m] \in Seq(ToSet(program[m])) /\ m \in Import
  BY ProgramsAssumption
<1> DEFINE S == ToSet(program[m])
           s == program[m]
<1> HIDE DEF S
<1>2. s \in Seq(S)
  BY <1>1 DEF S
<1> HIDE DEF s
<1>3. DOMAIN s = 1..Len(s) /\ Len(s) \in Nat
  BY <1>2
<1> QED
  BY <1>1, <1>3 DEF s

(* The declaration a pass stands at.                                       *)
LEMMA Here ==
  ASSUME IInv, NEW step, step # "select", NEW kind, In(step, kind)
  PROVE  /\ Current \in ToSet(visited)
         /\ Current \in DOMAIN program
         /\ at \in 1..Len(Declarations)
         /\ DOMAIN Declarations = 1..Len(Declarations)
         /\ Len(Declarations) \in Nat
         /\ Id \in Declared
         /\ Id \in Import \X Nat
         /\ DeclarationOf(Id) = Declaration
<1>1. /\ visited \in Seq(Import) /\ visited # <<>>
      /\ at \in 1..Len(Declarations) + 1 /\ at <= Len(Declarations)
  BY DEF IInv, TypeOK, In
<1>2. Current \in ToSet(visited)
  BY <1>1 DEF Current, Last, ToSet
<1>3. Current \in DOMAIN program
  BY <1>2 DEF IInv, TypeOK
<1>4. /\ DOMAIN Declarations = 1..Len(Declarations) /\ Len(Declarations) \in Nat
      /\ Current \in Import
  BY <1>3, Lists DEF Declarations, IInv
<1>5. at \in 1..Len(Declarations) /\ at \in DOMAIN program[Current] /\ at \in Nat
  BY <1>1, <1>4 DEF Declarations
<1>6. Id \in Declared
  BY <1>2, <1>5, DeclaredIs DEF Id
<1> QED
  BY <1>2, <1>3, <1>4, <1>5, <1>6 DEF Id, DeclarationOf, Declaration, Declarations

(* As long as no import is begun, what is declared stays.                  *)
LEMMA DeclaredStays ==
  ASSUME UNCHANGED <<inputs, visited>>
  PROVE  /\ Declared' = Declared
         /\ Current' = Current
         /\ Declarations' = Declarations
         /\ \A id : DeclarationOf(id)' = DeclarationOf(id)
         /\ \A ids : FnDefsOf(ids)' = FnDefsOf(ids)
<1>1. program' = program /\ visited' = visited
  BY DEF inputs
<1> QED
  BY <1>1 DEF Declared, Current, Declarations, DeclarationOf, FnDefsOf

(* The preview sees one declaration after the other.                       *)
LEMMA PreviewSees ==
  ASSUME IInv, NEW kind, In("preview", kind), Advance
  PROVE  /\ Seen' = Seen \cup {Id}
         /\ Id \notin Seen
         /\ at' \in 1..Len(Declarations) + 1
<1>1. /\ Id \in Declared /\ at \in 1..Len(Declarations) /\ Len(Declarations) \in Nat
      /\ Id = <<Current, at>>
  BY Here DEF Id
<1>2. Declared' = Declared /\ Current' = Current /\ at' = at + 1
      /\ phase = "preview" /\ phase' = "preview"
  BY DeclaredStays DEF Advance, In
<1>3. ASSUME NEW id \in Declared, id[1] = Current
      PROVE  id[2] < at + 1 <=> id[2] < at \/ id = Id
  <2>1. PICK m \in ToSet(visited) : \E i \in DOMAIN program[m] : id = <<m, i>>
    BY <1>3, DeclaredIs
  <2>2. PICK i \in DOMAIN program[m] : id = <<m, i>>
    BY <2>1
  <2>3. i \in Nat /\ m = Current
    BY <2>1, <2>2, <1>3, Lists DEF IInv, TypeOK
  <2> QED
    BY <1>1, <2>2, <2>3
<1>4. Seen = {id \in Declared : id[1] # Current \/ id[2] < at}
  BY <1>2 DEF Seen
<1>5. Seen' = {id \in Declared : id[1] # Current \/ id[2] < at + 1}
  BY <1>2 DEF Seen
<1>6. Id[1] = Current /\ Id[2] = at
  BY DEF Id
<1>7. Seen' = Seen \cup {Id}
  BY <1>1, <1>3, <1>4, <1>5, <1>6
<1>8. Id \notin Seen
  BY <1>1, <1>4, <1>6
<1> QED
  BY <1>1, <1>2, <1>7, <1>8

(* Outside of the preview everything declared was seen.                    *)
LEMMA AllSeen == phase # "preview" => Seen = Declared
BY DEF Seen

-----------------------------------------------------------------------------
(* The imports, one after the other.                                       *)

(* The next import is new: nothing of it has been seen.                    *)
LEMMA NextImportKeeps == ASSUME IInv, NextImport PROVE IInv'
<1>1. PICK m \in DOMAIN program : m \notin ToSet(visited) /\ visited' = Append(visited, m)
  BY DEF NextImport
<1>2. m \in Import /\ visited \in Seq(Import)
  BY <1>1, Lists DEF IInv
<1> DEFINE n == Len(visited)
<1>3. /\ visited' \in Seq(Import) /\ visited' # <<>>
      /\ Len(visited') = n + 1 /\ n \in Nat
      /\ \A i \in 1..n : visited'[i] = visited[i]
      /\ visited'[n + 1] = m
  BY <1>1, <1>2, AppendProperties
<1>4. Current' = m
  BY <1>3 DEF Current, Last
<1>5. ToSet(visited') = ToSet(visited) \cup {m}
  <2>1. DOMAIN visited = 1..n /\ DOMAIN visited' = 1..n+1
    BY <1>2, <1>3
  <2> QED
    BY <2>1, <1>3 DEF ToSet
<1>6. UNCHANGED <<inputs, tables, errors, outcome>> /\ phase = "select"
      /\ phase' = "preview" /\ at' = 1 /\ outcome = "running"
  BY DEF NextImport
<1>7. program' = program
  BY <1>6 DEF inputs
<1>8. Declared' = Declared \cup ({m} \X DOMAIN program[m])
  <2>1. \A id : id \in Declared' <=>
              \E k \in ToSet(visited') : \E i \in DOMAIN program[k] : id = <<k, i>>
    BY <1>7 DEF Declared
  <2> QED
    BY <2>1, <1>5, DeclaredIs
<1>9. \A id \in Declared : id[1] \in ToSet(visited)
  BY DeclaredIs
<1>10. \A i \in DOMAIN program[m] : ~(i < 1)
  BY <1>1, Lists DEF IInv
<1>11. Seen' = Declared
  <2>1. Seen' = {id \in Declared' : id[1] # m \/ id[2] < 1}
    BY <1>4, <1>6 DEF Seen
  <2>2. \A id \in Declared : id[1] # m
    BY <1>1, <1>9
  <2>3. \A id \in {m} \X DOMAIN program[m] : id[1] = m /\ ~(id[2] < 1)
    BY <1>10
  <2> QED
    BY <2>1, <2>2, <2>3, <1>8
<1>12. Seen = Declared
  BY <1>6, AllSeen
<1>13. /\ \A id : DeclarationOf(id)' = DeclarationOf(id)
       /\ \A ids : FnDefsOf(ids)' = FnDefsOf(ids)
  BY <1>7 DEF DeclarationOf, FnDefsOf
<1>14. TypeOK'
  <2>1. Len(Declarations)' \in Nat
    BY <1>1, <1>4, <1>7, Lists DEF Declarations, IInv
  <2>2. at' \in 1..Len(Declarations)' + 1
    BY <2>1, <1>6
  <2>3. FnDefsOf(Declared) \subseteq FnDefsOf(Declared')
    BY <1>8 DEF FnDefsOf
  <2>4. ToSet(visited') \subseteq DOMAIN program
    BY <1>1, <1>5 DEF IInv, TypeOK
  <2>5. FnDefsOf(Declared') = FnDefsOf(Declared)'
    BY <1>7 DEF FnDefsOf, DeclarationOf
  <2> QED
    BY <2>2, <2>3, <2>4, <2>5, <1>3, <1>6, <1>7, <1>8, <1>13 DEF TypeOK, IInv, tables
<1>15. DefinedOnce'
  <2>1. FnDefsOf(Seen)' = FnDefsOf(Seen)
    BY <1>7, <1>11, <1>12 DEF FnDefsOf, DeclarationOf
  <2> QED
    BY <2>1, <1>6, <1>13 DEF DefinedOnce, IInv, tables
<1>16. Registered'
  BY <1>6, <1>13 DEF Registered, IInv, tables
<1>17. NoExternBehind'
  <2>1. \A id \in Declared : DeclarationOf(id).kind # "Extern"
    BY <1>6 DEF NoExternBehind, IInv
  <2>2. \A id \in {m} \X DOMAIN program[m] : id[1] = m
    OBVIOUS
  <2> QED
    BY <2>1, <2>2, <1>4, <1>6, <1>8, <1>13 DEF NoExternBehind
<1>18. OutKnown'
  <2>1. Len(visited') > 1 => visited # <<>>
    BY <1>3, <1>2
  <2> QED
    BY <2>1, <1>6 DEF OutKnown, IInv, tables
<1>19. Ended'
  BY <1>6 DEF Ended
<1> QED
  BY <1>3, <1>7, <1>14, <1>15, <1>16, <1>17, <1>18, <1>19 DEF IInv

(* The parts of the invariant that hold while neither the imports nor the  *)
(* tables change, and nothing is taken from the errors.                    *)
LEMMA TablesStay ==
  ASSUME IInv, UNCHANGED <<inputs, visited, tables>>
  PROVE  /\ program' \in Programs /\ visited' \in Seq(Import)
         /\ Registered'
         /\ Seen' = Seen /\ errors \subseteq errors' => DefinedOnce'
         /\ /\ phase' \in {"select", "preview", "analyze"}
            /\ phase' # "select" => visited # <<>> /\ at' \in 1..Len(Declarations) + 1
            /\ outcome' \in {"running", "done", "panic", "crash"}
            => TypeOK'
<1>1. /\ program' = program /\ visited' = visited
      /\ fnTable' = fnTable /\ fnDefs' = fnDefs /\ skip' = skip
      /\ implicitReturn' = implicitReturn /\ rootExport' = rootExport /\ out' = out
  BY DEF inputs, tables
<1>2. Registered'
  BY <1>1 DEF Registered, IInv, DeclarationOf
<1>3. ASSUME Seen' = Seen, errors \subseteq errors' PROVE DefinedOnce'
  <2>1. FnDefsOf(Seen)' = FnDefsOf(Seen)
    BY <1>1, <1>3 DEF FnDefsOf, DeclarationOf
  <2> QED
    BY <2>1, <1>1, <1>3 DEF DefinedOnce, IInv, DeclarationOf
<1>4. ASSUME /\ phase' \in {"select", "preview", "analyze"}
             /\ phase' # "select" => visited # <<>> /\ at' \in 1..Len(Declarations) + 1
             /\ outcome' \in {"running", "done", "panic", "crash"}
      PROVE  TypeOK'
  <2>1. /\ Declared' = Declared /\ FnDefsOf(Declared)' = FnDefsOf(Declared)
        /\ Declarations' = Declarations
    BY <1>1 DEF Declared, FnDefsOf, DeclarationOf, Declarations, Current
  <2> QED
    BY <2>1, <1>1, <1>4 DEF TypeOK, IInv, DeclarationOf
<1> QED
  BY <1>1, <1>2, <1>3, <1>4 DEF IInv

(* At the end every import was visited.                                    *)
LEMMA FinishKeeps == ASSUME IInv, Finish PROVE IInv'
<1>1. /\ UNCHANGED <<inputs, visited, phase, at, tables, errors>>
      /\ phase = "select" /\ ToSet(visited) = DOMAIN program /\ outcome' = "done"
  BY DEF Finish
<1>2. Seen' = Seen /\ Declared' = Declared /\ Current' = Current
      /\ \A id : DeclarationOf(id)' = DeclarationOf(id)
  BY <1>1, DeclaredStays DEF Seen
<1>3. NoExternBehind' /\ OutKnown' /\ Ended'
  BY <1>1, <1>2 DEF NoExternBehind, OutKnown, Ended, IInv, tables, inputs
<1> QED
  BY <1>1, <1>2, <1>3, TablesStay DEF IInv

(* When the preview ends, everything declared was seen.                    *)
LEMMA EndPreviewKeeps == ASSUME IInv, EndPreview PROVE IInv'
<1>1. /\ UNCHANGED <<inputs, visited, tables, errors, outcome>>
      /\ phase = "preview" /\ phase' = "analyze" /\ at' = 1
      /\ at > Len(Declarations) /\ visited # <<>> /\ at \in 1..Len(Declarations) + 1
      /\ outcome = "running"
  BY DEF EndPreview, IInv, TypeOK
<1>2. Declared' = Declared /\ Current' = Current
      /\ \A id : DeclarationOf(id)' = DeclarationOf(id)
  BY <1>1, DeclaredStays
<1>3. ASSUME NEW id \in Declared
      PROVE  /\ id[1] = Current => id[2] < at
             /\ id[2] >= 1
             /\ id[2] \in Nat
  <2>1. PICK m \in ToSet(visited) : \E i \in DOMAIN program[m] : id = <<m, i>>
    BY <1>3, DeclaredIs
  <2>2. PICK i \in DOMAIN program[m] : id = <<m, i>>
    BY <2>1
  <2>3. i \in 1..Len(program[m]) /\ Len(program[m]) \in Nat
    BY <2>1, <2>2, Lists DEF IInv, TypeOK
  <2>4. i \in Nat /\ i >= 1
    BY <2>3
  <2>5. m = Current => i < at
    <3> SUFFICES ASSUME m = Current PROVE i < at
      OBVIOUS
    <3>1. i \in 1..Len(Declarations)
      BY <2>3 DEF Declarations
    <3> QED
      BY <3>1, <2>3, <1>1 DEF Declarations
  <2> QED
    BY <2>2, <2>4, <2>5
<1>4. Seen = Declared /\ Seen' = Declared
  BY <1>1, <1>2, <1>3 DEF Seen
<1>5. Len(Declarations) \in Nat /\ Current \in DOMAIN program
  <2>1. Current \in ToSet(visited)
    BY <1>1 DEF Current, Last, ToSet, IInv
  <2> QED
    BY <2>1, Lists DEF IInv, TypeOK, Declarations
<1>6. NoExternBehind'
  BY <1>1, <1>2, <1>3 DEF NoExternBehind, IInv
<1>7. OutKnown'
  BY <1>1 DEF OutKnown, IInv, tables
<1>8. Ended'
  BY <1>1 DEF Ended
<1>9. TypeOK'
  BY <1>1, <1>5, TablesStay
<1> QED
  BY <1>1, <1>4, <1>6, <1>7, <1>8, <1>9, TablesStay DEF IInv

(* An import that ends without an error knows what is exported.            *)
LEMMA EndImportKeeps == ASSUME IInv, EndImport PROVE IInv'
<1>1. /\ UNCHANGED <<inputs, visited, at, tables, outcome>>
      /\ phase = "analyze" /\ phase' = "select"
      /\ at > Len(Declarations) /\ visited # <<>> /\ at \in 1..Len(Declarations) + 1
      /\ errors' = errors \cup ExportErrors
      /\ outcome = "running"
  BY DEF EndImport, IInv, TypeOK
<1>2. Declared' = Declared /\ Current' = Current
      /\ \A id : DeclarationOf(id)' = DeclarationOf(id)
  BY <1>1, DeclaredStays
<1>3. Seen' = Seen
  BY <1>1, <1>2 DEF Seen
<1>4. \A id \in Declared : DeclarationOf(id).kind # "Extern"
  <2> SUFFICES ASSUME NEW id \in Declared, DeclarationOf(id).kind = "Extern" PROVE FALSE
    OBVIOUS
  <2>1. id[1] = Current /\ id[2] >= at
    BY <1>1 DEF NoExternBehind, IInv
  <2>2. PICK m \in ToSet(visited) : \E i \in DOMAIN program[m] : id = <<m, i>>
    BY DeclaredIs
  <2>3. PICK i \in DOMAIN program[m] : id = <<m, i>>
    BY <2>2
  <2>4. i \in 1..Len(Declarations) /\ Len(Declarations) \in Nat
    BY <2>1, <2>2, <2>3, Lists DEF IInv, TypeOK, Declarations
  <2> QED
    BY <2>1, <2>3, <2>4, <1>1
<1>5. NoExternBehind'
  BY <1>2, <1>4 DEF NoExternBehind
<1>6. OutKnown'
  <2>1. errors' = {} => out[1] /\ out[2] # "unknown"
    BY <1>1 DEF ExportErrors
  <2> QED
    BY <2>1, <1>1 DEF OutKnown, tables
<1>7. Ended'
  BY <1>1 DEF Ended
<1>8. TypeOK'
  BY <1>1, TablesStay
<1> QED
  BY <1>1, <1>3, <1>5, <1>6, <1>7, <1>8, TablesStay DEF IInv

-----------------------------------------------------------------------------
(* The steps of the preview.                                               *)

(* "use" has nothing to preview.                                           *)
LEMMA PreviewUseKeeps == ASSUME IInv, PreviewUse PROVE IInv'
<1>1. /\ In("preview", "Use") /\ Advance /\ UNCHANGED <<inputs, visited, phase>>
      /\ UNCHANGED <<tables, errors, outcome>>
      /\ phase = "preview" /\ outcome = "running" /\ Declaration.kind = "Use"
  BY DEF PreviewUse, In, Advance
<1>2. /\ Declared' = Declared /\ Current' = Current /\ Declarations' = Declarations
      /\ \A id : DeclarationOf(id)' = DeclarationOf(id)
      /\ \A ids : FnDefsOf(ids)' = FnDefsOf(ids)
  BY <1>1, DeclaredStays
<1>3. /\ Seen' = Seen \cup {Id}
      /\ at' \in 1..Len(Declarations) + 1
      /\ DeclarationOf(Id) = Declaration
  BY <1>1, PreviewSees, Here
<1>4. FnDefsOf(Seen)' = FnDefsOf(Seen)
  <2>1. FnDefsOf(Seen)' = FnDefsOf(Seen')
    BY <1>2 DEF FnDefsOf
  <2> QED
    BY <2>1, <1>1, <1>3 DEF FnDefsOf
<1>5. DefinedOnce'
  BY <1>1, <1>2, <1>4 DEF DefinedOnce, IInv, tables
<1>6. NoExternBehind'
  BY <1>1, <1>2 DEF NoExternBehind, IInv
<1>7. OutKnown' /\ Ended'
  BY <1>1 DEF OutKnown, Ended, IInv, tables
<1>8. TypeOK'
  BY <1>1, <1>3, TablesStay DEF IInv, TypeOK
<1> QED
  BY <1>1, <1>5, <1>6, <1>7, <1>8, TablesStay DEF IInv

(* The functions of an extern block take their names' entries.             *)
LEMMA PreviewExternKeeps == ASSUME IInv, PreviewExtern PROVE IInv'
<1> DEFINE names == {Declaration.fns[i].name : i \in DOMAIN Declaration.fns}
<1>1. /\ In("preview", "Extern") /\ Advance
      /\ UNCHANGED <<inputs, visited, phase>>
      /\ UNCHANGED <<fnDefs, skip, implicitReturn, rootExport, out, outcome>>
      /\ errors \subseteq errors'
      /\ phase = "preview" /\ outcome = "running" /\ Declaration.kind = "Extern"
  BY DEF PreviewExtern, In, Advance
<1>2. /\ DOMAIN fnTable' = DOMAIN fnTable \cup names
      /\ \A n \in names : fnTable'[n].extern /\ fnTable'[n].decl = Id
      /\ \A n \in DOMAIN fnTable \ names : fnTable'[n] = fnTable[n]
  <2> DEFINE fns == Declaration.fns
             named(n) == {i \in DOMAIN fns : fns[i].name = n}
             latest(n) == CHOOSE i \in named(n) : \A j \in named(n) : j <= i
             entry(n) == Entry(fns[latest(n)], Id, TRUE)
  <2>1. fnTable' = [n \in DOMAIN fnTable \cup names |->
                      IF n \in names THEN entry(n) ELSE fnTable[n]]
    BY DEF PreviewExtern
  <2>2. \A n : entry(n).extern /\ entry(n).decl = Id
    BY DEF Entry
  <2> HIDE DEF entry, names
  <2> QED
    BY <2>1, <2>2
<1> HIDE DEF names
<1>3. /\ Declared' = Declared /\ Current' = Current /\ Declarations' = Declarations
      /\ \A id : DeclarationOf(id)' = DeclarationOf(id)
      /\ \A ids : FnDefsOf(ids)' = FnDefsOf(ids)
  BY <1>1, DeclaredStays
<1>4. /\ Seen' = Seen \cup {Id} /\ Id \in Declared
      /\ at' \in 1..Len(Declarations) + 1
      /\ DeclarationOf(Id) = Declaration
  BY <1>1, PreviewSees, Here
<1>5. FnDefsOf(Seen)' = FnDefsOf(Seen)
  <2>1. FnDefsOf(Seen)' = FnDefsOf(Seen')
    BY <1>3 DEF FnDefsOf
  <2> QED
    BY <2>1, <1>1, <1>4 DEF FnDefsOf
<1>6. DefinedOnce'
  BY <1>1, <1>3, <1>5 DEF DefinedOnce, IInv
<1>7. Registered'
  <2>1. ASSUME NEW id \in ToSet(fnDefs)
        PROVE  /\ DeclarationOf(id).name \in DOMAIN fnTable'
               /\ \/ fnTable'[DeclarationOf(id).name].extern
                  \/ fnTable'[DeclarationOf(id).name].decl = id
    BY <2>1, <1>2 DEF Registered, IInv
  <2>2. ASSUME NEW n \in DOMAIN fnTable'
        PROVE  \/ /\ fnTable'[n].extern
                  /\ DeclarationOf(fnTable'[n].decl).kind = "Extern"
               \/ /\ ~fnTable'[n].extern
                  /\ fnTable'[n].decl \in ToSet(fnDefs)
    <3>1. CASE n \in names
      BY <3>1, <1>1, <1>2, <1>4
    <3>2. CASE n \notin names
      BY <3>2, <2>2, <1>2 DEF Registered, IInv
    <3> QED
      BY <3>1, <3>2
  <2> QED
    BY <2>1, <2>2, <1>1, <1>3 DEF Registered, IInv
<1>8. NoExternBehind'
  BY <1>1, <1>3 DEF NoExternBehind, IInv
<1>9. OutKnown' /\ Ended'
  BY <1>1 DEF OutKnown, Ended, IInv
<1>10. TypeOK'
  <2>1. \A n \in DOMAIN fnTable' : fnTable'[n].decl \in Declared
    BY <1>2, <1>4 DEF TypeOK, IInv
  <2> QED
    BY <2>1, <1>1, <1>3, <1>4 DEF TypeOK, IInv, inputs
<1> QED
  BY <1>1, <1>6, <1>7, <1>8, <1>9, <1>10 DEF IInv, inputs

(* A second definition is skipped and reported.                            *)
LEMMA RedefineFnKeeps == ASSUME IInv, RedefineFn PROVE IInv'
<1>1. /\ In("preview", "FnDef") /\ Advance
      /\ UNCHANGED <<inputs, visited, phase>>
      /\ UNCHANGED <<fnTable, fnDefs, implicitReturn, linkTable, rootExport, out, outcome>>
      /\ errors \subseteq errors' /\ errors' # {}
      /\ skip' = skip \cup {Id}
      /\ phase = "preview" /\ outcome = "running" /\ Declaration.kind = "FnDef"
  BY DEF RedefineFn, In, Advance
<1>2. /\ Declared' = Declared /\ Current' = Current /\ Declarations' = Declarations
      /\ \A id : DeclarationOf(id)' = DeclarationOf(id)
      /\ \A ids : FnDefsOf(ids)' = FnDefsOf(ids)
  BY <1>1, DeclaredStays
<1>3. /\ Seen' = Seen \cup {Id} /\ Id \notin Seen /\ Id \in Declared
      /\ at' \in 1..Len(Declarations) + 1
      /\ DeclarationOf(Id) = Declaration
  BY <1>1, PreviewSees, Here
<1>4. FnDefsOf(Seen)' = FnDefsOf(Seen) \cup {Id}
  <2>1. FnDefsOf(Seen)' = FnDefsOf(Seen')
    BY <1>2 DEF FnDefsOf
  <2> QED
    BY <2>1, <1>1, <1>3 DEF FnDefsOf
<1>5. Id \notin ToSet(fnDefs)
  BY <1>3 DEF DefinedOnce, IInv, FnDefsOf
<1>6. DefinedOnce'
  BY <1>1, <1>2, <1>4, <1>5 DEF DefinedOnce, IInv
<1>7. Registered'
  BY <1>1, <1>2 DEF Registered, IInv
<1>8. NoExternBehind'
  BY <1>1, <1>2 DEF NoExternBehind, IInv
<1>9. OutKnown' /\ Ended'
  BY <1>1 DEF OutKnown, Ended, IInv
<1>10. TypeOK'
  <2>1. Id \in FnDefsOf(Declared)
    BY <1>1, <1>3 DEF FnDefsOf
  <2>2. FnDefsOf(Declared)' = FnDefsOf(Declared)
    BY <1>2 DEF FnDefsOf
  <2> QED
    BY <2>1, <2>2, <1>1, <1>2, <1>3 DEF TypeOK, IInv, inputs
<1> QED
  BY <1>1, <1>6, <1>7, <1>8, <1>9, <1>10 DEF IInv, inputs

(* A first definition is entered under a name that nobody has.             *)
LEMMA PreviewFnDefKeeps == ASSUME IInv, PreviewFnDef PROVE IInv'
<1> DEFINE name == Declaration.name
<1>1. /\ In("preview", "FnDef") /\ Advance
      /\ UNCHANGED <<inputs, visited, phase>>
      /\ UNCHANGED <<skip, implicitReturn, linkTable, rootExport, out, outcome>>
      /\ errors \subseteq errors'
      /\ fnDefs' = Append(fnDefs, Id)
      /\ name \notin DOMAIN fnTable
      /\ phase = "preview" /\ outcome = "running" /\ Declaration.kind = "FnDef"
  BY DEF PreviewFnDef, In, Advance, Defined
<1>2. /\ DOMAIN fnTable' = DOMAIN fnTable \cup {name}
      /\ ~fnTable'[name].extern /\ fnTable'[name].decl = Id
      /\ \A n \in DOMAIN fnTable : fnTable'[n] = fnTable[n]
  <2>1. fnTable' = Put(name, Entry(Declaration, Id, FALSE))
    BY DEF PreviewFnDef
  <2>2. ~Entry(Declaration, Id, FALSE).extern /\ Entry(Declaration, Id, FALSE).decl = Id
    BY DEF Entry
  <2> HIDE DEF name
  <2> QED
    BY <2>1, <2>2, <1>1 DEF Put
<1>3. /\ Declared' = Declared /\ Current' = Current /\ Declarations' = Declarations
      /\ \A id : DeclarationOf(id)' = DeclarationOf(id)
      /\ \A ids : FnDefsOf(ids)' = FnDefsOf(ids)
  BY <1>1, DeclaredStays
<1>4. /\ Seen' = Seen \cup {Id} /\ Id \notin Seen /\ Id \in Declared
      /\ at' \in 1..Len(Declarations) + 1
      /\ DeclarationOf(Id) = Declaration
      /\ Id \in Import \X Nat
  BY <1>1, PreviewSees, Here
<1>5. DeclarationOf(Id).name = name
  BY <1>4
<1> HIDE DEF name
<1> DEFINE n == Len(fnDefs)
<1>6. /\ fnDefs' \in Seq(Import \X Nat) /\ n \in Nat
      /\ DOMAIN fnDefs = 1..n /\ DOMAIN fnDefs' = 1..n+1
      /\ \A i \in 1..n : fnDefs'[i] = fnDefs[i]
      /\ fnDefs'[n + 1] = Id
  <2>1. fnDefs \in Seq(Import \X Nat)
    BY DEF Registered, IInv
  <2> QED
    BY <2>1, <1>1, <1>4, AppendProperties
<1> HIDE DEF n
<1>7. ToSet(fnDefs') = ToSet(fnDefs) \cup {Id}
  <2> DEFINE id == Id
             s == fnDefs
             t == fnDefs'
  <2>1. /\ n \in Nat /\ DOMAIN s = 1..n /\ DOMAIN t = 1..n+1
        /\ \A i \in 1..n : t[i] = s[i]
        /\ t[n + 1] = id
    BY <1>6
  <2> HIDE DEF id, s, t
  <2>2. ToSet(t) = ToSet(s) \cup {id}
    BY <2>1 DEF ToSet
  <2> QED
    BY <2>2 DEF id, s, t
<1>8. FnDefsOf(Seen)' = FnDefsOf(Seen) \cup {Id}
  <2>1. FnDefsOf(Seen)' = FnDefsOf(Seen')
    BY <1>3 DEF FnDefsOf
  <2> QED
    BY <2>1, <1>1, <1>4 DEF FnDefsOf
<1>9. Id \notin skip
  BY <1>4 DEF DefinedOnce, IInv, FnDefsOf
<1>10. DefinedOnce'
  <2>1. ASSUME NEW i \in 1..n PROVE DeclarationOf(fnDefs[i]).name # name
    <3>1. fnDefs[i] \in ToSet(fnDefs)
      BY <1>6 DEF ToSet
    <3> QED
      BY <3>1, <1>1 DEF Registered, IInv, name
  <2>2. ASSUME NEW i \in 1..n+1, NEW j \in 1..n+1,
               DeclarationOf(fnDefs'[i]).name = DeclarationOf(fnDefs'[j]).name
        PROVE  i = j
    <3>1. CASE i \in 1..n /\ j \in 1..n
      BY <3>1, <2>2, <1>6 DEF DefinedOnce, IInv
    <3>2. CASE i \in 1..n /\ j = n + 1
      BY <3>2, <2>1, <2>2, <1>5, <1>6
    <3>3. CASE i = n + 1 /\ j \in 1..n
      BY <3>3, <2>1, <2>2, <1>5, <1>6
    <3>4. CASE i = n + 1 /\ j = n + 1
      BY <3>4
    <3> QED
      BY <3>1, <3>2, <3>3, <3>4, <1>6
  <2>3. ToSet(fnDefs') \cap skip = {}
    BY <1>7, <1>9 DEF DefinedOnce, IInv
  <2>4. ToSet(fnDefs') \cup skip = FnDefsOf(Seen)'
    BY <1>7, <1>8 DEF DefinedOnce, IInv
  <2> QED
    BY <2>2, <2>3, <2>4, <1>1, <1>3, <1>6 DEF DefinedOnce, IInv
<1>11. Registered'
  <2>1. ASSUME NEW id \in ToSet(fnDefs')
        PROVE  /\ DeclarationOf(id).name \in DOMAIN fnTable'
               /\ \/ fnTable'[DeclarationOf(id).name].extern
                  \/ fnTable'[DeclarationOf(id).name].decl = id
    BY <1>2, <1>5, <1>7 DEF Registered, IInv
  <2>2. ASSUME NEW k \in DOMAIN fnTable'
        PROVE  \/ /\ fnTable'[k].extern
                  /\ DeclarationOf(fnTable'[k].decl).kind = "Extern"
               \/ /\ ~fnTable'[k].extern
                  /\ fnTable'[k].decl \in ToSet(fnDefs')
    <3>1. CASE k = name
      BY <3>1, <1>2, <1>7
    <3>2. CASE k # name
      BY <3>2, <1>2, <1>7 DEF Registered, IInv
    <3> QED
      BY <3>1, <3>2
  <2> QED
    BY <2>1, <2>2, <1>3, <1>6 DEF Registered
<1>12. NoExternBehind'
  BY <1>1, <1>3 DEF NoExternBehind, IInv
<1>13. OutKnown' /\ Ended'
  BY <1>1 DEF OutKnown, Ended, IInv
<1>14. TypeOK'
  <2>1. \A k \in DOMAIN fnTable' : fnTable'[k].decl \in Declared
    BY <1>2, <1>4 DEF TypeOK, IInv
  <2>2. Id \in FnDefsOf(Declared)
    BY <1>1, <1>4 DEF FnDefsOf
  <2>3. FnDefsOf(Declared)' = FnDefsOf(Declared)
    BY <1>3 DEF FnDefsOf
  <2> QED
    BY <2>1, <2>2, <2>3, <1>1, <1>3, <1>4, <1>7 DEF TypeOK, IInv, inputs
<1> QED
  BY <1>1, <1>6, <1>10, <1>11, <1>12, <1>13, <1>14 DEF IInv, inputs

(* A root export decides what is exported, unless one was there before.    *)
LEMMA PreviewRootExportKeeps == ASSUME IInv, PreviewRootExport PROVE IInv'
<1>1. /\ In("preview", "RootExport") /\ Advance
      /\ UNCHANGED <<inputs, visited, phase>>
      /\ UNCHANGED <<fnTable, fnDefs, skip, implicitReturn, linkTable, outcome>>
      /\ errors \subseteq errors'
      /\ phase = "preview" /\ outcome = "running" /\ Declaration.kind = "RootExport"
  BY DEF PreviewRootExport, In, Advance
<1>2. /\ rootExport' \in {rootExport, Id}
      /\ out' = out \/ \E type \in OutType : out' = OutAfter(type)
  <2>1. \A t \in ExportType : t[2] \in OutType
    BY DEF ExportType, OutType
  <2>2. CASE UNCHANGED <<rootExport, out>>
    BY <2>2
  <2>3. CASE rootExport' = Id /\ \E t \in ExportType : out' = OutAfter(t[2])
    BY <2>1, <2>3
  <2>4. CASE rootExport' = Id /\ \E type \in OutType : out' = OutAfter(type)
    BY <2>4
  <2> QED
    BY <2>2, <2>3, <2>4 DEF PreviewRootExport
<1>3. /\ Declared' = Declared /\ Current' = Current /\ Declarations' = Declarations
      /\ \A id : DeclarationOf(id)' = DeclarationOf(id)
      /\ \A ids : FnDefsOf(ids)' = FnDefsOf(ids)
  BY <1>1, DeclaredStays
<1>4. /\ Seen' = Seen \cup {Id}
      /\ at' \in 1..Len(Declarations) + 1
      /\ DeclarationOf(Id) = Declaration
  BY <1>1, PreviewSees, Here
<1>5. FnDefsOf(Seen)' = FnDefsOf(Seen)
  <2>1. FnDefsOf(Seen)' = FnDefsOf(Seen')
    BY <1>3 DEF FnDefsOf
  <2> QED
    BY <2>1, <1>1, <1>4 DEF FnDefsOf
<1>6. DefinedOnce'
  BY <1>1, <1>3, <1>5 DEF DefinedOnce, IInv
<1>7. Registered'
  BY <1>1, <1>3 DEF Registered, IInv
<1>8. NoExternBehind'
  BY <1>1, <1>3 DEF NoExternBehind, IInv
<1>9. /\ out' \in BOOLEAN \X OutType
      /\ out[1] /\ out[2] # "unknown" => out'[1] /\ out'[2] # "unknown"
  <2>1. out \in BOOLEAN \X OutType
    BY DEF IInv, TypeOK
  <2>2. out[2] \in OutType
    BY <2>1
  <2>3. CASE out' = out
    BY <2>1, <2>3
  <2>4. ASSUME NEW type \in OutType, out' = OutAfter(type)
        PROVE  /\ out' \in BOOLEAN \X OutType
               /\ out'[1]
               /\ out[2] # "unknown" => out'[2] = out[2]
    BY <2>2, <2>4 DEF OutAfter
  <2> QED
    BY <1>2, <2>3, <2>4
<1>10. OutKnown' /\ Ended'
  BY <1>1, <1>9 DEF OutKnown, Ended, IInv
<1>11. TypeOK'
  BY <1>1, <1>2, <1>3, <1>4, <1>9 DEF TypeOK, IInv, inputs
<1> QED
  BY <1>1, <1>6, <1>7, <1>8, <1>10, <1>11 DEF IInv, inputs

(* A compiler that stopped leaves everything as it was.                    *)
LEMMA StopKeeps == ASSUME IInv, Stop("crash") PROVE IInv'
<1>1. /\ UNCHANGED <<inputs, visited, phase, at, tables, errors>>
      /\ outcome' = "crash"
  BY DEF Stop
<1>2. /\ Declared' = Declared /\ Current' = Current /\ Declarations' = Declarations
      /\ \A id : DeclarationOf(id)' = DeclarationOf(id)
      /\ Seen' = Seen
  BY <1>1, DeclaredStays DEF Seen
<1>3. NoExternBehind' /\ OutKnown' /\ Ended'
  BY <1>1, <1>2 DEF NoExternBehind, OutKnown, Ended, IInv, tables
<1>4. TypeOK'
  BY <1>1, TablesStay DEF IInv, TypeOK
<1> QED
  BY <1>1, <1>2, <1>3, <1>4, TablesStay DEF IInv

(* Reading an unset parameter.                                             *)
LEMMA PreviewCrashKeeps == ASSUME IInv, PreviewCrash PROVE IInv'
BY StopKeeps DEF PreviewCrash

-----------------------------------------------------------------------------
(* The steps of the analysis.                                              *)

(* Passing a declaration that is no extern block keeps all but the type    *)
(* of implicitReturn.                                                      *)
LEMMA AnalyzeKeeps ==
  ASSUME IInv, NEW kind, kind # "Extern", In("analyze", kind), Advance,
         UNCHANGED <<fnTable, fnDefs, skip, linkTable, rootExport, out>>,
         errors \subseteq errors', outcome' \in {"running", "panic"},
         implicitReturn' \subseteq implicitReturn \cup FnDefsOf({Id})
  PROVE  IInv'
<1>1. /\ UNCHANGED <<inputs, visited, phase>>
      /\ at' = at + 1
      /\ phase = "analyze" /\ outcome = "running" /\ Declaration.kind # "Extern"
  BY DEF In, Advance
<1>2. /\ Declared' = Declared /\ Current' = Current /\ Declarations' = Declarations
      /\ \A id : DeclarationOf(id)' = DeclarationOf(id)
      /\ \A ids : FnDefsOf(ids)' = FnDefsOf(ids)
  BY <1>1, DeclaredStays
<1>3. /\ Id \in Declared
      /\ at \in 1..Len(Declarations) /\ Len(Declarations) \in Nat
      /\ DeclarationOf(Id) = Declaration
  BY Here
<1>4. Seen' = Declared /\ Seen = Declared
  BY <1>1, <1>2 DEF Seen
<1>5. FnDefsOf(Seen)' = FnDefsOf(Seen)
  BY <1>1, <1>4 DEF FnDefsOf, DeclarationOf, inputs
<1>6. DefinedOnce'
  BY <1>1, <1>2, <1>5 DEF DefinedOnce, IInv
<1>7. Registered'
  BY <1>1, <1>2 DEF Registered, IInv
<1>8. NoExternBehind'
  <2>1. ASSUME NEW id \in Declared, DeclarationOf(id).kind = "Extern"
        PROVE  id[1] = Current /\ id[2] >= at + 1
    <3>1. id[1] = Current /\ id[2] >= at
      BY <1>1, <2>1 DEF NoExternBehind, IInv
    <3>2. PICK m \in ToSet(visited) : \E i \in DOMAIN program[m] : id = <<m, i>>
      BY DeclaredIs
    <3>3. PICK i \in DOMAIN program[m] : id = <<m, i>>
      BY <3>2
    <3>4. i \in Nat /\ id = <<Current, i>>
      BY <3>1, <3>2, <3>3, Lists DEF IInv, TypeOK
    <3>5. i # at
      BY <2>1, <3>4, <1>1, <1>3 DEF Id
    <3> QED
      BY <3>1, <3>4, <3>5, <1>3
  <2> QED
    BY <2>1, <1>1, <1>2 DEF NoExternBehind
<1>9. OutKnown' /\ Ended'
  BY <1>1 DEF OutKnown, Ended, IInv
<1>10. TypeOK'
  <2>1. FnDefsOf({Id}) \subseteq FnDefsOf(Declared)
    BY <1>3 DEF FnDefsOf
  <2>2. FnDefsOf(Declared)' = FnDefsOf(Declared)
    BY <1>2 DEF FnDefsOf
  <2>3. at' \in 1..Len(Declarations) + 1
    BY <1>1, <1>3
  <2> QED
    BY <2>1, <2>2, <2>3, <1>1, <1>2 DEF TypeOK, IInv, inputs
<1> QED
  BY <1>1, <1>6, <1>7, <1>8, <1>9, <1>10 DEF IInv, inputs

(* Every step of the analysis is one of those, or the end.                 *)
LEMMA AnalyzeStepKeeps ==
  ASSUME IInv, SkipFnDef \/ AnalyzeFnDef \/ AnalyzeUse \/ ReadOverlappingDirective
  PROVE  IInv'
<1>1. CASE SkipFnDef
  BY <1>1, AnalyzeKeeps DEF SkipFnDef, In, tables
<1>2. CASE AnalyzeFnDef
  <2>1. /\ In("analyze", "FnDef") /\ Advance
        /\ UNCHANGED <<fnTable, fnDefs, skip, linkTable, rootExport, out>>
        /\ errors \subseteq errors' /\ outcome' \in {"running", "panic"}
    BY <1>2 DEF AnalyzeFnDef, In
  <2>2. implicitReturn' \subseteq implicitReturn \cup {Id}
    BY <1>2 DEF AnalyzeFnDef
  <2>3. DeclarationOf(Id).kind = "FnDef"
    BY <2>1, Here DEF In
  <2>4. FnDefsOf({Id}) = {Id}
    BY <2>3 DEF FnDefsOf
  <2> QED
    BY <2>1, <2>2, <2>4, AnalyzeKeeps
<1>3. CASE AnalyzeUse
  BY <1>3, AnalyzeKeeps DEF AnalyzeUse, In, tables
<1>4. CASE ReadOverlappingDirective
  BY <1>4, StopKeeps, AnalyzeKeeps DEF ReadOverlappingDirective, In, tables
<1> QED
  BY <1>1, <1>2, <1>3, <1>4

(* A step that changes nothing.                                            *)
LEMMA StutterKeeps == ASSUME IInv, UNCHANGED vars PROVE IInv'
<1>1. UNCHANGED <<inputs, visited, phase, at, tables, errors, outcome>>
  BY DEF vars
<1>2. /\ Declared' = Declared /\ Current' = Current /\ Declarations' = Declarations
      /\ \A id : DeclarationOf(id)' = DeclarationOf(id)
      /\ Seen' = Seen
  BY <1>1, DeclaredStays DEF Seen
<1>3. NoExternBehind' /\ OutKnown' /\ Ended'
  BY <1>1, <1>2 DEF NoExternBehind, OutKnown, Ended, IInv, tables, inputs
<1>4. TypeOK'
  BY <1>1, TablesStay DEF IInv, TypeOK
<1> QED
  BY <1>1, <1>2, <1>3, <1>4, TablesStay DEF IInv

-----------------------------------------------------------------------------
(* The theorems.                                                           *)

(* Every step keeps the invariant.                                         *)
LEMMA NextInvariant == IInv /\ [Next]_vars => IInv'
<1> SUFFICES ASSUME IInv, [Next]_vars PROVE IInv'
  OBVIOUS
<1>1. CASE NextImport \/ Finish \/ EndPreview \/ EndImport
  BY <1>1, NextImportKeeps, FinishKeeps, EndPreviewKeeps, EndImportKeeps
<1>2. CASE PreviewUse \/ PreviewExtern \/ RedefineFn \/ PreviewFnDef
  BY <1>2, PreviewUseKeeps, PreviewExternKeeps, RedefineFnKeeps, PreviewFnDefKeeps
<1>3. CASE PreviewRootExport \/ PreviewCrash
  BY <1>3, PreviewRootExportKeeps, PreviewCrashKeeps
<1>4. CASE SkipFnDef \/ AnalyzeFnDef \/ AnalyzeUse \/ ReadOverlappingDirective
  BY <1>4, AnalyzeStepKeeps
<1>5. CASE UNCHANGED vars
  BY <1>5, StutterKeeps
<1> QED
  BY <1>1, <1>2, <1>3, <1>4, <1>5 DEF Next

(* Both passes keep the invariant over all imports, in whatever order the  *)
(* iterator of import_table returns them (analyze.cpp:463-495).            *)
THEOREM InvariantHolds == Spec => []IInv
<1>1. Init => IInv
  BY InitInvariant
<1>2. IInv /\ [Next]_vars => IInv'
  BY NextInvariant
<1> QED
  BY <1>1, <1>2, PTL DEF Spec

(* Of all definitions of a name, in all imports, exactly one is to get     *)
(* code, and the others are skipped under an error (analyze.cpp:152-173).  *)
THEOREM TablesHold == Spec => []TablesConsistent
<1>1. IInv => TablesConsistent
  BY DEF IInv, TablesConsistent
<1> QED
  BY <1>1, InvariantHolds, PTL

(* After an analysis without errors the table and the list that code       *)
(* generation walks lead to the same declarations, and what is exported is *)
(* known (codegen.cpp:446, 488).                                           *)
THEOREM ReadyHolds == Spec => []ReadyToGenerate
<1>1. IInv => ReadyToGenerate
  <2> SUFFICES ASSUME IInv, outcome = "done", errors = {}
               PROVE  /\ \A id \in ToSet(fnDefs) : fnTable[DeclarationOf(id).name].decl = id
                      /\ \A n \in DOMAIN fnTable :
                           ~fnTable[n].extern => fnTable[n].decl \in ToSet(fnDefs)
                      /\ out[1] /\ out[2] # "unknown"
    BY DEF ReadyToGenerate
  <2>1. phase = "select" /\ ToSet(visited) = DOMAIN program
    BY DEF IInv, Ended
  <2>2. ASSUME NEW n \in DOMAIN fnTable PROVE ~fnTable[n].extern
    <3>1. fnTable[n].decl \in Declared
      BY DEF IInv, TypeOK
    <3> QED
      BY <2>1, <3>1 DEF IInv, NoExternBehind, Registered
  <2>3. visited # <<>>
    <3>1. DOMAIN program # {}
      BY ProgramsAssumption DEF IInv
    <3> QED
      BY <2>1, <3>1 DEF ToSet
  <2> QED
    BY <2>1, <2>2, <2>3 DEF IInv, Registered, OutKnown
<1> QED
  BY <1>1, InvariantHolds, PTL
=============================================================================
