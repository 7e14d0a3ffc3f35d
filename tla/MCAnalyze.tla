------------------------------ MODULE MCAnalyze ------------------------------
(***************************************************************************)
(* Programs for TLC, the analysis of bodies, and what a program must be to *)
(* be accepted, stated over its declarations instead of over the passes.   *)
(***************************************************************************)
EXTENDS Analyze, Expressions

MCAnalyzeBody(table, returns, body) ==
  LET result == AnalyzeExpression(table, returns, returns,
                                  [kind |-> "Block", statements |-> body])
  IN  [errors |-> result.errors, panic |-> result.panic]

(* Bodies. *)
Number == [kind |-> "Number"]
Call(f, args) == [kind |-> "Call", callee |-> f, args |-> args]
Return(value) == [kind |-> "Return", value |-> value]
Sum(a, b) == [kind |-> "BinOp", operands |-> <<a, b>>]

SimpleBodies == {<<>>, <<Return(<<>>)>>, <<Return(<<Number>>)>>}
CallBodies(g) == {
  <<Call(g, <<>>)>>,
  <<Call(g, <<>>), Return(<<Number>>)>>,
  <<Return(<<Call(g, <<Number>>)>>)>>,
  <<Return(<<Call(g, <<Call(g, <<Number>>)>>)>>)>>,
  <<Return(<<Sum(Number, Call(g, <<>>))>>)>>}
OtherBodies == {
  <<[kind |-> "Unreachable"]>>,
  <<[kind |-> "Unreachable"], Number>>,
  <<Return(<<[kind |-> "Unreachable"]>>)>>,
  <<Return(<<Number>>), Number>>,
  <<[kind |-> "Block", statements |-> <<Return(<<Number>>)>>], Number>>,
  <<Number, Return(<<[kind |-> "String"]>>)>>}

(* Declarations. *)
Fn(name, params, returns, body) ==
  [kind |-> "FnDef", name |-> name, params |-> params, returns |-> returns,
   directives |-> <<>>, body |-> body]
Proto(name) == [name |-> name, params |-> <<>>, returns |-> <<"i32">>, directives |-> <<>>]
Export(type, directives) ==
  [kind |-> "RootExport", type |-> type, directives |-> directives]
Extern(fns, directives) == [kind |-> "Extern", fns |-> fns, directives |-> directives]
Use(directives) == [kind |-> "Use", directives |-> directives]

Types1 == {<<"i32">>, <<"void">>, <<"unreachable">>, <<"u8", "mut">>}
Callers == {Fn("f", <<>>, t, b) : t \in Types1,
              b \in SimpleBodies \cup CallBodies("g") \cup OtherBodies}
Callees == {Fn("g", p, t, <<Return(<<Number>>)>>) :
              p \in {<<>>, <<<<"i32">>>>}, t \in Types1} \cup
           {Fn("g", <<<<"size">>>>, <<"unreachable", "const">>, <<Return(<<>>)>>),
            Fn("g", <<>>, <<"unreachable">>, <<[kind |-> "Unreachable"]>>)}
Others == {Export("library", <<>>), Export("exectuable", <<>>),
           Export("executable", <<<<"version", "x">>>>),
           Export("boject", <<<<"version", "1.2.3">>, <<"inline", "unset">>>>),
           Export("library", <<<<"version", "unset">>>>),
           Extern(<<Proto("f"), Proto("g")>>, <<>>),
           Extern(<<>>, <<<<"link", "c">>, <<"cold", "unset">>>>),
           Extern(<<>>, <<<<"link", "unset">>>>),
           Use(<<>>), Use(<<<<"inline", "unset">>>>)}
Some == Others \cup {Fn("f", <<>>, <<"i32">>, b) : b \in SimpleBodies \cup CallBodies("g")} \cup
        {Fn("g", <<>>, <<"i32">>, <<Return(<<Number>>)>>)}
File1 == <<Export("library", <<>>)>>

CONSTANTS m1, m2
MCImport == {m1, m2}
OneImport(files) == {[m \in {m1} |-> file] : file \in files}
TwoImports(files1, files2) ==
  {[m \in {m1, m2} |-> IF m = m1 THEN a ELSE b] : a \in files1, b \in files2}
Pairs(A, B) == {<<a, b>> : a \in A, b \in B}
MCPrograms ==
  OneImport(Pairs(Callers, Callees) \cup Pairs(Callees, Callers)) \cup
  OneImport({<<a, b, c>> : a \in Some, b \in Some, c \in Some}) \cup
  TwoImports({<<a>> : a \in Callers}, {<<b>> : b \in Callees}) \cup
  TwoImports({<<a>> : a \in Some}, Pairs(Others, Some))
MCSettings == {<<FALSE, "unknown">>, <<TRUE, "exe">>}

-----------------------------------------------------------------------------
(* What is accepted.                                                       *)

(* The nodes of a body that are evaluated, each with the type entry its    *)
(* place asks for.                                                         *)
RECURSIVE Places(_, _, _, _)
Places(sigs, returns, wanted, node) ==
  LET inside ==
        CASE node.kind = "Block" ->
               {<<EntryVoid, node.statements[i]>> : i \in DOMAIN node.statements}
          [] node.kind = "Return" -> {<<returns, v>> : v \in ToSet(node.value)}
          [] node.kind = "BinOp" -> {<<wanted, o>> : o \in ToSet(node.operands)}
          [] node.kind = "Call" ->
               {<<IF /\ node.callee \in DOMAIN sigs
                     /\ i \in DOMAIN sigs[node.callee].params
                  THEN sigs[node.callee].params[i] ELSE EntryVoid,
                  node.args[i]>> : i \in DOMAIN node.args}
          [] OTHER -> {}
  IN  {<<wanted, node>>} \cup
      UNION {Places(sigs, returns, p[1], p[2]) : p \in inside}

(* A node after which nothing runs.                                        *)
RECURSIVE Diverges(_, _)
Diverges(sigs, node) ==
  \/ node.kind \in {"Return", "Unreachable"}
  \/ /\ node.kind = "Call"
     /\ node.callee \in DOMAIN sigs
     /\ sigs[node.callee].returns = EntryUnreachable
  \/ /\ node.kind = "Block"
     /\ node.statements # <<>>
     /\ Diverges(sigs, Last(node.statements))

Fits(wanted, type) ==
  wanted = EntryInvalid \/ type \in {wanted, EntryInvalid, EntryUnreachable}
PlaceIsRight(sigs, returns, wanted, node) ==
  CASE node.kind = "Call" ->
         /\ node.callee \in DOMAIN sigs
         /\ Len(node.args) = Len(sigs[node.callee].params)
         /\ Fits(wanted, sigs[node.callee].returns)
    [] node.kind = "Block" ->
         \A i \in DOMAIN node.statements :
           Diverges(sigs, node.statements[i]) => i = Len(node.statements)
    [] node.kind = "Return" /\ node.value = <<>> -> Fits(returns, EntryVoid)
    [] node.kind = "Return" /\ node.value # <<>> ->
         LET value == node.value[1]
         IN  /\ ~Diverges(sigs, value)
             /\ value.kind = "Number" => Fits(returns, EntryI32)
    [] OTHER -> TRUE

FnIsRight(sigs, fn) ==
  LET returns == ResolveType(fn.returns)
      body == [kind |-> "Block", statements |-> fn.body]
  IN  /\ \A p \in Places(sigs, returns, returns, body) :
           PlaceIsRight(sigs, returns, p[1], p[2])
      /\ IF returns = EntryUnreachable
         THEN \A s \in ToSet(fn.body) : s.kind # "Return"
         ELSE fn.body # <<>> /\ Last(fn.body).kind = "Return"

TypeExists(type) == Known(type[1]) /\ (type[1] = "unreachable" => Len(type) = 1)

Accepted(given) ==
  LET fns     == FnDefsOf(Declared)
      exports == {id \in Declared : DeclarationOf(id).kind = "RootExport"}
      before(id, m) == \E i, j \in DOMAIN visited :
                         visited[i] = id[1] /\ visited[j] = m /\ i <= j
      sigs(m) == LET visible == {id \in fns : before(id, m)}
                 IN  [n \in {DeclarationOf(id).name : id \in visible} |->
                        Entry(DeclarationOf(CHOOSE id \in visible :
                                DeclarationOf(id).name = n), None, FALSE)]
  IN  /\ \A x, y \in fns : DeclarationOf(x).name = DeclarationOf(y).name => x = y
      /\ \A id \in fns : LET fn == DeclarationOf(id) IN
           /\ fn.directives = <<>>
           /\ \A t \in ToSet(fn.params) \cup {fn.returns} : TypeExists(t)
           /\ FnIsRight(sigs(id[1]), fn)
      /\ \A id \in Declared :
           DeclarationOf(id).kind = "Use" => DeclarationOf(id).directives = <<>>
      /\ Cardinality(exports) <= 1
      /\ \A id \in exports :
           /\ \E t \in ExportType : t[1] = DeclarationOf(id).type
           /\ ToSet(DeclarationOf(id).directives) \subseteq {<<"version", "1.2.3">>}
      /\ given \/ \E id \in exports : id[1] = visited[1]

(* The analysis reports no error exactly for the accepted programs:        *)
(* names, types, calls, returns and exports are right whatever the order   *)
(* of the declarations and of the imports, except that a call does not     *)
(* reach an import the hash table comes to later, and that the first       *)
(* import has to know what is exported.  A program with an extern block    *)
(* has no verdict: it falls through to the case of use and crashes         *)
(* (analyze.cpp:433-437).                                                  *)
VerdictIsRight ==
  outcome = "done" =>
    /\ visited # <<>> => ((errors = {}) <=> Accepted(options[1]))
    /\ \A id \in Declared : DeclarationOf(id).kind # "Extern"
=============================================================================
