----------------------------- MODULE MCCodegen -----------------------------
(***************************************************************************)
(* Programs for TLC, and what code generation makes of a program, stated   *)
(* over the source.                                                        *)
(***************************************************************************)
EXTENDS Codegen, SequencesExt

(* Expressions and statements. *)
Node(kind) == [kind |-> kind]
Sym(name) == [kind |-> "Symbol", name |-> name]
Str(text) == [kind |-> "String", text |-> text]
Apply(f, args) == [kind |-> "Call", callee |-> f, args |-> args]
Ret(value) == [kind |-> "Return", value |-> value]
Bin(op, a, b) == [kind |-> "BinOp", op |-> op, operands |-> <<a, b>>]
Pre(op, a) == [kind |-> "PrefixOp", op |-> op, operands |-> <<a>>]
Cast(a) == [kind |-> "Cast", operands |-> <<a>>]
Block(statements) == [kind |-> "Block", statements |-> statements]

Leaves == {Node("Number"), Sym("x"), Str("s"), Node("Unreachable"), Apply("exit", <<>>)}
Over(A, B) ==
  {Bin(op, a, b) : op \in {"+", "cmp", "&&", "||"}, a \in A, b \in B} \cup
  {Pre(op, a) : op \in {"!", "-"}, a \in A} \cup
  {Apply("h", <<a>>) : a \in A} \cup {Apply("k", <<a, b>>) : a \in A, b \in B}
Deep == Over(Leaves, Leaves) \cup
        Over({Bin("+", Node("Number"), Sym("x")), Bin("&&", Sym("x"), Node("Number")),
              Apply("h", <<Sym("x")>>)}, Leaves \cup Over({Node("Number")}, {Sym("x")}))
Odd == {Cast(Sym("x")), Sym("nowhere"), Block(<<Node("Number")>>), Block(<<>>),
        Apply("k", <<Str("s"), Str("t")>>), Bin("cmp", Str("t"), Str("s"))}
Expressions1 == Leaves \cup Deep \cup Odd

Param(name, type) == [name |-> name, type |-> type]
Proto(params, returns) == [params |-> params, returns |-> returns]
Fns == [f    |-> Proto(<<Param("x", "i32"), Param("x", "ptr")>>, "i32"),
        v    |-> Proto(<<>>, "void"),
        h    |-> Proto(<<Param("x", "i32")>>, "i32"),
        k    |-> Proto(<<Param("x", "ptr"), Param("y", "ptr")>>, "i32"),
        exit |-> Proto(<<>>, "unreachable")]
Definition(name, body) ==
  [name |-> name, body |-> body, implicitReturn |-> Fns[name].returns = "void"]
Program(defs) == [fns |-> Fns, defs |-> defs, imports |-> TRUE]

Bodies == {<<Ret(<<e>>)>> : e \in Expressions1} \cup
          {<<e, Ret(<<Sym("x")>>)>> : e \in Expressions1} \cup
          {<<Ret(<<>>)>>, <<>>, <<Apply("k", <<Str("s"), Str("t")>>), Apply("exit", <<>>)>>}
VoidBodies == {<<>>, <<Apply("k", <<Str("s"), Str("s")>>)>>, <<Ret(<<>>)>>, <<Apply("v", <<>>)>>}
MCPrograms ==
  {Program(<<Definition("f", b)>>) : b \in Bodies} \cup
  {Program(<<Definition("v", b), Definition("f", <<Str("t"), Ret(<<Apply("h", <<Sym("x")>>)>>)>>)>>)
   : b \in VoidBodies} \cup
  {[Program(<<Definition("v", <<>>)>>) EXCEPT !.imports = FALSE]}

(* The nodes of a program, those of blocks within included.                *)
RECURSIVE Within(_)
Within(node) == {node} \cup UNION {Within(c) : c \in ToSet(Children(node))}
MCNodes(p) == UNION {Within(s) : s \in UNION {ToSet(d.body) : d \in ToSet(p.defs)}}
-----------------------------------------------------------------------------
(* What is made of a program.                                              *)

(* The places of a body that are evaluated.                                *)
RECURSIVE Parts(_)
Parts(node) == {node} \cup IF node.kind = "Block" THEN {}
                          ELSE UNION {Parts(c) : c \in ToSet(Children(node))}
PartsOf(d) == UNION {Parts(s) : s \in ToSet(d.body)}

ParamNamed(f, name) == SelectSeq(program.fns[f].params, LAMBDA p : p.name = name)
RECURSIVE TypeOf(_, _)
TypeOf(f, e) ==
  CASE e.kind = "Number" -> "i32"
    [] e.kind = "String" -> "ptr"
    [] e.kind = "Symbol" -> ParamNamed(f, e.name)[1].type
    [] e.kind = "BinOp" -> IF e.op = "+" THEN TypeOf(f, e.operands[1]) ELSE "i1"
    [] e.kind = "PrefixOp" -> IF e.op = "-" THEN TypeOf(f, e.operands[1]) ELSE "i1"
    [] e.kind = "Call" -> IF program.fns[e.callee].returns = "unreachable" THEN "void"
                          ELSE program.fns[e.callee].returns
    [] OTHER -> "void"
Fits(f, e) ==
  LET types == [k \in DOMAIN Children(e) |-> TypeOf(f, Children(e)[k])]
      same  == \A k \in DOMAIN types : types[k] = types[1]
  IN  CASE e.kind = "BinOp" /\ e.op = "+" -> same /\ types[1] \in {"i1", "i32"}
        [] e.kind = "BinOp" /\ e.op = "cmp" -> same /\ types[1] # "void"
        [] e.kind = "PrefixOp" -> types[1] \in {"i1", "i32"} \cup (IF e.op = "!" THEN {"ptr"} ELSE {})
        [] e.kind = "Call" -> types = [k \in DOMAIN program.fns[e.callee].params |->
                                         program.fns[e.callee].params[k].type]
        [] e.kind = "Return" -> types = IF program.fns[f].returns = "void" THEN <<>>
                                        ELSE <<program.fns[f].returns>>
        [] OTHER -> TRUE

(* A statement after which nothing runs. *)
Diverges(e) == \/ e.kind \in {"Return", "Unreachable"}
               \/ e.kind = "Call" /\ program.fns[e.callee].returns = "unreachable"
Panics(d) == \E e \in PartsOf(d) :
  \/ e.kind \in {"Cast", "Block"}
  \/ e.kind = "Symbol" /\ ParamNamed(d.name, e.name) = <<>>

(* A body is right if its types are, only its last statement diverges, and *)
(* there is none of the operators whose branches are not completed.        *)
IsRight(d) ==
  /\ \A e \in PartsOf(d) : Fits(d.name, e) /\ ~ShortCircuit(e)
  /\ \A k \in DOMAIN d.body : Diverges(d.body[k]) => k = Len(d.body) /\ ~d.implicitReturn
  /\ d.implicitReturn \/ (d.body # <<>> /\ Diverges(Last(d.body)))

(* Code generation ends as the source says, whatever the order of the      *)
(* function table.                                                         *)
OutcomeIsRight ==
  outcome # "running" => outcome =
    IF ~program.imports /\ program.defs # <<>> THEN "crash"
    ELSE IF \E d \in ToSet(program.defs) : Panics(d) THEN "panic"
    ELSE IF \A d \in ToSet(program.defs) : IsRight(d) THEN "done"
    ELSE "abort"

(* The trees of expressions: what is emitted for a node, behind what is    *)
(* emitted for its operands, from left to right.                           *)
RECURSIVE Tree(_, _)
Tree(f, e) ==
  CASE e.kind = "Number" -> <<"number">>
    [] e.kind = "String" -> <<"text", e.text>>
    [] e.kind = "Symbol" -> <<"param", 1>>
    [] OTHER -> <<e.kind, IF "op" \in DOMAIN e THEN e.op ELSE "",
                  [k \in DOMAIN Children(e) |-> Tree(f, Children(e)[k])]>>
RECURSIVE Order(_, _)
Order(f, e) == FlattenSeq([k \in DOMAIN Children(e) |-> Order(f, Children(e)[k])]) \o
               (IF e.kind \in {"BinOp", "PrefixOp", "Call", "Return"} THEN <<Tree(f, e)>> ELSE <<>>)

(* The trees that the instructions of a block compute.                     *)
NodeKind(i) == CASE i.op = "call" -> <<"Call", "">>
                 [] i.op = "ret" -> <<"Return", "">>
                 [] i.op = "arith" /\ Len(i.args) = 2 -> <<"BinOp", "+">>
                 [] i.op = "arith" /\ Len(i.args) = 1 -> <<"PrefixOp", "-">>
                 [] i.op = "icmp" /\ i.args[2].from = <<"zero">> -> <<"PrefixOp", "!">>
                 [] OTHER -> <<"BinOp", "cmp">>
RECURSIVE Computed(_, _)
Computed(f, i) ==
  LET args == SelectSeq(i.args, LAMBDA v : v.from # <<"zero">>)
  IN  NodeKind(i) \o <<[k \in DOMAIN args |->
        CASE args[k].from[1] = "instruction" ->
               Computed(f, functions[f][args[k].from[2]][args[k].from[3]])
          [] args[k].from[1] = "global" -> <<"text", strings[args[k].from[2]]>>
          [] OTHER -> args[k].from]>>

(* The instructions of a valid function compute its source, in its order:  *)
(* every call with its arguments, once.                                    *)
CodeIsSource == outcome = "done" =>
  \A k \in DOMAIN program.defs :
    LET d == program.defs[k]
        code == SelectSeq(functions[d.name][1], LAMBDA i : i.op # "unreachable")
        computed == [i \in DOMAIN code |-> Computed(d.name, code[i])]
    IN  computed = FlattenSeq([s \in DOMAIN d.body |-> Order(d.name, d.body[s])]) \o
                   (IF d.implicitReturn THEN <<<<"Return", "", <<>>>>>> ELSE <<>>)
=============================================================================
