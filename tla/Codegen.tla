------------------------------- MODULE Codegen -------------------------------
(***************************************************************************)
(* do_code_gen of src/codegen.cpp: the functions of fn_table are declared, *)
(* then the bodies of fn_defs are generated by the recursive gen_expr,     *)
(* whose activations are the frames of a stack.  What LLVM keeps is the    *)
(* basic blocks, their instructions and the builder's position; names,     *)
(* attributes, lines and the folding of constants are left out.            *)
(***************************************************************************)
EXTENDS Integers, Sequences, FiniteSets

CONSTANTS
  Programs,  \* what semantic_analyze leaves: see ProgramsAssumption
  Nodes(_)   \* Nodes(p): the nodes of the trees of program p

(* gen_expr: what is evaluated before the node itself, from left to right. *)
Children(node) == CASE node.kind = "Block" -> node.statements
                    [] node.kind = "Call" -> node.args
                    [] node.kind = "Return" -> node.value
                    [] node.kind \in {"BinOp", "PrefixOp", "Cast"} -> node.operands
                    [] OTHER -> <<>>

(* fns is fn_table, which has every function that is called, defs is       *)
(* fn_defs; imports says whether import_entry of the definitions is set.   *)
(* The analysis does not set it (analyze.cpp:159-168), as it does for      *)
(* extern functions.                                                       *)
Definitions(p) == [name : DOMAIN p.fns, body : Seq(Nodes(p)), implicitReturn : BOOLEAN]
ASSUME ProgramsAssumption == \A p \in Programs :
  /\ p.imports \in BOOLEAN
  /\ p.defs \in Seq(Definitions(p))
  /\ \A j, k \in DOMAIN p.defs : p.defs[j].name = p.defs[k].name => j = k
  /\ \A node \in Nodes(p) :
       /\ Children(node) \in Seq(Nodes(p))
       /\ node.kind = "BinOp" => Len(node.operands) = 2
       /\ node.kind = "Call" => node.callee \in DOMAIN p.fns

VARIABLES
  program,    \* the input
  declared,   \* functions whose fn_value is set
  at,         \* definitions begun
  scopes,     \* g->block_scopes: "unit", then the names of functions
  functions,  \* name to basic blocks, in the order in which they were added
  cur,        \* the block in which the builder inserts
  location,   \* its debug location: the function of the scope
  strings,    \* str_table: the literals with a global, as they were added
  stack,      \* activations of gen_block and gen_expr, innermost first
  outcome     \* "running", "done", "crash", "panic" or "abort"

vars == <<program, declared, at, scopes, functions, cur, location, strings, stack, outcome>>

Init == /\ program \in Programs
        /\ declared = {}
        /\ at = 0
        /\ scopes = <<"unit">>
        /\ functions = <<>>
        /\ cur = 0
        /\ location = "unit"
        /\ strings = <<>>
        /\ stack = <<>>
        /\ outcome = "running"

(* Values: the type and where it comes from, an instruction (its block and *)
(* place), a parameter, a literal or a global.                             *)
Value(type, from) == [type |-> type, from |-> from]
Zero(type) == Value(type, <<"zero">>)
Void == Value("void", <<"none">>)

Activation(node) == [node |-> node, values |-> <<>>, targets |-> <<>>]

fn == program.defs[at].name   \* g->cur_fn
AllDeclared == declared = DOMAIN program.fns
Running == outcome = "running"
Inserted == functions[fn][cur]

Instruction(op, args, targets, scope) ==
  [op |-> op, args |-> args, targets |-> targets, scope |-> scope]
Emit(instructions) ==
  functions' = [functions EXCEPT ![fn][cur] = @ \o instructions]

-----------------------------------------------------------------------------
(* The loop over fn_table.                                                 *)
Declare(f) == /\ Running
              /\ declared' = declared \cup {f}
              /\ UNCHANGED <<program, at, scopes, functions, cur, location, strings, stack, outcome>>

(* The loop over fn_defs, up to the statements of the body.  A null        *)
(* import_entry is dereferenced for the scope of the function.             *)
NoScopes == <<>>   \* mutant: no scopes for a function
FunctionScopes == <<program.defs[at'].name, program.defs[at'].name>>
SameDefinition == 1   \* mutant: the index is not advanced
NextDefinition == at + 1
EntryBlock == 1
BeginFunction ==
  /\ Running /\ AllDeclared /\ stack = <<>>
  /\ at < Len(program.defs)
  /\ program.imports
  /\ at' = NextDefinition
  /\ scopes' = scopes \o FunctionScopes
  /\ location' = scopes'[Len(scopes')]
  /\ functions' = [f \in DOMAIN functions \cup {program.defs[at'].name} |->
                     IF f = program.defs[at'].name THEN << <<>> >> ELSE functions[f]]
  /\ cur' = EntryBlock
  /\ stack' = <<Activation([kind |-> "Block", statements |-> program.defs[at'].body])>>
  /\ UNCHANGED <<program, declared, strings, outcome>>
NullImport == /\ Running /\ AllDeclared /\ stack = <<>>
              /\ at < Len(program.defs)
              /\ ~program.imports
              /\ outcome' = "crash"
              /\ UNCHANGED <<program, declared, at, scopes, functions, cur, location, strings, stack>>

Top == stack[1]
Evaluated(kinds) == /\ Running /\ stack # <<>>
                    /\ Top.node.kind \in kinds
                    /\ Len(Top.values) = Len(Children(Top.node))

NoImplicitReturn == FALSE   \* mutant
ImplicitReturn == program.defs[at].implicitReturn
OuterScopes == SubSeq(scopes, 1, Len(scopes) - 2)
EndFunction ==
  /\ Evaluated({"Block"})
  /\ Len(stack) = 1
  /\ Emit(IF ImplicitReturn
          THEN <<Instruction("ret", <<>>, <<>>, location)>> ELSE <<>>)
  /\ scopes' = OuterScopes
  /\ stack' = <<>>
  /\ UNCHANGED <<program, declared, at, cur, location, strings, outcome>>

-----------------------------------------------------------------------------
(* The steps of gen_expr.                                                  *)

(* The node's value goes to the activation that asked for it.              *)
ReturnTo(value) ==
  stack' = <<[stack[2] EXCEPT !.values = Append(@, value)]>> \o SubSeq(stack, 3, Len(stack))

(* Every instruction but those for literals is at its node's place.        *)
SetLocation == location' = scopes[Len(scopes)]
Build(op, args) == Instruction(op, args, <<>>, location')
Built(type) == Value(type, <<"instruction", cur, Len(Inserted) + 1>>)
Unchanged == UNCHANGED <<program, declared, at, scopes, outcome>>

ShortCircuit(node) == node.kind = "BinOp" /\ node.op \in {"&&", "||"}
Branches(a) == ShortCircuit(a.node) /\ Len(a.values) = 1 /\ a.targets = <<>>

Backwards(values) == Len(Children(Top.node)) - Len(values)   \* mutant: last first
NextChild(values) == Len(values) + 1
Evaluate ==
  /\ Running /\ stack # <<>>
  /\ Len(Top.values) < Len(Children(Top.node))
  /\ ~Branches(Top)
  /\ Top.node.kind = "Block" => Len(stack) = 1
  /\ stack' = <<Activation(Children(Top.node)[NextChild(Top.values)])>> \o stack
  /\ UNCHANGED <<functions, cur, location, strings>> /\ Unchanged

Number == /\ Evaluated({"Number"})
          /\ ReturnTo(Value("i32", <<"number">>))
          /\ UNCHANGED <<functions, cur, location, strings>> /\ Unchanged

(* find_or_create_string, and the pointer to its first character.          *)
FindOrCreateString(text) ==
  IF \E k \in DOMAIN strings : strings[k] = text THEN strings ELSE Append(strings, text)
String ==
  /\ Evaluated({"String"})
  /\ strings' = FindOrCreateString(Top.node.text)
  /\ \E k \in DOMAIN strings' :
       /\ strings'[k] = Top.node.text
       /\ \A j \in DOMAIN strings' : strings'[j] = Top.node.text => j <= k
       /\ ReturnTo(Value("ptr", <<"global", k>>))
  /\ UNCHANGED <<functions, cur, location>> /\ Unchanged

(* get_variable_value: the first parameter of that name.                   *)
Params == program.fns[fn].params
Named(name) == {i \in DOMAIN Params : Params[i].name = name}
Symbol ==
  /\ Evaluated({"Symbol"})
  /\ \E i \in Named(Top.node.name) :
       /\ \A j \in Named(Top.node.name) : i <= j
       /\ ReturnTo(Value(Params[i].type, <<"param", i>>))
  /\ UNCHANGED <<functions, cur, location, strings>> /\ Unchanged

(* jane_unreachable for a symbol that is no parameter and for a block,     *)
(* jane_panic for a cast, which has a type behind "as".                    *)
Panic == /\ \/ Evaluated({"Symbol"}) /\ Named(Top.node.name) = {}
            \/ Running /\ Len(stack) > 1 /\ Top.node.kind = "Block"
            \/ Evaluated({"Cast"})
         /\ outcome' = "panic"
         /\ UNCHANGED <<program, declared, at, scopes, functions, cur, location, strings, stack>>

PrefixOp ==
  /\ Evaluated({"PrefixOp"})
  /\ SetLocation
  /\ LET value == Top.values[1] IN
       IF Top.node.op = "!"
       THEN Emit(<<Build("icmp", <<value, Zero(value.type)>>)>>) /\ ReturnTo(Built("i1"))
       ELSE Emit(<<Build("arith", <<value>>)>>) /\ ReturnTo(Built(value.type))
  /\ UNCHANGED <<cur, strings>> /\ Unchanged

BinOp ==
  /\ Evaluated({"BinOp"})
  /\ ~ShortCircuit(Top.node)
  /\ SetLocation
  /\ IF Top.node.op = "cmp"
     THEN Emit(<<Build("icmp", Top.values)>>) /\ ReturnTo(Built("i1"))
     ELSE Emit(<<Build("arith", Top.values)>>) /\ ReturnTo(Built(Top.values[1].type))
  /\ UNCHANGED <<cur, strings>> /\ Unchanged

(* gen_bool_and_expr and gen_bool_or_expr: two new blocks, one for the     *)
(* second operand and one behind it.  The first of the targets is taken    *)
(* when the first operand is zero.                                         *)
Branch ==
  /\ Running /\ stack # <<>> /\ Branches(Top)
  /\ SetLocation
  /\ LET value == Top.values[1]
         other == Len(functions[fn]) + 1
         merge == other + 1
         targets == IF Top.node.op = "&&" THEN <<merge, other>> ELSE <<other, merge>>
     IN  /\ functions' = [functions EXCEPT ![fn] = [k \in 1..merge |->
              IF k = cur THEN @[k] \o <<Build("icmp", <<value, Zero(value.type)>>),
                                        Instruction("br", <<Built("i1")>>, targets, location')>>
              ELSE IF k < other THEN @[k] ELSE <<>>]]
         /\ cur' = other
         /\ stack' = <<[Top EXCEPT !.targets = <<other, merge>>]>> \o Tail(stack)
  /\ UNCHANGED strings /\ Unchanged

(* No branch leads from the second operand's block to the block behind it, *)
(* and the constant comes in from the latter itself, where the builder     *)
(* already is.                                                             *)
Merge ==
  /\ Evaluated({"BinOp"})
  /\ ShortCircuit(Top.node)
  /\ SetLocation
  /\ LET value == Top.values[2]
         other == Top.targets[1]
         merge == Top.targets[2]
         val2 == Built("i1")
     IN  /\ functions' = [functions EXCEPT
              ![fn][cur] = Append(@, Build("icmp", <<value, Zero(value.type)>>)),
              ![fn][merge] = Append(@, Instruction("phi", <<Value("i1", <<"one">>), val2>>,
                                                   <<merge, other>>, location'))]
         /\ ReturnTo(Value("i1", <<"instruction", merge, Len(functions[fn][merge]) + 1>>))
         /\ cur' = merge
  /\ UNCHANGED strings /\ Unchanged

(* A call of a function that does not return is followed by "unreachable". *)
Returns(f) == program.fns[f].returns
Call ==
  /\ Evaluated({"Call"})
  /\ SetLocation
  /\ LET call == Instruction("call", Top.values, <<Top.node.callee>>, location') IN
       IF Returns(Top.node.callee) = "unreachable"
       THEN Emit(<<call, Build("unreachable", <<>>)>>) /\ ReturnTo(Void)
       ELSE Emit(<<call>>) /\ ReturnTo(Built(Returns(Top.node.callee)))
  /\ UNCHANGED <<cur, strings>> /\ Unchanged

Unreachable == /\ Evaluated({"Unreachable"})
               /\ SetLocation
               /\ Emit(<<Build("unreachable", <<>>)>>)
               /\ ReturnTo(Void)
               /\ UNCHANGED <<cur, strings>> /\ Unchanged
Return == /\ Evaluated({"Return"})
          /\ SetLocation
          /\ Emit(<<Build("ret", Top.values)>>)
          /\ ReturnTo(Void)
          /\ UNCHANGED <<cur, strings>> /\ Unchanged

-----------------------------------------------------------------------------
(* LLVMVerifyModule, as far as the model tells modules apart: blocks end   *)
(* in their only terminator, phi nodes name their predecessors, operands   *)
(* have the types the instruction asks for, debug locations belong to the  *)
(* function.                                                               *)
Terminator == {"ret", "unreachable", "br"}
Terminated(blocks) == \A b \in DOMAIN blocks :
  {i \in DOMAIN blocks[b] : blocks[b][i].op \in Terminator} = {Len(blocks[b])}
Predecessors(blocks, b) ==
  {p \in DOMAIN blocks : blocks[p] # <<>> /\ \E i \in DOMAIN blocks[p] :
     blocks[p][i].op = "br" /\ \E t \in DOMAIN blocks[p][i].targets : blocks[p][i].targets[t] = b}
PhisMatch(blocks) == \A b \in DOMAIN blocks : \A i \in DOMAIN blocks[b] :
  blocks[b][i].op = "phi" =>
    Predecessors(blocks, b) = {blocks[b][i].targets[t] : t \in DOMAIN blocks[b][i].targets}
Types(args) == [k \in DOMAIN args |-> args[k].type]
NoValue == {"void", "unreachable"}   \* both are LLVM's void type
Typed(f, i) ==
  CASE i.op = "ret" -> Types(i.args) = (IF Returns(f) \in NoValue THEN <<>> ELSE <<Returns(f)>>)
    [] i.op = "arith" -> \A k \in DOMAIN i.args : i.args[k].type \in {"i1", "i32"} /\
                                                  i.args[k].type = i.args[1].type
    [] i.op = "icmp" -> i.args[1].type = i.args[2].type /\ i.args[1].type # "void"
    [] i.op = "call" -> Types(i.args) = [k \in DOMAIN program.fns[i.targets[1]].params |->
                                           program.fns[i.targets[1]].params[k].type]
    [] OTHER -> TRUE
Valid(f) == LET blocks == functions[f] IN
  /\ Terminated(blocks)
  /\ PhisMatch(blocks)
  /\ \A b \in DOMAIN blocks : \A i \in DOMAIN blocks[b] :
       Typed(f, blocks[b][i]) /\ blocks[b][i].scope = f

(* It ends the process when the module is not valid.                       *)
VerifyModule ==
  /\ Running /\ AllDeclared /\ stack = <<>>
  /\ at = Len(program.defs)
  /\ outcome' = IF \A f \in DOMAIN functions : Valid(f) THEN "done" ELSE "abort"
  /\ UNCHANGED <<program, declared, at, scopes, functions, cur, location, strings, stack>>

Expression == \/ Evaluate \/ Number \/ String \/ Symbol \/ PrefixOp \/ BinOp
              \/ Branch \/ Merge \/ Call \/ Unreachable \/ Return
Next == \/ \E f \in DOMAIN program.fns \ declared : Declare(f)
        \/ BeginFunction \/ NullImport \/ EndFunction \/ Expression \/ Panic \/ VerifyModule
(* The program runs on.                                                    *)
Spec == Init /\ [][Next]_vars /\ WF_vars(Next)
-----------------------------------------------------------------------------
(* Properties.                                                             *)

(* Every variable keeps its type: instructions go to blocks that exist,    *)
(* and values come from instructions that exist.                           *)
Exists(v) == v.from[1] = "instruction" => v.from[2] \in DOMAIN functions[fn] /\
                                          v.from[3] \in DOMAIN functions[fn][v.from[2]]
TypeOK == /\ program \in Programs
          /\ declared \subseteq DOMAIN program.fns
          /\ at \in 0..Len(program.defs)
          /\ DOMAIN functions = {program.defs[k].name : k \in 1..at}
          /\ stack # <<>> => cur \in DOMAIN functions[fn]
          /\ \A k \in DOMAIN stack : \A j \in DOMAIN stack[k].values :
               Exists(stack[k].values[j])
          /\ outcome \in {"running", "done", "crash", "panic", "abort"}

(* block_scopes is the compile unit between functions and the two scopes   *)
(* of the current function in one, and all its instructions are there, so  *)
(* that a debugger finds no line of one function in another                *)
(* (add_debug_source_node, lines 76-79).                                   *)
ScopesNest ==
  /\ scopes = IF stack = <<>> THEN <<"unit">> ELSE <<"unit", fn, fn>>
  /\ \A f \in DOMAIN functions : \A b \in DOMAIN functions[f] :
       \A i \in DOMAIN functions[f][b] : functions[f][b][i].scope = f

(* A body calls declared functions only, whatever the order of fn_table    *)
(* and fn_defs, and recursion included: fn_value is set.                   *)
CalleesDeclared ==
  \A f \in DOMAIN functions : \A b \in DOMAIN functions[f] : \A i \in DOMAIN functions[f][b] :
    functions[f][b][i].op = "call" => functions[f][b][i].targets[1] \in declared

(* Literals of the same text share one global (lines 81-94).               *)
StringsShared == \A j, k \in DOMAIN strings : strings[j] = strings[k] => j = k

(* The module being generated is what its debugger, its calls and its      *)
(* literals take it for.                                                   *)
CodeConsistent == TypeOK /\ ScopesNest /\ CalleesDeclared /\ StringsShared

(* Code generation ends.                                                   *)
Terminates == <>(outcome # "running")
=============================================================================
