------------------------------- MODULE Parser -------------------------------
(***************************************************************************)
(* ast_parse of src/parser.cpp, recursive descent over the tokens.  The    *)
(* activations of its functions are the frames of a stack; a step is what  *)
(* a function does between two calls.  A node is its tokens, in the order  *)
(* in which its fields hold them.                                          *)
(*                                                                         *)
(* Not reached, and not here: ast_parse_extern_block, ast_parse_fn_decl,   *)
(* ast_parse_use and the end of ast_parse_root, which come behind          *)
(* ast_parse_fn_def (it calls ast_parse_fn_proto with mandatory = true, so *)
(* it returns a node or ends the program), and the loop of                 *)
(* ast_parse_fn_call_param_list, which expects ")" where "(" stands.       *)
(***************************************************************************)
EXTENDS Integers, Sequences

CONSTANTS
  Texts,      \* the tokens of a file, by their ids; "Eof" ends them
  Builds      \* with assertions compiled in or without (NDEBUG): TRUE, FALSE

ASSUME TextsAssumption ==
  /\ Builds \subseteq BOOLEAN
  /\ \A text \in Texts :
       /\ text \in Seq(STRING) /\ text # <<>>
       /\ \A k \in 1..Len(text) : text[k] = "Eof" <=> k = Len(text)

VARIABLES
  tokens,          \* the input
  assertions,      \* the build
  index,           \* *token_index + 1
  stack,           \* the activations, innermost first
  result,          \* what the last call returned, until its caller takes it
  directive_list,  \* pc->directive_list: <<>> is null, <<list>> a list
  decls,           \* top_level_decls
  outcome,         \* "running", "error" (exit), "abort" or "undefined"
  blamed           \* the token of the error message

input == <<tokens, assertions>>
context == <<input, directive_list, decls, outcome, blamed>>
vars == <<context, index, stack, result>>

None == <<>>   \* nullptr; a node has at least one token

(* An activation: the function, the call it waits for or "start", its      *)
(* argument mandatory, the tokens of its node so far, and where it began.  *)
Frame(fn, at, mandatory, from) ==
  [fn |-> fn, at |-> at, mandatory |-> mandatory, got |-> <<>>, from |-> from]

Init == /\ tokens \in Texts
        /\ assertions \in Builds
        /\ index = 1
        /\ stack = <<Frame("top_level_decl", "start", FALSE, 1)>>
        /\ result = None
        /\ directive_list = <<>>
        /\ decls = <<>>
        /\ outcome = "running"
        /\ blamed = 0

Top == Head(stack)
Active(fn, at) == outcome = "running" /\ Top.fn = fn /\ Top.at = at
Token == tokens[index]

(* The steps of an activation: step over n tokens and go on to call        *)
(* callees, return a node to the caller, or report an invalid token.       *)
Go(at, got, callees, n) ==
  /\ stack' = callees \o <<[Top EXCEPT !.at = at, !.got = got]>> \o Tail(stack)
  /\ index' = index + n
  /\ result' = None
Return(node, n) == stack' = Tail(stack) /\ index' = index + n /\ result' = node
Fail(k) == /\ outcome' = "error" /\ blamed' = k
           /\ UNCHANGED <<input, index, stack, result, directive_list, decls>>
Continue == UNCHANGED context

(* ast_expect_token on each of the next tokens in turn.                    *)
Mismatches(ids) == {k \in 1..Len(ids) :
  index + k - 1 > Len(tokens) \/ tokens[index + k - 1] # ids[k]}
Expects(ids) == Mismatches(ids) = {}
FailAtFirst(ids) ==
  \E k \in Mismatches(ids) : (\A j \in Mismatches(ids) : k <= j) /\ Fail(index + k - 1)

-----------------------------------------------------------------------------
(* ast_parse_top_level_decl: its loop, the directives and root exports.    *)

BeginDecl == /\ Active("top_level_decl", "start")
             /\ directive_list' = << <<>> >>
             /\ Go("directives", <<>>, <<>>, 0)
             /\ UNCHANGED <<input, decls, outcome, blamed>>

(* The parameter of a directive is checked and not stored, and no closing  *)
(* parenthesis is read.                                                    *)
DirectiveIds == <<"NumberSign", "Symbol", "LParen", "StringLiteral">>
Directive ==
  /\ Active("top_level_decl", "directives")
  /\ Token = "NumberSign"
  /\ IF Expects(DirectiveIds)
     THEN /\ directive_list' = <<Append(directive_list[1], index + 1)>>
          /\ Go("directives", <<>>, <<>>, Len(DirectiveIds))
          /\ UNCHANGED <<input, decls, outcome, blamed>>
     ELSE FailAtFirst(DirectiveIds)

EndDirectives == /\ Active("top_level_decl", "directives")
                 /\ Token # "NumberSign"

(* assert(mandatory = false) is false whatever mandatory is.               *)
AssertionFails == /\ EndDirectives
                  /\ assertions
                  /\ outcome' = "abort"
                  /\ UNCHANGED <<input, index, stack, result, directive_list, decls, blamed>>

LoseDirectives == <<>>   \* mutant
TakeDirectives == directive_list[1]
LeaveDirectives == UNCHANGED directive_list   \* mutant: the list is shared
DropDirectives == directive_list' = <<>>

AnyExport == Token = "KeywordExport"   \* mutant: one token of lookahead
IsRootExport == Token = "KeywordExport" /\ tokens[index + 1] = "Symbol"
RootExportIds == <<"KeywordExport", "Symbol", "StringLiteral", "Semicolon">>
RootExport ==
  /\ EndDirectives
  /\ ~assertions
  /\ IsRootExport
  /\ IF Expects(RootExportIds)
     THEN /\ decls' = Append(decls, TakeDirectives \o <<index, index + 1, index + 2>>)
          /\ DropDirectives
          /\ Go("start", <<>>, <<>>, Len(RootExportIds))
          /\ UNCHANGED <<input, outcome, blamed>>
     ELSE FailAtFirst(RootExportIds)

CallFnDef == /\ EndDirectives
             /\ ~assertions
             /\ ~IsRootExport
             /\ Go("fn_def", <<>>, <<Frame("fn_proto", "start", TRUE, index),
                                     Frame("fn_def", "proto", FALSE, index)>>, 0)
             /\ Continue

AppendFnDef == /\ Active("top_level_decl", "fn_def")
               /\ decls' = Append(decls, result)
               /\ Go("start", <<>>, <<>>, 0)
               /\ UNCHANGED <<input, directive_list, outcome, blamed>>

-----------------------------------------------------------------------------
(* ast_parse_fn_def, ast_parse_fn_proto, the parameters and types.         *)

FnBody == /\ Active("fn_def", "proto")
          /\ Go("body", result, <<Frame("block", "start", TRUE, index)>>, 0)
          /\ Continue
EndFnDef == /\ Active("fn_def", "body")
            /\ Return(Top.got \o result, 0)
            /\ Continue

Visibility == IF Token \in {"KeywordPub", "KeywordExport"} THEN <<Token>> ELSE <<>>
HeaderIds == Visibility \o <<"KeywordFn", "Symbol", "LParen">>
Header ==
  /\ Active("fn_proto", "start")
  /\ IF Expects(HeaderIds)
     THEN /\ LET name == index + Len(HeaderIds) - 2
                 visib_mod == [k \in 1..Len(Visibility) |-> index]
             IN  Go("params", TakeDirectives \o visib_mod \o <<name>>, <<>>, Len(HeaderIds))
          /\ DropDirectives
          /\ UNCHANGED <<input, decls, outcome, blamed>>
     ELSE FailAtFirst(HeaderIds)

CallType == <<Frame("type", "start", TRUE, index)>>
NoParams == /\ Active("fn_proto", "params")
            /\ Token = "RParen"
            /\ Go("arrow", Top.got, <<>>, 1)
            /\ Continue
ParamDecl ==
  /\ Active("fn_proto", "params") \/ Active("fn_proto", "next_param")
  /\ Top.at = "params" => Token # "RParen"
  /\ IF Expects(<<"Symbol", "Colon">>)
     THEN /\ Go("param", Top.got \o <<index>>, <<Frame("type", "start", TRUE, index + 2)>>, 2)
          /\ Continue
     ELSE FailAtFirst(<<"Symbol", "Colon">>)
EndParam ==
  /\ Active("fn_proto", "param")
  /\ \/ /\ Token = "RParen"
        /\ Go("arrow", Top.got \o result, <<>>, 1) /\ Continue
     \/ /\ Token = "Comma"
        /\ Go("next_param", Top.got \o result, <<>>, 1) /\ Continue
     \/ /\ Token \notin {"RParen", "Comma"}
        /\ Fail(index)

Arrow ==
  /\ Active("fn_proto", "arrow")
  /\ IF Token = "Arrow"
     THEN Go("return_type", Top.got, <<Frame("type", "start", TRUE, index + 1)>>, 1)
     ELSE Return(Top.got, 0)
  /\ Continue
EndFnProto == /\ Active("fn_proto", "return_type")
              /\ Return(Top.got \o result, 0)
              /\ Continue

(* The type behind "* mut" or "* const" is parsed by a call whose result   *)
(* the caller returns at once: one activation stands for all of them.      *)
PointerType ==
  /\ Active("type", "start")
  /\ Token = "Star"
  /\ IF tokens[index + 1] \in {"KeywordMut", "KeywordConst"}
     THEN Go("start", Top.got \o <<index, index + 1>>, <<>>, 2) /\ Continue
     ELSE Fail(index + 1)
PrimitiveType ==
  /\ Active("type", "start")
  /\ Token # "Star"
  /\ IF Token \in {"KeywordUnreachable", "Symbol"}
     THEN Return(Top.got \o <<index>>, 1) /\ Continue
     ELSE Fail(index)

-----------------------------------------------------------------------------
(* ast_parse_block and ast_parse_statement.                                *)

BeginBlock ==
  /\ Active("block", "start")
  /\ \/ /\ Token = "LBrace"
        /\ Go("statements", <<index>>, <<>>, 1) /\ Continue
     \/ /\ Token # "LBrace" /\ ~Top.mandatory
        /\ Return(None, 0) /\ Continue
     \/ /\ Token # "LBrace" /\ Top.mandatory
        /\ Fail(index)
Statement == /\ Active("block", "statements")
             /\ Token # "RBrace"
             /\ Go("semicolon", Top.got, <<Frame("expression", "start", TRUE, index)>>, 0)
             /\ Continue
(* The semicolon is expected and stays the next token.                     *)
EndStatement ==
  /\ Active("block", "semicolon")
  /\ IF Token = "Semicolon"
     THEN Go("statements", Top.got \o result, <<>>, 0) /\ Continue
     ELSE Fail(index)
EndBlock == /\ Active("block", "statements")
            /\ Token = "RBrace"
            /\ Return(Top.got, 1)
            /\ Continue

-----------------------------------------------------------------------------
(* The functions of the binary operators, loosest first.  Each calls the   *)
(* next before it looks at a token; behind the last come                   *)
(* ast_parse_cast_expression and ast_parse_prefix_op_expr.                 *)
Binary == <<"bool_or_expr", "bool_and_expr", "comparison_expr", "bin_or_expr", "bin_xor_expr",
            "bin_and_expr", "bit_shift_expr", "add_expr", "mult_expr">>
Operator ==
  [bool_or_expr |-> {"BoolOr"}, bool_and_expr |-> {"BoolAnd"},
   comparison_expr |-> {"CmpEq", "CmpNotEq", "CmpLessThan", "CmpGreaterThan",
                        "CmpLessOrEq", "CmpGreaterOrEq"},
   bin_or_expr |-> {"BinOr"}, bin_xor_expr |-> {"BinXor"}, bin_and_expr |-> {"BinAnd"},
   bit_shift_expr |-> {"BitShiftLeft", "BitShiftRight"},
   add_expr |-> {"Plus", "Dash"}, mult_expr |-> {"Star", "Slash", "Percent"}]

(* The activations of a call of Binary[n], down to the first that reads.   *)
CallFrom(n, mandatory, from) ==
  <<Frame("prefix_op_expr", "start", mandatory, from),
    Frame("cast_expression", "operand_1", mandatory, from)>>
  \o [k \in 1..Len(Binary) + 1 - n |->
        Frame(Binary[Len(Binary) + 1 - k], "operand_1", mandatory, from)]
BinaryAt(at) == {n \in 1..Len(Binary) : Active(Binary[n], at)}

(* The tests that are inverted in the code: ast_parse_bool_and_expr gives  *)
(* up when it has an operand, and ast_parse_bin_xor_expr takes any token   *)
(* but "^" for its operator.                                               *)
GivesUp(n) == IF Binary[n] = "bool_and_expr" THEN result # None ELSE result = None
HasOperator(n) == IF Binary[n] = "bin_xor_expr" THEN Token # "BinXor"
                                                ELSE Token \in Operator[Binary[n]]

NoOperand == \E n \in BinaryAt("operand_1") :
  GivesUp(n) /\ Return(None, 0) /\ Continue
NoOperator == \E n \in BinaryAt("operand_1") :
  ~GivesUp(n) /\ ~HasOperator(n) /\ Return(result, 0) /\ Continue
TakeOperator == \E n \in BinaryAt("operand_1") :
  /\ ~GivesUp(n)
  /\ HasOperator(n)
  /\ Go("operand_2", result \o <<index>>, CallFrom(n + 1, TRUE, index + 1), 1)
  /\ Continue
EndBinary == \E n \in BinaryAt("operand_2") :
  Return(Top.got \o result, 0) /\ Continue

EndCast == /\ Active("cast_expression", "operand_1")
           /\ IF result # None /\ Token = "KeywordAs"
              THEN Go("type", result \o <<index>>, <<Frame("type", "start", TRUE, index + 1)>>, 1)
              ELSE Return(result, 0)
           /\ Continue
CastType == /\ Active("cast_expression", "type")
            /\ Return(Top.got \o result, 0)
            /\ Continue

-----------------------------------------------------------------------------
(* The tightest functions.                                                 *)

(* ast_parse_prefix_op_expr is the one that reads behind TakeOperator,     *)
(* which may have stepped over the end of the file.                        *)
ReadsBehindEnd == /\ Active("prefix_op_expr", "start")
                  /\ index > Len(tokens)
                  /\ outcome' = "undefined"
                  /\ UNCHANGED <<input, index, stack, result, directive_list, decls, blamed>>

PrefixOp == {"Bang", "Dash", "Tilde"}
AsCaller(op) == Top.mandatory   \* mutant: the operand may be missing
OperandMandatory(op) == op # <<>> \/ Top.mandatory
BeginPrefix ==
  /\ Active("prefix_op_expr", "start")
  /\ index <= Len(tokens)
  /\ LET op == IF Token \in PrefixOp THEN <<index>> ELSE <<>>
         mandatory == OperandMandatory(op)
         from == index + Len(op)
     IN  Go("operand", op, <<Frame("primary_expr", "start", mandatory, from),
                             Frame("fn_call_expr", "fn_ref", mandatory, from)>>, Len(op))
  /\ Continue
EndPrefix == /\ Active("prefix_op_expr", "operand")
             /\ Return(IF result = None THEN None ELSE Top.got \o result, 0)
             /\ Continue

(* The argument list begins by expecting ")" at the "(".                   *)
FnCall == /\ Active("fn_call_expr", "fn_ref")
          /\ IF result # None /\ Token = "LParen"
             THEN Fail(index)
             ELSE Return(result, 0) /\ Continue

Atom == {"NumberLiteral", "StringLiteral", "KeywordUnreachable", "Symbol"}
AtomExpr == /\ Active("primary_expr", "start")
            /\ Token \in Atom
            /\ Return(<<index>>, 1)
            /\ Continue
TryBlock == /\ Active("primary_expr", "start")
            /\ Token \notin Atom
            /\ Go("block", <<>>, <<Frame("block", "start", FALSE, index)>>, 0)
            /\ Continue
BlockExpr == /\ Active("primary_expr", "block")
             /\ result # None
             /\ Return(result, 0)
             /\ Continue
GroupedExpr ==
  /\ Active("primary_expr", "block")
  /\ result = None
  /\ \/ /\ Token = "LParen"
        /\ Go("grouped", <<>>, <<Frame("expression", "start", TRUE, index + 1)>>, 1) /\ Continue
     \/ /\ Token # "LParen" /\ ~Top.mandatory
        /\ Return(None, 0) /\ Continue
     \/ /\ Token # "LParen" /\ Top.mandatory
        /\ Fail(index)
EndGrouped == /\ Active("primary_expr", "grouped")
              /\ IF Token = "RParen" THEN Return(result, 1) /\ Continue ELSE Fail(index)

-----------------------------------------------------------------------------
(* ast_parse_expression and ast_parse_return_expr.                         *)

ReturnExpr == /\ Active("expression", "start")
              /\ Token = "KeywordReturn"
              /\ Go("return", <<index>>, <<Frame("expression", "start", FALSE, index + 1)>>, 1)
              /\ Continue
EndReturn == /\ Active("expression", "return")
             /\ Return(Top.got \o result, 0)
             /\ Continue
Operand == /\ Active("expression", "start")
           /\ Token # "KeywordReturn"
           /\ Go("operand", <<>>, CallFrom(1, FALSE, index), 0)
           /\ Continue
NeverMissing == FALSE   \* mutant: mandatory is ignored
Missing == result = None /\ Top.mandatory
EndExpression ==
  /\ Active("expression", "operand")
  /\ \/ ~Missing /\ Return(result, 0) /\ Continue
     \/ Missing /\ Fail(Top.from)

-----------------------------------------------------------------------------
TopLevel == \/ BeginDecl \/ Directive \/ AssertionFails \/ RootExport \/ CallFnDef \/ AppendFnDef
Fn == \/ FnBody \/ EndFnDef \/ Header \/ NoParams \/ ParamDecl \/ EndParam \/ Arrow \/ EndFnProto
      \/ PointerType \/ PrimitiveType
Body == \/ BeginBlock \/ Statement \/ EndStatement \/ EndBlock
        \/ ReturnExpr \/ EndReturn \/ Operand \/ EndExpression
Operations == \/ NoOperand \/ NoOperator \/ TakeOperator \/ EndBinary \/ EndCast \/ CastType
              \/ ReadsBehindEnd \/ BeginPrefix \/ EndPrefix \/ FnCall
              \/ AtomExpr \/ TryBlock \/ BlockExpr \/ GroupedExpr \/ EndGrouped
Next == TopLevel \/ Fn \/ Body \/ Operations

(* The program runs on.                                                    *)
Spec == Init /\ [][Next]_vars /\ WF_vars(Next)
-----------------------------------------------------------------------------
(* Properties.                                                             *)

Function == {"top_level_decl", "fn_def", "fn_proto", "type", "block", "expression",
             "cast_expression", "prefix_op_expr", "fn_call_expr", "primary_expr"}
            \cup {Binary[n] : n \in 1..Len(Binary)}
Node == Seq(1..Len(tokens))
Place == {"start", "directives", "fn_def", "proto", "body", "params", "param", "next_param",
          "arrow", "return_type", "statements", "semicolon", "return", "operand_1", "operand_2",
          "operand", "type", "fn_ref", "block", "grouped"}
Activation == [fn : Function, at : Place, mandatory : BOOLEAN, got : Node,
               from : 1..Len(tokens) + 1]

(* Every variable keeps its type.  Only the operand of TakeOperator may    *)
(* begin behind the end of the file.                                       *)
TypeOK == /\ index \in 1..Len(tokens) + 1
          /\ outcome \in {"running", "error", "abort", "undefined"}
          /\ blamed \in 0..Len(tokens)
          /\ result \in Node
          /\ Len(directive_list) <= 1 /\ directive_list \in Seq(Node)
          /\ decls \in Seq(Node)
          /\ stack \in Seq(Activation)

(* The assertion at the head of the loop over the declarations, and its    *)
(* point: while a declaration is parsed the list of its directives is      *)
(* either pc's or the node's.                                              *)
ListIsFree ==
  /\ (stack # <<>> /\ Top.at = "start" /\ Top.fn = "top_level_decl") => directive_list = <<>>
  /\ \A f \in {stack[k] : k \in DOMAIN stack} :
       f.fn \in {"fn_def", "fn_proto"} /\ f.at \notin {"start", "proto"} => directive_list = <<>>

(* No token is in two nodes or before an earlier one, and none is in a     *)
(* node before the parser has stepped over it: in the declarations, then   *)
(* the directives, then the unfinished nodes, innermost last, and at last  *)
(* the result.                                                             *)
Ordered(s) == \A j, k \in DOMAIN s : j < k => s[j] < s[k]
Before(s, t) == \A j \in DOMAIN s, k \in DOMAIN t : s[j] < t[k]
Passed(s) == \A k \in DOMAIN s : s[k] < index
Declared == {decls[k] : k \in DOMAIN decls}
Listed == {directive_list[k] : k \in DOMAIN directive_list}
Opened == {stack[k].got : k \in DOMAIN stack}
TreeInOrder ==
  /\ \A s \in Declared \cup Listed \cup Opened \cup {result} : Ordered(s) /\ Passed(s)
  /\ \A j, k \in DOMAIN decls : j < k => Before(decls[j], decls[k])
  /\ \A s \in Declared, t \in Listed \cup Opened \cup {result} : Before(s, t)
  /\ \A s \in Listed, t \in Opened \cup {result} : Before(s, t)
  /\ \A j, k \in DOMAIN stack : j < k => Before(stack[k].got, stack[j].got)
  /\ \A s \in Opened : Before(s, result)

(* The activations, the directive list and the nodes fit together.         *)
StackConsistent == TypeOK /\ ListIsFree /\ TreeInOrder

(* When a declaration ends, every token that says something is in the      *)
(* tree; the tokens that only separate others are not, nor are the         *)
(* parameters of directives, which the parser drops (lines 367-371).       *)
Silent == {"NumberSign", "KeywordFn", "LParen", "RParen", "RBrace", "Comma", "Colon",
           "Semicolon", "Arrow"}
Speaks(k) == tokens[k] \notin Silent /\ ~(k > 3 /\ tokens[k - 3] = "NumberSign")
TokensOf(s) == {s[k] : k \in DOMAIN s}
TreeIsText == (stack # <<>> /\ Top.fn = "top_level_decl" /\ Top.at = "start") =>
  UNION {TokensOf(s) : s \in Declared} = {k \in 1..index - 1 : Speaks(k)}

(* The declarations that a text leads with, by a finite automaton: in its  *)
(* state q the token id leads to the state r.                              *)
Moves ==
  {<<"decl", "NumberSign", "sign">>, <<"sign", "Symbol", "name">>, <<"name", "LParen", "value">>,
   <<"value", "StringLiteral", "decl">>,
   <<"decl", "KeywordExport", "export">>, <<"export", "Symbol", "exported">>,
   <<"exported", "StringLiteral", "library">>, <<"library", "Semicolon", "decl">>,
   <<"decl", "KeywordPub", "visible">>, <<"visible", "KeywordFn", "fn">>,
   <<"export", "KeywordFn", "fn">>, <<"decl", "KeywordFn", "fn">>, <<"fn", "Symbol", "fn_name">>,
   <<"fn_name", "LParen", "params">>, <<"params", "RParen", "arrow">>,
   <<"params", "Symbol", "param">>, <<"next_param", "Symbol", "param">>,
   <<"param", "Colon", "type">>, <<"type", "Star", "pointer">>, <<"pointer", "KeywordMut", "type">>,
   <<"pointer", "KeywordConst", "type">>, <<"type", "Symbol", "param_end">>,
   <<"type", "KeywordUnreachable", "param_end">>, <<"param_end", "Comma", "next_param">>,
   <<"param_end", "RParen", "arrow">>, <<"arrow", "Arrow", "return_type">>,
   <<"return_type", "Star", "return_pointer">>, <<"return_pointer", "KeywordMut", "return_type">>,
   <<"return_pointer", "KeywordConst", "return_type">>, <<"return_type", "Symbol", "end">>,
   <<"return_type", "KeywordUnreachable", "end">>, <<"arrow", "LBrace", "body">>,
   <<"end", "LBrace", "body">>, <<"body", "RBrace", "decl">>}
Leads(q, id) == IF \E r \in Moves : r[1] = q /\ r[2] = id
                THEN (CHOOSE r \in Moves : r[1] = q /\ r[2] = id)[3] ELSE "dead"
(* The state behind the first k tokens, and how many declarations they are.*)
After(s, id) ==
  LET q == Leads(s.at, id)
  IN  [at |-> q, n |-> IF q = "decl" /\ s.at # "value" THEN s.n + 1 ELSE s.n]
Leading[k \in 0..Len(tokens)] ==
  IF k = 0 THEN [at |-> "decl", n |-> 0] ELSE After(Leading[k - 1], tokens[k])
InDirectives == {"decl", "sign", "name", "value"}

(* How the parser ends.  With assertions it never gets to a declaration:   *)
(* behind the directives it aborts, at an assignment where a comparison is *)
(* meant (line 1117).  Without, it enters the declarations that the text   *)
(* leads with, a function with an empty body being the only one it can     *)
(* finish, and stops at the next: with an error at a token of it, a use or *)
(* extern declaration or the end of the file included (line 1032), or by   *)
(* reading behind the end if the text ends behind an operand (line 787).   *)
Ender == Atom \cup {"RBrace", "RParen"}
AcceptsLeading ==
  /\ outcome \in {"error", "undefined"} /\ ~assertions => Len(decls) = Leading[Len(tokens)].n
  /\ outcome = "undefined" => ~assertions /\ Len(tokens) > 1 /\ tokens[Len(tokens) - 1] \in Ender
  /\ outcome # "running" /\ assertions =>
       /\ decls = <<>>
       /\ outcome = "abort" <=>
            \E k \in 0..Len(tokens) - 1 :
              /\ \A j \in 0..k : Leading[j].at \in InDirectives
              /\ Leading[k].at = "decl" /\ tokens[k + 1] # "NumberSign"

(* A function that returns null has stepped over nothing, so that its      *)
(* caller may try another one, and one that was told that its node is      *)
(* mandatory returns a node.  ast_parse_bool_and_expr keeps neither, and   *)
(* the two functions that return what it returns do not (lines 874-891).   *)
Lenient == {"bool_or_expr", "bool_and_expr"}
ReturnContract ==
  [][\A f \in {Top} : (stack' = Tail(stack) /\ f.fn \notin Lenient /\ result' = None) =>
       /\ ~f.mandatory
       /\ f.fn # "expression" => index' = f.from]_vars

(* Parsing ends: each loop steps over a token, returns or fails in every   *)
(* round, and so does the recursion.                                       *)
Terminates == <>(outcome # "running")
=============================================================================
