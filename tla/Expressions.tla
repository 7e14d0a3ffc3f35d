----------------------------- MODULE Expressions -----------------------------
(***************************************************************************)
(* analyze_expression of src/analyze.cpp.  A node is a record with a kind  *)
(* and the fields of that kind; a result is the type entry returned, the   *)
(* messages added to g->errors and whether the compiler stopped.           *)
(***************************************************************************)
EXTENDS Types, FiniteSets, SequencesExt

Result(type, errors) == [type |-> type, errors |-> errors, panic |-> FALSE]
Panics(results) == \E i \in DOMAIN results : results[i].panic
ErrorsOf(results) == UNION {results[i].errors : i \in DOMAIN results}

CheckTypeCompatibility(expected, actual) ==
  IF \/ expected = actual
     \/ EntryInvalid \in {expected, actual}
     \/ actual = EntryUnreachable
  THEN {}
  ELSE {"type mismatch"}

(* What is expected of arguments: no type (null) of a surplus one, nor of  *)
(* those of an unknown function; the same holds of statements.             *)
Nothing(nodes) == [i \in DOMAIN nodes |-> EntryVoid]
Expected(params, args) ==
  [i \in DOMAIN args |-> IF i <= Len(params) THEN params[i] ELSE EntryVoid]

(* The statements before the first one behind an unreachable one.          *)
AllReached(types) == DOMAIN types   \* mutant: no check for unreachable code
Reached(types) == {i \in DOMAIN types : \A j \in 1..i-1 : types[j] # EntryUnreachable}

(* table: the signatures in g->fn_table; returns: the entry of the return  *)
(* type of the function around the node.                                   *)
RECURSIVE AnalyzeExpression(_, _, _, _), AnalyzeEach(_, _, _, _)

(* Nodes one after the other, each with the type expected of it.           *)
AnalyzeEach(table, returns, expected, nodes) ==
  IF nodes = <<>> THEN <<>>
  ELSE <<AnalyzeExpression(table, returns, expected[1], nodes[1])>> \o
       AnalyzeEach(table, returns, Tail(expected), Tail(nodes))

AnalyzeExpression(table, returns, expected, node) ==
  CASE node.kind = "Block" ->
         LET results == AnalyzeEach(table, returns, Nothing(node.statements), node.statements)
             reached == Cardinality(Reached([i \in DOMAIN results |-> results[i].type]))
             done    == SubSeq(results, 1, reached)
         IN  [type   |-> IF done = <<>> THEN EntryVoid ELSE Last(done).type,
              errors |-> ErrorsOf(done) \cup (IF reached < Len(results)
                                              THEN {"unreachable code"} ELSE {}),
              panic  |-> Panics(done)]
    [] node.kind = "Return" ->
         LET value  == IF node.value = <<>> THEN Result(EntryVoid, {})
                       ELSE AnalyzeExpression(table, returns, returns, node.value[1])
             errors == IF value.type = EntryUnreachable
                       THEN {"returning is unreachable"}
                       ELSE CheckTypeCompatibility(returns, value.type)
         IN  [value EXCEPT !.type = EntryUnreachable, !.errors = @ \cup errors]
    [] node.kind = "BinOp" ->
         LET results == AnalyzeEach(table, returns, <<expected, expected>>, node.operands)
         IN  [type |-> expected, errors |-> ErrorsOf(results), panic |-> Panics(results)]
    [] node.kind = "Call" /\ node.callee \notin DOMAIN table ->
         LET results == AnalyzeEach(table, returns, Nothing(node.args), node.args)
         IN  [type |-> EntryInvalid, panic |-> Panics(results),
              errors |-> {"undefined function"} \cup ErrorsOf(results)]
    [] node.kind = "Call" /\ node.callee \in DOMAIN table ->
         LET fn      == table[node.callee]
             results == AnalyzeEach(table, returns,
                          Expected(fn.params, node.args), node.args)
             count   == IF Len(fn.params) = Len(node.args) THEN {}
                        ELSE {"wrong number of argument"}
         IN  [type |-> fn.returns, panic |-> Panics(results),
              errors |-> count \cup ErrorsOf(results) \cup
                         CheckTypeCompatibility(expected, fn.returns)]
    [] node.kind = "Number" -> Result(EntryI32, {})
    [] node.kind = "Unreachable" -> Result(EntryUnreachable, {})
    [] node.kind \in {"String", "Symbol", "Cast", "PrefixOp"} ->
         [Result(EntryInvalid, {}) EXCEPT !.panic = TRUE]
=============================================================================
