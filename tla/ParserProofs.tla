---------------------------- MODULE ParserProofs -----------------------------
(***************************************************************************)
(* Proof that the recursive descent of ast_parse keeps its activations,    *)
(* the directive list and the tree consistent, that it looks behind the    *)
(* end of the tokens in one place only, that its functions keep their      *)
(* contract about null, that the declarations it has stored hold all the   *)
(* text it has stepped over, and that it ends with the declarations that   *)
(* a finite automaton reads from the head of the text, for every sequence  *)
(* of tokens.                                                              *)
(***************************************************************************)
EXTENDS Parser, SequenceTheorems, WellFoundedInduction, TLAPS

-----------------------------------------------------------------------------
(* The invariant.                                                          *)

(* The function that the n-th function of the binary operators calls.      *)
Tighter(n) == IF n = 9 THEN "cast_expression" ELSE Binary[n + 1]
Same(g, f) == f.mandatory = g.mandatory /\ f.from = g.from

(* The activation g waits for what the activation f returns.               *)
Awaits(g, f) ==
  \/ g.fn = "top_level_decl" /\ g.at = "fn_def" /\ f.fn = "fn_def"
  \/ g.fn = "fn_def" /\ g.at = "proto" /\ f.fn = "fn_proto"
  \/ g.fn = "fn_def" /\ g.at = "body" /\ f.fn = "block" /\ f.mandatory
  \/ g.fn = "fn_proto" /\ g.at \in {"param", "return_type"} /\ f.fn = "type"
  \/ g.fn = "block" /\ g.at = "semicolon" /\ f.fn = "expression" /\ f.mandatory
  \/ g.fn = "expression" /\ g.at = "return" /\ f.fn = "expression"
  \/ g.fn = "expression" /\ g.at = "operand" /\ f.fn = "bool_or_expr"
  \/ \E n \in 1..9 : /\ g.fn = Binary[n] /\ f.fn = Tighter(n)
                     /\ \/ g.at = "operand_1" /\ Same(g, f)
                        \/ g.at = "operand_2" /\ f.mandatory
  \/ g.fn = "cast_expression" /\ g.at = "operand_1" /\ f.fn = "prefix_op_expr" /\ Same(g, f)
  \/ g.fn = "cast_expression" /\ g.at = "type" /\ f.fn = "type"
  \/ /\ g.fn = "prefix_op_expr" /\ g.at = "operand" /\ f.fn = "fn_call_expr"
     /\ IF g.got = <<>> THEN Same(g, f) ELSE f.mandatory
  \/ g.fn = "fn_call_expr" /\ g.at = "fn_ref" /\ f.fn = "primary_expr" /\ Same(g, f)
  \/ g.fn = "primary_expr" /\ g.at = "block" /\ f.fn = "block" /\ f.from = g.from
  \/ g.fn = "primary_expr" /\ g.at = "grouped" /\ f.fn = "expression" /\ f.mandatory

(* What f promises of the node r it returns with the index at i.           *)
Promises(f, r, i) ==
  r = None => /\ f.fn \notin {"fn_def", "fn_proto", "type"}
              /\ f.fn \notin Lenient => ~f.mandatory /\ (f.fn # "expression" => i = f.from)

(* An activation has begun its node where it waits for the rest of it.     *)
Filled == {"body", "params", "param", "next_param", "arrow", "return_type", "statements",
           "semicolon", "operand_2", "type", "return"}
FrameOK(f) ==
  /\ f.fn = "expression" => f.from <= Len(tokens)
  /\ f.at \in Filled => f.got # <<>>
  /\ f.fn = "top_level_decl" \/ f.at = "proto" => f.got = <<>>

(* All activations but the innermost wait for the one before them.         *)
StackOK ==
  /\ stack \in Seq(Activation) /\ stack # <<>>
  /\ \A k \in 1..Len(stack) : FrameOK(stack[k])
  /\ \A k \in 1..Len(stack) - 1 : Awaits(stack[k + 1], stack[k])
  /\ stack[Len(stack)].fn = "top_level_decl"

(* The innermost is about to read the token at i, or has the r that it     *)
(* waited for.                                                             *)
Reads(f, i) ==
  \/ f.fn = "prefix_op_expr" /\ f.at = "start" /\ i = f.from
  \/ /\ i <= Len(tokens)
     /\ \/ f.at \in {"directives", "params", "next_param", "arrow", "statements"}
        \/ f.at = "start" /\ f.fn \in {"top_level_decl", "type"}
        \/ /\ f.at = "start" /\ f.fn \in {"fn_proto", "block", "primary_expr", "expression"}
           /\ i = f.from
Served(g, r, i) ==
  i <= Len(tokens) /\ \E f \in Activation : Awaits(g, f) /\ Promises(f, r, i)
TopOK == Reads(Top, index) \/ Served(Top, result, index)

(* pc has a list only until somebody takes it.                             *)
Lists(f) == \/ f.fn = "top_level_decl" /\ f.at = "directives"
            \/ f.fn = "fn_proto" /\ f.at = "start"
DirectivesOK == IF Lists(Top) THEN Len(directive_list) = 1 ELSE directive_list = <<>>

IInv == /\ tokens \in Texts
        /\ assertions \in Builds
        /\ TypeOK
        /\ StackOK
        /\ TopOK
        /\ DirectivesOK
        /\ TreeInOrder

(* What a step keeps, and what it promises if it returns.                  *)
StepOK == IInv' /\ (stack' = Tail(stack) => Promises(Top, result', index'))

-----------------------------------------------------------------------------
(* The names of the functions of binary operators.                         *)
LEMMA BinaryNames ==
  /\ Len(Binary) = 9
  /\ Binary[1] = "bool_or_expr" /\ Binary[2] = "bool_and_expr"
  /\ Binary[3] = "comparison_expr" /\ Binary[4] = "bin_or_expr"
  /\ Binary[5] = "bin_xor_expr" /\ Binary[6] = "bin_and_expr"
  /\ Binary[7] = "bit_shift_expr" /\ Binary[8] = "add_expr" /\ Binary[9] = "mult_expr"
BY DEF Binary

(* The levels are different, and none is one of the other functions.       *)
Others == {"top_level_decl", "fn_def", "fn_proto", "type", "block", "expression",
           "cast_expression", "prefix_op_expr", "fn_call_expr", "primary_expr"}

(* Each level has a name of its own.                                       *)
LEMMA Levels ==
  /\ Function = Others \cup {Binary[n] : n \in 1..9}
  /\ \A n \in 1..9 : Binary[n] \in Function /\ Binary[n] \notin Others
  /\ \A m, n \in 1..9 : Binary[m] = Binary[n] => m = n
  /\ \A n \in 1..9 : n <= 2 <=> Binary[n] \in Lenient
  /\ Lenient \cap Others = {}
<1>1. \A n \in 1..9 : n = 1 \/ n = 2 \/ n = 3 \/ n = 4 \/ n = 5 \/ n = 6 \/ n = 7 \/ n = 8 \/ n = 9
  OBVIOUS
<1>2. \A n \in 1..9 : Binary[n] \notin Others
  BY <1>1, BinaryNames DEF Others
<1>3. \A m, n \in 1..9 : Binary[m] = Binary[n] => m = n
  BY <1>1, BinaryNames
<1>4. \A n \in 1..9 : n <= 2 <=> Binary[n] \in Lenient
  BY <1>1, BinaryNames DEF Lenient
<1>5. Function = Others \cup {Binary[n] : n \in 1..9}
  BY BinaryNames DEF Function, Others
<1>6. Lenient \cap Others = {}
  BY DEF Lenient, Others
<1> QED BY <1>2, <1>3, <1>4, <1>5, <1>6

-----------------------------------------------------------------------------
(* Stacks.                                                                 *)

(* The activations cs are called by x, which takes the place of the top.   *)
LEMMA StackGrows ==
  ASSUME NEW S, NEW cs \in Seq(S), NEW x \in S, NEW s \in Seq(S), s # <<>>,
         NEW t, t = cs \o <<x>> \o Tail(s)
  PROVE  /\ t \in Seq(S) /\ t # <<>> /\ Len(t) = Len(cs) + Len(s)
         /\ Len(cs) \in Nat /\ Len(s) \in Nat /\ Len(s) >= 1
         /\ \A k \in 1..Len(cs) : t[k] = cs[k]
         /\ t[Len(cs) + 1] = x
         /\ \A k \in Len(cs) + 2..Len(t) : t[k] = s[k - Len(cs)]
<1> DEFINE one == <<x>>
           rest == Tail(s)
           front == cs \o one
           a == Len(cs)
           b == Len(s)
<1>1. one \in Seq(S) /\ Len(one) = 1 /\ one[1] = x
  OBVIOUS
<1>2. /\ rest \in Seq(S) /\ Len(rest) = b - 1
      /\ \A i \in 1..Len(rest) : rest[i] = s[i + 1]
  BY HeadTailProperties
<1>3. a \in Nat /\ b \in Nat /\ b >= 1
  BY LenProperties, EmptySeq
<1>4. t = front \o rest
  OBVIOUS
<1> HIDE DEF one, rest, a, b
<1>5. /\ front \in Seq(S) /\ Len(front) = Len(cs) + Len(one)
      /\ \A i \in 1..Len(cs) + Len(one) :
           front[i] = IF i <= Len(cs) THEN cs[i] ELSE one[i - Len(cs)]
  BY <1>1, ConcatProperties
<1> HIDE DEF front
<1>6. /\ front \o rest \in Seq(S) /\ Len(front \o rest) = Len(front) + Len(rest)
      /\ \A i \in 1..Len(front) + Len(rest) :
           (front \o rest)[i] = IF i <= Len(front) THEN front[i] ELSE rest[i - Len(front)]
  <2>1. front \in Seq(S) /\ rest \in Seq(S)
    BY <1>2, <1>5
  <2> QED BY <2>1, ConcatProperties
<1>7. Len(cs) = a /\ Len(s) = b /\ Len(front) = a + 1 /\ Len(rest) = b - 1
  BY <1>1, <1>2, <1>5 DEF a, b
<1>8. /\ t \in Seq(S) /\ Len(t) = a + b
      /\ \A i \in 1..a + b : t[i] = IF i <= a + 1 THEN front[i] ELSE rest[i - (a + 1)]
  <2>1. Len(front) + Len(rest) = a + b
    BY <1>3, <1>7
  <2> QED BY <1>4, <1>6, <1>7, <2>1
<1>9. \A i \in 1..a + 1 : front[i] = IF i <= a THEN cs[i] ELSE one[i - a]
  BY <1>1, <1>5, <1>7
<1>10. \A k \in 1..a : t[k] = cs[k]
  BY <1>3, <1>8, <1>9
<1>11. t[a + 1] = x
  <2> DEFINE k == a + 1
  <2>1. k \in 1..a + b /\ k <= a + 1 /\ k \in 1..a + 1 /\ ~(k <= a) /\ k - a = 1
    BY <1>3
  <2> HIDE DEF k
  <2>2. t[k] = front[k]
    BY <1>8, <2>1
  <2>3. front[k] = one[1]
    BY <1>9, <2>1
  <2> QED BY <1>1, <2>2, <2>3 DEF k
<1>12. \A k \in a + 2..a + b : t[k] = s[k - a]
  <2> SUFFICES ASSUME NEW k \in a + 2..a + b PROVE t[k] = s[k - a]
    OBVIOUS
  <2> DEFINE j == k - (a + 1)
  <2>1. k \in 1..a + b /\ ~(k <= a + 1) /\ j \in 1..b - 1 /\ j + 1 = k - a
    BY <1>3
  <2>2. t[k] = rest[j]
    BY <1>8, <2>1
  <2> HIDE DEF j
  <2>3. rest[j] = s[j + 1]
    BY <1>2, <1>7, <2>1
  <2> QED BY <2>1, <2>2, <2>3
<1>13. t # <<>>
  BY <1>3, <1>8, EmptySeq
<1> QED BY <1>3, <1>7, <1>8, <1>10, <1>11, <1>12, <1>13

(* The top of a deeper stack returns.                                      *)
LEMMA StackShrinks ==
  ASSUME NEW S, NEW s \in Seq(S), Len(s) >= 2, NEW t, t = Tail(s)
  PROVE  /\ t \in Seq(S) /\ t # <<>> /\ Len(t) = Len(s) - 1 /\ Len(s) \in Nat
         /\ \A k \in 1..Len(t) : t[k] = s[k + 1]
<1>1. Len(s) \in Nat /\ s # <<>>
  BY LenProperties, EmptySeq
<1>2. t \in Seq(S) /\ Len(t) = Len(s) - 1 /\ \A k \in 1..Len(t) : t[k] = s[k + 1]
  BY <1>1, HeadTailProperties
<1> QED BY <1>1, <1>2, EmptySeq

(* What is known of the top of the stack.                                  *)
LEMMA TopFacts ==
  ASSUME IInv
  PROVE  /\ Len(stack) \in Nat /\ Len(stack) >= 1 /\ stack \in Seq(Activation)
         /\ \A k \in 1..Len(stack) : stack[k] \in Activation
         /\ Top = stack[1] /\ Top \in Activation /\ FrameOK(Top)
         /\ Top.got \in Node /\ Top.fn \in Function /\ Top.mandatory \in BOOLEAN
         /\ Top.from \in 1..Len(tokens) + 1 /\ result \in Node
         /\ index \in 1..Len(tokens) + 1 /\ Len(tokens) \in Nat /\ Len(tokens) >= 1
<1>1. Len(stack) \in Nat /\ Len(stack) >= 1 /\ stack \in Seq(Activation)
  BY LenProperties, EmptySeq DEF IInv, StackOK
<1>2. \A k \in 1..Len(stack) : stack[k] \in Activation
  BY <1>1, ElementOfSeq
<1>3. Top = stack[1]
  BY <1>1 DEF Top
<1>4. Top \in Activation /\ FrameOK(Top)
  BY <1>1, <1>2, <1>3 DEF IInv, StackOK
<1>5. Len(tokens) \in Nat /\ Len(tokens) >= 1
  <2>1. tokens \in Seq(STRING) /\ tokens # <<>>
    BY TextsAssumption DEF IInv
  <2> QED BY <2>1, LenProperties, EmptySeq
<1>6. result \in Node /\ index \in 1..Len(tokens) + 1
  BY DEF IInv, TypeOK
<1> QED BY <1>1, <1>2, <1>3, <1>4, <1>5, <1>6 DEF Activation

(* A token that is not "Eof" has another behind it.                        *)
LEMMA TokenBehind ==
  ASSUME IInv, NEW i \in 1..Len(tokens), tokens[i] # "Eof"
  PROVE  i + 1 \in 1..Len(tokens)
<1>1. \A k \in 1..Len(tokens) : tokens[k] = "Eof" <=> k = Len(tokens)
  BY TextsAssumption DEF IInv
<1> QED BY <1>1, TopFacts

-----------------------------------------------------------------------------
(* The order of the tokens in the nodes.                                   *)

(* The node g, to which a step over n tokens leads, comes behind all nodes *)
(* but the innermost one and the result, which it replaces.                *)
Follows(g, n) ==
  /\ Ordered(g)
  /\ \A k \in DOMAIN g : g[k] < index + n
  /\ \A s \in Declared \cup Listed : Before(s, g)
  /\ \A k \in 2..Len(stack) : Before(stack[k].got, g)

(* What a node is made of.                                                 *)
LEMMA NodeElements ==
  ASSUME NEW s \in Node
  PROVE  /\ DOMAIN s = 1..Len(s) /\ Len(s) \in Nat
         /\ \A k \in DOMAIN s : s[k] \in 1..Len(tokens)
<1>1. s \in Seq(1..Len(tokens))
  BY DEF Node
<1>2. DOMAIN s = 1..Len(s) /\ Len(s) \in Nat
  BY <1>1, LenProperties
<1> QED BY <1>1, <1>2, ElementOfSeq

(* Joining two nodes.                                                      *)
LEMMA NodesJoined ==
  ASSUME NEW s \in Node, NEW t \in Node
  PROVE  /\ s \o t \in Node
         /\ \A k \in DOMAIN (s \o t) : \/ k \in DOMAIN s /\ (s \o t)[k] = s[k]
                                       \/ /\ k > Len(s) /\ k - Len(s) \in DOMAIN t
                                          /\ (s \o t)[k] = t[k - Len(s)]
         /\ s # <<>> \/ t # <<>> => s \o t # <<>>
<1>1. s \in Seq(1..Len(tokens)) /\ t \in Seq(1..Len(tokens))
  BY DEF Node
<1>2. /\ s \o t \in Seq(1..Len(tokens)) /\ Len(s \o t) = Len(s) + Len(t)
      /\ \A i \in 1..Len(s) + Len(t) :
           (s \o t)[i] = IF i <= Len(s) THEN s[i] ELSE t[i - Len(s)]
  BY <1>1, ConcatProperties
<1>3. /\ Len(s) \in Nat /\ Len(t) \in Nat /\ DOMAIN s = 1..Len(s) /\ DOMAIN t = 1..Len(t)
      /\ DOMAIN (s \o t) = 1..Len(s \o t)
  BY <1>1, <1>2, LenProperties
<1> DEFINE u == s \o t
           a == Len(s)
           b == Len(t)
<1>4. /\ a \in Nat /\ b \in Nat /\ DOMAIN s = 1..a /\ DOMAIN t = 1..b /\ DOMAIN u = 1..a + b
      /\ \A i \in 1..a + b : u[i] = IF i <= a THEN s[i] ELSE t[i - a]
  BY <1>2, <1>3
<1> HIDE DEF u, a, b
<1>5. \A k \in DOMAIN u : \/ k \in DOMAIN s /\ u[k] = s[k]
                          \/ k > a /\ k - a \in DOMAIN t /\ u[k] = t[k - a]
  BY <1>4
<1>6. s # <<>> \/ t # <<>> => a + b # 0
  BY <1>1, <1>4, EmptySeq DEF a, b
<1>7. u \in Seq(1..Len(tokens)) /\ Len(u) = a + b
  BY <1>2 DEF u, a, b
<1>8. s # <<>> \/ t # <<>> => u # <<>>
  BY <1>6, <1>7, EmptySeq
<1> QED BY <1>2, <1>5, <1>8 DEF Node, u, a

(* Joining keeps the order.                                                *)
LEMMA JoinedOrder ==
  ASSUME NEW s \in Node, NEW t \in Node, NEW r
  PROVE  /\ Ordered(s) /\ Ordered(t) /\ Before(s, t) => Ordered(s \o t)
         /\ Before(r, s) /\ Before(r, t) => Before(r, s \o t)
         /\ Before(s, r) /\ Before(t, r) => Before(s \o t, r)
<1> DEFINE u == s \o t
           a == Len(s)
<1>1. /\ \A k \in DOMAIN u : \/ k \in DOMAIN s /\ u[k] = s[k]
                             \/ k > a /\ k - a \in DOMAIN t /\ u[k] = t[k - a]
      /\ DOMAIN u \subseteq Nat /\ DOMAIN s = 1..a /\ DOMAIN t \subseteq Nat /\ a \in Nat
  <2>1. DOMAIN s = 1..a /\ a \in Nat
    BY NodeElements
  <2>2. DOMAIN t \subseteq Nat
    BY NodeElements
  <2>3. DOMAIN u \subseteq Nat
    <3>1. u \in Node
      BY NodesJoined
    <3> HIDE DEF u
    <3> QED BY <3>1, NodeElements
  <2> QED BY <2>1, <2>2, <2>3, NodesJoined
<1> HIDE DEF u, a
<1>2. ASSUME Ordered(s), Ordered(t), Before(s, t)
      PROVE  Ordered(u)
  <2> SUFFICES ASSUME NEW j \in DOMAIN u, NEW k \in DOMAIN u, j < k
               PROVE  u[j] < u[k]
    BY DEF Ordered
  <2>1. CASE k \in DOMAIN s /\ u[k] = s[k]
    <3>1. j \in DOMAIN s /\ u[j] = s[j]
      BY <1>1, <2>1
    <3> QED BY <1>2, <2>1, <3>1 DEF Ordered
  <2>2. CASE k > a /\ k - a \in DOMAIN t /\ u[k] = t[k - a]
    <3>1. CASE j \in DOMAIN s /\ u[j] = s[j]
      BY <1>2, <2>2, <3>1 DEF Before
    <3>2. CASE j > a /\ j - a \in DOMAIN t /\ u[j] = t[j - a]
      <4>1. j - a < k - a
        BY <1>1, <2>2, <3>2
      <4> QED BY <1>2, <2>2, <3>2, <4>1 DEF Ordered
    <3> QED BY <1>1, <3>1, <3>2
  <2> QED BY <1>1, <2>1, <2>2
<1>3. Before(r, s) /\ Before(r, t) => Before(r, u)
  BY <1>1 DEF Before
<1>4. Before(s, r) /\ Before(t, r) => Before(u, r)
  BY <1>1 DEF Before
<1> QED BY <1>2, <1>3, <1>4 DEF u

(* The nodes there are, and their order.                                   *)
LEMMA Followers ==
  ASSUME IInv, NEW n \in Nat
  PROVE  /\ Follows(<<>>, n) /\ Follows(Top.got, n) /\ Follows(result, n)
         /\ Follows(Top.got \o result, n) /\ Top.got \o result \in Node
<1>1. /\ Top = stack[1] /\ DOMAIN stack = 1..Len(stack) /\ Len(stack) \in Nat /\ Len(stack) >= 1
      /\ Top.got \in Node /\ result \in Node /\ index \in Nat /\ Len(tokens) \in Nat
  <2>1. DOMAIN stack = 1..Len(stack)
    BY TopFacts, LenProperties
  <2> QED BY <2>1, TopFacts
<1>2. Top.got \in Opened /\ \A k \in 2..Len(stack) : stack[k].got \in Opened
  BY <1>1 DEF Opened
<1>3. TreeInOrder
  BY DEF IInv
<1>4. \A k \in 2..Len(stack) : Before(stack[k].got, Top.got)
  BY <1>1, <1>3 DEF TreeInOrder
<1>5. /\ Ordered(Top.got) /\ Ordered(result) /\ Before(Top.got, result)
      /\ Passed(Top.got) /\ Passed(result)
      /\ \A s \in Declared \cup Listed : Before(s, Top.got) /\ Before(s, result)
      /\ \A k \in 2..Len(stack) : Before(stack[k].got, result)
  BY <1>2, <1>3 DEF TreeInOrder
<1>6. Follows(<<>>, n)
  BY DEF Follows, Ordered, Before
<1>7. \A s \in Node : Passed(s) => \A k \in DOMAIN s : s[k] < index + n
  <2> SUFFICES ASSUME NEW s \in Node, Passed(s), NEW k \in DOMAIN s PROVE s[k] < index + n
    OBVIOUS
  <2>1. s[k] \in Nat /\ s[k] < index
    BY <1>1, NodeElements DEF Passed
  <2> QED BY <1>1, <2>1
<1>8. Follows(Top.got, n) /\ Follows(result, n)
  BY <1>1, <1>4, <1>5, <1>7 DEF Follows
<1> DEFINE u == Top.got \o result
<1>9. u \in Node /\ Ordered(u) /\ \A r : Before(r, Top.got) /\ Before(r, result) => Before(r, u)
  BY <1>1, <1>5, NodesJoined, JoinedOrder
<1>10. Passed(u)
  BY <1>1, <1>5, NodesJoined DEF Passed
<1> HIDE DEF u
<1>11. Follows(u, n)
  BY <1>4, <1>5, <1>7, <1>9, <1>10 DEF Follows
<1> QED BY <1>6, <1>8, <1>9, <1>11 DEF u

(* The tokens stepped over come behind them.                               *)
LEMMA TokensFollow ==
  ASSUME IInv, NEW g \in Node, Follows(g, 0), NEW n \in Nat, NEW t \in Node, Ordered(t),
         \A k \in DOMAIN t : index <= t[k] /\ t[k] < index + n
  PROVE  g \o t \in Node /\ Follows(g \o t, n)
<1>1. index \in Nat /\ Len(tokens) \in Nat
  BY TopFacts
<1>2. ASSUME NEW s, \A k \in DOMAIN s : s[k] \in Nat /\ s[k] < index
      PROVE  Before(s, t)
  BY <1>1, <1>2, NodeElements DEF Before
<1>3. TreeInOrder /\ TypeOK
  BY DEF IInv
<1>4. \A s \in Node : Passed(s) => Before(s, t)
  BY <1>1, <1>2, NodeElements DEF Passed
<1>5. Before(g, t)
  <2>1. Passed(g)
    BY <1>1 DEF Follows, Passed
  <2> QED BY <1>4, <2>1
<1>6. \A s \in Declared \cup Listed : s \in Node /\ Passed(s)
  <2>1. \A s \in Declared \cup Listed : s \in Node
    <3>1. /\ DOMAIN decls = 1..Len(decls) /\ \A k \in 1..Len(decls) : decls[k] \in Node
          /\ DOMAIN directive_list = 1..Len(directive_list)
          /\ \A k \in 1..Len(directive_list) : directive_list[k] \in Node
      BY <1>3, LenProperties, ElementOfSeq DEF TypeOK
    <3> QED BY <3>1 DEF Declared, Listed
  <2> QED BY <1>3, <2>1 DEF TreeInOrder
<1>7. \A k \in 2..Len(stack) : stack[k].got \in Node /\ Passed(stack[k].got)
  <2> SUFFICES ASSUME NEW k \in 2..Len(stack)
               PROVE  stack[k].got \in Node /\ Passed(stack[k].got)
    OBVIOUS
  <2>1. k \in 1..Len(stack) /\ DOMAIN stack = 1..Len(stack)
    BY TopFacts, LenProperties
  <2>2. stack[k] \in Activation /\ stack[k].got \in Opened
    BY <2>1, TopFacts DEF Opened
  <2> QED BY <1>3, <2>2 DEF Activation, TreeInOrder
<1> DEFINE u == g \o t
<1>8. u \in Node /\ Ordered(u) /\ \A r : Before(r, g) /\ Before(r, t) => Before(r, u)
  BY <1>5, NodesJoined, JoinedOrder DEF Follows
<1>9. \A k \in DOMAIN u : u[k] < index + n
  <2>1. \A k \in DOMAIN g : g[k] < index + n
    <3> SUFFICES ASSUME NEW k \in DOMAIN g PROVE g[k] < index + n
      OBVIOUS
    <3>1. g[k] < index + 0 /\ g[k] \in Nat
      BY <1>1, NodeElements DEF Follows
    <3> QED BY <1>1, <3>1
  <2> QED BY <2>1, NodesJoined
<1> HIDE DEF u
<1>10. Follows(u, n)
  BY <1>4, <1>6, <1>7, <1>8, <1>9 DEF Follows
<1> QED BY <1>8, <1>10 DEF u

(* One token, or two.                                                      *)
LEMMA TokenFollows ==
  ASSUME IInv, NEW g \in Node, Follows(g, 0), index <= Len(tokens)
  PROVE  /\ g \o <<index>> \in Node /\ g \o <<index>> # <<>> /\ Follows(g \o <<index>>, 1)
         /\ <<index>> \in Node /\ <<index>> # <<>> /\ Follows(<<index>>, 1)
         /\ index + 1 <= Len(tokens) =>
              g \o <<index, index + 1>> \in Node /\ Follows(g \o <<index, index + 1>>, 2)
              /\ g \o <<index, index + 1>> # <<>>
<1>1. index \in 1..Len(tokens) /\ Len(tokens) \in Nat
  BY TopFacts
<1> DEFINE t == <<index>>
<1>2. t \in Node /\ t # <<>> /\ Ordered(t) /\ \A k \in DOMAIN t : index <= t[k] /\ t[k] < index + 1
  BY <1>1 DEF Node, Ordered
<1> HIDE DEF t
<1>3. g \o t \in Node /\ Follows(g \o t, 1) /\ g \o t # <<>>
  BY <1>2, TokensFollow, NodesJoined
<1>4. Follows(t, 1)
  <2>1. Follows(<<>>, 0) /\ <<>> \in Node
    BY Followers DEF Node
  <2>2. Follows(<<>> \o t, 1)
    BY <1>2, <2>1, TokensFollow
  <2>3. <<>> \o t = t
    BY <1>2, ConcatEmptySeq DEF Node
  <2> QED BY <2>2, <2>3
<1>5. ASSUME index + 1 <= Len(tokens)
      PROVE  g \o <<index, index + 1>> \in Node /\ Follows(g \o <<index, index + 1>>, 2)
             /\ g \o <<index, index + 1>> # <<>>
  <2> DEFINE p == <<index, index + 1>>
  <2>1. /\ p \in Node /\ p # <<>> /\ Ordered(p)
        /\ \A k \in DOMAIN p : index <= p[k] /\ p[k] < index + 2
    BY <1>1, <1>5 DEF Node, Ordered
  <2> HIDE DEF p
  <2>2. g \o p \in Node /\ Follows(g \o p, 2) /\ g \o p # <<>>
    BY <2>1, TokensFollow, NodesJoined
  <2> QED BY <2>2 DEF p
<1> QED BY <1>2, <1>3, <1>4, <1>5 DEF t

-----------------------------------------------------------------------------
(* Steps of an activation.                                                 *)

(* The innermost activation, moved on.                                     *)
Moved(at, got) == [Top EXCEPT !.at = at, !.got = got]

(* It changes its place and its nodes only.                                *)
LEMMA MovedFacts ==
  ASSUME IInv, NEW at \in Place, NEW got \in Node
  PROVE  LET m == Moved(at, got)
         IN  /\ m \in Activation /\ m.fn = Top.fn /\ m.at = at /\ m.got = got
             /\ m.mandatory = Top.mandatory /\ m.from = Top.from
<1>1. Top \in Activation
  BY TopFacts
<1> DEFINE x == Top
<1>2. x \in [fn : Function, at : Place, mandatory : BOOLEAN, got : Node, from : 1..Len(tokens) + 1]
  BY <1>1 DEF Activation
<1>3. Moved(at, got) = [x EXCEPT !.at = at, !.got = got]
  BY DEF Moved
<1> HIDE DEF x
<1>4. LET m == [x EXCEPT !.at = at, !.got = got]
      IN  /\ m \in [fn : Function, at : Place, mandatory : BOOLEAN, got : Node,
                      from : 1..Len(tokens) + 1]
          /\ m.fn = x.fn /\ m.at = at /\ m.got = got
          /\ m.mandatory = x.mandatory /\ m.from = x.from
  BY <1>2
<1>5. LET m == Moved(at, got)
      IN  /\ m \in [fn : Function, at : Place, mandatory : BOOLEAN, got : Node,
                      from : 1..Len(tokens) + 1]
          /\ m.fn = x.fn /\ m.at = at /\ m.got = got
          /\ m.mandatory = x.mandatory /\ m.from = x.from
  BY <1>3, <1>4
<1> QED BY <1>5 DEF Activation, x

(* A new activation.                                                       *)
LEMMA FrameFacts ==
  ASSUME NEW fn \in Function, NEW at \in Place, NEW mandatory \in BOOLEAN,
         NEW from \in 1..Len(tokens) + 1
  PROVE  LET f == Frame(fn, at, mandatory, from)
         IN  /\ f \in Activation /\ f.fn = fn /\ f.at = at /\ f.mandatory = mandatory
             /\ f.got = <<>> /\ f.from = from
  BY DEF Frame, Activation, Node

(* For whom an activation waits.                                           *)
LEMMA Awaited ==
  ASSUME NEW g, NEW f, Awaits(g, f)
  PROVE  /\ g.fn = "top_level_decl" => g.at = "fn_def" /\ f.fn = "fn_def"
         /\ g.fn = "fn_def" => \/ g.at = "proto" /\ f.fn = "fn_proto"
                               \/ g.at = "body" /\ f.fn = "block" /\ f.mandatory
         /\ g.fn = "fn_proto" => g.at \in {"param", "return_type"} /\ f.fn = "type"
         /\ g.fn # "type"
         /\ g.fn = "block" => g.at = "semicolon" /\ f.fn = "expression" /\ f.mandatory
         /\ g.fn = "expression" => \/ g.at = "return" /\ f.fn = "expression"
                                   \/ g.at = "operand" /\ f.fn = "bool_or_expr"
         /\ \A n \in 1..9 : g.fn = Binary[n] =>
              /\ f.fn = Tighter(n)
              /\ (g.at = "operand_1" /\ Same(g, f)) \/ (g.at = "operand_2" /\ f.mandatory)
         /\ g.fn = "cast_expression" =>
              \/ g.at = "operand_1" /\ f.fn = "prefix_op_expr" /\ Same(g, f)
              \/ g.at = "type" /\ f.fn = "type"
         /\ g.fn = "prefix_op_expr" =>
              /\ g.at = "operand" /\ f.fn = "fn_call_expr"
              /\ IF g.got = <<>> THEN Same(g, f) ELSE f.mandatory
         /\ g.fn = "fn_call_expr" => g.at = "fn_ref" /\ f.fn = "primary_expr" /\ Same(g, f)
         /\ g.fn = "primary_expr" =>
              \/ g.at = "block" /\ f.fn = "block" /\ f.from = g.from
              \/ g.at = "grouped" /\ f.fn = "expression" /\ f.mandatory
         /\ f.fn # "top_level_decl"
<1>1. \A n \in 1..9 : Binary[n] \notin Others
  BY Levels
<1>2. \A m, n \in 1..9 : Binary[m] = Binary[n] => m = n
  BY Levels
<1>3. \A n \in 1..9 : Tighter(n) # "top_level_decl"
  <2>1. \A n \in 1..9 : n # 9 => n + 1 \in 1..9
    OBVIOUS
  <2> QED BY <1>1, <2>1 DEF Tighter, Others
<1>4. CASE \E n \in 1..9 : /\ g.fn = Binary[n] /\ f.fn = Tighter(n)
                           /\ \/ g.at = "operand_1" /\ Same(g, f)
                              \/ g.at = "operand_2" /\ f.mandatory
  BY <1>1, <1>2, <1>3, <1>4 DEF Others
<1>5. CASE ~\E n \in 1..9 : /\ g.fn = Binary[n] /\ f.fn = Tighter(n)
                            /\ \/ g.at = "operand_1" /\ Same(g, f)
                               \/ g.at = "operand_2" /\ f.mandatory
  <2>1. g.fn \in Others
    BY <1>5 DEF Awaits, Others
  <2>2. \A n \in 1..9 : g.fn # Binary[n]
    BY <1>1, <2>1
  <2> QED BY <1>5, <2>2 DEF Awaits
<1> QED BY <1>4, <1>5

(* The activation that waits is at a place where it does not read.         *)
LEMMA AwaitingPlaces ==
  ASSUME NEW g, NEW f, Awaits(g, f)
  PROVE  g.at \notin {"start", "directives", "params", "next_param", "arrow", "statements"}
BY DEF Awaits

(* Moving an activation on changes nothing for the one that waits for it.  *)
LEMMA AwaitsAlike ==
  ASSUME NEW g, NEW f, NEW h, Awaits(g, f),
         h.fn = f.fn, h.mandatory = f.mandatory, h.from = f.from
  PROVE  Awaits(g, h)
<1>1. Same(g, f) => Same(g, h)
  BY DEF Same
<1> QED BY <1>1 DEF Awaits

(* The calls that lead from g to the first activation that reads.          *)
Chain(cs, g) ==
  /\ cs \in Seq(Activation)
  /\ \A k \in 1..Len(cs) : FrameOK(cs[k]) /\ cs[k].got = <<>>
  /\ \A k \in 1..Len(cs) - 1 : Awaits(cs[k + 1], cs[k])
  /\ cs # <<>> => Awaits(g, cs[Len(cs)])
First(cs, g) == IF cs = <<>> THEN g ELSE cs[1]

(* No call, and one.                                                       *)
LEMMA NoCall == ASSUME NEW g PROVE Chain(<<>>, g) /\ First(<<>>, g) = g
BY DEF Chain, First

(* One call, of an activation that the caller waits for.                   *)
LEMMA OneCall ==
  ASSUME NEW g, NEW c \in Activation, FrameOK(c), c.got = <<>>, Awaits(g, c)
  PROVE  Chain(<<c>>, g) /\ First(<<c>>, g) = c /\ <<c>> \in Seq(Activation)
<1> DEFINE cs == <<c>>
<1>1. cs \in Seq(Activation) /\ Len(cs) = 1 /\ cs[1] = c /\ cs # <<>>
  OBVIOUS
<1> HIDE DEF cs
<1>2. Chain(cs, g) /\ First(cs, g) = c
  BY <1>1 DEF Chain, First
<1> QED BY <1>1, <1>2 DEF cs

(* A step leaves the tokens alone.                                         *)
LEMMA SameInput ==
  ASSUME tokens' = tokens
  PROVE  /\ Node' = Node /\ Activation' = Activation
         /\ \A f : FrameOK(f)' <=> FrameOK(f)
<1>1. Node' = Node
  BY DEF Node
<1> QED BY <1>1 DEF Activation, FrameOK

(* The stack behind Go.                                                    *)
LEMMA StackGoes ==
  ASSUME IInv, NEW at \in Place, NEW got \in Node, NEW n \in Nat, NEW cs,
         Chain(cs, Moved(at, got)), FrameOK(Moved(at, got)),
         Go(at, got, cs, n), tokens' = tokens
  PROVE  /\ StackOK' /\ Top' = First(cs, Moved(at, got)) /\ stack' # Tail(stack)
         /\ stack' \in Seq(Activation) /\ Len(cs) \in Nat
         /\ Len(stack') = Len(cs) + Len(stack)
         /\ \A k \in 1..Len(cs) : stack'[k].got = <<>>
         /\ stack'[Len(cs) + 1] = Moved(at, got) /\ stack'[Len(cs) + 1].got = got
         /\ \A k \in Len(cs) + 2..Len(stack') : stack'[k] = stack[k - Len(cs)]
<1> DEFINE t == stack'
           x == Moved(at, got)
           a == Len(cs)
           b == Len(stack)
<1>1. /\ b \in Nat /\ b >= 1 /\ stack \in Seq(Activation) /\ stack # <<>> /\ Top = stack[1]
      /\ \A k \in 1..b : stack[k] \in Activation /\ FrameOK(stack[k])
      /\ \A k \in 1..b - 1 : Awaits(stack[k + 1], stack[k])
      /\ stack[b].fn = "top_level_decl"
  BY TopFacts DEF IInv, StackOK
<1>2. /\ x \in Activation /\ x.fn = Top.fn /\ x.mandatory = Top.mandatory /\ x.from = Top.from
      /\ FrameOK(x) /\ x.got = got
  BY MovedFacts
<1>3. /\ cs \in Seq(Activation) /\ \A k \in 1..a : FrameOK(cs[k]) /\ cs[k].got = <<>>
      /\ \A k \in 1..a - 1 : Awaits(cs[k + 1], cs[k])
      /\ cs # <<>> => Awaits(x, cs[a])
  BY DEF Chain
<1>4. t = cs \o <<x>> \o Tail(stack)
  BY DEF Go, Moved
<1> HIDE DEF t, x
<1>5. /\ t \in Seq(Activation) /\ t # <<>> /\ Len(t) = a + b /\ a \in Nat
      /\ \A k \in 1..a : t[k] = cs[k]
      /\ t[a + 1] = x
      /\ \A k \in a + 2..Len(t) : t[k] = stack[k - a]
  BY <1>1, <1>2, <1>3, <1>4, StackGrows
<1> HIDE DEF a, b
<1>6. \A k \in 1..Len(t) : FrameOK(t[k])
  <2> SUFFICES ASSUME NEW k \in 1..Len(t) PROVE FrameOK(t[k])
    OBVIOUS
  <2>1. CASE k \in 1..a
    BY <1>3, <1>5, <2>1
  <2>2. CASE k = a + 1
    BY <1>2, <1>5, <2>2
  <2>3. CASE k \in a + 2..Len(t)
    <3>1. k - a \in 1..b
      BY <1>1, <1>5, <2>3
    <3> QED BY <1>1, <1>5, <2>3, <3>1
  <2> QED BY <1>1, <1>5, <2>1, <2>2, <2>3
<1>7. \A k \in 1..Len(t) - 1 : Awaits(t[k + 1], t[k])
  <2> SUFFICES ASSUME NEW k \in 1..Len(t) - 1 PROVE Awaits(t[k + 1], t[k])
    OBVIOUS
  <2>1. CASE k \in 1..a - 1
    <3>1. k + 1 \in 1..a /\ k \in 1..a
      BY <1>5, <2>1
    <3> QED BY <1>3, <1>5, <2>1, <3>1
  <2>2. CASE k = a
    <3>1. cs # <<>> /\ k \in 1..a
      BY <1>5, <2>2, EmptySeq DEF a
    <3> QED BY <1>3, <1>5, <2>2, <3>1
  <2>3. CASE k = a + 1
    <3>1. k + 1 \in a + 2..Len(t) /\ 1 \in 1..b - 1 /\ (k + 1) - a = 2
      BY <1>1, <1>5, <2>3
    <3> DEFINE kk == k + 1
    <3>2. kk \in a + 2..Len(t) /\ kk - a = 2
      BY <3>1
    <3> HIDE DEF kk
    <3>3. t[kk] = stack[2]
      BY <1>5, <3>2
    <3>4. Awaits(stack[2], stack[1])
      BY <1>1, <3>1
    <3>5. Awaits(stack[2], x)
      BY <1>1, <1>2, <3>4, AwaitsAlike
    <3> QED BY <1>5, <2>3, <3>3, <3>5 DEF kk
  <2>4. CASE k \in a + 2..Len(t)
    <3> DEFINE kk == k + 1
               j == k - a
               jj == j + 1
    <3>1. kk \in a + 2..Len(t) /\ kk - a = jj /\ j \in 1..b - 1
      BY <1>1, <1>5, <2>4
    <3> HIDE DEF kk
    <3>2. t[kk] = stack[jj]
      BY <1>5, <3>1
    <3>3. t[k] = stack[j]
      BY <1>5, <2>4
    <3> HIDE DEF j
    <3>4. Awaits(stack[j + 1], stack[j])
      BY <1>1, <3>1
    <3> QED BY <3>2, <3>3, <3>4 DEF kk
  <2> QED BY <1>1, <1>5, <2>1, <2>2, <2>3, <2>4
<1>8. t[Len(t)].fn = "top_level_decl"
  <2>1. CASE b = 1
    BY <1>1, <1>2, <1>5, <2>1
  <2>2. CASE b # 1
    <3> DEFINE c == Len(t)
    <3>1. c \in a + 2..Len(t) /\ c - a = b
      BY <1>1, <1>5, <2>2
    <3> HIDE DEF c
    <3>2. t[c] = stack[b]
      BY <1>5, <3>1
    <3> QED BY <1>1, <3>2 DEF c
  <2> QED BY <2>1, <2>2
<1>9. Head(t) = First(cs, x)
  <2>1. Head(t) = t[1]
    BY <1>5
  <2>2. CASE cs = <<>>
    <3>1. a = 0
      BY <2>2 DEF a
    <3> QED BY <1>5, <2>1, <2>2, <3>1 DEF First
  <2>3. CASE cs # <<>>
    <3>1. 1 \in 1..a
      BY <1>3, <1>5, <2>3, EmptySeq DEF a
    <3> QED BY <1>5, <2>1, <2>3, <3>1 DEF First
  <2> QED BY <2>2, <2>3
<1>10. t # Tail(stack)
  <2>1. Len(Tail(stack)) = b - 1
    BY <1>1, HeadTailProperties DEF b
  <2> QED BY <1>1, <1>5, <2>1
<1>11. \A k \in 1..a : t[k].got = <<>>
  BY <1>3, <1>5
<1>12. StackOK'
  <2>1. (\A k \in 1..Len(stack) : FrameOK(stack[k]))'
    BY <1>6 DEF FrameOK, t
  <2>2. (\A k \in 1..Len(stack) - 1 : Awaits(stack[k + 1], stack[k]))'
    BY <1>7 DEF t
  <2>3. (stack \in Seq(Activation) /\ stack # <<>> /\ stack[Len(stack)].fn = "top_level_decl")'
    BY <1>5, <1>8, SameInput DEF t
  <2> QED BY <2>1, <2>2, <2>3 DEF StackOK
<1>13. Top' = First(cs, x)
  BY <1>9 DEF Top, t
<1> QED BY <1>1, <1>2, <1>5, <1>10, <1>11, <1>12, <1>13 DEF t, x, a, b

(* The nodes behind Go: the new one comes behind the others, and those     *)
(* called have none.                                                       *)
LEMMA TreeGoes ==
  ASSUME IInv, NEW at \in Place, NEW got \in Node, NEW n \in Nat, NEW cs,
         Chain(cs, Moved(at, got)), FrameOK(Moved(at, got)),
         Go(at, got, cs, n), tokens' = tokens, decls' = decls, Listed' \subseteq Listed,
         Ordered(got), \A k \in DOMAIN got : got[k] < index + n,
         \A s \in Declared \cup Listed' : Before(s, got),
         \A k \in 2..Len(stack) : Before(stack[k].got, got)
  PROVE  TreeInOrder'
<1> DEFINE t == stack'
           a == Len(cs)
           b == Len(stack)
           i == index'
<1>1. /\ a \in Nat /\ b \in Nat /\ DOMAIN t = 1..a + b /\ DOMAIN stack = 1..b
      /\ \A k \in 1..a : t[k].got = <<>>
      /\ t[a + 1].got = got
      /\ \A k \in a + 2..a + b : t[k] = stack[k - a]
  <2>1. /\ t \in Seq(Activation) /\ Len(t) = a + b /\ a \in Nat /\ t[a + 1].got = got
        /\ \A k \in 1..a : t[k].got = <<>>
        /\ \A k \in a + 2..Len(t) : t[k] = stack[k - a]
    BY StackGoes
  <2>2. DOMAIN t = 1..Len(t) /\ DOMAIN stack = 1..b
    BY <2>1, TopFacts, LenProperties
  <2> QED BY <2>1, <2>2, TopFacts
<1>2. i = index + n /\ result' = <<>> /\ index \in Nat
  BY TopFacts DEF Go, None
<1> HIDE DEF t, a, b, i
<1>3. /\ Ordered(<<>>) /\ \A s : Before(s, <<>>) /\ Before(<<>>, s)
      /\ \A k \in DOMAIN <<>> : <<>>[k] < i
  BY DEF Ordered, Before
<1>4. TreeInOrder /\ TypeOK
  BY DEF IInv
<1>5. /\ Ordered(got) /\ \A k \in DOMAIN got : got[k] < i
      /\ \A s \in Declared \cup Listed' : Before(s, got)
      /\ \A k \in 2..b : Before(stack[k].got, got)
  BY <1>2 DEF b
<1>6. \A k \in 2..b : k \in 1..b /\ stack[k].got \in Opened /\ stack[k].got \in Node
  <2> SUFFICES ASSUME NEW k \in 2..b
               PROVE  k \in 1..b /\ stack[k].got \in Opened /\ stack[k].got \in Node
    OBVIOUS
  <2>1. k \in 1..b
    BY <1>1
  <2>2. stack[k] \in Activation
    BY <2>1, TopFacts DEF b
  <2> QED BY <1>1, <2>1, <2>2 DEF Activation, Opened
<1>7. \A s \in Declared \cup Listed : s \in Node
  <2>1. /\ DOMAIN decls = 1..Len(decls) /\ \A k \in 1..Len(decls) : decls[k] \in Node
        /\ DOMAIN directive_list = 1..Len(directive_list)
        /\ \A k \in 1..Len(directive_list) : directive_list[k] \in Node
    BY <1>4, LenProperties, ElementOfSeq DEF TypeOK
  <2> QED BY <2>1 DEF Declared, Listed
<1>8. \A s \in Node : Passed(s) => \A k \in DOMAIN s : s[k] < i
  <2> SUFFICES ASSUME NEW s \in Node, Passed(s), NEW k \in DOMAIN s PROVE s[k] < i
    OBVIOUS
  <2>1. s[k] \in Nat /\ s[k] < index
    BY TopFacts, NodeElements DEF Passed
  <2> QED BY <1>2, <2>1
<1>9. /\ Declared' = Declared /\ Listed' \subseteq Listed
      /\ \A s \in Opened' : s = <<>> \/ s = got \/ \E k \in 2..b : s = stack[k].got
  <2>1. Declared' = Declared
    BY DEF Declared
  <2> SUFFICES ASSUME NEW k \in 1..a + b
               PROVE  t[k].got = <<>> \/ t[k].got = got \/ \E j \in 2..b : t[k].got = stack[j].got
    BY <1>1, <2>1 DEF Opened, t
  <2>2. CASE k \in a + 2..a + b
    <3>1. k - a \in 2..b
      BY <1>1, <2>2
    <3> QED BY <1>1, <2>2, <3>1
  <2> QED BY <1>1, <2>2
<1>10. \A s \in Declared \cup Listed' \cup Opened' \cup {<<>>} :
         Ordered(s) /\ \A k \in DOMAIN s : s[k] < i
  <2> SUFFICES ASSUME NEW s \in Declared \cup Listed \cup Opened' \cup {<<>>}
               PROVE  Ordered(s) /\ \A k \in DOMAIN s : s[k] < i
    BY <1>9
  <2>1. CASE s \in Declared \cup Listed
    BY <1>4, <1>7, <1>8, <2>1 DEF TreeInOrder
  <2>2. CASE \E k \in 2..b : s = stack[k].got
    BY <1>4, <1>6, <1>8, <2>2 DEF TreeInOrder
  <2> QED BY <1>3, <1>5, <1>9, <2>1, <2>2
<1>11. \A s \in Declared \cup Listed', u \in Opened' \cup {<<>>} : Before(s, u)
  <2> SUFFICES ASSUME NEW s \in Declared \cup Listed', NEW u \in Opened' \cup {<<>>}
               PROVE  Before(s, u)
    OBVIOUS
  <2>1. CASE \E k \in 2..b : u = stack[k].got
    BY <1>4, <1>6, <1>9, <2>1 DEF TreeInOrder
  <2> QED BY <1>3, <1>5, <1>9, <2>1
<1>12. \A j, k \in 1..a + b : j < k => Before(t[k].got, t[j].got)
  <2> SUFFICES ASSUME NEW j \in 1..a + b, NEW k \in 1..a + b, j < k
               PROVE  Before(t[k].got, t[j].got)
    OBVIOUS
  <2>1. CASE j \in 1..a
    BY <1>1, <1>3, <2>1
  <2>2. CASE j = a + 1
    <3>1. k \in a + 2..a + b /\ k - a \in 2..b
      BY <1>1, <2>2
    <3> QED BY <1>1, <1>5, <2>2, <3>1
  <2>3. CASE j \in a + 2..a + b
    <3> DEFINE jj == j - a
               kk == k - a
    <3>1. k \in a + 2..a + b /\ kk \in 1..b /\ jj \in 1..b /\ jj < kk
      BY <1>1, <2>3
    <3>2. t[k] = stack[kk] /\ t[j] = stack[jj]
      BY <1>1, <2>3, <3>1
    <3> HIDE DEF jj, kk
    <3>3. Before(stack[kk].got, stack[jj].got)
      BY <1>1, <1>4, <3>1 DEF TreeInOrder
    <3> QED BY <3>2, <3>3
  <2> QED BY <1>1, <2>1, <2>2, <2>3
<1>13. \A s \in Opened' : Before(s, <<>>)
  BY <1>3
<1>14. \A s \in Declared, u \in Listed' : Before(s, u)
  BY <1>4, <1>9 DEF TreeInOrder
<1>15. \A j, k \in DOMAIN decls : j < k => Before(decls[j], decls[k])
  BY <1>4 DEF TreeInOrder
<1>16. \A s \in Declared' \cup Listed' \cup Opened' \cup {result'} : Ordered(s) /\ Passed(s)'
  BY <1>2, <1>9, <1>10 DEF Passed, i
<1>17. \A j, k \in DOMAIN stack' : j < k => Before(stack'[k].got, stack'[j].got)
  BY <1>1, <1>12 DEF t
<1>18. /\ \A s \in Declared', u \in Listed' \cup Opened' \cup {result'} : Before(s, u)
       /\ \A s \in Listed', u \in Opened' \cup {result'} : Before(s, u)
       /\ \A s \in Opened' : Before(s, result')
  BY <1>2, <1>9, <1>11, <1>13, <1>14
<1> QED BY <1>15, <1>16, <1>17, <1>18 DEF TreeInOrder

(* A step of an activation that has nothing to do with the directives.     *)
LEMMA GoesOn ==
  ASSUME IInv, NEW at \in Place, NEW got \in Node, NEW n \in Nat, NEW cs,
         Chain(cs, Moved(at, got)), FrameOK(Moved(at, got)),
         Go(at, got, cs, n), Continue, Follows(got, n), index + n <= Len(tokens) + 1,
         Lists(First(cs, Moved(at, got))) <=> Lists(Top),
         Reads(First(cs, Moved(at, got)), index + n)
  PROVE  StepOK
<1>1. /\ tokens' = tokens /\ assertions' = assertions /\ directive_list' = directive_list
      /\ decls' = decls /\ outcome' = outcome /\ blamed' = blamed
  BY DEF Continue, context, input
<1>2. index' = index + n /\ result' = <<>>
  BY DEF Go, None
<1>3. /\ StackOK' /\ Top' = First(cs, Moved(at, got)) /\ stack' # Tail(stack)
      /\ stack' \in Seq(Activation)
  <2>1. tokens' = tokens
    BY <1>1
  <2>2. StackOK' /\ Top' = First(cs, Moved(at, got)) /\ stack' # Tail(stack)
    BY <2>1, StackGoes
  <2>3. stack' \in Seq(Activation)
    BY <2>1, StackGoes
  <2> QED BY <2>2, <2>3
<1>4. TreeInOrder'
  <2>1. Listed' = Listed /\ tokens' = tokens /\ decls' = decls
    BY <1>1 DEF Listed
  <2>2. /\ Ordered(got) /\ \A k \in DOMAIN got : got[k] < index + n
        /\ \A s \in Declared \cup Listed' : Before(s, got)
        /\ \A k \in 2..Len(stack) : Before(stack[k].got, got)
    BY <2>1 DEF Follows
  <2>3. Listed' \subseteq Listed
    BY <2>1
  <2> QED BY <2>1, <2>2, <2>3, TreeGoes
<1>5. index' \in 1..Len(tokens) + 1
  BY <1>2, TopFacts
<1>6. TypeOK'
  <2>1. result' \in Node
    BY <1>2 DEF Node
  <2> QED BY <1>1, <1>3, <1>5, <2>1, SameInput DEF IInv, TypeOK
<1>7. TopOK'
  <2>1. Reads(Top', index')
    BY <1>2, <1>3
  <2> QED BY <1>1, <2>1 DEF TopOK, Reads
<1>8. DirectivesOK'
  BY <1>1, <1>3 DEF IInv, DirectivesOK, Lists
<1> QED BY <1>1, <1>3, <1>4, <1>6, <1>7, <1>8 DEF StepOK, IInv

(* The activation goes on itself.                                          *)
LEMMA GoesOnHere ==
  ASSUME IInv, NEW at \in Place, NEW got \in Node, NEW n \in Nat,
         Go(at, got, <<>>, n), Continue, Follows(got, n), index + n <= Len(tokens),
         at \in Filled => got # <<>>, at = "proto" => got = <<>>,
         Top.fn # "top_level_decl", ~Lists(Top), ~Lists(Moved(at, got)),
         Reads(Moved(at, got), index + n)
  PROVE  StepOK
<1> DEFINE m == Moved(at, got)
<1>1. FrameOK(m)
  BY TopFacts, MovedFacts DEF FrameOK
<1>2. Chain(<<>>, m) /\ First(<<>>, m) = m
  BY NoCall
<1>3. index + n <= Len(tokens) + 1
  BY TopFacts
<1> QED BY <1>1, <1>2, <1>3, GoesOn

(* The activation calls one function, which reads.                         *)
LEMMA Calls ==
  ASSUME IInv, NEW at \in Place, NEW got \in Node, NEW n \in Nat, NEW c \in Activation,
         Go(at, got, <<c>>, n), Continue, Follows(got, n), index + n <= Len(tokens),
         at \in Filled => got # <<>>, at = "proto" => got = <<>>,
         Top.fn # "top_level_decl", ~Lists(Top),
         Awaits(Moved(at, got), c), FrameOK(c), c.got = <<>>, c.from = index + n, c.at = "start",
         c.fn \in {"type", "block", "expression", "primary_expr"}
  PROVE  StepOK
<1> DEFINE m == Moved(at, got)
           cs == <<c>>
<1>1. FrameOK(m)
  BY TopFacts, MovedFacts DEF FrameOK
<1>2. Chain(cs, m) /\ First(cs, m) = c
  BY OneCall
<1>3. index + n <= Len(tokens) + 1
  BY TopFacts
<1>4. ~Lists(c) /\ Reads(c, index + n)
  BY DEF Lists, Reads
<1> HIDE DEF m, cs
<1>5. Go(at, got, cs, n)
  BY DEF cs
<1>6. Chain(cs, Moved(at, got)) /\ FrameOK(Moved(at, got)) /\ First(cs, Moved(at, got)) = c
  BY <1>1, <1>2 DEF m
<1> QED BY <1>3, <1>4, <1>5, <1>6, GoesOn

(* A function returns.                                                     *)
LEMMA ReturnsTo ==
  ASSUME IInv, NEW node \in Node, NEW n \in Nat, Return(node, n), Continue,
         Follows(node, n), index + n <= Len(tokens),
         Top.fn # "top_level_decl", ~Lists(Top), Promises(Top, node, index + n)
  PROVE  StepOK
<1> DEFINE t == stack'
           b == Len(stack)
           i == index'
<1>1. /\ tokens' = tokens /\ assertions' = assertions /\ directive_list' = directive_list
      /\ decls' = decls /\ outcome' = outcome /\ blamed' = blamed
  BY DEF Continue, context, input
<1>2. t = Tail(stack) /\ i = index + n /\ result' = node /\ index \in Nat
  BY TopFacts DEF Return
<1>3. /\ b \in Nat /\ b >= 1 /\ stack \in Seq(Activation) /\ stack # <<>> /\ Top = stack[1]
      /\ \A k \in 1..b : stack[k] \in Activation /\ FrameOK(stack[k])
      /\ \A k \in 1..b - 1 : Awaits(stack[k + 1], stack[k])
      /\ stack[b].fn = "top_level_decl" /\ DOMAIN stack = 1..b
  BY TopFacts, LenProperties DEF IInv, StackOK
<1>4. b >= 2
  BY <1>3
<1> HIDE DEF t, b, i
<1>5. /\ t \in Seq(Activation) /\ t # <<>> /\ Len(t) = b - 1 /\ DOMAIN t = 1..b - 1
      /\ \A k \in 1..b - 1 : t[k] = stack[k + 1]
  <2>1. /\ t \in Seq(Activation) /\ t # <<>> /\ Len(t) = b - 1
        /\ \A k \in 1..Len(t) : t[k] = stack[k + 1]
    BY <1>2, <1>3, <1>4, StackShrinks DEF b
  <2> QED BY <2>1, LenProperties
<1>6. StackOK'
  <2>1. \A k \in 1..b - 1 : FrameOK(t[k])
    BY <1>3, <1>5
  <2>2. \A k \in 1..b - 2 : Awaits(t[k + 1], t[k])
    <3> SUFFICES ASSUME NEW k \in 1..b - 2 PROVE Awaits(t[k + 1], t[k])
      OBVIOUS
    <3> DEFINE kk == k + 1
    <3>1. kk \in 1..b - 1 /\ k \in 1..b - 1
      BY <1>3
    <3> HIDE DEF kk
    <3>2. t[kk] = stack[kk + 1] /\ t[k] = stack[k + 1] /\ Awaits(stack[kk + 1], stack[kk])
      BY <1>3, <1>5, <3>1
    <3> QED BY <3>2 DEF kk
  <2>3. t[b - 1].fn = "top_level_decl"
    <3> DEFINE c == b - 1
    <3>1. c \in 1..b - 1 /\ c + 1 = b
      BY <1>3, <1>4
    <3> HIDE DEF c
    <3>2. t[c] = stack[c + 1]
      BY <1>5, <3>1 DEF c
    <3> QED BY <1>3, <3>1, <3>2 DEF c
  <2>4. (\A k \in 1..Len(stack) : FrameOK(stack[k]))'
    BY <1>1, <1>5, <2>1 DEF FrameOK, t
  <2>5. (\A k \in 1..Len(stack) - 1 : Awaits(stack[k + 1], stack[k]))'
    <3>1. Len(t) - 1 = b - 2
      BY <1>3, <1>5
    <3> QED BY <2>2, <3>1 DEF t
  <2>6. (stack \in Seq(Activation) /\ stack # <<>> /\ stack[Len(stack)].fn = "top_level_decl")'
    BY <1>1, <1>5, <2>3, SameInput DEF t
  <2> QED BY <2>4, <2>5, <2>6 DEF StackOK
<1>7. Top' = stack[2] /\ Awaits(stack[2], Top) /\ Top \in Activation
  <2>1. Head(t) = t[1]
    BY <1>5
  <2>2. t[1] = stack[2]
    BY <1>3, <1>4, <1>5
  <2> QED BY <1>3, <1>4, <2>1, <2>2 DEF Top, t
<1>8. i \in 1..Len(tokens) + 1 /\ i <= Len(tokens)
  BY <1>2, TopFacts
<1>9. TypeOK'
  BY <1>1, <1>2, <1>5, <1>8, SameInput DEF IInv, TypeOK, t, i
<1>10. TopOK'
  <2>1. Promises(Top, result', index')
    BY <1>2 DEF i
  <2>2. \E f \in Activation : Awaits(Top', f) /\ Promises(f, result', index')
    BY <1>7, <2>1
  <2>3. /\ index' <= Len(tokens')
        /\ \E f \in Activation' : Awaits(Top', f) /\ Promises(f, result', index')
    BY <1>1, <1>8, <2>2, SameInput DEF i
  <2> QED BY <2>3 DEF TopOK, Served
<1>11. DirectivesOK'
  <2>1. ~Lists(Top')
    BY <1>7, AwaitingPlaces DEF Lists
  <2> QED BY <1>1, <2>1 DEF IInv, DirectivesOK
<1>12. TreeInOrder'
  <2>1. TreeInOrder /\ TypeOK
    BY DEF IInv
  <2>2. Declared' = Declared /\ Listed' = Listed
    BY <1>1 DEF Declared, Listed
  <2>3. \A s \in Opened' : s \in Opened /\ s \in Node /\ Before(s, node)
    <3> SUFFICES ASSUME NEW k \in 1..b - 1
                 PROVE  t[k].got \in Opened /\ t[k].got \in Node /\ Before(t[k].got, node)
      BY <1>5 DEF Opened, t
    <3>1. k + 1 \in 1..b /\ k + 1 \in 2..b
      BY <1>3
    <3> DEFINE kk == k + 1
    <3> HIDE DEF kk
    <3>2. kk \in DOMAIN stack /\ kk \in 2..b /\ t[k] = stack[kk] /\ stack[kk] \in Activation
      BY <1>3, <1>5, <3>1 DEF kk
    <3>3. Before(stack[kk].got, node)
      BY <3>2 DEF Follows, b
    <3> QED BY <3>2, <3>3 DEF Opened, Activation
  <2>4. \A s \in Declared \cup Listed : s \in Node
    <3>1. /\ DOMAIN decls = 1..Len(decls) /\ \A k \in 1..Len(decls) : decls[k] \in Node
          /\ DOMAIN directive_list = 1..Len(directive_list)
          /\ \A k \in 1..Len(directive_list) : directive_list[k] \in Node
      BY <2>1, LenProperties, ElementOfSeq DEF TypeOK
    <3> QED BY <3>1 DEF Declared, Listed
  <2>5. \A s \in Node : Passed(s) => \A k \in DOMAIN s : s[k] < i
    <3> SUFFICES ASSUME NEW s \in Node, Passed(s), NEW k \in DOMAIN s PROVE s[k] < i
      OBVIOUS
    <3>1. s[k] \in Nat /\ s[k] < index
      BY TopFacts, NodeElements DEF Passed
    <3> QED BY <1>2, <3>1
  <2>6. \A s \in Declared \cup Listed \cup Opened' \cup {node} :
          Ordered(s) /\ \A k \in DOMAIN s : s[k] < i
    <3>1. Ordered(node) /\ \A k \in DOMAIN node : node[k] < i
      BY <1>2 DEF Follows
    <3> QED BY <2>1, <2>3, <2>4, <2>5, <3>1 DEF TreeInOrder
  <2>7. \A s \in Declared' \cup Listed' \cup Opened' \cup {result'} : Ordered(s) /\ Passed(s)'
    BY <1>2, <2>2, <2>6 DEF Passed, i
  <2>8. \A j, k \in DOMAIN decls' : j < k => Before(decls'[j], decls'[k])
    BY <1>1, <2>1 DEF TreeInOrder
  <2>9. /\ \A s \in Declared', u \in Listed' \cup Opened' \cup {result'} : Before(s, u)
        /\ \A s \in Listed', u \in Opened' \cup {result'} : Before(s, u)
    BY <1>2, <2>1, <2>2, <2>3 DEF TreeInOrder, Follows
  <2>10. \A j, k \in DOMAIN stack' : j < k => Before(stack'[k].got, stack'[j].got)
    <3> SUFFICES ASSUME NEW j \in 1..b - 1, NEW k \in 1..b - 1, j < k
                 PROVE  Before(t[k].got, t[j].got)
      BY <1>5 DEF t
    <3> DEFINE jj == j + 1
               kk == k + 1
    <3>1. jj \in 1..b /\ kk \in 1..b /\ jj < kk
      BY <1>3
    <3>2. t[k] = stack[kk] /\ t[j] = stack[jj]
      BY <1>5
    <3> HIDE DEF jj, kk
    <3> QED BY <1>3, <2>1, <3>1, <3>2 DEF TreeInOrder
  <2>11. \A s \in Opened' : Before(s, result')
    BY <1>2, <2>3
  <2> QED BY <2>7, <2>8, <2>9, <2>10, <2>11 DEF TreeInOrder
<1> QED BY <1>1, <1>2, <1>6, <1>9, <1>10, <1>11, <1>12 DEF StepOK, IInv, i

(* The program ends with a message or otherwise, or nothing happens.       *)
LEMMA StopsHere ==
  ASSUME IInv, outcome' \in {"running", "error", "abort", "undefined"},
         blamed' \in 0..Len(tokens),
         UNCHANGED <<input, index, stack, result, directive_list, decls>>
  PROVE  StepOK
<1>1. /\ tokens' = tokens /\ assertions' = assertions /\ index' = index /\ stack' = stack
      /\ result' = result /\ directive_list' = directive_list /\ decls' = decls
  BY DEF input
<1>2. stack' # Tail(stack)
  <2>1. stack \in Seq(Activation) /\ stack # <<>> /\ Len(stack) \in Nat
    BY TopFacts DEF IInv, StackOK
  <2> DEFINE b == Len(stack)
             t == Tail(stack)
  <2>2. Len(t) = b - 1 /\ b \in Nat
    BY <2>1, HeadTailProperties
  <2> HIDE DEF b, t
  <2>3. stack # t
    <3> SUFFICES ASSUME stack = t PROVE FALSE
      OBVIOUS
    <3>1. Len(t) = b
      BY DEF b
    <3> QED BY <2>2, <3>1
  <2> QED BY <1>1, <2>3 DEF t
<1>3. TypeOK'
  BY <1>1, SameInput DEF IInv, TypeOK
<1>4. StackOK'
  BY <1>1, SameInput DEF IInv, StackOK, FrameOK
<1>5. Top' = Top
  BY <1>1 DEF Top
<1>6. TopOK' /\ DirectivesOK'
  <2>1. (\E f \in Activation : Awaits(Top, f) /\ Promises(f, result, index))'
          <=> \E f \in Activation : Awaits(Top, f) /\ Promises(f, result, index)
    BY <1>1, <1>5, SameInput
  <2> QED BY <1>1, <1>5, <2>1 DEF IInv, TopOK, DirectivesOK, Reads, Served
<1>7. TreeInOrder'
  BY <1>1 DEF IInv, TreeInOrder, Declared, Listed, Opened, Passed
<1> QED BY <1>1, <1>2, <1>3, <1>4, <1>6, <1>7 DEF StepOK, IInv

(* An error message names a token.                                         *)
LEMMA FailsAt ==
  ASSUME IInv, NEW k \in 1..Len(tokens), Fail(k)
  PROVE  StepOK
<1>1. /\ outcome' = "error" /\ blamed' \in 0..Len(tokens)
      /\ UNCHANGED <<input, index, stack, result, directive_list, decls>>
  BY DEF Fail
<1> QED BY <1>1, StopsHere

(* The activation calls one function, written as the actions do.           *)
LEMMA CallsFrame ==
  ASSUME IInv, NEW at \in Place, NEW got \in Node, NEW n \in Nat, NEW mandatory \in BOOLEAN,
         NEW fn \in {"type", "block", "expression", "primary_expr"}, NEW from, from = index + n,
         Go(at, got, <<Frame(fn, "start", mandatory, from)>>, n), Continue,
         Follows(got, n), index + n <= Len(tokens),
         at \in Filled => got # <<>>, at = "proto" => got = <<>>,
         Top.fn # "top_level_decl", ~Lists(Top),
         \A c : c.fn = fn /\ c.mandatory = mandatory /\ c.from = from => Awaits(Moved(at, got), c)
  PROVE  StepOK
<1> DEFINE c == Frame(fn, "start", mandatory, from)
<1>1. fn \in Function
  BY Levels DEF Others
<1>2. from \in 1..Len(tokens) + 1 /\ from <= Len(tokens)
  BY TopFacts
<1>3. /\ c \in Activation /\ c.fn = fn /\ c.at = "start" /\ c.mandatory = mandatory
      /\ c.got = <<>> /\ c.from = from
  <2>1. "start" \in Place
    BY DEF Place
  <2> QED BY <1>1, <1>2, <2>1, FrameFacts
<1> HIDE DEF c
<1>4. FrameOK(c)
  BY <1>2, <1>3 DEF FrameOK, Filled
<1>5. Awaits(Moved(at, got), c)
  BY <1>3
<1>6. Go(at, got, <<c>>, n)
  BY DEF c
<1> QED BY <1>3, <1>4, <1>5, <1>6, Calls

(* An activation that reads a token, and one that has what it waited for.  *)
Reading == {"start", "directives", "params", "next_param", "arrow", "statements"}

(* One that reads has the tokens that it may read.                         *)
LEMMA TopReads ==
  ASSUME IInv, Top.at \in Reading
  PROVE  /\ Reads(Top, index)
         /\ Top.fn # "prefix_op_expr" => index \in 1..Len(tokens)
         /\ (/\ Top.at = "start"
             /\ Top.fn \in {"fn_proto", "block", "primary_expr", "expression", "prefix_op_expr"})
            => index = Top.from
<1>1. Reads(Top, index)
  BY AwaitingPlaces DEF IInv, TopOK, Served, Reading
<1> QED BY <1>1, TopFacts DEF Reads

(* One that does not read waits for a function that has returned.          *)
LEMMA TopHas ==
  ASSUME IInv, Top.at \notin Reading
  PROVE  /\ index \in 1..Len(tokens)
         /\ \E f \in Activation : Awaits(Top, f) /\ Promises(f, result, index)
<1>1. ~Reads(Top, index)
  BY DEF Reads, Reading
<1> QED BY <1>1, TopFacts DEF IInv, TopOK, Served

(* The tokens that ast_expect_token finds.                                 *)
LEMMA ExpectedTokens ==
  ASSUME IInv, index <= Len(tokens), NEW S, NEW ids \in Seq(S),
         \A k \in 1..Len(ids) : ids[k] # "Eof"
  PROVE  /\ Expects(ids) => index + Len(ids) <= Len(tokens)
         /\ FailAtFirst(ids) => StepOK
<1> DEFINE a == Len(ids)
           b == Len(tokens)
<1>1. a \in Nat /\ b \in Nat /\ index \in 1..b
  BY TopFacts, LenProperties
<1>2. \A k \in 1..a : k \notin Mismatches(ids) => index + k <= b
  <2> SUFFICES ASSUME NEW k \in 1..a, k \notin Mismatches(ids) PROVE index + k <= b
    OBVIOUS
  <2> DEFINE i == index + k - 1
  <2>1. i <= b /\ tokens[i] = ids[k]
    BY <1>1 DEF Mismatches
  <2>2. i \in 1..b /\ i + 1 = index + k
    BY <1>1, <2>1
  <2> HIDE DEF i, a, b
  <2>3. i + 1 \in 1..b
    BY <2>1, <2>2, TokenBehind DEF a, b
  <2> QED BY <1>1, <2>2, <2>3
<1>3. ASSUME Expects(ids)
      PROVE  index + a <= b
  <2> HIDE DEF a, b
  <2>1. CASE a = 0
    BY <1>1, <2>1 DEF b
  <2>2. CASE a # 0
    <3>1. a \in 1..a
      BY <1>1, <2>2
    <3> QED BY <1>2, <1>3, <3>1 DEF Expects
  <2> QED BY <2>1, <2>2
<1>4. ASSUME FailAtFirst(ids)
      PROVE  StepOK
  <2>1. PICK k \in Mismatches(ids) : (\A j \in Mismatches(ids) : k <= j) /\ Fail(index + k - 1)
    BY <1>4 DEF FailAtFirst
  <2>2. k \in 1..a
    BY DEF Mismatches
  <2> DEFINE i == index + k - 1
  <2>3. i \in 1..b
    <3>1. CASE k = 1
      BY <1>1, <3>1
    <3>2. CASE k # 1
      <4> DEFINE j == k - 1
      <4>1. j \in 1..a /\ j < k /\ index + j = i
        BY <1>1, <2>2, <3>2
      <4> HIDE DEF j, i, a, b
      <4>2. j \notin Mismatches(ids)
        BY <1>1, <2>1, <2>2, <4>1
      <4>3. index + j <= b
        BY <1>2, <4>1, <4>2
      <4> QED BY <1>1, <4>1, <4>3
    <3> QED BY <3>1, <3>2
  <2> HIDE DEF i
  <2>4. Fail(i)
    BY <2>1 DEF i
  <2> QED BY <2>3, <2>4, FailsAt
<1> QED BY <1>3, <1>4

-----------------------------------------------------------------------------
(* The functions of functions, parameters and types.                       *)

(* ast_parse_fn_def, whose callees return nodes.                           *)
LEMMA FnDefKeeps ==
  ASSUME IInv, FnBody \/ EndFnDef
  PROVE  StepOK
<1>1. Top.fn = "fn_def" /\ Top.at \notin Reading /\ ~Lists(Top)
  BY DEF FnBody, EndFnDef, Active, Reading, Lists
<1>2. PICK f \in Activation : Awaits(Top, f) /\ Promises(f, result, index)
  BY <1>1, TopHas
<1>3. index \in 1..Len(tokens) /\ Len(tokens) \in Nat
  BY <1>1, TopHas, TopFacts
<1>4. result # <<>> /\ result \in Node
  <2>1. Top.fn = "fn_def" => \/ Top.at = "proto" /\ f.fn = "fn_proto"
                             \/ Top.at = "body" /\ f.fn = "block" /\ f.mandatory
    BY <1>2, Awaited
  <2> QED BY <1>1, <1>2, <2>1, TopFacts DEF Promises, None, Lenient
<1>5. Follows(result, 0) /\ Follows(Top.got \o result, 0) /\ Top.got \o result \in Node
  BY Followers
<1>6. index + 0 = index
  BY <1>3
<1>7. CASE FnBody
  <2>1. /\ "body" \in Place /\ "body" # "proto"
        /\ "block" \in {"type", "block", "expression", "primary_expr"}
    BY DEF Place
  <2>2. Go("body", result, <<Frame("block", "start", TRUE, index)>>, 0) /\ Continue
    BY <1>7 DEF FnBody
  <2>3. \A c : c.fn = "block" /\ c.mandatory = TRUE /\ c.from = index
          => Awaits(Moved("body", result), c)
    BY <1>1, <1>4, <2>1, MovedFacts DEF Awaits
  <2>4. index = index + 0 /\ index + 0 <= Len(tokens) /\ Top.fn # "top_level_decl"
    BY <1>1, <1>3
  <2> QED BY <1>1, <1>4, <1>5, <2>1, <2>2, <2>3, <2>4, CallsFrame
<1>8. CASE EndFnDef
  <2>1. Top.got \o result # <<>>
    BY <1>4, TopFacts, NodesJoined
  <2>2. Promises(Top, Top.got \o result, index + 0)
    BY <2>1 DEF Promises, None
  <2> QED BY <1>1, <1>3, <1>5, <1>6, <1>8, <2>2, ReturnsTo DEF EndFnDef
<1> QED BY <1>7, <1>8

(* ast_parse_fn_proto behind its header, and the list of parameters.       *)
LEMMA FnProtoReads ==
  ASSUME IInv, NoParams \/ ParamDecl \/ Arrow
  PROVE  StepOK
<1>1. Top.fn = "fn_proto" /\ Top.at \in {"params", "next_param", "arrow"}
  BY DEF NoParams, ParamDecl, Arrow, Active
<1>2. Top.at \in Reading /\ ~Lists(Top) /\ Top.fn # "prefix_op_expr"
  BY <1>1 DEF Reading, Lists
<1>3. index \in 1..Len(tokens) /\ Len(tokens) \in Nat /\ Top.got # <<>> /\ Top.got \in Node
  <2>1. FrameOK(Top) /\ Top.at \in Filled
    BY <1>1, TopFacts DEF Filled
  <2> QED BY <1>2, <2>1, TopReads, TopFacts DEF FrameOK
<1>4. Follows(Top.got, 0) /\ Follows(Top.got, 1)
  BY Followers
<1>5. CASE NoParams
  <2>1. "arrow" \in Place /\ "arrow" # "proto"
    BY DEF Place
  <2>2. Go("arrow", Top.got, <<>>, 1) /\ Continue /\ tokens[index] # "Eof"
    BY <1>5 DEF NoParams, Token
  <2>3. index + 1 <= Len(tokens)
    BY <1>3, <2>2, TokenBehind
  <2>4. ~Lists(Moved("arrow", Top.got)) /\ Reads(Moved("arrow", Top.got), index + 1)
    BY <1>1, <1>3, <2>1, <2>3, MovedFacts DEF Lists, Reads
  <2> QED BY <1>1, <1>2, <1>3, <1>4, <2>1, <2>2, <2>3, <2>4, GoesOnHere
<1>6. CASE ParamDecl
  <2> DEFINE ids == <<"Symbol", "Colon">>
             g == Top.got \o <<index>>
  <2>1. ids \in Seq({"Symbol", "Colon"}) /\ Len(ids) = 2 /\ \A k \in 1..Len(ids) : ids[k] # "Eof"
    OBVIOUS
  <2>2. IF Expects(ids)
        THEN Go("param", g, <<Frame("type", "start", TRUE, index + 2)>>, 2) /\ Continue
        ELSE FailAtFirst(ids)
    BY <1>6 DEF ParamDecl
  <2> HIDE DEF ids
  <2>3. Expects(ids) => index + 2 <= Len(tokens)
    <3>1. index <= Len(tokens)
      BY <1>3
    <3>2. Expects(ids) => index + Len(ids) <= Len(tokens)
      BY <2>1, <3>1, ExpectedTokens
    <3> QED BY <2>1, <3>2
  <2>4. CASE Expects(ids)
    <3>1. /\ "param" \in Place /\ "param" # "proto"
          /\ "type" \in {"type", "block", "expression", "primary_expr"}
      BY DEF Place
    <3>2. g \in Node /\ g # <<>> /\ Follows(g, 1)
      BY <1>3, <1>4, TokenFollows
    <3> HIDE DEF g
    <3>3. Follows(g, 2)
      <4>1. \A k \in DOMAIN g : g[k] < index + 2
        BY <1>3, <3>2, NodeElements DEF Follows
      <4> QED BY <3>2, <4>1 DEF Follows
    <3>4. ASSUME NEW c, c.fn = "type" PROVE Awaits(Moved("param", g), c)
      BY <1>1, <3>1, <3>2, <3>4, MovedFacts DEF Awaits
    <3>5. Go("param", g, <<Frame("type", "start", TRUE, index + 2)>>, 2) /\ Continue
      BY <2>2, <2>4
    <3> QED BY <1>1, <1>2, <2>3, <2>4, <3>1, <3>2, <3>3, <3>4, <3>5, CallsFrame
  <2>5. CASE ~Expects(ids)
    BY <1>3, <2>1, <2>2, <2>5, ExpectedTokens
  <2> QED BY <2>4, <2>5
<1>7. CASE Arrow
  <2>1. CASE Token = "Arrow"
    <3>1. /\ "return_type" \in Place /\ "return_type" # "proto"
          /\ "type" \in {"type", "block", "expression", "primary_expr"}
      BY DEF Place
    <3>2. Go("return_type", Top.got, <<Frame("type", "start", TRUE, index + 1)>>, 1) /\ Continue
      BY <1>7, <2>1 DEF Arrow
    <3>3. index + 1 <= Len(tokens)
      BY <1>3, <2>1, TokenBehind DEF Token
    <3>4. ASSUME NEW c, c.fn = "type" PROVE Awaits(Moved("return_type", Top.got), c)
      BY <1>1, <1>3, <3>1, <3>4, MovedFacts DEF Awaits
    <3> QED BY <1>1, <1>2, <1>3, <1>4, <3>1, <3>2, <3>3, <3>4, CallsFrame
  <2>2. CASE Token # "Arrow"
    <3>1. Return(Top.got, 0) /\ Continue
      BY <1>7, <2>2 DEF Arrow
    <3>2. Promises(Top, Top.got, index + 0) /\ index + 0 <= Len(tokens)
      BY <1>3 DEF Promises, None
    <3> QED BY <1>1, <1>2, <1>3, <1>4, <3>1, <3>2, ReturnsTo
  <2> QED BY <2>1, <2>2
<1> QED BY <1>5, <1>6, <1>7

(* ast_parse_fn_proto behind a parameter and behind the type it returns.   *)
LEMMA FnProtoWaits ==
  ASSUME IInv, EndParam \/ EndFnProto
  PROVE  StepOK
<1>1. Top.fn = "fn_proto" /\ Top.at \in {"param", "return_type"}
  BY DEF EndParam, EndFnProto, Active
<1>2. Top.at \notin Reading /\ ~Lists(Top)
  BY <1>1 DEF Reading, Lists
<1>3. index \in 1..Len(tokens) /\ Len(tokens) \in Nat
  BY <1>2, TopHas, TopFacts
<1> DEFINE g == Top.got \o result
<1>4. g \in Node /\ g # <<>> /\ Follows(g, 0) /\ Follows(g, 1)
  <2>1. FrameOK(Top) /\ Top.at \in Filled
    BY <1>1, TopFacts DEF Filled
  <2>2. Top.got # <<>> /\ Top.got \in Node /\ result \in Node
    BY <2>1, TopFacts DEF FrameOK
  <2> QED BY <2>2, Followers, NodesJoined
<1>5. CASE EndFnProto
  <2>1. Return(g, 0) /\ Continue
    BY <1>5 DEF EndFnProto
  <2>2. Promises(Top, g, index + 0) /\ index + 0 <= Len(tokens)
    BY <1>3, <1>4 DEF Promises, None
  <2> QED BY <1>1, <1>2, <1>4, <2>1, <2>2, ReturnsTo
<1>6. CASE EndParam
  <2>1. CASE Token \notin {"RParen", "Comma"}
    BY <1>3, <1>6, <2>1, FailsAt DEF EndParam
  <2>2. CASE Token \in {"RParen", "Comma"}
    <3>1. PICK at \in {"arrow", "next_param"} : Go(at, g, <<>>, 1) /\ Continue
      BY <1>6, <2>2 DEF EndParam
    <3>2. at \in Place /\ at # "proto"
      BY DEF Place
    <3>3. index + 1 <= Len(tokens)
      BY <1>3, <2>2, TokenBehind DEF Token
    <3> HIDE DEF g
    <3>4. ~Lists(Moved(at, g)) /\ Reads(Moved(at, g), index + 1)
      BY <1>1, <1>4, <3>2, <3>3, MovedFacts DEF Lists, Reads
    <3> QED BY <1>1, <1>2, <1>4, <3>1, <3>2, <3>3, <3>4, GoesOnHere
  <2> QED BY <2>1, <2>2
<1> QED BY <1>5, <1>6

(* ast_parse_type, the pointers and the rest.                              *)
LEMMA TypeKeeps ==
  ASSUME IInv, PointerType \/ PrimitiveType
  PROVE  StepOK
<1>1. Top.fn = "type" /\ Top.at = "start"
  BY DEF PointerType, PrimitiveType, Active
<1>2. Top.at \in Reading /\ ~Lists(Top) /\ Top.fn # "prefix_op_expr"
  BY <1>1 DEF Reading, Lists
<1>3. index \in 1..Len(tokens) /\ Len(tokens) \in Nat /\ Top.got \in Node
  BY <1>2, TopReads, TopFacts
<1>4. Follows(Top.got, 0)
  BY Followers
<1>5. CASE PointerType
  <2>1. index + 1 \in 1..Len(tokens)
    BY <1>3, <1>5, TokenBehind DEF PointerType, Token
  <2>2. CASE tokens[index + 1] \in {"KeywordMut", "KeywordConst"}
    <3> DEFINE g == Top.got \o <<index, index + 1>>
    <3>1. "start" \in Place /\ "start" # "proto"
      BY DEF Place
    <3>2. g \in Node /\ g # <<>> /\ Follows(g, 2)
      BY <1>3, <1>4, <2>1, TokenFollows
    <3>3. Go("start", g, <<>>, 2) /\ Continue
      BY <1>5, <2>2 DEF PointerType
    <3>4. index + 2 <= Len(tokens)
      <4> DEFINE i == index + 1
      <4>1. i \in 1..Len(tokens) /\ tokens[i] # "Eof"
        BY <2>1, <2>2
      <4> HIDE DEF i
      <4>2. i + 1 <= Len(tokens)
        BY <4>1, TokenBehind
      <4> QED BY <1>3, <4>2 DEF i
    <3> HIDE DEF g
    <3>5. ~Lists(Moved("start", g)) /\ Reads(Moved("start", g), index + 2)
      BY <1>1, <3>1, <3>2, <3>4, MovedFacts DEF Lists, Reads
    <3> QED BY <1>1, <1>2, <3>1, <3>2, <3>3, <3>4, <3>5, GoesOnHere
  <2>3. CASE tokens[index + 1] \notin {"KeywordMut", "KeywordConst"}
    BY <1>5, <2>1, <2>3, FailsAt DEF PointerType
  <2> QED BY <2>2, <2>3
<1>6. CASE PrimitiveType
  <2>1. CASE Token \in {"KeywordUnreachable", "Symbol"}
    <3> DEFINE g == Top.got \o <<index>>
    <3>1. g \in Node /\ g # <<>> /\ Follows(g, 1)
      BY <1>3, <1>4, TokenFollows
    <3>2. Return(g, 1) /\ Continue
      BY <1>6, <2>1 DEF PrimitiveType
    <3>3. index + 1 <= Len(tokens)
      BY <1>3, <2>1, TokenBehind DEF Token
    <3> HIDE DEF g
    <3>4. Promises(Top, g, index + 1)
      BY <3>1 DEF Promises, None
    <3> QED BY <1>1, <1>2, <3>1, <3>2, <3>3, <3>4, ReturnsTo
  <2>2. CASE Token \notin {"KeywordUnreachable", "Symbol"}
    BY <1>3, <1>6, <2>2, FailsAt DEF PrimitiveType
  <2> QED BY <2>1, <2>2
<1> QED BY <1>5, <1>6

-----------------------------------------------------------------------------
(* The functions of blocks, statements and expressions.                    *)

(* ast_parse_block.                                                        *)
LEMMA BlockReads ==
  ASSUME IInv, BeginBlock \/ Statement \/ EndBlock
  PROVE  StepOK
<1>1. Top.fn = "block" /\ Top.at \in {"start", "statements"}
  BY DEF BeginBlock, Statement, EndBlock, Active
<1>2. Top.at \in Reading /\ ~Lists(Top) /\ Top.fn # "prefix_op_expr" /\ Top.fn # "top_level_decl"
  BY <1>1 DEF Reading, Lists
<1>3. index \in 1..Len(tokens) /\ Len(tokens) \in Nat /\ Top.got \in Node /\ index + 0 = index
  BY <1>2, TopReads, TopFacts
<1>4. Token # "Eof" => index + 1 <= Len(tokens)
  BY <1>3, TokenBehind DEF Token
<1>5. CASE BeginBlock
  <2>1. Top.at = "start"
    BY <1>5 DEF BeginBlock, Active
  <2>2. CASE Token = "LBrace"
    <3> DEFINE g == <<index>>
    <3>1. g \in Node /\ g # <<>> /\ Follows(g, 1)
      <4>1. Follows(<<>>, 0) /\ <<>> \in Node
        BY Followers DEF Node
      <4> QED BY <1>3, <4>1, TokenFollows
    <3>2. Go("statements", g, <<>>, 1) /\ Continue
      BY <1>5, <2>2 DEF BeginBlock
    <3> HIDE DEF g
    <3>3. "statements" \in Place /\ "statements" # "proto"
      BY DEF Place
    <3>4. index + 1 <= Len(tokens)
      BY <1>4, <2>2
    <3>5. ~Lists(Moved("statements", g)) /\ Reads(Moved("statements", g), index + 1)
      BY <1>1, <3>1, <3>3, <3>4, MovedFacts DEF Lists, Reads
    <3> QED BY <1>2, <3>1, <3>2, <3>3, <3>4, <3>5, GoesOnHere
  <2>3. CASE Token # "LBrace" /\ ~Top.mandatory
    <3>1. Return(None, 0) /\ Continue /\ None \in Node /\ Follows(None, 0)
      BY <1>5, <2>3, Followers DEF BeginBlock, None, Node
    <3>2. index = Top.from
      BY <1>1, <1>2, <2>1, TopReads
    <3>3. Promises(Top, None, index + 0)
      BY <1>1, <1>3, <2>3, <3>2 DEF Promises
    <3> QED BY <1>2, <1>3, <3>1, <3>3, ReturnsTo
  <2>4. CASE Token # "LBrace" /\ Top.mandatory
    BY <1>3, <1>5, <2>4, FailsAt DEF BeginBlock
  <2> QED BY <2>2, <2>3, <2>4
<1>6. ASSUME Top.at = "statements"
      PROVE  Top.got # <<>> /\ Follows(Top.got, 0) /\ Follows(Top.got, 1)
  BY <1>6, TopFacts, Followers DEF FrameOK, Filled
<1>7. CASE Statement
  <2>1. Top.at = "statements"
    BY <1>7 DEF Statement, Active
  <2>2. /\ "semicolon" \in Place /\ "semicolon" # "proto"
        /\ "expression" \in {"type", "block", "expression", "primary_expr"}
    BY DEF Place
  <2>3. Go("semicolon", Top.got, <<Frame("expression", "start", TRUE, index)>>, 0) /\ Continue
    BY <1>7 DEF Statement
  <2>4. \A c : c.fn = "expression" /\ c.mandatory = TRUE /\ c.from = index
          => Awaits(Moved("semicolon", Top.got), c)
    BY <1>1, <1>3, <2>2, MovedFacts DEF Awaits
  <2>5. index = index + 0 /\ index + 0 <= Len(tokens)
    BY <1>3
  <2> QED BY <1>2, <1>3, <1>6, <2>1, <2>2, <2>3, <2>4, <2>5, CallsFrame
<1>8. CASE EndBlock
  <2>1. Top.at = "statements" /\ Return(Top.got, 1) /\ Continue /\ Token # "Eof"
    BY <1>8 DEF EndBlock, Active
  <2>2. Promises(Top, Top.got, index + 1)
    BY <1>6, <2>1 DEF Promises, None
  <2> QED BY <1>2, <1>3, <1>4, <1>6, <2>1, <2>2, ReturnsTo
<1> QED BY <1>5, <1>7, <1>8

(* ast_parse_block behind a statement.                                     *)
LEMMA BlockWaits ==
  ASSUME IInv, EndStatement
  PROVE  StepOK
<1>1. Top.fn = "block" /\ Top.at = "semicolon" /\ Top.fn # "top_level_decl"
  BY DEF EndStatement, Active
<1>2. Top.at \notin Reading /\ ~Lists(Top)
  BY <1>1 DEF Reading, Lists
<1>3. index \in 1..Len(tokens) /\ Len(tokens) \in Nat
  BY <1>2, TopHas, TopFacts
<1> DEFINE g == Top.got \o result
<1>4. g \in Node /\ g # <<>> /\ Follows(g, 0)
  <2>1. Top.got # <<>> /\ Top.got \in Node /\ result \in Node
    BY <1>1, TopFacts DEF FrameOK, Filled
  <2> QED BY <2>1, Followers, NodesJoined
<1>5. CASE Token = "Semicolon"
  <2>1. Go("statements", g, <<>>, 0) /\ Continue
    BY <1>5 DEF EndStatement
  <2> HIDE DEF g
  <2>2. "statements" \in Place /\ "statements" # "proto" /\ index + 0 <= Len(tokens)
    BY <1>3 DEF Place
  <2>3. ~Lists(Moved("statements", g)) /\ Reads(Moved("statements", g), index + 0)
    BY <1>1, <1>4, <2>2, MovedFacts DEF Lists, Reads
  <2> QED BY <1>1, <1>2, <1>4, <2>1, <2>2, <2>3, GoesOnHere
<1>6. CASE Token # "Semicolon"
  BY <1>3, <1>6, FailsAt DEF EndStatement
<1> QED BY <1>5, <1>6

(* ast_parse_return_expr.                                                  *)
LEMMA ReturnExprKeeps ==
  ASSUME IInv, ReturnExpr \/ EndReturn
  PROVE  StepOK
<1>1. Top.fn = "expression" /\ Top.fn # "top_level_decl" /\ ~Lists(Top)
  BY DEF ReturnExpr, EndReturn, Active, Lists
<1>2. CASE ReturnExpr
  <2>1. Top.at = "start" /\ Token = "KeywordReturn"
    BY <1>2 DEF ReturnExpr, Active
  <2>2. index \in 1..Len(tokens) /\ Len(tokens) \in Nat
    BY <1>1, <2>1, TopReads, TopFacts DEF Reading
  <2>3. index + 1 <= Len(tokens)
    BY <2>1, <2>2, TokenBehind DEF Token
  <2> DEFINE g == <<index>>
  <2>4. g \in Node /\ g # <<>> /\ Follows(g, 1)
    <3>1. Follows(<<>>, 0) /\ <<>> \in Node
      BY Followers DEF Node
    <3> QED BY <2>2, <3>1, TokenFollows
  <2>5. Go("return", g, <<Frame("expression", "start", FALSE, index + 1)>>, 1) /\ Continue
    BY <1>2 DEF ReturnExpr
  <2> HIDE DEF g
  <2>6. /\ "return" \in Place /\ "return" # "proto"
        /\ "expression" \in {"type", "block", "expression", "primary_expr"}
    BY DEF Place
  <2>7. \A c : c.fn = "expression" => Awaits(Moved("return", g), c)
    BY <1>1, <2>4, <2>6, MovedFacts DEF Awaits
  <2> QED BY <1>1, <2>3, <2>4, <2>5, <2>6, <2>7, CallsFrame
<1>3. CASE EndReturn
  <2>1. Top.at = "return" /\ Return(Top.got \o result, 0) /\ Continue
    BY <1>3 DEF EndReturn, Active
  <2>2. index \in 1..Len(tokens) /\ Len(tokens) \in Nat
    BY <2>1, TopHas, TopFacts DEF Reading
  <2> DEFINE g == Top.got \o result
  <2>3. g \in Node /\ g # <<>> /\ Follows(g, 0)
    <3>1. Top.got # <<>> /\ Top.got \in Node /\ result \in Node
      BY <2>1, TopFacts DEF FrameOK, Filled
    <3> QED BY <3>1, Followers, NodesJoined
  <2>4. Promises(Top, g, index + 0) /\ index + 0 <= Len(tokens)
    BY <2>2, <2>3 DEF Promises, None
  <2> QED BY <1>1, <2>1, <2>3, <2>4, ReturnsTo
<1> QED BY <1>2, <1>3

(* ast_parse_expression, whose operand may be missing.                     *)
LEMMA ExpressionEnds ==
  ASSUME IInv, EndExpression
  PROVE  StepOK
<1>1. Top.fn = "expression" /\ Top.at = "operand" /\ Top.fn # "top_level_decl" /\ ~Lists(Top)
  BY DEF EndExpression, Active, Lists
<1>2. index \in 1..Len(tokens) /\ Len(tokens) \in Nat /\ result \in Node
  BY <1>1, TopHas, TopFacts DEF Reading
<1>3. CASE Missing
  <2>1. Top.from \in 1..Len(tokens)
    BY <1>1, <1>2, TopFacts DEF FrameOK
  <2> QED BY <1>3, <2>1, FailsAt DEF EndExpression
<1>4. CASE ~Missing
  <2>1. Return(result, 0) /\ Continue /\ Follows(result, 0) /\ index + 0 <= Len(tokens)
    BY <1>2, <1>4, Followers DEF EndExpression
  <2>2. Promises(Top, result, index + 0)
    BY <1>1, <1>4 DEF Promises, Missing
  <2> QED BY <1>1, <1>2, <2>1, <2>2, ReturnsTo
<1> QED BY <1>3, <1>4

(* ast_parse_primary_expr.                                                 *)
LEMMA PrimaryReads ==
  ASSUME IInv, AtomExpr \/ TryBlock
  PROVE  StepOK
<1>1. Top.fn = "primary_expr" /\ Top.at = "start" /\ Top.fn # "top_level_decl" /\ ~Lists(Top)
  BY DEF AtomExpr, TryBlock, Active, Lists
<1>2. index \in 1..Len(tokens) /\ Len(tokens) \in Nat /\ index = Top.from
  BY <1>1, TopReads, TopFacts DEF Reading
<1>3. CASE AtomExpr
  <2> DEFINE g == <<index>>
  <2>1. g \in Node /\ g # <<>> /\ Follows(g, 1)
    <3>1. Follows(<<>>, 0) /\ <<>> \in Node
      BY Followers DEF Node
    <3> QED BY <1>2, <3>1, TokenFollows
  <2>2. Return(g, 1) /\ Continue /\ Token # "Eof"
    BY <1>3 DEF AtomExpr, Atom
  <2> HIDE DEF g
  <2>3. index + 1 <= Len(tokens)
    BY <1>2, <2>2, TokenBehind DEF Token
  <2>4. Promises(Top, g, index + 1)
    BY <2>1 DEF Promises, None
  <2> QED BY <1>1, <2>1, <2>2, <2>3, <2>4, ReturnsTo
<1>4. CASE TryBlock
  <2>1. /\ "block" \in Place /\ "block" # "proto" /\ "block" \notin Filled /\ <<>> \in Node
        /\ "block" \in {"type", "block", "expression", "primary_expr"}
    BY DEF Place, Filled, Node
  <2>2. Go("block", <<>>, <<Frame("block", "start", FALSE, index)>>, 0) /\ Continue
    BY <1>4 DEF TryBlock
  <2>3. \A c : c.fn = "block" /\ c.mandatory = FALSE /\ c.from = index
          => Awaits(Moved("block", <<>>), c)
    BY <1>1, <1>2, <2>1, MovedFacts DEF Awaits
  <2>4. index = index + 0 /\ index + 0 <= Len(tokens) /\ Follows(<<>>, 0)
    BY <1>2, Followers
  <2> QED BY <1>1, <2>1, <2>2, <2>3, <2>4, CallsFrame
<1> QED BY <1>3, <1>4

(* ast_parse_primary_expr behind a block and behind a group.               *)
LEMMA PrimaryWaits ==
  ASSUME IInv, BlockExpr \/ GroupedExpr \/ EndGrouped
  PROVE  StepOK
<1>1. /\ Top.fn = "primary_expr" /\ Top.at \in {"block", "grouped"}
      /\ Top.fn # "top_level_decl" /\ ~Lists(Top)
  BY DEF BlockExpr, GroupedExpr, EndGrouped, Active, Lists
<1>2. Top.at \notin Reading
  BY <1>1 DEF Reading
<1>3. index \in 1..Len(tokens) /\ Len(tokens) \in Nat /\ result \in Node /\ index + 0 = index
  BY <1>2, TopHas, TopFacts
<1>4. PICK f \in Activation : Awaits(Top, f) /\ Promises(f, result, index)
  BY <1>2, TopHas
<1>5. Top.fn = "primary_expr" => \/ Top.at = "block" /\ f.fn = "block" /\ f.from = Top.from
                                 \/ Top.at = "grouped" /\ f.fn = "expression" /\ f.mandatory
  BY <1>4, Awaited
<1>6. Follows(result, 0) /\ Follows(result, 1) /\ Follows(<<>>, 0) /\ Follows(<<>>, 1)
  BY Followers
<1>7. CASE BlockExpr
  <2>1. Return(result, 0) /\ Continue /\ Promises(Top, result, index + 0)
    BY <1>7 DEF BlockExpr, Promises
  <2> QED BY <1>1, <1>3, <1>6, <2>1, ReturnsTo
<1>8. CASE GroupedExpr
  <2>1. Top.at = "block" /\ result = None
    BY <1>8 DEF GroupedExpr, Active
  <2>2. index = Top.from
    BY <1>1, <1>4, <1>5, <2>1 DEF Promises, Lenient
  <2>3. CASE Token = "LParen"
    <3>1. /\ "grouped" \in Place /\ "grouped" # "proto" /\ "grouped" \notin Filled /\ <<>> \in Node
          /\ "expression" \in {"type", "block", "expression", "primary_expr"}
      BY DEF Place, Filled, Node
    <3>2. Go("grouped", <<>>, <<Frame("expression", "start", TRUE, index + 1)>>, 1) /\ Continue
      BY <1>8, <2>3 DEF GroupedExpr
    <3>3. \A c : c.fn = "expression" /\ c.mandatory = TRUE /\ c.from = index + 1
            => Awaits(Moved("grouped", <<>>), c)
      BY <1>1, <3>1, MovedFacts DEF Awaits
    <3>4. index + 1 <= Len(tokens)
      BY <1>3, <2>3, TokenBehind DEF Token
    <3> QED BY <1>1, <1>6, <3>1, <3>2, <3>3, <3>4, CallsFrame
  <2>4. CASE Token # "LParen" /\ ~Top.mandatory
    <3>1. Return(None, 0) /\ Continue /\ None \in Node /\ Follows(None, 0)
      BY <1>6, <1>8, <2>4 DEF GroupedExpr, None, Node
    <3>2. Promises(Top, None, index + 0)
      BY <1>1, <1>3, <2>2, <2>4 DEF Promises
    <3> QED BY <1>1, <1>3, <3>1, <3>2, ReturnsTo
  <2>5. CASE Token # "LParen" /\ Top.mandatory
    BY <1>3, <1>8, <2>5, FailsAt DEF GroupedExpr
  <2> QED BY <2>3, <2>4, <2>5
<1>9. CASE EndGrouped
  <2>1. Top.at = "grouped"
    BY <1>9 DEF EndGrouped, Active
  <2>2. result # None
    BY <1>1, <1>4, <1>5, <2>1 DEF Promises, Lenient
  <2>3. CASE Token = "RParen"
    <3>1. Return(result, 1) /\ Continue /\ Promises(Top, result, index + 1)
      BY <1>9, <2>2, <2>3 DEF EndGrouped, Promises
    <3>2. index + 1 <= Len(tokens)
      BY <1>3, <2>3, TokenBehind DEF Token
    <3> QED BY <1>1, <1>3, <1>6, <3>1, <3>2, ReturnsTo
  <2>4. CASE Token # "RParen"
    BY <1>3, <1>9, <2>4, FailsAt DEF EndGrouped
  <2> QED BY <2>3, <2>4
<1> QED BY <1>7, <1>8, <1>9

(* ast_parse_fn_call_expr and the end of ast_parse_prefix_op_expr.         *)
LEMMA FnCallKeeps ==
  ASSUME IInv, FnCall
  PROVE  StepOK
<1>1. Top.fn = "fn_call_expr" /\ Top.at = "fn_ref" /\ Top.fn # "top_level_decl" /\ ~Lists(Top)
  BY DEF FnCall, Active, Lists
<1>2. Top.at \notin Reading
  BY <1>1 DEF Reading
<1>3. index \in 1..Len(tokens) /\ Len(tokens) \in Nat /\ result \in Node /\ index + 0 = index
  BY <1>2, TopHas, TopFacts
<1>4. PICK f \in Activation : Awaits(Top, f) /\ Promises(f, result, index)
  BY <1>2, TopHas
<1>5. Top.fn = "fn_call_expr" => Top.at = "fn_ref" /\ f.fn = "primary_expr" /\ Same(Top, f)
  BY <1>4, Awaited
<1>6. CASE result # None /\ Token = "LParen"
  BY <1>3, <1>6, FailsAt DEF FnCall
<1>7. CASE ~(result # None /\ Token = "LParen")
  <2>1. Return(result, 0) /\ Continue /\ Follows(result, 0)
    BY <1>7, Followers DEF FnCall
  <2>2. Promises(Top, result, index + 0)
    BY <1>1, <1>3, <1>4, <1>5 DEF Promises, Same, Lenient
  <2> QED BY <1>1, <1>3, <2>1, <2>2, ReturnsTo
<1> QED BY <1>6, <1>7

(* ast_parse_prefix_op_expr behind its operand.                            *)
LEMMA PrefixEnds ==
  ASSUME IInv, EndPrefix
  PROVE  StepOK
<1>1. Top.fn = "prefix_op_expr" /\ Top.at = "operand" /\ Top.fn # "top_level_decl" /\ ~Lists(Top)
  BY DEF EndPrefix, Active, Lists
<1>2. Top.at \notin Reading
  BY <1>1 DEF Reading
<1>3. /\ index \in 1..Len(tokens) /\ Len(tokens) \in Nat /\ result \in Node /\ index + 0 = index
      /\ Top.got \in Node
  BY <1>2, TopHas, TopFacts
<1>4. PICK f \in Activation : Awaits(Top, f) /\ Promises(f, result, index)
  BY <1>2, TopHas
<1>5. Top.fn = "prefix_op_expr" => /\ Top.at = "operand" /\ f.fn = "fn_call_expr"
                                   /\ IF Top.got = <<>> THEN Same(Top, f) ELSE f.mandatory
  BY <1>4, Awaited
<1>6. CASE result = None
  <2>1. Return(None, 0) /\ Continue /\ None \in Node /\ Follows(None, 0)
    BY <1>6, Followers DEF EndPrefix, None, Node
  <2>2. Promises(Top, None, index + 0)
    BY <1>1, <1>3, <1>4, <1>5, <1>6 DEF Promises, Same, Lenient
  <2> QED BY <1>1, <1>3, <2>1, <2>2, ReturnsTo
<1>7. CASE result # None
  <2> DEFINE g == Top.got \o result
  <2>1. g \in Node /\ g # <<>> /\ Follows(g, 0)
    BY <1>3, <1>7, Followers, NodesJoined DEF None
  <2>2. Return(g, 0) /\ Continue
    BY <1>7 DEF EndPrefix
  <2> HIDE DEF g
  <2>3. Promises(Top, g, index + 0)
    BY <2>1 DEF Promises, None
  <2> QED BY <1>1, <1>3, <2>1, <2>2, <2>3, ReturnsTo
<1> QED BY <1>6, <1>7

(* A token read behind the end is the end.                                 *)
LEMMA EndReadBehind ==
  ASSUME IInv, ReadsBehindEnd
  PROVE  StepOK
<1>1. /\ outcome' = "undefined"
      /\ UNCHANGED <<input, index, stack, result, directive_list, decls, blamed>>
  BY DEF ReadsBehindEnd
<1>2. blamed' \in 0..Len(tokens)
  BY <1>1 DEF IInv, TypeOK
<1>3. UNCHANGED <<input, index, stack, result, directive_list, decls>>
  BY <1>1
<1> QED BY <1>1, <1>2, <1>3, StopsHere

-----------------------------------------------------------------------------
(* The functions of operators.                                             *)

(* The activations of CallFrom wait for one another.                       *)
Loosest(m) == IF m = 10 THEN "cast_expression" ELSE Binary[m]
Linked(cs, from) ==
  /\ cs \in Seq(Activation) /\ cs # <<>>
  /\ cs[1].fn = "prefix_op_expr" /\ cs[1].at = "start" /\ cs[1].from = from
  /\ \A k \in 1..Len(cs) : FrameOK(cs[k]) /\ cs[k].got = <<>>
  /\ \A k \in 1..Len(cs) - 1 : Awaits(cs[k + 1], cs[k])

(* The operators of CallFrom call one another, the prefix operators last.  *)
LEMMA CallChain ==
  ASSUME IInv, NEW m \in 1..10, NEW mandatory \in BOOLEAN, NEW from \in 1..Len(tokens) + 1,
         NEW cs, cs = CallFrom(m, mandatory, from)
  PROVE  /\ Linked(cs, from)
         /\ cs[Len(cs)].fn = Loosest(m) /\ cs[Len(cs)].mandatory = mandatory
<1> DEFINE p == Frame("prefix_op_expr", "start", mandatory, from)
           c == Frame("cast_expression", "operand_1", mandatory, from)
           b(i) == Frame(Binary[i], "operand_1", mandatory, from)
           two == <<p, c>>
           s == [k \in 1..Len(Binary) + 1 - m |-> b(Len(Binary) + 1 - k)]
<1>1. "start" \in Place /\ "operand_1" \in Place
  BY DEF Place
<1>2. \A i \in 1..9 : Binary[i] \in Function
  BY Levels
<1>3. "prefix_op_expr" \in Function /\ "cast_expression" \in Function
  BY Levels DEF Others
<1>4. /\ p \in Activation /\ p.fn = "prefix_op_expr" /\ p.at = "start" /\ p.mandatory = mandatory
      /\ p.got = <<>> /\ p.from = from
  BY <1>1, <1>3, FrameFacts
<1>5. /\ c \in Activation /\ c.fn = "cast_expression" /\ c.at = "operand_1"
      /\ c.mandatory = mandatory /\ c.got = <<>> /\ c.from = from
  BY <1>1, <1>3, FrameFacts
<1>6. \A i \in 1..9 : /\ b(i) \in Activation /\ b(i).fn = Binary[i] /\ b(i).at = "operand_1"
                      /\ b(i).mandatory = mandatory /\ b(i).got = <<>> /\ b(i).from = from
  BY <1>1, <1>2, FrameFacts
<1> HIDE DEF p, c, b
<1>7. s \in Seq(Activation) /\ Len(s) = 10 - m /\ \A k \in 1..10 - m : s[k] = b(10 - k)
  <2>1. Len(Binary) = 9
    BY BinaryNames
  <2>2. s = [k \in 1..10 - m |-> b(10 - k)]
    BY <2>1
  <2>3. \A k \in 1..10 - m : b(10 - k) \in Activation
    <3> SUFFICES ASSUME NEW k \in 1..10 - m PROVE b(10 - k) \in Activation
      OBVIOUS
    <3>1. 10 - k \in 1..9
      OBVIOUS
    <3> QED BY <1>6, <3>1
  <2> DEFINE l == 10 - m
             u == [k \in 1..l |-> b(10 - k)]
  <2>4. l \in Nat /\ \A k \in 1..l : b(10 - k) \in Activation
    BY <2>3
  <2>5. u \in Seq(Activation) /\ Len(u) = l /\ \A k \in 1..l : u[k] = b(10 - k)
    <3> HIDE DEF l
    <3> QED BY <2>4
  <2> QED BY <2>2, <2>5
<1>8. two \in Seq(Activation) /\ Len(two) = 2 /\ two[1] = p /\ two[2] = c
  BY <1>4, <1>5
<1>9. cs = two \o s
  BY DEF CallFrom, p, c, b
<1> HIDE DEF two, s
<1>10. /\ cs \in Seq(Activation) /\ Len(cs) = 12 - m /\ cs # <<>>
       /\ cs[1] = p /\ cs[2] = c /\ \A k \in 3..12 - m : cs[k] = b(12 - k)
  <2>1. two \in Seq(Activation) /\ s \in Seq(Activation)
    BY <1>7, <1>8
  <2>2. /\ cs \in Seq(Activation) /\ Len(cs) = Len(two) + Len(s)
        /\ \A i \in 1..Len(two) + Len(s) : cs[i] = IF i <= Len(two) THEN two[i] ELSE s[i - Len(two)]
    BY <1>9, <2>1, ConcatProperties
  <2>3. Len(cs) = 12 - m /\ \A i \in 1..12 - m : cs[i] = IF i <= 2 THEN two[i] ELSE s[i - 2]
    <3>1. Len(two) + Len(s) = 12 - m /\ Len(two) = 2
      BY <1>7, <1>8
    <3> QED BY <2>2, <3>1
  <2>4. cs[1] = p /\ cs[2] = c
    <3>1. 1 \in 1..12 - m /\ 2 \in 1..12 - m
      OBVIOUS
    <3> QED BY <1>8, <2>3, <3>1
  <2>5. \A k \in 3..12 - m : cs[k] = b(12 - k)
    <3> SUFFICES ASSUME NEW k \in 3..12 - m PROVE cs[k] = b(12 - k)
      OBVIOUS
    <3> DEFINE j == k - 2
    <3>1. k \in 1..12 - m /\ ~(k <= 2) /\ j \in 1..10 - m /\ 10 - j = 12 - k
      OBVIOUS
    <3>2. cs[k] = s[j]
      BY <2>3, <3>1
    <3> HIDE DEF j
    <3>3. s[j] = b(10 - j)
      BY <1>7, <3>1
    <3> QED BY <3>1, <3>2, <3>3
  <2>6. cs # <<>>
    BY <2>2, <2>3, EmptySeq
  <2> QED BY <2>2, <2>3, <2>4, <2>5, <2>6
<1>11. \A i \in 1..9 : Binary[i] # "top_level_decl" /\ Binary[i] # "expression"
  BY Levels DEF Others
<1>12. \A k \in 1..12 - m : FrameOK(cs[k]) /\ cs[k].got = <<>>
  <2> SUFFICES ASSUME NEW k \in 1..12 - m PROVE FrameOK(cs[k]) /\ cs[k].got = <<>>
    OBVIOUS
  <2>1. CASE k = 1
    BY <1>4, <1>10, <2>1 DEF FrameOK, Filled
  <2>2. CASE k = 2
    BY <1>5, <1>10, <2>2 DEF FrameOK, Filled
  <2>3. CASE k \in 3..12 - m
    <3> DEFINE i == 12 - k
    <3>1. i \in 1..9 /\ cs[k] = b(i)
      BY <1>10, <2>3
    <3> HIDE DEF i
    <3> QED BY <1>6, <1>11, <3>1 DEF FrameOK, Filled
  <2> QED BY <2>1, <2>2, <2>3
<1>13. \A k \in 1..11 - m : Awaits(cs[k + 1], cs[k])
  <2> SUFFICES ASSUME NEW k \in 1..11 - m PROVE Awaits(cs[k + 1], cs[k])
    OBVIOUS
  <2>1. CASE k = 1
    <3>1. Awaits(c, p)
      BY <1>4, <1>5 DEF Awaits, Same
    <3> QED BY <1>10, <2>1, <3>1
  <2>2. CASE k = 2
    <3>1. cs[3] = b(9)
      BY <1>10, <2>2
    <3>2. 9 \in 1..9 /\ b(9).fn = Binary[9] /\ c.fn = Tighter(9)
      BY <1>5, <1>6 DEF Tighter
    <3>3. Awaits(b(9), c)
      BY <1>5, <1>6, <3>2 DEF Awaits, Same
    <3> QED BY <1>10, <2>2, <3>1, <3>3
  <2>3. CASE k \in 3..11 - m
    <3> DEFINE i == 11 - k
               j == i + 1
               kk == k + 1
    <3>1. /\ i \in 1..9 /\ j \in 1..9 /\ i # 9
          /\ kk \in 3..12 - m /\ 12 - kk = i /\ k \in 3..12 - m /\ 12 - k = j
      BY <2>3
    <3>2. Tighter(i) = Binary[j]
      BY <3>1 DEF Tighter
    <3> HIDE DEF i, j, kk
    <3>3. cs[kk] = b(i) /\ cs[k] = b(j)
      BY <1>10, <3>1
    <3>4. b(i).fn = Binary[i] /\ b(j).fn = Tighter(i) /\ b(i).at = "operand_1" /\ Same(b(i), b(j))
      BY <1>6, <3>1, <3>2 DEF Same
    <3>5. Awaits(b(i), b(j))
      BY <3>1, <3>4 DEF Awaits
    <3> QED BY <3>3, <3>5 DEF kk
  <2> QED BY <2>1, <2>2, <2>3
<1>14. /\ cs[12 - m].fn = (IF m = 10 THEN "cast_expression" ELSE Binary[m])
       /\ cs[12 - m].mandatory = mandatory
  <2>1. CASE m = 10
    BY <1>5, <1>10, <2>1
  <2>2. CASE m # 10
    <3> DEFINE k == 12 - m
    <3>1. k \in 3..12 - m /\ 12 - k = m /\ m \in 1..9
      BY <2>2
    <3> HIDE DEF k
    <3>2. cs[k] = b(m)
      BY <1>10, <3>1
    <3> QED BY <1>6, <2>2, <3>1, <3>2 DEF k
  <2> QED BY <2>1, <2>2
<1> DEFINE l == 12 - m
<1>15. l - 1 = 11 - m
  OBVIOUS
<1>16. Len(cs) = l
  BY <1>10
<1>17. /\ \A k \in 1..Len(cs) : FrameOK(cs[k]) /\ cs[k].got = <<>>
       /\ \A k \in 1..Len(cs) - 1 : Awaits(cs[k + 1], cs[k])
       /\ cs[Len(cs)].fn = (IF m = 10 THEN "cast_expression" ELSE Binary[m])
       /\ cs[Len(cs)].mandatory = mandatory
  BY <1>12, <1>13, <1>14, <1>15, <1>16
<1>18. cs[1].fn = "prefix_op_expr" /\ cs[1].at = "start" /\ cs[1].from = from
  BY <1>4, <1>10
<1> QED BY <1>10, <1>17, <1>18 DEF Linked, Loosest

(* The call of an operand.                                                 *)
LEMMA CallsOperand ==
  ASSUME IInv, NEW at \in Place, NEW got \in Node, NEW n \in Nat, NEW mandatory \in BOOLEAN,
         NEW m \in 1..10, NEW from, from = index + n,
         Go(at, got, CallFrom(m, mandatory, from), n), Continue,
         Follows(got, n), index + n <= Len(tokens) + 1,
         at \in Filled => got # <<>>, at = "proto" => got = <<>>,
         Top.fn # "top_level_decl", ~Lists(Top),
         \A c : c.fn = Loosest(m) /\ c.mandatory = mandatory => Awaits(Moved(at, got), c)
  PROVE  StepOK
<1> DEFINE cs == CallFrom(m, mandatory, from)
<1>1. from \in 1..Len(tokens) + 1
  BY TopFacts
<1>2. cs = CallFrom(m, mandatory, from) /\ Go(at, got, cs, n)
  OBVIOUS
<1> HIDE DEF cs
<1>3. /\ Linked(cs, from)
      /\ cs[Len(cs)].fn = Loosest(m) /\ cs[Len(cs)].mandatory = mandatory
  <2>1. cs = CallFrom(m, mandatory, from)
    BY <1>2
  <2> QED BY ONLY IInv, m \in 1..10, mandatory \in BOOLEAN, <1>1, <2>1, CallChain
<1>4. Chain(cs, Moved(at, got)) /\ First(cs, Moved(at, got)) = cs[1]
  BY <1>3 DEF Chain, First, Linked
<1>5. FrameOK(Moved(at, got))
  BY TopFacts, MovedFacts DEF FrameOK
<1>6. ~Lists(cs[1]) /\ Reads(cs[1], index + n)
  BY <1>3 DEF Lists, Reads, Linked
<1> QED BY <1>2, <1>4, <1>5, <1>6, GoesOn

(* ast_parse_expression calls the loosest.                                 *)
LEMMA OperandKeeps ==
  ASSUME IInv, Operand
  PROVE  StepOK
<1>1. Top.fn = "expression" /\ Top.at = "start" /\ Top.fn # "top_level_decl" /\ ~Lists(Top)
  BY DEF Operand, Active, Lists
<1>2. index \in 1..Len(tokens) /\ Len(tokens) \in Nat
  BY <1>1, TopReads, TopFacts DEF Reading
<1>3. index = index + 0 /\ index + 0 <= Len(tokens) + 1
  BY <1>2
<1>4. /\ "operand" \in Place /\ "operand" # "proto" /\ "operand" \notin Filled /\ <<>> \in Node
      /\ Follows(<<>>, 0) /\ 1 \in 1..10
  BY Followers DEF Place, Filled, Node
<1>5. Go("operand", <<>>, CallFrom(1, FALSE, index), 0) /\ Continue
  BY DEF Operand
<1>6. \A c : c.fn = Loosest(1) /\ c.mandatory = FALSE => Awaits(Moved("operand", <<>>), c)
  <2>1. Loosest(1) = "bool_or_expr"
    BY BinaryNames DEF Loosest
  <2> QED BY <1>1, <1>4, <2>1, MovedFacts DEF Awaits
<1> QED BY <1>1, <1>3, <1>4, <1>5, <1>6, CallsOperand

(* The functions of binary operators.                                      *)
LEMMA BinaryKeeps ==
  ASSUME IInv, NoOperand \/ NoOperator \/ TakeOperator \/ EndBinary
  PROVE  StepOK
<1>1. PICK n \in 1..9 :
        /\ Top.fn = Binary[n]
        /\ \/ Top.at = "operand_1" /\ GivesUp(n) /\ Return(None, 0) /\ Continue
           \/ Top.at = "operand_1" /\ ~GivesUp(n) /\ Return(result, 0) /\ Continue
           \/ /\ Top.at = "operand_1" /\ ~GivesUp(n) /\ Continue
              /\ Go("operand_2", result \o <<index>>, CallFrom(n + 1, TRUE, index + 1), 1)
           \/ Top.at = "operand_2" /\ Return(Top.got \o result, 0) /\ Continue
  BY BinaryNames DEF NoOperand, NoOperator, TakeOperator, EndBinary, BinaryAt, Active
<1>2. Top.fn \notin Others /\ Top.fn # "top_level_decl" /\ Top.at \notin Reading /\ ~Lists(Top)
  BY <1>1, Levels DEF Others, Reading, Lists
<1>3. index \in 1..Len(tokens) /\ Len(tokens) \in Nat /\ result \in Node /\ index + 0 = index
  BY <1>2, TopHas, TopFacts
<1>4. PICK f \in Activation : Awaits(Top, f) /\ Promises(f, result, index)
  BY <1>2, TopHas
<1>5. /\ f.fn = Tighter(n)
      /\ (Top.at = "operand_1" /\ Same(Top, f)) \/ (Top.at = "operand_2" /\ f.mandatory)
  <2>1. \A k \in 1..9 : Top.fn = Binary[k] =>
          /\ f.fn = Tighter(k)
          /\ (Top.at = "operand_1" /\ Same(Top, f)) \/ (Top.at = "operand_2" /\ f.mandatory)
    BY <1>4, Awaited
  <2> QED BY <1>1, <2>1
<1>6. Follows(result, 0) /\ Follows(<<>>, 0) /\ <<>> \in Node
  BY Followers DEF Node
<1>7. GivesUp(n) => n = 2 \/ result = None
  BY <1>1, BinaryNames, Levels DEF GivesUp
<1>8. ~GivesUp(n) => n = 2 \/ result # None
  BY <1>1, BinaryNames, Levels DEF GivesUp
<1>9. n = 2 => Top.fn \in Lenient
  BY <1>1, Levels
<1>10. Top.fn \notin {"fn_def", "fn_proto", "type", "expression"}
  BY <1>2 DEF Others
<1>11. CASE Top.at = "operand_1" /\ GivesUp(n) /\ Return(None, 0) /\ Continue
  <2>1. ASSUME Top.fn \notin Lenient
        PROVE  ~Top.mandatory /\ index = Top.from
    <3>1. n > 2 /\ result = None /\ Same(Top, f)
      BY <1>1, <1>5, <1>7, <1>11, <2>1, Levels
    <3>2. f.fn \notin Lenient /\ f.fn # "expression"
      <4>1. CASE n = 9
        BY <1>5, <4>1 DEF Tighter, Lenient
      <4>2. CASE n # 9
        <5> DEFINE k == n + 1
        <5>1. k \in 1..9 /\ k > 2
          BY <3>1, <4>2
        <5>2. f.fn = Binary[k]
          BY <1>5, <4>2 DEF Tighter
        <5> HIDE DEF k
        <5> QED BY <5>1, <5>2, Levels DEF Others
      <4> QED BY <4>1, <4>2
    <3> QED BY <1>4, <3>1, <3>2 DEF Promises, Same
  <2>2. Promises(Top, None, index + 0)
    BY <1>3, <1>10, <2>1 DEF Promises
  <2>3. None \in Node /\ Follows(None, 0)
    BY <1>6 DEF None
  <2> QED BY <1>2, <1>3, <1>11, <2>2, <2>3, ReturnsTo
<1>12. CASE Top.at = "operand_1" /\ ~GivesUp(n) /\ Return(result, 0) /\ Continue
  <2>1. Promises(Top, result, index + 0)
    BY <1>8, <1>9, <1>10, <1>12 DEF Promises
  <2> QED BY <1>2, <1>3, <1>6, <1>12, <2>1, ReturnsTo
<1>13. CASE /\ Top.at = "operand_1" /\ ~GivesUp(n) /\ Continue
            /\ Go("operand_2", result \o <<index>>, CallFrom(n + 1, TRUE, index + 1), 1)
  <2> DEFINE g == result \o <<index>>
             m == n + 1
  <2>1. g \in Node /\ g # <<>> /\ Follows(g, 1)
    BY <1>3, <1>6, TokenFollows
  <2>2. m \in 1..10 /\ index + 1 <= Len(tokens) + 1
    BY <1>3
  <2>3. "operand_2" \in Place /\ "operand_2" # "proto"
    BY DEF Place
  <2>4. Loosest(m) = Tighter(n)
    BY DEF Tighter, Loosest
  <2> HIDE DEF g, m
  <2>5. Go("operand_2", g, CallFrom(m, TRUE, index + 1), 1) /\ Continue
    BY <1>13 DEF g, m
  <2>6. \A c : c.fn = Loosest(m) /\ c.mandatory = TRUE => Awaits(Moved("operand_2", g), c)
    <3>1. Moved("operand_2", g).fn = Binary[n] /\ Moved("operand_2", g).at = "operand_2"
      BY <1>1, <2>1, <2>3, MovedFacts
    <3>2. \A c : c.fn = Tighter(n) /\ c.mandatory = TRUE => Awaits(Moved("operand_2", g), c)
      BY <3>1 DEF Awaits
    <3> QED BY <2>4, <3>2
  <2> QED BY <1>2, <2>1, <2>2, <2>3, <2>5, <2>6, CallsOperand
<1>14. CASE Top.at = "operand_2" /\ Return(Top.got \o result, 0) /\ Continue
  <2> DEFINE g == Top.got \o result
  <2>1. g \in Node /\ g # <<>> /\ Follows(g, 0)
    <3>1. Top.got # <<>> /\ Top.got \in Node /\ result \in Node
      BY <1>14, TopFacts DEF FrameOK, Filled
    <3> QED BY <3>1, Followers, NodesJoined
  <2>2. Promises(Top, g, index + 0) /\ index + 0 <= Len(tokens)
    BY <1>3, <2>1 DEF Promises, None
  <2> QED BY <1>2, <1>14, <2>1, <2>2, ReturnsTo
<1> QED BY <1>1, <1>11, <1>12, <1>13, <1>14

(* ast_parse_cast_expression.                                              *)
LEMMA CastKeeps ==
  ASSUME IInv, EndCast \/ CastType
  PROVE  StepOK
<1>1. /\ Top.fn = "cast_expression" /\ Top.at \in {"operand_1", "type"}
      /\ Top.fn # "top_level_decl" /\ ~Lists(Top)
  BY DEF EndCast, CastType, Active, Lists
<1>2. Top.at \notin Reading
  BY <1>1 DEF Reading
<1>3. index \in 1..Len(tokens) /\ Len(tokens) \in Nat /\ result \in Node /\ index + 0 = index
  BY <1>2, TopHas, TopFacts
<1>4. PICK f \in Activation : Awaits(Top, f) /\ Promises(f, result, index)
  BY <1>2, TopHas
<1>5. Top.fn = "cast_expression" =>
        \/ Top.at = "operand_1" /\ f.fn = "prefix_op_expr" /\ Same(Top, f)
        \/ Top.at = "type" /\ f.fn = "type"
  BY <1>4, Awaited
<1>6. Follows(result, 0)
  BY Followers
<1>7. CASE EndCast /\ result # None /\ Token = "KeywordAs"
  <2> DEFINE g == result \o <<index>>
  <2>1. g \in Node /\ g # <<>> /\ Follows(g, 1)
    BY <1>3, <1>6, TokenFollows
  <2>2. index + 1 <= Len(tokens)
    BY <1>3, <1>7, TokenBehind DEF Token
  <2>3. /\ "type" \in Place /\ "type" # "proto"
        /\ "type" \in {"type", "block", "expression", "primary_expr"}
    BY DEF Place
  <2>4. Go("type", g, <<Frame("type", "start", TRUE, index + 1)>>, 1) /\ Continue
    BY <1>7 DEF EndCast
  <2> HIDE DEF g
  <2>5. \A c : c.fn = "type" => Awaits(Moved("type", g), c)
    BY <1>1, <2>1, <2>3, MovedFacts DEF Awaits
  <2> QED BY <1>1, <2>1, <2>2, <2>3, <2>4, <2>5, CallsFrame
<1>8. CASE EndCast /\ ~(result # None /\ Token = "KeywordAs")
  <2>1. Top.at = "operand_1" /\ Return(result, 0) /\ Continue
    BY <1>8 DEF EndCast, Active
  <2>2. Promises(Top, result, index + 0)
    BY <1>1, <1>3, <1>4, <1>5, <2>1 DEF Promises, Same, Lenient
  <2> QED BY <1>1, <1>3, <1>6, <2>1, <2>2, ReturnsTo
<1>9. CASE CastType
  <2> DEFINE g == Top.got \o result
  <2>1. Top.at = "type" /\ Return(g, 0) /\ Continue
    BY <1>9 DEF CastType, Active
  <2>2. g \in Node /\ g # <<>> /\ Follows(g, 0)
    <3>1. Top.got # <<>> /\ Top.got \in Node /\ result \in Node
      BY <2>1, TopFacts DEF FrameOK, Filled
    <3> QED BY <3>1, Followers, NodesJoined
  <2>3. Promises(Top, g, index + 0) /\ index + 0 <= Len(tokens)
    BY <1>3, <2>2 DEF Promises, None
  <2> QED BY <1>1, <2>1, <2>2, <2>3, ReturnsTo
<1> QED BY <1>7, <1>8, <1>9

(* The call of ast_parse_prefix_op_expr; an operator makes its operand     *)
(* mandatory.                                                              *)
LEMMA PrefixBegins ==
  ASSUME IInv, BeginPrefix
  PROVE  StepOK
<1>1. Top.fn = "prefix_op_expr" /\ Top.at = "start" /\ Top.fn # "top_level_decl" /\ ~Lists(Top)
  BY DEF BeginPrefix, Active, Lists
<1>2. /\ index \in 1..Len(tokens) /\ Len(tokens) \in Nat /\ index = Top.from
      /\ Top.mandatory \in BOOLEAN
  BY <1>1, TopReads, TopFacts DEF Reading, BeginPrefix
<1> DEFINE op == IF Token \in PrefixOp THEN <<index>> ELSE <<>>
           n == Len(op)
           mandatory == OperandMandatory(op)
           from == index + n
           p == Frame("primary_expr", "start", mandatory, from)
           c == Frame("fn_call_expr", "fn_ref", mandatory, from)
           cs == <<p, c>>
<1>3. Go("operand", op, cs, n) /\ Continue
  BY DEF BeginPrefix
<1>4. op \in Node /\ n \in Nat /\ Follows(op, n) /\ index + n <= Len(tokens) /\ (op = <<>> => n = 0)
  <2>1. Follows(<<>>, 0) /\ <<>> \in Node
    BY Followers DEF Node
  <2>2. CASE Token \in PrefixOp
    <3>1. op = <<index>> /\ n = 1
      BY <2>2
    <3>2. index + 1 <= Len(tokens)
      BY <1>2, <2>2, TokenBehind DEF Token, PrefixOp
    <3>3. <<index>> \in Node /\ Follows(<<index>>, 1) /\ <<index>> # <<>>
      BY <1>2, <2>1, TokenFollows
    <3> HIDE DEF op, n
    <3> QED BY <3>1, <3>2, <3>3
  <2>3. CASE Token \notin PrefixOp
    <3>1. op = <<>> /\ n = 0
      BY <2>3
    <3> HIDE DEF op, n
    <3> QED BY <1>2, <2>1, <3>1
  <2> QED BY <2>2, <2>3
<1>5. /\ mandatory \in BOOLEAN
      /\ op = <<>> => mandatory = Top.mandatory
      /\ op # <<>> => mandatory = TRUE
  BY <1>2 DEF OperandMandatory
<1> HIDE DEF op, n, mandatory
<1>6. from \in 1..Len(tokens) + 1 /\ from <= Len(tokens) /\ from = index + n
  BY <1>2, <1>4
<1>7. /\ "start" \in Place /\ "fn_ref" \in Place /\ "operand" \in Place
      /\ "operand" # "proto" /\ "operand" \notin Filled
      /\ "primary_expr" \in Function /\ "fn_call_expr" \in Function
  BY Levels DEF Place, Filled, Others
<1> HIDE DEF from
<1>8. /\ p \in Activation /\ p.fn = "primary_expr" /\ p.at = "start" /\ p.mandatory = mandatory
      /\ p.got = <<>> /\ p.from = from
  BY <1>5, <1>6, <1>7, FrameFacts
<1>9. /\ c \in Activation /\ c.fn = "fn_call_expr" /\ c.at = "fn_ref" /\ c.mandatory = mandatory
      /\ c.got = <<>> /\ c.from = from
  BY <1>5, <1>6, <1>7, FrameFacts
<1> HIDE DEF p, c
<1>10. cs \in Seq(Activation) /\ Len(cs) = 2 /\ cs[1] = p /\ cs[2] = c /\ cs # <<>>
  BY <1>8, <1>9
<1> HIDE DEF cs
<1>11. FrameOK(p) /\ FrameOK(c) /\ Awaits(c, p)
  BY <1>8, <1>9 DEF FrameOK, Filled, Awaits, Same
<1>12. Awaits(Moved("operand", op), c)
  <2> DEFINE m == Moved("operand", op)
  <2>1. /\ m.fn = "prefix_op_expr" /\ m.at = "operand" /\ m.got = op
        /\ m.mandatory = Top.mandatory /\ m.from = index
    BY <1>1, <1>2, <1>4, <1>7, MovedFacts
  <2> HIDE DEF m
  <2>2. CASE op = <<>>
    <3>1. c.mandatory = m.mandatory /\ c.from = m.from
      BY <1>2, <1>4, <1>5, <1>6, <1>9, <2>1, <2>2
    <3>2. m.got = <<>> /\ Same(m, c)
      BY <2>1, <2>2, <3>1 DEF Same
    <3>3. IF m.got = <<>> THEN Same(m, c) ELSE c.mandatory
      BY <3>2
    <3> QED BY <1>9, <2>1, <3>3 DEF Awaits, m
  <2>3. CASE op # <<>>
    <3>1. m.got # <<>> /\ c.mandatory
      BY <1>5, <1>9, <2>1, <2>3
    <3>2. IF m.got = <<>> THEN Same(m, c) ELSE c.mandatory
      BY <3>1
    <3> QED BY <1>9, <2>1, <3>2 DEF Awaits, m
  <2> QED BY <2>2, <2>3
<1>13. Chain(cs, Moved("operand", op)) /\ First(cs, Moved("operand", op)) = p
  <2>1. \A k \in 1..2 : k = 1 \/ k = 2
    OBVIOUS
  <2>2. \A k \in 1..Len(cs) : FrameOK(cs[k]) /\ cs[k].got = <<>>
    BY <1>8, <1>9, <1>10, <1>11, <2>1
  <2>3. \A k \in 1..Len(cs) - 1 : Awaits(cs[k + 1], cs[k])
    BY <1>10, <1>11
  <2> QED BY <1>10, <1>12, <2>2, <2>3 DEF Chain, First
<1>14. FrameOK(Moved("operand", op))
  BY <1>1, <1>4, <1>7, MovedFacts DEF FrameOK
<1>15. ~Lists(p) /\ Reads(p, index + n) /\ index + n <= Len(tokens) + 1
  BY <1>2, <1>4, <1>6, <1>8 DEF Lists, Reads
<1> QED BY <1>1, <1>3, <1>4, <1>7, <1>13, <1>14, <1>15, GoesOn

-----------------------------------------------------------------------------
(* The loop over the declarations.                                         *)

(* Who waits for a function definition and for its header.                 *)
LEMMA Awaiting ==
  ASSUME NEW g, NEW f, Awaits(g, f)
  PROVE  /\ f.fn = "fn_proto" => g.fn = "fn_def" /\ g.at = "proto"
         /\ f.fn = "fn_def" => g.fn = "top_level_decl" /\ g.at = "fn_def"
<1>1. \A n \in 1..9 : Tighter(n) \notin {"fn_proto", "fn_def"}
  <2>1. \A n \in 1..9 : n # 9 => n + 1 \in 1..9
    OBVIOUS
  <2> QED BY <2>1, Levels DEF Tighter, Others
<1> QED BY <1>1 DEF Awaits

(* Below them on the stack no node has been begun.                         *)
LEMMA StackOfTop ==
  ASSUME IInv
  PROVE  /\ Top.fn = "top_level_decl" => Len(stack) = 1 /\ Top.got = <<>>
         /\ Top.fn = "fn_proto" => /\ \A k \in 2..Len(stack) : stack[k].got = <<>>
                                   /\ \A k \in 2..Len(stack) : \/ stack[k].fn = "top_level_decl"
                                                               \/ stack[k].at = "proto"
<1> DEFINE b == Len(stack)
<1>1. /\ b \in Nat /\ b >= 1 /\ Top = stack[1]
      /\ \A k \in 1..b : FrameOK(stack[k])
      /\ \A k \in 1..b - 1 : Awaits(stack[k + 1], stack[k])
  BY TopFacts DEF IInv, StackOK
<1> HIDE DEF b
<1>2. \A k \in 1..b : stack[k].fn = "top_level_decl" => k = b
  <2> SUFFICES ASSUME NEW k \in 1..b, stack[k].fn = "top_level_decl", k # b PROVE FALSE
    OBVIOUS
  <2>1. k \in 1..b - 1
    BY <1>1
  <2>2. Awaits(stack[k + 1], stack[k])
    BY <1>1, <2>1
  <2> QED BY <2>2, Awaited
<1>3. \A k \in 1..b : stack[k].fn = "top_level_decl" \/ stack[k].at = "proto" => stack[k].got = <<>>
  BY <1>1 DEF FrameOK
<1>4. ASSUME Top.fn = "top_level_decl"
      PROVE  b = 1 /\ Top.got = <<>>
  <2>1. 1 \in 1..b
    BY <1>1
  <2> QED BY <1>1, <1>2, <1>3, <1>4, <2>1
<1>5. ASSUME Top.fn = "fn_proto"
      PROVE  \A k \in 2..b : stack[k].fn = "top_level_decl" \/ stack[k].at = "proto"
  <2> SUFFICES ASSUME NEW k \in 2..b
               PROVE  stack[k].fn = "top_level_decl" \/ stack[k].at = "proto"
    OBVIOUS
  <2>1. 1 \in 1..b - 1 /\ 2 \in 1..b
    BY <1>1
  <2>2. Awaits(stack[2], stack[1])
    <3> DEFINE kk == 1 + 1
    <3>1. Awaits(stack[kk], stack[1])
      BY <1>1, <2>1
    <3>2. kk = 2
      OBVIOUS
    <3> HIDE DEF kk
    <3> QED BY <3>1, <3>2
  <2>3. stack[2].fn = "fn_def" /\ stack[2].at = "proto"
    BY <1>1, <1>5, <2>2, Awaiting
  <2>4. CASE k = 2
    BY <2>3, <2>4
  <2>5. CASE k # 2
    <3>1. 2 \in 1..b - 1 /\ 3 \in 1..b
      BY <1>1, <2>5
    <3>2. Awaits(stack[3], stack[2])
      <4> DEFINE kk == 2 + 1
      <4>1. Awaits(stack[kk], stack[2])
        BY <1>1, <3>1
      <4>2. kk = 3
        OBVIOUS
      <4> HIDE DEF kk
      <4> QED BY <4>1, <4>2
    <3>3. stack[3].fn = "top_level_decl"
      BY <2>3, <3>2, Awaiting
    <3>4. b = 3
      BY <1>2, <3>1, <3>3
    <3> QED BY <1>1, <2>5, <3>3, <3>4
  <2> QED BY <2>4, <2>5
<1>6. ASSUME Top.fn = "fn_proto"
      PROVE  \A k \in 2..b : stack[k].got = <<>>
  <2>1. \A k \in 2..b : k \in 1..b
    BY <1>1
  <2> QED BY <1>3, <1>5, <1>6, <2>1
<1> QED BY <1>4, <1>5, <1>6 DEF b

(* The declarations and the directives.                                    *)
TopOrder ==
  /\ \A s \in Declared \cup Listed : Ordered(s) /\ Passed(s)
  /\ \A j, k \in DOMAIN decls : j < k => Before(decls[j], decls[k])
  /\ \A s \in Declared, t \in Listed : Before(s, t)

(* A step of the loop.                                                     *)
LEMMA TopGoes ==
  ASSUME IInv, Top.fn = "top_level_decl", NEW at \in {"start", "directives"}, NEW n \in Nat,
         Go(at, <<>>, <<>>, n), index + n <= Len(tokens),
         UNCHANGED <<input, outcome, blamed>>,
         decls' \in Seq(Node), directive_list' \in Seq(Node),
         IF at = "directives" THEN Len(directive_list') = 1 ELSE directive_list' = <<>>,
         TopOrder'
  PROVE  StepOK
<1> DEFINE m == Moved(at, <<>>)
<1>1. tokens' = tokens /\ assertions' = assertions /\ outcome' = outcome /\ blamed' = blamed
  BY DEF input
<1>2. index' = index + n /\ result' = <<>> /\ index' \in 1..Len(tokens)
  BY TopFacts DEF Go, None
<1>3. at \in Place /\ at # "proto" /\ at \notin Filled /\ <<>> \in Node
  BY DEF Place, Filled, Node
<1>4. m.fn = "top_level_decl" /\ m.at = at /\ m.got = <<>>
  BY <1>3, MovedFacts
<1>5. FrameOK(m) /\ Chain(<<>>, m) /\ First(<<>>, m) = m
  BY <1>3, <1>4, NoCall DEF FrameOK
<1>6. /\ StackOK' /\ Top' = m /\ stack' # Tail(stack) /\ stack' \in Seq(Activation)
      /\ Len(stack') = Len(<<>>) + Len(stack) /\ stack'[Len(<<>>) + 1].got = <<>>
  <2> HIDE DEF m
  <2>1. Chain(<<>>, Moved(at, <<>>)) /\ FrameOK(Moved(at, <<>>)) /\ tokens' = tokens
    BY <1>1, <1>5 DEF m
  <2>2. /\ StackOK' /\ Top' = First(<<>>, Moved(at, <<>>)) /\ stack' # Tail(stack)
    BY <1>3, <2>1, StackGoes
  <2>3. stack' \in Seq(Activation) /\ Len(stack') = Len(<<>>) + Len(stack)
    BY <1>3, <2>1, StackGoes
  <2>4. stack'[Len(<<>>) + 1].got = <<>>
    BY <1>3, <2>1, StackGoes
  <2> QED BY <1>5, <2>2, <2>3, <2>4 DEF m
<1>7. Opened' \subseteq {<<>>}
  <2>1. Len(stack') = 1 /\ stack'[1].got = <<>>
    <3>1. Len(<<>>) = 0 /\ Len(stack) = 1
      BY StackOfTop
    <3> QED BY <1>6, <3>1
  <2>2. DOMAIN stack' = 1..1
    BY <1>6, <2>1, LenProperties
  <2> QED BY <2>1, <2>2 DEF Opened
<1> HIDE DEF m
<1>8. TypeOK'
  <2>1. index' \in 1..Len(tokens) + 1
    BY <1>2, TopFacts
  <2>2. result' \in Node /\ Len(directive_list') <= 1
    <3>1. Len(<<>>) = 0
      OBVIOUS
    <3>2. Len(directive_list') = 1 \/ directive_list' = <<>>
      OBVIOUS
    <3>3. Len(directive_list') = 1 => Len(directive_list') <= 1
      OBVIOUS
    <3>4. directive_list' = <<>> => Len(directive_list') <= 1
      BY <3>1
    <3>5. result' \in Node
      BY <1>2, <1>3
    <3> QED BY <3>2, <3>3, <3>4, <3>5
  <2> QED BY <1>1, <1>6, <2>1, <2>2, SameInput DEF IInv, TypeOK
<1>9. TopOK'
  <2>1. Reads(Top', index')
    BY <1>2, <1>4, <1>6 DEF Reads
  <2> QED BY <1>1, <2>1 DEF TopOK, Reads
<1>10. DirectivesOK'
  BY <1>4, <1>6 DEF DirectivesOK, Lists
<1>11. TreeInOrder'
  <2>1. /\ Ordered(<<>>) /\ \A s : Before(s, <<>>) /\ Before(<<>>, s)
        /\ \A k \in DOMAIN <<>> : <<>>[k] < index'
    BY DEF Ordered, Before
  <2>2. \A s \in Declared' \cup Listed' \cup Opened' \cup {result'} : Ordered(s) /\ Passed(s)'
    BY <1>2, <1>7, <2>1 DEF TopOrder, Passed
  <2>3. \A j, k \in DOMAIN stack' : j < k => Before(stack'[k].got, stack'[j].got)
    <3> SUFFICES ASSUME NEW j \in DOMAIN stack', NEW k \in DOMAIN stack'
                 PROVE  Before(stack'[k].got, stack'[j].got)
      OBVIOUS
    <3>1. stack'[j].got \in Opened'
      BY DEF Opened
    <3> QED BY <1>7, <2>1, <3>1
  <2>4. /\ \A s \in Declared', t \in Listed' \cup Opened' \cup {result'} : Before(s, t)
        /\ \A s \in Listed', t \in Opened' \cup {result'} : Before(s, t)
        /\ \A s \in Opened' : Before(s, result')
    BY <1>2, <1>7, <2>1 DEF TopOrder
  <2> QED BY <2>2, <2>3, <2>4 DEF TopOrder, TreeInOrder
<1> QED BY <1>1, <1>6, <1>8, <1>9, <1>10, <1>11 DEF StepOK, IInv

(* What is known of the list and of the declarations.                      *)
LEMMA ListFacts ==
  ASSUME IInv
  PROVE  /\ Declared \subseteq Node /\ Listed \subseteq Node /\ TopOrder
         /\ Lists(Top) => Len(directive_list) = 1 /\ Listed = {directive_list[1]}
         /\ ~Lists(Top) => directive_list = <<>> /\ Listed = {}
         /\ directive_list \in Seq(Node) /\ decls \in Seq(Node)
         /\ DOMAIN decls = 1..Len(decls) /\ Len(decls) \in Nat
<1>1. directive_list \in Seq(Node) /\ decls \in Seq(Node)
  BY DEF IInv, TypeOK
<1>2. /\ DOMAIN decls = 1..Len(decls) /\ Len(decls) \in Nat
      /\ \A k \in 1..Len(decls) : decls[k] \in Node
      /\ DOMAIN directive_list = 1..Len(directive_list)
      /\ \A k \in 1..Len(directive_list) : directive_list[k] \in Node
  BY <1>1, LenProperties, ElementOfSeq
<1>3. TopOrder
  BY DEF IInv, TreeInOrder, TopOrder
<1>4. Lists(Top) => Len(directive_list) = 1 /\ Listed = {directive_list[1]}
  <2>1. ASSUME Lists(Top) PROVE Len(directive_list) = 1
    BY <2>1 DEF IInv, DirectivesOK
  <2>2. ASSUME Len(directive_list) = 1 PROVE Listed = {directive_list[1]}
    <3>1. DOMAIN directive_list = {1}
      BY <1>2, <2>2
    <3> QED BY <3>1 DEF Listed
  <2> QED BY <2>1, <2>2
<1>5. ~Lists(Top) => directive_list = <<>> /\ Listed = {}
  BY DEF IInv, DirectivesOK, Listed
<1> QED BY <1>1, <1>2, <1>3, <1>4, <1>5 DEF Declared, Listed

(* A node that has been stepped over is one later on, and lies before the  *)
(* tokens that come next.                                                  *)
LEMMA PassedFacts ==
  ASSUME IInv, NEW s \in Node, Passed(s), NEW n \in Nat
  PROVE  /\ \A k \in DOMAIN s : s[k] \in Nat /\ s[k] < index /\ s[k] < index + n
         /\ \A t \in Node : (\A k \in DOMAIN t : index <= t[k]) => Before(s, t)
<1>1. index \in Nat /\ Len(tokens) \in Nat
  BY TopFacts
<1>2. \A t \in Node : \A k \in DOMAIN t : t[k] \in Nat
  <2> SUFFICES ASSUME NEW t \in Node, NEW k \in DOMAIN t PROVE t[k] \in Nat
    OBVIOUS
  <2>1. t[k] \in 1..Len(tokens)
    BY NodeElements
  <2> QED BY <1>1, <2>1
<1>3. \A k \in DOMAIN s : s[k] \in Nat /\ s[k] < index /\ s[k] < index + n
  <2> SUFFICES ASSUME NEW k \in DOMAIN s PROVE s[k] \in Nat /\ s[k] < index /\ s[k] < index + n
    OBVIOUS
  <2>1. s[k] \in Nat /\ s[k] < index
    BY <1>2 DEF Passed
  <2> QED BY <1>1, <2>1
<1> QED BY <1>1, <1>2, <1>3 DEF Before

(* A declaration is added behind the others.                               *)
LEMMA Declares ==
  ASSUME IInv, NEW d \in Node, Ordered(d), NEW n \in Nat, \A k \in DOMAIN d : d[k] < index + n,
         \A s \in Declared : Before(s, d),
         decls' = Append(decls, d), directive_list' = <<>>, index' = index + n
  PROVE  decls' \in Seq(Node) /\ TopOrder'
<1> DEFINE a == Len(decls)
<1>1. /\ decls' \in Seq(Node) /\ Len(decls') = a + 1 /\ a \in Nat
      /\ \A k \in 1..a : decls'[k] = decls[k]
      /\ decls'[a + 1] = d /\ DOMAIN decls = 1..a
  <2>1. decls \in Seq(Node) /\ DOMAIN decls = 1..Len(decls) /\ Len(decls) \in Nat
    BY ListFacts
  <2> QED BY <2>1, AppendProperties
<1>2. DOMAIN decls' = 1..a + 1
  BY <1>1, LenProperties
<1>3. Listed' = {}
  BY DEF Listed
<1> HIDE DEF a
<1>4. \A s \in Declared' : s \in Declared \/ s = d
  <2> SUFFICES ASSUME NEW k \in 1..a + 1 PROVE decls'[k] \in Declared \/ decls'[k] = d
    BY <1>2 DEF Declared
  <2>1. k \in 1..a \/ k = a + 1
    BY <1>1
  <2> QED BY <1>1, <2>1 DEF Declared
<1>5. \A s \in Declared : s \in Node /\ Ordered(s) /\ Passed(s)
  BY ListFacts DEF TopOrder
<1>6. \A s \in Declared' : Ordered(s) /\ \A k \in DOMAIN s : s[k] < index + n
  BY <1>4, <1>5, PassedFacts
<1>7. \A j, k \in DOMAIN decls' : j < k => Before(decls'[j], decls'[k])
  <2> SUFFICES ASSUME NEW j \in 1..a + 1, NEW k \in 1..a + 1, j < k
               PROVE  Before(decls'[j], decls'[k])
    BY <1>2
  <2>1. j \in 1..a /\ decls'[j] = decls[j] /\ decls[j] \in Declared
    BY <1>1 DEF Declared
  <2>2. CASE k \in 1..a
    <3>1. decls'[k] = decls[k] /\ j \in DOMAIN decls /\ k \in DOMAIN decls
      BY <1>1, <2>1, <2>2
    <3> QED BY <2>1, <3>1, ListFacts DEF TopOrder
  <2>3. CASE k = a + 1
    BY <1>1, <2>1, <2>3
  <2> QED BY <1>1, <2>2, <2>3
<1> QED BY <1>1, <1>3, <1>6, <1>7 DEF TopOrder, Passed

(* The loop itself.                                                        *)
LEMMA TopKeeps ==
  ASSUME IInv, BeginDecl \/ AssertionFails \/ AppendFnDef
  PROVE  StepOK
<1>1. CASE BeginDecl
  <2>1. /\ Top.fn = "top_level_decl" /\ Top.at = "start" /\ directive_list' = << <<>> >>
        /\ Go("directives", <<>>, <<>>, 0) /\ UNCHANGED <<input, outcome, blamed>> /\ decls' = decls
    BY <1>1 DEF BeginDecl, Active
  <2>2. index \in 1..Len(tokens) /\ Len(tokens) \in Nat
    BY <2>1, TopReads, TopFacts DEF Reading
  <2>3. index + 0 <= Len(tokens) /\ index' = index
    BY <2>1, <2>2 DEF Go
  <2>4. /\ <<>> \in Node /\ directive_list' \in Seq(Node)
        /\ Len(directive_list') = 1 /\ Listed' = {<<>>}
    <3>1. <<>> \in Node
      BY DEF Node
    <3>2. directive_list' \in Seq(Node) /\ Len(directive_list') = 1 /\ directive_list'[1] = <<>>
      BY <2>1, <3>1
    <3>3. DOMAIN directive_list' = {1}
      BY <3>2
    <3> QED BY <3>1, <3>2, <3>3 DEF Listed
  <2>5. TopOrder'
    <3>1. Declared' = Declared /\ decls' = decls
      BY <2>1 DEF Declared
    <3>2. Ordered(<<>>) /\ (\A s : Before(s, <<>>)) /\ \A k \in DOMAIN <<>> : <<>>[k] < index'
      BY DEF Ordered, Before
    <3>3. TopOrder
      BY ListFacts
    <3> QED BY <2>3, <2>4, <3>1, <3>2, <3>3 DEF TopOrder, Passed
  <2>6. decls' \in Seq(Node)
    BY <2>1, ListFacts
  <2> QED BY <2>1, <2>3, <2>4, <2>5, <2>6, TopGoes
<1>2. CASE AssertionFails
  <2>1. /\ outcome' = "abort"
        /\ UNCHANGED <<input, index, stack, result, directive_list, decls, blamed>>
    BY <1>2 DEF AssertionFails
  <2>2. /\ blamed' \in 0..Len(tokens)
        /\ UNCHANGED <<input, index, stack, result, directive_list, decls>>
    BY <2>1 DEF IInv, TypeOK
  <2> QED BY <2>1, <2>2, StopsHere
<1>3. CASE AppendFnDef
  <2>1. /\ Top.fn = "top_level_decl" /\ Top.at = "fn_def" /\ decls' = Append(decls, result)
        /\ Go("start", <<>>, <<>>, 0) /\ UNCHANGED <<input, outcome, blamed>>
        /\ directive_list' = directive_list
    BY <1>3 DEF AppendFnDef, Active
  <2>2. index \in 1..Len(tokens) /\ Len(tokens) \in Nat /\ result \in Node
    BY <2>1, TopHas, TopFacts DEF Reading
  <2>3. index + 0 <= Len(tokens) /\ index' = index + 0
    BY <2>1, <2>2 DEF Go
  <2>4. directive_list' = <<>> /\ directive_list' \in Seq(Node)
    BY <2>1, ListFacts DEF Lists
  <2>5. /\ Ordered(result) /\ \A k \in DOMAIN result : result[k] < index + 0
        /\ \A s \in Declared : Before(s, result)
    BY Followers DEF Follows
  <2>6. decls' \in Seq(Node) /\ TopOrder'
    BY <2>1, <2>2, <2>3, <2>4, <2>5, Declares
  <2> QED BY <2>1, <2>3, <2>4, <2>6, TopGoes
<1> QED BY <1>1, <1>2, <1>3

(* A directive is added to the list.                                       *)
LEMMA DirectiveKeeps ==
  ASSUME IInv, Directive
  PROVE  StepOK
<1>1. Top.fn = "top_level_decl" /\ Top.at = "directives" /\ Top.fn # "prefix_op_expr" /\ Lists(Top)
  BY DEF Directive, Active, Lists
<1>2. index \in 1..Len(tokens) /\ Len(tokens) \in Nat /\ index <= Len(tokens)
  BY <1>1, TopReads, TopFacts DEF Reading
<1> DEFINE ids == DirectiveIds
           g == directive_list[1]
<1>3. /\ ids \in Seq({"NumberSign", "Symbol", "LParen", "StringLiteral"}) /\ Len(ids) = 4
      /\ \A k \in 1..Len(ids) : ids[k] # "Eof"
  BY DEF DirectiveIds
<1>4. IF Expects(ids)
      THEN /\ directive_list' = <<Append(g, index + 1)>>
           /\ Go("directives", <<>>, <<>>, Len(ids))
           /\ UNCHANGED <<input, decls, outcome, blamed>>
      ELSE FailAtFirst(ids)
  BY DEF Directive
<1> HIDE DEF ids
<1>5. CASE ~Expects(ids)
  BY <1>2, <1>3, <1>4, <1>5, ExpectedTokens
<1>6. CASE Expects(ids)
  <2>1. index + 4 <= Len(tokens)
    <3>1. index + Len(ids) <= Len(tokens)
      BY <1>2, <1>3, <1>6, ExpectedTokens
    <3> QED BY <1>3, <3>1
  <2>2. Go("directives", <<>>, <<>>, 4) /\ UNCHANGED <<input, outcome, blamed>> /\ decls' = decls
    BY <1>3, <1>4, <1>6
  <2>3. index' = index + 4
    BY <2>2 DEF Go
  <2> DEFINE t == <<index + 1>>
             u == g \o t
  <2>4. g \in Node /\ Listed = {g} /\ Ordered(g) /\ Passed(g)
    <3>1. Listed = {g} /\ Listed \subseteq Node
      BY <1>1, ListFacts
    <3> QED BY <3>1, ListFacts DEF TopOrder
  <2>5. /\ t \in Node /\ Ordered(t) /\ \A k \in DOMAIN t : index <= t[k] /\ t[k] < index + 4
    BY <1>2, <2>1 DEF Node, Ordered
  <2>6. directive_list' = <<u>>
    <3>1. Append(g, index + 1) = g \o t
      <4>1. g \in Seq(1..Len(tokens)) /\ index + 1 \in 1..Len(tokens)
        BY <1>2, <2>1, <2>4 DEF Node
      <4> QED BY <4>1, AppendIsConcat
    <3> QED BY <1>4, <1>6, <3>1
  <2> HIDE DEF g, t
  <2>7. Before(g, t)
    BY <2>4, <2>5, PassedFacts
  <2>8. u \in Node /\ Ordered(u) /\ \A r : Before(r, g) /\ Before(r, t) => Before(r, u)
    BY <2>4, <2>5, <2>7, NodesJoined, JoinedOrder
  <2>9. \A k \in DOMAIN u : u[k] < index + 4
    <3>1. \A k \in DOMAIN g : g[k] < index + 4
      BY <2>4, PassedFacts
    <3> QED BY <2>4, <2>5, <3>1, NodesJoined
  <2> HIDE DEF u
  <2>10. \A s \in Declared : Before(s, u)
    <3> SUFFICES ASSUME NEW s \in Declared PROVE Before(s, u)
      OBVIOUS
    <3>1. s \in Node /\ Passed(s) /\ Before(s, g)
      BY <2>4, ListFacts DEF TopOrder
    <3>2. Before(s, t)
      BY <2>5, <3>1, PassedFacts
    <3> QED BY <2>8, <3>1, <3>2
  <2>11. directive_list' \in Seq(Node) /\ Len(directive_list') = 1 /\ Listed' = {u}
    <3>1. directive_list' \in Seq(Node) /\ Len(directive_list') = 1 /\ directive_list'[1] = u
      BY <2>6, <2>8
    <3>2. DOMAIN directive_list' = {1}
      BY <3>1
    <3> QED BY <3>1, <3>2 DEF Listed
  <2>12. TopOrder'
    <3>1. Declared' = Declared
      BY <2>2 DEF Declared
    <3>2. \A s \in Declared : Ordered(s) /\ s \in Node /\ Passed(s)
      BY ListFacts DEF TopOrder
    <3>3. \A s \in Declared' \cup Listed' : Ordered(s) /\ \A k \in DOMAIN s : s[k] < index + 4
      BY <2>8, <2>9, <2>11, <3>1, <3>2, PassedFacts
    <3>4. \A j, k \in DOMAIN decls' : j < k => Before(decls'[j], decls'[k])
      BY <2>2, ListFacts DEF TopOrder
    <3> QED BY <2>3, <2>10, <2>11, <3>1, <3>3, <3>4 DEF TopOrder, Passed
  <2>13. decls' \in Seq(Node)
    BY <2>2, ListFacts
  <2> QED BY <1>1, <2>1, <2>2, <2>11, <2>12, <2>13, TopGoes
<1> QED BY <1>5, <1>6

(* A root export takes the list.                                           *)
LEMMA RootExportKeeps ==
  ASSUME IInv, RootExport
  PROVE  StepOK
<1>1. Top.fn = "top_level_decl" /\ Top.at = "directives" /\ Top.fn # "prefix_op_expr" /\ Lists(Top)
  BY DEF RootExport, EndDirectives, Active, Lists
<1>2. index \in 1..Len(tokens) /\ Len(tokens) \in Nat /\ index <= Len(tokens)
  BY <1>1, TopReads, TopFacts DEF Reading
<1> DEFINE ids == RootExportIds
           g == directive_list[1]
           t == <<index, index + 1, index + 2>>
           u == g \o t
<1>3. /\ ids \in Seq({"KeywordExport", "Symbol", "StringLiteral", "Semicolon"}) /\ Len(ids) = 4
      /\ \A k \in 1..Len(ids) : ids[k] # "Eof"
  BY DEF RootExportIds
<1>4. IF Expects(ids)
      THEN /\ decls' = Append(decls, u) /\ directive_list' = <<>>
           /\ Go("start", <<>>, <<>>, Len(ids))
           /\ UNCHANGED <<input, outcome, blamed>>
      ELSE FailAtFirst(ids)
  BY DEF RootExport, TakeDirectives, DropDirectives
<1> HIDE DEF ids, g, t, u
<1>5. CASE ~Expects(ids)
  BY <1>2, <1>3, <1>4, <1>5, ExpectedTokens
<1>6. CASE Expects(ids)
  <2>1. index + 4 <= Len(tokens)
    <3>1. index + Len(ids) <= Len(tokens)
      BY <1>2, <1>3, <1>6, ExpectedTokens
    <3> QED BY <1>3, <3>1
  <2>2. Go("start", <<>>, <<>>, 4) /\ UNCHANGED <<input, outcome, blamed>>
    BY <1>3, <1>4, <1>6
  <2>3. index' = index + 4
    BY <2>2 DEF Go
  <2>4. g \in Node /\ Listed = {g} /\ Ordered(g) /\ Passed(g)
    <3>1. Listed = {g} /\ Listed \subseteq Node
      BY <1>1, ListFacts DEF g
    <3> QED BY <3>1, ListFacts DEF TopOrder
  <2>5. /\ t \in Node /\ Ordered(t) /\ \A k \in DOMAIN t : index <= t[k] /\ t[k] < index + 4
    BY <1>2, <2>1 DEF Node, Ordered, t
  <2>6. Before(g, t)
    BY <2>4, <2>5, PassedFacts
  <2>7. u \in Node /\ Ordered(u) /\ \A r : Before(r, g) /\ Before(r, t) => Before(r, u)
    BY <2>4, <2>5, <2>6, NodesJoined, JoinedOrder DEF u
  <2>8. \A k \in DOMAIN u : u[k] < index + 4
    <3>1. \A k \in DOMAIN g : g[k] < index + 4
      BY <2>4, PassedFacts
    <3> QED BY <2>4, <2>5, <3>1, NodesJoined DEF u
  <2>9. \A s \in Declared : Before(s, u)
    <3> SUFFICES ASSUME NEW s \in Declared PROVE Before(s, u)
      OBVIOUS
    <3>1. s \in Node /\ Passed(s) /\ Before(s, g)
      BY <2>4, ListFacts DEF TopOrder
    <3>2. Before(s, t)
      BY <2>5, <3>1, PassedFacts
    <3> QED BY <2>7, <3>1, <3>2
  <2>10. decls' = Append(decls, u) /\ directive_list' = <<>> /\ directive_list' \in Seq(Node)
    BY <1>4, <1>6
  <2>11. decls' \in Seq(Node) /\ TopOrder'
    BY <2>3, <2>7, <2>8, <2>9, <2>10, Declares
  <2> QED BY <1>1, <2>1, <2>2, <2>10, <2>11, TopGoes
<1> QED BY <1>5, <1>6

(* A function definition is looked for.                                    *)
LEMMA CallFnDefKeeps ==
  ASSUME IInv, CallFnDef
  PROVE  StepOK
<1>1. Top.fn = "top_level_decl" /\ Top.at = "directives" /\ Top.fn # "prefix_op_expr" /\ Lists(Top)
  BY DEF CallFnDef, EndDirectives, Active, Lists
<1>2. index \in 1..Len(tokens) /\ Len(tokens) \in Nat /\ index \in 1..Len(tokens) + 1
  BY <1>1, TopReads, TopFacts DEF Reading
<1> DEFINE p == Frame("fn_proto", "start", TRUE, index)
           c == Frame("fn_def", "proto", FALSE, index)
           cs == <<p, c>>
           m == Moved("fn_def", <<>>)
<1>3. Go("fn_def", <<>>, cs, 0) /\ Continue
  BY DEF CallFnDef
<1>4. /\ "start" \in Place /\ "proto" \in Place /\ "fn_def" \in Place /\ <<>> \in Node
      /\ "fn_def" # "proto" /\ "fn_def" \notin Filled
      /\ "fn_proto" \in Function /\ "fn_def" \in Function
  BY Levels DEF Place, Node, Filled, Others
<1>5. /\ p \in Activation /\ p.fn = "fn_proto" /\ p.at = "start" /\ p.got = <<>> /\ p.from = index
  BY <1>2, <1>4 DEF Frame, Activation
<1>6. /\ c \in Activation /\ c.fn = "fn_def" /\ c.at = "proto" /\ c.got = <<>>
  BY <1>2, <1>4 DEF Frame, Activation
<1> HIDE DEF p, c
<1>7. cs \in Seq(Activation) /\ Len(cs) = 2 /\ cs[1] = p /\ cs[2] = c /\ cs # <<>>
  BY <1>5, <1>6
<1>8. m.fn = "top_level_decl" /\ m.at = "fn_def" /\ m.got = <<>>
  BY <1>1, <1>4, MovedFacts
<1> HIDE DEF cs, m
<1>9. FrameOK(p) /\ FrameOK(c) /\ FrameOK(m) /\ Awaits(c, p) /\ Awaits(m, c)
  BY <1>4, <1>5, <1>6, <1>8 DEF FrameOK, Filled, Awaits
<1>10. Chain(cs, m) /\ First(cs, m) = p
  <2>1. \A k \in 1..2 : k = 1 \/ k = 2
    OBVIOUS
  <2>2. \A k \in 1..Len(cs) : FrameOK(cs[k]) /\ cs[k].got = <<>>
    BY <1>5, <1>6, <1>7, <1>9, <2>1
  <2>3. \A k \in 1..Len(cs) - 1 : Awaits(cs[k + 1], cs[k])
    BY <1>7, <1>9
  <2> QED BY <1>7, <1>9, <2>2, <2>3 DEF Chain, First
<1>11. Lists(p) /\ Reads(p, index + 0) /\ index + 0 <= Len(tokens) + 1 /\ Follows(<<>>, 0)
  BY <1>2, <1>5, Followers DEF Lists, Reads
<1> QED BY <1>1, <1>3, <1>4, <1>9, <1>10, <1>11, GoesOn DEF m

(* The header of a function takes the list.                                *)
LEMMA HeaderKeeps ==
  ASSUME IInv, Header
  PROVE  StepOK
<1>1. Top.fn = "fn_proto" /\ Top.at = "start" /\ Top.fn # "prefix_op_expr" /\ Lists(Top)
  BY DEF Header, Active, Lists
<1>2. index \in 1..Len(tokens) /\ Len(tokens) \in Nat /\ index <= Len(tokens)
  BY <1>1, TopReads, TopFacts DEF Reading
<1> DEFINE ids == HeaderIds
           n == Len(ids)
           v == Len(Visibility)
           g == directive_list[1]
           visib_mod == [k \in 1..v |-> index]
           name == index + n - 2
           t == <<name>>
           u == g \o visib_mod \o t
           S == {"KeywordPub", "KeywordExport", "KeywordFn", "Symbol", "LParen"}
<1>3. /\ ids \in Seq(S) /\ n = v + 3 /\ (v = 0 \/ v = 1) /\ \A k \in 1..Len(ids) : ids[k] # "Eof"
  <2> DEFINE F == <<"KeywordFn", "Symbol", "LParen">>
  <2>1. F \in Seq(S) /\ Len(F) = 3
    OBVIOUS
  <2>2. Visibility \in Seq(S) /\ (v = 0 \/ v = 1)
    <3>1. CASE Token \in {"KeywordPub", "KeywordExport"}
      <4>1. Visibility = <<Token>> /\ Token \in S
        BY <3>1 DEF Visibility
      <4> QED BY <4>1
    <3>2. CASE Token \notin {"KeywordPub", "KeywordExport"}
      <4>1. Visibility = <<>>
        BY <3>2 DEF Visibility
      <4> QED BY <4>1
    <3> QED BY <3>1, <3>2
  <2>3. ids = Visibility \o F
    BY DEF HeaderIds
  <2>4. \A x \in S : x # "Eof"
    OBVIOUS
  <2> HIDE DEF F, ids, S
  <2>5. ids \in Seq(S) /\ Len(ids) = Len(Visibility) + Len(F)
    BY <2>1, <2>2, <2>3, ConcatProperties
  <2>6. \A k \in 1..Len(ids) : ids[k] \in S
    BY <2>5, ElementOfSeq
  <2> QED BY <2>1, <2>2, <2>4, <2>5, <2>6
<1>4. IF Expects(ids)
      THEN /\ Go("params", u, <<>>, n) /\ directive_list' = <<>>
           /\ UNCHANGED <<input, decls, outcome, blamed>>
      ELSE FailAtFirst(ids)
  BY DEF Header, TakeDirectives, DropDirectives
<1>5. u = (g \o visib_mod) \o t
  OBVIOUS
<1> HIDE DEF ids, S, u
<1>6. CASE ~Expects(ids)
  BY <1>2, <1>3, <1>4, <1>6, ExpectedTokens
<1>7. CASE Expects(ids)
  <2>1. index + n <= Len(tokens) /\ n \in Nat
    BY <1>2, <1>3, <1>7, ExpectedTokens
  <2>2. /\ Go("params", u, <<>>, n) /\ directive_list' = <<>>
        /\ UNCHANGED <<input, decls, outcome, blamed>>
    BY <1>4, <1>7
  <2>3. /\ tokens' = tokens /\ assertions' = assertions /\ decls' = decls /\ outcome' = outcome
        /\ blamed' = blamed /\ index' = index + n /\ result' = <<>>
    BY <2>2 DEF input, Go, None
  <2>4. g \in Node /\ Listed = {g} /\ Ordered(g) /\ Passed(g)
    <3>1. Listed = {g} /\ Listed \subseteq Node
      BY <1>1, ListFacts
    <3> QED BY <3>1, ListFacts DEF TopOrder
  <2> HIDE DEF g, n, v
  <2>5. /\ visib_mod \in Node /\ Ordered(visib_mod)
        /\ \A k \in DOMAIN visib_mod : visib_mod[k] = index
    BY <1>2, <1>3 DEF Node, Ordered
  <2>6. t \in Node /\ Ordered(t) /\ t # <<>> /\ name > index /\ name < index + n
        /\ \A k \in DOMAIN t : t[k] = name
    BY <1>2, <1>3, <2>1 DEF Node, Ordered
  <2> DEFINE w == g \o visib_mod
  <2> HIDE DEF visib_mod, t
  <2>7. Before(g, visib_mod) /\ Before(g, t) /\ Before(visib_mod, t)
    <3>1. (\A k \in DOMAIN visib_mod : index <= visib_mod[k]) /\ \A k \in DOMAIN t : index <= t[k]
      BY <1>2, <1>3, <2>5, <2>6
    <3>2. Before(g, visib_mod) /\ Before(g, t)
      BY <2>4, <2>5, <2>6, <3>1, PassedFacts
    <3>3. Before(visib_mod, t)
      BY <1>2, <1>3, <2>5, <2>6 DEF Before
    <3> QED BY <3>2, <3>3
  <2>8. /\ w \in Node /\ Ordered(w) /\ Before(w, t)
        /\ \A r : Before(r, g) /\ Before(r, visib_mod) => Before(r, w)
    BY <2>4, <2>5, <2>7, NodesJoined, JoinedOrder
  <2>9. \A k \in DOMAIN w : w[k] < index + n
    <3>1. \A k \in DOMAIN g : g[k] < index + n
      BY <2>1, <2>4, PassedFacts
    <3>2. \A k \in DOMAIN visib_mod : visib_mod[k] < index + n
      BY <1>2, <1>3, <2>5
    <3> QED BY <2>4, <2>5, <3>1, <3>2, NodesJoined
  <2>10. u = w \o t
    BY <1>5
  <2> HIDE DEF w
  <2>11. /\ u \in Node /\ Ordered(u) /\ u # <<>>
         /\ \A r : Before(r, w) /\ Before(r, t) => Before(r, u)
    BY <2>6, <2>8, <2>10, NodesJoined, JoinedOrder
  <2>12. \A k \in DOMAIN u : u[k] < index + n
    BY <2>6, <2>8, <2>9, <2>10, NodesJoined
  <2>13. Listed' = {}
    BY <2>2 DEF Listed
  <2>14. \A s \in Declared \cup Listed' : Before(s, u)
    <3> SUFFICES ASSUME NEW s \in Declared PROVE Before(s, u)
      BY <2>13
    <3>1. s \in Node /\ Passed(s) /\ Before(s, g)
      BY <2>4, ListFacts DEF TopOrder
    <3>2. Before(s, t) /\ Before(s, visib_mod)
      <4>1. (\A k \in DOMAIN visib_mod : index <= visib_mod[k]) /\ \A k \in DOMAIN t : index <= t[k]
        BY <1>2, <1>3, <2>5, <2>6
      <4> QED BY <2>5, <2>6, <3>1, <4>1, PassedFacts
    <3> QED BY <2>8, <2>11, <3>1, <3>2
  <2>15. \A k \in 2..Len(stack) : Before(stack[k].got, u)
    <3>1. Before(<<>>, u)
      BY DEF Before
    <3> QED BY <1>1, <3>1, StackOfTop
  <2> DEFINE m == Moved("params", u)
  <2>16. "params" \in Place /\ "params" # "proto"
    BY DEF Place
  <2>17. m.fn = "fn_proto" /\ m.at = "params" /\ m.got = u
    BY <1>1, <2>11, <2>16, MovedFacts
  <2>18. FrameOK(m) /\ Chain(<<>>, m) /\ First(<<>>, m) = m
    BY <2>11, <2>16, <2>17, NoCall DEF FrameOK
  <2>19. Chain(<<>>, Moved("params", u)) /\ FrameOK(Moved("params", u)) /\ tokens' = tokens
    BY <2>3, <2>18
  <2>20. StackOK' /\ Top' = First(<<>>, Moved("params", u)) /\ stack' # Tail(stack)
    BY <2>1, <2>2, <2>11, <2>16, <2>19, StackGoes
  <2>21. stack' \in Seq(Activation)
    BY <2>1, <2>2, <2>11, <2>16, <2>19, StackGoes
  <2>22. TreeInOrder'
    <3>1. Listed' \subseteq Listed
      BY <2>13
    <3>2. decls' = decls /\ Ordered(u)
      BY <2>3, <2>11
    <3> QED BY <2>1, <2>2, <2>11, <2>12, <2>14, <2>15, <2>16, <2>19, <3>1, <3>2, TreeGoes
  <2>23. Top' = m
    BY <2>18, <2>20
  <2> HIDE DEF m
  <2>24. TypeOK'
    <3>1. index' \in 1..Len(tokens) + 1
      BY <1>2, <2>1, <2>3
    <3>2. result' \in Node /\ directive_list' \in Seq(Node) /\ Len(directive_list') <= 1
      BY <2>2, <2>3 DEF Node
    <3> QED BY <2>3, <2>21, <3>1, <3>2, SameInput, ListFacts DEF IInv, TypeOK
  <2>25. TopOK'
    <3>1. Reads(Top', index')
      BY <2>1, <2>3, <2>17, <2>23 DEF Reads
    <3> QED BY <2>3, <3>1 DEF TopOK, Reads
  <2>26. DirectivesOK'
    BY <2>2, <2>17, <2>23 DEF DirectivesOK, Lists
  <2> QED BY <2>3, <2>20, <2>22, <2>24, <2>25, <2>26 DEF StepOK, IInv
<1> QED BY <1>6, <1>7

-----------------------------------------------------------------------------
(* The program.                                                            *)

(* It starts in order.                                                     *)
LEMMA Starts ==
  ASSUME Init
  PROVE  IInv
<1> DEFINE f == Frame("top_level_decl", "start", FALSE, 1)
<1>1. /\ tokens \in Texts /\ assertions \in Builds /\ index = 1 /\ stack = <<f>> /\ result = <<>>
      /\ directive_list = <<>> /\ decls = <<>> /\ outcome = "running" /\ blamed = 0
  BY DEF Init, None
<1>2. Len(tokens) \in Nat /\ Len(tokens) >= 1
  <2>1. tokens \in Seq(STRING) /\ tokens # <<>>
    BY <1>1, TextsAssumption
  <2> QED BY <2>1, LenProperties, EmptySeq
<1>3. "top_level_decl" \in Function /\ "start" \in Place /\ 1 \in 1..Len(tokens) + 1
  BY <1>2, Levels DEF Place, Others
<1>4. /\ f \in Activation /\ f.fn = "top_level_decl" /\ f.at = "start" /\ f.got = <<>> /\ f.from = 1
  <2>1. <<>> \in Node
    BY DEF Node
  <2> QED BY <1>3, <2>1 DEF Frame, Activation
<1> HIDE DEF f
<1>5. stack \in Seq(Activation) /\ Len(stack) = 1 /\ stack[1] = f /\ stack # <<>> /\ Top = f
  BY <1>1, <1>4 DEF Top
<1>6. FrameOK(f)
  BY <1>4 DEF FrameOK, Filled
<1>7. StackOK
  BY <1>4, <1>5, <1>6 DEF StackOK
<1>8. TypeOK
  BY <1>1, <1>2, <1>5 DEF TypeOK, Node
<1>9. TopOK
  BY <1>1, <1>2, <1>4, <1>5 DEF TopOK, Reads
<1>10. DirectivesOK
  BY <1>1, <1>4, <1>5 DEF DirectivesOK, Lists
<1>11. TreeInOrder
  <2>1. Declared = {} /\ Listed = {} /\ Opened = {<<>>}
    <3>1. DOMAIN stack = {1} /\ DOMAIN decls = {} /\ DOMAIN directive_list = {}
      BY <1>1, <1>5
    <3> QED BY <1>4, <1>5, <3>1 DEF Declared, Listed, Opened
  <2>2. Ordered(<<>>) /\ Passed(<<>>) /\ \A s : Before(s, <<>>) /\ Before(<<>>, s)
    BY DEF Ordered, Passed, Before
  <2>3. \A j, k \in DOMAIN stack : ~(j < k)
    BY <1>5
  <2> QED BY <1>1, <2>1, <2>2, <2>3 DEF TreeInOrder
<1> QED BY <1>1, <1>7, <1>8, <1>9, <1>10, <1>11 DEF IInv

(* Each step keeps it in order, and a function that returns keeps its      *)
(* promise.                                                                *)
LEMMA StepKeeps ==
  ASSUME IInv, Next
  PROVE  StepOK
<1>1. CASE TopLevel
  BY <1>1, TopKeeps, DirectiveKeeps, RootExportKeeps, CallFnDefKeeps DEF TopLevel
<1>2. CASE Fn
  BY <1>2, FnDefKeeps, HeaderKeeps, FnProtoReads, FnProtoWaits, TypeKeeps DEF Fn
<1>3. CASE Body
  BY <1>3, BlockReads, BlockWaits, ReturnExprKeeps, OperandKeeps, ExpressionEnds DEF Body
<1>4. CASE Operations
  BY <1>4, BinaryKeeps, CastKeeps, EndReadBehind, PrefixBegins, PrefixEnds, FnCallKeeps,
     PrimaryReads, PrimaryWaits DEF Operations
<1> QED BY <1>1, <1>2, <1>3, <1>4 DEF Next

(* What the program keeps in order.                                        *)
THEOREM InvariantHolds == Spec => []IInv
<1>1. Init => IInv
  BY Starts
<1>2. IInv /\ [Next]_vars => IInv'
  <2> SUFFICES ASSUME IInv, [Next]_vars PROVE IInv'
    OBVIOUS
  <2>1. CASE Next
    BY <2>1, StepKeeps DEF StepOK
  <2>2. CASE UNCHANGED vars
    <3>1. UNCHANGED <<input, index, stack, result, directive_list, decls, outcome, blamed>>
      BY <2>2 DEF vars, context
    <3>2. outcome' \in {"running", "error", "abort", "undefined"} /\ blamed' \in 0..Len(tokens)
      BY <3>1 DEF IInv, TypeOK
    <3> QED BY <3>1, <3>2, StopsHere DEF StepOK
  <2> QED BY <2>1, <2>2
<1> QED BY <1>1, <1>2, PTL DEF Spec

(* The activations, the directive list and the nodes fit together: the     *)
(* list that a function or a root export took is nobody else's, and no     *)
(* token is in two nodes or out of order.                                  *)
THEOREM StacksConsistent == Spec => []StackConsistent
<1>1. IInv => StackConsistent
  <2> SUFFICES ASSUME IInv PROVE StackConsistent
    OBVIOUS
  <2>1. ASSUME Top.fn = "top_level_decl", Top.at = "start"
        PROVE  directive_list = <<>>
    BY <2>1, ListFacts DEF Lists
  <2>2. ASSUME NEW k \in DOMAIN stack, stack[k].fn \in {"fn_def", "fn_proto"},
               stack[k].at \notin {"start", "proto"}
        PROVE  directive_list = <<>>
    <3>1. k \in 1..Len(stack) /\ Len(stack) \in Nat /\ Top = stack[1]
      BY TopFacts, LenProperties
    <3>2. CASE ~Lists(Top)
      BY <3>2, ListFacts
    <3>3. CASE Lists(Top)
      <4>1. CASE Top.fn = "top_level_decl"
        <5>1. k = 1
          BY <3>1, <4>1, StackOfTop
        <5> QED BY <2>2, <3>1, <4>1, <5>1
      <4>2. CASE Top.fn = "fn_proto" /\ Top.at = "start"
        <5>1. k # 1 /\ k \in 2..Len(stack)
          BY <2>2, <3>1, <4>2
        <5>2. stack[k].fn = "top_level_decl" \/ stack[k].at = "proto"
          BY <4>2, <5>1, StackOfTop
        <5> QED BY <2>2, <5>2
      <4> QED BY <3>3, <4>1, <4>2 DEF Lists
    <3> QED BY <3>2, <3>3
  <2>3. ListIsFree
    BY <2>1, <2>2 DEF ListIsFree
  <2> QED BY <2>3 DEF IInv, StackConsistent
<1> QED BY <1>1, InvariantHolds, PTL

(* A function that returns null has stepped over nothing and was not told  *)
(* that its node is mandatory.                                             *)
THEOREM ContractKept == Spec => ReturnContract
<1>1. IInv /\ [Next]_vars =>
        [\A f \in {Top} : (stack' = Tail(stack) /\ f.fn \notin Lenient /\ result' = None) =>
           /\ ~f.mandatory
           /\ f.fn # "expression" => index' = f.from]_vars
  <2> SUFFICES ASSUME IInv, Next, stack' = Tail(stack), Top.fn \notin Lenient, result' = None
               PROVE  ~Top.mandatory /\ (Top.fn # "expression" => index' = Top.from)
    OBVIOUS
  <2> QED BY StepKeeps DEF StepOK, Promises
<1> QED BY <1>1, InvariantHolds, PTL DEF Spec, ReturnContract

-----------------------------------------------------------------------------
(* The text in the tree.                                                   *)

(* A statement stays open for good: the semicolon behind it is not stepped *)
(* over, so no block that has a statement ends.                            *)
Unfinished(k) ==
  /\ stack[k].fn = "block"
  /\ stack[k].at = "semicolon" \/ (k = 1 /\ stack[k].at = "statements" /\ Token = "Semicolon")
Stuck == \E k \in DOMAIN stack : Unfinished(k)

(* Until then only the loop, a header and an empty body are parsed.        *)
HeaderFn == {"top_level_decl", "fn_def", "fn_proto", "type", "block"}
InHeader(f) ==
  /\ f.fn \in HeaderFn
  /\ f.fn = "block" => f.at \in {"start", "statements"}
  /\ f.at = "start" /\ f.fn \in {"fn_proto", "block"} => f.got = <<>>
Simple == \A k \in DOMAIN stack : InHeader(stack[k])

(* The result is taken before the next token is read, and no directive is  *)
(* begun and not ended.                                                    *)
Quiet == Top.at \in Reading => result = <<>>
Signed == \A k \in 1..index - 1 : tokens[k] = "NumberSign" => k + 3 < index

(* The tokens that say something are in the nodes there are.               *)
Spoken == {k \in 1..index - 1 : Speaks(k)}
Kept == UNION {TokensOf(s) : s \in Declared \cup Listed}
Held == UNION {TokensOf(stack[k].got) : k \in DOMAIN stack}
Clear == Simple /\ Quiet /\ Signed /\ Kept \cup TokensOf(result) \cup Held = Spoken
Covered == Stuck \/ Clear

(* The tokens in the nodes below the innermost one.                        *)
Rest == UNION {TokensOf(stack[k].got) : k \in 2..Len(stack)}

(* A sequence over a larger set.                                           *)
LEMMA Widen ==
  ASSUME NEW S, NEW T, S \subseteq T, NEW s \in Seq(S)
  PROVE  s \in Seq(T)
<1>1. s \in [1..Len(s) -> S] /\ Len(s) \in Nat
  BY LenProperties
<1>2. s \in [1..Len(s) -> T]
  BY <1>1
<1> QED BY <1>1, <1>2, SeqDef

(* The tokens of joined nodes.                                             *)
LEMMA TokensJoined ==
  ASSUME NEW S, NEW s \in Seq(S), NEW t \in Seq(S)
  PROVE  TokensOf(s \o t) = TokensOf(s) \cup TokensOf(t)
<1> DEFINE u == s \o t
           a == Len(s)
           b == Len(t)
<1>1. /\ u \in Seq(S) /\ Len(u) = a + b
      /\ \A i \in 1..a + b : u[i] = IF i <= a THEN s[i] ELSE t[i - a]
  BY ConcatProperties
<1>2. /\ a \in Nat /\ b \in Nat /\ DOMAIN s = 1..a /\ DOMAIN t = 1..b /\ DOMAIN u = 1..a + b
  BY <1>1, LenProperties
<1> HIDE DEF u, a, b
<1>3. \A k \in DOMAIN u : u[k] \in TokensOf(s) \cup TokensOf(t)
  <2> SUFFICES ASSUME NEW k \in 1..a + b PROVE u[k] \in TokensOf(s) \cup TokensOf(t)
    BY <1>2
  <2>1. CASE k <= a
    <3>1. k \in 1..a /\ u[k] = s[k]
      BY <1>1, <1>2, <2>1
    <3> QED BY <1>2, <3>1 DEF TokensOf
  <2>2. CASE ~(k <= a)
    <3>1. k - a \in 1..b /\ u[k] = t[k - a]
      BY <1>1, <1>2, <2>2
    <3> QED BY <1>2, <3>1 DEF TokensOf
  <2> QED BY <2>1, <2>2
<1>4. \A k \in DOMAIN s : s[k] \in TokensOf(u)
  BY <1>1, <1>2 DEF TokensOf
<1>5. \A k \in DOMAIN t : t[k] \in TokensOf(u)
  <2> SUFFICES ASSUME NEW k \in 1..b PROVE t[k] \in TokensOf(u)
    BY <1>2
  <2> DEFINE j == k + a
  <2>1. j \in 1..a + b /\ ~(j <= a) /\ j - a = k
    BY <1>2
  <2> HIDE DEF j
  <2>2. u[j] = t[k]
    BY <1>1, <2>1
  <2> QED BY <1>2, <2>1, <2>2 DEF TokensOf
<1>6. TokensOf(u) = TokensOf(s) \cup TokensOf(t)
  BY <1>3, <1>4, <1>5 DEF TokensOf
<1> QED BY <1>6 DEF u

(* The tokens of one node and the next tokens.                             *)
LEMMA TokensAdded ==
  ASSUME IInv
  PROVE  /\ TokensOf(<<>>) = {} /\ TokensOf(<<index>>) = {index}
         /\ TokensOf(Top.got \o result) = TokensOf(Top.got) \cup TokensOf(result)
         /\ TokensOf(Top.got \o <<index>>) = TokensOf(Top.got) \cup {index}
         /\ TokensOf(Top.got \o <<index, index + 1>>) = TokensOf(Top.got) \cup {index, index + 1}
<1>1. Top.got \in Seq(Nat) /\ result \in Seq(Nat) /\ index \in Nat
  <2>1. 1..Len(tokens) \subseteq Nat
    OBVIOUS
  <2>2. Top.got \in Seq(1..Len(tokens)) /\ result \in Seq(1..Len(tokens)) /\ index \in Nat
    BY TopFacts DEF Node
  <2> QED BY <2>1, <2>2, Widen
<1>2. TokensOf(<<>>) = {}
  BY DEF TokensOf
<1> DEFINE t == <<index>>
           p == <<index, index + 1>>
<1>3. t \in Seq(Nat) /\ TokensOf(t) = {index}
  BY <1>1 DEF TokensOf
<1>4. p \in Seq(Nat) /\ TokensOf(p) = {index, index + 1}
  <2>1. p \in Seq(Nat) /\ DOMAIN p = 1..2 /\ p[1] = index /\ p[2] = index + 1
    BY <1>1
  <2>2. 1..2 = {1, 2}
    OBVIOUS
  <2> HIDE DEF p
  <2> QED BY <2>1, <2>2 DEF TokensOf
<1> HIDE DEF t, p
<1>5. /\ TokensOf(Top.got \o result) = TokensOf(Top.got) \cup TokensOf(result)
      /\ TokensOf(Top.got \o t) = TokensOf(Top.got) \cup {index}
      /\ TokensOf(Top.got \o p) = TokensOf(Top.got) \cup {index, index + 1}
  BY <1>1, <1>3, <1>4, TokensJoined
<1> QED BY <1>2, <1>3, <1>5 DEF t, p

(* The innermost activation, moved on to any place with any node.          *)
LEMMA MovedFields ==
  ASSUME IInv, NEW at, NEW got
  PROVE  /\ Moved(at, got).fn = Top.fn /\ Moved(at, got).at = at /\ Moved(at, got).got = got
<1> DEFINE x == Top
<1>1. x \in [fn : Function, at : Place, mandatory : BOOLEAN, got : Node, from : 1..Len(tokens) + 1]
  BY TopFacts DEF Activation
<1>2. Moved(at, got) = [x EXCEPT !.at = at, !.got = got]
  BY DEF Moved
<1> HIDE DEF x
<1>3. LET m == [x EXCEPT !.at = at, !.got = got]
      IN  m.fn = x.fn /\ m.at = at /\ m.got = got
  BY <1>1
<1> QED BY <1>2, <1>3 DEF x

(* A step that goes on, whatever it calls.                                 *)
LEMMA GoFacts ==
  ASSUME IInv, NEW at, NEW got, NEW n, NEW C, NEW cs \in Seq(C), Go(at, got, cs, n)
  PROVE  /\ Len(cs) \in Nat /\ Len(stack') = Len(cs) + Len(stack)
         /\ DOMAIN stack' = 1..Len(stack')
         /\ \A k \in 1..Len(cs) : stack'[k] = cs[k]
         /\ stack'[Len(cs) + 1] = Moved(at, got)
         /\ \A k \in Len(cs) + 2..Len(stack') : stack'[k] = stack[k - Len(cs)]
         /\ Top' = stack'[1]
<1> DEFINE x == Moved(at, got)
           S == C \cup Activation \cup {x}
           t == stack'
<1>1. stack \in Seq(Activation) /\ stack # <<>>
  BY DEF IInv, StackOK
<1>2. x \in S /\ C \subseteq S /\ Activation \subseteq S
  OBVIOUS
<1>3. t = cs \o <<x>> \o Tail(stack)
  BY DEF Go, Moved
<1> HIDE DEF x, S, t
<1>4. cs \in Seq(S) /\ stack \in Seq(S)
  BY <1>1, <1>2, Widen
<1>5. /\ t \in Seq(S) /\ t # <<>> /\ Len(t) = Len(cs) + Len(stack) /\ Len(cs) \in Nat
      /\ \A k \in 1..Len(cs) : t[k] = cs[k]
      /\ t[Len(cs) + 1] = x
      /\ \A k \in Len(cs) + 2..Len(t) : t[k] = stack[k - Len(cs)]
  BY <1>1, <1>2, <1>3, <1>4, StackGrows
<1>6. DOMAIN t = 1..Len(t)
  BY <1>5, LenProperties
<1>7. Top' = t[1]
  BY <1>5 DEF Top, t
<1> QED BY <1>5, <1>6, <1>7 DEF t, x

-----------------------------------------------------------------------------
(* What an open statement means.                                           *)

(* The activations that a step can call.                                   *)
Pushes(cs) == \E at, got, n : Go(at, got, cs, n)
Shape ==
  \/ stack' = stack \/ stack' = Tail(stack) \/ Pushes(<<>>)
  \/ (\E c : Pushes(<<c>>)) \/ (\E c, d : Pushes(<<c, d>>))
  \/ \E n \in 1..10 : \E mandatory, from : Pushes(CallFrom(n, mandatory, from))

(* Every step has one of these shapes.                                     *)
LEMMA Shapes ==
  ASSUME Next
  PROVE  Shape
<1>1. CASE TopLevel
  BY <1>1 DEF TopLevel, BeginDecl, Directive, FailAtFirst, AssertionFails, RootExport, CallFnDef,
     AppendFnDef, Fail, Shape, Pushes
<1>2. CASE Fn
  <2>1. CASE FnBody \/ EndFnDef \/ Header \/ NoParams \/ ParamDecl
    BY <2>1 DEF FnBody, EndFnDef, Header, NoParams, ParamDecl, Return, Fail, FailAtFirst, Shape,
       Pushes
  <2>2. CASE EndParam \/ Arrow \/ EndFnProto \/ PointerType \/ PrimitiveType
    BY <2>2 DEF EndParam, Arrow, EndFnProto, PointerType, PrimitiveType, Return, Fail, Shape, Pushes
  <2> QED BY <1>2, <2>1, <2>2 DEF Fn
<1>3. CASE Body
  <2>1. CASE BeginBlock \/ Statement \/ EndStatement \/ EndBlock
    BY <2>1 DEF BeginBlock, Statement, EndStatement, EndBlock, Return, Fail, Shape, Pushes
  <2>2. CASE Operand
    <3>1. Pushes(CallFrom(1, FALSE, index))
      BY <2>2, Zenon DEF Operand, Pushes
    <3>2. \E n \in 1..10 : \E mandatory, from : Pushes(CallFrom(n, mandatory, from))
      <4>1. 1 \in 1..10
        OBVIOUS
      <4> QED BY <3>1, <4>1, Zenon
    <3> QED BY <3>2 DEF Shape
  <2>3. CASE ReturnExpr \/ EndReturn \/ EndExpression
    BY <2>3 DEF ReturnExpr, EndReturn, EndExpression, Return, Fail, Shape, Pushes
  <2> QED BY <1>3, <2>1, <2>2, <2>3 DEF Body
<1>4. CASE Operations
  <2>1. CASE NoOperand \/ NoOperator \/ EndBinary \/ EndCast \/ CastType \/ ReadsBehindEnd
    BY <2>1 DEF NoOperand, NoOperator, EndBinary, EndCast, CastType, ReadsBehindEnd, Return, Shape,
       Pushes
  <2>2. CASE TakeOperator
    <3>1. PICK n \in 1..9 :
            Go("operand_2", result \o <<index>>, CallFrom(n + 1, TRUE, index + 1), 1)
      BY <2>2, BinaryNames DEF TakeOperator, BinaryAt
    <3>2. n + 1 \in 1..10
      OBVIOUS
    <3> QED BY <3>1, <3>2 DEF Shape, Pushes
  <2>3. CASE BeginPrefix \/ EndPrefix \/ FnCall
    BY <2>3 DEF BeginPrefix, EndPrefix, FnCall, Return, Fail, Shape, Pushes
  <2>4. CASE AtomExpr \/ TryBlock \/ BlockExpr \/ GroupedExpr \/ EndGrouped
    BY <2>4 DEF AtomExpr, TryBlock, BlockExpr, GroupedExpr, EndGrouped, Return, Fail, Shape, Pushes
  <2> QED BY <1>4, <2>1, <2>2, <2>3, <2>4 DEF Operations
<1> QED BY <1>1, <1>2, <1>3, <1>4 DEF Next

(* The calls are a sequence.                                               *)
LEMMA CallSequence ==
  ASSUME NEW n \in 1..10, NEW mandatory, NEW from
  PROVE  \E C : CallFrom(n, mandatory, from) \in Seq(C)
<1> DEFINE p == Frame("prefix_op_expr", "start", mandatory, from)
           c == Frame("cast_expression", "operand_1", mandatory, from)
           b(i) == Frame(Binary[i], "operand_1", mandatory, from)
           two == <<p, c>>
           q == Len(Binary) + 1 - n
           s == [k \in 1..q |-> b(Len(Binary) + 1 - k)]
           C == {p, c} \cup {b(i) : i \in Int}
<1>1. CallFrom(n, mandatory, from) = two \o s
  BY DEF CallFrom
<1>2. two \in Seq(C)
  OBVIOUS
<1>3. s \in Seq(C)
  <2>1. q \in Nat /\ Len(Binary) = 9
    BY BinaryNames
  <2>2. \A k \in 1..q : b(Len(Binary) + 1 - k) \in C
    <3>1. \A k \in 1..q : Len(Binary) + 1 - k \in Int
      BY <2>1
    <3> QED BY <3>1
  <2> HIDE DEF q, b, C
  <2>3. s \in [1..q -> C]
    BY <2>2
  <2> QED BY <2>1, <2>3, SeqDef
<1> HIDE DEF two, s, C
<1>4. two \o s \in Seq(C)
  BY <1>2, <1>3, ConcatProperties
<1> QED BY <1>1, <1>4

(* The activations below the innermost one stay as they are.               *)
LEMMA TailStays ==
  ASSUME IInv, Next, NEW k \in DOMAIN stack, k # 1
  PROVE  \E j \in DOMAIN stack' : stack'[j] = stack[k]
<1>1. /\ DOMAIN stack = 1..Len(stack) /\ Len(stack) \in Nat /\ k \in 2..Len(stack)
      /\ stack \in Seq(Activation)
  BY TopFacts, LenProperties
<1>2. CASE stack' = stack
  BY <1>2
<1>3. CASE stack' = Tail(stack)
  <2> DEFINE t == stack'
             j == k - 1
  <2>1. Len(stack) >= 2 /\ t = Tail(stack)
    BY <1>1, <1>3
  <2> HIDE DEF t
  <2>2. /\ t \in Seq(Activation) /\ Len(t) = Len(stack) - 1
        /\ \A i \in 1..Len(t) : t[i] = stack[i + 1]
    BY <1>1, <2>1, StackShrinks
  <2>3. DOMAIN t = 1..Len(t) /\ j \in 1..Len(t) /\ j + 1 = k
    BY <1>1, <2>2, LenProperties
  <2> HIDE DEF j
  <2> QED BY <2>2, <2>3 DEF t
<1>4. ASSUME NEW C, NEW cs \in Seq(C), Pushes(cs)
      PROVE  \E j \in DOMAIN stack' : stack'[j] = stack[k]
  <2>1. PICK at, got, n : Go(at, got, cs, n)
    BY <1>4 DEF Pushes
  <2> DEFINE a == Len(cs)
             j == k + a
             t == stack'
  <2>2. /\ a \in Nat /\ Len(t) = a + Len(stack) /\ DOMAIN t = 1..Len(t)
        /\ \A i \in a + 2..Len(t) : t[i] = stack[i - a]
    BY <2>1, GoFacts
  <2> HIDE DEF a, t
  <2>3. j \in a + 2..Len(t) /\ j - a = k /\ j \in 1..Len(t)
    BY <1>1, <2>2
  <2> HIDE DEF j
  <2> QED BY <2>2, <2>3 DEF t
<1>5. CASE Pushes(<<>>)
  <2>1. <<>> \in Seq({})
    OBVIOUS
  <2> QED BY <1>4, <1>5, <2>1
<1>6. CASE \E c : Pushes(<<c>>)
  <2>1. PICK c : Pushes(<<c>>)
    BY <1>6
  <2>2. <<c>> \in Seq({c})
    OBVIOUS
  <2> QED BY <1>4, <2>1, <2>2
<1>7. CASE \E c, d : Pushes(<<c, d>>)
  <2>1. PICK c, d : Pushes(<<c, d>>)
    BY <1>7
  <2>2. <<c, d>> \in Seq({c, d})
    OBVIOUS
  <2> QED BY <1>4, <2>1, <2>2
<1>8. CASE \E n \in 1..10 : \E mandatory, from : Pushes(CallFrom(n, mandatory, from))
  <2>1. PICK n \in 1..10 : \E mandatory, from : Pushes(CallFrom(n, mandatory, from))
    BY <1>8
  <2>2. PICK mandatory, from : Pushes(CallFrom(n, mandatory, from))
    BY <2>1
  <2>3. PICK C : CallFrom(n, mandatory, from) \in Seq(C)
    BY CallSequence
  <2> QED BY <1>4, <2>2, <2>3
<1> QED BY <1>2, <1>3, <1>5, <1>6, <1>7, <1>8, Shapes DEF Shape

(* The steps of the functions of the loop, the header and blocks.          *)
LEMMA HeaderSteps ==
  ASSUME Next, Top.fn \in HeaderFn
  PROVE  /\ TopLevel \/ Fn \/ BeginBlock \/ Statement \/ EndStatement \/ EndBlock
         /\ Top.fn = "block" => BeginBlock \/ Statement \/ EndStatement \/ EndBlock
<1>1. \A n \in 1..Len(Binary) : Top.fn # Binary[n]
  <2>1. Top.fn \in Others
    BY DEF HeaderFn, Others
  <2> QED BY <2>1, Levels, BinaryNames
<1>2. ~NoOperand /\ ~NoOperator /\ ~TakeOperator /\ ~EndBinary
  BY <1>1 DEF NoOperand, NoOperator, TakeOperator, EndBinary, BinaryAt, Active
<1>3. ~EndCast /\ ~CastType /\ ~ReadsBehindEnd /\ ~BeginPrefix /\ ~EndPrefix /\ ~FnCall
  BY DEF EndCast, CastType, ReadsBehindEnd, BeginPrefix, EndPrefix, FnCall, Active, HeaderFn
<1>4. ~AtomExpr /\ ~TryBlock /\ ~BlockExpr /\ ~GroupedExpr /\ ~EndGrouped
  BY DEF AtomExpr, TryBlock, BlockExpr, GroupedExpr, EndGrouped, Active, HeaderFn
<1>5. ~ReturnExpr /\ ~EndReturn /\ ~Operand /\ ~EndExpression
  BY DEF ReturnExpr, EndReturn, Operand, EndExpression, Active, HeaderFn
<1>6. TopLevel \/ Fn \/ BeginBlock \/ Statement \/ EndStatement \/ EndBlock
  BY <1>2, <1>3, <1>4, <1>5 DEF Next, Body, Operations
<1>7. TopLevel => Top.fn = "top_level_decl"
  BY DEF TopLevel, BeginDecl, Directive, EndDirectives, AssertionFails, RootExport, CallFnDef,
     AppendFnDef, Active
<1>8. Fn => Top.fn \in {"fn_def", "fn_proto", "type"}
  BY DEF Fn, FnBody, EndFnDef, Header, NoParams, ParamDecl, EndParam, Arrow, EndFnProto,
     PointerType, PrimitiveType, Active
<1> QED BY <1>6, <1>7, <1>8

(* A statement that is begun is open.                                      *)
LEMMA StatementSticks ==
  ASSUME IInv, Statement
  PROVE  Stuck'
<1> DEFINE c == Frame("expression", "start", TRUE, index)
           cs == <<c>>
           m == Moved("semicolon", Top.got)
<1>1. Go("semicolon", Top.got, cs, 0) /\ Top.fn = "block"
  BY DEF Statement, Active
<1>2. cs \in Seq({c}) /\ Len(cs) = 1
  OBVIOUS
<1>3. m.fn = "block" /\ m.at = "semicolon"
  BY <1>1, MovedFields
<1> HIDE DEF cs, m, c
<1>4. DOMAIN stack' = 1..Len(stack') /\ Len(stack') = 1 + Len(stack) /\ stack'[2] = m
  <2>1. /\ DOMAIN stack' = 1..Len(stack') /\ Len(stack') = Len(cs) + Len(stack)
        /\ stack'[Len(cs) + 1] = m
    BY <1>1, <1>2, GoFacts DEF m
  <2> QED BY <1>2, <2>1
<1>5. 2 \in DOMAIN stack'
  BY <1>4, TopFacts
<1> QED BY <1>3, <1>4, <1>5 DEF Stuck, Unfinished

(* A statement that is open stays open.                                    *)
LEMMA StuckStays ==
  ASSUME IInv, Next, Stuck
  PROVE  Stuck'
<1>1. PICK k \in DOMAIN stack : Unfinished(k)
  BY DEF Stuck
<1>2. CASE k # 1
  <2>1. PICK j \in DOMAIN stack' : stack'[j] = stack[k]
    BY <1>2, TailStays
  <2> QED BY <1>1, <1>2, <2>1 DEF Stuck, Unfinished
<1>3. CASE k = 1
  <2>1. Top.fn = "block" /\ stack[1] = Top /\ Top.fn \in HeaderFn
        /\ (Top.at = "semicolon" \/ (Top.at = "statements" /\ Token = "Semicolon"))
    BY <1>1, <1>3, TopFacts DEF Unfinished, HeaderFn
  <2>2. (Statement /\ Top.at = "statements") \/ (EndStatement /\ Top.at = "semicolon")
    BY <2>1, HeaderSteps DEF BeginBlock, Statement, EndStatement, EndBlock, Active
  <2>3. CASE Statement
    BY <2>3, StatementSticks
  <2>4. CASE EndStatement /\ Top.at = "semicolon"
    <3>1. CASE Token = "Semicolon"
      <4> DEFINE cs == <<>>
                 g == Top.got \o result
      <4>1. Go("statements", g, cs, 0) /\ Continue
        BY <2>4, <3>1 DEF EndStatement
      <4>2. cs \in Seq(Activation) /\ Len(cs) = 0
        OBVIOUS
      <4> HIDE DEF g
      <4> DEFINE m == Moved("statements", g)
      <4>3. m.fn = "block" /\ m.at = "statements"
        BY <2>1, MovedFields
      <4> HIDE DEF m, cs
      <4>4. DOMAIN stack' = 1..Len(stack') /\ Len(stack') = Len(stack) /\ stack'[1] = m
        <5>1. /\ DOMAIN stack' = 1..Len(stack') /\ Len(stack') = Len(cs) + Len(stack)
              /\ stack'[Len(cs) + 1] = m
          <6>1. Go("statements", g, cs, 0) /\ cs \in Seq(Activation)
            BY <4>1, <4>2
          <6> QED BY <6>1, GoFacts DEF m
        <5>2. Len(stack) \in Nat
          BY TopFacts
        <5> QED BY <4>2, <5>1, <5>2
      <4>5. 1 \in DOMAIN stack'
        BY <4>4, TopFacts
      <4>6. Token' = "Semicolon"
        <5>1. tokens' = tokens /\ index' = index
          BY <4>1, TopFacts DEF Go, Continue, context, input
        <5> QED BY <3>1, <5>1 DEF Token
      <4> QED BY <4>3, <4>4, <4>5, <4>6 DEF Stuck, Unfinished
    <3>2. CASE Token # "Semicolon"
      <4>1. stack' = stack
        BY <2>4, <3>2 DEF EndStatement, Fail
      <4> QED BY <1>1, <1>3, <2>1, <2>4, <4>1 DEF Stuck, Unfinished
    <3> QED BY <3>1, <3>2
  <2> QED BY <2>2, <2>3, <2>4
<1> QED BY <1>2, <1>3

-----------------------------------------------------------------------------
(* The text that a step takes into the tree.                               *)

(* The next n tokens that say something; none of them begins a directive.  *)
New(n) == {k \in index..index + n - 1 : tokens[k] \notin Silent}
Unsigned(n) == \A k \in index..index + n - 1 : tokens[k] # "NumberSign"

(* Tokens that no directive is begun by.                                   *)
LEMMA StepsOver ==
  ASSUME IInv, Signed, NEW n \in Nat, index' = index + n, tokens' = tokens, Unsigned(n)
  PROVE  Signed' /\ Spoken' = Spoken \cup New(n)
<1>1. index \in Nat /\ index >= 1
  BY TopFacts
<1> DEFINE i == index
           j == index'
<1>2. j = i + n /\ i \in Nat /\ i >= 1 /\ j \in Nat
  BY <1>1
<1>3. \A k \in 1..i - 1 : tokens[k] = "NumberSign" => k + 3 < i
  BY DEF Signed
<1>4. \A k \in i..j - 1 : tokens[k] # "NumberSign"
  BY <1>2 DEF Unsigned
<1> HIDE DEF i, j
<1>5. \A k \in 1..j - 1 : k \in 1..i - 1 \/ k \in i..j - 1
  BY <1>2
<1>6. \A k \in 1..j - 1 : tokens[k] = "NumberSign" => k + 3 < i /\ k \in 1..i - 1
  BY <1>2, <1>3, <1>4, <1>5
<1>7. \A k \in 1..j - 1 : tokens[k] = "NumberSign" => k + 3 < j
  BY <1>2, <1>6
<1>8. \A k \in i..j - 1 : ~(k > 3 /\ tokens[k - 3] = "NumberSign")
  <2> SUFFICES ASSUME NEW k \in i..j - 1, k > 3, tokens[k - 3] = "NumberSign" PROVE FALSE
    OBVIOUS
  <2> DEFINE h == k - 3
  <2>1. h \in 1..j - 1 /\ h + 3 = k
    BY <1>2
  <2> HIDE DEF h
  <2>2. h + 3 < i
    BY <1>6, <2>1 DEF h
  <2> QED BY <1>2, <2>1, <2>2
<1>9. \A k \in i..j - 1 : Speaks(k) <=> tokens[k] \notin Silent
  BY <1>8 DEF Speaks
<1>10. {k \in 1..j - 1 : Speaks(k)}
        = {k \in 1..i - 1 : Speaks(k)} \cup {k \in i..j - 1 : tokens[k] \notin Silent}
  BY <1>2, <1>5, <1>9
<1>11. Signed'
  BY <1>7 DEF Signed, j
<1>12. \A k : Speaks(k)' <=> Speaks(k)
  BY DEF Speaks
<1>13. Spoken' = {k \in 1..j - 1 : Speaks(k)}
  BY <1>12 DEF Spoken, j
<1>14. Spoken = {k \in 1..i - 1 : Speaks(k)} /\ New(n) = {k \in i..j - 1 : tokens[k] \notin Silent}
  BY <1>2 DEF Spoken, New, i
<1> QED BY <1>10, <1>11, <1>13, <1>14

(* No token, one, and two.                                                 *)
LEMMA NewTokens ==
  ASSUME IInv
  PROVE  /\ New(0) = {} /\ Unsigned(0)
         /\ New(1) = (IF Token \in Silent THEN {} ELSE {index})
         /\ Unsigned(1) <=> Token # "NumberSign"
         /\ New(2) = (IF Token \in Silent THEN {} ELSE {index})
                     \cup (IF tokens[index + 1] \in Silent THEN {} ELSE {index + 1})
         /\ Unsigned(2) <=> Token # "NumberSign" /\ tokens[index + 1] # "NumberSign"
<1>1. index \in Nat
  BY TopFacts
<1>2. /\ index..index + 0 - 1 = {} /\ index..index + 1 - 1 = {index}
      /\ index..index + 2 - 1 = {index, index + 1}
  BY <1>1
<1>3. New(0) = {} /\ Unsigned(0)
  BY <1>2 DEF New, Unsigned
<1>4. New(1) = {k \in {index} : tokens[k] \notin Silent} /\ (Unsigned(1) <=> Token # "NumberSign")
  BY <1>2 DEF New, Unsigned, Token
<1>5. New(2) = {k \in {index, index + 1} : tokens[k] \notin Silent}
  BY <1>2 DEF New
<1>6. Unsigned(2) <=> Token # "NumberSign" /\ tokens[index + 1] # "NumberSign"
  BY <1>2 DEF Unsigned, Token
<1>7. \A k \in {index} : k = index
  OBVIOUS
<1>8. New(1) = (IF Token \in Silent THEN {} ELSE {index})
  BY <1>4 DEF Token
<1>9. New(2) = (IF Token \in Silent THEN {} ELSE {index})
                     \cup (IF tokens[index + 1] \in Silent THEN {} ELSE {index + 1})
  BY <1>5 DEF Token
<1> QED BY <1>3, <1>4, <1>6, <1>8, <1>9

(* The tokens of the unfinished nodes.                                     *)
LEMMA HeldParts ==
  ASSUME IInv
  PROVE  Held = TokensOf(Top.got) \cup Rest
<1>1. /\ DOMAIN stack = 1..Len(stack) /\ Len(stack) \in Nat /\ Len(stack) >= 1 /\ Top = stack[1]
  BY TopFacts, LenProperties
<1>2. 1..Len(stack) = {1} \cup 2..Len(stack)
  BY <1>1
<1> QED BY <1>1, <1>2 DEF Held, Rest

(* What a step that goes on keeps.                                         *)
LEMMA SimpleGoes ==
  ASSUME IInv, Simple, NEW at, NEW got, NEW n, NEW C, NEW cs \in Seq(C), Go(at, got, cs, n),
         \A k \in 1..Len(cs) : InHeader(cs[k]) /\ cs[k].got = <<>>, InHeader(Moved(at, got))
  PROVE  /\ Simple' /\ Quiet' /\ Held' = TokensOf(got) \cup Rest
         /\ result' = <<>> /\ TokensOf(result') = {} /\ index' = index + n
<1> DEFINE a == Len(cs)
           b == Len(stack)
           m == Moved(at, got)
           t == stack'
<1>1. /\ a \in Nat /\ Len(t) = a + b
      /\ DOMAIN t = 1..Len(t)
      /\ \A k \in 1..a : t[k] = cs[k]
      /\ t[a + 1] = m
      /\ \A k \in a + 2..Len(t) : t[k] = stack[k - a]
  BY GoFacts
<1>2. b \in Nat /\ b >= 1 /\ DOMAIN stack = 1..b
  BY TopFacts, LenProperties
<1>3. m.got = got /\ InHeader(m)
  BY MovedFields
<1>4. \A k \in 1..a : InHeader(cs[k]) /\ cs[k].got = <<>>
  OBVIOUS
<1>5. result' = <<>> /\ index' = index + n
  BY DEF Go, None
<1>6. Rest = UNION {TokensOf(stack[k].got) : k \in 2..b}
  BY DEF Rest
<1>7. Held' = UNION {TokensOf(t[k].got) : k \in DOMAIN t}
  BY DEF Held
<1> HIDE DEF a, b, m, t
<1>8. \A k \in 1..a + b : k \in 1..a \/ k = a + 1 \/ (k \in a + 2..a + b /\ k - a \in 2..b)
  BY <1>1, <1>2
<1>9. TokensOf(<<>>) = {}
  BY DEF TokensOf
<1>10. \A k \in 1..a + b : InHeader(t[k])
  <2>1. \A k \in 2..b : InHeader(stack[k])
    BY <1>2 DEF Simple
  <2> QED BY <1>1, <1>3, <1>4, <1>8, <2>1
<1>11. Held' \subseteq TokensOf(got) \cup Rest
  <2>1. \A k \in 1..a + b : TokensOf(t[k].got) \subseteq TokensOf(got) \cup Rest
    <3> SUFFICES ASSUME NEW k \in 1..a + b
                 PROVE  TokensOf(t[k].got) \subseteq TokensOf(got) \cup Rest
      OBVIOUS
    <3>1. CASE k \in 1..a
      BY <1>1, <1>4, <1>9, <3>1
    <3>2. CASE k = a + 1
      BY <1>1, <1>3, <3>2
    <3>3. CASE k \in a + 2..a + b /\ k - a \in 2..b
      <4>1. t[k] = stack[k - a]
        BY <1>1, <3>3
      <4> QED BY <1>6, <3>3, <4>1
    <3> QED BY <1>8, <3>1, <3>2, <3>3
  <2> QED BY <1>1, <1>7, <2>1
<1>12. TokensOf(got) \subseteq Held'
  <2> DEFINE k == a + 1
  <2>1. k \in 1..a + b
    BY <1>1, <1>2
  <2>2. t[k].got = got
    BY <1>1, <1>3
  <2> HIDE DEF k
  <2> QED BY <1>1, <1>7, <2>1, <2>2
<1>13. Rest \subseteq Held'
  <2> SUFFICES ASSUME NEW k \in 2..b PROVE TokensOf(stack[k].got) \subseteq Held'
    BY <1>6
  <2> DEFINE j == k + a
  <2>1. j \in a + 2..a + b /\ j - a = k /\ j \in 1..a + b
    BY <1>1, <1>2
  <2> HIDE DEF j
  <2>2. t[j] = stack[k]
    BY <1>1, <2>1
  <2> QED BY <1>1, <1>7, <2>1, <2>2
<1>14. Simple'
  BY <1>1, <1>10 DEF Simple, t
<1> QED BY <1>5, <1>9, <1>11, <1>12, <1>13, <1>14 DEF Quiet

(* What a function that returns keeps.                                     *)
LEMMA SimpleReturns ==
  ASSUME IInv, Simple, NEW node, NEW n, Return(node, n), Top.fn # "top_level_decl"
  PROVE  /\ Simple' /\ Quiet' /\ Held' = Rest /\ result' = node /\ index' = index + n
<1> DEFINE t == stack'
           b == Len(stack)
<1>1. /\ b \in Nat /\ b >= 1 /\ stack \in Seq(Activation) /\ Top = stack[1] /\ DOMAIN stack = 1..b
      /\ \A k \in 1..b - 1 : Awaits(stack[k + 1], stack[k])
      /\ stack[b].fn = "top_level_decl"
  BY TopFacts, LenProperties DEF IInv, StackOK
<1>2. b >= 2
  BY <1>1
<1>3. t = Tail(stack) /\ result' = node /\ index' = index + n
  BY DEF Return
<1>4. Rest = UNION {TokensOf(stack[k].got) : k \in 2..b}
  BY DEF Rest
<1>5. Held' = UNION {TokensOf(t[k].got) : k \in DOMAIN t}
  BY DEF Held
<1> HIDE DEF t
<1>6. /\ t \in Seq(Activation) /\ t # <<>> /\ Len(t) = b - 1 /\ DOMAIN t = 1..b - 1
      /\ \A k \in 1..b - 1 : t[k] = stack[k + 1]
  <2>1. /\ t \in Seq(Activation) /\ t # <<>> /\ Len(t) = b - 1
        /\ \A k \in 1..Len(t) : t[k] = stack[k + 1]
    BY <1>1, <1>2, <1>3, StackShrinks
  <2> QED BY <2>1, LenProperties
<1> HIDE DEF b
<1>7. \A k \in 1..b - 1 : k + 1 \in 2..b
  BY <1>1
<1>8. Simple'
  <2>1. \A k \in 2..b : InHeader(stack[k])
    BY <1>1 DEF Simple
  <2>2. \A k \in 1..b - 1 : InHeader(t[k])
    BY <1>6, <1>7, <2>1
  <2> QED BY <1>6, <2>2 DEF Simple, t
<1>9. Held' \subseteq Rest
  <2>1. \A k \in 1..b - 1 : TokensOf(t[k].got) \subseteq Rest
    BY <1>4, <1>6, <1>7
  <2> QED BY <1>5, <1>6, <2>1
<1>10. Rest \subseteq Held'
  <2> SUFFICES ASSUME NEW k \in 2..b PROVE TokensOf(stack[k].got) \subseteq Held'
    BY <1>4
  <2> DEFINE j == k - 1
  <2>1. j \in 1..b - 1 /\ j + 1 = k
    BY <1>1
  <2> HIDE DEF j
  <2>2. t[j] = stack[k]
    BY <1>6, <2>1
  <2> QED BY <1>5, <1>6, <2>1, <2>2
<1>11. Quiet'
  <2>1. Top' = t[1]
    BY <1>6 DEF Top, t
  <2>2. t[1] = stack[2] /\ Awaits(stack[2], stack[1])
    <3> DEFINE k == 1 + 1
    <3>1. 1 \in 1..b - 1 /\ k = 2
      BY <1>1, <1>2
    <3>2. t[1] = stack[k] /\ Awaits(stack[k], stack[1])
      BY <1>1, <1>6, <3>1
    <3> HIDE DEF k
    <3> QED BY <3>1, <3>2
  <2>3. Top'.at \notin Reading
    BY <2>1, <2>2, AwaitingPlaces DEF Reading
  <2> QED BY <2>3 DEF Quiet
<1> QED BY <1>3, <1>8, <1>9, <1>10, <1>11

(* A step takes the result and the next tokens into the tree.              *)
LEMMA ClearGoes ==
  ASSUME IInv, Clear, NEW at, NEW got, NEW n, NEW C, NEW cs \in Seq(C), Go(at, got, cs, n),
         \A k \in 1..Len(cs) : InHeader(cs[k]) /\ cs[k].got = <<>>, InHeader(Moved(at, got)),
         NEW X, Signed', Spoken' = Spoken \cup X,
         Kept' \cup TokensOf(got) = Kept \cup TokensOf(Top.got) \cup TokensOf(result) \cup X
  PROVE  Clear'
<1>1. Simple /\ Kept \cup TokensOf(result) \cup Held = Spoken
  BY DEF Clear
<1>2. Simple' /\ Quiet' /\ Held' = TokensOf(got) \cup Rest /\ TokensOf(result') = {}
  BY <1>1, SimpleGoes
<1>3. Held = TokensOf(Top.got) \cup Rest
  BY HeldParts
<1>4. Kept' \cup TokensOf(result') \cup Held' = Spoken'
  BY <1>1, <1>2, <1>3
<1>5. (Kept \cup TokensOf(result) \cup Held = Spoken)'
  BY <1>4 DEF TokensOf
<1> QED BY <1>2, <1>5 DEF Clear

(* The declarations and the directives stay as they are.                   *)
LEMMA Keeps ==
  ASSUME Continue
  PROVE  Kept' = Kept /\ tokens' = tokens
BY DEF Continue, context, input, Kept, Declared, Listed

(* The function that goes on has taken the result into its node.           *)
LEMMA ClearStays ==
  ASSUME IInv, Clear, NEW at, NEW got, NEW n \in Nat, Go(at, got, <<>>, n), Continue,
         InHeader(Moved(at, got)), Unsigned(n),
         TokensOf(got) = TokensOf(Top.got) \cup TokensOf(result) \cup New(n)
  PROVE  Clear'
<1> DEFINE cs == <<>>
<1>1. cs \in Seq(Activation) /\ Len(cs) = 0 /\ Go(at, got, cs, n)
  OBVIOUS
<1>2. \A k \in 1..Len(cs) : InHeader(cs[k]) /\ cs[k].got = <<>>
  BY <1>1
<1>3. index' = index + n /\ Kept' = Kept /\ tokens' = tokens
  BY Keeps DEF Go
<1> HIDE DEF cs
<1>4. Signed' /\ Spoken' = Spoken \cup New(n)
  BY <1>3, StepsOver DEF Clear
<1>5. Kept' \cup TokensOf(got) = Kept \cup TokensOf(Top.got) \cup TokensOf(result) \cup New(n)
  BY <1>3
<1> QED BY <1>1, <1>2, <1>4, <1>5, ClearGoes

(* One that calls a type or a block.                                       *)
LEMMA ClearCalls ==
  ASSUME IInv, Clear, NEW at, NEW got, NEW n \in Nat, NEW c, Go(at, got, <<c>>, n), Continue,
         c.fn \in {"type", "block"}, c.at = "start", c.got = <<>>,
         InHeader(Moved(at, got)), Unsigned(n),
         TokensOf(got) = TokensOf(Top.got) \cup TokensOf(result) \cup New(n)
  PROVE  Clear'
<1> DEFINE cs == <<c>>
<1>1. cs \in Seq({c}) /\ Len(cs) = 1 /\ cs[1] = c /\ Go(at, got, cs, n)
  OBVIOUS
<1> HIDE DEF cs
<1>2. InHeader(c)
  BY DEF InHeader, HeaderFn
<1>3. \A k \in 1..Len(cs) : InHeader(cs[k]) /\ cs[k].got = <<>>
  BY <1>1, <1>2
<1>4. index' = index + n /\ Kept' = Kept /\ tokens' = tokens
  BY Keeps DEF Go
<1>5. Signed' /\ Spoken' = Spoken \cup New(n)
  BY <1>4, StepsOver DEF Clear
<1>6. Kept' \cup TokensOf(got) = Kept \cup TokensOf(Top.got) \cup TokensOf(result) \cup New(n)
  BY <1>4
<1> QED BY <1>1, <1>3, <1>5, <1>6, ClearGoes

(* A function that returns has taken the result into its node.             *)
LEMMA ClearReturns ==
  ASSUME IInv, Clear, NEW node, NEW n \in Nat, Return(node, n), Continue,
         Top.fn # "top_level_decl", Unsigned(n),
         TokensOf(node) = TokensOf(Top.got) \cup TokensOf(result) \cup New(n)
  PROVE  Clear'
<1>1. Simple /\ Kept \cup TokensOf(result) \cup Held = Spoken
  BY DEF Clear
<1>2. Simple' /\ Quiet' /\ Held' = Rest /\ result' = node /\ index' = index + n
  BY <1>1, SimpleReturns
<1>3. Held = TokensOf(Top.got) \cup Rest /\ Kept' = Kept /\ tokens' = tokens
  BY HeldParts, Keeps
<1>4. Signed' /\ Spoken' = Spoken \cup New(n)
  BY <1>2, <1>3, StepsOver DEF Clear
<1>5. Kept' \cup TokensOf(node) \cup Held' = Spoken'
  BY <1>1, <1>2, <1>3, <1>4
<1>6. TokensOf(result)' = TokensOf(node)
  BY <1>2 DEF TokensOf
<1> QED BY <1>2, <1>4, <1>5, <1>6 DEF Clear

(* Nothing moves.                                                          *)
LEMMA ClearStops ==
  ASSUME Clear, UNCHANGED <<input, index, stack, result, directive_list, decls>>
  PROVE  Clear'
BY DEF Clear, input, Simple, Quiet, Top, Signed, Kept, Declared, Listed, Held, Spoken, Speaks,
   TokensOf

-----------------------------------------------------------------------------
(* The steps of a header and of an empty body.                             *)

(* The function of the innermost activation, moved on.                     *)
LEMMA MovedInHeader ==
  ASSUME IInv, NEW at, NEW got, Top.fn \in HeaderFn,
         Top.fn = "block" => at = "statements", at = "start" => Top.fn \notin {"fn_proto", "block"}
  PROVE  InHeader(Moved(at, got))
BY MovedFields DEF InHeader

(* What is known where the next token is read.                             *)
LEMMA QuietReads ==
  ASSUME IInv, Clear, Top.at \in Reading
  PROVE  /\ result = <<>> /\ TokensOf(result) = {}
         /\ Top.at = "start" /\ Top.fn \in {"fn_proto", "block"} => TokensOf(Top.got) = {}
<1>1. 1 \in DOMAIN stack /\ Top = stack[1]
  BY TopFacts, LenProperties
<1>2. InHeader(Top) /\ result = <<>>
  BY <1>1 DEF Clear, Simple, Quiet
<1> QED BY <1>2 DEF InHeader, TokensOf

(* The tokens that are expected are there.                                 *)
LEMMA Found ==
  ASSUME NEW ids, Expects(ids), NEW k \in 1..Len(ids)
  PROVE  tokens[index + k - 1] = ids[k]
BY DEF Expects, Mismatches

(* ast_parse_fn_def puts the header and the body into one node.            *)
LEMMA FnDefClear ==
  ASSUME IInv, Clear, FnBody \/ EndFnDef
  PROVE  Clear'
<1>1. Top.fn = "fn_def" /\ Top.at \in {"proto", "body"}
  BY DEF FnBody, EndFnDef, Active
<1>2. CASE FnBody
  <2> DEFINE c == Frame("block", "start", TRUE, index)
  <2>1. Go("body", result, <<c>>, 0) /\ Continue /\ Top.at = "proto"
    BY <1>2 DEF FnBody, Active
  <2>2. c.fn \in {"type", "block"} /\ c.at = "start" /\ c.got = <<>>
    BY DEF Frame
  <2> HIDE DEF c
  <2>3. Top.got = <<>>
    BY <2>1, TopFacts DEF FrameOK
  <2>4. InHeader(Moved("body", result))
    BY <1>1, MovedInHeader DEF HeaderFn
  <2>5. TokensOf(result) = TokensOf(Top.got) \cup TokensOf(result) \cup New(0) /\ Unsigned(0)
    BY <2>3, TokensAdded, NewTokens
  <2> QED BY <2>1, <2>2, <2>4, <2>5, ClearCalls
<1>3. CASE EndFnDef
  <2> DEFINE g == Top.got \o result
  <2>1. Return(g, 0) /\ Continue
    BY <1>3 DEF EndFnDef
  <2>2. TokensOf(g) = TokensOf(Top.got) \cup TokensOf(result) \cup New(0) /\ Unsigned(0)
    BY TokensAdded, NewTokens
  <2> HIDE DEF g
  <2> QED BY <1>1, <2>1, <2>2, ClearReturns
<1> QED BY <1>2, <1>3

(* The parameters and the return type.                                     *)
LEMMA ParamsClear ==
  ASSUME IInv, Clear, NoParams \/ ParamDecl \/ EndParam
  PROVE  Clear'
<1>1. Top.fn = "fn_proto" /\ Top.fn \in HeaderFn
  BY DEF NoParams, ParamDecl, EndParam, Active, HeaderFn
<1>2. CASE NoParams
  <2>1. Go("arrow", Top.got, <<>>, 1) /\ Continue /\ Token = "RParen" /\ Top.at \in Reading
    BY <1>2 DEF NoParams, Active, Reading
  <2>2. TokensOf(Top.got) = TokensOf(Top.got) \cup TokensOf(result) \cup New(1) /\ Unsigned(1)
    BY <2>1, QuietReads, NewTokens DEF Silent
  <2>3. InHeader(Moved("arrow", Top.got))
    BY <1>1, MovedInHeader
  <2> QED BY <2>1, <2>2, <2>3, ClearStays
<1>3. CASE ParamDecl
  <2> DEFINE ids == <<"Symbol", "Colon">>
             c == Frame("type", "start", TRUE, index + 2)
             g == Top.got \o <<index>>
  <2>1. IF Expects(ids) THEN Go("param", g, <<c>>, 2) /\ Continue ELSE FailAtFirst(ids)
    BY <1>3 DEF ParamDecl
  <2>2. Top.at \in Reading
    BY <1>3 DEF ParamDecl, Active, Reading
  <2>3. CASE ~Expects(ids)
    BY <2>1, <2>3, ClearStops DEF FailAtFirst, Fail
  <2>4. CASE Expects(ids)
    <3>1. Go("param", g, <<c>>, 2) /\ Continue
      BY <2>1, <2>4
    <3>2. Token = "Symbol" /\ tokens[index + 1] = "Colon"
      <4>1. 1 \in 1..Len(ids) /\ 2 \in 1..Len(ids) /\ ids[1] = "Symbol" /\ ids[2] = "Colon"
        OBVIOUS
      <4> HIDE DEF ids
      <4>2. tokens[index + 1 - 1] = "Symbol" /\ tokens[index + 2 - 1] = "Colon"
        BY <2>4, <4>1, Found
      <4>3. index + 1 - 1 = index /\ index + 2 - 1 = index + 1
        BY TopFacts
      <4> QED BY <4>2, <4>3 DEF Token
    <3>3. c.fn \in {"type", "block"} /\ c.at = "start" /\ c.got = <<>>
      BY DEF Frame
    <3>4. TokensOf(g) = TokensOf(Top.got) \cup TokensOf(result) \cup New(2) /\ Unsigned(2)
      <4>1. New(2) = {index} /\ Unsigned(2)
        BY <3>2, NewTokens DEF Silent
      <4> QED BY <2>2, <4>1, QuietReads, TokensAdded
    <3> HIDE DEF c, g
    <3>5. InHeader(Moved("param", g))
      BY <1>1, MovedInHeader
    <3> QED BY <3>1, <3>3, <3>4, <3>5, ClearCalls
  <2> QED BY <2>3, <2>4
<1>4. CASE EndParam
  <2> DEFINE g == Top.got \o result
  <2>1. \/ \E at \in {"arrow", "next_param"} :
             Go(at, g, <<>>, 1) /\ Continue /\ Token \in {"RParen", "Comma"}
        \/ Fail(index)
    BY <1>4 DEF EndParam
  <2>2. CASE Fail(index)
    BY <2>2, ClearStops DEF Fail
  <2>3. ASSUME NEW at \in {"arrow", "next_param"}, Go(at, g, <<>>, 1), Continue,
               Token \in {"RParen", "Comma"}
        PROVE  Clear'
    <3>1. TokensOf(g) = TokensOf(Top.got) \cup TokensOf(result) \cup New(1) /\ Unsigned(1)
      <4>1. New(1) = {} /\ Unsigned(1)
        BY <2>3, NewTokens DEF Silent
      <4> QED BY <4>1, TokensAdded
    <3> HIDE DEF g
    <3>2. InHeader(Moved(at, g))
      BY <1>1, MovedInHeader
    <3> QED BY <2>3, <3>1, <3>2, ClearStays
  <2> QED BY <2>1, <2>2, <2>3
<1> QED BY <1>2, <1>3, <1>4

(* The return type.                                                        *)
LEMMA ReturnTypeClear ==
  ASSUME IInv, Clear, Arrow \/ EndFnProto
  PROVE  Clear'
<1>1. Top.fn = "fn_proto" /\ Top.fn \in HeaderFn
  BY DEF Arrow, EndFnProto, Active, HeaderFn
<1>2. CASE Arrow
  <2>1. Top.at \in Reading
    BY <1>2 DEF Arrow, Active, Reading
  <2>2. CASE Token = "Arrow"
    <3> DEFINE c == Frame("type", "start", TRUE, index + 1)
    <3>1. Go("return_type", Top.got, <<c>>, 1) /\ Continue
      BY <1>2, <2>2 DEF Arrow
    <3>2. c.fn \in {"type", "block"} /\ c.at = "start" /\ c.got = <<>>
      BY DEF Frame
    <3> HIDE DEF c
    <3>3. TokensOf(Top.got) = TokensOf(Top.got) \cup TokensOf(result) \cup New(1) /\ Unsigned(1)
      BY <2>1, <2>2, QuietReads, NewTokens DEF Silent
    <3>4. InHeader(Moved("return_type", Top.got))
      BY <1>1, MovedInHeader
    <3> QED BY <3>1, <3>2, <3>3, <3>4, ClearCalls
  <2>3. CASE Token # "Arrow"
    <3>1. Return(Top.got, 0) /\ Continue
      BY <1>2, <2>3 DEF Arrow
    <3>2. TokensOf(Top.got) = TokensOf(Top.got) \cup TokensOf(result) \cup New(0) /\ Unsigned(0)
      BY <2>1, QuietReads, NewTokens
    <3> QED BY <1>1, <3>1, <3>2, ClearReturns
  <2> QED BY <2>2, <2>3
<1>3. CASE EndFnProto
  <2> DEFINE g == Top.got \o result
  <2>1. Return(g, 0) /\ Continue
    BY <1>3 DEF EndFnProto
  <2>2. TokensOf(g) = TokensOf(Top.got) \cup TokensOf(result) \cup New(0) /\ Unsigned(0)
    BY TokensAdded, NewTokens
  <2> HIDE DEF g
  <2> QED BY <1>1, <2>1, <2>2, ClearReturns
<1> QED BY <1>2, <1>3

(* Types.                                                                  *)
LEMMA TypeClear ==
  ASSUME IInv, Clear, PointerType \/ PrimitiveType
  PROVE  Clear'
<1>1. Top.fn = "type" /\ Top.fn \in HeaderFn /\ Top.at \in Reading
  BY DEF PointerType, PrimitiveType, Active, HeaderFn, Reading
<1>2. CASE PointerType
  <2> DEFINE g == Top.got \o <<index, index + 1>>
  <2>1. CASE tokens[index + 1] \in {"KeywordMut", "KeywordConst"}
    <3>1. Go("start", g, <<>>, 2) /\ Continue /\ Token = "Star"
      BY <1>2, <2>1 DEF PointerType
    <3>2. TokensOf(g) = TokensOf(Top.got) \cup TokensOf(result) \cup New(2) /\ Unsigned(2)
      <4>1. New(2) = {index} \cup {index + 1} /\ Unsigned(2)
        BY <2>1, <3>1, NewTokens DEF Silent
      <4> QED BY <1>1, <4>1, QuietReads, TokensAdded
    <3> HIDE DEF g
    <3>3. InHeader(Moved("start", g))
      BY <1>1, MovedInHeader
    <3> QED BY <3>1, <3>2, <3>3, ClearStays
  <2>2. CASE tokens[index + 1] \notin {"KeywordMut", "KeywordConst"}
    <3>1. Fail(index + 1)
      BY <1>2, <2>2 DEF PointerType
    <3> QED BY <3>1, ClearStops DEF Fail
  <2> QED BY <2>1, <2>2
<1>3. CASE PrimitiveType
  <2> DEFINE g == Top.got \o <<index>>
  <2>1. CASE Token \in {"KeywordUnreachable", "Symbol"}
    <3>1. Return(g, 1) /\ Continue
      BY <1>3, <2>1 DEF PrimitiveType
    <3>2. TokensOf(g) = TokensOf(Top.got) \cup TokensOf(result) \cup New(1) /\ Unsigned(1)
      <4>1. New(1) = {index} /\ Unsigned(1)
        BY <2>1, NewTokens DEF Silent
      <4> QED BY <1>1, <4>1, QuietReads, TokensAdded
    <3> HIDE DEF g
    <3> QED BY <1>1, <3>1, <3>2, ClearReturns
  <2>2. CASE Token \notin {"KeywordUnreachable", "Symbol"}
    <3>1. Fail(index)
      BY <1>3, <2>2 DEF PrimitiveType
    <3> QED BY <3>1, ClearStops DEF Fail
  <2> QED BY <2>1, <2>2
<1> QED BY <1>2, <1>3

(* A body with no statement.                                               *)
LEMMA BlockClear ==
  ASSUME IInv, Clear, BeginBlock \/ EndBlock
  PROVE  Clear'
<1>1. Top.fn = "block" /\ Top.fn \in HeaderFn /\ Top.at \in Reading
  BY DEF BeginBlock, EndBlock, Active, HeaderFn, Reading
<1>2. CASE BeginBlock
  <2> DEFINE g == <<index>>
  <2>1. TokensOf(Top.got) = {}
    BY <1>1, <1>2, QuietReads DEF BeginBlock, Active
  <2>2. CASE Token = "LBrace"
    <3>1. Go("statements", g, <<>>, 1) /\ Continue
      BY <1>2, <2>2 DEF BeginBlock
    <3>2. TokensOf(g) = TokensOf(Top.got) \cup TokensOf(result) \cup New(1) /\ Unsigned(1)
      <4>1. New(1) = {index} /\ Unsigned(1)
        BY <2>2, NewTokens DEF Silent
      <4> QED BY <1>1, <2>1, <4>1, QuietReads, TokensAdded
    <3> HIDE DEF g
    <3>3. InHeader(Moved("statements", g))
      BY <1>1, MovedInHeader
    <3> QED BY <3>1, <3>2, <3>3, ClearStays
  <2>3. CASE Token # "LBrace"
    <3>1. (Return(<<>>, 0) /\ Continue) \/ Fail(index)
      BY <1>2, <2>3 DEF BeginBlock, None
    <3>2. CASE Return(<<>>, 0) /\ Continue
      <4>1. TokensOf(<<>>) = TokensOf(Top.got) \cup TokensOf(result) \cup New(0) /\ Unsigned(0)
        BY <1>1, <2>1, QuietReads, TokensAdded, NewTokens
      <4> QED BY <1>1, <3>2, <4>1, ClearReturns
    <3>3. CASE Fail(index)
      BY <3>3, ClearStops DEF Fail
    <3> QED BY <3>1, <3>2, <3>3
  <2> QED BY <2>2, <2>3
<1>3. CASE EndBlock
  <2>1. Return(Top.got, 1) /\ Continue /\ Token = "RBrace"
    BY <1>3 DEF EndBlock
  <2>2. TokensOf(Top.got) = TokensOf(Top.got) \cup TokensOf(result) \cup New(1) /\ Unsigned(1)
    BY <1>1, <2>1, QuietReads, NewTokens DEF Silent
  <2> QED BY <1>1, <2>1, <2>2, ClearReturns
<1> QED BY <1>2, <1>3

-----------------------------------------------------------------------------
(* The steps of the loop.                                                  *)

(* The tokens of the declarations and of the directives.                   *)
Stored == UNION {TokensOf(s) : s \in Declared}

(* They are all that is kept.                                              *)
LEMMA KeptParts ==
  ASSUME IInv
  PROVE  /\ Lists(Top) => Kept = Stored \cup TokensOf(directive_list[1])
         /\ ~Lists(Top) => Kept = Stored
BY ListFacts DEF Kept, Stored

(* A declaration is stored.                                                *)
LEMMA Stores ==
  ASSUME IInv, NEW d, decls' = Append(decls, d), directive_list' = <<>>
  PROVE  Kept' = Stored \cup TokensOf(d)
<1> DEFINE a == Len(decls)
           S == Node \cup {d}
           t == decls'
<1>1. decls \in Seq(S) /\ DOMAIN decls = 1..a /\ a \in Nat
  <2>1. Node \subseteq S
    OBVIOUS
  <2> HIDE DEF S
  <2> QED BY <2>1, Widen, ListFacts
<1>2. /\ t \in Seq(S) /\ Len(t) = a + 1
      /\ \A k \in 1..a : t[k] = decls[k]
      /\ t[a + 1] = d
  <2>1. d \in S
    OBVIOUS
  <2> HIDE DEF S
  <2> QED BY <1>1, <2>1, AppendProperties
<1>3. DOMAIN t = 1..a + 1
  BY <1>2, LenProperties
<1>4. Declared' = {t[k] : k \in 1..a + 1} /\ Declared = {decls[k] : k \in 1..a}
  BY <1>1, <1>3 DEF Declared
<1> HIDE DEF a, S, t
<1>5. 1..a + 1 = 1..a \cup {a + 1}
  BY <1>1
<1>6. Declared' = Declared \cup {d}
  BY <1>1, <1>2, <1>4, <1>5
<1>7. Listed' = {}
  BY DEF Listed
<1>8. Kept' = UNION {TokensOf(s) : s \in Declared' \cup Listed'}
  BY DEF Kept, TokensOf
<1> QED BY <1>6, <1>7, <1>8 DEF Stored

(* The loop goes on to one of its places.                                  *)
LEMMA LoopClear ==
  ASSUME IInv, Clear, Top.fn = "top_level_decl", NEW at, NEW n \in Nat, Go(at, <<>>, <<>>, n),
         NEW X, Signed', Spoken' = Spoken \cup X, Kept' = Kept \cup TokensOf(result) \cup X
  PROVE  Clear'
<1> DEFINE cs == <<>>
           got == <<>>
<1>1. cs \in Seq(Activation) /\ Len(cs) = 0 /\ Go(at, got, cs, n)
  OBVIOUS
<1>2. \A k \in 1..Len(cs) : InHeader(cs[k]) /\ cs[k].got = <<>>
  BY <1>1
<1>3. TokensOf(got) = {} /\ TokensOf(Top.got) = {}
  BY StackOfTop DEF TokensOf
<1> HIDE DEF cs, got
<1>4. InHeader(Moved(at, got))
  BY MovedInHeader DEF HeaderFn
<1>5. Kept' \cup TokensOf(got) = Kept \cup TokensOf(Top.got) \cup TokensOf(result) \cup X
  BY <1>3
<1> QED BY <1>1, <1>2, <1>4, <1>5, ClearGoes

(* The loop begins a declaration, aborts, or has one to store.             *)
LEMMA DeclClear ==
  ASSUME IInv, Clear, BeginDecl \/ AssertionFails \/ AppendFnDef
  PROVE  Clear'
<1>1. Top.fn = "top_level_decl"
  BY DEF BeginDecl, AssertionFails, EndDirectives, AppendFnDef, Active
<1>2. CASE BeginDecl
  <2>1. /\ Top.at = "start" /\ directive_list' = << <<>> >>
        /\ Go("directives", <<>>, <<>>, 0) /\ tokens' = tokens /\ decls' = decls
        /\ index' = index + 0
    BY <1>2 DEF BeginDecl, Active, input, Go
  <2>2. Kept = Stored /\ TokensOf(result) = {}
    BY <1>1, <2>1, KeptParts, QuietReads DEF Lists, Reading
  <2>3. Kept' = Kept
    <3>1. Declared' = Declared /\ Listed' = {<<>>}
      BY <2>1 DEF Declared, Listed
    <3>2. Kept' = UNION {TokensOf(s) : s \in Declared \cup {<<>>}}
      BY <3>1 DEF Kept, TokensOf
    <3>3. TokensOf(<<>>) = {}
      BY DEF TokensOf
    <3> QED BY <2>2, <3>2, <3>3 DEF Stored
  <2>4. Signed' /\ Spoken' = Spoken \cup {}
    BY <2>1, StepsOver, NewTokens DEF Clear
  <2>5. Kept' = Kept \cup TokensOf(result) \cup {}
    BY <2>2, <2>3
  <2> QED BY <1>1, <2>1, <2>4, <2>5, LoopClear
<1>3. CASE AssertionFails
  BY <1>3, ClearStops DEF AssertionFails
<1>4. CASE AppendFnDef
  <2>1. /\ Top.at = "fn_def" /\ decls' = Append(decls, result) /\ directive_list' = directive_list
        /\ Go("start", <<>>, <<>>, 0) /\ tokens' = tokens /\ index' = index + 0
    BY <1>4 DEF AppendFnDef, Active, input, Go
  <2>2. Kept = Stored /\ directive_list' = <<>>
    BY <1>1, <2>1, KeptParts, ListFacts DEF Lists
  <2>3. Kept' = Stored \cup TokensOf(result)
    BY <2>1, <2>2, Stores
  <2>4. Signed' /\ Spoken' = Spoken \cup {}
    BY <2>1, StepsOver, NewTokens DEF Clear
  <2>5. Kept' = Kept \cup TokensOf(result) \cup {}
    BY <2>2, <2>3
  <2> QED BY <1>1, <2>1, <2>4, <2>5, LoopClear
<1> QED BY <1>2, <1>3, <1>4

(* A function definition is looked for.                                    *)
LEMMA CallFnDefClear ==
  ASSUME IInv, Clear, CallFnDef
  PROVE  Clear'
<1>1. Top.fn = "top_level_decl" /\ Top.at \in Reading
  BY DEF CallFnDef, EndDirectives, Active, Reading
<1> DEFINE p == Frame("fn_proto", "start", TRUE, index)
           c == Frame("fn_def", "proto", FALSE, index)
           cs == <<p, c>>
           got == <<>>
<1>2. Go("fn_def", got, cs, 0) /\ Continue
  BY DEF CallFnDef
<1>3. /\ p.fn = "fn_proto" /\ p.at = "start" /\ p.got = <<>>
      /\ c.fn = "fn_def" /\ c.at = "proto" /\ c.got = <<>>
  BY DEF Frame
<1> HIDE DEF p, c
<1>4. cs \in Seq({p, c}) /\ Len(cs) = 2 /\ cs[1] = p /\ cs[2] = c
  OBVIOUS
<1> HIDE DEF cs
<1>5. \A k \in 1..Len(cs) : InHeader(cs[k]) /\ cs[k].got = <<>>
  <2>1. \A k \in 1..2 : k = 1 \/ k = 2
    OBVIOUS
  <2>2. InHeader(p) /\ InHeader(c)
    BY <1>3 DEF InHeader, HeaderFn
  <2> QED BY <1>3, <1>4, <2>1, <2>2
<1>6. TokensOf(got) = {} /\ TokensOf(Top.got) = {} /\ TokensOf(result) = {}
  BY <1>1, StackOfTop, QuietReads DEF TokensOf
<1> HIDE DEF got
<1>7. InHeader(Moved("fn_def", got))
  BY <1>1, MovedInHeader DEF HeaderFn
<1>8. index' = index + 0 /\ Kept' = Kept /\ tokens' = tokens
  BY <1>2, Keeps DEF Go
<1>9. Signed' /\ Spoken' = Spoken \cup {}
  BY <1>8, StepsOver, NewTokens DEF Clear
<1>10. Kept' \cup TokensOf(got) = Kept \cup TokensOf(Top.got) \cup TokensOf(result) \cup {}
  BY <1>6, <1>8
<1> QED BY <1>2, <1>4, <1>5, <1>7, <1>9, <1>10, ClearGoes

-----------------------------------------------------------------------------
(* A directive is read: its name says something, its parameter is dropped. *)
LEMMA StepsOverDirective ==
  ASSUME IInv, Signed, index' = index + 4, tokens' = tokens, tokens[index] = "NumberSign",
         tokens[index + 1] = "Symbol", tokens[index + 2] = "LParen",
         tokens[index + 3] = "StringLiteral"
  PROVE  Signed' /\ Spoken' = Spoken \cup {index + 1}
<1>1. index \in Nat /\ index >= 1
  BY TopFacts
<1>2. \A k \in 1..index - 1 : tokens[k] = "NumberSign" => k + 3 < index
  BY DEF Signed
<1>3. \A k \in 1..index + 3 : \/ k \in 1..index - 1 \/ k = index \/ k = index + 1
                              \/ k = index + 2 \/ k = index + 3
  BY <1>1
<1>4. \A k \in 1..index + 3 : tokens[k] = "NumberSign" => k + 3 < index \/ k = index
  BY <1>2, <1>3
<1>5. Signed'
  <2>1. \A k \in 1..index + 3 : tokens[k] = "NumberSign" => k + 3 < index + 4
    BY <1>1, <1>4
  <2> DEFINE j == index'
  <2>2. j = index + 4 /\ j - 1 = index + 3
    BY <1>1
  <2>3. Signed' <=> \A k \in 1..j - 1 : tokens[k] = "NumberSign" => k + 3 < j
    BY DEF Signed
  <2> HIDE DEF j
  <2> QED BY <2>1, <2>2, <2>3
<1>6. ~Speaks(index) /\ ~Speaks(index + 2)
  BY DEF Speaks, Silent
<1>7. ~Speaks(index + 3)
  <2>1. (index + 3) - 3 = index /\ index + 3 > 3
    BY <1>1
  <2> DEFINE k == index + 3
  <2>2. k - 3 = index /\ k > 3
    BY <2>1
  <2> HIDE DEF k
  <2>3. ~Speaks(k)
    BY <2>2 DEF Speaks
  <2> QED BY <2>3 DEF k
<1>8. Speaks(index + 1)
  <2> DEFINE k == index + 1
  <2> SUFFICES ASSUME k > 3, tokens[k - 3] = "NumberSign" PROVE FALSE
    BY DEF Speaks, Silent
  <2> DEFINE h == k - 3
  <2>1. h \in 1..index + 3 /\ h + 3 = index + 1 /\ h # index
    BY <1>1
  <2>2. tokens[h] = "NumberSign"
    OBVIOUS
  <2> HIDE DEF h
  <2>3. h + 3 < index
    BY <1>4, <2>1, <2>2
  <2> QED BY <1>1, <2>1, <2>3
<1>9. \A k : Speaks(k)' <=> Speaks(k)
  BY DEF Speaks
<1>10. Spoken' = {k \in 1..index + 3 : Speaks(k)}
  <2> DEFINE j == index'
  <2>1. j - 1 = index + 3
    BY <1>1
  <2>2. Spoken' = {k \in 1..j - 1 : Speaks(k)}
    BY <1>9 DEF Spoken
  <2> HIDE DEF j
  <2> QED BY <2>1, <2>2
<1>11. 1..index - 1 \subseteq 1..index + 3 /\ index + 1 \in 1..index + 3
  BY <1>1
<1>12. {k \in 1..index + 3 : Speaks(k)} = {k \in 1..index - 1 : Speaks(k)} \cup {index + 1}
  BY <1>3, <1>6, <1>7, <1>8, <1>11
<1> QED BY <1>5, <1>10, <1>12 DEF Spoken

(* The list that pc has gets the name of the directive.                    *)
LEMMA DirectiveClear ==
  ASSUME IInv, Clear, Directive
  PROVE  Clear'
<1>1. Top.fn = "top_level_decl" /\ Top.at \in Reading /\ Lists(Top)
  BY DEF Directive, Active, Lists, Reading
<1>2. index \in Nat /\ directive_list[1] \in Node
  BY <1>1, ListFacts, TopFacts
<1> DEFINE ids == DirectiveIds
           g == directive_list[1]
           u == Append(g, index + 1)
<1>3. /\ Len(ids) = 4 /\ ids[1] = "NumberSign" /\ ids[2] = "Symbol" /\ ids[3] = "LParen"
      /\ ids[4] = "StringLiteral"
  BY DEF DirectiveIds
<1>4. IF Expects(ids)
      THEN /\ directive_list' = <<u>> /\ Go("directives", <<>>, <<>>, Len(ids))
           /\ UNCHANGED <<input, decls, outcome, blamed>>
      ELSE FailAtFirst(ids)
  BY DEF Directive
<1> HIDE DEF ids, u
<1>5. CASE ~Expects(ids)
  BY <1>4, <1>5, ClearStops DEF FailAtFirst, Fail
<1>6. CASE Expects(ids)
  <2>1. /\ directive_list' = <<u>> /\ Go("directives", <<>>, <<>>, 4) /\ tokens' = tokens
        /\ decls' = decls /\ index' = index + 4
    BY <1>3, <1>4, <1>6 DEF input, Go
  <2>2. /\ tokens[index] = "NumberSign" /\ tokens[index + 1] = "Symbol"
        /\ tokens[index + 2] = "LParen" /\ tokens[index + 3] = "StringLiteral"
    <3>1. /\ tokens[index + 1 - 1] = ids[1] /\ tokens[index + 2 - 1] = ids[2]
          /\ tokens[index + 3 - 1] = ids[3] /\ tokens[index + 4 - 1] = ids[4]
      <4>1. 1 \in 1..Len(ids) /\ 2 \in 1..Len(ids) /\ 3 \in 1..Len(ids) /\ 4 \in 1..Len(ids)
        BY <1>3
      <4> QED BY <1>6, <4>1, Found
    <3>2. /\ index + 1 - 1 = index /\ index + 2 - 1 = index + 1
          /\ index + 3 - 1 = index + 2 /\ index + 4 - 1 = index + 3
      BY <1>2
    <3> QED BY <1>3, <3>1, <3>2
  <2>3. Signed' /\ Spoken' = Spoken \cup {index + 1}
    BY <2>1, <2>2, StepsOverDirective DEF Clear
  <2>4. TokensOf(u) = TokensOf(g) \cup {index + 1}
    <3> DEFINE x == index + 1
               t == <<x>>
    <3>1. g \in Seq(Nat) /\ x \in Nat
      <4>1. 1..Len(tokens) \subseteq Nat /\ g \in Seq(1..Len(tokens))
        BY <1>2 DEF Node
      <4> QED BY <1>2, <4>1, Widen
    <3>2. t \in Seq(Nat) /\ TokensOf(t) = {x}
      BY <3>1 DEF TokensOf
    <3>3. u = g \o t
      BY <3>1, AppendIsConcat DEF u
    <3> HIDE DEF t
    <3>4. TokensOf(g \o t) = TokensOf(g) \cup TokensOf(t)
      BY <3>1, <3>2, TokensJoined
    <3> QED BY <3>2, <3>3, <3>4
  <2>5. Kept = Stored \cup TokensOf(g) /\ TokensOf(result) = {}
    BY <1>1, KeptParts, QuietReads
  <2>6. Kept' = Stored \cup TokensOf(u)
    <3>1. Declared' = Declared /\ Listed' = {u}
      BY <2>1 DEF Declared, Listed
    <3>2. Kept' = UNION {TokensOf(s) : s \in Declared \cup {u}}
      BY <3>1 DEF Kept, TokensOf
    <3> QED BY <3>2 DEF Stored
  <2>7. Kept' = Kept \cup TokensOf(result) \cup {index + 1}
    BY <2>4, <2>5, <2>6
  <2> QED BY <1>1, <2>1, <2>3, <2>7, LoopClear
<1> QED BY <1>5, <1>6

(* A root export is stored with its directives.                            *)
LEMMA RootExportClear ==
  ASSUME IInv, Clear, RootExport
  PROVE  Clear'
<1>1. Top.fn = "top_level_decl" /\ Top.at \in Reading /\ Lists(Top)
  BY DEF RootExport, EndDirectives, Active, Lists, Reading
<1>2. index \in Nat /\ directive_list[1] \in Node
  BY <1>1, ListFacts, TopFacts
<1> DEFINE ids == RootExportIds
           g == directive_list[1]
           t == <<index, index + 1, index + 2>>
           u == g \o t
<1>3. /\ Len(ids) = 4 /\ ids[1] = "KeywordExport" /\ ids[2] = "Symbol" /\ ids[3] = "StringLiteral"
      /\ ids[4] = "Semicolon"
  BY DEF RootExportIds
<1>4. IF Expects(ids)
      THEN /\ decls' = Append(decls, u) /\ directive_list' = <<>>
           /\ Go("start", <<>>, <<>>, Len(ids))
           /\ UNCHANGED <<input, outcome, blamed>>
      ELSE FailAtFirst(ids)
  BY DEF RootExport, TakeDirectives, DropDirectives
<1> HIDE DEF ids, u
<1>5. CASE ~Expects(ids)
  BY <1>4, <1>5, ClearStops DEF FailAtFirst, Fail
<1>6. CASE Expects(ids)
  <2>1. /\ decls' = Append(decls, u) /\ directive_list' = <<>>
        /\ Go("start", <<>>, <<>>, 4) /\ tokens' = tokens /\ index' = index + 4
    BY <1>3, <1>4, <1>6 DEF input, Go
  <2>2. /\ tokens[index] = "KeywordExport" /\ tokens[index + 1] = "Symbol"
        /\ tokens[index + 2] = "StringLiteral" /\ tokens[index + 3] = "Semicolon"
    <3>1. /\ tokens[index + 1 - 1] = ids[1] /\ tokens[index + 2 - 1] = ids[2]
          /\ tokens[index + 3 - 1] = ids[3] /\ tokens[index + 4 - 1] = ids[4]
      <4>1. 1 \in 1..Len(ids) /\ 2 \in 1..Len(ids) /\ 3 \in 1..Len(ids) /\ 4 \in 1..Len(ids)
        BY <1>3
      <4> QED BY <1>6, <4>1, Found
    <3>2. /\ index + 1 - 1 = index /\ index + 2 - 1 = index + 1
          /\ index + 3 - 1 = index + 2 /\ index + 4 - 1 = index + 3
      BY <1>2
    <3> QED BY <1>3, <3>1, <3>2
  <2> DEFINE X == {index, index + 1, index + 2}
  <2>3. New(4) = X /\ Unsigned(4)
    <3>1. index..index + 4 - 1 = {index, index + 1, index + 2, index + 3}
      BY <1>2
    <3>2. New(4) = {k \in {index, index + 1, index + 2, index + 3} : tokens[k] \notin Silent}
      BY <3>1 DEF New
    <3>3. /\ tokens[index] \notin Silent /\ tokens[index + 1] \notin Silent
          /\ tokens[index + 2] \notin Silent /\ tokens[index + 3] \in Silent
      BY <2>2 DEF Silent
    <3>4. New(4) = X
      BY <3>2, <3>3
    <3>5. Unsigned(4)
      BY <2>2, <3>1 DEF Unsigned
    <3> QED BY <3>4, <3>5
  <2>4. Signed' /\ Spoken' = Spoken \cup X
    BY <2>1, <2>3, StepsOver DEF Clear
  <2>5. TokensOf(u) = TokensOf(g) \cup X
    <3>1. g \in Seq(Nat)
      <4>1. 1..Len(tokens) \subseteq Nat /\ g \in Seq(1..Len(tokens))
        BY <1>2 DEF Node
      <4> QED BY <4>1, Widen
    <3>2. t \in Seq(Nat) /\ DOMAIN t = 1..3 /\ t[1] = index /\ t[2] = index + 1 /\ t[3] = index + 2
      BY <1>2
    <3>3. 1..3 = {1, 2, 3}
      OBVIOUS
    <3> HIDE DEF t
    <3>4. TokensOf(t) = X
      BY <3>2, <3>3 DEF TokensOf
    <3>5. TokensOf(g \o t) = TokensOf(g) \cup TokensOf(t)
      BY <3>1, <3>2, TokensJoined
    <3> QED BY <3>4, <3>5 DEF u
  <2>6. Kept = Stored \cup TokensOf(g) /\ TokensOf(result) = {}
    BY <1>1, KeptParts, QuietReads
  <2>7. Kept' = Stored \cup TokensOf(u)
    BY <2>1, Stores
  <2>8. Kept' = Kept \cup TokensOf(result) \cup X
    BY <2>5, <2>6, <2>7
  <2> HIDE DEF X
  <2> QED BY <1>1, <2>1, <2>4, <2>8, LoopClear
<1> QED BY <1>5, <1>6

(* A header takes the directives, its visibility and its name.             *)
LEMMA HeaderClear ==
  ASSUME IInv, Clear, Header
  PROVE  Clear'
<1>1. Top.fn = "fn_proto" /\ Top.at = "start" /\ Top.at \in Reading /\ Lists(Top)
      /\ Top.fn \in HeaderFn
  BY DEF Header, Active, Lists, Reading, HeaderFn
<1>2. index \in Nat /\ directive_list[1] \in Node
  BY <1>1, ListFacts, TopFacts
<1> DEFINE ids == HeaderIds
           n == Len(ids)
           v == Len(Visibility)
           g == directive_list[1]
           visib_mod == [k \in 1..v |-> index]
           name == index + n - 2
           t == <<name>>
           u == g \o visib_mod \o t
           X == New(n)
<1>3. IF Expects(ids)
      THEN /\ Go("params", u, <<>>, n) /\ directive_list' = <<>>
           /\ UNCHANGED <<input, decls, outcome, blamed>>
      ELSE FailAtFirst(ids)
  BY DEF Header, TakeDirectives, DropDirectives
<1>4. u = (g \o visib_mod) \o t
  OBVIOUS
<1> HIDE DEF u
<1>5. CASE ~Expects(ids)
  BY <1>3, <1>5, ClearStops DEF FailAtFirst, Fail
<1>6. CASE Expects(ids)
  <2>1. /\ n \in Nat /\ Unsigned(n) /\ name \in Nat /\ v \in Nat
        /\ X = TokensOf(visib_mod) \cup TokensOf(t)
    <3>1. CASE Token \in {"KeywordPub", "KeywordExport"}
      <4>1. Visibility = <<Token>> /\ v = 1
        BY <3>1 DEF Visibility
      <4>2. /\ Len(ids) = 4 /\ ids[2] = "KeywordFn" /\ ids[3] = "Symbol" /\ ids[4] = "LParen"
        <5> DEFINE F == <<"KeywordFn", "Symbol", "LParen">>
                   S == {Token, "KeywordFn", "Symbol", "LParen"}
        <5>1. F \in Seq(S) /\ Len(F) = 3 /\ F[1] = "KeywordFn" /\ F[2] = "Symbol" /\ F[3] = "LParen"
          OBVIOUS
        <5>2. Visibility \in Seq(S) /\ Len(Visibility) = 1 /\ ids = Visibility \o F
          BY <4>1 DEF HeaderIds
        <5> HIDE DEF F, S, ids
        <5>3. /\ Len(ids) = 1 + 3
              /\ \A i \in 1..1 + 3 : ids[i] = IF i <= 1 THEN Visibility[i] ELSE F[i - 1]
          <6>1. Visibility \in Seq(S) /\ F \in Seq(S)
            BY <5>1, <5>2
          <6>2. /\ Len(ids) = Len(Visibility) + Len(F)
                /\ \A i \in 1..Len(Visibility) + Len(F) :
                     ids[i] = IF i <= Len(Visibility) THEN Visibility[i]
                                                     ELSE F[i - Len(Visibility)]
            BY <5>2, <6>1, ConcatProperties
          <6> QED BY <5>1, <5>2, <6>2
        <5> QED BY <5>1, <5>3
      <4>3. /\ tokens[index + 1] = "KeywordFn" /\ tokens[index + 2] = "Symbol"
            /\ tokens[index + 3] = "LParen"
        <5>1. /\ tokens[index + 2 - 1] = ids[2] /\ tokens[index + 3 - 1] = ids[3]
              /\ tokens[index + 4 - 1] = ids[4]
          <6>1. 2 \in 1..Len(ids) /\ 3 \in 1..Len(ids) /\ 4 \in 1..Len(ids)
            BY <4>2
          <6> HIDE DEF ids
          <6> QED BY <1>6, <6>1, Found
        <5>2. /\ index + 2 - 1 = index + 1 /\ index + 3 - 1 = index + 2
              /\ index + 4 - 1 = index + 3
          BY <1>2
        <5> QED BY <4>2, <5>1, <5>2
      <4>4. n = 4 /\ name = index + 2
        BY <1>2, <4>2
      <4>5. index..index + 4 - 1 = {index, index + 1, index + 2, index + 3}
        BY <1>2
      <4>6. New(4) = {index, index + 2} /\ Unsigned(4)
        <5>1. New(4) = {k \in {index, index + 1, index + 2, index + 3} : tokens[k] \notin Silent}
          BY <4>5 DEF New
        <5>2. /\ tokens[index] \notin Silent /\ tokens[index + 1] \in Silent
              /\ tokens[index + 2] \notin Silent /\ tokens[index + 3] \in Silent
          BY <3>1, <4>3 DEF Silent, Token
        <5>3. New(4) = {index, index + 2}
          BY <5>1, <5>2
        <5>4. Unsigned(4)
          BY <3>1, <4>3, <4>5 DEF Unsigned, Token
        <5> QED BY <5>3, <5>4
      <4>7. TokensOf(visib_mod) = {index} /\ TokensOf(t) = {name}
        <5>1. DOMAIN visib_mod = {1} /\ visib_mod[1] = index
          BY <4>1
        <5>2. DOMAIN t = {1} /\ t[1] = name
          OBVIOUS
        <5> HIDE DEF visib_mod, t, name
        <5> QED BY <5>1, <5>2 DEF TokensOf
      <4> HIDE DEF visib_mod, t
      <4> QED BY <1>2, <4>1, <4>4, <4>6, <4>7
    <3>2. CASE Token \notin {"KeywordPub", "KeywordExport"}
      <4>1. Visibility = <<>> /\ v = 0
        BY <3>2 DEF Visibility
      <4>2. /\ Len(ids) = 3 /\ ids[1] = "KeywordFn" /\ ids[2] = "Symbol" /\ ids[3] = "LParen"
        <5>1. ids = <<"KeywordFn", "Symbol", "LParen">>
          BY <4>1 DEF HeaderIds
        <5> QED BY <5>1
      <4>3. /\ tokens[index] = "KeywordFn" /\ tokens[index + 1] = "Symbol"
            /\ tokens[index + 2] = "LParen"
        <5>1. /\ tokens[index + 1 - 1] = ids[1] /\ tokens[index + 2 - 1] = ids[2]
              /\ tokens[index + 3 - 1] = ids[3]
          <6>1. 1 \in 1..Len(ids) /\ 2 \in 1..Len(ids) /\ 3 \in 1..Len(ids)
            BY <4>2
          <6> HIDE DEF ids
          <6> QED BY <1>6, <6>1, Found
        <5>2. /\ index + 1 - 1 = index /\ index + 2 - 1 = index + 1
              /\ index + 3 - 1 = index + 2
          BY <1>2
        <5> QED BY <4>2, <5>1, <5>2
      <4>4. n = 3 /\ name = index + 1
        BY <1>2, <4>2
      <4>5. index..index + 3 - 1 = {index, index + 1, index + 2}
        BY <1>2
      <4>6. New(3) = {index + 1} /\ Unsigned(3)
        <5>1. New(3) = {k \in {index, index + 1, index + 2} : tokens[k] \notin Silent}
          BY <4>5 DEF New
        <5>2. /\ tokens[index] \in Silent /\ tokens[index + 1] \notin Silent
              /\ tokens[index + 2] \in Silent
          BY <4>3 DEF Silent
        <5>3. New(3) = {index + 1}
          BY <5>1, <5>2
        <5>4. Unsigned(3)
          BY <4>3, <4>5 DEF Unsigned
        <5> QED BY <5>3, <5>4
      <4>7. TokensOf(visib_mod) = {} /\ TokensOf(t) = {name}
        <5>1. DOMAIN visib_mod = {}
          BY <4>1
        <5>2. DOMAIN t = {1} /\ t[1] = name
          OBVIOUS
        <5> HIDE DEF visib_mod, t, name
        <5> QED BY <5>1, <5>2 DEF TokensOf
      <4> HIDE DEF visib_mod, t
      <4> QED BY <1>2, <4>1, <4>4, <4>6, <4>7
    <3> QED BY <3>1, <3>2
  <2>2. visib_mod \in Seq(Nat) /\ t \in Seq(Nat) /\ g \in Seq(Nat)
    <3>1. t \in Seq(Nat)
      BY <2>1
    <3>2. visib_mod \in Seq(Nat)
      BY <1>2, <2>1
    <3>3. 1..Len(tokens) \subseteq Nat /\ g \in Seq(1..Len(tokens))
      BY <1>2 DEF Node
    <3> QED BY <3>1, <3>2, <3>3, Widen
  <2>3. /\ Go("params", u, <<>>, n) /\ directive_list' = <<>> /\ decls' = decls /\ tokens' = tokens
        /\ index' = index + n
    BY <1>3, <1>6 DEF input, Go
  <2> HIDE DEF visib_mod, t, g, n, X
  <2>4. TokensOf(u) = TokensOf(g) \cup X
    <3> DEFINE w == g \o visib_mod
    <3>1. w \in Seq(Nat) /\ TokensOf(w) = TokensOf(g) \cup TokensOf(visib_mod)
      BY <2>2, TokensJoined, ConcatProperties
    <3>2. u = w \o t
      BY <1>4
    <3> HIDE DEF w
    <3>3. TokensOf(w \o t) = TokensOf(w) \cup TokensOf(t)
      BY <2>2, <3>1, TokensJoined
    <3> QED BY <2>1, <3>1, <3>2, <3>3
  <2>5. Signed' /\ Spoken' = Spoken \cup X
    BY <2>1, <2>3, StepsOver DEF Clear, X
  <2>6. Kept = Stored \cup TokensOf(g) /\ TokensOf(result) = {} /\ TokensOf(Top.got) = {}
    BY <1>1, KeptParts, QuietReads DEF g
  <2>7. Kept' = Stored
    <3>1. Declared' = Declared /\ Listed' = {}
      BY <2>3 DEF Declared, Listed
    <3>2. Kept' = UNION {TokensOf(s) : s \in Declared}
      BY <3>1 DEF Kept, TokensOf
    <3> QED BY <3>2 DEF Stored
  <2>8. Kept' \cup TokensOf(u) = Kept \cup TokensOf(Top.got) \cup TokensOf(result) \cup X
    BY <2>4, <2>6, <2>7
  <2>9. InHeader(Moved("params", u))
    BY <1>1, MovedInHeader
  <2> DEFINE cs == <<>>
  <2>10. cs \in Seq(Activation) /\ Len(cs) = 0 /\ Go("params", u, cs, n)
    BY <2>3
  <2>11. \A k \in 1..Len(cs) : InHeader(cs[k]) /\ cs[k].got = <<>>
    BY <2>10
  <2> HIDE DEF cs
  <2> QED BY <2>5, <2>8, <2>9, <2>10, <2>11, ClearGoes
<1> QED BY <1>5, <1>6

-----------------------------------------------------------------------------
(* The tree.                                                               *)

(* Until a statement is begun only the loop, a header or an empty body     *)
(* makes a step.                                                           *)
LEMMA ClearSteps ==
  ASSUME IInv, Next, Clear
  PROVE  Statement \/ ((TopLevel \/ Fn \/ BeginBlock \/ EndBlock) /\ Clear')
<1>1. Top.fn \in HeaderFn /\ (Top.fn = "block" => Top.at # "semicolon")
  <2>1. 1 \in DOMAIN stack /\ Top = stack[1]
    BY TopFacts, LenProperties
  <2> QED BY <2>1 DEF Clear, Simple, InHeader
<1>2. TopLevel \/ Fn \/ BeginBlock \/ Statement \/ EndBlock
  BY <1>1, HeaderSteps DEF EndStatement, Active
<1>3. CASE TopLevel
  BY <1>3, DeclClear, DirectiveClear, RootExportClear, CallFnDefClear DEF TopLevel
<1>4. CASE Fn
  BY <1>4, FnDefClear, HeaderClear, ParamsClear, ReturnTypeClear, TypeClear DEF Fn
<1>5. CASE BeginBlock \/ EndBlock
  BY <1>5, BlockClear
<1> QED BY <1>2, <1>3, <1>4, <1>5

(* A header and an empty body are taken into the tree, and a statement     *)
(* that is begun is never done.                                            *)
LEMMA CoveredStays ==
  ASSUME IInv, Next, Covered
  PROVE  Covered'
<1>1. CASE Stuck
  BY <1>1, StuckStays DEF Covered
<1>2. CASE Clear
  BY <1>2, ClearSteps, StatementSticks DEF Covered
<1> QED BY <1>1, <1>2 DEF Covered

(* Nothing is stepped over at first.                                       *)
LEMMA CoveredAtFirst ==
  ASSUME Init
  PROVE  Covered
<1> DEFINE f == Frame("top_level_decl", "start", FALSE, 1)
<1>1. /\ index = 1 /\ stack = <<f>> /\ result = <<>> /\ directive_list = <<>> /\ decls = <<>>
  BY DEF Init, None
<1>2. f.fn = "top_level_decl" /\ f.at = "start" /\ f.got = <<>>
  BY DEF Frame
<1> HIDE DEF f
<1>3. DOMAIN stack = {1} /\ stack[1] = f
  BY <1>1
<1>4. Simple
  BY <1>2, <1>3 DEF Simple, InHeader, HeaderFn
<1>5. Quiet /\ Signed /\ Spoken = {}
  BY <1>1 DEF Quiet, Signed, Spoken
<1>6. TokensOf(<<>>) = {}
  BY DEF TokensOf
<1>7. Kept = {}
  <2>1. Declared = {} /\ Listed = {}
    BY <1>1 DEF Declared, Listed
  <2> QED BY <2>1 DEF Kept
<1>8. Held = {}
  BY <1>2, <1>3, <1>6 DEF Held
<1> QED BY <1>1, <1>4, <1>5, <1>6, <1>7, <1>8 DEF Covered, Clear

(* When a declaration ends, every token that says something is in the      *)
(* tree, but for the parameters of directives, which the parser drops.     *)
THEOREM TreeHolds == Spec => []TreeIsText
<1>1. Init => Covered
  BY CoveredAtFirst
<1>2. IInv /\ Covered /\ [Next]_vars => Covered'
  <2> SUFFICES ASSUME IInv, Covered, [Next]_vars PROVE Covered'
    OBVIOUS
  <2>1. CASE Next
    BY <2>1, CoveredStays
  <2>2. CASE UNCHANGED vars
    <3>1. UNCHANGED <<input, index, stack, result, directive_list, decls>>
      BY <2>2 DEF vars, context
    <3>2. Clear => Clear'
      BY <3>1, ClearStops
    <3>3. Stuck => Stuck'
      BY <3>1 DEF Stuck, Unfinished, Token, input
    <3> QED BY <3>2, <3>3 DEF Covered
  <2> QED BY <2>1, <2>2
<1>3. IInv /\ Covered => TreeIsText
  <2> SUFFICES ASSUME IInv, Covered, Top.fn = "top_level_decl", Top.at = "start"
               PROVE  UNION {TokensOf(s) : s \in Declared} = {k \in 1..index - 1 : Speaks(k)}
    BY DEF TreeIsText
  <2>1. /\ DOMAIN stack = 1..Len(stack) /\ Len(stack) = 1 /\ stack[1] = Top /\ Top.got = <<>>
    BY TopFacts, StackOfTop, LenProperties
  <2>2. ~Stuck
    BY <2>1 DEF Stuck, Unfinished
  <2>3. Clear
    BY <2>2 DEF Covered
  <2>4. TokensOf(result) = {} /\ TokensOf(<<>>) = {}
    BY <2>3, QuietReads DEF Reading, TokensOf
  <2>5. Held = {}
    BY <2>1, <2>4 DEF Held
  <2>6. Kept = Stored
    BY KeptParts DEF Lists
  <2> QED BY <2>3, <2>4, <2>5, <2>6 DEF Clear, Stored, Spoken
<1> QED BY <1>1, <1>2, <1>3, InvariantHolds, PTL DEF Spec

-----------------------------------------------------------------------------
(* The declarations that a text leads with.                                *)

(* Numbers have a least one.                                               *)
LEMMA Least ==
  ASSUME NEW T, T \subseteq Nat, T # {}
  PROVE  \E x \in T : \A y \in T : x <= y
<1> DEFINE R == OpToRel(<, Nat)
<1>1. IsWellFoundedOn(R, Nat)
  BY NatLessThanWellFounded
<1>2. \A x, y \in Nat : y < x => <<y, x>> \in R
  BY DEF OpToRel
<1> HIDE DEF R
<1>3. PICK x \in T : \A y \in T : <<y, x>> \notin R
  BY <1>1, WFMin
<1>4. ASSUME NEW y \in T
      PROVE  x <= y
  <2>1. x \in Nat /\ y \in Nat /\ ~(y < x)
    BY <1>2, <1>3
  <2> QED BY <2>1
<1> QED BY <1>4

(* A set that has 0 and the successor of each of its numbers has them all. *)
LEMMA Induction ==
  ASSUME NEW S, 0 \in S, \A n \in Nat : n \in S => n + 1 \in S
  PROVE  Nat \subseteq S
<1> DEFINE T == Nat \ S
<1> SUFFICES ASSUME T # {} PROVE FALSE
  OBVIOUS
<1>1. T \subseteq Nat
  OBVIOUS
<1>2. PICK x \in T : \A y \in T : x <= y
  <2> HIDE DEF T
  <2> QED BY <1>1, Least
<1>3. x \in Nat /\ x # 0 /\ x - 1 \in Nat /\ x - 1 < x /\ x = (x - 1) + 1
  OBVIOUS
<1>4. x - 1 \notin T
  BY <1>2, <1>3
<1> QED BY <1>3, <1>4

AtFirst == [at |-> "decl", n |-> 0]

(* It takes the text token by token.                                       *)
LEMMA LeadingStep ==
  ASSUME Len(tokens) \in Nat
  PROVE  /\ Leading[0] = AtFirst
         /\ \A k \in 1..Len(tokens) : Leading[k] = After(Leading[k - 1], tokens[k])
<1> DEFINE m == Len(tokens)
           Value(u, q) == IF q = 0 THEN AtFirst ELSE After(u[q - 1], tokens[q])
           Is(u) == u = [q \in 0..m |-> Value(u, q)]
           Good(u, n) == u = [q \in 0..n |-> u[q]] /\ \A q \in 0..n : u[q] = Value(u, q)
           S == {n \in Nat : \E u : Good(u, n)}
<1>1. 0 \in S
  <2> DEFINE u == [q \in 0..0 |-> AtFirst]
  <2>1. u = [q \in 0..0 |-> u[q]] /\ \A q \in 0..0 : q = 0 /\ u[q] = AtFirst
    OBVIOUS
  <2> HIDE DEF u
  <2>2. Good(u, 0)
    BY <2>1
  <2> QED BY <2>2
<1>2. ASSUME NEW n \in Nat, n \in S
      PROVE  n + 1 \in S
  <2>1. PICK u : Good(u, n)
    BY <1>2
  <2> DEFINE new == Value(u, n + 1)
             e == [q \in 0..n + 1 |-> IF q = n + 1 THEN new ELSE u[q]]
  <2>2. n + 1 - 1 = n /\ n \in 0..n
    OBVIOUS
  <2> HIDE DEF new
  <2>3. e = [q \in 0..n + 1 |-> e[q]]
    OBVIOUS
  <2>4. \A q \in 0..n : e[q] = u[q]
    OBVIOUS
  <2>5. e[n + 1] = new
    OBVIOUS
  <2> HIDE DEF e
  <2>6. ASSUME NEW q \in 0..n + 1
        PROVE  e[q] = Value(e, q)
    <3>1. CASE q = n + 1
      BY <3>1, <2>2, <2>4, <2>5 DEF new
    <3>2. CASE q # n + 1
      <4>1. q \in 0..n /\ (q = 0 \/ q - 1 \in 0..n)
        BY <3>2
      <4>2. u[q] = Value(u, q)
        BY <2>1, <4>1
      <4> QED BY <4>1, <4>2, <2>4
    <3> QED BY <3>1, <3>2
  <2> HIDE DEF Value
  <2>7. Good(e, n + 1)
    BY <2>3, <2>6
  <2> QED BY <2>7
<1>3. PICK u : Good(u, m)
  <2>1. Nat \subseteq S
    <3> HIDE DEF S
    <3> QED BY <1>1, <1>2, Induction
  <2> QED BY <2>1
<1>4. Is(u)
  <2> HIDE DEF Value
  <2> QED BY <1>3
<1>5. Leading = CHOOSE v : Is(v)
  BY DEF Leading, AtFirst
<1>6. Is(Leading)
  <2> HIDE DEF Is
  <2> QED BY <1>4, <1>5
<1> DEFINE s == Leading
<1> HIDE DEF s
<1>7. s = [q \in 0..m |-> Value(s, q)]
  BY <1>6 DEF s
<1>8. ASSUME NEW q \in 0..m PROVE s[q] = Value(s, q)
  <2> HIDE DEF Value, m
  <2> QED BY <1>7
<1>9. s[0] = AtFirst
  BY <1>8
<1>10. \A q \in 1..m : s[q] = After(s[q - 1], tokens[q])
  BY <1>8
<1> QED BY <1>9, <1>10 DEF s

(* It does not change.                                                     *)
LEMMA SameLeading ==
  ASSUME UNCHANGED tokens
  PROVE  Leading' = Leading
BY DEF Leading, After, Leads, Moves

(* No token leads to two states.                                           *)
LEMMA Row ==
  ASSUME NEW q, NEW id, NEW r, <<q, id, r>> \in Moves
  PROVE  Leads(q, id) = r
<1>1. \A m \in Moves : m[1] = q /\ m[2] = id => m[3] = r
  BY DEF Moves
<1>2. \E m \in Moves : m[1] = q /\ m[2] = id
  OBVIOUS
<1> DEFINE m == CHOOSE m \in Moves : m[1] = q /\ m[2] = id
<1>3. m \in Moves /\ m[1] = q /\ m[2] = id
  <2> HIDE DEF Moves
  <2> QED BY <1>2
<1> QED BY <1>1, <1>2, <1>3 DEF Leads

(* The tokens that lead on, by states.                                     *)
Allowed(q) == {r[2] : r \in {m \in Moves : m[1] = q}}

(* Others lead nowhere.                                                    *)
LEMMA NoRow ==
  ASSUME NEW q, NEW id, id \notin Allowed(q)
  PROVE  Leads(q, id) = "dead"
BY DEF Allowed, Leads

(* What may come next.                                                     *)
LEMMA AllowedTokens ==
  /\ Allowed("decl") \subseteq {"NumberSign", "KeywordExport", "KeywordPub", "KeywordFn"}
  /\ Allowed("dead") \subseteq {}
  /\ Allowed("sign") \subseteq {"Symbol"}
  /\ Allowed("name") \subseteq {"LParen"}
  /\ Allowed("value") \subseteq {"StringLiteral"}
  /\ Allowed("export") \subseteq {"Symbol", "KeywordFn"}
  /\ Allowed("exported") \subseteq {"StringLiteral"}
  /\ Allowed("library") \subseteq {"Semicolon"}
  /\ Allowed("visible") \subseteq {"KeywordFn"}
  /\ Allowed("fn") \subseteq {"Symbol"}
  /\ Allowed("fn_name") \subseteq {"LParen"}
  /\ Allowed("params") \subseteq {"RParen", "Symbol"}
  /\ Allowed("next_param") \subseteq {"Symbol"}
  /\ Allowed("param") \subseteq {"Colon"}
  /\ Allowed("param_end") \subseteq {"Comma", "RParen"}
  /\ Allowed("type") \subseteq {"Star", "Symbol", "KeywordUnreachable"}
  /\ Allowed("return_type") \subseteq {"Star", "Symbol", "KeywordUnreachable"}
  /\ Allowed("pointer") \subseteq {"KeywordMut", "KeywordConst"}
  /\ Allowed("return_pointer") \subseteq {"KeywordMut", "KeywordConst"}
  /\ Allowed("arrow") \subseteq {"Arrow", "LBrace"}
  /\ Allowed("end") \subseteq {"LBrace"}
  /\ Allowed("body") \subseteq {"RBrace"}
<1>1. /\ Allowed("decl") \subseteq {"NumberSign", "KeywordExport", "KeywordPub", "KeywordFn"}
      /\ Allowed("dead") \subseteq {}
      /\ Allowed("sign") \subseteq {"Symbol"}
      /\ Allowed("name") \subseteq {"LParen"}
      /\ Allowed("value") \subseteq {"StringLiteral"}
      /\ Allowed("export") \subseteq {"Symbol", "KeywordFn"}
  BY DEF Allowed, Moves
<1>2. /\ Allowed("exported") \subseteq {"StringLiteral"}
      /\ Allowed("library") \subseteq {"Semicolon"}
      /\ Allowed("visible") \subseteq {"KeywordFn"}
      /\ Allowed("fn") \subseteq {"Symbol"}
      /\ Allowed("fn_name") \subseteq {"LParen"}
      /\ Allowed("params") \subseteq {"RParen", "Symbol"}
  BY DEF Allowed, Moves
<1>3. /\ Allowed("next_param") \subseteq {"Symbol"}
      /\ Allowed("param") \subseteq {"Colon"}
      /\ Allowed("param_end") \subseteq {"Comma", "RParen"}
      /\ Allowed("type") \subseteq {"Star", "Symbol", "KeywordUnreachable"}
      /\ Allowed("return_type") \subseteq {"Star", "Symbol", "KeywordUnreachable"}
      /\ Allowed("pointer") \subseteq {"KeywordMut", "KeywordConst"}
  BY DEF Allowed, Moves
<1>4. /\ Allowed("return_pointer") \subseteq {"KeywordMut", "KeywordConst"}
      /\ Allowed("arrow") \subseteq {"Arrow", "LBrace"}
      /\ Allowed("end") \subseteq {"LBrace"}
      /\ Allowed("body") \subseteq {"RBrace"}
  BY DEF Allowed, Moves
<1> QED BY <1>1, <1>2, <1>3, <1>4

(* A token that may come next is taken.                                    *)
LEMMA Takes ==
  ASSUME IInv, NEW k \in Nat, NEW j, j = k + 1, j <= Len(tokens), NEW q, NEW r,
         Leading[k].at = q, <<q, tokens[j], r>> \in Moves
  PROVE  /\ Leading[j].at = r
         /\ Leading[j].n = IF r = "decl" /\ q # "value" THEN Leading[k].n + 1 ELSE Leading[k].n
<1>1. Len(tokens) \in Nat /\ j \in 1..Len(tokens) /\ j - 1 = k
  BY TopFacts
<1>2. Leading[j] = After(Leading[k], tokens[j])
  BY <1>1, LeadingStep
<1>3. Leads(q, tokens[j]) = r
  BY Row
<1> QED BY <1>2, <1>3 DEF After

(* The text goes on with no other declaration: the automaton is stuck.     *)
Settled == \E k \in 1..Len(tokens) : Leading[k].at = "dead" /\ Leading[k].n = Len(decls)

(* It is if a token may not come next.                                     *)
LEMMA Dies ==
  ASSUME IInv, NEW k \in Nat, NEW j, j = k + 1, j <= Len(tokens),
         tokens[j] \notin Allowed(Leading[k].at)
  PROVE  Leading[j].at = "dead" /\ Leading[j].n = Leading[k].n
<1>1. Len(tokens) \in Nat /\ j \in 1..Len(tokens) /\ j - 1 = k
  BY TopFacts
<1>2. Leading[j] = After(Leading[k], tokens[j])
  BY <1>1, LeadingStep
<1>3. Leads(Leading[k].at, tokens[j]) = "dead"
  BY NoRow
<1> QED BY <1>2, <1>3 DEF After

(* The automaton is stuck at a token that may not come next.               *)
LEMMA Rejects ==
  ASSUME IInv, NEW k \in Nat, NEW j, j = k + 1, j <= Len(tokens),
         tokens[j] \notin Allowed(Leading[k].at), Leading[k].n = Len(decls)
  PROVE  Settled
<1>1. j \in 1..Len(tokens)
  BY TopFacts
<1>2. Leading[j].at = "dead" /\ Leading[j].n = Leading[k].n
  BY Dies
<1> QED BY <1>1, <1>2 DEF Settled

(* And stays so to the end.                                                *)
LEMMA SettledToTheEnd ==
  ASSUME Len(tokens) \in Nat, Settled
  PROVE  Leading[Len(tokens)].n = Len(decls)
<1>1. PICK k \in 1..Len(tokens) : Leading[k].at = "dead" /\ Leading[k].n = Len(decls)
  BY DEF Settled
<1> DEFINE m == Len(tokens)
           c == Len(decls)
           T == {n \in Nat : k <= n /\ n <= m => Leading[n].at = "dead" /\ Leading[n].n = c}
<1>2. 0 \in T
  OBVIOUS
<1>3. ASSUME NEW n \in Nat, n \in T
      PROVE  n + 1 \in T
  <2> SUFFICES ASSUME k <= n + 1, n + 1 <= m
               PROVE  Leading[n + 1].at = "dead" /\ Leading[n + 1].n = c
    OBVIOUS
  <2>1. CASE k = n + 1
    BY <1>1, <2>1
  <2>2. CASE k # n + 1
    <3>1. k <= n /\ n <= m /\ n + 1 \in 1..m /\ n + 1 - 1 = n
      BY <2>2
    <3>2. Leading[n].at = "dead" /\ Leading[n].n = c
      BY <1>3, <3>1
    <3>3. Leading[n + 1] = After(Leading[n], tokens[n + 1])
      BY <3>1, LeadingStep
    <3>4. Leads("dead", tokens[n + 1]) = "dead"
      BY NoRow, AllowedTokens
    <3> QED BY <3>2, <3>3, <3>4 DEF After
  <2> QED BY <2>1, <2>2
<1>4. Nat \subseteq T
  <2> HIDE DEF T
  <2> QED BY <1>2, <1>3, Induction
<1>5. m \in T /\ k <= m
  BY <1>4
<1> QED BY <1>5

(* As long as no declaration is added.                                     *)
LEMMA SettledStays ==
  ASSUME tokens' = tokens, decls' = decls, Settled
  PROVE  Settled'
<1>1. Leading' = Leading
  BY SameLeading
<1> QED BY <1>1 DEF Settled

-----------------------------------------------------------------------------
(* Where the parser stands in the automaton.                               *)

Caller == stack[2]

(* The top f, called by c, stands before the tokens t and u in state q.    *)
Fits(f, c, q, t, u) ==
  \/ f.fn = "top_level_decl" /\ q = "decl"
  \/ /\ f.fn = "fn_proto" /\ f.at = "start" /\ q = "decl"
     /\ t # "NumberSign" /\ ~(t = "KeywordExport" /\ u = "Symbol")
  \/ f.fn = "fn_proto" /\ f.at \in {"params", "next_param", "arrow"} /\ q = f.at
  \/ f.fn = "fn_proto" /\ f.at = "param" /\ q = "param_end"
  \/ f.fn = "fn_proto" /\ f.at = "return_type" /\ q = "end"
  \/ f.fn = "type" /\ c.fn = "fn_proto" /\ c.at = "param" /\ q = "type"
  \/ f.fn = "type" /\ c.fn = "fn_proto" /\ c.at = "return_type" /\ q = "return_type"
  \/ /\ (f.fn = "fn_def" /\ f.at = "proto") \/ (f.fn = "block" /\ f.at = "start")
     /\ q = "end" \/ (q = "arrow" /\ t # "Arrow")
  \/ f.fn = "block" /\ f.at = "statements" /\ q = "body"
  \/ f.fn = "fn_def" /\ f.at = "body" /\ q = "decl"
(* A function has been read and is not stored yet.                         *)
Pending(f) ==
  IF f.at = "fn_def" \/ (f.fn = "fn_def" /\ f.at = "body") THEN 1 ELSE 0
Synced == /\ Fits(Top, Caller, Leading[index - 1].at, Token, tokens[index + 1])
          /\ Leading[index - 1].n = Len(decls) + Pending(Top)

(* A step leads to another place.                                          *)
LEMMA SyncsAt ==
  ASSUME tokens' = tokens, NEW i, i = index', NEW j, j = i - 1, NEW f, Top' = f,
         NEW c, Caller' = c, Fits(f, c, Leading[j].at, tokens[i], tokens[i + 1]),
         NEW d, d = decls', Leading[j].n = Len(d) + Pending(f)
  PROVE  Synced'
<1>1. Leading' = Leading
  BY SameLeading
<1>2. /\ Fits(f, c, Leading[i - 1].at, tokens[i], tokens[i + 1])
      /\ Leading[i - 1].n = Len(d) + Pending(f)
  OBVIOUS
<1>3. /\ Fits(Top', Caller', Leading'[index' - 1].at, tokens'[index'], tokens'[index' + 1])
      /\ Leading'[index' - 1].n = Len(decls') + Pending(Top')
  BY <1>1, <1>2
<1> QED BY <1>3 DEF Synced, Token, Fits, Pending

(* The innermost activation goes on itself.                                *)
LEMMA GoesHere ==
  ASSUME IInv, NEW at, NEW got, NEW n, Go(at, got, <<>>, n)
  PROVE  /\ Top'.fn = Top.fn /\ Top'.at = at /\ index' = index + n
         /\ Len(stack) >= 2 => Caller' = Caller
<1> DEFINE cs == <<>>
<1>1. cs \in Seq(Activation) /\ Len(cs) = 0 /\ Go(at, got, cs, n)
  OBVIOUS
<1> HIDE DEF cs
<1> DEFINE t == stack'
<1>2. /\ Len(t) = Len(cs) + Len(stack)
      /\ t[Len(cs) + 1] = Moved(at, got)
      /\ \A k \in Len(cs) + 2..Len(t) : t[k] = stack[k - Len(cs)]
      /\ Top' = t[1]
  <2>1. cs \in Seq(Activation) /\ Go(at, got, cs, n)
    BY <1>1
  <2>2. /\ Len(t) = Len(cs) + Len(stack)
        /\ \A k \in Len(cs) + 2..Len(t) : t[k] = stack[k - Len(cs)]
        /\ Top' = t[1]
    BY <2>1, GoFacts
  <2>3. stack'[Len(cs) + 1] = Moved(at, got)
    BY <2>1, GoFacts
  <2> QED BY <2>2, <2>3
<1> HIDE DEF t
<1>3. Top' = Moved(at, got)
  <2>1. Top' = t[1] /\ t[0 + 1] = Moved(at, got)
    BY <1>1, <1>2
  <2> QED BY <2>1
<1>4. Len(stack) >= 2 => t[2] = stack[2]
  <2>1. Len(stack) \in Nat
    BY TopFacts
  <2> DEFINE k == 2
  <2>2. Len(stack) >= 2 => k \in Len(cs) + 2..Len(t) /\ k - Len(cs) = 2
    BY <1>1, <1>2, <2>1
  <2> HIDE DEF k
  <2>3. Len(stack) >= 2 => t[k] = stack[k - Len(cs)]
    BY <1>2, <2>2
  <2>4. Len(stack) >= 2 => t[k] = stack[2]
    BY <2>2, <2>3
  <2> QED BY <2>4 DEF k
<1>5. index' = index + n
  BY DEF Go
<1>6. Moved(at, got).fn = Top.fn /\ Moved(at, got).at = at
  BY MovedFields
<1> QED BY <1>3, <1>4, <1>5, <1>6 DEF Caller, t

(* It calls a function.                                                    *)
LEMMA GoesThere ==
  ASSUME IInv, NEW at, NEW got, NEW c, NEW n, Go(at, got, <<c>>, n)
  PROVE  Top' = c /\ Caller'.fn = Top.fn /\ Caller'.at = at /\ index' = index + n
<1> DEFINE cs == <<c>>
<1>1. cs \in Seq({c}) /\ Len(cs) = 1 /\ cs[1] = c /\ Go(at, got, cs, n)
  OBVIOUS
<1> HIDE DEF cs
<1> DEFINE t == stack'
<1>2. /\ \A k \in 1..Len(cs) : t[k] = cs[k]
      /\ t[Len(cs) + 1] = Moved(at, got)
      /\ Top' = t[1]
  <2>1. cs \in Seq({c}) /\ Go(at, got, cs, n)
    BY <1>1
  <2>2. (\A k \in 1..Len(cs) : t[k] = cs[k]) /\ Top' = t[1]
    BY <2>1, GoFacts
  <2>3. stack'[Len(cs) + 1] = Moved(at, got)
    BY <2>1, GoFacts
  <2> QED BY <2>2, <2>3
<1> HIDE DEF t
<1>3. Top' = c
  <2>1. 1 \in 1..Len(cs)
    BY <1>1
  <2> QED BY <1>1, <1>2, <2>1
<1>4. t[2] = Moved(at, got)
  <2>1. Len(cs) + 1 = 2
    BY <1>1
  <2> QED BY <1>2, <2>1
<1>5. index' = index + n
  BY DEF Go
<1>6. Moved(at, got).fn = Top.fn /\ Moved(at, got).at = at
  BY MovedFields
<1> QED BY <1>3, <1>4, <1>5, <1>6 DEF Caller, t

(* It returns.                                                             *)
LEMMA GoesBack ==
  ASSUME IInv, Top.fn # "top_level_decl", NEW node, NEW n, Return(node, n)
  PROVE  /\ Top' = Caller /\ index' = index + n /\ result' = node
         /\ Awaits(Caller, Top) /\ Len(stack) >= 2 /\ Caller = stack[2]
<1> DEFINE t == stack'
           b == Len(stack)
<1>1. /\ b \in Nat /\ b >= 1 /\ stack \in Seq(Activation) /\ Top = stack[1]
      /\ \A k \in 1..b - 1 : Awaits(stack[k + 1], stack[k])
      /\ stack[b].fn = "top_level_decl"
  BY TopFacts DEF IInv, StackOK
<1>2. b >= 2
  BY <1>1
<1>3. t = Tail(stack) /\ result' = node /\ index' = index + n
  BY DEF Return
<1> HIDE DEF t
<1>4. t # <<>> /\ Len(t) = b - 1 /\ \A k \in 1..Len(t) : t[k] = stack[k + 1]
  BY <1>1, <1>2, <1>3, StackShrinks
<1> HIDE DEF b
<1>5. Top' = t[1]
  BY <1>4 DEF Top, t
<1> DEFINE k == 1 + 1
<1>6. 1 \in 1..b - 1 /\ 1 \in 1..Len(t) /\ k = 2
  BY <1>1, <1>2, <1>4
<1>7. t[1] = stack[k] /\ Awaits(stack[k], stack[1])
  BY <1>1, <1>4, <1>6
<1> HIDE DEF k
<1> QED BY <1>1, <1>2, <1>3, <1>5, <1>6, <1>7 DEF Caller, b

-----------------------------------------------------------------------------
(* The loop over the declarations follows the automaton.                   *)

(* The tokens that are next.                                               *)
LEMMA IndexFacts ==
  ASSUME IInv
  PROVE  /\ index - 1 \in Nat /\ index \in Nat /\ index = index - 1 + 1 /\ index + 0 = index
         /\ index <= Len(tokens) => index \in 1..Len(tokens)
BY TopFacts

(* The loop begins a declaration.                                          *)
LEMMA DeclSyncs ==
  ASSUME IInv, Synced, BeginDecl
  PROVE  Synced'
<1>1. /\ Top.fn = "top_level_decl" /\ Top.at = "start"
      /\ Go("directives", <<>>, <<>>, 0) /\ tokens' = tokens /\ decls' = decls
  BY DEF BeginDecl, Active, input
<1>2. Top'.fn = "top_level_decl" /\ Top'.at = "directives" /\ index' = index + 0
  BY <1>1, GoesHere
<1> DEFINE f == Top'
           c == Caller'
           i == index'
           j == index - 1
           d == decls'
<1>3. j = i - 1 /\ Leading[j].at = "decl" /\ Leading[j].n = Len(d) + 0
  BY <1>1, <1>2, IndexFacts DEF Synced, Fits, Pending
<1>4. Fits(f, c, Leading[j].at, tokens[i], tokens[i + 1]) /\ Pending(f) = 0
  BY <1>2, <1>3 DEF Fits, Pending
<1>5. Leading[j].n = Len(d) + Pending(f)
  BY <1>3, <1>4
<1> HIDE DEF f, c, i, j, d
<1> QED BY <1>1, <1>3, <1>4, <1>5, SyncsAt DEF f, c, i, d

(* It has a function to store.                                             *)
LEMMA AppendSyncs ==
  ASSUME IInv, Synced, AppendFnDef
  PROVE  Synced'
<1>1. /\ Top.fn = "top_level_decl" /\ Top.at = "fn_def"
      /\ Go("start", <<>>, <<>>, 0) /\ tokens' = tokens /\ decls' = Append(decls, result)
  BY DEF AppendFnDef, Active, input
<1>2. Top'.fn = "top_level_decl" /\ Top'.at = "start" /\ index' = index + 0
  BY <1>1, GoesHere
<1> DEFINE f == Top'
           c == Caller'
           i == index'
           j == index - 1
           d == decls'
<1>3. j = i - 1 /\ Leading[j].at = "decl" /\ Leading[j].n = Len(decls) + 1
  BY <1>1, <1>2, IndexFacts DEF Synced, Fits, Pending
<1>4. Fits(f, c, Leading[j].at, tokens[i], tokens[i + 1]) /\ Pending(f) = 0
  BY <1>2, <1>3 DEF Fits, Pending
<1>5. Len(d) = Len(decls) + 1 /\ Len(decls) \in Nat
  BY <1>1, ListFacts, TopFacts, AppendProperties, LenProperties
<1>6. Leading[j].n = Len(d) + Pending(f)
  BY <1>3, <1>4, <1>5
<1> HIDE DEF f, c, i, j, d
<1> QED BY <1>1, <1>3, <1>4, <1>6, SyncsAt DEF f, c, i, d

(* It looks for a function.                                                *)
LEMMA CallFnDefSyncs ==
  ASSUME IInv, Synced, CallFnDef
  PROVE  Synced'
<1> DEFINE p == Frame("fn_proto", "start", TRUE, index)
           x == Frame("fn_def", "proto", FALSE, index)
           cs == <<p, x>>
           got == <<>>
<1>1. /\ Top.fn = "top_level_decl" /\ Top.at = "directives"
      /\ Go("fn_def", got, cs, 0) /\ tokens' = tokens /\ decls' = decls
      /\ Token # "NumberSign" /\ ~IsRootExport
  BY DEF CallFnDef, EndDirectives, Active, input, Continue, context
<1>2. p.fn = "fn_proto" /\ p.at = "start" /\ x.fn = "fn_def"
  BY DEF Frame
<1> HIDE DEF p, x
<1>3. cs \in Seq({p, x}) /\ Len(cs) = 2 /\ cs[1] = p
  OBVIOUS
<1> HIDE DEF cs, got
<1>4. Top' = p /\ index' = index + 0
  <2>1. cs \in Seq({p, x}) /\ Go("fn_def", got, cs, 0)
    BY <1>1, <1>3
  <2>2. (\A k \in 1..Len(cs) : stack'[k] = cs[k]) /\ Top' = stack'[1]
    BY <2>1, GoFacts
  <2>3. 1 \in 1..Len(cs)
    BY <1>3
  <2> QED BY <1>1, <1>3, <2>2, <2>3 DEF Go
<1> DEFINE f == Top'
           c == Caller'
           i == index'
           j == index - 1
           d == decls'
<1>5. j = i - 1 /\ i = index /\ Leading[j].at = "decl" /\ Leading[j].n = Len(d) + 0
  BY <1>1, <1>4, IndexFacts DEF Synced, Fits, Pending
<1>6. Fits(f, c, Leading[j].at, tokens[i], tokens[i + 1]) /\ Pending(f) = 0
  BY <1>1, <1>2, <1>4, <1>5 DEF Fits, Pending, IsRootExport, Token
<1>7. Leading[j].n = Len(d) + Pending(f)
  BY <1>5, <1>6
<1> HIDE DEF f, c, i, j, d
<1> QED BY <1>1, <1>5, <1>6, <1>7, SyncsAt DEF f, c, i, d

(* The first token that is not the expected one.                           *)
LEMMA FirstMismatch ==
  ASSUME IInv, index <= Len(tokens), NEW S, NEW ids \in Seq(S),
         \A k \in 1..Len(ids) : ids[k] # "Eof", FailAtFirst(ids)
  PROVE  /\ tokens' = tokens /\ decls' = decls /\ outcome' = "error"
         /\ \E k \in 1..Len(ids) :
              /\ index + k - 1 <= Len(tokens) /\ tokens[index + k - 1] # ids[k]
              /\ \A j \in 1..k - 1 : tokens[index + j - 1] = ids[j]
<1>1. PICK k \in Mismatches(ids) : (\A j \in Mismatches(ids) : k <= j) /\ Fail(index + k - 1)
  BY DEF FailAtFirst
<1>2. Len(ids) \in Nat /\ k \in 1..Len(ids)
  BY LenProperties DEF Mismatches
<1>3. blamed' = index + k - 1 /\ tokens' = tokens /\ decls' = decls /\ outcome' = "error"
  BY <1>1 DEF Fail, input
<1>4. index + k - 1 <= Len(tokens)
  <2>1. blamed' \in 0..Len(tokens)
    <3>1. StepOK
      BY ExpectedTokens
    <3> QED BY <1>3, <3>1 DEF StepOK, IInv, TypeOK
  <2> DEFINE b == blamed'
             a == index + k - 1
  <2> HIDE DEF b, a
  <2>2. b \in 0..Len(tokens) /\ b = a
    BY <1>3, <2>1 DEF b, a
  <2>3. a <= Len(tokens)
    BY <2>2, TopFacts
  <2> QED BY <2>3 DEF a
<1>5. tokens[index + k - 1] # ids[k]
  <2>1. ~(index + k - 1 > Len(tokens))
    BY <1>2, <1>4, TopFacts
  <2>2. index + k - 1 > Len(tokens) \/ tokens[index + k - 1] # ids[k]
    BY DEF Mismatches
  <2> QED BY <2>1, <2>2
<1>6. ASSUME NEW j \in 1..k - 1 PROVE tokens[index + j - 1] = ids[j]
  <2>1. j \in 1..Len(ids) /\ ~(k <= j)
    BY <1>2
  <2>2. j \notin Mismatches(ids)
    BY <1>1, <2>1
  <2> QED BY <2>1, <2>2 DEF Mismatches
<1> QED BY <1>2, <1>3, <1>4, <1>5, <1>6

(* A directive is read.                                                    *)
LEMMA DirectiveLeads ==
  ASSUME IInv, Directive, Leading[index - 1].at = "decl", NEW n, n = Leading[index - 1].n
  PROVE  /\ tokens' = tokens /\ decls' = decls
         /\ \/ /\ outcome' = outcome /\ Go("directives", <<>>, <<>>, 4) /\ index + 4 <= Len(tokens)
               /\ Leading[index].at = "sign" /\ Leading[index + 1].at = "name"
               /\ Leading[index + 2].at = "value"
               /\ Leading[index + 3].at = "decl" /\ Leading[index + 3].n = n
            \/ /\ outcome' = "error"
               /\ \E j \in index + 1..index + 3 :
                    /\ j <= Len(tokens) /\ Leading[j].at = "dead" /\ Leading[j].n = n
                    /\ \A i \in index..j - 1 : Leading[i].at \in {"sign", "name", "value"}
<1> DEFINE ids == DirectiveIds
           k == index - 1
           i1 == index + 1
           i2 == index + 2
           i3 == index + 3
           l == Len(tokens)
           S == {"NumberSign", "Symbol", "LParen", "StringLiteral"}
<1>1. /\ Top.fn = "top_level_decl" /\ Top.at = "directives" /\ tokens[index] = "NumberSign"
      /\ IF Expects(ids)
         THEN /\ Go("directives", <<>>, <<>>, Len(ids)) /\ decls' = decls /\ tokens' = tokens
              /\ outcome' = outcome
         ELSE FailAtFirst(ids)
  BY DEF Directive, Active, Token, input
<1>2. /\ Len(ids) = 4 /\ ids[1] = "NumberSign" /\ ids[2] = "Symbol" /\ ids[3] = "LParen"
      /\ ids[4] = "StringLiteral" /\ ids \in Seq(S)
  BY DEF DirectiveIds
<1> HIDE DEF ids, S
<1>3. index \in 1..l /\ k \in Nat /\ index = k + 1 /\ l \in Nat
  BY <1>1, TopReads, TopFacts DEF Reading
<1>4. Leading[k].at = "decl" /\ Leading[k].n = n
  OBVIOUS
<1> HIDE DEF k, l
<1>5. Leading[index].at = "sign" /\ Leading[index].n = n
  <2>1. <<"decl", tokens[index], "sign">> \in Moves
    BY <1>1 DEF Moves
  <2> QED BY <1>3, <1>4, <2>1, Takes DEF l
<1>6. i1 <= l /\ tokens[i1] = "Symbol" => Leading[i1].at = "name" /\ Leading[i1].n = n
  <2> SUFFICES ASSUME i1 <= l, tokens[i1] = "Symbol"
               PROVE  Leading[i1].at = "name" /\ Leading[i1].n = n
    OBVIOUS
  <2>1. <<"sign", tokens[i1], "name">> \in Moves
    BY DEF Moves
  <2>2. index \in Nat /\ i1 = index + 1
    BY <1>3
  <2> HIDE DEF i1
  <2> QED BY <1>5, <2>1, <2>2, Takes DEF l
<1>7. i2 <= l /\ tokens[i1] = "Symbol" /\ tokens[i2] = "LParen" =>
        Leading[i2].at = "value" /\ Leading[i2].n = n
  <2> SUFFICES ASSUME i2 <= l, tokens[i1] = "Symbol", tokens[i2] = "LParen"
               PROVE  Leading[i2].at = "value" /\ Leading[i2].n = n
    OBVIOUS
  <2>1. <<"name", tokens[i2], "value">> \in Moves
    BY DEF Moves
  <2>2. i1 \in Nat /\ i2 = i1 + 1 /\ i1 <= l
    BY <1>3
  <2> HIDE DEF i1, i2
  <2> QED BY <1>6, <2>1, <2>2, Takes DEF l
<1>8. CASE Expects(ids)
  <2>1. index + 4 <= l
    <3>1. \A m \in 1..4 : m = 1 \/ m = 2 \/ m = 3 \/ m = 4
      OBVIOUS
    <3>2. \A m \in 1..Len(ids) : ids[m] # "Eof"
      BY <1>2, <3>1
    <3>3. ids \in Seq(S) /\ index <= Len(tokens)
      BY <1>2, <1>3 DEF l
    <3>4. index + Len(ids) <= Len(tokens)
      BY <1>8, <3>2, <3>3, ExpectedTokens
    <3> QED BY <1>2, <3>4 DEF l
  <2>2. tokens[i1] = "Symbol" /\ tokens[i2] = "LParen" /\ tokens[i3] = "StringLiteral"
    <3>1. /\ tokens[index + 2 - 1] = ids[2] /\ tokens[index + 3 - 1] = ids[3]
          /\ tokens[index + 4 - 1] = ids[4]
      <4>1. 2 \in 1..Len(ids) /\ 3 \in 1..Len(ids) /\ 4 \in 1..Len(ids)
        BY <1>2
      <4> QED BY <1>8, <4>1, Found
    <3>2. index + 2 - 1 = i1 /\ index + 3 - 1 = i2 /\ index + 4 - 1 = i3
      BY <1>3
    <3> QED BY <1>2, <3>1, <3>2
  <2>3. Leading[i3].at = "decl" /\ Leading[i3].n = n
    <3>1. <<"value", tokens[i3], "decl">> \in Moves
      BY <2>2 DEF Moves
    <3>2. i2 \in Nat /\ i3 = i2 + 1 /\ i2 <= l /\ i3 <= l
      BY <1>3, <2>1
    <3> HIDE DEF i1, i2, i3
    <3> QED BY <1>7, <2>2, <3>1, <3>2, Takes DEF l
  <2>4. /\ Go("directives", <<>>, <<>>, 4) /\ decls' = decls /\ tokens' = tokens
        /\ outcome' = outcome
    BY <1>1, <1>2, <1>8
  <2>5. Leading[i1].at = "name" /\ Leading[i2].at = "value"
    BY <1>3, <1>6, <1>7, <2>1, <2>2
  <2> QED BY <1>5, <2>1, <2>3, <2>4, <2>5 DEF l
<1>9. CASE ~Expects(ids)
  <2>1. \A m \in 1..4 : m = 1 \/ m = 2 \/ m = 3 \/ m = 4
    OBVIOUS
  <2>2. \A m \in 1..Len(ids) : ids[m] # "Eof"
    BY <1>2, <2>1
  <2>3. FailAtFirst(ids) /\ index <= Len(tokens)
    BY <1>1, <1>3, <1>9 DEF l
  <2>4. tokens' = tokens /\ decls' = decls /\ outcome' = "error"
    BY <1>2, <2>2, <2>3, FirstMismatch
  <2>5. PICK m \in 1..4 : /\ index + m - 1 <= l /\ tokens[index + m - 1] # ids[m]
                          /\ \A j \in 1..m - 1 : tokens[index + j - 1] = ids[j]
    BY <1>2, <2>2, <2>3, FirstMismatch DEF l
  <2>6. /\ index + 1 - 1 = index /\ index + 2 - 1 = i1 /\ index + 3 - 1 = i2
        /\ index + 4 - 1 = i3
    BY <1>3
  <2>7. m # 1
    BY <1>1, <1>2, <2>5, <2>6
  <2>8. CASE m = 2
    <3>1. i1 <= l /\ tokens[i1] # "Symbol" /\ index \in Nat /\ i1 = index + 1
      BY <1>2, <1>3, <2>5, <2>6, <2>8
    <3>2. tokens[i1] \notin Allowed("sign")
      BY <3>1, AllowedTokens
    <3>3. Leading[i1].at = "dead" /\ Leading[i1].n = n
      <4> HIDE DEF i1
      <4> QED BY <1>5, <3>1, <3>2, Dies DEF l
    <3>4. \A i \in index..i1 - 1 : i = index
      BY <1>3
    <3>5. i1 \in index + 1..index + 3
      BY <1>3
    <3> HIDE DEF i1
    <3> QED BY <1>5, <2>4, <3>1, <3>3, <3>4, <3>5 DEF l
  <2>9. CASE m = 3
    <3>1. tokens[index + 2 - 1] = ids[2]
      BY <2>5, <2>9
    <3>2. i2 <= l /\ tokens[i2] # "LParen" /\ i1 \in Nat /\ i2 = i1 + 1 /\ i1 <= l
      BY <1>2, <1>3, <2>5, <2>6, <2>9
    <3>3. Leading[i1].at = "name" /\ Leading[i1].n = n
      BY <1>2, <1>6, <2>6, <3>1, <3>2
    <3>4. tokens[i2] \notin Allowed("name")
      BY <3>2, AllowedTokens
    <3>5. Leading[i2].at = "dead" /\ Leading[i2].n = n
      <4> HIDE DEF i1, i2
      <4> QED BY <3>2, <3>3, <3>4, Dies DEF l
    <3>6. \A i \in index..i2 - 1 : i = index \/ i = i1
      BY <1>3
    <3>7. i2 \in index + 1..index + 3
      BY <1>3
    <3> HIDE DEF i1, i2
    <3> QED BY <1>5, <2>4, <3>2, <3>3, <3>5, <3>6, <3>7 DEF l
  <2>10. CASE m = 4
    <3>1. tokens[index + 2 - 1] = ids[2] /\ tokens[index + 3 - 1] = ids[3]
      BY <2>5, <2>10
    <3>2. i3 <= l /\ tokens[i3] # "StringLiteral" /\ i2 \in Nat /\ i3 = i2 + 1 /\ i2 <= l /\ i1 <= l
      BY <1>2, <1>3, <2>5, <2>6, <2>10
    <3>3. /\ Leading[i1].at = "name"
          /\ Leading[i2].at = "value" /\ Leading[i2].n = n
      BY <1>2, <1>6, <1>7, <2>6, <3>1, <3>2
    <3>4. tokens[i3] \notin Allowed("value")
      BY <3>2, AllowedTokens
    <3>5. Leading[i3].at = "dead" /\ Leading[i3].n = n
      <4> HIDE DEF i2, i3
      <4> QED BY <3>2, <3>3, <3>4, Dies DEF l
    <3>6. \A i \in index..i3 - 1 : i = index \/ i = i1 \/ i = i2
      BY <1>3
    <3>7. i3 \in index + 1..index + 3
      BY <1>3
    <3> HIDE DEF i1, i2, i3
    <3> QED BY <1>5, <2>4, <3>2, <3>3, <3>5, <3>6, <3>7 DEF l
  <2> QED BY <2>1, <2>7, <2>8, <2>9, <2>10
<1> QED BY <1>8, <1>9

(* So the automaton and the parser read it together.                       *)
LEMMA DirectiveSyncs ==
  ASSUME IInv, Synced, Directive
  PROVE  (Synced' /\ outcome' = outcome) \/ (outcome' = "error" /\ Settled')
<1> DEFINE n == Leading[index - 1].n
<1>1. Top.fn = "top_level_decl" /\ Top.at = "directives"
  BY DEF Directive, Active
<1>2. Leading[index - 1].at = "decl" /\ n = Len(decls)
  BY <1>1, ListFacts DEF Synced, Fits, Pending
<1> HIDE DEF n
<1>3. n = Leading[index - 1].n
  BY DEF n
<1>4. /\ tokens' = tokens /\ decls' = decls
      /\ \/ /\ outcome' = outcome /\ Go("directives", <<>>, <<>>, 4)
            /\ Leading[index + 3].at = "decl" /\ Leading[index + 3].n = n
         \/ /\ outcome' = "error"
            /\ \E j \in index + 1..index + 3 :
                 j <= Len(tokens) /\ Leading[j].at = "dead" /\ Leading[j].n = n
  BY <1>2, <1>3, DirectiveLeads
<1>5. CASE Go("directives", <<>>, <<>>, 4) /\ outcome' = outcome /\ Leading[index + 3].at = "decl"
           /\ Leading[index + 3].n = n
  <2>1. Top'.fn = "top_level_decl" /\ Top'.at = "directives" /\ index' = index + 4
    BY <1>1, <1>5, GoesHere
  <2> DEFINE f == Top'
             c == Caller'
             i == index'
             j == index + 3
             d == decls'
  <2>2. j = i - 1
    BY <2>1, TopFacts
  <2>3. Fits(f, c, Leading[j].at, tokens[i], tokens[i + 1]) /\ Pending(f) = 0
    BY <1>5, <2>1 DEF Fits, Pending
  <2>4. Leading[j].n = Len(d) + Pending(f)
    BY <1>2, <1>4, <1>5, <2>3, ListFacts
  <2> HIDE DEF f, c, i, j, d
  <2>5. Synced'
    BY <1>4, <2>2, <2>3, <2>4, SyncsAt DEF f, c, i, d
  <2> QED BY <1>5, <2>5
<1>6. CASE /\ outcome' = "error"
           /\ \E j \in index + 1..index + 3 :
                j <= Len(tokens) /\ Leading[j].at = "dead" /\ Leading[j].n = n
  <2>1. PICK j \in index + 1..index + 3 :
               j <= Len(tokens) /\ Leading[j].at = "dead" /\ Leading[j].n = n
    BY <1>6
  <2>2. j \in 1..Len(tokens)
    BY <2>1, TopFacts
  <2>3. Settled
    BY <1>2, <2>1, <2>2 DEF Settled
  <2> QED BY <1>4, <1>6, <2>3, SettledStays
<1> QED BY <1>4, <1>5, <1>6

(* A root export is stored.                                                *)
LEMMA RootExportSyncs ==
  ASSUME IInv, Synced, RootExport
  PROVE  (Synced' /\ outcome' = outcome) \/ (outcome' = "error" /\ Settled')
<1> DEFINE ids == RootExportIds
           k == index - 1
           i1 == index + 1
           i2 == index + 2
           i3 == index + 3
           l == Len(tokens)
           S == {"KeywordExport", "Symbol", "StringLiteral", "Semicolon"}
           node == TakeDirectives \o <<index, index + 1, index + 2>>
<1>1. /\ Top.fn = "top_level_decl" /\ Top.at = "directives" /\ tokens[index] = "KeywordExport"
      /\ tokens[i1] = "Symbol"
      /\ IF Expects(ids)
         THEN /\ Go("start", <<>>, <<>>, Len(ids)) /\ decls' = Append(decls, node)
              /\ tokens' = tokens /\ outcome' = outcome
         ELSE FailAtFirst(ids)
  BY DEF RootExport, EndDirectives, IsRootExport, Active, Token, input
<1> HIDE DEF node
<1>2. /\ Len(ids) = 4 /\ ids[1] = "KeywordExport" /\ ids[2] = "Symbol"
      /\ ids[3] = "StringLiteral" /\ ids[4] = "Semicolon" /\ ids \in Seq(S)
  BY DEF RootExportIds
<1> HIDE DEF ids, S
<1>3. index \in 1..l /\ k \in Nat /\ index = k + 1 /\ l \in Nat
  BY <1>1, TopReads, TopFacts DEF Reading
<1>4. Leading[k].at = "decl" /\ Leading[k].n = Len(decls)
  BY <1>1, <1>3, ListFacts DEF Synced, Fits, Pending
<1> HIDE DEF k, l
<1>5. Leading[index].at = "export" /\ Leading[index].n = Len(decls)
  <2>1. <<"decl", tokens[index], "export">> \in Moves
    BY <1>1 DEF Moves
  <2> QED BY <1>3, <1>4, <2>1, Takes DEF l
<1>6. index \in Nat /\ i1 = index + 1 /\ i1 <= l
  <2>1. index + 1 \in 1..Len(tokens)
    BY <1>1, <1>3, TokenBehind DEF l
  <2> QED BY <1>3, <2>1 DEF l
<1>7. Leading[i1].at = "exported" /\ Leading[i1].n = Len(decls)
  <2>1. <<"export", tokens[i1], "exported">> \in Moves
    BY <1>1 DEF Moves
  <2> HIDE DEF i1
  <2> QED BY <1>5, <1>6, <2>1, Takes DEF l
<1>8. i2 <= l /\ tokens[i2] = "StringLiteral" =>
        Leading[i2].at = "library" /\ Leading[i2].n = Len(decls)
  <2> SUFFICES ASSUME i2 <= l, tokens[i2] = "StringLiteral"
               PROVE  Leading[i2].at = "library" /\ Leading[i2].n = Len(decls)
    OBVIOUS
  <2>1. <<"exported", tokens[i2], "library">> \in Moves
    BY DEF Moves
  <2>2. i1 \in Nat /\ i2 = i1 + 1
    BY <1>3
  <2> HIDE DEF i1, i2
  <2> QED BY <1>7, <2>1, <2>2, Takes DEF l
<1>9. CASE Expects(ids)
  <2>1. index + 4 <= l
    <3>1. \A m \in 1..4 : m = 1 \/ m = 2 \/ m = 3 \/ m = 4
      OBVIOUS
    <3>2. \A m \in 1..Len(ids) : ids[m] # "Eof"
      BY <1>2, <3>1
    <3>3. ids \in Seq(S) /\ index <= Len(tokens)
      BY <1>2, <1>3 DEF l
    <3>4. index + Len(ids) <= Len(tokens)
      BY <1>9, <3>2, <3>3, ExpectedTokens
    <3> QED BY <1>2, <3>4 DEF l
  <2>2. tokens[i2] = "StringLiteral" /\ tokens[i3] = "Semicolon"
    <3>1. tokens[index + 3 - 1] = ids[3] /\ tokens[index + 4 - 1] = ids[4]
      <4>1. 3 \in 1..Len(ids) /\ 4 \in 1..Len(ids)
        BY <1>2
      <4> QED BY <1>9, <4>1, Found
    <3>2. index + 3 - 1 = i2 /\ index + 4 - 1 = i3
      BY <1>3
    <3> QED BY <1>2, <3>1, <3>2
  <2>3. Leading[i3].at = "decl" /\ Leading[i3].n = Len(decls) + 1
    <3>1. <<"library", tokens[i3], "decl">> \in Moves
      BY <2>2 DEF Moves
    <3>2. i2 \in Nat /\ i3 = i2 + 1 /\ i2 <= l /\ i3 <= l
      BY <1>3, <2>1
    <3> HIDE DEF i1, i2, i3
    <3> QED BY <1>8, <2>2, <3>1, <3>2, Takes DEF l
  <2>4. /\ Go("start", <<>>, <<>>, 4) /\ decls' = Append(decls, node) /\ tokens' = tokens
        /\ outcome' = outcome
    BY <1>1, <1>2, <1>9
  <2>5. Top'.fn = "top_level_decl" /\ Top'.at = "start" /\ index' = index + 4
    BY <1>1, <2>4, GoesHere
  <2> DEFINE f == Top'
             c == Caller'
             i == index'
             d == decls'
  <2>6. i3 = i - 1
    BY <1>3, <2>5
  <2>7. Fits(f, c, Leading[i3].at, tokens[i], tokens[i + 1]) /\ Pending(f) = 0
    BY <2>3, <2>5 DEF Fits, Pending
  <2>8. Leading[i3].n = Len(d) + Pending(f)
    <3>1. Len(d) = Len(decls) + 1
      <4>1. decls \in Seq(Node \cup {node}) /\ node \in Node \cup {node}
        BY ListFacts, Widen
      <4> DEFINE N == Node \cup {node}
      <4> HIDE DEF N
      <4>2. decls \in Seq(N) /\ node \in N
        BY <4>1 DEF N
      <4>3. Len(Append(decls, node)) = Len(decls) + 1
        BY <4>2, AppendProperties
      <4> QED BY <2>4, <4>3
    <3> QED BY <2>3, <2>7, <3>1, ListFacts
  <2> HIDE DEF f, c, i, i3, d
  <2>9. Synced'
    BY <2>4, <2>6, <2>7, <2>8, SyncsAt DEF f, c, i, d
  <2> QED BY <2>4, <2>9
<1>10. CASE ~Expects(ids)
  <2>1. \A m \in 1..4 : m = 1 \/ m = 2 \/ m = 3 \/ m = 4
    OBVIOUS
  <2>2. \A m \in 1..Len(ids) : ids[m] # "Eof"
    BY <1>2, <2>1
  <2>3. FailAtFirst(ids) /\ index <= Len(tokens)
    BY <1>1, <1>3, <1>10 DEF l
  <2>4. tokens' = tokens /\ decls' = decls /\ outcome' = "error"
    BY <1>2, <2>2, <2>3, FirstMismatch
  <2>5. PICK m \in 1..4 : /\ index + m - 1 <= l /\ tokens[index + m - 1] # ids[m]
                          /\ \A j \in 1..m - 1 : tokens[index + j - 1] = ids[j]
    BY <1>2, <2>2, <2>3, FirstMismatch DEF l
  <2>6. /\ index + 1 - 1 = index /\ index + 2 - 1 = i1 /\ index + 3 - 1 = i2
        /\ index + 4 - 1 = i3
    BY <1>3
  <2>7. Settled
    <3>1. CASE m = 1
      BY <1>1, <1>2, <2>5, <2>6, <3>1
    <3>2. CASE m = 2
      BY <1>1, <1>2, <2>5, <2>6, <3>2
    <3>3. CASE m = 3
      <4>1. i2 <= l /\ tokens[i2] # "StringLiteral" /\ i1 \in Nat /\ i2 = i1 + 1
        BY <1>2, <1>3, <2>5, <2>6, <3>3
      <4>2. tokens[i2] \notin Allowed("exported")
        BY <4>1, AllowedTokens
      <4> HIDE DEF i1, i2
      <4> QED BY <1>7, <4>1, <4>2, Rejects DEF l
    <3>4. CASE m = 4
      <4>1. tokens[index + 3 - 1] = ids[3]
        BY <2>5, <3>4
      <4>2. i3 <= l /\ tokens[i3] # "Semicolon" /\ i2 \in Nat /\ i3 = i2 + 1 /\ i2 <= l
        BY <1>2, <1>3, <2>5, <2>6, <3>4
      <4>3. Leading[i2].at = "library" /\ Leading[i2].n = Len(decls)
        BY <1>2, <1>8, <2>6, <4>1, <4>2
      <4>4. tokens[i3] \notin Allowed("library")
        BY <4>2, AllowedTokens
      <4> HIDE DEF i2, i3
      <4> QED BY <4>2, <4>3, <4>4, Rejects DEF l
    <3> QED BY <2>1, <3>1, <3>2, <3>3, <3>4
  <2>8. Settled'
    BY <2>4, <2>7, SettledStays
  <2> QED BY <2>4, <2>8
<1> QED BY <1>9, <1>10

(* The rest of a header: the keyword, the name and the parenthesis at i,   *)
(* from a state where the keyword comes next.                              *)
LEMMA HeaderRest ==
  ASSUME IInv, NEW k \in Nat, NEW i, i = k + 1, NEW i1, i1 = k + 2, NEW i2, i2 = k + 3,
         i <= Len(tokens), Leading[k].n = Len(decls),
         <<Leading[k].at, "KeywordFn", "fn">> \in Moves,
         tokens[i] # "KeywordFn" => tokens[i] \notin Allowed(Leading[k].at)
  PROVE  /\ tokens[i] # "KeywordFn" => Settled
         /\ i1 <= Len(tokens) /\ tokens[i] = "KeywordFn" /\ tokens[i1] # "Symbol" => Settled
         /\ (/\ i2 <= Len(tokens) /\ tokens[i] = "KeywordFn" /\ tokens[i1] = "Symbol"
             /\ tokens[i2] # "LParen") => Settled
         /\ (/\ i2 <= Len(tokens) /\ tokens[i] = "KeywordFn" /\ tokens[i1] = "Symbol"
             /\ tokens[i2] = "LParen") =>
              Leading[i2].at = "params" /\ Leading[i2].n = Len(decls)
<1> DEFINE l == Len(tokens)
           q == Leading[k].at
<1>1. l \in Nat /\ i \in Nat /\ i1 = i + 1 /\ i1 \in Nat /\ i2 = i1 + 1
      /\ (i2 <= l => i1 <= l)
  BY TopFacts
<1> HIDE DEF l
<1>2. tokens[i] # "KeywordFn" => Settled
  BY Rejects
<1>3. tokens[i] = "KeywordFn" => Leading[i].at = "fn" /\ Leading[i].n = Len(decls)
  <2> HIDE DEF q
  <2> SUFFICES ASSUME tokens[i] = "KeywordFn"
               PROVE  Leading[i].at = "fn" /\ Leading[i].n = Len(decls)
    OBVIOUS
  <2>1. Leading[k].at = q /\ <<q, tokens[i], "fn">> \in Moves
    BY DEF q
  <2> QED BY <2>1, Takes
<1>4. i1 <= l /\ tokens[i] = "KeywordFn" /\ tokens[i1] # "Symbol" => Settled
  <2>1. tokens[i1] # "Symbol" => tokens[i1] \notin Allowed("fn")
    BY AllowedTokens
  <2> QED BY <1>1, <1>3, <2>1, Rejects DEF l
<1>5. i1 <= l /\ tokens[i] = "KeywordFn" /\ tokens[i1] = "Symbol" =>
        Leading[i1].at = "fn_name" /\ Leading[i1].n = Len(decls)
  <2> SUFFICES ASSUME i1 <= l, tokens[i] = "KeywordFn", tokens[i1] = "Symbol"
               PROVE  Leading[i1].at = "fn_name" /\ Leading[i1].n = Len(decls)
    OBVIOUS
  <2>1. <<"fn", tokens[i1], "fn_name">> \in Moves
    BY DEF Moves
  <2> QED BY <1>1, <1>3, <2>1, Takes DEF l
<1>6. i2 <= l /\ tokens[i] = "KeywordFn" /\ tokens[i1] = "Symbol" /\ tokens[i2] # "LParen" =>
        Settled
  <2>1. tokens[i2] # "LParen" => tokens[i2] \notin Allowed("fn_name")
    BY AllowedTokens
  <2> QED BY <1>1, <1>5, <2>1, Rejects DEF l
<1>7. i2 <= l /\ tokens[i] = "KeywordFn" /\ tokens[i1] = "Symbol" /\ tokens[i2] = "LParen" =>
        Leading[i2].at = "params" /\ Leading[i2].n = Len(decls)
  <2> SUFFICES ASSUME i2 <= l, tokens[i] = "KeywordFn", tokens[i1] = "Symbol", tokens[i2] = "LParen"
               PROVE  Leading[i2].at = "params" /\ Leading[i2].n = Len(decls)
    OBVIOUS
  <2>1. <<"fn_name", tokens[i2], "params">> \in Moves
    BY DEF Moves
  <2> QED BY <1>1, <1>5, <2>1, Takes DEF l
<1> QED BY <1>2, <1>4, <1>6, <1>7 DEF l

(* The tokens of a header.                                                 *)
LEMMA HeaderTokens ==
  ASSUME NEW S, S = {"KeywordPub", "KeywordExport", "KeywordFn", "Symbol", "LParen"},
         NEW v, v = Len(Visibility), NEW ids, ids = HeaderIds
  PROVE  /\ v = IF Token \in {"KeywordPub", "KeywordExport"} THEN 1 ELSE 0
         /\ ids \in Seq(S) /\ Len(ids) = v + 3 /\ \A m \in 1..Len(ids) : ids[m] # "Eof"
         /\ v = 1 => /\ ids[1] = Token /\ ids[2] = "KeywordFn" /\ ids[3] = "Symbol"
                     /\ ids[4] = "LParen"
         /\ v = 0 => ids[1] = "KeywordFn" /\ ids[2] = "Symbol" /\ ids[3] = "LParen"
<1>1. CASE Token \in {"KeywordPub", "KeywordExport"}
  <2> DEFINE F == <<"KeywordFn", "Symbol", "LParen">>
  <2>1. /\ F \in Seq(S) /\ Len(F) = 3 /\ F[1] = "KeywordFn" /\ F[2] = "Symbol"
        /\ F[3] = "LParen"
    OBVIOUS
  <2>2. Visibility = <<Token>> /\ v = 1
    BY <1>1 DEF Visibility
  <2>3. Visibility \in Seq(S) /\ Len(Visibility) = 1 /\ ids = Visibility \o F
    BY <1>1, <2>2 DEF HeaderIds
  <2> HIDE DEF F
  <2>4. /\ Visibility \o F \in Seq(S) /\ Len(Visibility \o F) = Len(Visibility) + Len(F)
        /\ \A m \in 1..Len(Visibility) + Len(F) : (Visibility \o F)[m] =
             IF m <= Len(Visibility) THEN Visibility[m] ELSE F[m - Len(Visibility)]
    <3>1. Visibility \in Seq(S) /\ F \in Seq(S)
      BY <2>1, <2>3
    <3> QED BY <3>1, ConcatProperties
  <2>5. /\ ids \in Seq(S) /\ Len(ids) = 4
        /\ \A m \in 1..4 : ids[m] = IF m <= 1 THEN Visibility[m] ELSE F[m - 1]
    BY <2>1, <2>3, <2>4
  <2>6. ids[1] = Token /\ ids[2] = "KeywordFn" /\ ids[3] = "Symbol" /\ ids[4] = "LParen"
    BY <2>1, <2>2, <2>5
  <2>7. \A m \in 1..4 : m = 1 \/ m = 2 \/ m = 3 \/ m = 4
    OBVIOUS
  <2>8. \A m \in 1..Len(ids) : ids[m] # "Eof"
    BY <1>1, <2>5, <2>6, <2>7
  <2> QED BY <1>1, <2>2, <2>5, <2>6, <2>8
<1>2. CASE Token \notin {"KeywordPub", "KeywordExport"}
  <2>1. Visibility = <<>> /\ v = 0
    BY <1>2 DEF Visibility
  <2>2. ids = <<"KeywordFn", "Symbol", "LParen">>
    BY <2>1 DEF HeaderIds
  <2>3. \A m \in 1..3 : m = 1 \/ m = 2 \/ m = 3
    OBVIOUS
  <2>4. /\ ids \in Seq(S) /\ Len(ids) = 3
        /\ ids[1] = "KeywordFn" /\ ids[2] = "Symbol" /\ ids[3] = "LParen"
    BY <2>2
  <2>5. \A m \in 1..Len(ids) : ids[m] # "Eof"
    BY <2>3, <2>4
  <2> QED BY <1>2, <2>1, <2>4, <2>5
<1> QED BY <1>1, <1>2

(* The header of a function is read.                                       *)
LEMMA HeaderSyncs ==
  ASSUME IInv, Synced, Header
  PROVE  (Synced' /\ outcome' = outcome) \/ (outcome' = "error" /\ Settled')
<1> DEFINE S == {"KeywordPub", "KeywordExport", "KeywordFn", "Symbol", "LParen"}
           v == Len(Visibility)
           ids == HeaderIds
           n == Len(ids)
           got == TakeDirectives \o [m \in 1..v |-> index] \o <<index + n - 2>>
           l == Len(tokens)
           k == index - 1 + v
           i == k + 1
           i1 == k + 2
           i2 == k + 3
<1>1. /\ Top.fn = "fn_proto" /\ Top.at = "start"
      /\ IF Expects(ids)
         THEN Go("params", got, <<>>, n) /\ tokens' = tokens /\ decls' = decls /\ outcome' = outcome
         ELSE FailAtFirst(ids)
  BY DEF Header, Active, input
<1> HIDE DEF got
<1>2. S = {"KeywordPub", "KeywordExport", "KeywordFn", "Symbol", "LParen"} /\ v = Len(Visibility)
      /\ ids = HeaderIds
  OBVIOUS
<1> HIDE DEF S, v, ids
<1>3. /\ v = (IF Token \in {"KeywordPub", "KeywordExport"} THEN 1 ELSE 0)
      /\ ids \in Seq(S) /\ Len(ids) = v + 3 /\ \A m \in 1..Len(ids) : ids[m] # "Eof"
      /\ v = 1 => /\ ids[1] = Token /\ ids[2] = "KeywordFn" /\ ids[3] = "Symbol"
                  /\ ids[4] = "LParen"
      /\ v = 0 => ids[1] = "KeywordFn" /\ ids[2] = "Symbol" /\ ids[3] = "LParen"
  BY <1>2, HeaderTokens
<1>4. index \in 1..l /\ l \in Nat /\ index - 1 \in Nat /\ index = index - 1 + 1
  BY <1>1, TopReads, TopFacts DEF Reading
<1>5. /\ Leading[index - 1].at = "decl" /\ Leading[index - 1].n = Len(decls)
      /\ Token # "NumberSign" /\ ~(Token = "KeywordExport" /\ tokens[index + 1] = "Symbol")
  BY <1>1, <1>4, ListFacts DEF Synced, Fits, Pending
<1>6. /\ k \in Nat /\ i \in Nat /\ i1 = i + 1 /\ i2 = i + 2 /\ index + v = i
      /\ index + v + 1 - 1 = i /\ index + v + 2 - 1 = i1 /\ index + v + 3 - 1 = i2
  BY <1>3, <1>4
<1>7. /\ i <= l /\ Leading[k].n = Len(decls) /\ <<Leading[k].at, "KeywordFn", "fn">> \in Moves
      /\ tokens[i] # "KeywordFn" => tokens[i] \notin Allowed(Leading[k].at)
  <2>1. CASE v = 0
    <3>1. k = index - 1 /\ i = index
      BY <1>4, <2>1
    <3>2. Token \notin {"KeywordPub", "KeywordExport", "NumberSign"}
      BY <1>3, <1>5, <2>1
    <3>3. Token # "KeywordFn" => Token \notin Allowed("decl")
      BY <3>2, AllowedTokens
    <3>4. <<"decl", "KeywordFn", "fn">> \in Moves
      BY DEF Moves
    <3> HIDE DEF k, i, l
    <3> QED BY <1>4, <1>5, <3>1, <3>3, <3>4 DEF Token
  <2>2. CASE v = 1
    <3>1. k = index /\ i = index + 1 /\ index \in Nat /\ index <= l
      BY <1>4, <2>2
    <3>2. Token \in {"KeywordPub", "KeywordExport"}
      BY <1>3, <2>2
    <3> HIDE DEF k, i
    <3>3. i <= l
      <4>1. index + 1 \in 1..Len(tokens)
        BY <1>4, <3>2, TokenBehind DEF l, Token
      <4> QED BY <1>4, <3>1, <4>1 DEF l
    <3>4. CASE Token = "KeywordPub"
      <4>1. <<"decl", tokens[index], "visible">> \in Moves
        BY <3>4 DEF Moves, Token
      <4>2. Leading[index].at = "visible" /\ Leading[index].n = Len(decls)
        BY <1>4, <1>5, <3>1, <4>1, Takes DEF l
      <4>3. <<"visible", "KeywordFn", "fn">> \in Moves
        BY DEF Moves
      <4>4. tokens[i] # "KeywordFn" => tokens[i] \notin Allowed("visible")
        BY AllowedTokens
      <4> QED BY <3>1, <3>3, <4>2, <4>3, <4>4
    <3>5. CASE Token = "KeywordExport"
      <4>1. <<"decl", tokens[index], "export">> \in Moves
        BY <3>5 DEF Moves, Token
      <4>2. Leading[index].at = "export" /\ Leading[index].n = Len(decls)
        BY <1>4, <1>5, <3>1, <4>1, Takes DEF l
      <4>3. <<"export", "KeywordFn", "fn">> \in Moves
        BY DEF Moves
      <4>4. tokens[i] # "KeywordFn" => tokens[i] \notin Allowed("export")
        BY <1>5, <3>1, <3>5, AllowedTokens
      <4> QED BY <3>1, <3>3, <4>2, <4>3, <4>4
    <3> QED BY <3>2, <3>4, <3>5
  <2> QED BY <1>3, <2>1, <2>2
<1>8. /\ tokens[i] # "KeywordFn" => Settled
      /\ i1 <= l /\ tokens[i] = "KeywordFn" /\ tokens[i1] # "Symbol" => Settled
      /\ (/\ i2 <= l /\ tokens[i] = "KeywordFn" /\ tokens[i1] = "Symbol"
          /\ tokens[i2] # "LParen") => Settled
      /\ (/\ i2 <= l /\ tokens[i] = "KeywordFn" /\ tokens[i1] = "Symbol"
          /\ tokens[i2] = "LParen") =>
           Leading[i2].at = "params" /\ Leading[i2].n = Len(decls)
  <2>1. i = k + 1 /\ i1 = k + 2 /\ i2 = k + 3
    OBVIOUS
  <2> HIDE DEF k, i, i1, i2
  <2> QED BY <1>6, <1>7, <2>1, HeaderRest DEF l
<1> HIDE DEF k
<1>9. /\ ids[v + 1] = "KeywordFn" /\ ids[v + 2] = "Symbol" /\ ids[v + 3] = "LParen"
      /\ v = 1 => ids[1] = Token
  BY <1>3
<1>10. CASE Expects(ids)
  <2>1. index + v + 3 <= l
    <3>1. ids \in Seq(S) /\ index <= Len(tokens)
      BY <1>3, <1>4 DEF l
    <3>2. index + Len(ids) <= Len(tokens)
      BY <1>3, <1>10, <3>1, ExpectedTokens
    <3> QED BY <1>3, <1>4, <3>2 DEF l
  <2>2. tokens[i] = "KeywordFn" /\ tokens[i1] = "Symbol" /\ tokens[i2] = "LParen"
    <3> DEFINE a == v + 1
               b == v + 2
               c == v + 3
    <3>1. a \in 1..Len(ids) /\ b \in 1..Len(ids) /\ c \in 1..Len(ids)
      BY <1>3
    <3>2. index + a - 1 = i /\ index + b - 1 = i1 /\ index + c - 1 = i2
      BY <1>3, <1>4, <1>6
    <3> HIDE DEF a, b, c, i, i1, i2
    <3>3. tokens[index + a - 1] = ids[a] /\ tokens[index + b - 1] = ids[b]
          /\ tokens[index + c - 1] = ids[c]
      BY <1>10, <3>1, Found
    <3> QED BY <1>9, <3>2, <3>3 DEF a, b, c
  <2>3. i2 <= l
    BY <1>3, <1>4, <1>6, <2>1
  <2>4. Leading[i2].at = "params" /\ Leading[i2].n = Len(decls)
    BY <1>8, <2>2, <2>3
  <2>5. Go("params", got, <<>>, n) /\ decls' = decls /\ tokens' = tokens /\ outcome' = outcome
    BY <1>1, <1>10
  <2>6. Top'.fn = "fn_proto" /\ Top'.at = "params" /\ index' = index + n
    BY <1>1, <2>5, GoesHere
  <2> DEFINE f == Top'
             c == Caller'
             j == index'
             d == decls'
  <2>7. i2 = j - 1
    BY <1>3, <1>4, <1>6, <2>6
  <2>8. Fits(f, c, Leading[i2].at, tokens[j], tokens[j + 1]) /\ Pending(f) = 0
    BY <2>4, <2>6 DEF Fits, Pending
  <2>9. Leading[i2].n = Len(d) + Pending(f)
    BY <2>4, <2>5, <2>8, ListFacts
  <2> HIDE DEF f, c, i2, j, d
  <2>10. Synced'
    BY <2>5, <2>7, <2>8, <2>9, SyncsAt DEF f, c, j, d
  <2> QED BY <2>5, <2>10
<1>11. CASE ~Expects(ids)
  <2>1. FailAtFirst(ids) /\ index <= Len(tokens) /\ ids \in Seq(S)
    BY <1>1, <1>3, <1>4, <1>11 DEF l
  <2>2. tokens' = tokens /\ decls' = decls /\ outcome' = "error"
    BY <1>3, <2>1, FirstMismatch
  <2>3. PICK m \in 1..Len(ids) :
          /\ index + m - 1 <= Len(tokens) /\ tokens[index + m - 1] # ids[m]
          /\ \A j \in 1..m - 1 : tokens[index + j - 1] = ids[j]
    BY <1>3, <2>1, FirstMismatch
  <2>4. ~(m = 1 /\ v = 1)
    <3> SUFFICES ASSUME m = 1, v = 1 PROVE FALSE
      OBVIOUS
    <3>1. tokens[index + 1 - 1] # Token /\ index + 1 - 1 = index
      BY <1>4, <1>9, <2>3
    <3> QED BY <3>1 DEF Token
  <2>5. m = v + 1 \/ m = v + 2 \/ m = v + 3
    BY <1>3, <2>4
  <2> DEFINE a == v + 1
             b == v + 2
             c == v + 3
  <2>6. index + a - 1 = i /\ index + b - 1 = i1 /\ index + c - 1 = i2
    BY <1>3, <1>4, <1>6
  <2>7. ids[a] = "KeywordFn" /\ ids[b] = "Symbol" /\ ids[c] = "LParen"
    BY <1>9
  <2>8. (m = b => a \in 1..m - 1) /\ (m = c => a \in 1..m - 1 /\ b \in 1..m - 1)
    BY <1>3
  <2> HIDE DEF i, i1, i2, a, b, c
  <2>9. CASE m = a
    <3>1. tokens[i] # "KeywordFn"
      BY <2>3, <2>6, <2>7, <2>9
    <3> QED BY <1>8, <2>2, <3>1, SettledStays
  <2>10. CASE m = b
    <3>1. tokens[i] = "KeywordFn" /\ tokens[i1] # "Symbol" /\ i1 <= l
      BY <2>3, <2>6, <2>7, <2>8, <2>10 DEF l
    <3> QED BY <1>8, <2>2, <3>1, SettledStays
  <2>11. CASE m = c
    <3>1. tokens[i] = "KeywordFn" /\ tokens[i1] = "Symbol" /\ tokens[i2] # "LParen" /\ i2 <= l
      BY <2>3, <2>6, <2>7, <2>8, <2>11 DEF l
    <3> QED BY <1>8, <2>2, <3>1, SettledStays
  <2> QED BY <2>5, <2>9, <2>10, <2>11 DEF a, b, c
<1> QED BY <1>10, <1>11

-----------------------------------------------------------------------------
(* A header, its types and an empty body follow it.                        *)

(* A step that reads no token.                                             *)
LEMMA IdleSyncs ==
  ASSUME IInv, Synced, tokens' = tokens, decls' = decls, index' = index + 0,
         NEW f, Top' = f, NEW c, Caller' = c,
         Fits(f, c, Leading[index - 1].at, Token, tokens[index + 1]), Pending(f) = Pending(Top)
  PROVE  Synced'
<1> DEFINE j == index - 1
           i == index'
           d == decls'
<1>1. i = index /\ j = i - 1
  BY TopFacts
<1>2. Fits(f, c, Leading[j].at, tokens[i], tokens[i + 1]) /\ Leading[j].n = Len(d) + Pending(f)
  BY <1>1 DEF Synced, Token
<1> HIDE DEF j, i, d
<1> QED BY <1>1, <1>2, SyncsAt DEF i, d

(* A step over one token, from a state q to a state r.                     *)
LEMMA OneSyncs ==
  ASSUME IInv, index <= Len(tokens), tokens' = tokens, decls' = decls, index' = index + 1,
         NEW q, Leading[index - 1].at = q, Leading[index - 1].n = Len(decls),
         NEW r, <<q, Token, r>> \in Moves,
         NEW f, Top' = f, NEW c, Caller' = c, Fits(f, c, r, tokens[index + 1], tokens[index + 2]),
         Pending(f) = IF r = "decl" /\ q # "value" THEN 1 ELSE 0
  PROVE  Synced'
<1> DEFINE k == index - 1
           j == index
           i == index'
           d == decls'
           h == i + 1
<1>1. k \in Nat /\ j = k + 1 /\ j = i - 1 /\ i = index + 1 /\ h = index + 2
  <2>1. index \in Nat /\ index >= 1
    BY TopFacts
  <2> QED BY ONLY <2>1, index' = index + 1
<1>2. Leading[k].at = q /\ Leading[k].n = Len(d) /\ <<q, tokens[j], r>> \in Moves
  BY DEF Token
<1>3. /\ Leading[j].at = r
      /\ Leading[j].n = IF r = "decl" /\ q # "value" THEN Leading[k].n + 1 ELSE Leading[k].n
  <2>1. j <= Len(tokens)
    OBVIOUS
  <2> HIDE DEF k, j, i, d
  <2>2. k \in Nat /\ j = k + 1
    BY <1>1
  <2>3. Leading[k].at = q /\ <<q, tokens[j], r>> \in Moves
    BY <1>2
  <2> QED BY ONLY IInv, <2>1, <2>2, <2>3, Takes
<1> HIDE DEF k
<1>4. Len(d) \in Nat
  BY ListFacts
<1>5. Leading[j].n = Len(d) + Pending(f)
  BY <1>2, <1>3, <1>4
<1>6. Fits(f, c, Leading[j].at, tokens[i], tokens[h])
  BY <1>1, <1>3
<1> HIDE DEF j, i, d
<1> QED BY <1>1, <1>5, <1>6, SyncsAt DEF i, d

(* A token that may not come next.                                         *)
LEMMA RejectsNext ==
  ASSUME IInv, index <= Len(tokens), tokens' = tokens, decls' = decls,
         Leading[index - 1].n = Len(decls), Token \notin Allowed(Leading[index - 1].at)
  PROVE  Settled'
<1> DEFINE k == index - 1
           j == index
<1>1. k \in Nat /\ j = k + 1
  BY TopFacts
<1>2. tokens[j] \notin Allowed(Leading[k].at) /\ Leading[k].n = Len(decls)
  BY DEF Token
<1> HIDE DEF k
<1>3. Settled
  BY <1>1, <1>2, Rejects
<1> QED BY <1>3, SettledStays

(* Where it reads or waits for a header or a type.                         *)
LEMMA NoPending ==
  ASSUME IInv, Synced, Top.fn \in {"fn_proto", "type", "block"}, Top.at # "fn_def"
  PROVE  Pending(Top) = 0 /\ Leading[index - 1].n = Len(decls)
<1>1. Pending(Top) = 0
  BY DEF Pending
<1> QED BY <1>1, ListFacts DEF Synced

(* A definition has its header, or its body.                               *)
LEMMA FnDefSyncs ==
  ASSUME IInv, Synced, FnBody \/ EndFnDef
  PROVE  Synced'
<1>1. CASE FnBody
  <2> DEFINE b == Frame("block", "start", TRUE, index)
             c == Caller'
  <2>1. /\ Top.fn = "fn_def" /\ Top.at = "proto" /\ tokens' = tokens /\ decls' = decls
        /\ Go("body", result, <<b>>, 0)
    BY <1>1 DEF FnBody, Active, Continue, context, input
  <2>2. b.fn = "block" /\ b.at = "start"
    BY DEF Frame
  <2> HIDE DEF b
  <2>3. Top' = b /\ index' = index + 0
    BY <2>1, GoesThere
  <2>4. Fits(b, c, Leading[index - 1].at, Token, tokens[index + 1]) /\ Pending(b) = Pending(Top)
    BY <2>1, <2>2 DEF Synced, Fits, Pending
  <2> HIDE DEF c
  <2> QED BY <2>1, <2>3, <2>4, IdleSyncs DEF c
<1>2. CASE EndFnDef
  <2> DEFINE c == Caller'
             f == Top'
  <2>1. /\ Top.fn = "fn_def" /\ Top.at = "body" /\ tokens' = tokens /\ decls' = decls
        /\ Return(Top.got \o result, 0)
    BY <1>2 DEF EndFnDef, Active, Continue, context, input
  <2>2. Top' = Caller /\ index' = index + 0 /\ Awaits(Caller, Top)
    BY <2>1, GoesBack
  <2>3. f.fn = "top_level_decl" /\ f.at = "fn_def"
    BY <2>1, <2>2, Awaiting
  <2>4. Fits(f, c, Leading[index - 1].at, Token, tokens[index + 1]) /\ Pending(f) = Pending(Top)
    BY <2>1, <2>3 DEF Synced, Fits, Pending
  <2> HIDE DEF c, f
  <2> QED BY <2>1, <2>2, <2>4, IdleSyncs DEF c, f
<1> QED BY <1>1, <1>2

(* The parameters.                                                         *)
LEMMA NoParamsSyncs ==
  ASSUME IInv, Synced, NoParams
  PROVE  Synced'
<1> DEFINE f == Top'
           c == Caller'
<1>1. /\ Top.fn = "fn_proto" /\ Top.at = "params" /\ Token = "RParen"
      /\ tokens' = tokens /\ decls' = decls /\ Go("arrow", Top.got, <<>>, 1)
  BY DEF NoParams, Active, Continue, context, input
<1>2. f.fn = "fn_proto" /\ f.at = "arrow" /\ index' = index + 1
  BY <1>1, GoesHere
<1>3. /\ Leading[index - 1].at = "params" /\ Leading[index - 1].n = Len(decls)
      /\ <<"params", Token, "arrow">> \in Moves /\ index <= Len(tokens)
  <2>1. index \in 1..Len(tokens)
    BY <1>1, TopReads DEF Reading
  <2> QED BY <1>1, <2>1, NoPending DEF Synced, Fits, Moves
<1>4. Fits(f, c, "arrow", tokens[index + 1], tokens[index + 2]) /\ Pending(f) = 0
  BY <1>2 DEF Fits, Pending
<1> HIDE DEF f, c
<1> QED BY <1>1, <1>2, <1>3, <1>4, OneSyncs DEF f, c

(* The end of a parameter.                                                 *)
LEMMA EndParamSyncs ==
  ASSUME IInv, Synced, EndParam
  PROVE  (Synced' /\ outcome' = outcome) \/ (outcome' = "error" /\ Settled')
<1> DEFINE f == Top'
           c == Caller'
           got == Top.got \o result
<1>1. /\ Top.fn = "fn_proto" /\ Top.at = "param" /\ tokens' = tokens /\ decls' = decls
      /\ \/ Token = "RParen" /\ Go("arrow", got, <<>>, 1) /\ outcome' = outcome
         \/ Token = "Comma" /\ Go("next_param", got, <<>>, 1) /\ outcome' = outcome
         \/ Token \notin {"RParen", "Comma"} /\ outcome' = "error"
  BY DEF EndParam, Active, Continue, context, input, Fail
<1>2. index <= Len(tokens)
  <2>1. index \in 1..Len(tokens)
    BY <1>1, TopHas DEF Reading
  <2> QED BY <2>1
<1>3. Leading[index - 1].at = "param_end" /\ Leading[index - 1].n = Len(decls)
  BY <1>1, NoPending DEF Synced, Fits
<1>4. ASSUME NEW at \in {"arrow", "next_param"}, <<"param_end", Token, at>> \in Moves,
             Go(at, got, <<>>, 1)
      PROVE  Synced'
  <2> HIDE DEF got
  <2>1. f.fn = "fn_proto" /\ f.at = at /\ index' = index + 1
    BY <1>1, <1>4, GoesHere
  <2>2. Fits(f, c, at, tokens[index + 1], tokens[index + 2]) /\ Pending(f) = 0 /\ at # "decl"
    BY <2>1 DEF Fits, Pending
  <2> HIDE DEF f, c
  <2> QED BY <1>1, <1>2, <1>3, <1>4, <2>1, <2>2, OneSyncs DEF f, c
<1>5. CASE Token = "RParen" /\ Go("arrow", got, <<>>, 1) /\ outcome' = outcome
  <2>1. <<"param_end", Token, "arrow">> \in Moves
    BY <1>5 DEF Moves
  <2> QED BY <1>4, <1>5, <2>1
<1>6. CASE Token = "Comma" /\ Go("next_param", got, <<>>, 1) /\ outcome' = outcome
  <2>1. <<"param_end", Token, "next_param">> \in Moves
    BY <1>6 DEF Moves
  <2> QED BY <1>4, <1>6, <2>1
<1>7. CASE Token \notin {"RParen", "Comma"} /\ outcome' = "error"
  <2>1. Token \notin Allowed("param_end")
    BY <1>7, AllowedTokens
  <2> QED BY <1>1, <1>2, <1>3, <1>7, <2>1, RejectsNext
<1> QED BY <1>1, <1>5, <1>6, <1>7

(* The type that is returned.                                              *)
LEMMA ArrowSyncs ==
  ASSUME IInv, Synced, Arrow
  PROVE  Synced'
<1>1. Top.fn = "fn_proto" /\ Top.at = "arrow" /\ tokens' = tokens /\ decls' = decls
  BY DEF Arrow, Active, Continue, context, input
<1>2. Leading[index - 1].at = "arrow" /\ Leading[index - 1].n = Len(decls) /\ Pending(Top) = 0
  BY <1>1, NoPending DEF Synced, Fits
<1>3. CASE Token = "Arrow"
  <2> DEFINE t == Frame("type", "start", TRUE, index + 1)
             c == Caller'
  <2>1. Go("return_type", Top.got, <<t>>, 1)
    BY <1>3 DEF Arrow
  <2>2. t.fn = "type" /\ t.at = "start"
    BY DEF Frame
  <2> HIDE DEF t
  <2>3. Top' = t /\ c.fn = "fn_proto" /\ c.at = "return_type" /\ index' = index + 1
    BY <1>1, <2>1, GoesThere
  <2>4. index <= Len(tokens)
    <3>1. index \in 1..Len(tokens)
      BY <1>1, TopReads DEF Reading
    <3> QED BY <3>1
  <2>5. <<"arrow", Token, "return_type">> \in Moves
    BY <1>3 DEF Moves
  <2>6. Fits(t, c, "return_type", tokens[index + 1], tokens[index + 2]) /\ Pending(t) = 0
    BY <2>2, <2>3 DEF Fits, Pending
  <2> HIDE DEF c
  <2> QED BY <1>1, <1>2, <2>3, <2>4, <2>5, <2>6, OneSyncs DEF c
<1>4. CASE Token # "Arrow"
  <2> DEFINE c == Caller'
             f == Top'
  <2>1. Return(Top.got, 0)
    BY <1>4 DEF Arrow
  <2>2. Top' = Caller /\ index' = index + 0 /\ Awaits(Caller, Top)
    BY <1>1, <2>1, GoesBack
  <2>3. f.fn = "fn_def" /\ f.at = "proto"
    BY <1>1, <2>2, Awaiting
  <2>4. Fits(f, c, Leading[index - 1].at, Token, tokens[index + 1]) /\ Pending(f) = Pending(Top)
    BY <1>2, <1>4, <2>3 DEF Fits, Pending
  <2> HIDE DEF c, f
  <2> QED BY <1>1, <2>2, <2>4, IdleSyncs DEF c, f
<1> QED BY <1>3, <1>4

(* The end of a header.                                                    *)
LEMMA EndFnProtoSyncs ==
  ASSUME IInv, Synced, EndFnProto
  PROVE  Synced'
<1> DEFINE c == Caller'
           f == Top'
<1>1. /\ Top.fn = "fn_proto" /\ Top.at = "return_type" /\ tokens' = tokens /\ decls' = decls
      /\ Return(Top.got \o result, 0)
  BY DEF EndFnProto, Active, Continue, context, input
<1>2. Leading[index - 1].at = "end" /\ Leading[index - 1].n = Len(decls) /\ Pending(Top) = 0
  BY <1>1, NoPending DEF Synced, Fits
<1>3. Top' = Caller /\ index' = index + 0 /\ Awaits(Caller, Top)
  BY <1>1, GoesBack
<1>4. f.fn = "fn_def" /\ f.at = "proto"
  BY <1>1, <1>3, Awaiting
<1>5. Fits(f, c, Leading[index - 1].at, Token, tokens[index + 1]) /\ Pending(f) = Pending(Top)
  BY <1>2, <1>4 DEF Fits, Pending
<1> HIDE DEF c, f
<1> QED BY <1>1, <1>3, <1>5, IdleSyncs DEF c, f

(* Who called the innermost activation, until a statement is open.         *)
LEMMA SimpleCaller ==
  ASSUME IInv, Simple, Top.fn \in {"type", "block"}
  PROVE  /\ Len(stack) >= 2 /\ Awaits(Caller, Top)
         /\ Top.fn = "type" => Caller.fn = "fn_proto" /\ Caller.at \in {"param", "return_type"}
         /\ Top.fn = "block" => Caller.fn = "fn_def" /\ Caller.at = "body" /\ Top.mandatory
<1> DEFINE b == Len(stack)
<1>1. /\ b \in Nat /\ b >= 1 /\ Top = stack[1] /\ stack[b].fn = "top_level_decl"
      /\ \A k \in 1..b - 1 : Awaits(stack[k + 1], stack[k])
  BY TopFacts DEF IInv, StackOK
<1>2. b >= 2
  BY <1>1
<1> DEFINE k == 1 + 1
<1>3. 1 \in 1..b - 1 /\ k = 2 /\ k \in 1..b
  BY <1>1, <1>2
<1>4. Awaits(stack[k], Top)
  BY <1>1, <1>3
<1>5. DOMAIN stack = 1..b
  BY TopFacts, LenProperties
<1> HIDE DEF k, b
<1>6. Awaits(Caller, Top) /\ InHeader(Caller)
  BY <1>3, <1>4, <1>5 DEF Caller, Simple
<1>7. Caller.fn \in HeaderFn /\ (Caller.fn = "block" => Caller.at \in {"start", "statements"})
  BY <1>6 DEF InHeader
<1> DEFINE c == Caller
           t == Top
<1> HIDE DEF c, t
<1>8. t.fn = "type" => c.fn = "fn_proto" /\ c.at \in {"param", "return_type"}
  <2>1. Awaits(c, t) /\ c.fn \in HeaderFn
    BY <1>6, <1>7 DEF c, t
  <2> QED BY <2>1, Awaited DEF HeaderFn
<1>9. t.fn = "block" => c.fn = "fn_def" /\ c.at = "body" /\ t.mandatory
  <2>1. Awaits(c, t) /\ c.fn \in HeaderFn
    BY <1>6, <1>7 DEF c, t
  <2> QED BY <2>1, Awaited DEF HeaderFn
<1> QED BY <1>2, <1>6, <1>8, <1>9 DEF c, t, b

(* A type.                                                                 *)
LEMMA PrimitiveTypeSyncs ==
  ASSUME IInv, Simple, Synced, PrimitiveType
  PROVE  (Synced' /\ outcome' = outcome) \/ (outcome' = "error" /\ Settled')
<1>1. /\ Top.fn = "type" /\ Top.at = "start" /\ tokens' = tokens /\ decls' = decls
      /\ IF Token \in {"KeywordUnreachable", "Symbol"}
         THEN Return(Top.got \o <<index>>, 1) /\ outcome' = outcome ELSE outcome' = "error"
      /\ Token # "Star"
  BY DEF PrimitiveType, Active, Continue, context, input, Fail
<1>2. index <= Len(tokens)
  <2>1. index \in 1..Len(tokens)
    BY <1>1, TopReads DEF Reading
  <2> QED BY <2>1
<1>3. /\ Leading[index - 1].n = Len(decls)
      /\ \/ Caller.at = "param" /\ Leading[index - 1].at = "type"
         \/ Caller.at = "return_type" /\ Leading[index - 1].at = "return_type"
  BY <1>1, NoPending DEF Synced, Fits
<1>4. Caller.fn = "fn_proto"
  BY <1>1, SimpleCaller
<1>5. CASE Token \in {"KeywordUnreachable", "Symbol"}
  <2> DEFINE f == Top'
             c == Caller'
  <2>1. Top' = Caller /\ index' = index + 1
    BY <1>1, <1>5, GoesBack
  <2>2. f.fn = "fn_proto" /\ f.at = Caller.at
    BY <1>4, <2>1
  <2>3. CASE Caller.at = "param" /\ Leading[index - 1].at = "type"
    <3>1. <<"type", Token, "param_end">> \in Moves
      BY <1>5 DEF Moves
    <3>2. Fits(f, c, "param_end", tokens[index + 1], tokens[index + 2]) /\ Pending(f) = 0
      BY <2>2, <2>3 DEF Fits, Pending
    <3> HIDE DEF f, c
    <3>3. Synced'
      BY <1>1, <1>2, <1>3, <2>1, <2>3, <3>1, <3>2, OneSyncs DEF f, c
    <3> QED BY <1>1, <1>5, <3>3
  <2>4. CASE Caller.at = "return_type" /\ Leading[index - 1].at = "return_type"
    <3>1. <<"return_type", Token, "end">> \in Moves
      BY <1>5 DEF Moves
    <3>2. Fits(f, c, "end", tokens[index + 1], tokens[index + 2]) /\ Pending(f) = 0
      BY <2>2, <2>4 DEF Fits, Pending
    <3> HIDE DEF f, c
    <3>3. Synced'
      BY <1>1, <1>2, <1>3, <2>1, <2>4, <3>1, <3>2, OneSyncs DEF f, c
    <3> QED BY <1>1, <1>5, <3>3
  <2> QED BY <1>3, <2>3, <2>4
<1>6. CASE Token \notin {"KeywordUnreachable", "Symbol"}
  <2>1. Token \notin Allowed("type") /\ Token \notin Allowed("return_type")
    BY <1>1, <1>6, AllowedTokens
  <2> QED BY <1>1, <1>2, <1>3, <1>6, <2>1, RejectsNext
<1> QED BY <1>5, <1>6

(* A block that is the body of a function.                                 *)
LEMMA BlockSyncs ==
  ASSUME IInv, Simple, Synced, BeginBlock
  PROVE  (Synced' /\ outcome' = outcome) \/ (outcome' = "error" /\ Settled')
<1>1. /\ Top.fn = "block" /\ Top.at = "start" /\ tokens' = tokens /\ decls' = decls
      /\ \/ Token = "LBrace" /\ Go("statements", <<index>>, <<>>, 1) /\ outcome' = outcome
         \/ Token # "LBrace" /\ ~Top.mandatory
         \/ Token # "LBrace" /\ outcome' = "error"
  BY DEF BeginBlock, Active, Continue, context, input, Fail
<1>2. index <= Len(tokens)
  <2>1. index \in 1..Len(tokens)
    BY <1>1, TopReads DEF Reading
  <2> QED BY <2>1
<1> DEFINE q == Leading[index - 1].at
<1>3. /\ Leading[index - 1].n = Len(decls)
      /\ q = "end" \/ (q = "arrow" /\ Token # "Arrow")
  <2> HIDE DEF q
  <2>1. Fits(Top, Caller, q, Token, tokens[index + 1])
    BY DEF Synced, q
  <2>2. q = "end" \/ (q = "arrow" /\ Token # "Arrow")
    BY <1>1, <2>1 DEF Fits
  <2> QED BY <1>1, <2>2, NoPending
<1>4. Top.mandatory
  BY <1>1, SimpleCaller
<1>5. CASE Token = "LBrace" /\ Go("statements", <<index>>, <<>>, 1) /\ outcome' = outcome
  <2> DEFINE f == Top'
             c == Caller'
             got == <<index>>
  <2>1. f.fn = "block" /\ f.at = "statements" /\ index' = index + 1
    <3>1. Go("statements", got, <<>>, 1)
      BY <1>5
    <3> HIDE DEF got
    <3> QED BY <1>1, <3>1, GoesHere
  <2>2. <<q, Token, "body">> \in Moves
    <3> HIDE DEF q
    <3>1. <<"end", "LBrace", "body">> \in Moves /\ <<"arrow", "LBrace", "body">> \in Moves
      BY DEF Moves
    <3> QED BY <1>3, <1>5, <3>1
  <2>3. Fits(f, c, "body", tokens[index + 1], tokens[index + 2]) /\ Pending(f) = 0
    BY <2>1 DEF Fits, Pending
  <2> HIDE DEF f, c
  <2>4. Synced'
    BY <1>1, <1>2, <1>3, <2>1, <2>2, <2>3, OneSyncs DEF f, c
  <2> QED BY <1>5, <2>4
<1>6. CASE Token # "LBrace" /\ outcome' = "error"
  <2>1. Token \notin Allowed(q)
    <3> HIDE DEF q
    <3> QED BY <1>3, <1>6, AllowedTokens
  <2> QED BY <1>1, <1>2, <1>3, <1>6, <2>1, RejectsNext
<1> QED BY <1>1, <1>4, <1>5, <1>6

(* Its end.                                                                *)
LEMMA EndBlockSyncs ==
  ASSUME IInv, Simple, Synced, EndBlock
  PROVE  Synced'
<1> DEFINE f == Top'
           c == Caller'
<1>1. /\ Top.fn = "block" /\ Top.at = "statements" /\ tokens' = tokens /\ decls' = decls
      /\ Token = "RBrace" /\ Return(Top.got, 1)
  BY DEF EndBlock, Active, Continue, context, input
<1>2. index <= Len(tokens)
  <2>1. index \in 1..Len(tokens)
    BY <1>1, TopReads DEF Reading
  <2> QED BY <2>1
<1>3. Leading[index - 1].n = Len(decls) /\ Leading[index - 1].at = "body"
  BY <1>1, NoPending DEF Synced, Fits
<1>4. Top' = Caller /\ index' = index + 1
  BY <1>1, GoesBack
<1>5. f.fn = "fn_def" /\ f.at = "body"
  BY <1>1, <1>4, SimpleCaller
<1>6. <<"body", Token, "decl">> \in Moves
  BY <1>1 DEF Moves
<1>7. Fits(f, c, "decl", tokens[index + 1], tokens[index + 2]) /\ Pending(f) = 1
  BY <1>5 DEF Fits, Pending
<1> HIDE DEF f, c
<1> QED BY <1>1, <1>2, <1>3, <1>4, <1>6, <1>7, OneSyncs DEF f, c

(* A statement cannot be finished.                                         *)
LEMMA StatementSettles ==
  ASSUME IInv, Synced, Statement
  PROVE  Settled'
<1>1. /\ Top.fn = "block" /\ Top.at = "statements" /\ tokens' = tokens /\ decls' = decls
      /\ Token # "RBrace"
  BY DEF Statement, Active, Continue, context, input
<1>2. index <= Len(tokens)
  <2>1. index \in 1..Len(tokens)
    BY <1>1, TopReads DEF Reading
  <2> QED BY <2>1
<1>3. Leading[index - 1].n = Len(decls) /\ Leading[index - 1].at = "body"
  BY <1>1, NoPending DEF Synced, Fits
<1>4. Token \notin Allowed("body")
  BY <1>1, AllowedTokens
<1> QED BY <1>1, <1>2, <1>3, <1>4, RejectsNext

(* A step over two tokens.                                                 *)
LEMMA TwoSyncs ==
  ASSUME IInv, index + 1 <= Len(tokens), tokens' = tokens, decls' = decls, index' = index + 2,
         NEW q, Leading[index - 1].at = q, Leading[index - 1].n = Len(decls),
         NEW p, <<q, Token, p>> \in Moves, p # "decl",
         NEW r, <<p, tokens[index + 1], r>> \in Moves, r # "decl",
         NEW f, Top' = f, NEW c, Caller' = c, Fits(f, c, r, tokens[index + 2], tokens[index + 3]),
         Pending(f) = 0
  PROVE  Synced'
<1> DEFINE k == index - 1
           j == index
           m == index + 1
           i == index'
           d == decls'
           h == i + 1
<1>1. k \in Nat /\ j = k + 1 /\ j \in Nat /\ m = j + 1 /\ m = i - 1 /\ i = index + 2
      /\ h = index + 3 /\ j <= Len(tokens) /\ m <= Len(tokens)
  <2>1. index \in Nat /\ index >= 1 /\ Len(tokens) \in Nat
    BY TopFacts
  <2> QED BY ONLY <2>1, index + 1 <= Len(tokens), index' = index + 2
<1>2. Leading[k].at = q /\ Leading[k].n = Len(d) /\ <<q, tokens[j], p>> \in Moves
  BY DEF Token
<1>3. Leading[j].at = p /\ Leading[j].n = Leading[k].n
  <2> HIDE DEF k, j, m, i, d, h
  <2>1. k \in Nat /\ j = k + 1 /\ j <= Len(tokens)
    BY <1>1
  <2> QED BY ONLY IInv, <1>2, <2>1, p # "decl", Takes
<1>4. Leading[m].at = r /\ Leading[m].n = Leading[j].n
  <2>1. <<p, tokens[m], r>> \in Moves
    OBVIOUS
  <2> HIDE DEF k, j, m, i, d, h
  <2>2. j \in Nat /\ m = j + 1 /\ m <= Len(tokens)
    BY <1>1
  <2> QED BY ONLY IInv, <1>3, <2>1, <2>2, r # "decl", Takes
<1>5. Leading[m].n = Len(d) + Pending(f)
  BY <1>2, <1>3, <1>4, ListFacts
<1>6. Fits(f, c, Leading[m].at, tokens[i], tokens[h])
  BY <1>1, <1>4
<1> HIDE DEF k, j, m, i, d
<1> QED BY <1>1, <1>5, <1>6, SyncsAt DEF i, d

(* The second of two tokens may not come.                                  *)
LEMMA RejectsSecond ==
  ASSUME IInv, index + 1 <= Len(tokens), tokens' = tokens, decls' = decls,
         NEW q, Leading[index - 1].at = q, Leading[index - 1].n = Len(decls),
         NEW p, <<q, Token, p>> \in Moves, p # "decl", tokens[index + 1] \notin Allowed(p)
  PROVE  Settled'
<1> DEFINE k == index - 1
           j == index
           m == index + 1
<1>1. k \in Nat /\ j = k + 1 /\ j \in Nat /\ m = j + 1 /\ j <= Len(tokens) /\ m <= Len(tokens)
  BY TopFacts
<1>2. Leading[k].at = q /\ Leading[k].n = Len(decls) /\ <<q, tokens[j], p>> \in Moves
  BY DEF Token
<1>3. Leading[j].at = p /\ Leading[j].n = Leading[k].n
  <2> HIDE DEF k, j
  <2> QED BY <1>1, <1>2, Takes
<1>4. Settled
  <2>1. tokens[m] \notin Allowed(p)
    OBVIOUS
  <2> HIDE DEF m, j
  <2> QED BY <1>1, <1>2, <1>3, <2>1, Rejects
<1> QED BY <1>4, SettledStays

(* A pointer.                                                              *)
LEMMA PointerTypeSyncs ==
  ASSUME IInv, Simple, Synced, PointerType
  PROVE  (Synced' /\ outcome' = outcome) \/ (outcome' = "error" /\ Settled')
<1> DEFINE got == Top.got \o <<index, index + 1>>
           u == tokens[index + 1]
<1>1. /\ Top.fn = "type" /\ Top.at = "start" /\ tokens' = tokens /\ decls' = decls
      /\ Token = "Star"
      /\ IF u \in {"KeywordMut", "KeywordConst"}
         THEN Go("start", got, <<>>, 2) /\ outcome' = outcome ELSE outcome' = "error"
  BY DEF PointerType, Active, Continue, context, input, Fail
<1> HIDE DEF got
<1>2. index + 1 <= Len(tokens)
  <2>1. index \in 1..Len(tokens)
    BY <1>1, TopReads DEF Reading
  <2>2. tokens[index] # "Eof"
    BY <1>1 DEF Token
  <2>3. index + 1 \in 1..Len(tokens)
    BY <2>1, <2>2, TokenBehind
  <2> QED BY <2>3, TopFacts
<1>3. /\ Leading[index - 1].n = Len(decls)
      /\ \/ Caller.at = "param" /\ Leading[index - 1].at = "type"
         \/ Caller.at = "return_type" /\ Leading[index - 1].at = "return_type"
  BY <1>1, NoPending DEF Synced, Fits
<1>4. Caller.fn = "fn_proto" /\ Len(stack) >= 2
  BY <1>1, SimpleCaller
<1>5. <<"type", Token, "pointer">> \in Moves /\ <<"return_type", Token, "return_pointer">> \in Moves
  BY <1>1 DEF Moves
<1>6. CASE u \in {"KeywordMut", "KeywordConst"}
  <2> DEFINE f == Top'
             c == Caller'
  <2>1. /\ f.fn = "type" /\ f.at = "start" /\ c = Caller /\ index' = index + 2
    BY <1>1, <1>4, <1>6, GoesHere
  <2>2. <<"pointer", u, "type">> \in Moves /\ <<"return_pointer", u, "return_type">> \in Moves
    BY <1>6 DEF Moves
  <2>3. Pending(f) = 0
    BY <2>1 DEF Pending
  <2>4. CASE Caller.at = "param" /\ Leading[index - 1].at = "type"
    <3>1. Fits(f, c, "type", tokens[index + 2], tokens[index + 3])
      BY <1>4, <2>1, <2>4 DEF Fits
    <3> HIDE DEF f, c
    <3>2. f = Top' /\ c = Caller'
      BY DEF f, c
    <3>3. Synced'
      BY <1>1, <1>2, <1>3, <1>5, <2>1, <2>2, <2>3, <2>4, <3>1, <3>2, TwoSyncs
    <3> QED BY <1>1, <1>6, <3>3
  <2>5. CASE Caller.at = "return_type" /\ Leading[index - 1].at = "return_type"
    <3>1. Fits(f, c, "return_type", tokens[index + 2], tokens[index + 3])
      BY <1>4, <2>1, <2>5 DEF Fits
    <3> HIDE DEF f, c
    <3>2. f = Top' /\ c = Caller'
      BY DEF f, c
    <3>3. Synced'
      BY <1>1, <1>2, <1>3, <1>5, <2>1, <2>2, <2>3, <2>5, <3>1, <3>2, TwoSyncs
    <3> QED BY <1>1, <1>6, <3>3
  <2> QED BY <1>3, <2>4, <2>5
<1>7. CASE u \notin {"KeywordMut", "KeywordConst"}
  <2>1. u \notin Allowed("pointer") /\ u \notin Allowed("return_pointer")
    BY <1>7, AllowedTokens
  <2> HIDE DEF u
  <2>2. Settled'
    <3>1. CASE Leading[index - 1].at = "type"
      BY <1>1, <1>2, <1>3, <1>5, <2>1, <3>1, RejectsSecond DEF u
    <3>2. CASE Leading[index - 1].at = "return_type"
      BY <1>1, <1>2, <1>3, <1>5, <2>1, <3>2, RejectsSecond DEF u
    <3> QED BY <1>3, <3>1, <3>2
  <2> QED BY <1>1, <1>7, <2>2
<1> QED BY <1>6, <1>7

(* The name of a parameter.                                                *)
LEMMA ParamDeclSyncs ==
  ASSUME IInv, Synced, ParamDecl
  PROVE  (Synced' /\ outcome' = outcome) \/ (outcome' = "error" /\ Settled')
<1> DEFINE ids == <<"Symbol", "Colon">>
           got == Top.got \o <<index>>
           t == Frame("type", "start", TRUE, index + 2)
           S == {"Symbol", "Colon"}
           q == Leading[index - 1].at
<1>1. /\ Top.fn = "fn_proto" /\ Top.at \in {"params", "next_param"}
      /\ Top.at = "params" => Token # "RParen"
      /\ IF Expects(ids)
         THEN /\ Go("param", got, <<t>>, 2) /\ tokens' = tokens /\ decls' = decls
              /\ outcome' = outcome
         ELSE FailAtFirst(ids)
  BY DEF ParamDecl, Active, Continue, context, input
<1>2. t.fn = "type" /\ t.at = "start"
  BY DEF Frame
<1>3. ids \in Seq(S) /\ Len(ids) = 2 /\ ids[1] = "Symbol" /\ ids[2] = "Colon"
  OBVIOUS
<1> HIDE DEF got, t, ids, S
<1>4. \A m \in 1..2 : m = 1 \/ m = 2
  OBVIOUS
<1>5. \A m \in 1..Len(ids) : ids[m] # "Eof"
  BY <1>3, <1>4
<1>6. index \in 1..Len(tokens) /\ index <= Len(tokens) /\ Len(tokens) \in Nat
  <2>1. index \in 1..Len(tokens)
    BY <1>1, TopReads DEF Reading
  <2> QED BY <2>1, TopFacts
<1>7. /\ Leading[index - 1].n = Len(decls)
      /\ q = Top.at /\ q \in {"params", "next_param"}
  <2> HIDE DEF q
  <2>1. Fits(Top, Caller, q, Token, tokens[index + 1])
    BY DEF Synced, q
  <2>2. q = Top.at /\ q \in {"params", "next_param"}
    BY <1>1, <2>1 DEF Fits
  <2> QED BY <1>1, <2>2, NoPending
<1> HIDE DEF q
<1>8. Token = "Symbol" => <<q, Token, "param">> \in Moves
  <2>1. <<"params", "Symbol", "param">> \in Moves /\ <<"next_param", "Symbol", "param">> \in Moves
    BY DEF Moves
  <2> QED BY <1>7, <2>1
<1>9. index + 1 - 1 = index /\ index + 2 - 1 = index + 1
  BY <1>6
<1>10. CASE Expects(ids)
  <2>1. Token = "Symbol" /\ tokens[index + 1] = "Colon"
    <3>1. 1 \in 1..Len(ids) /\ 2 \in 1..Len(ids)
      BY <1>3
    <3>2. tokens[index + 1 - 1] = ids[1] /\ tokens[index + 2 - 1] = ids[2]
      BY <1>10, <3>1, Found
    <3> QED BY <1>3, <1>9, <3>2 DEF Token
  <2>2. index + 1 <= Len(tokens)
    <3>1. index + Len(ids) <= Len(tokens)
      BY <1>3, <1>5, <1>6, <1>10, ExpectedTokens
    <3> QED BY <1>3, <1>6, <3>1
  <2>3. /\ Go("param", got, <<t>>, 2) /\ tokens' = tokens /\ decls' = decls
        /\ outcome' = outcome
    BY <1>1, <1>10
  <2> DEFINE c == Caller'
  <2>4. Top' = t /\ c.fn = "fn_proto" /\ c.at = "param" /\ index' = index + 2
    BY <1>1, <2>3, GoesThere
  <2>5. Fits(t, c, "type", tokens[index + 2], tokens[index + 3]) /\ Pending(t) = 0
    BY <1>2, <2>4 DEF Fits, Pending
  <2>6. <<"param", tokens[index + 1], "type">> \in Moves
    BY <2>1 DEF Moves
  <2> HIDE DEF c
  <2>7. c = Caller' /\ Leading[index - 1].at = q
    BY DEF c, q
  <2>8. Synced'
    BY <1>7, <1>8, <2>1, <2>2, <2>3, <2>4, <2>5, <2>6, <2>7, TwoSyncs
  <2> QED BY <2>3, <2>8
<1>11. CASE ~Expects(ids)
  <2>1. FailAtFirst(ids)
    BY <1>1, <1>11
  <2>2. tokens' = tokens /\ decls' = decls /\ outcome' = "error"
    BY <1>3, <1>5, <1>6, <2>1, FirstMismatch
  <2>3. PICK m \in 1..Len(ids) :
          /\ index + m - 1 <= Len(tokens) /\ tokens[index + m - 1] # ids[m]
          /\ \A j \in 1..m - 1 : tokens[index + j - 1] = ids[j]
    BY <1>3, <1>5, <1>6, <2>1, FirstMismatch
  <2>4. Leading[index - 1].at = q
    BY DEF q
  <2>5. CASE m = 1
    <3>1. Token # "Symbol"
      BY <1>3, <1>9, <2>3, <2>5 DEF Token
    <3>2. Token \notin Allowed(Leading[index - 1].at)
      BY <1>1, <1>7, <2>4, <3>1, AllowedTokens
    <3> QED BY <1>6, <1>7, <2>2, <3>2, RejectsNext
  <2>6. CASE m = 2
    <3>1. tokens[index + 1] # "Colon" /\ index + 1 <= Len(tokens)
      BY <1>3, <1>9, <2>3, <2>6
    <3>2. Token = "Symbol"
      <4>1. 1 \in 1..m - 1
        BY <2>6
      <4>2. tokens[index + 1 - 1] = ids[1]
        BY <2>3, <4>1
      <4> QED BY <1>3, <1>9, <4>2 DEF Token
    <3>3. tokens[index + 1] \notin Allowed("param")
      BY <3>1, AllowedTokens
    <3> QED BY <1>7, <1>8, <2>2, <2>4, <3>1, <3>2, <3>3, RejectsSecond
  <2> QED BY <1>3, <1>4, <2>5, <2>6
<1> QED BY <1>10, <1>11

-----------------------------------------------------------------------------
(* The parser follows it, until one of them stops.                         *)

(* The parser follows the automaton, until the automaton is stuck.         *)
InStep == Synced' /\ outcome' = outcome
OutOfStep == outcome' = "error" /\ Settled'

(* In the loop.                                                            *)
LEMMA LoopSyncs ==
  ASSUME IInv, Synced, TopLevel, ~assertions
  PROVE  InStep \/ OutOfStep
<1>1. CASE BeginDecl
  <2>1. outcome' = outcome
    BY <1>1 DEF BeginDecl
  <2> QED BY <1>1, <2>1, DeclSyncs DEF InStep
<1>2. CASE AppendFnDef
  <2>1. outcome' = outcome
    BY <1>2 DEF AppendFnDef
  <2> QED BY <1>2, <2>1, AppendSyncs DEF InStep
<1>3. CASE CallFnDef
  <2>1. outcome' = outcome
    BY <1>3 DEF CallFnDef, Continue, context
  <2> QED BY <1>3, <2>1, CallFnDefSyncs DEF InStep
<1>4. CASE Directive \/ RootExport
  BY <1>4, DirectiveSyncs, RootExportSyncs DEF InStep, OutOfStep
<1>5. ~AssertionFails
  BY DEF AssertionFails
<1> QED BY <1>1, <1>2, <1>3, <1>4, <1>5 DEF TopLevel

(* In a function.                                                          *)
LEMMA FnSyncs ==
  ASSUME IInv, Simple, Synced, Fn
  PROVE  InStep \/ OutOfStep
<1>1. CASE FnBody \/ EndFnDef
  <2>1. outcome' = outcome
    BY <1>1 DEF FnBody, EndFnDef, Continue, context
  <2> QED BY <1>1, <2>1, FnDefSyncs DEF InStep
<1>2. CASE NoParams
  <2>1. outcome' = outcome
    BY <1>2 DEF NoParams, Continue, context
  <2> QED BY <1>2, <2>1, NoParamsSyncs DEF InStep
<1>3. CASE Arrow
  <2>1. outcome' = outcome
    BY <1>3 DEF Arrow, Continue, context
  <2> QED BY <1>3, <2>1, ArrowSyncs DEF InStep
<1>4. CASE EndFnProto
  <2>1. outcome' = outcome
    BY <1>4 DEF EndFnProto, Continue, context
  <2> QED BY <1>4, <2>1, EndFnProtoSyncs DEF InStep
<1>5. CASE Header \/ ParamDecl \/ EndParam \/ PointerType \/ PrimitiveType
  BY <1>5, HeaderSyncs, ParamDeclSyncs, EndParamSyncs, PointerTypeSyncs, PrimitiveTypeSyncs
     DEF InStep, OutOfStep
<1> QED BY <1>1, <1>2, <1>3, <1>4, <1>5 DEF Fn

(* Only a program that runs makes a step.                                  *)
LEMMA Running ==
  ASSUME Next
  PROVE  outcome = "running"
BY DEF Next, TopLevel, BeginDecl, Directive, AssertionFails, EndDirectives, RootExport, CallFnDef,
   AppendFnDef, Fn, FnBody, EndFnDef, Header, NoParams, ParamDecl, EndParam, Arrow, EndFnProto,
   PointerType, PrimitiveType, Body, BeginBlock, Statement, EndStatement, EndBlock, ReturnExpr,
   EndReturn, Operand, EndExpression, Operations, NoOperand, NoOperator, TakeOperator, EndBinary,
   BinaryAt, EndCast, CastType, ReadsBehindEnd, BeginPrefix, EndPrefix, FnCall, AtomExpr, TryBlock,
   BlockExpr, GroupedExpr, EndGrouped, Active

(* Without assertions the declarations that the parser has are the ones    *)
(* that the automaton has, or the automaton is stuck, and the parser with  *)
(* it.                                                                     *)
Halted == outcome # "running" \/ Stuck
Tracked == \/ Settled /\ Halted
           \/ outcome = "running" /\ Clear /\ Synced

(* No step parts them.                                                     *)
LEMMA TrackedStays ==
  ASSUME IInv, Next, ~assertions, Tracked
  PROVE  Tracked'
<1>1. outcome = "running"
  BY Running
<1>2. CASE Settled /\ Stuck
  <2>1. Stuck'
    BY <1>2, StuckStays
  <2>2. Top.fn # "top_level_decl"
    <3> SUFFICES ASSUME Top.fn = "top_level_decl" PROVE FALSE
      OBVIOUS
    <3>1. DOMAIN stack = 1..Len(stack) /\ Len(stack) = 1 /\ stack[1] = Top
      BY TopFacts, StackOfTop, LenProperties
    <3> QED BY <1>2, <3>1 DEF Stuck, Unfinished
  <2>3. tokens' = tokens /\ decls' = decls
    <3>1. CASE TopLevel
      BY <2>2, <3>1 DEF TopLevel, BeginDecl, Directive, AssertionFails, EndDirectives, RootExport,
         CallFnDef, AppendFnDef, Active
    <3>2. CASE Fn
      BY <3>2 DEF Fn, FnBody, EndFnDef, Header, NoParams, ParamDecl, EndParam, Arrow, EndFnProto,
         PointerType, PrimitiveType, FailAtFirst, Fail, Continue, context, input
    <3>3. CASE Body
      BY <3>3 DEF Body, BeginBlock, Statement, EndStatement, EndBlock, ReturnExpr, EndReturn,
         Operand, EndExpression, Fail, Continue, context, input
    <3>4. CASE Operations
      BY <3>4 DEF Operations, NoOperand, NoOperator, TakeOperator, EndBinary, EndCast, CastType,
         ReadsBehindEnd, BeginPrefix, EndPrefix, FnCall, AtomExpr, TryBlock, BlockExpr, GroupedExpr,
         EndGrouped, Fail, Continue, context, input
    <3> QED BY <3>1, <3>2, <3>3, <3>4 DEF Next
  <2>4. Settled'
    BY <1>2, <2>3, SettledStays
  <2> QED BY <2>1, <2>4 DEF Tracked, Halted
<1>3. CASE Clear /\ Synced
  <2>1. CASE Statement
    BY <1>3, <2>1, StatementSettles, StatementSticks DEF Tracked, Halted
  <2>2. CASE (TopLevel \/ Fn \/ BeginBlock \/ EndBlock) /\ Clear'
    <3>1. Simple
      BY <1>3 DEF Clear
    <3>2. InStep \/ OutOfStep
      <4>1. CASE TopLevel
        BY <1>3, <4>1, LoopSyncs
      <4>2. CASE Fn
        BY <1>3, <3>1, <4>2, FnSyncs
      <4>3. CASE BeginBlock
        BY <1>3, <3>1, <4>3, BlockSyncs DEF InStep, OutOfStep
      <4>4. CASE EndBlock
        <5>1. outcome' = outcome
          BY <4>4 DEF EndBlock, Continue, context
        <5> QED BY <1>3, <3>1, <4>4, <5>1, EndBlockSyncs DEF InStep
      <4> QED BY <2>2, <4>1, <4>2, <4>3, <4>4
    <3>3. CASE InStep
      BY <1>1, <2>2, <3>3 DEF InStep, Tracked
    <3>4. CASE OutOfStep
      BY <3>4 DEF OutOfStep, Tracked, Halted
    <3> QED BY <3>2, <3>3, <3>4
  <2> QED BY <1>3, <2>1, <2>2, ClearSteps
<1> QED BY <1>1, <1>2, <1>3 DEF Tracked, Halted

(* At first it has none, and neither has the automaton.                    *)
LEMMA TrackedAtFirst ==
  ASSUME Init
  PROVE  Tracked
<1> DEFINE f == Frame("top_level_decl", "start", FALSE, 1)
<1>1. index = 1 /\ stack = <<f>> /\ decls = <<>> /\ outcome = "running"
  BY DEF Init
<1>2. f.fn = "top_level_decl" /\ f.at = "start"
  BY DEF Frame
<1> HIDE DEF f
<1>3. Top = f
  BY <1>1 DEF Top
<1>4. Clear
  <2>1. DOMAIN stack = {1} /\ stack[1] = f
    BY <1>1
  <2>2. ~Stuck
    BY <1>2, <2>1 DEF Stuck, Unfinished
  <2> QED BY <2>2, CoveredAtFirst DEF Covered
<1>5. Leading[index - 1].at = "decl" /\ Leading[index - 1].n = 0
  <2>1. Len(tokens) \in Nat
    BY Starts, TopFacts
  <2>2. Leading[0] = AtFirst /\ index - 1 = 0
    BY <1>1, <2>1, LeadingStep
  <2> QED BY <2>2 DEF AtFirst
<1>6. Synced
  <2>1. Len(decls) = 0 /\ Pending(Top) = 0
    BY <1>1, <1>2, <1>3 DEF Pending
  <2> QED BY <1>2, <1>3, <1>5, <2>1 DEF Synced, Fits
<1> QED BY <1>1, <1>4, <1>6 DEF Tracked

-----------------------------------------------------------------------------
(* With assertions.                                                        *)

(* A token that is no directive leads out of the directives.               *)
LEMMA LeavesDirectives ==
  ASSUME IInv, NEW k \in Nat, NEW j, j = k + 1, j <= Len(tokens),
         Leading[k].at = "decl", tokens[j] # "NumberSign"
  PROVE  Leading[j].at \notin InDirectives
<1> DEFINE t == tokens[j]
<1>1. CASE t \in {"KeywordExport", "KeywordPub", "KeywordFn"}
  <2>1. \E r \in {"export", "visible", "fn"} : <<"decl", t, r>> \in Moves
    BY <1>1 DEF Moves
  <2>2. PICK r \in {"export", "visible", "fn"} : <<"decl", t, r>> \in Moves
    BY <2>1
  <2>3. Leading[j].at = r
    BY <2>2, Takes
  <2> QED BY <2>3 DEF InDirectives
<1>2. CASE t \notin {"KeywordExport", "KeywordPub", "KeywordFn"}
  <2>1. t \notin Allowed(Leading[k].at)
    BY <1>2, AllowedTokens
  <2>2. Leading[j].at = "dead"
    BY <2>1, Dies
  <2> QED BY <2>2 DEF InDirectives
<1> QED BY <1>1, <1>2

(* The text has something else behind its directives.                      *)
Aborts == \E k \in 0..Len(tokens) - 1 :
  /\ \A j \in 0..k : Leading[j].at \in InDirectives
  /\ Leading[k].at = "decl" /\ tokens[k + 1] # "NumberSign"

(* With assertions the parser never gets behind the directives.            *)
InHead == /\ outcome = "running"
          /\ Top.fn = "top_level_decl" /\ Top.at \in {"start", "directives"}
          /\ Leading[index - 1].at = "decl"
          /\ \A j \in 0..index - 1 : Leading[j].at \in InDirectives
AtHead ==
  /\ decls = <<>>
  /\ InHead \/ (outcome = "abort" /\ Aborts) \/ (outcome = "error" /\ ~Aborts)

(* A directive is read, or is none.                                        *)
LEMMA DirectiveAtHead ==
  ASSUME IInv, InHead, decls = <<>>, Directive
  PROVE  AtHead'
<1> DEFINE n == Leading[index - 1].n
<1>1. /\ Top.fn = "top_level_decl" /\ Token = "NumberSign" /\ outcome = "running"
      /\ Leading[index - 1].at = "decl"
      /\ \A j \in 0..index - 1 : Leading[j].at \in InDirectives
  BY DEF Directive, Active, InHead
<1> HIDE DEF n
<1>2. n = Leading[index - 1].n
  BY DEF n
<1>3. /\ tokens' = tokens /\ decls' = decls
      /\ \/ /\ outcome' = outcome /\ Go("directives", <<>>, <<>>, 4)
            /\ Leading[index].at = "sign" /\ Leading[index + 1].at = "name"
            /\ Leading[index + 2].at = "value" /\ Leading[index + 3].at = "decl"
         \/ /\ outcome' = "error"
            /\ \E j \in index + 1..index + 3 :
                 /\ j <= Len(tokens) /\ Leading[j].at = "dead"
                 /\ \A i \in index..j - 1 : Leading[i].at \in {"sign", "name", "value"}
  BY <1>1, <1>2, DirectiveLeads
<1>4. Leading' = Leading
  BY <1>3, SameLeading
<1>5. index \in Nat /\ Len(tokens) \in Nat /\ index >= 1
  BY TopFacts
<1>6. CASE /\ outcome' = outcome /\ Go("directives", <<>>, <<>>, 4)
           /\ Leading[index].at = "sign" /\ Leading[index + 1].at = "name"
           /\ Leading[index + 2].at = "value" /\ Leading[index + 3].at = "decl"
  <2>1. Top'.fn = "top_level_decl" /\ Top'.at = "directives" /\ index' = index + 4
    BY <1>1, <1>6, GoesHere
  <2> DEFINE i == index'
             j == i - 1
  <2>2. j = index + 3
    BY <1>5, <2>1
  <2>3. Leading[j].at = "decl"
    BY <1>6, <2>2
  <2>4. \A h \in 0..j : Leading[h].at \in InDirectives
    <3>1. \A h \in 0..j : \/ h \in 0..index - 1 \/ h = index \/ h = index + 1 \/ h = index + 2
                          \/ h = index + 3
      BY <1>5, <2>2
    <3> HIDE DEF i, j
    <3> QED BY <1>1, <1>6, <3>1 DEF InDirectives
  <2>5. InHead'
    BY <1>1, <1>4, <1>6, <2>1, <2>3, <2>4 DEF InHead
  <2> QED BY <1>3, <2>5 DEF AtHead
<1>7. CASE /\ outcome' = "error"
           /\ \E j \in index + 1..index + 3 :
                /\ j <= Len(tokens) /\ Leading[j].at = "dead"
                /\ \A i \in index..j - 1 : Leading[i].at \in {"sign", "name", "value"}
  <2>1. PICK j \in index + 1..index + 3 :
               /\ j <= Len(tokens) /\ Leading[j].at = "dead"
               /\ \A i \in index..j - 1 : Leading[i].at \in {"sign", "name", "value"}
    BY <1>7
  <2>2. ASSUME Aborts
        PROVE  FALSE
    <3>1. PICK k \in 0..Len(tokens) - 1 :
                 /\ \A m \in 0..k : Leading[m].at \in InDirectives
                 /\ Leading[k].at = "decl" /\ tokens[k + 1] # "NumberSign"
      BY <2>2 DEF Aborts
    <3>2. k < j
      <4>1. Leading[j].at \notin InDirectives
        BY <2>1 DEF InDirectives
      <4>2. j \notin 0..k
        BY <3>1, <4>1
      <4> QED BY <1>5, <4>2
    <3>3. k \notin index..j - 1
      BY <2>1, <3>1
    <3>4. k <= index - 1
      BY <1>5, <3>2, <3>3
    <3>5. k # index - 1
      <4> SUFFICES ASSUME k = index - 1 PROVE FALSE
        OBVIOUS
      <4>1. k + 1 = index
        BY <1>5
      <4> QED BY <1>1, <3>1, <4>1 DEF Token
    <3> DEFINE m == k + 1
    <3>6. k \in Nat /\ m \in 0..index - 1 /\ m <= Len(tokens) /\ m = k + 1
      BY <1>5, <3>4, <3>5
    <3>7. tokens[m] # "NumberSign"
      BY <3>1
    <3> HIDE DEF m
    <3>8. Leading[m].at \notin InDirectives
      BY <3>1, <3>6, <3>7, LeavesDirectives
    <3> QED BY <1>1, <3>6, <3>8
  <2>3. ~Aborts'
    BY <1>3, <1>4, <2>2 DEF Aborts
  <2> QED BY <1>3, <1>7, <2>3 DEF AtHead
<1> QED BY <1>3, <1>6, <1>7

(* The other steps.                                                        *)
LEMMA AtHeadStays ==
  ASSUME IInv, Next, assertions, AtHead
  PROVE  AtHead'
<1>1. outcome = "running"
  BY Running
<1>2. InHead /\ decls = <<>>
  BY <1>1 DEF AtHead
<1>3. TopLevel
  <2>1. Top.fn = "top_level_decl"
    BY <1>2 DEF InHead
  <2>2. ~Fn /\ ~BeginBlock /\ ~Statement /\ ~EndStatement /\ ~EndBlock
    BY <2>1 DEF Fn, FnBody, EndFnDef, Header, NoParams, ParamDecl, EndParam, Arrow, EndFnProto,
       PointerType, PrimitiveType, BeginBlock, Statement, EndStatement, EndBlock, Active
  <2> QED BY <2>1, <2>2, HeaderSteps DEF HeaderFn
<1>4. CASE BeginDecl
  <2>1. /\ Top.fn = "top_level_decl" /\ Top.at = "start" /\ outcome' = outcome
        /\ Go("directives", <<>>, <<>>, 0) /\ tokens' = tokens /\ decls' = decls
    BY <1>4 DEF BeginDecl, Active, input
  <2>2. Top'.fn = "top_level_decl" /\ Top'.at = "directives" /\ index' = index + 0
    BY <2>1, GoesHere
  <2>3. index' = index /\ Leading' = Leading
    BY <2>1, <2>2, SameLeading, TopFacts
  <2>4. InHead'
    BY <1>2, <2>1, <2>2, <2>3 DEF InHead
  <2> QED BY <1>2, <2>1, <2>4 DEF AtHead
<1>5. CASE Directive
  BY <1>2, <1>5, DirectiveAtHead
<1>6. CASE AssertionFails
  <2>1. /\ Top.fn = "top_level_decl" /\ Top.at = "directives" /\ Token # "NumberSign"
        /\ tokens' = tokens /\ decls' = decls /\ outcome' = "abort"
    BY <1>6 DEF AssertionFails, EndDirectives, Active, input
  <2>2. Leading' = Leading
    BY <2>1, SameLeading
  <2> DEFINE k == index - 1
  <2>3. k \in 0..Len(tokens) - 1 /\ k + 1 = index
    <3>1. index \in 1..Len(tokens)
      BY <2>1, TopReads DEF Reading
    <3> QED BY <3>1, TopFacts
  <2>4. (\A j \in 0..k : Leading[j].at \in InDirectives) /\ Leading[k].at = "decl"
    BY <1>2 DEF InHead
  <2> HIDE DEF k
  <2>5. tokens[k + 1] # "NumberSign"
    BY <2>1, <2>3 DEF Token
  <2>6. Aborts
    BY <2>3, <2>4, <2>5 DEF Aborts
  <2>7. Aborts'
    BY <2>1, <2>2, <2>6 DEF Aborts
  <2> QED BY <1>2, <2>1, <2>7 DEF AtHead
<1>7. ~RootExport /\ ~CallFnDef
  BY DEF RootExport, CallFnDef
<1>8. ~AppendFnDef
  BY <1>2 DEF AppendFnDef, Active, InHead
<1> QED BY <1>3, <1>4, <1>5, <1>6, <1>7, <1>8 DEF TopLevel

(* It begins there.                                                        *)
LEMMA AtHeadAtFirst ==
  ASSUME Init
  PROVE  AtHead
<1> DEFINE f == Frame("top_level_decl", "start", FALSE, 1)
<1>1. index = 1 /\ stack = <<f>> /\ decls = <<>> /\ outcome = "running"
  BY DEF Init
<1>2. f.fn = "top_level_decl" /\ f.at = "start"
  BY DEF Frame
<1> HIDE DEF f
<1>3. Top = f
  BY <1>1 DEF Top
<1>4. Leading[0].at = "decl"
  <2>1. Len(tokens) \in Nat
    BY Starts, TopFacts
  <2> QED BY <2>1, LeadingStep DEF AtFirst
<1>5. index - 1 = 0 /\ \A j \in 0..index - 1 : j = 0
  BY <1>1
<1> QED BY <1>1, <1>2, <1>3, <1>4, <1>5 DEF AtHead, InHead, InDirectives

-----------------------------------------------------------------------------
(* Behind the end of the text.                                             *)

(* Only the call behind an operator may read behind the end.               *)
LEMMA InText ==
  ASSUME IInv, ~(Top.fn = "prefix_op_expr" /\ Top.at = "start")
  PROVE  index \in 1..Len(tokens)
<1>1. index <= Len(tokens)
  BY DEF IInv, TopOK, Reads, Served
<1> QED BY <1>1, TopFacts

(* How far a step goes.                                                    *)
Idle == index' = index \/ index' = index + 0
OneOn == index' = index + 1 /\ Token # "Eof" /\ index <= Len(tokens)
TwoOn == index' = index + 2 /\ Token # "Eof" /\ tokens[index + 1] # "Eof" /\ index <= Len(tokens)
IdsOn == /\ index <= Len(tokens)
         /\ \E ids \in {DirectiveIds, RootExportIds, HeaderIds, <<"Symbol", "Colon">>} :
              Expects(ids) /\ index' = index + Len(ids)
Strides == Idle \/ OneOn \/ TwoOn \/ IdsOn

(* In the loop.                                                            *)
LEMMA LoopStrides ==
  ASSUME IInv, TopLevel
  PROVE  Strides
<1>1. index <= Len(tokens)
  <2>1. Top.fn = "top_level_decl"
    BY DEF TopLevel, BeginDecl, Directive, AssertionFails, EndDirectives, RootExport, CallFnDef,
       AppendFnDef, Active
  <2>2. index \in 1..Len(tokens)
    BY <2>1, InText
  <2> QED BY <2>2
<1>2. CASE BeginDecl \/ AssertionFails \/ CallFnDef \/ AppendFnDef
  <2>1. Idle
    BY <1>2 DEF BeginDecl, AssertionFails, CallFnDef, AppendFnDef, Go, Idle
  <2> QED BY <2>1 DEF Strides
<1>3. CASE Directive
  <2>1. Idle \/ (Expects(DirectiveIds) /\ index' = index + Len(DirectiveIds))
    BY <1>3 DEF Directive, FailAtFirst, Fail, Go, Idle
  <2> QED BY <1>1, <2>1 DEF Strides, IdsOn
<1>4. CASE RootExport
  <2>1. Idle \/ (Expects(RootExportIds) /\ index' = index + Len(RootExportIds))
    BY <1>4 DEF RootExport, FailAtFirst, Fail, Go, Idle
  <2> QED BY <1>1, <2>1 DEF Strides, IdsOn
<1> QED BY <1>2, <1>3, <1>4 DEF TopLevel

(* In a function.                                                          *)
LEMMA FnStrides ==
  ASSUME IInv, Fn
  PROVE  Strides
<1>1. index <= Len(tokens)
  <2>1. Top.fn \in {"fn_def", "fn_proto", "type"}
    BY DEF Fn, FnBody, EndFnDef, Header, NoParams, ParamDecl, EndParam, Arrow, EndFnProto,
       PointerType, PrimitiveType, Active
  <2>2. index \in 1..Len(tokens)
    BY <2>1, InText
  <2> QED BY <2>2
<1>2. CASE FnBody \/ EndFnDef \/ EndFnProto
  <2>1. Idle
    BY <1>2 DEF FnBody, EndFnDef, EndFnProto, Return, Go, Idle
  <2> QED BY <2>1 DEF Strides
<1>3. CASE NoParams \/ EndParam \/ Arrow
  <2>1. Idle \/ (index' = index + 1 /\ Token \in {"RParen", "Comma", "Arrow"})
    BY <1>3 DEF NoParams, EndParam, Arrow, Return, Fail, Go, Idle
  <2> QED BY <1>1, <2>1 DEF Strides, OneOn
<1>4. CASE PrimitiveType
  <2>1. Idle \/ (index' = index + 1 /\ Token \in {"KeywordUnreachable", "Symbol"})
    BY <1>4 DEF PrimitiveType, Return, Fail, Idle
  <2> QED BY <1>1, <2>1 DEF Strides, OneOn
<1>5. CASE PointerType
  <2>1. \/ Idle
        \/ /\ index' = index + 2 /\ Token = "Star"
           /\ tokens[index + 1] \in {"KeywordMut", "KeywordConst"}
    BY <1>5 DEF PointerType, Fail, Go, Idle
  <2> QED BY <1>1, <2>1 DEF Strides, TwoOn
<1>6. CASE Header
  <2>1. Idle \/ (Expects(HeaderIds) /\ index' = index + Len(HeaderIds))
    BY <1>6 DEF Header, FailAtFirst, Fail, Go, Idle
  <2> QED BY <1>1, <2>1 DEF Strides, IdsOn
<1>7. CASE ParamDecl
  <2> DEFINE ids == <<"Symbol", "Colon">>
  <2>1. IF Expects(ids)
        THEN \E got, c : Go("param", got, <<c>>, 2)
        ELSE FailAtFirst(ids)
    BY <1>7 DEF ParamDecl
  <2>2. Len(ids) = 2
    OBVIOUS
  <2>3. ids \in {DirectiveIds, RootExportIds, HeaderIds, <<"Symbol", "Colon">>}
    OBVIOUS
  <2> HIDE DEF ids
  <2>4. Idle \/ (Expects(ids) /\ index' = index + Len(ids))
    BY <2>1, <2>2 DEF FailAtFirst, Fail, Go, Idle
  <2> QED BY <1>1, <2>3, <2>4 DEF Strides, IdsOn
<1> QED BY <1>2, <1>3, <1>4, <1>5, <1>6, <1>7 DEF Fn

(* In a block or expression.                                               *)
LEMMA BodyStrides ==
  ASSUME IInv, Body
  PROVE  Strides
<1>1. index <= Len(tokens)
  <2>1. Top.fn \in {"block", "expression"}
    BY DEF Body, BeginBlock, Statement, EndStatement, EndBlock, ReturnExpr, EndReturn, Operand,
       EndExpression, Active
  <2>2. index \in 1..Len(tokens)
    BY <2>1, InText
  <2> QED BY <2>2
<1>2. CASE BeginBlock \/ EndBlock \/ ReturnExpr
  <2>1. Idle \/ (index' = index + 1 /\ Token \in {"LBrace", "RBrace", "KeywordReturn"})
    BY <1>2 DEF BeginBlock, EndBlock, ReturnExpr, Return, Fail, Go, Idle
  <2> QED BY <1>1, <2>1 DEF Strides, OneOn
<1>3. CASE Statement \/ EndStatement \/ EndReturn \/ Operand \/ EndExpression
  <2>1. Idle
    BY <1>3 DEF Statement, EndStatement, EndReturn, Operand, EndExpression, Return, Fail, Go, Idle
  <2> QED BY <2>1 DEF Strides
<1> QED BY <1>2, <1>3 DEF Body

(* In an operation.                                                        *)
LEMMA OperationStrides ==
  ASSUME IInv, Operations
  PROVE  TakeOperator \/ Strides
<1>1. CASE NoOperand \/ NoOperator \/ EndBinary \/ CastType \/ EndPrefix \/ FnCall \/ TryBlock
           \/ BlockExpr \/ ReadsBehindEnd
  <2>1. Idle
    BY <1>1 DEF NoOperand, NoOperator, EndBinary, CastType, EndPrefix, FnCall, TryBlock, BlockExpr,
       ReadsBehindEnd, Return, Fail, Go, Idle
  <2> QED BY <2>1 DEF Strides
<1>2. CASE EndCast \/ GroupedExpr \/ EndGrouped \/ AtomExpr
  <2>1. Top.fn \in {"cast_expression", "primary_expr"}
    BY <1>2 DEF EndCast, GroupedExpr, EndGrouped, AtomExpr, Active
  <2>2. index \in 1..Len(tokens)
    BY <2>1, InText
  <2>3. Idle \/ (index' = index + 1 /\ Token \in Atom \cup {"KeywordAs", "LParen", "RParen"})
    BY <1>2 DEF EndCast, GroupedExpr, EndGrouped, AtomExpr, Return, Fail, Go, Idle
  <2> QED BY <2>2, <2>3 DEF Strides, OneOn, Atom
<1>3. CASE BeginPrefix
  <2>1. index <= Len(tokens)
    BY <1>3 DEF BeginPrefix
  <2> DEFINE op == IF Token \in PrefixOp THEN <<index>> ELSE <<>>
  <2>2. index' = index + Len(op)
    BY <1>3 DEF BeginPrefix, Go
  <2>3. CASE Token \in PrefixOp
    BY <2>1, <2>2, <2>3 DEF Strides, OneOn, PrefixOp
  <2>4. CASE Token \notin PrefixOp
    BY <2>2, <2>4 DEF Strides, Idle
  <2> QED BY <2>3, <2>4
<1> QED BY <1>1, <1>2, <1>3 DEF Operations

(* No step but over an operator comes behind the end.                      *)
LEMMA StaysInText ==
  ASSUME IInv, Next
  PROVE  TakeOperator \/ index' = index \/ index' <= Len(tokens)
<1>1. index \in Nat /\ Len(tokens) \in Nat /\ index >= 1
  BY TopFacts
<1>2. TakeOperator \/ Strides
  BY LoopStrides, FnStrides, BodyStrides, OperationStrides DEF Next
<1>3. CASE Idle
  BY <1>1, <1>3 DEF Idle
<1>4. CASE OneOn
  <2>1. index \in 1..Len(tokens) /\ tokens[index] # "Eof" /\ index' = index + 1
    BY <1>1, <1>4 DEF OneOn, Token
  <2>2. index + 1 \in 1..Len(tokens)
    BY <2>1, TokenBehind
  <2> QED BY <1>1, <2>1, <2>2
<1>5. CASE TwoOn
  <2> DEFINE i == index + 1
  <2>1. index \in 1..Len(tokens) /\ tokens[index] # "Eof" /\ index' = i + 1 /\ tokens[i] # "Eof"
    BY <1>1, <1>5 DEF TwoOn, Token
  <2>2. i \in 1..Len(tokens)
    BY <2>1, TokenBehind
  <2> HIDE DEF i
  <2>3. i + 1 \in 1..Len(tokens)
    BY <2>1, <2>2, TokenBehind
  <2> QED BY <1>1, <2>1, <2>3
<1>6. CASE IdsOn
  <2>1. PICK ids \in {DirectiveIds, RootExportIds, HeaderIds, <<"Symbol", "Colon">>} :
               Expects(ids) /\ index' = index + Len(ids)
    BY <1>6 DEF IdsOn
  <2>2. \E S : ids \in Seq(S) /\ \A k \in 1..Len(ids) : ids[k] # "Eof"
    <3>1. CASE ids = DirectiveIds
      <4> DEFINE s == DirectiveIds
      <4>1. s \in Seq({s[1], s[2], s[3], s[4]}) /\ Len(s) = 4 /\ s[1] = "NumberSign"
            /\ s[2] = "Symbol" /\ s[3] = "LParen" /\ s[4] = "StringLiteral"
        BY DEF DirectiveIds
      <4>2. \A k \in 1..4 : k = 1 \/ k = 2 \/ k = 3 \/ k = 4
        OBVIOUS
      <4> HIDE DEF s
      <4>3. \A k \in 1..Len(s) : s[k] # "Eof"
        BY <4>1, <4>2
      <4> QED BY <3>1, <4>1, <4>3 DEF s
    <3>2. CASE ids = RootExportIds
      <4> DEFINE s == RootExportIds
      <4>1. s \in Seq({s[1], s[2], s[3], s[4]}) /\ Len(s) = 4 /\ s[1] = "KeywordExport"
            /\ s[2] = "Symbol" /\ s[3] = "StringLiteral" /\ s[4] = "Semicolon"
        BY DEF RootExportIds
      <4>2. \A k \in 1..4 : k = 1 \/ k = 2 \/ k = 3 \/ k = 4
        OBVIOUS
      <4> HIDE DEF s
      <4>3. \A k \in 1..Len(s) : s[k] # "Eof"
        BY <4>1, <4>2
      <4> QED BY <3>2, <4>1, <4>3 DEF s
    <3>3. CASE ids = HeaderIds
      <4> DEFINE S == {"KeywordPub", "KeywordExport", "KeywordFn", "Symbol", "LParen"}
      <4>1. S = {"KeywordPub", "KeywordExport", "KeywordFn", "Symbol", "LParen"}
        OBVIOUS
      <4> HIDE DEF S
      <4>2. ids \in Seq(S) /\ \A k \in 1..Len(ids) : ids[k] # "Eof"
        BY <3>3, <4>1, HeaderTokens
      <4> QED BY <4>2
    <3>4. CASE ids = <<"Symbol", "Colon">>
      <4>1. /\ ids \in Seq({"Symbol", "Colon"}) /\ Len(ids) = 2
            /\ ids[1] = "Symbol" /\ ids[2] = "Colon"
        BY <3>4
      <4>2. \A k \in 1..2 : k = 1 \/ k = 2
        OBVIOUS
      <4>3. \A k \in 1..Len(ids) : ids[k] # "Eof"
        BY <4>1, <4>2
      <4> QED BY <4>1, <4>3
    <3> QED BY <2>1, <3>1, <3>2, <3>3, <3>4
  <2>3. PICK S : ids \in Seq(S) /\ \A k \in 1..Len(ids) : ids[k] # "Eof"
    BY <2>2
  <2>4. index <= Len(tokens)
    BY <1>6 DEF IdsOn
  <2>5. index + Len(ids) <= Len(tokens)
    BY <2>1, <2>3, <2>4, ExpectedTokens
  <2> QED BY <2>1, <2>5
<1> QED BY <1>2, <1>3, <1>4, <1>5, <1>6 DEF Strides

(* The operators that the end of the file is taken for.                    *)
LEMMA EofOperator ==
  ASSUME NEW n \in 1..9, HasOperator(n), Token = "Eof"
  PROVE  n = 5
<1>1. n = 1 \/ n = 2 \/ n = 3 \/ n = 4 \/ n = 5 \/ n = 6 \/ n = 7 \/ n = 8 \/ n = 9
  OBVIOUS
<1>2. /\ "Eof" \notin Operator["bool_or_expr"] /\ "Eof" \notin Operator["bool_and_expr"]
      /\ "Eof" \notin Operator["comparison_expr"] /\ "Eof" \notin Operator["bin_or_expr"]
      /\ "Eof" \notin Operator["bin_and_expr"] /\ "Eof" \notin Operator["bit_shift_expr"]
      /\ "Eof" \notin Operator["add_expr"] /\ "Eof" \notin Operator["mult_expr"]
  BY DEF Operator
<1>3. n # 5 => Binary[n] # "bin_xor_expr" /\ "Eof" \notin Operator[Binary[n]]
  BY <1>1, <1>2, BinaryNames
<1> QED BY <1>3 DEF HasOperator

(* The functions that hand an operand on to those of the operators.        *)
InChain(f) == \/ f.fn \in {"cast_expression", "prefix_op_expr", "fn_call_expr"}
              \/ \E n \in 1..9 : f.fn = Binary[n]
              \/ f.fn = "primary_expr" /\ f.at = "block"
(* The last token before i ends an operand.                                *)
Ended(i) == i > 1 /\ tokens[i - 1] \in Ender
Marked == /\ result # None /\ InChain(Top) => Ended(index)
          /\ index = Len(tokens) + 1 => Ended(Len(tokens))
          /\ outcome = "undefined" => index = Len(tokens) + 1

(* Functions whose result is no operand.                                   *)
NoOperands == {"fn_def", "fn_proto", "expression", "bool_or_expr"}

(* No function of an operand waits for them.                               *)
LEMMA NotInChain ==
  ASSUME NEW g, NEW f, Awaits(g, f), f.fn \in NoOperands
  PROVE  ~InChain(g)
<1>1. \A n \in 1..9 : Tighter(n) \notin NoOperands
  <2> SUFFICES ASSUME NEW n \in 1..9 PROVE Tighter(n) \notin NoOperands
    OBVIOUS
  <2>1. CASE n = 9
    BY <2>1 DEF Tighter, NoOperands
  <2>2. CASE n # 9
    <3> DEFINE k == n + 1
    <3>1. k \in 1..9 /\ k # 1
      BY <2>2
    <3>2. Tighter(n) = Binary[k]
      BY <2>2 DEF Tighter
    <3> HIDE DEF k
    <3>3. Binary[k] \notin Others /\ Binary[k] # "bool_or_expr"
      BY <3>1, Levels, BinaryNames
    <3> QED BY <3>2, <3>3 DEF Others, NoOperands
  <2> QED BY <2>1, <2>2
<1>2. \A n \in 1..9 : g.fn # Binary[n]
  <2>1. \A n \in 1..9 : g.fn = Binary[n] => f.fn = Tighter(n)
    BY Awaited
  <2> QED BY <1>1, <2>1
<1>3. /\ g.fn = "cast_expression" => f.fn \in {"prefix_op_expr", "type"}
      /\ g.fn = "prefix_op_expr" => f.fn = "fn_call_expr"
      /\ g.fn = "fn_call_expr" => f.fn = "primary_expr"
      /\ g.fn = "primary_expr" /\ g.at = "block" => f.fn = "block"
  BY Awaited
<1> QED BY <1>2, <1>3 DEF InChain, NoOperands

(* What becomes of the result.                                             *)
Stays == stack' = stack /\ index' = index /\ result' = result
EndsNode == \E node : Return(node, 1) /\ Token \in Ender
HandsOn == \E node : Return(node, 0) /\ InChain(Top) /\ (node # None => result # None)
HandsUp == \E node : Return(node, 0) /\ Top.fn \in NoOperands
Results == result' = None \/ Stays \/ EndsNode \/ HandsOn \/ HandsUp

(* The loop has none.                                                      *)
LEMMA LoopResults ==
  ASSUME TopLevel
  PROVE  result' = None \/ Stays
BY DEF TopLevel, BeginDecl, Directive, AssertionFails, RootExport, CallFnDef, AppendFnDef,
   FailAtFirst, Fail, Go, Stays

(* In a function.                                                          *)
LEMMA FnResults ==
  ASSUME Fn
  PROVE  Results
<1>1. CASE FnBody \/ Header \/ NoParams \/ ParamDecl \/ EndParam \/ PointerType
  <2>1. result' = None \/ Stays
    BY <1>1 DEF FnBody, Header, NoParams, ParamDecl, EndParam, PointerType, FailAtFirst, Fail, Go,
       Stays
  <2> QED BY <2>1 DEF Results
<1>2. CASE EndFnDef \/ EndFnProto
  <2>1. HandsUp
    BY <1>2 DEF EndFnDef, EndFnProto, Active, HandsUp, NoOperands
  <2> QED BY <2>1 DEF Results
<1>3. CASE Arrow
  <2>1. result' = None \/ HandsUp
    BY <1>3 DEF Arrow, Active, Go, HandsUp, NoOperands
  <2> QED BY <2>1 DEF Results
<1>4. CASE PrimitiveType
  <2>1. Stays \/ EndsNode
    BY <1>4 DEF PrimitiveType, Fail, Stays, EndsNode, Ender, Atom
  <2> QED BY <2>1 DEF Results
<1> QED BY <1>1, <1>2, <1>3, <1>4 DEF Fn

(* In a block or expression.                                               *)
LEMMA BodyResults ==
  ASSUME Body
  PROVE  Results
<1>1. CASE BeginBlock \/ Statement \/ EndStatement \/ ReturnExpr \/ Operand
  <2>1. result' = None \/ Stays
    BY <1>1 DEF BeginBlock, Statement, EndStatement, ReturnExpr, Operand, Return, Fail, Go, Stays
  <2> QED BY <2>1 DEF Results
<1>2. CASE EndBlock
  <2>1. EndsNode
    BY <1>2 DEF EndBlock, EndsNode, Ender
  <2> QED BY <2>1 DEF Results
<1>3. CASE EndReturn \/ EndExpression
  <2>1. Stays \/ HandsUp
    BY <1>3 DEF EndReturn, EndExpression, Active, Fail, Stays, HandsUp, NoOperands
  <2> QED BY <2>1 DEF Results
<1> QED BY <1>1, <1>2, <1>3 DEF Body

(* A function waits for a node that it told to be mandatory.               *)
LEMMA EndBinaryResults ==
  ASSUME IInv, EndBinary
  PROVE  Results
<1>1. PICK n \in 1..9 :
        Top.fn = Binary[n] /\ Top.at = "operand_2" /\ Return(Top.got \o result, 0)
  BY BinaryNames DEF EndBinary, BinaryAt, Active
<1>2. CASE n = 1
  <2>1. Top.fn \in NoOperands
    BY <1>1, <1>2, BinaryNames DEF NoOperands
  <2> QED BY <1>1, <2>1 DEF Results, HandsUp
<1>3. CASE n # 1
  <2>1. PICK f \in Activation : Awaits(Top, f) /\ Promises(f, result, index)
    BY <1>1, TopHas DEF Reading
  <2>2. f.fn = Tighter(n) /\ f.mandatory
    <3>1. /\ f.fn = Tighter(n)
          /\ (Top.at = "operand_1" /\ Same(Top, f)) \/ (Top.at = "operand_2" /\ f.mandatory)
      BY <1>1, <2>1, Awaited
    <3> QED BY <1>1, <3>1
  <2>3. f.fn \notin Lenient
    <3>1. CASE n = 9
      BY <2>2, <3>1 DEF Tighter, Lenient
    <3>2. CASE n # 9
      <4> DEFINE k == n + 1
      <4>1. k \in 1..9 /\ k > 2
        BY <1>3, <3>2
      <4>2. f.fn = Binary[k]
        BY <2>2, <3>2 DEF Tighter
      <4> HIDE DEF k
      <4> QED BY <4>1, <4>2, Levels
    <3> QED BY <3>1, <3>2
  <2>4. result # None
    BY <2>1, <2>2, <2>3 DEF Promises
  <2> QED BY <1>1, <2>4 DEF Results, HandsOn, InChain
<1> QED BY <1>2, <1>3

(* In an operation.                                                        *)
LEMMA OperationResults ==
  ASSUME IInv, Operations
  PROVE  Results
<1>1. CASE NoOperand \/ TakeOperator \/ BeginPrefix \/ TryBlock \/ GroupedExpr \/ ReadsBehindEnd
  <2>1. result' = None \/ Stays
    BY <1>1 DEF NoOperand, TakeOperator, BeginPrefix, TryBlock, GroupedExpr, ReadsBehindEnd, Return,
       Fail, Go, Stays
  <2> QED BY <2>1 DEF Results
<1>2. CASE NoOperator
  <2>1. PICK n \in 1..9 : Top.fn = Binary[n] /\ Return(result, 0)
    BY <1>2, BinaryNames DEF NoOperator, BinaryAt, Active
  <2> QED BY <2>1 DEF Results, HandsOn, InChain
<1>3. CASE EndBinary
  BY <1>3, EndBinaryResults
<1>4. CASE EndCast
  <2>1. Top.fn = "cast_expression" /\ (result' = None \/ Return(result, 0))
    BY <1>4 DEF EndCast, Active, Go
  <2> QED BY <2>1 DEF Results, HandsOn, InChain
<1>5. CASE CastType
  <2>1. Top.fn = "cast_expression" /\ Top.at = "type" /\ Return(Top.got \o result, 0)
    BY <1>5 DEF CastType, Active
  <2>2. PICK f \in Activation : Awaits(Top, f) /\ Promises(f, result, index)
    BY <2>1, TopHas DEF Reading
  <2>3. f.fn = "type"
    BY <2>1, <2>2, Awaited
  <2>4. result # None
    BY <2>2, <2>3 DEF Promises
  <2> QED BY <2>1, <2>4 DEF Results, HandsOn, InChain
<1>6. CASE EndPrefix
  <2>1. /\ Top.fn = "prefix_op_expr"
        /\ Return(IF result = None THEN None ELSE Top.got \o result, 0)
    BY <1>6 DEF EndPrefix, Active
  <2> QED BY <2>1 DEF Results, HandsOn, InChain
<1>7. CASE FnCall
  <2>1. Top.fn = "fn_call_expr" /\ (Stays \/ Return(result, 0))
    BY <1>7 DEF FnCall, Active, Fail, Stays
  <2> QED BY <2>1 DEF Results, HandsOn, InChain
<1>8. CASE AtomExpr
  <2>1. EndsNode
    BY <1>8 DEF AtomExpr, EndsNode, Ender
  <2> QED BY <2>1 DEF Results
<1>9. CASE BlockExpr
  <2>1. Top.fn = "primary_expr" /\ Top.at = "block" /\ Return(result, 0)
    BY <1>9 DEF BlockExpr, Active
  <2> QED BY <2>1 DEF Results, HandsOn, InChain
<1>10. CASE EndGrouped
  <2>1. Stays \/ EndsNode
    BY <1>10 DEF EndGrouped, Fail, Stays, EndsNode, Ender
  <2> QED BY <2>1 DEF Results
<1> QED BY <1>1, <1>2, <1>3, <1>4, <1>5, <1>6, <1>7, <1>8, <1>9, <1>10 DEF Operations

(* The tokens stay.                                                        *)
LEMMA SameTokens ==
  ASSUME Next
  PROVE  tokens' = tokens /\ assertions' = assertions
<1>1. CASE TopLevel
  BY <1>1 DEF TopLevel, BeginDecl, Directive, AssertionFails, RootExport, CallFnDef, AppendFnDef,
     FailAtFirst, Fail, Continue, context, input
<1>2. CASE Fn
  BY <1>2 DEF Fn, FnBody, EndFnDef, Header, NoParams, ParamDecl, EndParam, Arrow, EndFnProto,
     PointerType, PrimitiveType, FailAtFirst, Fail, Continue, context, input
<1>3. CASE Body
  BY <1>3 DEF Body, BeginBlock, Statement, EndStatement, EndBlock, ReturnExpr, EndReturn, Operand,
     EndExpression, Fail, Continue, context, input
<1>4. CASE Operations
  BY <1>4 DEF Operations, NoOperand, NoOperator, TakeOperator, EndBinary, EndCast, CastType,
     ReadsBehindEnd, BeginPrefix, EndPrefix, FnCall, AtomExpr, TryBlock, BlockExpr, GroupedExpr,
     EndGrouped, Fail, Continue, context, input
<1> QED BY <1>1, <1>2, <1>3, <1>4 DEF Next

(* Only one step ends in what is undefined.                                *)
LEMMA UndefinedBehindEnd ==
  ASSUME IInv, Next, outcome' = "undefined"
  PROVE  index' = Len(tokens) + 1
<1>1. outcome # "undefined"
  BY Running
<1>2. ~TopLevel
  BY <1>1 DEF TopLevel, BeginDecl, Directive, AssertionFails, RootExport, CallFnDef, AppendFnDef,
     FailAtFirst, Fail, Continue, context
<1>3. ~Fn
  BY <1>1 DEF Fn, FnBody, EndFnDef, Header, NoParams, ParamDecl, EndParam, Arrow, EndFnProto,
     PointerType, PrimitiveType, FailAtFirst, Fail, Continue, context
<1>4. ~Body
  BY <1>1 DEF Body, BeginBlock, Statement, EndStatement, EndBlock, ReturnExpr, EndReturn, Operand,
     EndExpression, Fail, Continue, context
<1>5. Operations => ReadsBehindEnd
  BY <1>1 DEF Operations, NoOperand, NoOperator, TakeOperator, EndBinary, EndCast, CastType,
     BeginPrefix, EndPrefix, FnCall, AtomExpr, TryBlock, BlockExpr, GroupedExpr, EndGrouped, Fail,
     Continue, context
<1>6. index > Len(tokens) /\ index' = index
  BY <1>2, <1>3, <1>4, <1>5 DEF Next, ReadsBehindEnd
<1> QED BY <1>6, TopFacts

(* The loop over the declarations does not return.                         *)
LEMMA ReturnsBelow ==
  ASSUME IInv, Next, NEW node, NEW n, Return(node, n)
  PROVE  Top.fn # "top_level_decl"
<1> SUFFICES ASSUME Top.fn = "top_level_decl" PROVE FALSE
  OBVIOUS
<1>1. Len(stack) = 1 /\ stack \in Seq(Activation)
  BY StackOfTop, TopFacts
<1>2. stack' = <<>>
  <2>1. Len(Tail(stack)) = 0 /\ Tail(stack) \in Seq(Activation)
    <3>1. stack # <<>>
      BY DEF IInv, StackOK
    <3>2. Len(Tail(stack)) = Len(stack) - 1 /\ Tail(stack) \in Seq(Activation)
      BY <1>1, <3>1, HeadTailProperties
    <3> QED BY <1>1, <3>2
  <2>2. Tail(stack) = <<>>
    BY <2>1, EmptySeq
  <2> QED BY <2>2 DEF Return
<1>3. IInv'
  BY StepKeeps DEF StepOK
<1> QED BY <1>2, <1>3 DEF IInv, StackOK

(* A step that comes behind the end comes from behind an operand.          *)
LEMMA OperatorMarked ==
  ASSUME IInv, Marked, TakeOperator, index' = Len(tokens) + 1
  PROVE  Ended(Len(tokens))
<1>1. PICK n \in 1..9 :
        /\ Top.fn = Binary[n] /\ Top.at = "operand_1" /\ ~GivesUp(n) /\ HasOperator(n)
        /\ index' = index + 1
  BY BinaryNames DEF TakeOperator, BinaryAt, Active, Go
<1>2. index = Len(tokens) /\ index \in 1..Len(tokens)
  BY <1>1, TopFacts
<1>3. Token = "Eof"
  <2>1. \A k \in 1..Len(tokens) : tokens[k] = "Eof" <=> k = Len(tokens)
    BY TextsAssumption DEF IInv
  <2> QED BY <1>2, <2>1 DEF Token
<1>4. n = 5
  BY <1>1, <1>3, EofOperator
<1>5. result # None
  BY <1>1, <1>4, BinaryNames DEF GivesUp
<1>6. InChain(Top)
  BY <1>1 DEF InChain
<1> QED BY <1>2, <1>5, <1>6 DEF Marked

(* A result that is handed on has the end of an operand before it.         *)
LEMMA MarkedStays ==
  ASSUME IInv, Next, Marked
  PROVE  Marked'
<1>1. tokens' = tokens /\ Len(tokens) \in Nat /\ index \in 1..Len(tokens) + 1
  BY SameTokens, TopFacts
<1>2. ASSUME NEW i, Ended(i)
      PROVE  \A j : j = i => j > 1 /\ tokens'[j - 1] \in Ender
  BY <1>1, <1>2 DEF Ended
<1>3. ASSUME index' = Len(tokens) + 1
      PROVE  Ended(Len(tokens))
  <2>1. CASE TakeOperator
    BY <1>3, <2>1, OperatorMarked
  <2>2. CASE ~TakeOperator
    <3>1. index' = index
      BY <1>1, <1>3, <2>2, StaysInText
    <3> QED BY <1>3, <3>1 DEF Marked
  <2> QED BY <2>1, <2>2
<1>4. ASSUME result' # None, InChain(Top')
      PROVE  index' > 1 /\ tokens'[index' - 1] \in Ender
  <2>1. Results
    BY <1>4, LoopResults, FnResults, BodyResults, OperationResults DEF Next, Results
  <2>2. ASSUME NEW node, NEW n, Return(node, n)
        PROVE  Top' = Caller /\ index' = index + n /\ result' = node /\ Awaits(Caller, Top)
    <3>1. Top.fn # "top_level_decl"
      BY <2>2, ReturnsBelow
    <3> QED BY <2>2, <3>1, GoesBack
  <2>3. CASE Stays
    <3>1. Top' = Top
      BY <2>3 DEF Stays, Top
    <3>2. Ended(index)
      BY <1>4, <2>3, <3>1 DEF Stays, Marked
    <3> QED BY <1>2, <2>3, <3>2 DEF Stays
  <2>4. CASE EndsNode
    <3>1. PICK node : Return(node, 1) /\ Token \in Ender
      BY <2>4 DEF EndsNode
    <3>2. index' = index + 1
      BY <2>2, <3>1
    <3>3. index' - 1 = index /\ index' > 1
      BY <1>1, <3>2
    <3> QED BY <1>1, <3>1, <3>3 DEF Token
  <2>5. CASE HandsOn
    <3>1. PICK node : Return(node, 0) /\ InChain(Top) /\ (node # None => result # None)
      BY <2>5 DEF HandsOn
    <3>2. index' = index + 0 /\ result' = node
      BY <2>2, <3>1
    <3>3. Ended(index) /\ index' = index
      BY <1>1, <1>4, <3>1, <3>2 DEF Marked
    <3> QED BY <1>2, <3>3
  <2>6. CASE HandsUp
    <3>1. PICK node : Return(node, 0) /\ Top.fn \in NoOperands
      BY <2>6 DEF HandsUp
    <3>2. Top' = Caller /\ Awaits(Caller, Top)
      BY <2>2, <3>1
    <3> QED BY <1>4, <3>1, <3>2, NotInChain
  <2> QED BY <1>4, <2>1, <2>3, <2>4, <2>5, <2>6 DEF Results
<1>5. ASSUME outcome' = "undefined"
      PROVE  index' = Len(tokens) + 1
  BY <1>5, UndefinedBehindEnd
<1>6. (result # None /\ InChain(Top) => Ended(index))'
  BY <1>4 DEF Ended, InChain
<1>7. (index = Len(tokens) + 1 => Ended(Len(tokens)))'
  BY <1>1, <1>3 DEF Ended
<1>8. (outcome = "undefined" => index = Len(tokens) + 1)'
  BY <1>1, <1>5
<1> QED BY <1>6, <1>7, <1>8 DEF Marked

-----------------------------------------------------------------------------
(* How the parser ends.                                                    *)

(* At first there is no result.                                            *)
LEMMA MarkedAtFirst ==
  ASSUME Init
  PROVE  Marked
<1>1. index = 1 /\ result = None /\ outcome = "running"
  BY DEF Init
<1>2. Len(tokens) \in Nat /\ Len(tokens) >= 1
  BY Starts, TopFacts
<1> QED BY <1>1, <1>2 DEF Marked

(* What the ending of the parser follows from.                             *)
Explained == /\ ~assertions => Tracked
             /\ assertions => AtHead
             /\ Marked

(* No step leaves it.                                                      *)
LEMMA ExplainedStays ==
  ASSUME IInv, [Next]_vars, Explained
  PROVE  Explained'
<1>1. CASE Next
  BY <1>1, SameTokens, TrackedStays, AtHeadStays, MarkedStays DEF Explained
<1>2. CASE UNCHANGED vars
  <2>1. UNCHANGED <<input, index, stack, result, directive_list, decls>> /\ outcome' = outcome
    BY <1>2 DEF vars, context
  <2>2. tokens' = tokens /\ assertions' = assertions
    BY <2>1 DEF input
  <2>3. Leading' = Leading
    BY <2>2, SameLeading
  <2>4. Top' = Top /\ Caller' = Caller
    BY <2>1 DEF Top, Caller
  <2>5. Settled => Settled'
    BY <2>1, <2>2, SettledStays
  <2>6. Stuck => Stuck'
    BY <2>1, <2>2 DEF Stuck, Unfinished, Token
  <2>7. Clear => Clear'
    BY <2>1, ClearStops
  <2>8. Synced => Synced'
    BY <2>1, <2>2, <2>3, <2>4 DEF Synced, Fits, Pending, Token
  <2>9. Tracked => Tracked'
    BY <2>1, <2>5, <2>6, <2>7, <2>8 DEF Tracked, Halted
  <2>10. AtHead => AtHead'
    BY <2>1, <2>2, <2>3, <2>4 DEF AtHead, InHead, Aborts
  <2>11. Marked => Marked'
    BY <2>1, <2>2, <2>4 DEF Marked, InChain, Ended
  <2> QED BY <2>2, <2>9, <2>10, <2>11 DEF Explained
<1> QED BY <1>1, <1>2

(* With assertions the parser stops behind the directives of a text, and   *)
(* without them it has the declarations that the text leads with, and has  *)
(* read behind the end only of a text that ends in an operand.             *)
THEOREM LeadingAccepted == Spec => []AcceptsLeading
<1>1. Init => Explained
  BY TrackedAtFirst, AtHeadAtFirst, MarkedAtFirst DEF Explained
<1>2. IInv /\ Explained /\ [Next]_vars => Explained'
  BY ExplainedStays
<1>3. IInv /\ Explained => AcceptsLeading
  <2> SUFFICES ASSUME IInv, Explained PROVE AcceptsLeading
    OBVIOUS
  <2>1. ASSUME outcome \in {"error", "undefined"}, ~assertions
        PROVE  Len(decls) = Leading[Len(tokens)].n
    <3>1. Settled
      BY <2>1 DEF Explained, Tracked
    <3> QED BY <3>1, TopFacts, SettledToTheEnd
  <2>2. ASSUME outcome = "undefined"
        PROVE  ~assertions /\ Len(tokens) > 1 /\ tokens[Len(tokens) - 1] \in Ender
    <3>1. ~assertions
      BY <2>2 DEF Explained, AtHead, InHead
    <3>2. Ended(Len(tokens))
      BY <2>2 DEF Explained, Marked
    <3> QED BY <3>1, <3>2 DEF Ended
  <2>3. ASSUME outcome # "running", assertions
        PROVE  decls = <<>> /\ (outcome = "abort" <=> Aborts)
    BY <2>3 DEF Explained, AtHead, InHead
  <2> QED BY <2>1, <2>2, <2>3 DEF AcceptsLeading, Aborts
<1> QED BY <1>1, <1>2, <1>3, InvariantHolds, PTL DEF Spec
=============================================================================
