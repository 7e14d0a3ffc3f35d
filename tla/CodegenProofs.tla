---------------------------- MODULE CodegenProofs ----------------------------
(***************************************************************************)
(* Proof that the module being generated is consistent after every step of *)
(* do_code_gen, for every program that the analysis may leave: debug       *)
(* scopes, calls, values and literals belong where they are.               *)
(***************************************************************************)
EXTENDS Codegen, SequenceTheorems, TLAPS

-----------------------------------------------------------------------------
(* Sequences.                                                              *)

List(s) == s \in Seq(Range(s))

(* Any sequence over some set is a list.                                   *)
LEMMA ListIntro ==
  ASSUME NEW S, NEW s \in Seq(S)
  PROVE  List(s)
BY SeqOfRange DEF List

(* A list has natural positions and is a sequence over its elements.       *)
LEMMA ListElements ==
  ASSUME NEW s, List(s)
  PROVE  /\ Len(s) \in Nat
         /\ DOMAIN s = 1..Len(s)
         /\ s = <<>> <=> Len(s) = 0
         /\ \A S : (\A i \in DOMAIN s : s[i] \in S) => s \in Seq(S)
<1>1. Len(s) \in Nat /\ DOMAIN s = 1..Len(s)
  BY LenProperties DEF List
<1>2. s = <<>> <=> Len(s) = 0
  BY EmptySeq DEF List
<1>3. ASSUME NEW S, \A i \in DOMAIN s : s[i] \in S
      PROVE  s \in Seq(S)
  <2>1. Range(s) \subseteq S
    BY <1>3 DEF Range
  <2> QED BY <2>1, SeqMonotonic DEF List
<1> QED BY <1>1, <1>2, <1>3

(* Two lists one behind the other.                                         *)
LEMMA ListConcat ==
  ASSUME NEW s, NEW t, List(s), List(t)
  PROVE  /\ List(s \o t)
         /\ Len(s \o t) = Len(s) + Len(t)
         /\ \A i \in DOMAIN s : i \in DOMAIN (s \o t) /\ (s \o t)[i] = s[i]
         /\ \A i \in DOMAIN (s \o t) :
              (i \in DOMAIN s /\ (s \o t)[i] = s[i])
              \/ (i - Len(s) \in DOMAIN t /\ (s \o t)[i] = t[i - Len(s)])
<1> DEFINE S == Range(s) \cup Range(t)
<1>1. s \in Seq(S) /\ t \in Seq(S)
  BY SeqMonotonic DEF List
<1>2. /\ s \o t \in Seq(S)
      /\ Len(s \o t) = Len(s) + Len(t)
      /\ \A i \in 1..Len(s) + Len(t) :
           (s \o t)[i] = IF i <= Len(s) THEN s[i] ELSE t[i - Len(s)]
  BY <1>1, ConcatProperties
<1>3. List(s \o t)
  BY <1>2, ListIntro
<1>4. /\ Len(s) \in Nat /\ DOMAIN s = 1..Len(s)
      /\ Len(t) \in Nat /\ DOMAIN t = 1..Len(t)
      /\ DOMAIN (s \o t) = 1..Len(s \o t)
  BY <1>3, ListElements
<1> QED BY <1>2, <1>3, <1>4

(* A list of one.                                                          *)
LEMMA ListOne ==
  ASSUME NEW x
  PROVE  List(<<x>>) /\ Len(<<x>>) = 1 /\ DOMAIN <<x>> = {1} /\ <<x>>[1] = x
<1>1. <<x>> \in Seq({x})
  OBVIOUS
<1>2. List(<<x>>)
  BY <1>1, ListIntro
<1>3. Len(<<x>>) = 1 /\ DOMAIN <<x>> = {1} /\ <<x>>[1] = x
  OBVIOUS
<1> QED BY <1>2, <1>3

(* The empty list.                                                         *)
LEMMA ListNone == List(<<>>) /\ Len(<<>>) = 0
BY EmptySeq DEF List

(* A list with one more element at its end.                                *)
LEMMA ListAppend ==
  ASSUME NEW s, List(s), NEW x
  PROVE  /\ List(Append(s, x))
         /\ Len(Append(s, x)) = Len(s) + 1
         /\ DOMAIN Append(s, x) = DOMAIN s \cup {Len(s) + 1}
         /\ \A i \in DOMAIN s : Append(s, x)[i] = s[i]
         /\ Append(s, x)[Len(s) + 1] = x
<1> DEFINE S == Range(s) \cup {x}
<1>1. s \in Seq(S)
  BY SeqMonotonic DEF List
<1>2. /\ Append(s, x) \in Seq(S)
      /\ Len(Append(s, x)) = Len(s) + 1
      /\ \A i \in 1..Len(s) : Append(s, x)[i] = s[i]
      /\ Append(s, x)[Len(s) + 1] = x
  BY <1>1, AppendProperties
<1>3. List(Append(s, x))
  BY <1>2, ListIntro
<1>4. /\ Len(s) \in Nat /\ DOMAIN s = 1..Len(s)
      /\ DOMAIN Append(s, x) = 1..Len(Append(s, x))
  BY <1>3, ListElements
<1>5. 1..Len(s) + 1 = (1..Len(s)) \cup {Len(s) + 1}
  BY <1>4
<1> QED BY <1>2, <1>3, <1>4, <1>5

(* A frame in the place of the first ones: 1 pushes it, 2 replaces the     *)
(* top, 3 takes the top away as well.                                      *)
Put(s, m, x) == <<x>> \o SubSeq(s, m, Len(s))
(* A stack whose first m - 1 frames give way to x.                         *)
LEMMA ListStacked ==
  ASSUME NEW s, List(s), NEW x, NEW m \in 1..Len(s) + 1,
         NEW t, t = Put(s, m, x)
  PROVE  /\ List(t)
         /\ Len(t) = Len(s) + 2 - m
         /\ t[1] = x
         /\ \A k \in 2..Len(t) : k + m - 2 \in DOMAIN s /\ t[k] = s[k + m - 2]
<1> DEFINE u == SubSeq(s, m, Len(s))
<1>0. t = <<x>> \o u
  BY DEF Put
<1> DEFINE h == <<x>>
<1>1. Len(s) \in Nat /\ DOMAIN s = 1..Len(s)
  BY ListElements
<1>2. /\ u \in Seq(Range(s))
      /\ Len(u) = Len(s) - m + 1
      /\ \A i \in 1..Len(s) - m + 1 : u[i] = s[m + i - 1]
  BY <1>1, SubSeqProperties DEF List
<1>3. List(u) /\ DOMAIN u = 1..Len(u)
  BY <1>2, ListIntro, ListElements
<1>4. List(h) /\ Len(h) = 1 /\ DOMAIN h = {1} /\ h[1] = x
  BY ListOne
<1>5. t = h \o u
  BY <1>0
<1>a. List(h) /\ List(u)
  BY <1>3, <1>4
<1> HIDE DEF u, h
<1>6. /\ List(t) /\ Len(t) = 1 + Len(u)
      /\ \A i \in DOMAIN h : t[i] = h[i]
      /\ \A i \in DOMAIN t : (i \in DOMAIN h /\ t[i] = h[i])
                          \/ (i - Len(h) \in DOMAIN u /\ t[i] = u[i - Len(h)])
  <2>1. /\ List(h \o u) /\ Len(h \o u) = Len(h) + Len(u)
        /\ \A i \in DOMAIN h : (h \o u)[i] = h[i]
        /\ \A i \in DOMAIN (h \o u) :
             (i \in DOMAIN h /\ (h \o u)[i] = h[i])
             \/ (i - Len(h) \in DOMAIN u /\ (h \o u)[i] = u[i - Len(h)])
    BY <1>a, ListConcat
  <2> QED BY <1>4, <1>5, <2>1
<1>7. DOMAIN t = 1..Len(t)
  BY <1>6, ListElements
<1>8. ASSUME NEW k \in 2..Len(t)
      PROVE  k + m - 2 \in DOMAIN s /\ t[k] = s[k + m - 2]
  <2>1. k \in DOMAIN t /\ k \notin DOMAIN h
    BY <1>1, <1>2, <1>4, <1>6, <1>7
  <2>2. k - 1 \in DOMAIN u /\ t[k] = u[k - 1]
    BY <2>1, <1>4, <1>6
  <2>3. m + (k - 1) - 1 = k + m - 2
    BY <1>1
  <2>4. k - 1 \in 1..Len(s) - m + 1
    BY <1>1, <1>2, <1>3, <2>2
  <2>5. t[k] = s[k + m - 2]
    BY <1>2, <2>2, <2>3, <2>4
  <2> QED BY <1>1, <2>4, <2>5
<1>9. Len(t) = Len(s) + 2 - m
  BY <1>1, <1>2, <1>6
<1> QED BY <1>4, <1>6, <1>8, <1>9

-----------------------------------------------------------------------------
(* The invariant.                                                          *)

(* Where code generation is: everything is declared before the first body, *)
(* and in a body block and location are those of its function.             *)
PlaceOK ==
  stack # <<>> => /\ at \in 1..Len(program.defs)
                  /\ AllDeclared
                  /\ cur \in DOMAIN functions[fn]
                  /\ location = fn

(* Functions are lists of blocks, blocks lists of instructions.            *)
BlocksOK == \A f \in DOMAIN functions :
  /\ List(functions[f])
  /\ \A b \in DOMAIN functions[f] : List(functions[f][b])

InstructionOK(f, i) == i.scope = f /\ (i.op = "call" => i.targets[1] \in declared)
CodeOK == \A f \in DOMAIN functions : \A b \in DOMAIN functions[f] :
  \A i \in DOMAIN functions[f][b] : InstructionOK(f, functions[f][b][i])

(* Activations: the body's block is the outermost, every other is of a     *)
(* node of the program.  All but the innermost wait for an operand, and a  *)
(* short circuit has its targets before it has its second operand.         *)
Framed(a) == a = [node |-> a.node, values |-> a.values, targets |-> a.targets]
TargetsOK(a) ==
  a.targets # <<>> => /\ a.targets[1] \in DOMAIN functions[fn]
                      /\ a.targets[2] \in DOMAIN functions[fn]
ActivationOK(a) ==
  /\ Framed(a)
  /\ Children(a.node) \in Seq(Nodes(program))
  /\ List(a.values)
  /\ \A j \in DOMAIN a.values : Exists(a.values[j])
  /\ TargetsOK(a)
  /\ ShortCircuit(a.node) /\ Len(a.values) >= 2 => a.targets # <<>>
Awaits(a) ==
  /\ Len(a.values) < Len(Children(a.node))
  /\ ShortCircuit(a.node) /\ Len(a.values) = 1 => a.targets # <<>>
StackOK ==
  /\ List(stack)
  /\ \A k \in DOMAIN stack :
       /\ ActivationOK(stack[k])
       /\ k < Len(stack) => stack[k].node \in Nodes(program)
       /\ k = Len(stack) => stack[k].node.kind = "Block"
       /\ k > 1 => Awaits(stack[k])

IInv == /\ TypeOK
        /\ ScopesNest
        /\ StringsShared
        /\ List(strings)
        /\ PlaceOK
        /\ BlocksOK
        /\ CodeOK
        /\ StackOK

(* The definitions are a list of what the assumption says.                 *)
LEMMA DefsOK ==
  ASSUME NEW p \in Programs
  PROVE  /\ Len(p.defs) \in Nat
         /\ DOMAIN p.defs = 1..Len(p.defs)
         /\ \A k \in 1..Len(p.defs) : /\ p.defs[k].name \in DOMAIN p.fns
                                     /\ p.defs[k].body \in Seq(Nodes(p))
<1>1. p.defs \in Seq(Definitions(p))
  BY ProgramsAssumption
<1>2. Len(p.defs) \in Nat /\ DOMAIN p.defs = 1..Len(p.defs)
  BY <1>1, LenProperties
<1>3. \A k \in 1..Len(p.defs) : p.defs[k] \in Definitions(p)
  BY <1>1, ElementOfSeq
<1> QED BY <1>2, <1>3 DEF Definitions

(* In a body, its function has blocks.                                     *)
LEMMA InBody ==
  ASSUME IInv, stack # <<>>
  PROVE  /\ at \in 1..Len(program.defs) /\ fn \in DOMAIN functions
         /\ scopes = <<"unit", fn, fn>> /\ scopes[Len(scopes)] = fn
         /\ cur \in DOMAIN functions[fn] /\ List(functions[fn]) /\ List(Inserted)
         /\ location = fn /\ AllDeclared
         /\ Len(stack) \in Nat /\ Len(stack) >= 1 /\ DOMAIN stack = 1..Len(stack)
         /\ ActivationOK(Top)
<1>1. at \in 1..Len(program.defs) /\ cur \in DOMAIN functions[fn] /\ location = fn /\ AllDeclared
  BY DEF IInv, PlaceOK
<1>2. fn \in DOMAIN functions
  BY <1>1 DEF IInv, TypeOK, fn
<1>3. scopes = <<"unit", fn, fn>>
  BY DEF IInv, ScopesNest
<1>4. scopes[Len(scopes)] = fn
  BY <1>3
<1>5. List(functions[fn]) /\ List(Inserted)
  BY <1>1, <1>2 DEF IInv, BlocksOK, Inserted
<1>6. Len(stack) \in Nat /\ Len(stack) >= 1 /\ DOMAIN stack = 1..Len(stack)
  BY ListElements DEF IInv, StackOK
<1>7. ActivationOK(Top)
  BY <1>6 DEF IInv, StackOK, Top
<1> QED BY <1>1, <1>2, <1>3, <1>4, <1>5, <1>6, <1>7

(* Nothing is generated at the start.                                      *)
LEMMA Start ==
  ASSUME Init
  PROVE  IInv
<1>1. Len(program.defs) \in Nat /\ program \in Programs
  BY DefsOK DEF Init
<1>2. DOMAIN functions = {} /\ DOMAIN stack = {} /\ DOMAIN strings = {}
  BY DEF Init
<1>3. List(stack) /\ List(strings)
  BY ListNone DEF Init
<1>4. 1..at = {}
  BY DEF Init
<1>5. TypeOK
  BY <1>1, <1>2, <1>4 DEF Init, TypeOK
<1> QED BY <1>2, <1>3, <1>5 DEF Init, IInv, ScopesNest, StringsShared, PlaceOK, BlocksOK,
        CodeOK, StackOK

-----------------------------------------------------------------------------
(* What a step of gen_expr does to the code.                               *)

(* The code only grows, and what is new is right.                          *)
Grows ==
  /\ DOMAIN functions' = DOMAIN functions
  /\ \A f \in DOMAIN functions :
       /\ DOMAIN functions[f] \subseteq DOMAIN functions'[f]
       /\ \A b \in DOMAIN functions[f] : DOMAIN functions[f][b] \subseteq DOMAIN functions'[f][b]
Body == UNCHANGED <<program, declared, at, outcome>>

(* Generating a body stays in its function.                                *)
LEMMA NameStays ==
  ASSUME Body
  PROVE  fn' = fn
BY DEF Body, fn

(* Values and targets of an activation stay where they are.                *)
LEMMA ActivationStays ==
  ASSUME IInv, stack # <<>>, Body, Grows, NEW a
  PROVE  /\ Exists(a) => Exists(a)'
         /\ TargetsOK(a) => TargetsOK(a)'
         /\ ActivationOK(a) => ActivationOK(a)'
<1>1. fn' = fn /\ fn \in DOMAIN functions /\ program' = program
  BY InBody, NameStays DEF Body
<1>2. \A v : Exists(v) => Exists(v)'
  BY <1>1 DEF Exists, Grows
<1>3. TargetsOK(a) => TargetsOK(a)'
  BY <1>1 DEF TargetsOK, Grows
<1> QED BY <1>1, <1>2, <1>3 DEF ActivationOK

(* Instructions added to the current block.                                *)
LEMMA Emitted ==
  ASSUME IInv, stack # <<>>, Body, NEW is, List(is), Emit(is),
         \A k \in DOMAIN is : InstructionOK(fn, is[k])
  PROVE  /\ Grows /\ BlocksOK' /\ CodeOK'
         /\ DOMAIN functions'[fn] = DOMAIN functions[fn]
         /\ Len(is) >= 1 => Len(Inserted) + 1 \in DOMAIN functions'[fn][cur]
<1>1. /\ fn \in DOMAIN functions /\ cur \in DOMAIN functions[fn]
      /\ List(functions[fn]) /\ List(functions[fn][cur])
  BY InBody DEF Inserted
<1> DEFINE old == functions[fn][cur]
           new == old \o is
<1>2. functions' = [functions EXCEPT ![fn] = [functions[fn] EXCEPT ![cur] = new]]
  BY <1>1 DEF Emit
<1>3. /\ List(new) /\ Len(new) = Len(old) + Len(is)
      /\ \A i \in DOMAIN old : i \in DOMAIN new /\ new[i] = old[i]
      /\ \A i \in DOMAIN new : (i \in DOMAIN old /\ new[i] = old[i])
                             \/ (i - Len(old) \in DOMAIN is /\ new[i] = is[i - Len(old)])
  BY <1>1, ListConcat
<1>4. Len(old) \in Nat /\ Len(is) \in Nat /\ DOMAIN new = 1..Len(new)
  BY <1>1, <1>3, ListElements
<1> HIDE DEF new
<1>5. /\ DOMAIN functions' = DOMAIN functions
      /\ \A f \in DOMAIN functions : f # fn => functions'[f] = functions[f]
      /\ DOMAIN functions'[fn] = DOMAIN functions[fn]
      /\ \A b \in DOMAIN functions[fn] :
           functions'[fn][b] = IF b = cur THEN new ELSE functions[fn][b]
  BY <1>1, <1>2
<1>6. List(functions'[fn])
  <2>1. functions'[fn] = [functions[fn] EXCEPT ![cur] = new]
    BY <1>1, <1>2
  <2>2. functions[fn] \in Seq(Range(functions[fn]) \cup {new})
    BY <1>1, SeqMonotonic DEF List
  <2>3. cur \in 1..Len(functions[fn])
    BY <1>1, ListElements
  <2>4. functions'[fn] \in Seq(Range(functions[fn]) \cup {new})
    BY <2>1, <2>2, <2>3, ExceptSeq
  <2> QED BY <2>4, ListIntro
<1>7. Grows
  BY <1>3, <1>5 DEF Grows
<1>8. BlocksOK'
  BY <1>3, <1>5, <1>6 DEF IInv, BlocksOK
<1>9. CodeOK'
  <2> SUFFICES ASSUME NEW f \in DOMAIN functions, NEW b \in DOMAIN functions'[f],
                      NEW i \in DOMAIN functions'[f][b]
               PROVE  InstructionOK(f, functions'[f][b][i])
    BY <1>5 DEF CodeOK, InstructionOK, Body
  <2>1. CASE f = fn /\ b = cur
    <3>1. functions'[f][b] = new
      BY <1>5, <2>1, <1>1
    <3>2. \A j \in DOMAIN old : InstructionOK(fn, old[j])
      BY <1>1 DEF IInv, CodeOK
    <3>3. InstructionOK(fn, new[i])
      BY <1>3, <3>1, <3>2
    <3> QED BY <2>1, <3>1, <3>3
  <2>2. CASE ~(f = fn /\ b = cur)
    <3>1. b \in DOMAIN functions[f] /\ functions'[f][b] = functions[f][b]
      BY <1>5, <2>2
    <3> QED BY <3>1 DEF IInv, CodeOK
  <2> QED BY <2>1, <2>2
<1>10. Len(is) >= 1 => Len(Inserted) + 1 \in DOMAIN functions'[fn][cur]
  BY <1>1, <1>3, <1>4, <1>5 DEF Inserted
<1> QED BY <1>5, <1>7, <1>8, <1>9, <1>10

(* Steps that leave the code leave what is said about it.                  *)
LEMMA CodeStays ==
  ASSUME IInv, Body, UNCHANGED functions
  PROVE  Grows /\ BlocksOK' /\ CodeOK'
BY DEF IInv, Body, Grows, BlocksOK, CodeOK, InstructionOK

(* The invariant behind a step inside a body, apart from the stack.        *)
Placed == /\ stack # <<>> /\ stack' # <<>> /\ Body /\ scopes' = scopes
          /\ Grows /\ BlocksOK' /\ CodeOK'
          /\ cur' \in DOMAIN functions'[fn]
          /\ location' = fn
          /\ List(strings)' /\ StringsShared'

(* A step that puts its code in place keeps the invariant, if it keeps     *)
(* the stack of frames.                                                    *)
LEMMA StepInBody ==
  ASSUME IInv, Placed, StackOK'
  PROVE  IInv'
<1>1. fn' = fn /\ UNCHANGED <<program, declared, at, scopes, outcome>>
  BY NameStays DEF Placed, Body
<1>2. PlaceOK'
  BY <1>1, InBody DEF Placed, PlaceOK, AllDeclared
<1>3. \A k \in DOMAIN stack' : \A j \in DOMAIN stack'[k].values : Exists(stack[k].values[j])'
  BY DEF StackOK, ActivationOK
<1>4. TypeOK'
  BY <1>1, <1>3 DEF Placed, IInv, TypeOK, Grows
<1>5. ScopesNest'
  BY <1>1, InBody DEF Placed, ScopesNest, CodeOK, InstructionOK
<1> QED BY <1>2, <1>4, <1>5 DEF Placed, IInv

(* The frames below the innermost ones.                                    *)
LEMMA FramesStay ==
  ASSUME IInv, Placed, NEW x, NEW m \in 1..Len(stack) + 1,
         stack' = Put(stack, m, x),
         ActivationOK(x)',
         m <= Len(stack) => x.node \in Nodes(program),
         m = Len(stack) + 1 => x.node.kind = "Block",
         m = 1 => Awaits(stack[1])
  PROVE  StackOK'
<1>1. /\ List(stack) /\ Len(stack) \in Nat /\ DOMAIN stack = 1..Len(stack)
      /\ program' = program
  BY InBody DEF Placed, IInv, StackOK, Body
<1>2. /\ List(stack') /\ Len(stack') = Len(stack) + 2 - m /\ stack'[1] = x
      /\ \A k \in 2..Len(stack') : k + m - 2 \in DOMAIN stack /\ stack'[k] = stack[k + m - 2]
  BY <1>1, ListStacked
<1>3. DOMAIN stack' = 1..Len(stack')
  BY <1>2, ListElements
<1> SUFFICES ASSUME NEW k \in DOMAIN stack'
             PROVE  /\ ActivationOK(stack[k])'
                    /\ k < Len(stack') => stack'[k].node \in Nodes(program)
                    /\ k = Len(stack') => stack'[k].node.kind = "Block"
                    /\ k > 1 => Awaits(stack[k])'
  BY <1>1, <1>2 DEF StackOK
<1>4. CASE k = 1
  <2>1. stack'[k] = x
    BY <1>2, <1>4
  <2>2. ActivationOK(stack[k])'
    BY <2>1
  <2>3. k < Len(stack') => m <= Len(stack)
    BY <1>1, <1>2, <1>4
  <2>4. k = Len(stack') => m = Len(stack) + 1
    BY <1>1, <1>2, <1>4
  <2> QED BY <1>4, <2>1, <2>2, <2>3, <2>4
<1>5. CASE k # 1
  <2> DEFINE j == k + m - 2
  <2>1. j \in DOMAIN stack /\ stack'[k] = stack[j] /\ k \in Nat
    BY <1>2, <1>3, <1>5
  <2>2. ActivationOK(stack[j]) /\ (j > 1 => Awaits(stack[j]))
    BY <2>1 DEF IInv, StackOK
  <2>3. ActivationOK(stack[k])'
    BY <2>1, <2>2, ActivationStays DEF Placed
  <2>4. Awaits(stack[k])'
    <3>1. j = 1 => m = 1
      BY <1>1, <1>3, <1>5
    <3>2. Awaits(stack[j])
      BY <2>1, <2>2, <3>1, <1>1
    <3> QED BY <2>1, <3>2 DEF Awaits
  <2>5. (k < Len(stack') <=> j < Len(stack)) /\ (k = Len(stack') <=> j = Len(stack))
    BY <1>1, <1>2, <1>3
  <2>6. /\ j < Len(stack) => stack[j].node \in Nodes(program)
        /\ j = Len(stack) => stack[j].node.kind = "Block"
    BY <2>1 DEF IInv, StackOK
  <2> QED BY <2>1, <2>3, <2>4, <2>5, <2>6
<1> QED BY <1>4, <1>5

(* A node that is not a block stands above the body's block.               *)
LEMMA AboveBody ==
  ASSUME IInv, stack # <<>>, Top.node.kind # "Block"
  PROVE  /\ Len(stack) >= 2 /\ Top.node \in Nodes(program)
         /\ program \in Programs
<1>1. Len(stack) \in Nat /\ Len(stack) >= 1 /\ DOMAIN stack = 1..Len(stack)
  BY InBody
<1>2. Len(stack) # 1
  BY <1>1 DEF IInv, StackOK, Top
<1> QED BY <1>1, <1>2 DEF IInv, StackOK, Top, TypeOK

(* The activation that waits is there.                                     *)
LEMMA ReturnsStack ==
  ASSUME IInv, stack # <<>>, Top.node.kind # "Block", NEW v, ReturnTo(v)
  PROVE  stack' # <<>>
<1>1. Len(stack) >= 2 /\ Len(stack) \in Nat /\ List(stack)
  BY AboveBody, InBody DEF IInv, StackOK
<1> DEFINE x == [stack[2] EXCEPT !.values = Append(@, v)]
<1>2. stack' = Put(stack, 3, x) /\ 3 \in 1..Len(stack) + 1
  BY <1>1 DEF ReturnTo, Put
<1> HIDE DEF x
<1>3. List(stack') /\ Len(stack') = Len(stack) + 2 - 3
  BY <1>1, <1>2, ListStacked
<1> QED BY <1>1, <1>3, ListElements

(* An operand's value is added to an activation that waits for it.         *)
LEMMA FrameAnswered ==
  ASSUME IInv, Placed, NEW a, ActivationOK(a), Awaits(a),
         a.node.kind = "Block" \/ a.node \in Nodes(program),
         NEW v, Exists(v)', NEW x, x = [a EXCEPT !.values = Append(@, v)]
  PROVE  ActivationOK(x)' /\ x.node = a.node
<1>1. a = [node |-> a.node, values |-> a.values, targets |-> a.targets]
  BY DEF ActivationOK, Framed
<1> DEFINE nod == a.node
           val == a.values
           tar == a.targets
<1>2. a = [node |-> nod, values |-> val, targets |-> tar]
  BY <1>1
<1> HIDE DEF nod, val, tar
<1>3. x = [node |-> nod, values |-> Append(val, v), targets |-> tar]
  BY <1>2
<1>4. /\ Framed(x) /\ x.node = a.node /\ x.targets = a.targets
      /\ x.values = Append(a.values, v)
  BY <1>2, <1>3 DEF Framed
<1>5. /\ List(x.values)
      /\ Len(x.values) = Len(a.values) + 1
      /\ \A j \in DOMAIN x.values : \/ j \in DOMAIN a.values /\ x.values[j] = a.values[j]
                                  \/ x.values[j] = v
  BY <1>4, ListAppend DEF ActivationOK
<1>6. ActivationOK(a)'
  BY ActivationStays DEF Placed
<1>7. \A j \in DOMAIN x.values : Exists(x.values[j])'
  BY <1>5, <1>6 DEF ActivationOK
<1>8. TargetsOK(x)'
  BY <1>4, <1>6 DEF ActivationOK, TargetsOK
<1>9. ShortCircuit(x.node) /\ Len(x.values) >= 2 => x.targets # <<>>
  <2> SUFFICES ASSUME ShortCircuit(x.node), Len(x.values) >= 2 PROVE x.targets # <<>>
    OBVIOUS
  <2>1. a.node.kind = "BinOp" /\ Len(a.values) \in Nat
    BY <1>4, ListElements DEF ShortCircuit, ActivationOK
  <2>2. Len(a.node.operands) = 2
    BY <2>1, ProgramsAssumption DEF IInv, TypeOK
  <2>3. Children(a.node) = a.node.operands
    BY <2>1 DEF Children
  <2>4. Len(a.values) = 1
    <3>1. Len(a.values) < 2
      BY <2>2, <2>3 DEF Awaits
    <3>2. Len(a.values) + 1 >= 2
      BY <1>5
    <3>3. \A n \in Nat : n < 2 /\ n + 1 >= 2 => n = 1
      OBVIOUS
    <3> QED BY <2>1, <3>1, <3>2, <3>3
  <2> QED BY <1>4, <2>4 DEF Awaits
<1> QED BY <1>4, <1>5, <1>6, <1>7, <1>8, <1>9 DEF ActivationOK

(* It reaches the activation that waits for it.                            *)
LEMMA Answered ==
  ASSUME IInv, Placed, Top.node.kind # "Block", NEW v, ReturnTo(v), Exists(v)'
  PROVE  IInv'
<1>1. Len(stack) >= 2 /\ Len(stack) \in Nat /\ DOMAIN stack = 1..Len(stack)
  BY AboveBody, InBody DEF Placed
<1>2. ASSUME NEW a, a = stack[2], NEW x, x = [a EXCEPT !.values = Append(@, v)]
      PROVE  StackOK'
  <2>1. ActivationOK(a) /\ Awaits(a)
    BY <1>1, <1>2 DEF IInv, StackOK
  <2>2. /\ 2 < Len(stack) => a.node \in Nodes(program)
        /\ 2 = Len(stack) => a.node.kind = "Block"
    BY <1>1, <1>2 DEF IInv, StackOK
  <2>3. a.node.kind = "Block" \/ a.node \in Nodes(program)
    BY <1>1, <2>2
  <2>4. ActivationOK(x)' /\ x.node = a.node
    BY <1>2, <2>1, <2>3, FrameAnswered
  <2>5. stack' = Put(stack, 3, x)
    BY <1>2 DEF ReturnTo, Put
  <2>6. 3 \in 1..Len(stack) + 1
    BY <1>1
  <2>7. 3 <= Len(stack) => x.node \in Nodes(program)
    BY <1>1, <2>2, <2>4
  <2>8. 3 = Len(stack) + 1 => x.node.kind = "Block"
    BY <1>1, <2>2, <2>4
  <2> QED BY <2>4, <2>5, <2>6, <2>7, <2>8, FramesStay
<1>3. StackOK'
  BY <1>2
<1> QED BY <1>3, StepInBody

(* A step that emits instructions and answers.                             *)
LEMMA EmitAnswers ==
  ASSUME IInv, stack # <<>>, Top.node.kind # "Block", Body, scopes' = scopes,
         SetLocation, UNCHANGED <<cur, strings>>,
         NEW is, List(is), Len(is) >= 1, Emit(is),
         \A k \in DOMAIN is : InstructionOK(fn, is[k]),
         NEW v, ReturnTo(v),
         v.from[1] = "instruction" =>
           v.from[2] = cur /\ v.from[3] = Len(Inserted) + 1
  PROVE  IInv'
<1>1. /\ Grows /\ BlocksOK' /\ CodeOK' /\ DOMAIN functions'[fn] = DOMAIN functions[fn]
      /\ Len(Inserted) + 1 \in DOMAIN functions'[fn][cur]
  BY Emitted
<1>2. fn' = fn /\ cur \in DOMAIN functions[fn] /\ location' = fn
  BY NameStays, InBody DEF SetLocation
<1>3. Exists(v)'
  BY <1>1, <1>2 DEF Exists
<1>4. List(strings)' /\ StringsShared'
  BY DEF IInv, StringsShared
<1>5. stack' # <<>>
  BY ReturnsStack
<1>6. Placed
  BY <1>1, <1>2, <1>4, <1>5 DEF Placed
<1> QED BY <1>3, <1>6, Answered

-----------------------------------------------------------------------------
(* The steps of gen_expr.                                                  *)

(* Nodes without code: numbers, strings and symbols.                       *)
LEMMA LeafKeeps ==
  ASSUME IInv, stack # <<>>, Top.node.kind # "Block", Unchanged,
         UNCHANGED <<functions, cur, location>>, List(strings)', StringsShared',
         NEW v, ReturnTo(v), v.from[1] # "instruction"
  PROVE  IInv'
<1>1. Body /\ scopes' = scopes
  BY DEF Unchanged, Body
<1>2. Grows /\ BlocksOK' /\ CodeOK'
  BY <1>1, CodeStays
<1>3. stack' # <<>> /\ cur \in DOMAIN functions[fn] /\ location = fn
  BY ReturnsStack, InBody
<1>4. Placed
  BY <1>1, <1>2, <1>3 DEF Placed
<1> QED BY <1>4, Answered DEF Exists

(* A number is a constant: no code.                                        *)
LEMMA NumberKeeps ==
  ASSUME IInv, Number
  PROVE  IInv'
<1>1. List(strings)' /\ StringsShared'
  BY DEF Number, IInv, StringsShared
<1> QED BY <1>1, LeafKeeps DEF Number, Evaluated, Value

(* A literal gets the global of an equal one.                              *)
LEMMA StringKeeps ==
  ASSUME IInv, String
  PROVE  IInv'
<1>1. List(strings) /\ StringsShared
  BY DEF IInv
<1>2. List(strings)' /\ StringsShared'
  <2>1. CASE strings' = strings
    BY <1>1, <2>1 DEF StringsShared
  <2>2. CASE /\ strings' = Append(strings, Top.node.text)
             /\ \A k \in DOMAIN strings : strings[k] # Top.node.text
    <3> DEFINE text == Top.node.text
    <3>1. strings' = Append(strings, text) /\ \A k \in DOMAIN strings : strings[k] # text
      BY <2>2
    <3> HIDE DEF text
    <3>2. /\ List(strings') /\ DOMAIN strings' = DOMAIN strings \cup {Len(strings) + 1}
          /\ \A i \in DOMAIN strings : strings'[i] = strings[i]
          /\ strings'[Len(strings) + 1] = text
      BY <1>1, <3>1, ListAppend
    <3> QED BY <1>1, <3>1, <3>2 DEF StringsShared
  <2> QED BY <2>1, <2>2 DEF String, FindOrCreateString
<1>3. PICK k : ReturnTo(Value("ptr", <<"global", k>>))
  BY DEF String
<1> DEFINE v == Value("ptr", <<"global", k>>)
<1>4. v.from[1] # "instruction"
  BY DEF Value
<1> HIDE DEF v
<1>5. ReturnTo(v)
  BY <1>3 DEF v
<1> QED BY <1>2, <1>4, <1>5, LeafKeeps DEF String, Evaluated

(* A symbol is the first parameter of its name: no code.                   *)
LEMMA SymbolKeeps ==
  ASSUME IInv, Symbol
  PROVE  IInv'
<1>1. List(strings)' /\ StringsShared'
  BY DEF Symbol, IInv, StringsShared
<1>2. PICK i : ReturnTo(Value(Params[i].type, <<"param", i>>))
  BY DEF Symbol
<1>3. ASSUME NEW v, v = Value(Params[i].type, <<"param", i>>)
      PROVE  IInv'
  <2>1. v.from[1] # "instruction" /\ ReturnTo(v)
    BY <1>2, <1>3 DEF Value
  <2> QED BY <1>1, <2>1, LeafKeeps DEF Symbol, Evaluated
<1> QED BY <1>3

(* The operands are evaluated in a new activation.                         *)
LEMMA EvaluateKeeps ==
  ASSUME IInv, Evaluate
  PROVE  IInv'
<1>1. stack # <<>> /\ Body /\ scopes' = scopes /\ UNCHANGED <<functions, cur, location, strings>>
  BY DEF Evaluate, Unchanged, Body
<1>2. /\ List(stack) /\ Len(stack) \in Nat /\ Len(stack) >= 1 /\ DOMAIN stack = 1..Len(stack)
      /\ ActivationOK(Top)
  BY <1>1, InBody DEF IInv, StackOK
<1>3. List(strings)' /\ StringsShared' /\ cur \in DOMAIN functions[fn] /\ location = fn
  BY <1>1, InBody DEF IInv, StringsShared
<1>4. Grows /\ BlocksOK' /\ CodeOK'
  BY <1>1, CodeStays
<1> DEFINE child == Children(Top.node)[Len(Top.values) + 1]
<1>5. ASSUME NEW node, node = child, NEW x, x = Activation(node)
      PROVE  IInv'
  <2>1. node \in Nodes(program)
    <3>1. Children(Top.node) \in Seq(Nodes(program)) /\ Len(Top.values) \in Nat
      BY <1>2, ListElements DEF ActivationOK
    <3>2. Len(Children(Top.node)) \in Nat
      BY <3>1, LenProperties
    <3>3. Len(Top.values) + 1 \in 1..Len(Children(Top.node))
      BY <3>1, <3>2 DEF Evaluate
    <3> QED BY <1>5, <3>1, <3>3, ElementOfSeq
  <2>2. /\ Framed(x) /\ x.node = node /\ x.values = <<>> /\ x.targets = <<>>
    BY <1>5 DEF Activation, Framed
  <2>3. Children(node) \in Seq(Nodes(program)) /\ program' = program
    BY <1>1, <2>1, ProgramsAssumption DEF IInv, TypeOK, Body
  <2>4. List(x.values) /\ Len(x.values) = 0 /\ DOMAIN x.values = {}
    BY <2>2, ListNone
  <2>5. ActivationOK(x)'
    BY <2>2, <2>3, <2>4 DEF ActivationOK, TargetsOK
  <2>6. stack' = Put(stack, 1, x)
    <3>1. stack' = <<x>> \o stack
      BY <1>5 DEF Evaluate, NextChild
    <3>2. SubSeq(stack, 1, Len(stack)) = stack
      BY <1>2, SubSeqFull DEF List
    <3> QED BY <3>1, <3>2 DEF Put
  <2>7. 1 \in 1..Len(stack) + 1 /\ 1 <= Len(stack) /\ 1 # Len(stack) + 1
    BY <1>2
  <2>8. Awaits(stack[1])
    BY DEF Evaluate, Awaits, Branches, Top
  <2>9. stack' # <<>>
    <3>1. List(stack') /\ Len(stack') = Len(stack) + 2 - 1
      BY <1>2, <2>6, <2>7, ListStacked
    <3> QED BY <1>2, <3>1, ListElements
  <2>10. Placed
    BY <1>1, <1>3, <1>4, <2>9 DEF Placed
  <2>11. StackOK'
    BY <2>1, <2>2, <2>5, <2>6, <2>7, <2>8, <2>10, FramesStay
  <2> QED BY <2>10, <2>11, StepInBody
<1> QED BY <1>5

(* What the steps emit: instructions at the node's place, and calls of     *)
(* declared functions.                                                     *)
LEMMA BuiltRight ==
  ASSUME IInv, stack # <<>>, SetLocation
  PROVE  /\ \A op, args : op # "call" => InstructionOK(fn, Build(op, args))
         /\ \A op, args, targets : op # "call" =>
              InstructionOK(fn, Instruction(op, args, targets, location'))
         /\ \A args, f : f \in declared =>
              InstructionOK(fn, Instruction("call", args, <<f>>, location'))
BY InBody DEF SetLocation, InstructionOK, Build, Instruction

(* A list of one right instruction has only right ones.                    *)
LEMMA OneRight ==
  ASSUME NEW f, NEW i, InstructionOK(f, i)
  PROVE  List(<<i>>) /\ Len(<<i>>) >= 1 /\ \A k \in DOMAIN <<i>> : InstructionOK(f, <<i>>[k])
BY ListOne

(* So has a list of two.                                                   *)
LEMMA TwoRight ==
  ASSUME NEW f, NEW i, NEW j, InstructionOK(f, i), InstructionOK(f, j)
  PROVE  /\ List(<<i, j>>) /\ Len(<<i, j>>) >= 1
         /\ \A k \in DOMAIN <<i, j>> : InstructionOK(f, <<i, j>>[k])
<1>1. <<i, j>> \in Seq({i, j})
  OBVIOUS
<1>2. DOMAIN <<i, j>> = {1, 2} /\ Len(<<i, j>>) = 2 /\ <<i, j>>[1] = i /\ <<i, j>>[2] = j
  OBVIOUS
<1>3. List(<<i, j>>)
  BY <1>1, ListIntro
<1>4. \A k \in DOMAIN <<i, j>> : InstructionOK(f, <<i, j>>[k])
  BY <1>2
<1> QED BY <1>2, <1>3, <1>4

(* The value of a built instruction is its place: the end of the current   *)
(* block.                                                                  *)
LEMMA BuiltPlace ==
  ASSUME NEW type
  PROVE  Built(type).from[2] = cur /\ Built(type).from[3] = Len(Inserted) + 1
BY DEF Built, Value

(* Operators, calls, "unreachable" and return.                             *)
LEMMA OperatorKeeps ==
  ASSUME IInv, PrefixOp \/ BinOp \/ Unreachable \/ Return
  PROVE  IInv'
<1>1. /\ stack # <<>> /\ Top.node.kind # "Block" /\ Body /\ scopes' = scopes
      /\ SetLocation /\ UNCHANGED <<cur, strings>>
  BY DEF PrefixOp, BinOp, Unreachable, Return, Evaluated, Unchanged, Body
<1>2. \E op, args, v : /\ op # "call" /\ Emit(<<Build(op, args)>>) /\ ReturnTo(v)
                       /\ v = Void \/ \E type : v = Built(type)
  BY DEF PrefixOp, BinOp, Unreachable, Return
<1>3. PICK op, args, v : /\ op # "call" /\ Emit(<<Build(op, args)>>) /\ ReturnTo(v)
                         /\ v = Void \/ \E type : v = Built(type)
  BY <1>2
<1>4. v.from[1] = "instruction" => v.from[2] = cur /\ v.from[3] = Len(Inserted) + 1
  BY <1>3, BuiltPlace DEF Void, Value
<1>5. InstructionOK(fn, Build(op, args))
  BY <1>1, <1>3, BuiltRight
<1> DEFINE is == <<Build(op, args)>>
<1>6. List(is) /\ Len(is) >= 1 /\ \A k \in DOMAIN is : InstructionOK(fn, is[k])
  BY <1>5, OneRight
<1>7. Emit(is)
  BY <1>3
<1> HIDE DEF is
<1> QED BY <1>1, <1>3, <1>4, <1>6, <1>7, EmitAnswers

(* A call has its callee declared.                                         *)
LEMMA CallKeeps ==
  ASSUME IInv, Call
  PROVE  IInv'
<1>1. /\ stack # <<>> /\ Top.node.kind = "Call" /\ Body /\ scopes' = scopes
      /\ SetLocation /\ UNCHANGED <<cur, strings>>
  BY DEF Call, Evaluated, Unchanged, Body
<1>2. Top.node.callee \in declared
  <2>1. Top.node \in Nodes(program) /\ program \in Programs /\ AllDeclared
    BY <1>1, AboveBody, InBody
  <2> QED BY <1>1, <2>1, ProgramsAssumption DEF AllDeclared
<1> DEFINE call == Instruction("call", Top.values, <<Top.node.callee>>, location')
           last == Build("unreachable", <<>>)
<1>3. InstructionOK(fn, call) /\ InstructionOK(fn, last)
  BY <1>1, <1>2, BuiltRight
<1>4. \/ Emit(<<call, last>>) /\ ReturnTo(Void)
      \/ Emit(<<call>>) /\ \E type : ReturnTo(Built(type))
  BY DEF Call
<1> HIDE DEF call, last
<1>5. ASSUME NEW is, List(is), Len(is) >= 1, \A k \in DOMAIN is : InstructionOK(fn, is[k]),
             Emit(is), NEW v, ReturnTo(v), v = Void \/ \E type : v = Built(type)
      PROVE  IInv'
  <2>1. v.from[1] = "instruction" => v.from[2] = cur /\ v.from[3] = Len(Inserted) + 1
    BY <1>5, BuiltPlace DEF Void, Value
  <2>2. Top.node.kind # "Block"
    BY <1>1
  <2> QED BY <1>1, <1>5, <2>1, <2>2, EmitAnswers
<1>6. CASE Emit(<<call, last>>) /\ ReturnTo(Void)
  BY <1>3, <1>5, <1>6, TwoRight
<1>7. CASE Emit(<<call>>) /\ \E type : ReturnTo(Built(type))
  BY <1>3, <1>5, <1>7, OneRight
<1> QED BY <1>4, <1>6, <1>7

(* The code of the current function is replaced: blocks and their          *)
(* instructions may be added.                                              *)
LEMMA Replaced ==
  ASSUME IInv, stack # <<>>, Body, NEW new, List(new),
         functions' = [functions EXCEPT ![fn] = new],
         DOMAIN functions[fn] \subseteq DOMAIN new,
         \A b \in DOMAIN new :
           /\ List(new[b])
           /\ b \in DOMAIN functions[fn] => DOMAIN functions[fn][b] \subseteq DOMAIN new[b]
           /\ \A i \in DOMAIN new[b] :
                \/ /\ b \in DOMAIN functions[fn] /\ i \in DOMAIN functions[fn][b]
                   /\ new[b][i] = functions[fn][b][i]
                \/ InstructionOK(fn, new[b][i])
  PROVE  Grows /\ BlocksOK' /\ CodeOK' /\ functions'[fn] = new
<1>1. fn \in DOMAIN functions
  BY InBody
<1>2. /\ DOMAIN functions' = DOMAIN functions /\ functions'[fn] = new
      /\ \A f \in DOMAIN functions : f # fn => functions'[f] = functions[f]
  BY <1>1
<1>3. Grows /\ BlocksOK'
  BY <1>2 DEF Grows, BlocksOK, IInv
<1>4. \A b \in DOMAIN new : \A i \in DOMAIN new[b] : InstructionOK(fn, new[b][i])
  BY <1>1 DEF IInv, CodeOK
<1>5. CodeOK'
  BY <1>2, <1>4 DEF IInv, CodeOK, InstructionOK, Body
<1> QED BY <1>2, <1>3, <1>5

(* A short circuit behind its first operand.                               *)
LEMMA BranchKeeps ==
  ASSUME IInv, Branch
  PROVE  IInv'
<1>1. /\ stack # <<>> /\ Body /\ scopes' = scopes /\ SetLocation /\ strings' = strings
      /\ Branches(Top)
  BY DEF Branch, Unchanged, Body
<1>2. /\ cur \in DOMAIN functions[fn] /\ List(functions[fn]) /\ fn \in DOMAIN functions
      /\ Len(stack) \in Nat /\ Len(stack) >= 1 /\ DOMAIN stack = 1..Len(stack)
      /\ List(stack) /\ ActivationOK(Top)
  BY <1>1, InBody DEF IInv, StackOK
<1>3. location' = fn
  BY <1>1, InBody DEF SetLocation
<1> DEFINE old == functions[fn]
           other == Len(old) + 1
           merge == other + 1
<1>4. PICK one, two, targets :
        /\ InstructionOK(fn, one) /\ InstructionOK(fn, two)
        /\ functions' = [functions EXCEPT ![fn] = [k \in 1..merge |->
             IF k = cur THEN old[k] \o <<one, two>> ELSE IF k < other THEN old[k] ELSE <<>>]]
        /\ cur' = other
        /\ stack' = <<[Top EXCEPT !.targets = <<other, merge>>]>> \o Tail(stack)
  <2> DEFINE value == Top.values[1]
             one == Build("icmp", <<value, Zero(value.type)>>)
             two == Instruction("br", <<Built("i1")>>,
                      IF Top.node.op = "&&" THEN <<merge, other>> ELSE <<other, merge>>, location')
  <2>1. InstructionOK(fn, one) /\ InstructionOK(fn, two)
    BY <1>1, BuiltRight
  <2>2. functions' = [functions EXCEPT ![fn] = [k \in 1..merge |->
             IF k = cur THEN old[k] \o <<one, two>> ELSE IF k < other THEN old[k] ELSE <<>>]]
    BY <1>2 DEF Branch
  <2>3. /\ cur' = other
        /\ stack' = <<[Top EXCEPT !.targets = <<other, merge>>]>> \o Tail(stack)
    BY DEF Branch
  <2> HIDE DEF one, two
  <2> QED BY <2>1, <2>2, <2>3
<1> DEFINE new == [k \in 1..merge |->
             IF k = cur THEN old[k] \o <<one, two>> ELSE IF k < other THEN old[k] ELSE <<>>]
<1>5. Len(old) \in Nat /\ DOMAIN old = 1..Len(old)
  BY <1>2, ListElements
<1>6. DOMAIN new = 1..merge /\ merge \in Nat /\ cur < other /\ cur \in Nat /\ other \in 1..merge
  BY <1>2, <1>5
<1>7. List(new)
  <2> DEFINE S == {new[k] : k \in 1..merge}
  <2>1. new \in [1..merge -> S]
    OBVIOUS
  <2> HIDE DEF new, S
  <2>2. new \in Seq(S)
    BY <1>6, <2>1
  <2> QED BY <2>2, ListIntro
<1>8. ASSUME NEW b \in DOMAIN new
      PROVE  /\ List(new[b])
             /\ b \in DOMAIN old => DOMAIN old[b] \subseteq DOMAIN new[b]
             /\ \A i \in DOMAIN new[b] :
                  \/ b \in DOMAIN old /\ i \in DOMAIN old[b] /\ new[b][i] = old[b][i]
                  \/ InstructionOK(fn, new[b][i])
  <2>1. CASE b = cur
    <3> DEFINE block == old[cur]
               tail == <<one, two>>
    <3>1. List(block) /\ List(tail) /\ \A k \in DOMAIN tail : InstructionOK(fn, tail[k])
      BY <1>1, <1>4, TwoRight, InBody DEF Inserted
    <3>2. new[b] = block \o tail /\ b \in DOMAIN old /\ old[b] = block
      BY <1>2, <1>6, <2>1
    <3> HIDE DEF block, tail, new
    <3>3. /\ List(block \o tail)
          /\ \A i \in DOMAIN block : i \in DOMAIN (block \o tail)
          /\ \A i \in DOMAIN (block \o tail) :
               (i \in DOMAIN block /\ (block \o tail)[i] = block[i])
               \/ (i - Len(block) \in DOMAIN tail /\ (block \o tail)[i] = tail[i - Len(block)])
      BY <3>1, ListConcat
    <3> QED BY <3>1, <3>2, <3>3
  <2>2. CASE b # cur /\ b < other
    <3>1. new[b] = old[b] /\ b \in DOMAIN old
      BY <1>5, <1>6, <2>2
    <3>2. List(old[b])
      BY <1>2, <3>1 DEF IInv, BlocksOK
    <3> HIDE DEF new
    <3> QED BY <3>1, <3>2
  <2>3. CASE b # cur /\ ~(b < other)
    <3>1. new[b] = <<>> /\ b \notin DOMAIN old
      BY <1>5, <1>6, <2>3
    <3> HIDE DEF new
    <3>2. DOMAIN new[b] = {}
      BY <3>1
    <3> QED BY <3>1, <3>2, ListNone
  <2> QED BY <2>1, <2>2, <2>3
<1>9. functions' = [functions EXCEPT ![fn] = new]
  BY <1>4
<1>10. DOMAIN old \subseteq DOMAIN new
  BY <1>5, <1>6
<1> HIDE DEF new
<1>11. Grows /\ BlocksOK' /\ CodeOK' /\ functions'[fn] = new
  BY <1>1, <1>7, <1>8, <1>9, <1>10, Replaced
<1>12. List(strings)' /\ StringsShared'
  BY <1>1 DEF IInv, StringsShared
<1>13. ASSUME NEW a, a = Top, NEW x, x = [a EXCEPT !.targets = <<other, merge>>]
       PROVE  IInv'
  <2>1. a = [node |-> a.node, values |-> a.values, targets |-> a.targets]
    BY <1>2, <1>13 DEF ActivationOK, Framed
  <2>2. /\ x = [node |-> x.node, values |-> x.values, targets |-> x.targets]
        /\ x.node = a.node /\ x.values = a.values /\ x.targets = <<other, merge>>
    BY <1>13, <2>1
  <2>3. ActivationOK(a)'
    BY <1>1, <1>2, <1>11, <1>13, ActivationStays
  <2>4. TargetsOK(x)'
    <3>1. fn' = fn /\ {other, merge} \subseteq DOMAIN functions'[fn]
      BY <1>1, <1>6, <1>11, NameStays
    <3> QED BY <2>2, <3>1 DEF TargetsOK
  <2>5. x.targets # <<>>
    BY <2>2
  <2>6. ActivationOK(x)'
    BY <2>2, <2>3, <2>4, <2>5 DEF ActivationOK, Framed
  <2>7. a.node.kind # "Block"
    BY <1>1, <1>13 DEF Branches, ShortCircuit
  <2>8. Len(stack) >= 2 /\ x.node \in Nodes(program)
    BY <1>1, <1>13, <2>2, <2>7, AboveBody
  <2>9. stack' = Put(stack, 2, x)
    <3>1. stack' = <<x>> \o Tail(stack)
      BY <1>4, <1>13
    <3>2. Tail(stack) = SubSeq(stack, 2, Len(stack))
      BY <1>1, <1>2, TailIsSubSeq DEF List
    <3> QED BY <3>1, <3>2 DEF Put
  <2>10. 2 \in 1..Len(stack) + 1 /\ 2 # Len(stack) + 1 /\ 2 # 1
    BY <1>2, <2>8
  <2>11. stack' # <<>>
    <3>1. List(stack') /\ Len(stack') = Len(stack) + 2 - 2
      BY <1>2, <2>9, <2>10, ListStacked
    <3> QED BY <1>2, <3>1, ListElements
  <2>12. Placed
    BY <1>1, <1>3, <1>4, <1>6, <1>11, <1>12, <2>11 DEF Placed
  <2>13. StackOK'
    BY <2>6, <2>8, <2>9, <2>10, <2>12, FramesStay
  <2> QED BY <2>12, <2>13, StepInBody
<1> QED BY <1>13

(* Blocks and blocks that have the same instructions, and new ones.        *)
Lists(blocks) == List(blocks) /\ \A c \in DOMAIN blocks : List(blocks[c])
Extends(new, blocks, f) ==
  /\ DOMAIN new = DOMAIN blocks
  /\ \A c \in DOMAIN new :
       /\ DOMAIN blocks[c] \subseteq DOMAIN new[c]
       /\ \A k \in DOMAIN new[c] :
            \/ k \in DOMAIN blocks[c] /\ new[c][k] = blocks[c][k]
            \/ InstructionOK(f, new[c][k])

(* A block with one instruction more.                                      *)
Longer(blocks, b, i) == [blocks EXCEPT ![b] = Append(@, i)]
(* A block that grows by an instruction keeps what the function had.       *)
LEMMA BlockAppended ==
  ASSUME NEW f, NEW blocks, Lists(blocks), NEW b \in DOMAIN blocks,
         NEW i, InstructionOK(f, i), NEW new, new = Longer(blocks, b, i)
  PROVE  Lists(new) /\ Extends(new, blocks, f) /\ Len(blocks[b]) + 1 \in DOMAIN new[b]
<1> DEFINE block == blocks[b]
           more == Append(block, i)
<1>1. /\ List(more) /\ DOMAIN more = DOMAIN block \cup {Len(block) + 1}
      /\ \A k \in DOMAIN block : more[k] = block[k]
      /\ more[Len(block) + 1] = i
  BY ListAppend DEF Lists
<1>2. new = [blocks EXCEPT ![b] = more]
  BY DEF Longer
<1> HIDE DEF more
<1>3. /\ DOMAIN new = DOMAIN blocks /\ new[b] = more
      /\ \A c \in DOMAIN blocks : c # b => new[c] = blocks[c]
  BY <1>2
<1>4. List(new)
  <2>1. blocks \in Seq(Range(blocks) \cup {more}) /\ b \in 1..Len(blocks)
    BY SeqMonotonic, ListElements DEF List, Lists
  <2>2. new \in Seq(Range(blocks) \cup {more})
    BY <1>2, <2>1, ExceptSeq
  <2> QED BY <2>2, ListIntro
<1> QED BY <1>1, <1>3, <1>4 DEF Lists, Extends

(* Growth is transitive.                                                   *)
LEMMA ExtendedTwice ==
  ASSUME NEW f, NEW a, NEW b, NEW c, Extends(b, a, f), Extends(c, b, f)
  PROVE  Extends(c, a, f)
BY DEF Extends

(* A short circuit behind its second operand.                              *)
LEMMA MergeKeeps ==
  ASSUME IInv, Merge
  PROVE  IInv'
<1>1. /\ stack # <<>> /\ Body /\ scopes' = scopes /\ SetLocation /\ strings' = strings
      /\ ShortCircuit(Top.node) /\ Top.node.kind # "Block"
  BY DEF Merge, Evaluated, Unchanged, Body, ShortCircuit
<1>2. /\ cur \in DOMAIN functions[fn] /\ List(functions[fn]) /\ fn \in DOMAIN functions
      /\ \A b \in DOMAIN functions[fn] : List(functions[fn][b])
  BY <1>1, InBody DEF IInv, BlocksOK
<1>3. location' = fn /\ ActivationOK(Top)
  BY <1>1, InBody DEF SetLocation
<1> DEFINE blocks == functions[fn]
           merge == Top.targets[2]
<1>4. merge \in DOMAIN blocks
  <2>1. Top.node \in Nodes(program) /\ program \in Programs /\ Top.node.kind = "BinOp"
    BY <1>1, AboveBody DEF ShortCircuit
  <2>2. Len(Children(Top.node)) = 2
    BY <2>1, ProgramsAssumption DEF Children
  <2>3. Len(Top.values) = 2
    BY <2>2 DEF Merge, Evaluated
  <2>4. Top.targets # <<>>
    BY <1>1, <1>3, <2>3 DEF ActivationOK
  <2> QED BY <1>3, <2>4 DEF ActivationOK, TargetsOK
<1>5. PICK one, phi :
        /\ InstructionOK(fn, one) /\ InstructionOK(fn, phi)
        /\ functions' = [functions EXCEPT ![fn][cur] = Append(@, one), ![fn][merge] = Append(@, phi)]
        /\ ReturnTo(Value("i1", <<"instruction", merge, Len(blocks[merge]) + 1>>))
        /\ cur' = merge
  <2> DEFINE value == Top.values[2]
             one == Build("icmp", <<value, Zero(value.type)>>)
             phi == Instruction("phi", <<Value("i1", <<"one">>), Built("i1")>>,
                                <<merge, Top.targets[1]>>, location')
  <2>1. InstructionOK(fn, one) /\ InstructionOK(fn, phi)
    BY <1>1, BuiltRight
  <2>2. /\ functions' = [functions EXCEPT ![fn][cur] = Append(@, one),
                                          ![fn][merge] = Append(@, phi)]
        /\ ReturnTo(Value("i1", <<"instruction", merge, Len(blocks[merge]) + 1>>))
        /\ cur' = merge
    BY DEF Merge
  <2> HIDE DEF one, phi
  <2> QED BY <2>1, <2>2
<1>6. ASSUME NEW once, once = Longer(blocks, cur, one),
             NEW twice, twice = Longer(once, merge, phi)
      PROVE  IInv'
  <2>1. Lists(blocks) /\ InstructionOK(fn, one) /\ InstructionOK(fn, phi)
    BY <1>2, <1>5 DEF Lists
  <2>2. Lists(once) /\ Extends(once, blocks, fn)
    BY <1>2, <1>6, <2>1, BlockAppended
  <2>3. merge \in DOMAIN once
    BY <1>4, <2>2 DEF Extends
  <2> HIDE DEF merge
  <2>4. Lists(twice) /\ Extends(twice, once, fn) /\ Len(once[merge]) + 1 \in DOMAIN twice[merge]
    BY <1>6, <2>1, <2>2, <2>3, BlockAppended
  <2>5. functions' = [functions EXCEPT ![fn] = twice]
    BY <1>2, <1>4, <1>5, <1>6 DEF Longer
  <2>6. Grows /\ BlocksOK' /\ CodeOK' /\ functions'[fn] = twice
    <3>1. Extends(twice, blocks, fn)
      BY <2>2, <2>4, ExtendedTwice
    <3> QED BY <1>1, <2>4, <2>5, <3>1, Replaced DEF Lists, Extends
  <2>7. merge \in DOMAIN twice /\ Len(blocks[merge]) + 1 \in DOMAIN twice[merge]
    <3>1. /\ List(blocks[merge]) /\ List(once[merge]) /\ List(twice[merge])
          /\ DOMAIN blocks[merge] \subseteq DOMAIN once[merge]
          /\ merge \in DOMAIN twice
      BY <1>4, <2>1, <2>2, <2>3, <2>4 DEF Lists, Extends
    <3>2. /\ Len(blocks[merge]) \in Nat /\ DOMAIN blocks[merge] = 1..Len(blocks[merge])
          /\ Len(once[merge]) \in Nat /\ DOMAIN once[merge] = 1..Len(once[merge])
          /\ Len(twice[merge]) \in Nat /\ DOMAIN twice[merge] = 1..Len(twice[merge])
      BY <3>1, ListElements
    <3>3. Len(blocks[merge]) <= Len(once[merge])
      BY <3>1, <3>2
    <3>4. Len(blocks[merge]) + 1 \in 1..Len(twice[merge])
      BY <2>4, <3>2, <3>3
    <3> QED BY <3>1, <3>2, <3>4
  <2>8. List(strings)' /\ StringsShared'
    BY <1>1 DEF IInv, StringsShared
  <2>9. ASSUME NEW v, v = Value("i1", <<"instruction", merge, Len(blocks[merge]) + 1>>)
        PROVE  IInv'
    <3>1. ReturnTo(v) /\ v.from[2] = merge /\ v.from[3] = Len(blocks[merge]) + 1
      BY <1>5, <2>9 DEF Value
    <3>2. fn' = fn
      BY <1>1, NameStays
    <3>3. Exists(v)'
      BY <2>6, <2>7, <3>1, <3>2 DEF Exists
    <3>4. stack' # <<>>
      BY <1>1, <3>1, ReturnsStack
    <3>5. cur' \in DOMAIN functions'[fn]
      BY <1>5, <2>6, <2>7
    <3>6. Placed
      BY <1>1, <1>3, <2>6, <2>8, <3>4, <3>5 DEF Placed
    <3> QED BY <1>1, <3>1, <3>3, <3>6, Answered
  <2> QED BY <2>9
<1> QED BY <1>6

-----------------------------------------------------------------------------
(* Around the bodies.                                                      *)

(* Declaring a function keeps the invariant.                               *)
LEMMA DeclareKeeps ==
  ASSUME IInv, NEW f \in DOMAIN program.fns \ declared, Declare(f)
  PROVE  IInv'
<1>1. /\ UNCHANGED <<program, at, scopes, functions, cur, location, strings, stack, outcome>>
      /\ declared' = declared \cup {f}
  BY DEF Declare
<1>2. fn' = fn
  BY <1>1 DEF fn
<1>3. stack = <<>>
  BY InBody DEF AllDeclared
<1>4. DOMAIN stack = {}
  BY <1>3
<1>5. TypeOK'
  BY <1>1, <1>3, <1>4 DEF IInv, TypeOK
<1>6. ScopesNest' /\ StringsShared'
  BY <1>1, <1>2 DEF IInv, ScopesNest, StringsShared
<1>7. PlaceOK' /\ BlocksOK' /\ CodeOK' /\ StackOK'
  BY <1>1, <1>3, <1>4 DEF IInv, PlaceOK, BlocksOK, CodeOK, InstructionOK, StackOK
<1> QED BY <1>1, <1>5, <1>6, <1>7 DEF IInv

(* A panic, a crash or the verifier's verdict.                             *)
LEMMA StopKeeps ==
  ASSUME IInv, outcome' \in {"running", "done", "crash", "panic", "abort"},
         UNCHANGED <<program, declared, at, scopes, functions, cur, location, strings, stack>>
  PROVE  IInv'
<1>1. fn' = fn
  BY DEF fn
<1>2. \A v : Exists(v) => Exists(v)'
  BY <1>1 DEF Exists
<1>3. \A a : ActivationOK(a) => ActivationOK(a)'
  BY <1>1, <1>2 DEF ActivationOK, TargetsOK
<1>4. StackOK'
  BY <1>3 DEF IInv, StackOK, Awaits
<1>5. TypeOK'
  BY <1>1, <1>2 DEF IInv, TypeOK
<1>6. /\ ScopesNest' /\ StringsShared' /\ List(strings)' /\ PlaceOK'
      /\ BlocksOK' /\ CodeOK'
  BY <1>1 DEF IInv, ScopesNest, StringsShared, PlaceOK, BlocksOK, CodeOK, InstructionOK,
              AllDeclared
<1> QED BY <1>4, <1>5, <1>6 DEF IInv

(* The scopes of a function on the unit, and the unit without them.         *)
LEMMA ScopesOf ==
  ASSUME NEW S, NEW u \in S, NEW x \in S
  PROVE  /\ <<u>> \o <<x, x>> = <<u, x, x>>
         /\ SubSeq(<<u, x, x>>, 1, 1) = <<u>>
<1>0. /\ <<u, x, x>> \in Seq(S) /\ <<u>> \in Seq(S) /\ <<x, x>> \in Seq(S)
      /\ Len(<<u, x, x>>) = 3 /\ Len(<<u>>) = 1 /\ Len(<<x, x>>) = 2
  OBVIOUS
<1> DEFINE c == <<u>> \o <<x, x>>
           d == SubSeq(<<u, x, x>>, 1, 1)
<1>1. /\ c \in Seq(S) /\ Len(c) = 3 /\ c[1] = u /\ c[2] = x /\ c[3] = x
  <2>1. /\ c \in Seq(S) /\ Len(c) = 3
        /\ \A i \in 1..3 : c[i] = IF i <= 1 THEN <<u>>[i] ELSE <<x, x>>[i - 1]
    BY <1>0, ConcatProperties
  <2> HIDE DEF c
  <2>2. c[1] = u /\ c[2] = <<x, x>>[2 - 1] /\ c[3] = <<x, x>>[3 - 1]
    BY <2>1
  <2> QED BY <2>1, <2>2
<1>2. /\ d \in Seq(S) /\ Len(d) = 1 /\ d[1] = u
  <2>1. /\ d \in Seq(S) /\ Len(d) = 1
        /\ \A i \in 1..1 : d[i] = <<u, x, x>>[1 + i - 1]
    BY <1>0, SubSeqProperties
  <2> HIDE DEF d
  <2>2. d[1] = <<u, x, x>>[1 + 1 - 1]
    BY <2>1
  <2> QED BY <2>1, <2>2
<1> HIDE DEF c, d
<1>3. c = <<u, x, x>>
  <2>1. \A i \in 1..3 : c[i] = <<u, x, x>>[i]
    BY <1>1
  <2> QED BY <1>0, <1>1, <2>1, SeqEqual
<1>4. d = <<u>>
  <2>1. \A i \in 1..1 : d[i] = <<u>>[i]
    BY <1>2
  <2> QED BY <1>0, <1>2, <2>1, SeqEqual
<1> QED BY <1>3, <1>4 DEF c, d

(* A body begins with an empty block in its function's scopes.             *)
LEMMA BeginFunctionKeeps ==
  ASSUME IInv, BeginFunction
  PROVE  IInv'
<1>1. /\ UNCHANGED <<program, declared, strings, outcome>> /\ program \in Programs
      /\ stack = <<>> /\ AllDeclared /\ at < Len(program.defs) /\ at' = at + 1
      /\ cur' = 1
  BY DEF BeginFunction, NextDefinition, EntryBlock, IInv, TypeOK
<1>2. Len(program.defs) \in Nat /\ DOMAIN program.defs = 1..Len(program.defs)
  BY <1>1, DefsOK
<1>3. at \in Nat /\ at' \in 1..Len(program.defs) /\ at' \notin 1..at
  BY <1>1, <1>2 DEF IInv, TypeOK
<1> DEFINE d == program.defs[at + 1]
           name == d.name
           start == <<<<>>>>
<1>4. /\ fn' = name /\ program'.defs[at'].body = d.body
      /\ d.body \in Seq(Nodes(program)) /\ name \in DOMAIN program.fns
  BY <1>1, <1>3, DefsOK DEF fn
<1>5. name \notin DOMAIN functions
  <2>1. \A k \in 1..at : program.defs[k].name # name
    BY <1>1, <1>2, <1>3, ProgramsAssumption
  <2> QED BY <2>1 DEF IInv, TypeOK
<1>6. /\ DOMAIN functions' = DOMAIN functions \cup {name}
      /\ functions'[name] = start
      /\ \A f \in DOMAIN functions : functions'[f] = functions[f]
  BY <1>1, <1>5 DEF BeginFunction
<1>7. scopes' = <<"unit", name, name>> /\ location' = name
  <2>1. scopes = <<"unit">>
    BY <1>1 DEF IInv, ScopesNest
  <2>2. scopes' = <<"unit">> \o <<name, name>>
    BY <1>1, <2>1 DEF BeginFunction, FunctionScopes
  <2>3. <<"unit">> \o <<name, name>> = <<"unit", name, name>>
    <3> HIDE DEF name
    <3> DEFINE S == {"unit", name}
    <3>1. "unit" \in S /\ name \in S
      OBVIOUS
    <3> HIDE DEF S
    <3> QED BY <3>1, ScopesOf
  <2>5. scopes' = <<"unit", name, name>>
    BY <2>2, <2>3
  <2>6. location' = name
    BY <2>5 DEF BeginFunction
  <2> QED BY <2>5, <2>6
<1>8. List(start) /\ DOMAIN start = {1} /\ start[1] = <<>> /\ List(start[1]) /\ DOMAIN start[1] = {}
  BY ListOne, ListNone
<1> HIDE DEF start
<1> DEFINE node == [kind |-> "Block", statements |-> d.body]
<1>9. stack' = <<Activation(node)>>
  BY <1>1, <1>4 DEF BeginFunction
<1>10. Children(node) = d.body /\ node.kind = "Block"
  BY DEF Children
<1> HIDE DEF node
<1>11. ASSUME NEW x, x = Activation(node)
       PROVE  StackOK' /\ stack' # <<>> /\ \A k \in DOMAIN stack' : DOMAIN stack'[k].values = {}
  <2>1. /\ Framed(x) /\ x.node = node /\ x.values = <<>> /\ x.targets = <<>>
    BY <1>11 DEF Activation, Framed
  <2>2. List(x.values) /\ Len(x.values) = 0 /\ DOMAIN x.values = {}
    BY <2>1, ListNone
  <2>3. Children(x.node) \in Seq(Nodes(program))
    BY <1>4, <1>10, <2>1
  <2>4. ActivationOK(x)'
    BY <1>1, <2>1, <2>2, <2>3 DEF ActivationOK, TargetsOK
  <2>5. List(stack') /\ Len(stack') = 1 /\ DOMAIN stack' = {1} /\ stack'[1] = x
    BY <1>9, <1>11, ListOne
  <2>6. StackOK'
    BY <1>10, <2>1, <2>4, <2>5 DEF StackOK
  <2>7. stack' # <<>>
    BY <2>5, ListElements
  <2> QED BY <2>2, <2>5, <2>6, <2>7
<1>12. StackOK' /\ stack' # <<>> /\ \A k \in DOMAIN stack' : DOMAIN stack'[k].values = {}
  BY <1>11
<1>13. PlaceOK'
  BY <1>1, <1>3, <1>4, <1>6, <1>7, <1>8 DEF PlaceOK, AllDeclared
<1>14. BlocksOK' /\ CodeOK'
  BY <1>1, <1>6, <1>8 DEF IInv, BlocksOK, CodeOK, InstructionOK
<1>15. ScopesNest'
  BY <1>4, <1>7, <1>12, <1>14 DEF ScopesNest, CodeOK, InstructionOK
<1>16. TypeOK'
  <2>1. 1..at' = (1..at) \cup {at + 1}
    BY <1>1, <1>3
  <2>2. DOMAIN functions' = {program.defs[k].name : k \in 1..at'}
    BY <1>6, <2>1 DEF IInv, TypeOK
  <2>3. cur' \in DOMAIN functions'[fn']
    BY <1>1, <1>4, <1>6, <1>8
  <2>4. at' \in 0..Len(program.defs)
    BY <1>2, <1>3
  <2> QED BY <1>1, <1>12, <2>2, <2>3, <2>4 DEF IInv, TypeOK
<1>17. List(strings)' /\ StringsShared'
  BY <1>1 DEF IInv, StringsShared
<1> QED BY <1>12, <1>13, <1>14, <1>15, <1>16, <1>17 DEF IInv

(* It ends, with a return where the source has none, outside its scopes.   *)
LEMMA EndFunctionKeeps ==
  ASSUME IInv, EndFunction
  PROVE  IInv'
<1>1. /\ stack # <<>> /\ Body /\ UNCHANGED <<cur, location, strings>> /\ stack' = <<>>
  BY DEF EndFunction, Evaluated, Body
<1> DEFINE ret == Instruction("ret", <<>>, <<>>, location)
<1>2. InstructionOK(fn, ret)
  BY <1>1, InBody DEF InstructionOK, Instruction
<1>3. Emit(<<ret>>) \/ Emit(<<>>)
  BY DEF EndFunction
<1> HIDE DEF ret
<1>4. PICK is : List(is) /\ Emit(is) /\ \A k \in DOMAIN is : InstructionOK(fn, is[k])
  <2>1. CASE Emit(<<ret>>)
    BY <1>2, <2>1, OneRight
  <2>2. CASE Emit(<<>>)
    <3>1. \A k \in DOMAIN <<>> : FALSE
      OBVIOUS
    <3> QED BY <2>2, <3>1, ListNone
  <2> QED BY <1>3, <2>1, <2>2
<1>5. Grows /\ BlocksOK' /\ CodeOK'
  BY <1>1, <1>4, Emitted
<1>6. scopes' = <<"unit">>
  <2>1. scopes = <<"unit", fn, fn>>
    BY <1>1, InBody
  <2>2. scopes' = SubSeq(<<"unit", fn, fn>>, 1, 1)
    BY <2>1 DEF EndFunction, OuterScopes
  <2>3. SubSeq(<<"unit", fn, fn>>, 1, 1) = <<"unit">>
    <3> HIDE DEF fn
    <3> DEFINE S == {"unit", fn}
    <3>1. "unit" \in S /\ fn \in S
      OBVIOUS
    <3> HIDE DEF S
    <3> QED BY <3>1, ScopesOf
  <2> QED BY <2>2, <2>3
<1>7. ScopesNest'
  BY <1>1, <1>5, <1>6 DEF ScopesNest, CodeOK, InstructionOK
<1>8. DOMAIN stack' = {}
  BY <1>1
<1>9. TypeOK'
  BY <1>1, <1>5, <1>8 DEF IInv, TypeOK, Grows, Body
<1>10. PlaceOK' /\ StackOK' /\ StringsShared' /\ List(strings)'
  BY <1>1, <1>8, ListNone DEF IInv, PlaceOK, StackOK, StringsShared
<1> QED BY <1>5, <1>7, <1>9, <1>10 DEF IInv

-----------------------------------------------------------------------------
(* Theorems.                                                               *)

(* Every step of code generation keeps the invariant.                      *)
LEMMA StepKeeps ==
  ASSUME IInv, [Next]_vars
  PROVE  IInv'
<1>1. CASE Expression
  BY <1>1, EvaluateKeeps, NumberKeeps, StringKeeps, SymbolKeeps, OperatorKeeps, BranchKeeps,
     MergeKeeps, CallKeeps DEF Expression
<1>2. ASSUME NEW f \in DOMAIN program.fns \ declared, Declare(f) PROVE IInv'
  BY <1>2, DeclareKeeps
<1>3. CASE NullImport \/ Panic \/ VerifyModule
  <2>1. /\ outcome' \in {"running", "done", "crash", "panic", "abort"}
        /\ UNCHANGED <<program, declared, at, scopes, functions, cur, location, strings, stack>>
    BY <1>3 DEF NullImport, Panic, VerifyModule
  <2> QED BY <2>1, StopKeeps
<1>4. CASE UNCHANGED vars
  <2>1. /\ outcome' \in {"running", "done", "crash", "panic", "abort"}
        /\ UNCHANGED <<program, declared, at, scopes, functions, cur, location, strings, stack>>
    BY <1>4 DEF vars, IInv, TypeOK
  <2> QED BY <2>1, StopKeeps
<1> QED BY <1>1, <1>2, <1>3, <1>4, BeginFunctionKeeps, EndFunctionKeeps DEF Next

(* The invariant of code generation.                                       *)
THEOREM InvariantHolds == Spec => []IInv
<1>1. Init => IInv
  BY Start
<1>2. IInv /\ [Next]_vars => IInv'
  BY StepKeeps
<1> QED BY <1>1, <1>2, PTL DEF Spec

(* At every moment instructions, values and blocks are where they are      *)
(* said to be, every instruction is in a scope of its function, every call *)
(* is of a declared function and equal literals share a global             *)
(* (codegen.cpp:76-94, 444-503).                                           *)
THEOREM CodeHolds == Spec => []CodeConsistent
<1>1. IInv => CodeConsistent
  BY DEF IInv, CodeConsistent, CodeOK, InstructionOK, CalleesDeclared
<1> QED BY <1>1, InvariantHolds, PTL
=============================================================================
