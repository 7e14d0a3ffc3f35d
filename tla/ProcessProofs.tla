---------------------------- MODULE ProcessProofs ----------------------------
(***************************************************************************)
(* Proofs about the process of the compiler and those that it starts.      *)
(*                                                                         *)
(* Of Build: the compiler does what the arguments say; ld, which it does   *)
(* not wait for, works on a complete object file and writes where nobody   *)
(* else does; and the exit status is honest about the files, for every     *)
(* command line and every source.                                          *)
(*                                                                         *)
(* Of Exec: os_exec_process returns only by chance and with nothing, and   *)
(* waits for ever for a child that cannot end by itself, for every size of *)
(* pipes and buffers, every child and every two numbers in the stderr_pipe *)
(* that is never made.                                                     *)
(***************************************************************************)
EXTENDS Build, Exec, WellFoundedInduction, FiniteSetTheorems, SequenceTheorems, TLAPS

-----------------------------------------------------------------------------
(* Induction and recursion.                                                *)

(* Numbers have a least one.                                               *)
LEMMA Least ==
  ASSUME NEW T, T \subseteq Nat, T # {}
  PROVE  \E x \in T : \A y \in T : x <= y
<1> DEFINE R == OpToRel(<, Nat)
<1>1. IsWellFoundedOn(R, Nat)
  BY NatLessThanWellFounded
<1>2. \A x, y \in Nat : y < x => <<y, x>> \in R
  BY DEF OpToRel
<1> HIDE DEF R
<1>3. PICK x \in T : \A y \in T : <<y, x>> \notin R
  BY <1>1, WFMin
<1>4. ASSUME NEW y \in T
      PROVE  x <= y
  <2>1. x \in Nat /\ y \in Nat /\ ~(y < x)
    BY <1>2, <1>3
  <2> QED BY <2>1
<1> QED BY <1>4

(* A set that has 0 and the successor of each of its numbers has them all. *)
LEMMA Induction ==
  ASSUME NEW S, 0 \in S, \A n \in Nat : n \in S => n + 1 \in S
  PROVE  Nat \subseteq S
<1> DEFINE T == Nat \ S
<1> SUFFICES ASSUME T # {} PROVE FALSE
  OBVIOUS
<1>1. T \subseteq Nat
  OBVIOUS
<1>2. PICK x \in T : \A y \in T : x <= y
  <2> HIDE DEF T
  <2> QED BY <1>1, Least
<1>3. x \in Nat /\ x # 0 /\ x - 1 \in Nat /\ x - 1 < x /\ x = (x - 1) + 1
  OBVIOUS
<1>4. x - 1 \notin T
  BY <1>2, <1>3
<1> QED BY <1>3, <1>4

Recursive(f, V, start, step, m) ==
  /\ f \in [0..m -> V]
  /\ f[0] = start
  /\ \A k \in 1..m : f[k] = step[k][f[k - 1]]

(* Recursion over a bounded range defines a function.                      *)
LEMMA Recursion ==
  ASSUME NEW V, NEW start \in V, NEW step \in [Nat -> [V -> V]], NEW m \in Nat
  PROVE  \E f : Recursive(f, V, start, step, m)
<1> DEFINE Good(n, f) == f[0] = start /\ \A k \in 1..n : f[k] = step[k][f[k - 1]]
           S == {n \in Nat : \E f \in [0..n -> V] : Good(n, f)}
<1>1. 0 \in S
  <2> DEFINE f == [k \in 0..0 |-> start]
  <2>1. f \in [0..0 -> V] /\ f[0] = start /\ 1..0 = {}
    OBVIOUS
  <2> HIDE DEF f
  <2> QED BY <2>1
<1>2. ASSUME NEW n \in Nat, n \in S
      PROVE  n + 1 \in S
  <2>1. PICK f \in [0..n -> V] : Good(n, f)
    BY <1>2
  <2> DEFINE e == [k \in 0..n + 1 |-> IF k = n + 1 THEN step[n + 1][f[n]] ELSE f[k]]
  <2>2. e \in [0..n + 1 -> V]
    <3>1. step[n + 1][f[n]] \in V
      OBVIOUS
    <3>2. \A k \in 0..n + 1 : k # n + 1 => k \in 0..n
      OBVIOUS
    <3> QED BY <3>1, <3>2
  <2>3. e[0] = start
    BY <2>1
  <2>4. ASSUME NEW k \in 1..n + 1
        PROVE  e[k] = step[k][e[k - 1]]
    <3>1. CASE k = n + 1
      <4>1. k - 1 = n /\ n \in 0..n + 1 /\ n # n + 1
        BY <3>1
      <4>2. e[k] = step[n + 1][f[n]] /\ e[n] = f[n]
        BY <3>1, <4>1
      <4> QED BY <3>1, <4>1, <4>2
    <3>2. CASE k # n + 1
      <4>1. k \in 1..n /\ k \in 0..n + 1 /\ k - 1 \in 0..n + 1 /\ k - 1 # n + 1
        BY <3>2
      <4>2. e[k] = f[k] /\ e[k - 1] = f[k - 1]
        BY <3>2, <4>1
      <4> QED BY <2>1, <4>1, <4>2
    <3> QED BY <3>1, <3>2
  <2> HIDE DEF e
  <2>5. Good(n + 1, e)
    BY <2>3, <2>4
  <2> HIDE DEF Good
  <2> QED BY <2>2, <2>5
<1>3. Nat \subseteq S
  <2> HIDE DEF S
  <2> QED BY <1>1, <1>2, Induction
<1> QED BY <1>3 DEF Recursive

(* Where arguments start.                                                  *)
LEMMA StartsStep ==
  ASSUME NEW line \in Seq(Word)
  PROVE  /\ Starts(line)[0] = {}
         /\ \A n \in 1..Len(line) : Starts(line)[n] =
              IF n - 1 \in Starts(line)[n - 1] /\ line[n - 1] \in Valued
                THEN Starts(line)[n - 1] ELSE Starts(line)[n - 1] \cup {n}
<1> DEFINE V == SUBSET Nat
           step == [n \in Nat |-> [v \in V |->
             IF n - 1 \in v /\ line[n - 1] \in Valued THEN v ELSE v \cup {n}]]
           Value2(u, n) == IF n = 0 THEN {}
             ELSE IF n - 1 \in u[n - 1] /\ line[n - 1] \in Valued THEN u[n - 1]
             ELSE u[n - 1] \cup {n}
           Is(u) == u = [n \in 0..Len(line) |-> Value2(u, n)]
<1>1. step \in [Nat -> [V -> V]] /\ {} \in V /\ Len(line) \in Nat
  OBVIOUS
<1>2. PICK u \in [0..Len(line) -> V] :
        u[0] = {} /\ \A k \in 1..Len(line) : u[k] = step[k][u[k - 1]]
  <2> DEFINE m == Len(line)
             none == {}
  <2>1. m \in Nat /\ none \in V /\ step \in [Nat -> [V -> V]]
    BY <1>1
  <2> HIDE DEF step, V, m, Value2, none, Is
  <2>2. \E u : Recursive(u, V, none, step, m)
    BY <2>1, Recursion
  <2> QED BY <2>2 DEF m, none, Recursive
<1>3. Is(u)
  <2>1. ASSUME NEW n \in 0..Len(line) PROVE u[n] = Value2(u, n)
    <3>1. CASE n = 0
      BY <3>1, <1>2
    <3>2. CASE n # 0
      <4>1. n \in 1..Len(line) /\ n - 1 \in 0..Len(line) /\ n \in Nat
        BY <1>1, <3>2
      <4>2. u[n] = step[n][u[n - 1]] /\ u[n - 1] \in V
        BY <1>2, <4>1
      <4> QED BY <3>2, <4>1, <4>2
    <3> QED BY <3>1, <3>2
  <2> QED BY <2>1
<1>4. Starts(line) = CHOOSE v : Is(v)
  BY DEF Starts
<1>5. Is(Starts(line))
  <2> HIDE DEF Is
  <2> QED BY <1>3, <1>4
<1> DEFINE s == Starts(line)
<1>6. s = [n \in 0..Len(line) |-> Value2(s, n)]
  BY <1>5
<1> HIDE DEF s
<1>7. ASSUME NEW n \in 0..Len(line) PROVE s[n] = Value2(s, n)
  <2> HIDE DEF Value2
  <2> QED BY <1>6
<1>8. s[0] = {}
  <2>1. 0 \in 0..Len(line)
    BY <1>1
  <2>2. s[0] = Value2(s, 0)
    <3> HIDE DEF Value2
    <3> QED BY <1>7, <2>1
  <2> QED BY <2>2
<1>9. ASSUME NEW n \in 1..Len(line)
      PROVE  s[n] = IF n - 1 \in s[n - 1] /\ line[n - 1] \in Valued
                      THEN s[n - 1] ELSE s[n - 1] \cup {n}
  <2>1. n \in 0..Len(line) /\ n # 0
    BY <1>1
  <2> QED BY <1>7, <2>1
<1> QED BY <1>8, <1>9 DEF s
-----------------------------------------------------------------------------
(* What is printed of the header.                                          *)

(* Bytes of declarations, and the NUL.                                     *)
HNul == <<0, "end">>
HByte == {<<n, part>> : n \in Nat, part \in {"head", "parameters", "end"}}
HDeclared(v, n) == HText!Formatted(HText!Formatted(v, Piece(n, "head")), Piece(n, "parameters"))

(* The pieces of a header are bytes, and only its NUL ends a C string.     *)
LEMMA HBytes ==
  /\ HNul \in HByte
  /\ \A n \in Nat : <<n, "head">> \in HByte /\ <<n, "parameters">> \in HByte
  /\ \A n \in Nat \ {0} : <<n, "head">> # HNul
<1>1. \A n \in Nat, part \in {"head", "parameters", "end"} : <<n, part>> \in HByte
  BY DEF HByte
<1>2. HNul \in HByte
  BY <1>1 DEF HNul
<1> QED BY <1>1, <1>2 DEF HNul

(* What buf_appendf does: the NUL stands behind the text.                  *)
LEMMA FormattedPiece ==
  ASSUME NEW S, NEW s \in Seq(S), NEW x \in S, HNul \in S
  PROVE  /\ HText!Formatted(s, <<x>>) \in Seq(S)
         /\ Len(HText!Formatted(s, <<x>>)) = Len(s) + 2
         /\ \A i1 \in 1..Len(s) : HText!Formatted(s, <<x>>)[i1] = s[i1]
         /\ HText!Formatted(s, <<x>>)[Len(s) + 1] = x
         /\ HText!Formatted(s, <<x>>)[Len(s) + 2] = HNul
<1> DEFINE t == <<x>>
           u == <<HNul>>
           st == s \o t
<1>1. /\ t \in Seq(S) /\ Len(t) = 1 /\ t[1] = x
      /\ u \in Seq(S) /\ Len(u) = 1 /\ u[1] = HNul /\ Len(s) \in Nat
  OBVIOUS
<1>2. HText!Formatted(s, t) = st \o u
  BY DEF HText!Formatted, HNul
<1> HIDE DEF t, u
<1>3. /\ st \in Seq(S) /\ Len(st) = Len(s) + 1
      /\ \A k \in 1..Len(s) + 1 : st[k] = IF k <= Len(s) THEN s[k] ELSE t[k - Len(s)]
  <2>1. /\ st \in Seq(S) /\ Len(st) = Len(s) + Len(t)
        /\ \A k \in 1..Len(s) + Len(t) : st[k] = IF k <= Len(s) THEN s[k] ELSE t[k - Len(s)]
    BY <1>1, ConcatProperties
  <2> HIDE DEF st
  <2> QED BY <1>1, <2>1
<1> HIDE DEF st
<1> DEFINE w == st \o u
<1>4. /\ w \in Seq(S) /\ Len(w) = Len(st) + Len(u)
      /\ \A k \in 1..Len(st) + Len(u) : w[k] = IF k <= Len(st) THEN st[k] ELSE u[k - Len(st)]
  <2>1. st \in Seq(S) /\ u \in Seq(S)
    BY <1>1, <1>3
  <2> QED BY <2>1, ConcatProperties
<1> HIDE DEF w
<1>5. /\ w \in Seq(S) /\ Len(w) = Len(s) + 2
      /\ \A k \in 1..Len(s) + 2 :
           w[k] = IF k <= Len(s) + 1 THEN st[k] ELSE u[k - (Len(s) + 1)]
  <2>1. Len(st) = Len(s) + 1 /\ Len(u) = 1 /\ Len(st) + Len(u) = Len(s) + 2
    BY <1>1, <1>3
  <2> QED BY <2>1, <1>4
<1>6. /\ \A k \in 1..Len(s) : w[k] = s[k]
      /\ w[Len(s) + 1] = t[(Len(s) + 1) - Len(s)]
      /\ w[Len(s) + 2] = u[(Len(s) + 2) - (Len(s) + 1)]
  <2>1. \A k \in 1..Len(s) : w[k] = s[k]
    BY <1>1, <1>3, <1>5
  <2>2. Len(s) + 1 \in 1..Len(s) + 2 /\ Len(s) + 1 \in 1..Len(s) + 1
        /\ ~(Len(s) + 1 <= Len(s)) /\ Len(s) + 1 <= Len(s) + 1
    BY <1>1
  <2>3. w[Len(s) + 1] = st[Len(s) + 1] /\ st[Len(s) + 1] = t[(Len(s) + 1) - Len(s)]
    BY <1>3, <1>5, <2>2
  <2>4. Len(s) + 2 \in 1..Len(s) + 2 /\ ~(Len(s) + 2 <= Len(s) + 1)
    BY <1>1
  <2> QED BY <1>5, <2>1, <2>3, <2>4
<1>7. (Len(s) + 1) - Len(s) = 1 /\ (Len(s) + 2) - (Len(s) + 1) = 1
  BY <1>1
<1> QED BY <1>1, <1>2, <1>5, <1>6, <1>7 DEF w, t

(* Two pieces behind one another: the first stays the first.               *)
LEMMA DeclaredPieces ==
  ASSUME NEW v \in Seq(HByte), NEW n \in Nat
  PROVE  /\ HDeclared(v, n) \in Seq(HByte)
         /\ Len(HDeclared(v, n)) >= 2
         /\ v = <<>> => HDeclared(v, n)[1] = <<n, "head">> /\ HDeclared(v, n)[2] = HNul
         /\ Len(v) >= 2 => HDeclared(v, n)[1] = v[1] /\ HDeclared(v, n)[2] = v[2]
<1> DEFINE head == <<n, "head">>
           rest == <<n, "parameters">>
           once == HText!Formatted(v, <<head>>)
           twice == HText!Formatted(once, <<rest>>)
           S == HByte
<1>1. head \in S /\ rest \in S /\ HNul \in S /\ v \in Seq(S) /\ Len(v) \in Nat
  BY HBytes
<1>2. HDeclared(v, n) = twice
  BY DEF HDeclared, Piece
<1> HIDE DEF head, rest, S
<1>3. /\ once \in Seq(S) /\ Len(once) = Len(v) + 2
      /\ \A k \in 1..Len(v) : once[k] = v[k]
      /\ once[Len(v) + 1] = head /\ once[Len(v) + 2] = HNul
  BY <1>1, FormattedPiece
<1> HIDE DEF once
<1>4. /\ twice \in Seq(S) /\ Len(twice) = Len(once) + 2
      /\ \A k \in 1..Len(once) : twice[k] = once[k]
  <2>1. once \in Seq(S) /\ rest \in S /\ HNul \in S
    BY <1>1, <1>3
  <2> QED BY <2>1, FormattedPiece
<1> HIDE DEF twice
<1>5. twice[1] = once[1] /\ twice[2] = once[2] /\ Len(twice) >= 2
  BY <1>1, <1>3, <1>4
<1>6. v = <<>> => once[1] = head /\ once[2] = HNul
  <2>1. v = <<>> => Len(v) = 0
    OBVIOUS
  <2>2. Len(v) = 0 => Len(v) + 1 = 1 /\ Len(v) + 2 = 2
    OBVIOUS
  <2> QED BY <1>3, <2>1, <2>2
<1>7. Len(v) >= 2 => once[1] = v[1] /\ once[2] = v[2]
  BY <1>1, <1>3
<1> QED BY <1>2, <1>4, <1>5, <1>6, <1>7 DEF head, S

(* A C string ends in front of the first NUL.                              *)
LEMMA CStringOfTwo ==
  ASSUME NEW S, NEW s \in Seq(S), Len(s) >= 2, s[1] # HNul, s[2] = HNul
  PROVE  HText!CString(s) = <<s[1]>>
<1>1. Len(s) \in Nat /\ DOMAIN s = 1..Len(s)
  OBVIOUS
<1> DEFINE Z == HText!Ends(s)
           first == CHOOSE n \in Z : \A m \in Z : n <= m
<1>2. 2 \in Z /\ \A m \in Z : m \in Nat /\ 2 <= m
  BY <1>1 DEF HText!Ends, HNul
<1>3. HText!CString(s) = SubSeq(s, 1, first - 1)
  BY <1>2 DEF HText!CString
<1>4. first = 2
  <2> HIDE DEF Z
  <2> QED BY <1>2
<1> HIDE DEF first
<1>5. HText!CString(s) = SubSeq(s, 1, 1)
  <2>1. first - 1 = 1
    BY <1>4
  <2> QED BY <1>3, <2>1
<1>6. s[1] \in S
  BY <1>1
<1>7. \A k \in 1..1 : s[k] \in S
  BY <1>6
<1> DEFINE d == SubSeq(s, 1, 1)
<1>8. d \in Seq(S) /\ Len(d) = 1 /\ \A k \in 1..1 : d[k] = s[1 + k - 1]
  BY <1>7, SubSeqProperties
<1> HIDE DEF d
<1>9. d[1] = s[1]
  <2>1. d[1] = s[1 + 1 - 1]
    BY <1>8
  <2> QED BY <2>1
<1>10. <<s[1]>> \in Seq(S) /\ Len(<<s[1]>>) = 1 /\ <<s[1]>>[1] = s[1]
  BY <1>6
<1>11. \A k \in 1..1 : d[k] = <<s[1]>>[k]
  BY <1>9, <1>10
<1>12. d = <<s[1]>>
  BY <1>8, <1>10, <1>11, SeqEqual
<1> QED BY <1>5, <1>12 DEF d

(* The buffer, function by function.                                       *)
LEMMA HBufStep ==
  ASSUME source \in Source
  PROVE  /\ Len(source.fns) \in Nat
         /\ HBuf[0] = <<>>
         /\ \A n \in 1..Len(source.fns) :
              HBuf[n] = IF n \notin Declares THEN HBuf[n - 1] ELSE HDeclared(HBuf[n - 1], n)
<1> DEFINE m == Len(source.fns)
           none == <<>>
           V == Seq(HByte)
           step == [n \in Nat |-> [v \in V |->
                      IF n \notin Declares THEN v ELSE HDeclared(v, n)]]
           At2(u, n) == IF n = 0 THEN <<>>
             ELSE IF n \notin Declares THEN u[n - 1] ELSE HDeclared(u[n - 1], n)
           Is(u) == u = [n \in 0..m |-> At2(u, n)]
<1>1. m \in Nat
  BY DEF Source
<1>2. none \in V
  OBVIOUS
<1>3. \A n \in Nat, v \in V : HDeclared(v, n) \in V
  BY DeclaredPieces
<1> HIDE DEF m, V
<1>4. step \in [Nat -> [V -> V]]
  BY <1>3
<1>5. PICK u : Recursive(u, V, none, step, m)
  <2> HIDE DEF step, none
  <2> QED BY <1>1, <1>2, <1>4, Recursion
<1>6. Is(u)
  <2>1. ASSUME NEW n \in 0..m PROVE u[n] = At2(u, n)
    <3>1. CASE n = 0
      BY <3>1, <1>5 DEF Recursive
    <3>2. CASE n # 0
      <4>1. n \in 1..m /\ n - 1 \in 0..m /\ n \in Nat
        BY <1>1, <3>2
      <4>2. u[n] = step[n][u[n - 1]] /\ u[n - 1] \in V
        BY <1>5, <4>1 DEF Recursive
      <4> QED BY <3>2, <4>1, <4>2
    <3> QED BY <3>1, <3>2
  <2>2. u = [n \in 0..m |-> u[n]]
    BY <1>5 DEF Recursive
  <2> HIDE DEF At2
  <2> QED BY <2>1, <2>2
<1>7. HBuf = CHOOSE v : Is(v)
  BY DEF HBuf, HDeclared, m
<1>8. Is(HBuf)
  <2> HIDE DEF Is
  <2> QED BY <1>6, <1>7
<1> DEFINE s == HBuf
<1>9. s = [n \in 0..m |-> At2(s, n)]
  BY <1>8
<1> HIDE DEF s
<1>10. ASSUME NEW n \in 0..m PROVE s[n] = At2(s, n)
  <2> HIDE DEF At2
  <2> QED BY <1>9
<1>11. s[0] = <<>>
  <2>1. 0 \in 0..m
    BY <1>1
  <2>2. s[0] = At2(s, 0)
    <3> HIDE DEF At2
    <3> QED BY <1>10, <2>1
  <2> QED BY <2>2
<1>12. ASSUME NEW n \in 1..m
       PROVE  s[n] = IF n \notin Declares THEN s[n - 1] ELSE HDeclared(s[n - 1], n)
  <2>1. n \in 0..m /\ n # 0
    BY <1>1
  <2> QED BY <1>10, <2>1
<1> QED BY <1>1, <1>11, <1>12 DEF s, m

(* The text of the header, as fprintf sees it.                             *)
LEMMA HeaderText ==
  ASSUME source \in Source
  PROVE  HText!CString(HBuf[Len(source.fns)]) = FirstDeclared
<1> DEFINE m == Len(source.fns)
           h == HBuf
           First(k) == k \in Exports /\ \A j \in Exports : k <= j
           Claim(n) == /\ h[n] \in Seq(HByte)
                       /\ (\A k \in Exports : ~(k <= n)) => h[n] = <<>>
                       /\ \A k \in Nat : First(k) /\ k <= n =>
                            Len(h[n]) >= 2 /\ h[n][1] = <<k, "head">> /\ h[n][2] = HNul
           S == {n \in Nat : n <= m => Claim(n)}
<1>1. /\ m \in Nat /\ h[0] = <<>>
      /\ \A n \in 1..m : h[n] = IF n \notin Declares THEN h[n - 1] ELSE HDeclared(h[n - 1], n)
  BY HBufStep
<1>2. Declares = Exports /\ \A k \in Exports : k \in 1..m /\ k \in Nat \ {0}
  BY <1>1 DEF Declares, Exports, Source
<1> HIDE DEF h, m
<1>3. 0 \in S
  <2>1. h[0] \in Seq(HByte) /\ h[0] = <<>>
    BY <1>1
  <2>2. \A k \in Exports : ~(k <= 0)
    BY <1>2
  <2>3. Claim(0)
    BY <2>1, <2>2
  <2> QED BY <2>3
<1>4. ASSUME NEW n \in Nat, n \in S
      PROVE  n + 1 \in S
  <2> SUFFICES ASSUME n + 1 <= m PROVE Claim(n + 1)
    OBVIOUS
  <2>1. n <= m /\ n + 1 \in 1..m /\ (n + 1) - 1 = n /\ Claim(n)
    BY <1>1, <1>4
  <2>2. h[n + 1] = IF n + 1 \notin Exports THEN h[n] ELSE HDeclared(h[n], n + 1)
    BY <1>1, <1>2, <2>1
  <2>3. CASE n + 1 \notin Exports
    <3>1. \A k \in Exports : k <= n + 1 <=> k <= n
      BY <1>2, <2>3
    <3> QED BY <2>1, <2>2, <2>3, <3>1
  <2>4. CASE n + 1 \in Exports
    <3> DEFINE v == h[n]
               w == HDeclared(v, n + 1)
    <3>1. v \in Seq(HByte) /\ n + 1 \in Nat
      BY <2>1
    <3>2. /\ w \in Seq(HByte) /\ Len(w) >= 2
          /\ v = <<>> => w[1] = <<n + 1, "head">> /\ w[2] = HNul
          /\ Len(v) >= 2 => w[1] = v[1] /\ w[2] = v[2]
      BY <3>1, DeclaredPieces
    <3>3. h[n + 1] = w
      BY <2>2, <2>4
    <3> HIDE DEF w
    <3>4. ~(\A k \in Exports : ~(k <= n + 1))
      BY <2>4
    <3>5. ASSUME NEW k \in Nat, First(k), k <= n + 1
          PROVE  w[1] = <<k, "head">> /\ w[2] = HNul
      <4>1. CASE k = n + 1
        <5>1. \A j \in Exports : ~(j <= n)
          BY <1>2, <3>5, <4>1
        <5> QED BY <2>1, <3>2, <4>1, <5>1
      <4>2. CASE k <= n
        BY <2>1, <3>2, <3>5, <4>2
      <4> QED BY <3>5, <4>1, <4>2
    <3> QED BY <3>2, <3>3, <3>4, <3>5
  <2> QED BY <2>3, <2>4
<1>5. Claim(m)
  <2>1. Nat \subseteq S
    <3> HIDE DEF S
    <3> QED BY <1>3, <1>4, Induction
  <2> QED BY <1>1, <2>1
<1>6. CASE Exports = {}
  <2>1. h[m] = <<>>
    BY <1>5, <1>6
  <2>2. HText!Ends(<<>>) = {}
    BY DEF HText!Ends
  <2>3. HText!CString(<<>>) = <<>>
    BY <2>2 DEF HText!CString
  <2> QED BY <1>6, <2>1, <2>3 DEF FirstDeclared, h, m
<1>7. CASE Exports # {}
  <2> DEFINE first == CHOOSE n \in Exports : \A k \in Exports : n <= k
  <2>1. \E n \in Exports : \A k \in Exports : n <= k
    BY <1>2, <1>7, Least
  <2>2. First(first)
    BY <2>1
  <2>3. FirstDeclared = <<<<first, "head">>>>
    BY <1>7 DEF FirstDeclared, Piece
  <2> HIDE DEF first
  <2>4. first \in Nat \ {0} /\ first <= m
    BY <1>1, <1>2, <2>2
  <2>5. /\ h[m] \in Seq(HByte) /\ Len(h[m]) >= 2
        /\ h[m][1] = <<first, "head">> /\ h[m][2] = HNul
    BY <1>5, <2>2, <2>4
  <2>6. <<first, "head">> # HNul
    BY <2>4, HBytes
  <2>7. HText!CString(h[m]) = <<h[m][1]>>
    BY <2>5, <2>6, CStringOfTwo
  <2> QED BY <2>3, <2>5, <2>7 DEF h, m
<1> QED BY <1>6, <1>7

-----------------------------------------------------------------------------
(* What the arguments read so far say.                                     *)

PlacesIn(S, line, option) == {n \in S : line[n] = option}
ValueBehind(P, line) == IF P = {} THEN Null ELSE line[1 + Last(P)]
Latest(S, line, option) == ValueBehind(PlacesIn(S, line, option), line)
FlagsIn(S, line) == {f \in Flag : PlacesIn(S, line, f) # {}}
WordsIn(S, line) == {n \in S : line[n] \notin Option}

Below(S, n) == n \in Nat /\ S \subseteq 1..n - 1

(* One more argument: it counts for its option and for no other.           *)
LEMMA LatestAdded ==
  ASSUME NEW n, NEW S, Below(S, n), NEW T, T = S \cup {n}, NEW line, NEW option
  PROVE  /\ line[n] = option => Latest(T, line, option) = line[n + 1]
         /\ line[n] # option => Latest(T, line, option) = Latest(S, line, option)
<1>1. CASE line[n] = option
  <2> DEFINE P == PlacesIn(T, line, option)
             last == Last(P)
  <2>1. n \in P /\ n \in Nat /\ \A k \in P : k \in Nat /\ k <= n
    BY <1>1 DEF PlacesIn, Below
  <2>2. Latest(T, line, option) = line[1 + last]
    BY <2>1 DEF Latest, ValueBehind
  <2>3. last = n
    <3> HIDE DEF P
    <3>1. \A m \in P : m <= n
      BY <2>1
    <3>2. \A m \in P : m <= last
      BY <2>1, <3>1 DEF Last
    <3>3. last \in P
      BY <2>1, <3>1 DEF Last
    <3>4. n \in Nat /\ last \in Nat /\ n <= last /\ last <= n
      BY <2>1, <3>2, <3>3
    <3> HIDE DEF last
    <3> QED BY <3>4
  <2> HIDE DEF last
  <2>4. 1 + n = n + 1
    BY <2>1
  <2> QED BY <1>1, <2>2, <2>3, <2>4
<1>2. CASE line[n] # option
  <2>1. PlacesIn(T, line, option) = PlacesIn(S, line, option)
    BY <1>2 DEF PlacesIn
  <2> QED BY <1>2, <2>1 DEF Latest
<1> QED BY <1>1, <1>2

(* One more argument looked at is one more word, unless it is an option.   *)
LEMMA WordsAdded ==
  ASSUME NEW n, NEW S, NEW T, T = S \cup {n}, NEW line
  PROVE  /\ line[n] \in Option => WordsIn(T, line) = WordsIn(S, line)
         /\ line[n] \notin Option => WordsIn(T, line) = WordsIn(S, line) \cup {n}
BY DEF WordsIn

(* The command and the input are the words so far.                         *)
WordsOK(words, line, c, given) ==
  /\ c = "none" => words = {} /\ given = Null
  /\ c # "none" /\ given = Null => \E m \in Nat : words = {m} /\ line[m] = c
  /\ given # Null => /\ c = "build"
                     /\ \E m, n \in Nat : /\ m < n /\ words = {m, n}
                                          /\ line[m] = "build" /\ line[n] = given
Read == Starts(argv)[i - 1]
Records ==
  /\ b \in [flags : SUBSET Flag, input : Word \cup {Null}, output : Word \cup {Null},
            name : Word \cup {Null}, type : OutType \cup {Null}]
  /\ g \in [name : Word \cup {Null}, type : OutType \cup {Null}]
ArgsOK ==
  /\ argv \in Seq(Word)
  /\ i \in 1..Len(argv) + 1
  /\ cmd \in {"none"} \cup Command
  /\ Read \subseteq 1..i - 1
  /\ i - 1 \in Read => argv[i - 1] \notin Valued
  /\ b.output = Latest(Read, argv, "--output")
  /\ b.name = Latest(Read, argv, "--name")
  /\ b.type = Latest(Read, argv, "--export")
  /\ b.flags = FlagsIn(Read, argv)
  /\ WordsOK(WordsIn(Read, argv), argv, cmd, b.input)
  /\ pc # "arguments" => i = Len(argv) + 1 /\ cmd = "build" /\ b.input # Null

(* An argument that main has read is one that starts.                      *)
LEMMA ReadNext ==
  ASSUME ArgsOK, ReadingArgument
  PROVE  /\ i \in 1..Len(argv) /\ i \in Nat /\ Arg \in Word
         /\ Read \subseteq 1..i - 1
         /\ Starts(argv)[i] = Read \cup {i}
         /\ HasValue /\ Arg \in Valued => /\ Starts(argv)[i + 1] = Read \cup {i}
                                          /\ i + 2 \in 1..Len(argv) + 1 /\ Value \in Word
<1>1. /\ argv \in Seq(Word) /\ Len(argv) \in Nat /\ i \in 1..Len(argv) /\ i \in Nat
      /\ Read \subseteq 1..i - 1
  BY DEF ArgsOK, ReadingArgument
<1>2. Arg \in Word
  BY <1>1 DEF Arg
<1>3. Starts(argv)[i] = Read \cup {i}
  <2>1. Starts(argv)[i] = IF i - 1 \in Starts(argv)[i - 1] /\ argv[i - 1] \in Valued
                            THEN Starts(argv)[i - 1] ELSE Starts(argv)[i - 1] \cup {i}
    BY <1>1, StartsStep
  <2> QED BY <2>1 DEF ArgsOK, Read
<1>4. ASSUME HasValue, Arg \in Valued
      PROVE  /\ Starts(argv)[i + 1] = Read \cup {i}
             /\ i + 2 \in 1..Len(argv) + 1 /\ Value \in Word
  <2>1. i + 1 \in 1..Len(argv) /\ (i + 1) - 1 = i /\ i + 2 \in 1..Len(argv) + 1
    BY <1>1, <1>4 DEF HasValue
  <2> DEFINE s == Starts(argv)
  <2>2. s[i + 1] = IF (i + 1) - 1 \in s[(i + 1) - 1] /\ argv[(i + 1) - 1] \in Valued
                     THEN s[(i + 1) - 1] ELSE s[(i + 1) - 1] \cup {i + 1}
    BY <1>1, <2>1, StartsStep
  <2> HIDE DEF s
  <2>3. i \in s[i] /\ argv[i] \in Valued
    BY <1>3, <1>4 DEF s, Arg
  <2>4. s[i + 1] = s[i]
    BY <2>1, <2>2, <2>3
  <2> QED BY <1>1, <1>3, <1>4, <2>1, <2>4 DEF s, Value
<1> QED BY <1>1, <1>2, <1>3, <1>4

(* One more argument read is one more flag, if it is one.                  *)
LEMMA FlagsRead ==
  ASSUME Read' = Read \cup {i}
  PROVE  /\ Arg \in Flag => FlagsIn(Read', argv) = FlagsIn(Read, argv) \cup {Arg}
         /\ Arg \notin Flag => FlagsIn(Read', argv) = FlagsIn(Read, argv)
<1>1. \A f : PlacesIn(Read', argv, f) # {} <=> PlacesIn(Read, argv, f) # {} \/ f = Arg
  BY DEF PlacesIn, Arg
<1> QED BY <1>1 DEF FlagsIn

(* Options with and without a value, words: what they change.              *)
LEMMA ArgumentKeeps ==
  ASSUME ArgsOK, Records, FlagArgument \/ ValueArgument \/ CommandArgument \/ InputArgument
  PROVE  ArgsOK' /\ Records'
<1>1. /\ ReadingArgument /\ UNCHANGED <<argv, pc, g>> /\ pc = "arguments"
  BY DEF FlagArgument, ValueArgument, CommandArgument, InputArgument, ReadingArgument, Reading,
         At, inputs
<1>2. /\ i \in 1..Len(argv) /\ i \in Nat /\ Arg \in Word
      /\ Read \subseteq 1..i - 1
      /\ Starts(argv)[i] = Read \cup {i}
      /\ HasValue /\ Arg \in Valued => /\ Starts(argv)[i + 1] = Read \cup {i}
                                       /\ i + 2 \in 1..Len(argv) + 1 /\ Value \in Word
  BY <1>1, ReadNext
<1>3. /\ i' \in 1..Len(argv) + 1
      /\ Read' = Read \cup {i}
      /\ Read' \subseteq 1..i' - 1
      /\ i' - 1 \in Read' => argv[i' - 1] \notin Valued
  <2>1. CASE i' = i + 1 /\ Arg \notin Valued
    <3>1. i' - 1 = i /\ i + 1 \in 1..Len(argv) + 1
      BY <1>2, <2>1
    <3>2. Read' = Read \cup {i}
      BY <1>1, <1>2, <3>1 DEF Read
    <3> QED BY <1>2, <2>1, <3>1, <3>2 DEF Arg
  <2>2. CASE i' = i + 2 /\ HasValue /\ Arg \in Valued
    <3>1. i' - 1 = i + 1
      BY <1>2, <2>2
    <3>2. Read' = Read \cup {i}
      BY <1>1, <1>2, <2>2, <3>1 DEF Read
    <3>3. i + 1 \notin Read \cup {i} /\ Read \cup {i} \subseteq 1..i + 1
      BY <1>2
    <3> QED BY <1>2, <2>2, <3>1, <3>2, <3>3
  <2>3. FlagArgument \/ CommandArgument \/ InputArgument => i' = i + 1 /\ Arg \notin Valued
    BY WordsAssumption DEF FlagArgument, CommandArgument, InputArgument, Reading, Flag, Valued,
       Command
  <2>4. ValueArgument => i' = i + 2 /\ HasValue /\ Arg \in Valued
    BY DEF ValueArgument, Reading, Valued
  <2> QED BY <2>1, <2>2, <2>3, <2>4
<1>4. \A option : /\ Arg = option => Latest(Read', argv, option) = argv[i + 1]
                  /\ Arg # option => Latest(Read', argv, option) = Latest(Read, argv, option)
  <2>1. Read' = Read \cup {i} /\ Below(Read, i)
    BY <1>2, <1>3 DEF Below
  <2> QED BY <2>1, LatestAdded DEF Arg
<1>5. /\ Arg \in Flag => FlagsIn(Read', argv) = FlagsIn(Read, argv) \cup {Arg}
      /\ Arg \notin Flag => FlagsIn(Read', argv) = FlagsIn(Read, argv)
      /\ Arg \in Option => WordsIn(Read', argv) = WordsIn(Read, argv)
      /\ Arg \notin Option => WordsIn(Read', argv) = WordsIn(Read, argv) \cup {i}
  <2>1. Read' = Read \cup {i}
    BY <1>3
  <2>2. /\ Arg \in Flag => FlagsIn(Read', argv) = FlagsIn(Read, argv) \cup {Arg}
        /\ Arg \notin Flag => FlagsIn(Read', argv) = FlagsIn(Read, argv)
    BY <2>1, FlagsRead
  <2>3. /\ Arg \in Option => WordsIn(Read', argv) = WordsIn(Read, argv)
        /\ Arg \notin Option => WordsIn(Read', argv) = WordsIn(Read, argv) \cup {i}
    BY <2>1, WordsAdded DEF Arg
  <2> QED BY <2>2, <2>3
<1>6. argv' \in Seq(Word) /\ i' \in 1..Len(argv') + 1 /\ pc' = "arguments"
  BY <1>1, <1>3 DEF ArgsOK
<1>7. WordsIn(Read, argv) \subseteq 1..i - 1
  BY <1>2 DEF WordsIn
<1>8. SUFFICES /\ Records'
               /\ cmd' \in {"none"} \cup Command
               /\ b'.output = Latest(Read', argv, "--output")
               /\ b'.name = Latest(Read', argv, "--name")
               /\ b'.type = Latest(Read', argv, "--export")
               /\ b'.flags = FlagsIn(Read', argv)
               /\ WordsOK(WordsIn(Read', argv), argv, cmd', b'.input)
  BY <1>1, <1>3, <1>6 DEF ArgsOK
<1>9. CASE FlagArgument
  <2>1. /\ Arg \in Flag /\ Arg \in Option /\ cmd' = cmd
        /\ Arg \notin {"--output", "--name", "--export"}
        /\ b' = [b EXCEPT !.flags = @ \cup {Arg}]
    BY <1>9, WordsAssumption DEF FlagArgument, Flag
  <2>2. Records'
    BY <1>1, <2>1 DEF Records
  <2>3. /\ b'.output = b.output /\ b'.name = b.name /\ b'.type = b.type
        /\ b'.flags = b.flags \cup {Arg} /\ b'.input = b.input
    BY <2>1 DEF Records
  <2> QED BY <1>4, <1>5, <2>1, <2>2, <2>3 DEF ArgsOK
<1>10. CASE ValueArgument
  <2>1. /\ Arg \in Option /\ Arg \notin Flag /\ cmd' = cmd /\ HasValue /\ Arg \in Valued
        /\ Value = argv[i + 1]
    BY <1>10, WordsAssumption DEF ValueArgument, Flag, Valued, Value
  <2>2. CASE Arg = "--output" /\ b' = [b EXCEPT !.output = Value]
    <3>1. Records'
      BY <1>1, <1>2, <2>1, <2>2 DEF Records
    <3>2. /\ b'.output = argv[i + 1] /\ b'.name = b.name /\ b'.type = b.type
          /\ b'.flags = b.flags /\ b'.input = b.input
      BY <2>1, <2>2 DEF Records
    <3> QED BY <1>4, <1>5, <2>1, <2>2, <3>1, <3>2 DEF ArgsOK
  <2>3. CASE Arg = "--name" /\ b' = [b EXCEPT !.name = Value]
    <3>1. Records'
      BY <1>1, <1>2, <2>1, <2>3 DEF Records
    <3>2. /\ b'.output = b.output /\ b'.name = argv[i + 1] /\ b'.type = b.type
          /\ b'.flags = b.flags /\ b'.input = b.input
      BY <2>1, <2>3 DEF Records
    <3> QED BY <1>4, <1>5, <2>1, <2>3, <3>1, <3>2 DEF ArgsOK
  <2>4. CASE Arg = "--export" /\ Value \in OutType /\ b' = [b EXCEPT !.type = Value]
    <3>1. Records'
      BY <1>1, <1>2, <2>1, <2>4 DEF Records
    <3>2. /\ b'.output = b.output /\ b'.name = b.name /\ b'.type = argv[i + 1]
          /\ b'.flags = b.flags /\ b'.input = b.input
      BY <2>1, <2>4 DEF Records
    <3> QED BY <1>4, <1>5, <2>1, <2>4, <3>1, <3>2 DEF ArgsOK
  <2> QED BY <1>10, <2>2, <2>3, <2>4 DEF ValueArgument, NewValue
<1>11. ASSUME CommandArgument \/ InputArgument
       PROVE  /\ Arg \notin Option /\ Arg \notin Flag
              /\ Arg \notin {"--output", "--name", "--export"}
  BY <1>11, WordsAssumption DEF CommandArgument, InputArgument, Command, Valued
<1>12. CASE CommandArgument
  <2>1. cmd = "none" /\ cmd' = Arg /\ Arg \in Command /\ b' = b /\ cmd' # "none"
    BY <1>12 DEF CommandArgument, Command
  <2>2. b.input = Null /\ WordsIn(Read', argv) = {i}
    BY <1>5, <1>11, <1>12, <2>1 DEF ArgsOK, WordsOK
  <2>3. WordsOK(WordsIn(Read', argv), argv, cmd', b'.input)
    BY <1>2, <2>1, <2>2 DEF WordsOK, Arg
  <2> QED BY <1>1, <1>4, <1>5, <1>11, <1>12, <2>1, <2>3 DEF ArgsOK, Records
<1>13. CASE InputArgument
  <2>1. cmd = "build" /\ cmd' = cmd /\ b.input = Null /\ b' = [b EXCEPT !.input = Arg]
    BY <1>13 DEF InputArgument
  <2>2. Records'
    BY <1>1, <1>2, <2>1 DEF Records
  <2>3. /\ b'.output = b.output /\ b'.name = b.name /\ b'.type = b.type
        /\ b'.flags = b.flags /\ b'.input = Arg
    BY <2>1 DEF Records
  <2>4. PICK m \in Nat : WordsIn(Read, argv) = {m} /\ argv[m] = "build"
    BY <2>1 DEF ArgsOK, WordsOK
  <2>5. m < i /\ WordsIn(Read', argv) = {m, i}
    BY <1>2, <1>5, <1>7, <1>11, <1>13, <2>4
  <2>6. Arg # Null
    BY <1>2, WordsAssumption
  <2>7. WordsOK(WordsIn(Read', argv), argv, cmd', b'.input)
    BY <1>2, <2>1, <2>3, <2>4, <2>5, <2>6 DEF WordsOK, Arg
  <2> QED BY <1>1, <1>4, <1>5, <1>11, <1>13, <2>1, <2>2, <2>3, <2>7 DEF ArgsOK
<1> QED BY <1>9, <1>10, <1>12, <1>13

-----------------------------------------------------------------------------
(* The compiler and ld.                                                    *)

(* ld is started behind the object file and before the last two steps; the *)
(* header is the only file written later, and it has a name of its own.    *)
LinkerOK ==
  /\ pc \in {"emitting", "link", "header", "declare", "finish"}
     \/ (pc \in {"arguments", "source", "emit"} /\ files = <<>>)
  /\ ld # "none" => pc \in {"header", "declare", "finish"} /\ g.type # "obj"
  /\ pc \in {"link", "header", "declare", "finish"} =>
       ObjectFile \in DOMAIN files /\ files[ObjectFile] = Object
  /\ ld = "linking" => Linked \in DOMAIN files /\ files[Linked] = Torn
  /\ ld = "linked" => Linked \in DOMAIN files /\ files[Linked] = Program

(* The three files have different names.                                   *)
LEMMA NamesDiffer ==
  /\ HeaderFile # Linked /\ HeaderFile # ObjectFile
  /\ g.type # "obj" => ObjectFile # Linked
BY DEF ObjectFile, Linked, HeaderFile

(* The steps in front of the object file: no child, no file.               *)
LEMMA EarlyKeeps ==
  ASSUME LinkerOK, pc \in {"arguments", "source", "emit"},
         UNCHANGED <<files, ld>>,
         pc' \in {"arguments", "source", "emit"}
  PROVE  LinkerOK'
BY DEF LinkerOK

(* The arguments, the checks behind them and the analysis.                 *)
LEMMA FrontKeeps ==
  ASSUME LinkerOK,
         \/ FlagArgument \/ ValueArgument \/ CommandArgument \/ InputArgument
         \/ Usage \/ Version \/ StartBuild \/ AddRootCode
  PROVE  LinkerOK'
<1>1. pc \in {"arguments", "source"}
  BY DEF FlagArgument, ValueArgument, CommandArgument, InputArgument, Usage, Version,
         StartBuild, AddRootCode, ReadingArgument, At
<1>2. UNCHANGED <<files, ld>> /\ pc' \in {"arguments", "source", "emit"}
  BY <1>1 DEF FlagArgument, ValueArgument, CommandArgument, InputArgument, Usage, Version,
         StartBuild, AddRootCode, Reading, Stop, Goto, Continue
<1> QED BY <1>1, <1>2, EarlyKeeps

(* Names and settings, once they are in use, stay.                         *)
Settled == UNCHANGED <<b, g>>
(* Once the options are settled the three file names do not change.        *)
LEMMA SettledNames ==
  ASSUME Settled
  PROVE  ObjectFile' = ObjectFile /\ Linked' = Linked /\ HeaderFile' = HeaderFile
BY DEF Settled, ObjectFile, Linked, HeaderFile, OutFile

(* Whoever writes neither the object nor what ld writes, and starts no     *)
(* child.                                                                  *)
LEMMA LateKeeps ==
  ASSUME LinkerOK, Settled, ld' = ld,
         pc \in {"emitting", "link", "header", "declare", "finish"},
         pc' = pc \/ (pc' \in {"declare", "finish"} /\ pc \in {"header", "declare"}),
         \A f \in {ObjectFile, Linked} :
           f \in DOMAIN files => f \in DOMAIN files' /\ files'[f] = files[f]
  PROVE  LinkerOK'
BY SettledNames DEF LinkerOK, Settled

(* The object file: opened, then filled in.                                *)
LEMMA ObjectKeeps ==
  ASSUME LinkerOK, OpenObject \/ EmitObject
  PROVE  LinkerOK'
<1>1. /\ pc \in {"emit", "emitting"} /\ ld = "none" /\ ld' = ld /\ Settled
  BY DEF LinkerOK, OpenObject, EmitObject, At, Settled
<1>2. CASE Stop("abort") /\ UNCHANGED files
  BY <1>1, <1>2, SettledNames DEF LinkerOK, Stop, Settled
<1>3. CASE Write(ObjectFile, Torn) /\ Goto("emitting")
  BY <1>1, <1>3 DEF LinkerOK, Goto
<1>4. CASE Write(ObjectFile, Object) /\ Goto("link")
  <2>1. ObjectFile \in DOMAIN files' /\ files'[ObjectFile] = Object
    BY <1>4 DEF Write
  <2> QED BY <1>1, <1>4, <2>1, SettledNames DEF LinkerOK, Goto
<1> QED BY <1>2, <1>3, <1>4 DEF OpenObject, EmitObject

(* The fork.                                                               *)
LEMMA SpawnKeeps ==
  ASSUME LinkerOK, Spawn
  PROVE  LinkerOK'
<1>1. Settled /\ files' = files /\ pc = "link" /\ g.type # "obj" /\ g' = g
  BY DEF Spawn, At, Settled
<1>2. CASE ld' = "forked"
  <2>1. pc' \in {"header", "finish"} \/ pc' = pc
    BY <1>2 DEF Spawn, Goto, Stop
  <2>2. pc' \in {"header", "finish"}
    BY <1>1, <1>2, <2>1 DEF Spawn, Goto, Stop, LinkerOK
  <2> QED BY <1>1, <1>2, <2>2, SettledNames DEF LinkerOK
<1>3. CASE ld' = ld /\ pc' = pc
  BY <1>1, <1>3, SettledNames DEF LinkerOK
<1> QED BY <1>2, <1>3 DEF Spawn, Stop

(* The header is written beside ld.                                        *)
LEMMA HeaderKeeps ==
  ASSUME LinkerOK, OpenHeader \/ WriteHeader
  PROVE  LinkerOK'
<1>1. /\ pc \in {"header", "declare"} /\ ld' = ld /\ Settled
      /\ pc' = pc \/ pc' \in {"declare", "finish"}
  BY DEF OpenHeader, WriteHeader, At, Settled, Goto, Stop
<1>2. files' = files \/ \E contents : Write(HeaderFile, contents)
  BY DEF OpenHeader, WriteHeader
<1>3. ASSUME NEW f \in {ObjectFile, Linked}
      PROVE  f \in DOMAIN files => f \in DOMAIN files' /\ files'[f] = files[f]
  BY <1>2, <1>3, NamesDiffer DEF Write
<1> QED BY <1>1, <1>3, LateKeeps

(* The compiler ends without writing anything more.                        *)
LEMMA EndKeeps ==
  ASSUME LinkerOK, FinishObject \/ NoArchiver \/ Finish
  PROVE  LinkerOK'
<1>1. UNCHANGED <<files, ld, pc>> /\ Settled
  BY DEF FinishObject, NoArchiver, Finish, Stop, Settled
<1> QED BY <1>1, SettledNames DEF LinkerOK, Settled

(* ld writes its own file only.                                            *)
LEMMA LinkerKeeps ==
  ASSUME LinkerOK, Linker
  PROVE  LinkerOK'
<1>1. /\ Settled /\ pc' = pc /\ ld # "none"
      /\ ld' \in {"linking", "linked", "failed"}
      /\ ld' = "linking" => Write(Linked, Torn)
      /\ ld' = "linked" => Write(Linked, Program)
      /\ ld' = "failed" => files' = files
  BY DEF Linker, StartLd, EndLd, Settled
<1>2. ObjectFile \in DOMAIN files' /\ files'[ObjectFile] = Object
  BY <1>1, NamesDiffer DEF LinkerOK, Write
<1>3. /\ ld' = "linking" => Linked \in DOMAIN files' /\ files'[Linked] = Torn
      /\ ld' = "linked" => Linked \in DOMAIN files' /\ files'[Linked] = Program
  BY <1>1 DEF Write
<1> QED BY <1>1, <1>2, <1>3, SettledNames DEF LinkerOK, Settled

(* Every step keeps what ld reads, and when.                               *)
LEMMA LinkerStep ==
  ASSUME LinkerOK, [Next]_vars
  PROVE  LinkerOK'
<1>1. CASE Compiler
  BY <1>1, FrontKeeps, ObjectKeeps, SpawnKeeps, HeaderKeeps, EndKeeps DEF Compiler
<1>2. CASE Linker
  BY <1>2, LinkerKeeps
<1>3. CASE UNCHANGED vars
  <2>1. Settled /\ UNCHANGED <<files, ld, pc>>
    BY <1>3 DEF vars, Settled
  <2> QED BY <2>1, SettledNames DEF LinkerOK, Settled
<1> QED BY <1>1, <1>2, <1>3 DEF Next
-----------------------------------------------------------------------------
(* What the steps behind the arguments leave of them.                      *)

(* Outside of the argument loop what it has read stays true.               *)
LEMMA ArgumentsStay ==
  ASSUME ArgsOK, argv' = argv, i' = i, cmd' = cmd, b' = b,
         \/ pc' = "arguments" \/ pc # "arguments"
         \/ i = Len(argv) + 1 /\ cmd = "build" /\ b.input # Null
  PROVE  ArgsOK'
<1>1. Read' = Read
  BY DEF Read
<1> QED BY <1>1 DEF ArgsOK

(* The files and the status.                                               *)
Late == {"emit", "emitting", "link", "header", "declare", "finish"}
FilesOK ==
  /\ source \in Source
  /\ exit \in {"running", "success", "failure", "abort"}
  /\ ld \in {"none", "forked", "linking", "linked", "failed"}
  /\ pc \in {"header", "declare", "finish"} => ld # "none"
  /\ pc \in Late => source.sound /\ g.name # Null /\ g.type # Null
  /\ exit = "failure" => pc \in {"arguments", "source"}
  /\ exit = "success" => \/ pc = "arguments" /\ cmd = "version"
                         \/ pc = "link" /\ g.type = "obj"
                         \/ pc = "finish"
  /\ pc \in {"header", "declare"} => g.type = "lib"
  /\ HeaderFile \in DOMAIN files => pc \in {"declare", "finish"} /\ g.type = "lib"
  /\ pc = "finish" /\ g.type = "lib" =>
       HeaderFile \in DOMAIN files /\ files[HeaderFile] = Header(FirstDeclared)
  /\ \A f \in DOMAIN files : f[1] # Null /\ files[f] \in Contents

(* What an abort beside ld leaves of the header, and what a complete header *)
(* says of the types.                                                      *)
HeaderOK ==
  /\ exit = "abort" /\ ld # "none" => pc \in {"header", "declare"}
  /\ pc = "declare" => HeaderFile \in DOMAIN files /\ files[HeaderFile] = Torn
  /\ pc = "finish" /\ g.type = "lib" => \A n \in Exports : source.fns[n].cTypes

IInv == LinkerOK /\ ArgsOK /\ Records /\ FilesOK /\ HeaderOK

(* Whoever leaves the header's step, its names and its file alone.         *)
LEMMA HeaderStays ==
  ASSUME HeaderOK, Settled, source' = source, pc' = pc,
         (exit' = exit /\ ld # "none") \/ exit' # "abort" \/ ld' = "none"
           \/ pc \in {"header", "declare"},
         HeaderFile \in DOMAIN files =>
           HeaderFile \in DOMAIN files' /\ files'[HeaderFile] = files[HeaderFile]
  PROVE  HeaderOK'
<1>1. HeaderFile' = HeaderFile /\ g' = g
  BY SettledNames DEF Settled
<1>2. Exports' = Exports
  BY DEF Exports
<1> QED BY <1>1, <1>2 DEF HeaderOK, Torn

(* Only the last two steps before the end concern the header.              *)
LEMMA HeaderStep ==
  ASSUME LinkerOK, FilesOK, HeaderOK, [Next]_vars
  PROVE  HeaderOK'
<1>1. CASE \/ FlagArgument \/ ValueArgument \/ CommandArgument \/ InputArgument
           \/ Usage \/ Version \/ StartBuild \/ AddRootCode \/ OpenObject \/ EmitObject
  <2>1. pc \in {"arguments", "source", "emit", "emitting"}
    BY <1>1 DEF FlagArgument, ValueArgument, CommandArgument, InputArgument, Usage, Version,
                StartBuild, AddRootCode, OpenObject, EmitObject, ReadingArgument, At
  <2>2. ld = "none"
    BY <2>1 DEF LinkerOK
  <2>3. ld' = ld /\ pc' \in {"arguments", "source", "emit", "emitting", "link"}
    BY <1>1, <2>1 DEF FlagArgument, ValueArgument, CommandArgument, InputArgument, Usage, Version,
                StartBuild, AddRootCode, OpenObject, EmitObject, Reading, Stop, Goto
  <2> QED BY <2>2, <2>3 DEF HeaderOK
<1>2. CASE FinishObject \/ NoArchiver \/ Finish
  <2>1. /\ Settled /\ UNCHANGED <<source, pc, files, ld>>
        /\ exit' = "success" \/ pc = "link"
    BY <1>2 DEF FinishObject, NoArchiver, Finish, Stop, At, Settled, inputs
  <2>2. pc = "link" => ld = "none"
    BY DEF LinkerOK
  <2> QED BY <2>1, <2>2, HeaderStays
<1>3. CASE Spawn
  <2>1. /\ pc = "link" /\ ld = "none" /\ exit = "running" /\ g' = g
        /\ \/ exit' = "abort" /\ pc' = pc /\ ld' = ld
           \/ /\ exit' = exit
              /\ pc' = IF g.type = "lib" THEN "header" ELSE "finish"
    BY <1>3 DEF Spawn, Goto, Stop, Continue, At, LinkerOK
  <2> QED BY <2>1 DEF HeaderOK
<1>4. CASE OpenHeader
  <2>1. /\ pc = "header" /\ exit = "running" /\ Settled
        /\ \/ pc' = pc
           \/ pc' = "declare" /\ exit' = exit /\ Write(HeaderFile, Torn)
    BY <1>4 DEF OpenHeader, Goto, Stop, Continue, At, Settled
  <2>2. CASE pc' = pc
    BY <2>1, <2>2 DEF HeaderOK
  <2>3. CASE pc' = "declare" /\ exit' = exit /\ Write(HeaderFile, Torn)
    <3>1. HeaderFile' = HeaderFile /\ Torn' = Torn
      BY <2>1, SettledNames DEF Torn
    <3>2. HeaderFile \in DOMAIN files' /\ files'[HeaderFile] = Torn
      BY <2>3 DEF Write
    <3> QED BY <2>1, <2>3, <3>1, <3>2 DEF HeaderOK
  <2> QED BY <2>1, <2>2, <2>3
<1>5. CASE WriteHeader
  <2>1. /\ pc = "declare" /\ exit = "running" /\ Settled /\ source' = source
        /\ \/ pc' = pc /\ files' = files
           \/ /\ pc' = "finish" /\ exit' = exit
              /\ \A n \in Exports : source.fns[n].cTypes
    BY <1>5 DEF WriteHeader, Goto, Stop, Continue, At, Settled, inputs, Declares
  <2>2. CASE pc' = pc /\ files' = files
    BY <2>1, <2>2, HeaderStays
  <2>3. CASE /\ pc' = "finish" /\ exit' = exit
             /\ \A n \in Exports : source.fns[n].cTypes
    <3>1. Exports' = Exports
      BY <2>1 DEF Exports
    <3> QED BY <2>1, <2>3, <3>1 DEF HeaderOK
  <2> QED BY <2>1, <2>2, <2>3
<1>6. CASE Linker
  <2>1. /\ Settled /\ UNCHANGED <<source, pc, exit>> /\ ld # "none"
        /\ files' = files \/ \E contents : Write(Linked, contents)
    BY <1>6 DEF Linker, StartLd, EndLd, Settled, inputs
  <2>2. HeaderFile \in DOMAIN files =>
          HeaderFile \in DOMAIN files' /\ files'[HeaderFile] = files[HeaderFile]
    BY <2>1, NamesDiffer DEF Write
  <2> QED BY <2>1, <2>2, HeaderStays
<1>7. CASE UNCHANGED vars
  <2>1. Settled /\ UNCHANGED <<source, pc, exit, files, ld>>
    BY <1>7 DEF vars, inputs, Settled
  <2>2. HeaderFile' = HeaderFile /\ Exports' = Exports
    BY <2>1, SettledNames DEF Exports
  <2> QED BY <2>1, <2>2 DEF HeaderOK, Settled, Torn
<1> QED BY <1>1, <1>2, <1>3, <1>4, <1>5, <1>6, <1>7 DEF Next, Compiler

(* What is said of the source stays as it is.                              *)
LEMMA SourceStays ==
  ASSUME source' = source
  PROVE  Contents' = Contents /\ FirstDeclared' = FirstDeclared /\ Exports' = Exports
<1>1. Contents' = Contents
  BY DEF Contents, Torn, Object, Program, Header, Piece
<1>2. Exports' = Exports
  BY DEF Exports
<1>3. FirstDeclared' = FirstDeclared
  BY <1>2 DEF FirstDeclared, Piece
<1> QED BY <1>1, <1>2, <1>3

(* What the compiler and ld write to files is contents of a file.          *)
LEMMA PlainContents ==
  /\ Torn \in Contents /\ Object \in Contents /\ Program \in Contents
  /\ source \in Source => Header(FirstDeclared) \in Contents
<1>1. Torn \in Contents /\ Object \in Contents /\ Program \in Contents /\ Header(<<>>) \in Contents
  BY DEF Contents
<1>2. ASSUME source \in Source PROVE Header(FirstDeclared) \in Contents
  <2>1. CASE Exports = {}
    BY <1>1, <2>1 DEF FirstDeclared
  <2>2. CASE Exports # {}
    <3> DEFINE first == CHOOSE n \in Exports : \A m \in Exports : n <= m
    <3>1. Exports \subseteq Nat /\ Exports \subseteq DOMAIN source.fns
      BY HBufStep, <1>2 DEF Exports, Source
    <3>2. \E n \in Exports : \A m \in Exports : n <= m
      BY <3>1, <2>2, Least
    <3>3. first \in DOMAIN source.fns
      BY <3>1, <3>2
    <3>4. FirstDeclared = Piece(first, "head")
      BY <2>2 DEF FirstDeclared
    <3> HIDE DEF first
    <3> QED BY <3>3, <3>4 DEF Contents
  <2> QED BY <2>1, <2>2
<1> QED BY <1>1, <1>2

(* One file more, of a name and with contents as they are.                 *)
LEMMA FileWritten ==
  ASSUME NEW file, NEW contents, Write(file, contents), source' = source,
         file[1] # Null, contents \in Contents,
         \A f \in DOMAIN files : f[1] # Null /\ files[f] \in Contents
  PROVE  /\ \A f \in DOMAIN files' : f[1] # Null /\ files'[f] \in Contents'
         /\ DOMAIN files' = DOMAIN files \cup {file}
         /\ files'[file] = contents
         /\ \A f \in DOMAIN files : f # file => files'[f] = files[f]
BY SourceStays DEF Write

(* The steps in front of the files.                                        *)
LEMMA FrontFiles ==
  ASSUME IInv, \/ FlagArgument \/ ValueArgument \/ CommandArgument \/ InputArgument
               \/ Usage \/ Version \/ StartBuild \/ AddRootCode
  PROVE  FilesOK' /\ (~(FlagArgument \/ ValueArgument \/ CommandArgument \/ InputArgument)
                        => ArgsOK' /\ Records')
<1>1. /\ pc \in {"arguments", "source"} /\ exit = "running" /\ files = <<>> /\ ld = "none"
      /\ source \in Source
  BY DEF FlagArgument, ValueArgument, CommandArgument, InputArgument, Usage, Version,
         StartBuild, AddRootCode, ReadingArgument, At, IInv, LinkerOK, FilesOK
<1>2. UNCHANGED <<argv, source, files, ld>>
  BY DEF FlagArgument, ValueArgument, CommandArgument, InputArgument, Usage, Version,
         StartBuild, AddRootCode, Reading, inputs
<1>3. DOMAIN files' = {}
  BY <1>1, <1>2
<1>4. CASE FlagArgument \/ ValueArgument \/ CommandArgument \/ InputArgument
  <2>1. pc' = pc /\ pc = "arguments" /\ exit' = exit
    BY <1>4 DEF FlagArgument, ValueArgument, CommandArgument, InputArgument, ReadingArgument,
                Reading, At, Continue
  <2> QED BY <1>1, <1>2, <1>3, <1>4, <2>1 DEF FilesOK, Late
<1>5. CASE Usage \/ Version
  <2>1. /\ pc' = pc /\ UNCHANGED <<i, cmd, b, g>>
        /\ exit' = "failure" \/ (exit' = "success" /\ pc = "arguments" /\ cmd = "version")
    BY <1>5 DEF Usage, Version, Stop, At
  <2>2. ArgsOK'
    BY <1>2, <2>1, ArgumentsStay DEF IInv
  <2> QED BY <1>1, <1>2, <1>3, <2>1, <2>2 DEF FilesOK, Late, IInv, Records
<1>6. CASE StartBuild
  <2>1. /\ pc = "arguments" /\ i > Len(argv) /\ cmd = "build" /\ b.input # Null
        /\ UNCHANGED <<i, cmd, b>>
        /\ \/ exit' = "abort" /\ pc' = pc /\ g' = g
           \/ /\ b.name # Null /\ pc' = "source" /\ exit' = exit
              /\ g' = [name |-> IF b.type # Null THEN b.name ELSE Null, type |-> b.type]
    BY <1>6 DEF StartBuild, Stop, Goto, Continue, At
  <2>2. i = Len(argv) + 1
    BY <2>1 DEF IInv, ArgsOK
  <2>3. ArgsOK'
    BY <1>2, <2>1, <2>2, ArgumentsStay DEF IInv
  <2>4. Records'
    BY <2>1 DEF IInv, Records
  <2>5. FilesOK'
    BY <1>1, <1>2, <1>3, <2>1 DEF FilesOK, Late
  <2> QED BY <1>6, <2>3, <2>4, <2>5
<1>7. CASE AddRootCode
  <2>1. /\ pc = "source" /\ UNCHANGED <<i, cmd, b>> /\ g' = OutAfter
        /\ \/ Accepted /\ pc' = "emit" /\ exit' = exit
           \/ exit' \in {"failure", "abort"} /\ pc' = pc
    BY <1>7 DEF AddRootCode, Stop, Goto, Continue, At
  <2>2. ArgsOK'
    BY <1>2, <2>1, ArgumentsStay DEF IInv
  <2>3. Exported => source.export[1].name \in Word /\ source.export[1].type \in OutType
    BY <1>1 DEF Exported, Source
  <2>4. /\ OutAfter \in [name : Word \cup {Null}, type : OutType \cup {Null}]
    BY <2>3 DEF OutAfter, IInv, Records
  <2>5. Records'
    BY <2>1, <2>4 DEF IInv, Records
  <2>6. Accepted => source.sound /\ g'.name # Null /\ g'.type # Null
    BY <2>1 DEF Accepted
  <2>7. FilesOK'
    BY <1>1, <1>2, <1>3, <2>1, <2>6 DEF FilesOK, Late
  <2> QED BY <1>7, <2>2, <2>5, <2>7
<1> QED BY <1>4, <1>5, <1>6, <1>7

(* The names of the files, once they are settled.                          *)
LEMMA NamesGiven ==
  ASSUME IInv, pc \in Late
  PROVE  ObjectFile[1] # Null /\ Linked[1] # Null /\ HeaderFile[1] # Null
BY DEF IInv, FilesOK, ObjectFile, Linked, HeaderFile, OutFile

(* Whoever settled the names leaves the arguments alone.                   *)
LEMMA SettledArguments ==
  ASSUME IInv, Settled, UNCHANGED <<argv, i, cmd>>, pc \in Late
  PROVE  ArgsOK' /\ Records'
<1>1. ArgsOK'
  BY ArgumentsStay DEF IInv, Settled, Late
<1> QED BY <1>1 DEF Settled, IInv, Records

(* The compiler's files.                                                   *)
LEMMA LateFiles ==
  ASSUME IInv, \/ OpenObject \/ EmitObject \/ FinishObject \/ NoArchiver \/ Spawn
               \/ OpenHeader \/ WriteHeader \/ Finish
  PROVE  FilesOK' /\ ArgsOK' /\ Records'
<1>1. /\ Settled /\ UNCHANGED <<argv, source, i, cmd>> /\ g' = g
      /\ pc \in Late /\ exit = "running"
  BY DEF OpenObject, EmitObject, FinishObject, NoArchiver, Spawn, OpenHeader, WriteHeader,
         Finish, Settled, inputs, At, Late
<1>2. ArgsOK' /\ Records'
  BY <1>1, SettledArguments
<1>3. /\ ObjectFile' = ObjectFile /\ HeaderFile' = HeaderFile /\ HeaderFile # ObjectFile
      /\ Contents' = Contents /\ FirstDeclared' = FirstDeclared
      /\ ObjectFile[1] # Null /\ HeaderFile[1] # Null
      /\ Torn \in Contents /\ Object \in Contents /\ Header(FirstDeclared) \in Contents
  BY <1>1, SettledNames, NamesDiffer, SourceStays, NamesGiven, PlainContents DEF IInv, FilesOK
<1>4. CASE OpenObject \/ EmitObject
  <2>1. /\ ld' = ld /\ pc \in {"emit", "emitting"}
        /\ \/ exit' = "abort" /\ pc' = pc /\ files' = files
           \/ /\ exit' = exit /\ pc' \in {"emitting", "link"}
              /\ \E contents \in {Torn, Object} : Write(ObjectFile, contents)
    BY <1>4 DEF OpenObject, EmitObject, Stop, Goto, Continue, At
  <2>2. CASE exit' = "abort" /\ pc' = pc /\ files' = files
    BY <1>1, <1>2, <1>3, <2>1, <2>2 DEF IInv, FilesOK, Late
  <2>3. CASE \E contents \in {Torn, Object} : Write(ObjectFile, contents)
    <3>1. PICK contents \in {Torn, Object} : Write(ObjectFile, contents)
      BY <2>3
    <3>2. /\ \A f \in DOMAIN files' : f[1] # Null /\ files'[f] \in Contents'
          /\ DOMAIN files' = DOMAIN files \cup {ObjectFile}
      BY <1>1, <1>3, <3>1, FileWritten DEF IInv, FilesOK
    <3>3. HeaderFile \notin DOMAIN files'
      BY <1>3, <2>1, <3>2 DEF IInv, FilesOK
    <3> QED BY <1>1, <1>2, <1>3, <2>1, <3>2, <3>3 DEF IInv, FilesOK, Late
  <2> QED BY <2>1, <2>2, <2>3
<1>5. CASE FinishObject \/ NoArchiver \/ Finish
  <2>1. /\ UNCHANGED <<files, ld, pc>>
        /\ \/ exit' = "abort"
           \/ exit' = "success" /\ (pc = "finish" \/ (pc = "link" /\ g.type = "obj"))
    BY <1>5 DEF FinishObject, NoArchiver, Finish, Stop, At
  <2> QED BY <1>1, <1>2, <1>3, <2>1 DEF IInv, FilesOK, Late
<1>6. CASE Spawn
  <2>1. /\ files' = files /\ pc = "link"
        /\ \/ exit' = "abort" /\ pc' = pc /\ ld' = ld
           \/ /\ exit' = exit /\ ld' = "forked"
              /\ pc' = IF g.type = "lib" THEN "header" ELSE "finish"
    BY <1>6 DEF Spawn, Stop, Goto, Continue, At
  <2> QED BY <1>1, <1>2, <1>3, <2>1 DEF IInv, FilesOK, Late
<1>7. CASE OpenHeader
  <2>1. /\ ld' = ld /\ pc = "header"
        /\ \/ exit' = "abort" /\ pc' = pc /\ files' = files
           \/ exit' = exit /\ pc' = "declare" /\ Write(HeaderFile, Torn)
    BY <1>7 DEF OpenHeader, Stop, Goto, Continue, At
  <2>2. CASE exit' = "abort" /\ pc' = pc /\ files' = files
    BY <1>1, <1>2, <1>3, <2>1, <2>2 DEF IInv, FilesOK, Late
  <2>3. CASE exit' = exit /\ pc' = "declare" /\ Write(HeaderFile, Torn)
    <3>1. \A f \in DOMAIN files' : f[1] # Null /\ files'[f] \in Contents'
      BY <1>1, <1>3, <2>3, FileWritten DEF IInv, FilesOK
    <3> QED BY <1>1, <1>2, <1>3, <2>1, <2>3, <3>1 DEF IInv, FilesOK, Late
  <2> QED BY <2>1, <2>2, <2>3
<1>8. CASE WriteHeader
  <2>1. HText!CString(HBuf[Len(source.fns)]) = FirstDeclared
    BY HeaderText DEF IInv, FilesOK
  <2>2. /\ ld' = ld /\ pc = "declare"
        /\ \/ exit' = "abort" /\ pc' = pc /\ files' = files
           \/ /\ exit' = exit /\ pc' = "finish"
              /\ Write(HeaderFile, Header(FirstDeclared))
    BY <1>8, <2>1 DEF WriteHeader, Stop, Goto, Continue, At
  <2>3. CASE exit' = "abort" /\ pc' = pc /\ files' = files
    BY <1>1, <1>2, <1>3, <2>2, <2>3 DEF IInv, FilesOK, Late
  <2>4. CASE exit' = exit /\ pc' = "finish" /\ Write(HeaderFile, Header(FirstDeclared))
    <3>1. /\ \A f \in DOMAIN files' : f[1] # Null /\ files'[f] \in Contents'
          /\ DOMAIN files' = DOMAIN files \cup {HeaderFile}
          /\ files'[HeaderFile] = Header(FirstDeclared)
      BY <1>1, <1>3, <2>4, FileWritten DEF IInv, FilesOK
    <3>2. Header(FirstDeclared)' = Header(FirstDeclared)
      BY <1>3 DEF Header
    <3> QED BY <1>1, <1>2, <1>3, <2>2, <2>4, <3>1, <3>2 DEF IInv, FilesOK, Late
  <2> QED BY <2>2, <2>3, <2>4
<1> QED BY <1>2, <1>4, <1>5, <1>6, <1>7, <1>8

(* What ld writes.                                                         *)
LEMMA LinkerFiles ==
  ASSUME IInv, Linker
  PROVE  FilesOK' /\ ArgsOK' /\ Records'
<1>1. /\ Settled /\ UNCHANGED <<argv, source, i, cmd, pc, exit>> /\ g' = g
      /\ ld # "none" /\ ld' \in {"linking", "linked", "failed"}
      /\ files' = files \/ \E contents \in {Torn, Program} : Write(Linked, contents)
  BY DEF Linker, StartLd, EndLd, Settled, inputs
<1>2. pc \in {"header", "declare", "finish"} /\ pc \in Late
  BY <1>1 DEF IInv, LinkerOK, Late
<1>3. ArgsOK' /\ Records'
  BY <1>1, <1>2, SettledArguments
<1>4. /\ HeaderFile' = HeaderFile /\ HeaderFile # Linked /\ Linked[1] # Null
      /\ Contents' = Contents /\ FirstDeclared' = FirstDeclared
      /\ Header(FirstDeclared)' = Header(FirstDeclared)
      /\ Torn \in Contents /\ Program \in Contents
  BY <1>1, <1>2, SettledNames, NamesDiffer, SourceStays, NamesGiven, PlainContents DEF Header
<1>5. /\ \A f \in DOMAIN files' : f[1] # Null /\ files'[f] \in Contents'
      /\ HeaderFile \in DOMAIN files' <=> HeaderFile \in DOMAIN files
      /\ HeaderFile \in DOMAIN files => files'[HeaderFile] = files[HeaderFile]
  <2>1. CASE files' = files
    BY <1>4, <2>1 DEF IInv, FilesOK
  <2>2. CASE \E contents \in {Torn, Program} : Write(Linked, contents)
    <3>1. PICK contents \in {Torn, Program} : Write(Linked, contents)
      BY <2>2
    <3>2. \A f \in DOMAIN files : f[1] # Null /\ files[f] \in Contents
      BY DEF IInv, FilesOK
    <3>3. contents \in Contents
      BY <1>4
    <3>4. /\ \A f \in DOMAIN files' : f[1] # Null /\ files'[f] \in Contents'
          /\ DOMAIN files' = DOMAIN files \cup {Linked}
          /\ \A f \in DOMAIN files : f # Linked => files'[f] = files[f]
      BY <1>1, <1>4, <3>1, <3>2, <3>3, FileWritten
    <3> QED BY <1>4, <3>4
  <2> QED BY <1>1, <2>1, <2>2
<1>6. FilesOK'
  BY <1>1, <1>2, <1>4, <1>5 DEF IInv, FilesOK, Late
<1> QED BY <1>3, <1>6

-----------------------------------------------------------------------------
(* Theorems.                                                               *)

(* Nothing is read and nothing written at the start.                       *)
LEMMA Start ==
  ASSUME Init
  PROVE  IInv
<1>1. /\ argv \in Seq(Word) /\ source \in Source /\ i = 1 /\ files = <<>> /\ pc = "arguments"
  BY WordsAssumption, SourcesAssumption DEF Init
<1>2. Read = {}
  BY <1>1, StartsStep DEF Read
<1>3. /\ \A option : Latest({}, argv, option) = Null
      /\ FlagsIn({}, argv) = {} /\ WordsIn({}, argv) = {}
  BY DEF Latest, ValueBehind, FlagsIn, WordsIn, PlacesIn
<1>4. Records
  BY DEF Init, Records
<1>5. ArgsOK
  BY <1>1, <1>2, <1>3 DEF Init, ArgsOK, WordsOK
<1>6. LinkerOK
  BY DEF Init, LinkerOK
<1>7. DOMAIN files = {}
  BY <1>1
<1>8. FilesOK
  BY <1>1, <1>7 DEF Init, FilesOK, Late
<1>9. HeaderOK
  BY DEF Init, HeaderOK
<1> QED BY <1>4, <1>5, <1>6, <1>8, <1>9 DEF IInv

(* Every step of the compiler or of its child keeps the invariant.         *)
LEMMA StepKeeps ==
  ASSUME IInv, [Next]_vars
  PROVE  IInv'
<1>1. LinkerOK' /\ HeaderOK'
  BY LinkerStep, HeaderStep DEF IInv
<1>2. ArgsOK' /\ Records' /\ FilesOK'
  <2>1. CASE FlagArgument \/ ValueArgument \/ CommandArgument \/ InputArgument
    BY <2>1, ArgumentKeeps, FrontFiles DEF IInv
  <2>2. CASE Usage \/ Version \/ StartBuild \/ AddRootCode
    <3>1. CASE FlagArgument \/ ValueArgument \/ CommandArgument \/ InputArgument
      BY <2>1, <3>1
    <3> QED BY <2>2, <3>1, FrontFiles
  <2>3. CASE \/ OpenObject \/ EmitObject \/ FinishObject \/ NoArchiver \/ Spawn
             \/ OpenHeader \/ WriteHeader \/ Finish
    BY <2>3, LateFiles
  <2>4. CASE Linker
    BY <2>4, LinkerFiles
  <2>5. CASE UNCHANGED vars
    <3>1. /\ UNCHANGED <<argv, source, i, cmd, b, pc, g, files, ld, exit>> /\ Settled
      BY <2>5 DEF vars, inputs, Settled
    <3>2. ArgsOK'
      BY <3>1, ArgumentsStay DEF IInv
    <3>3. /\ HeaderFile' = HeaderFile /\ Contents' = Contents /\ FirstDeclared' = FirstDeclared
          /\ Header(FirstDeclared)' = Header(FirstDeclared)
      BY <3>1, SettledNames, SourceStays DEF Header
    <3> QED BY <3>1, <3>2, <3>3 DEF IInv, Records, FilesOK
  <2> QED BY <2>1, <2>2, <2>3, <2>4, <2>5 DEF Next, Compiler
<1> QED BY <1>1, <1>2 DEF IInv

(* The invariant of the compiler and the linker beside it.                 *)
THEOREM InvariantHolds == Spec => []IInv
<1>1. Init => IInv
  BY Start
<1>2. IInv /\ [Next]_vars => IInv'
  BY StepKeeps
<1> QED BY <1>1, <1>2, PTL DEF Spec

(* ld reads a complete object file, and nobody else writes its output,     *)
(* whatever the compiler does meanwhile (codegen.cpp:800-859).             *)
THEOREM LinkerInput == Spec => []LinkerReadsObject
<1>1. IInv => LinkerReadsObject
  BY DEF IInv, LinkerOK, LinkerReadsObject
<1> QED BY <1>1, InvariantHolds, PTL

(* What build works with is what the arguments say, whatever their order   *)
(* and however often an option is repeated (main.cpp:93-148).              *)
THEOREM OptionsHold == Spec => []OptionsAsGiven
<1>1. ASSUME IInv, pc # "arguments"
      PROVE  /\ b.output = Given("--output") /\ b.name = Given("--name")
             /\ b.type = Given("--export")
             /\ b.flags = {f \in Flag : Places(f) # {}}
             /\ Cardinality(Words) = 2
             /\ \E m, n \in Words : m < n /\ argv[m] = "build" /\ argv[n] = b.input
             /\ Places(IncludePath) # {} => b.input = IncludePath
  <2>1. i = Len(argv) + 1 /\ cmd = "build" /\ b.input # Null /\ Len(argv) \in Nat
    BY <1>1 DEF IInv, ArgsOK
  <2>2. Said = Read
    <3>1. i - 1 = Len(argv)
      BY <2>1
    <3> QED BY <3>1 DEF Said, Read
  <2>3. \A option : PlacesIn(Read, argv, option) = Places(option)
    BY <2>2 DEF PlacesIn, Places
  <2>4. \A option : Latest(Read, argv, option) = Given(option)
    BY <2>3 DEF Latest, ValueBehind, Given
  <2>5. FlagsIn(Read, argv) = {f \in Flag : Places(f) # {}}
    BY <2>3 DEF FlagsIn
  <2>6. WordsIn(Read, argv) = Words
    BY <2>2 DEF WordsIn, Words
  <2>7. PICK m, n \in Nat : m < n /\ Words = {m, n} /\ argv[m] = "build" /\ argv[n] = b.input
    BY <1>1, <2>1, <2>6 DEF IInv, ArgsOK, WordsOK
  <2>8. Cardinality(Words) = 2
    <3>1. m < n
      BY <2>7
    <3>2. n \notin {m}
      BY <3>1
    <3>3. IsFiniteSet({m}) /\ Cardinality({m}) = 1
      BY FS_Singleton
    <3>4. Cardinality({m} \cup {n}) = 2
      BY <3>2, <3>3, FS_AddElement
    <3>5. Words = {m} \cup {n}
      BY <2>7
    <3> QED BY <3>4, <3>5
  <2>9. Places(IncludePath) # {} => b.input = IncludePath
    <3>1. ASSUME NEW k \in Said, argv[k] = IncludePath PROVE k \in {m, n}
      BY <2>7, <3>1, WordsAssumption DEF Words
    <3>2. IncludePath # "build"
      BY DEF IncludePath
    <3> QED BY <2>7, <3>1, <3>2 DEF Places
  <2> QED BY <1>1, <2>4, <2>5, <2>7, <2>8, <2>9 DEF IInv, ArgsOK
<1>2. IInv => OptionsAsGiven
  BY <1>1 DEF OptionsAsGiven
<1> QED BY <1>2, InvariantHolds, PTL

(* The files are what the compiler's status says: after a success the      *)
(* object is complete, and a library's header has the first half of the    *)
(* first declaration; after an error nothing was written, and an abort     *)
(* beside the linker leaves no header or an empty one                      *)
(* (codegen.cpp:700-864).                                                  *)
THEOREM FilesHold == Spec => []FilesConsistent
<1>1. ASSUME IInv PROVE TypeOK
  <2>1. /\ i \in 1..Len(argv) + 1 /\ cmd \in {"none"} \cup Command
        /\ b.flags \subseteq Flag
        /\ b.type \in OutType \cup {Null} /\ g.type \in OutType \cup {Null}
    BY <1>1 DEF IInv, ArgsOK, Records
  <2> QED BY <1>1, <2>1 DEF IInv, FilesOK, TypeOK
<1>2. ASSUME IInv PROVE StatusIsHonest
  <2>1. ASSUME exit = "success", cmd = "build"
        PROVE  /\ files[ObjectFile] = Object
               /\ (ld = "none") <=> (g.type = "obj")
               /\ IF g.type # "lib" THEN HeaderFile \notin DOMAIN files
                  ELSE /\ files[HeaderFile] = Header(FirstDeclared)
                       /\ \A n \in Exports : source.fns[n].cTypes
    <3>1. (pc = "link" /\ g.type = "obj") \/ pc = "finish"
      BY <1>2, <2>1 DEF IInv, FilesOK
    <3> QED BY <1>2, <2>1, <3>1 DEF IInv, FilesOK, LinkerOK, HeaderOK
  <2>2. exit = "failure" => files = <<>> /\ ld = "none"
    BY <1>2 DEF IInv, FilesOK, LinkerOK
  <2>3. files # <<>> => source.sound
    BY <1>2 DEF IInv, FilesOK, LinkerOK, Late
  <2>4. (exit = "abort" /\ ld # "none") =>
          g.type = "lib" /\ (HeaderFile \in DOMAIN files => files[HeaderFile] = Torn)
    BY <1>2 DEF IInv, FilesOK, HeaderOK
  <2> QED BY <2>1, <2>2, <2>3, <2>4 DEF StatusIsHonest
<1>3. IInv => FilesConsistent
  BY <1>1, <1>2 DEF FilesConsistent
<1> QED BY <1>3, InvariantHolds, PTL

-----------------------------------------------------------------------------
(* Descriptors.                                                            *)

(* What the descriptors of a process are open on: at the start, with the   *)
(* pipes, in the parent behind close, and in the child behind dup2.        *)
Fresh == [d \in Descriptor |-> IF d < 3 THEN Standard(d) ELSE Closed]
Opened == [d \in Descriptor |->
             CASE d < 3 -> Standard(d)
               [] d = 3 -> ReadEnd("unused")  [] d = 4 -> WriteEnd("unused")
               [] d = 5 -> ReadEnd("stdin")   [] d = 6 -> WriteEnd("stdin")
               [] d = 7 -> ReadEnd("stdout")  [] d = 8 -> WriteEnd("stdout")
               [] OTHER -> Closed]
Remaining == [d \in Descriptor |-> IF d \in ToClose THEN Closed ELSE Opened[d]]
ChildsErr == CASE stderr_pipe[2] = 0 -> ReadEnd("stdin")
               [] stderr_pipe[2] = 1 -> WriteEnd("stdout")
               [] OTHER -> Opened[stderr_pipe[2]]
Duplicated == [d \in Descriptor |->
                 CASE d = 0 -> ReadEnd("stdin") [] d = 1 -> WriteEnd("stdout")
                   [] d = 2 -> ChildsErr [] OTHER -> Opened[d]]
NoneOpen == [d \in Descriptor |-> Closed]

(* What a descriptor is open on is one thing.                              *)
LEMMA EndsDiffer ==
  /\ \A p, q : ReadEnd(p) # WriteEnd(q) /\ ReadEnd(p) # Closed /\ WriteEnd(p) # Closed
  /\ \A n, p : Standard(n) # ReadEnd(p) /\ Standard(n) # WriteEnd(p) /\ Standard(n) # Closed
  /\ \A p, q : ReadEnd(p) = ReadEnd(q) => p = q
  /\ \A p, q : WriteEnd(p) = WriteEnd(q) => p = q
BY DEF ReadEnd, WriteEnd, Standard, Closed

(* The pipes in the order of the calls.                                    *)
LEMMA OpenedEnds ==
  /\ Opened[0] = Standard(0) /\ Opened[1] = Standard(1) /\ Opened[2] = Standard(2)
  /\ Opened[3] = ReadEnd("unused") /\ Opened[4] = WriteEnd("unused")
  /\ Opened[5] = ReadEnd("stdin") /\ Opened[6] = WriteEnd("stdin")
  /\ Opened[7] = ReadEnd("stdout") /\ Opened[8] = WriteEnd("stdout")
  /\ Opened[9] = Closed
BY DEF Opened, Descriptor

(* The descriptors one by one.                                             *)
LEMMA TenDescriptors ==
  \A d \in Descriptor : d \in {0, 1, 2, 3, 4, 5, 6, 7, 8, 9}
BY DEF Descriptor

(* Each table of descriptors leads to pipe ends or to nothing.             *)
LEMMA AllOpen ==
  ASSUME stderr_pipe \in Descriptor \X Descriptor
  PROVE  \A d \in Descriptor : /\ Fresh[d] \in Open /\ Opened[d] \in Open
                               /\ Remaining[d] \in Open /\ Duplicated[d] \in Open
                               /\ NoneOpen[d] \in Open
<1>1. /\ Closed \in Open
      /\ \A n \in 0..2 : Standard(n) \in Open
      /\ \A p \in Pipe : ReadEnd(p) \in Open /\ WriteEnd(p) \in Open
  BY DEF Open
<1>2. {"unused", "stdin", "stdout"} \subseteq Pipe
  BY DEF Pipe
<1>3. \A d \in Descriptor : Opened[d] \in Open
  BY <1>1, <1>2, OpenedEnds, TenDescriptors
<1>4. ChildsErr \in Open
  BY <1>1, <1>2, <1>3 DEF ChildsErr
<1>5. \A d \in Descriptor : Fresh[d] \in Open /\ NoneOpen[d] \in Open
  BY <1>1, TenDescriptors DEF Fresh, NoneOpen
<1>6. \A d \in Descriptor : Remaining[d] \in Open
  BY <1>1, <1>3 DEF Remaining
<1>7. \A d \in Descriptor : Duplicated[d] \in Open
  BY <1>1, <1>2, <1>3, <1>4 DEF Duplicated
<1> QED BY <1>3, <1>5, <1>6, <1>7

(* The steps that change descriptors lead from one table to the next.      *)
LEMMA PipesOpened ==
  ASSUME fds = Fresh
  PROVE  Piped = Opened
BY TenDescriptors DEF Piped, Fresh, Opened, Descriptor

(* The parent closes its ends of a table it just opened.                   *)
LEMMA EndsClosed ==
  ASSUME fds = Opened, CloseEnds
  PROVE  fds' = Remaining
BY DEF CloseEnds, Remaining

(* The child duplicates pipe ends over its three standard streams.         *)
LEMMA EndsDuplicated ==
  ASSUME childFds = Opened, stderr_pipe \in Descriptor \X Descriptor
  PROVE  Dup = Duplicated
<1>1. /\ WithStdin = [d \in Descriptor |-> IF d = 0 THEN ReadEnd("stdin") ELSE Opened[d]]
  BY OpenedEnds DEF WithStdin, Opened, Descriptor
<1>2. WithStdout = [d \in Descriptor |-> CASE d = 0 -> ReadEnd("stdin")
                                           [] d = 1 -> WriteEnd("stdout")
                                           [] OTHER -> Opened[d]]
  BY <1>1, OpenedEnds DEF WithStdout, Descriptor
<1>3. stderr_pipe[2] \in Descriptor /\ {0, 1, 2} \subseteq Descriptor
  BY DEF Descriptor
<1>4. WithStdout[stderr_pipe[2]] = ChildsErr
  BY <1>2, <1>3 DEF ChildsErr
<1> QED BY <1>2, <1>3, <1>4 DEF Dup, Duplicated

(* Which pipe the child's stderr is.                                       *)
LEMMA ErrorsGo ==
  ASSUME stderr_pipe \in Descriptor \X Descriptor
  PROVE  \A p \in Pipe : ChildsErr = WriteEnd(p) <=> p \in StderrPipe
<1>1. stderr_pipe[2] \in {0, 1, 2, 3, 4, 5, 6, 7, 8, 9}
  BY TenDescriptors
<1> QED BY <1>1, EndsDiffer, OpenedEnds DEF ChildsErr, StderrPipe, Pipe

-----------------------------------------------------------------------------
(* The invariant.                                                          *)

InputOK == program \in ChildProgram /\ stderr_pipe \in Descriptor \X Descriptor

(* There is no child before the fork, and it lives only while its parent   *)
(* waits for it.                                                           *)
OrderOK ==
  /\ parent \in {"pipe", "fork"} => child = "none"
  /\ child = "none" => parent \in {"pipe", "fork", "panic"}
  /\ child \in {"forked", "running"} => parent \in {"close", "wait"}

(* The descriptors are determined by where the processes are.              *)
TablesOK ==
  /\ parent = "pipe" => fds = Fresh
  /\ parent \in {"fork", "close"} => fds = Opened
  /\ parent \in {"wait", "out", "err", "returned"} => fds = Remaining
  /\ parent = "panic" => fds \in {Fresh, Opened, Remaining}
  /\ child \in {"none", "dead", "failed"} => childFds = NoneOpen
  /\ child = "forked" => childFds = Opened
  /\ child = "running" => childFds = Duplicated

(* What was written is in the pipes or, of the stdout pipe, in the first   *)
(* buffer: until the wait is over in the pipes.  A child that failed has   *)
(* written nothing but why.                                                *)
Done(p) == (IF p = "stdout" THEN program.out - todo[1] ELSE 0)
           + (IF p \in StderrPipe THEN program.err - todo[2] ELSE 0)
Waiting == {"pipe", "fork", "close", "wait"}
CountOK ==
  /\ todo \in Nat \X Nat
  /\ held \in [Pipe -> Nat]
  /\ received \in [out : Nat, err : Nat]
  /\ length \in [out : {0, BufSize}, err : {0, BufSize}]
  /\ child = "dead" => todo = <<0, 0>>
  /\ child # "failed" =>
       /\ parent \in Waiting => \A p \in Pipe : held[p] = Done(p)
       /\ held["stdout"] + received.out = Done("stdout")

(* Behind the first stream's end the stdout pipe is empty; the second      *)
(* stream ends only by chance.                                             *)
EndOK ==
  /\ parent \in {"err", "returned"} =>
       held["stdout"] = 0 /\ stderr_pipe[2] # 7 /\ length.out = 0
  /\ parent = "returned" =>
       /\ length.err = 0
       /\ stderr_pipe[1] \in {0, 1, 2, 7} \/ stderr_pipe = <<3, 4>>
       /\ stderr_pipe[1] # stderr_pipe[2]

ExecIInv == InputOK /\ ExecTypeOK /\ OrderOK /\ TablesOK /\ CountOK /\ EndOK

(* It holds at the start.                                                  *)
LEMMA ExecStarts ==
  ASSUME ExecInit
  PROVE  ExecIInv
<1>1. InputOK /\ OrderOK
  BY ExecAssumption DEF ExecInit, InputOK, OrderOK
<1>2. /\ program.out \in Nat /\ program.err \in Nat
      /\ BufSize \in Nat /\ PipeSize \in Nat
  BY <1>1, ExecAssumption DEF InputOK, ChildProgram
<1>3. fds = Fresh /\ childFds = NoneOpen
  BY DEF ExecInit, Fresh, NoneOpen
<1>4. TablesOK
  BY <1>3 DEF ExecInit, TablesOK
<1>5. todo[1] = program.out /\ todo[2] = program.err
  BY DEF ExecInit
<1>6. CountOK
  BY <1>2, <1>5 DEF ExecInit, CountOK, Done, Pipe
<1>7. ExecTypeOK
  BY <1>1, <1>2, <1>3, AllOpen DEF ExecInit, ExecTypeOK, InputOK
<1> QED BY <1>1, <1>4, <1>6, <1>7 DEF ExecIInv, EndOK, ExecInit

(* A panic in front of the fork.                                           *)
LEMMA PanicKeeps ==
  ASSUME ExecIInv, Panic, parent \in {"pipe", "fork"} \/ child \in {"dead", "failed"},
         UNCHANGED <<input, childVars, held>>
  PROVE  ExecIInv'
<1>1. UNCHANGED <<program, stderr_pipe, fds, received, length, child, childFds, todo, held>>
      /\ parent' = "panic"
  BY DEF Panic, input, childVars
<1>2. InputOK' /\ ExecTypeOK'
  BY <1>1 DEF ExecIInv, InputOK, ExecTypeOK
<1>3. OrderOK' /\ TablesOK' /\ EndOK'
  BY <1>1 DEF ExecIInv, OrderOK, TablesOK, EndOK, ExecTypeOK, Fresh, Opened, Remaining, ToClose,
              NoneOpen, Duplicated, ChildsErr
<1>4. CountOK'
  BY <1>1 DEF ExecIInv, CountOK, Done, Waiting, StderrPipe
<1> QED BY <1>2, <1>3, <1>4 DEF ExecIInv

(* pipe, fork and close.                                                   *)
LEMMA MakePipesKeeps ==
  ASSUME ExecIInv, MakePipes
  PROVE  ExecIInv'
<1>1. CASE Panic
  BY <1>1, PanicKeeps DEF MakePipes, ParentAt
<1>2. CASE parent' = "fork" /\ fds' = Piped /\ UNCHANGED <<received, length>>
  <2>1. /\ UNCHANGED <<program, stderr_pipe, received, length, child, childFds, todo, held>>
        /\ parent = "pipe" /\ parent' = "fork" /\ fds' = Opened
    BY <1>2, PipesOpened DEF MakePipes, ParentAt, input, childVars, ExecIInv, TablesOK
  <2>2. InputOK' /\ OrderOK' /\ EndOK'
    BY <2>1 DEF ExecIInv, InputOK, OrderOK, EndOK
  <2>3. ExecTypeOK'
    BY <2>1, AllOpen DEF ExecIInv, ExecTypeOK, InputOK
  <2>4. TablesOK'
    BY <2>1 DEF ExecIInv, TablesOK, OrderOK, Opened, NoneOpen
  <2>5. CountOK'
    BY <2>1 DEF ExecIInv, CountOK, Done, Waiting, StderrPipe
  <2> QED BY <2>2, <2>3, <2>4, <2>5 DEF ExecIInv
<1> QED BY <1>1, <1>2 DEF MakePipes

(* fork keeps the invariant.                                               *)
LEMMA ForkKeeps ==
  ASSUME ExecIInv, Fork
  PROVE  ExecIInv'
<1>1. CASE Panic /\ UNCHANGED childVars
  BY <1>1, PanicKeeps DEF Fork, ParentAt
<1>2. CASE /\ parent' = "close" /\ child' = "forked" /\ childFds' = fds
           /\ UNCHANGED <<fds, received, length, todo>>
  <2>1. /\ UNCHANGED <<program, stderr_pipe, fds, received, length, todo, held>>
        /\ parent = "fork" /\ parent' = "close" /\ child' = "forked" /\ childFds' = fds
    BY <1>2 DEF Fork, ParentAt, input
  <2>2. InputOK' /\ OrderOK' /\ EndOK'
    BY <2>1 DEF ExecIInv, InputOK, OrderOK, EndOK
  <2>3. ExecTypeOK'
    BY <2>1 DEF ExecIInv, ExecTypeOK
  <2>4. TablesOK'
    BY <2>1 DEF ExecIInv, TablesOK, Opened
  <2>5. CountOK'
    BY <2>1 DEF ExecIInv, OrderOK, CountOK, Done, Waiting, StderrPipe
  <2> QED BY <2>2, <2>3, <2>4, <2>5 DEF ExecIInv
<1> QED BY <1>1, <1>2 DEF Fork

(* Closing the parent's ends keeps the invariant.                          *)
LEMMA CloseKeeps ==
  ASSUME ExecIInv, CloseEnds
  PROVE  ExecIInv'
<1>1. /\ UNCHANGED <<program, stderr_pipe, received, length, child, childFds, todo, held>>
      /\ parent = "close" /\ parent' = "wait" /\ fds' = Remaining
  BY EndsClosed DEF CloseEnds, ParentAt, input, childVars, ExecIInv, TablesOK
<1>2. InputOK' /\ OrderOK' /\ EndOK'
  BY <1>1 DEF ExecIInv, InputOK, OrderOK, EndOK
<1>3. ExecTypeOK'
  BY <1>1, AllOpen DEF ExecIInv, ExecTypeOK, InputOK
<1>4. TablesOK'
  BY <1>1 DEF ExecIInv, TablesOK, Remaining, ToClose, NoneOpen, Opened, Duplicated, ChildsErr
<1>5. CountOK'
  BY <1>1 DEF ExecIInv, CountOK, Done, Waiting, StderrPipe
<1> QED BY <1>2, <1>3, <1>4, <1>5 DEF ExecIInv

(* waitpid.                                                                *)
LEMMA WaitKeeps ==
  ASSUME ExecIInv, Wait
  PROVE  ExecIInv'
<1>1. /\ UNCHANGED <<program, stderr_pipe, fds, received, child, childFds, todo, held>>
      /\ parent = "wait" /\ parent' = "out" /\ child \in {"dead", "failed"}
      /\ length' = [length EXCEPT !.out = BufSize]
  BY DEF Wait, ParentAt, input, childVars, ChildEnded
<1>2. length' \in [out : {0, BufSize}, err : {0, BufSize}]
  BY <1>1 DEF ExecIInv, CountOK
<1>3. InputOK' /\ OrderOK' /\ EndOK'
  BY <1>1 DEF ExecIInv, InputOK, OrderOK, EndOK
<1>4. ExecTypeOK'
  BY <1>1, <1>2 DEF ExecIInv, ExecTypeOK
<1>5. TablesOK'
  BY <1>1 DEF ExecIInv, TablesOK, Remaining, ToClose, NoneOpen, Opened
<1>6. CountOK'
  BY <1>1, <1>2 DEF ExecIInv, CountOK, Done, Waiting, StderrPipe
<1> QED BY <1>3, <1>4, <1>5, <1>6 DEF ExecIInv

-----------------------------------------------------------------------------
(* The reads.                                                              *)

(* The parent reads when the child is dead.                                *)
LEMMA OrderDead ==
  ASSUME ExecIInv, parent \in {"out", "err", "returned"}
  PROVE  child \in {"dead", "failed"}
BY DEF ExecIInv, OrderOK, ExecTypeOK

(* The end of a stream: what it has to show.                               *)
LEMMA EndStep ==
  ASSUME ExecIInv,
         UNCHANGED <<program, stderr_pipe, fds, received, child, childFds, todo, held>>,
         length' \in [out : {0, BufSize}, err : {0, BufSize}],
         \/ /\ parent = "out" /\ parent' = "err"
            /\ held["stdout"] = 0 /\ stderr_pipe[2] # 7 /\ length'.out = 0
         \/ /\ parent = "err" /\ parent' = "returned"
            /\ length' = [length EXCEPT !.err = 0]
            /\ stderr_pipe[1] \in {0, 1, 2, 7} \/ stderr_pipe = <<3, 4>>
            /\ stderr_pipe[1] # stderr_pipe[2]
  PROVE  ExecIInv'
<1>1. child \in {"dead", "failed"}
  BY OrderDead
<1>2. parent' = "returned" => length'.err = 0 /\ length'.out = length.out
  BY DEF ExecIInv, CountOK
<1>3. InputOK' /\ OrderOK' /\ EndOK'
  BY <1>1, <1>2 DEF ExecIInv, InputOK, OrderOK, EndOK
<1>4. ExecTypeOK'
  BY DEF ExecIInv, ExecTypeOK
<1>5. TablesOK'
  BY <1>1 DEF ExecIInv, TablesOK, Remaining, ToClose, NoneOpen, Opened
<1>6. CountOK'
  BY DEF ExecIInv, CountOK, Done, Waiting, StderrPipe
<1> QED BY <1>3, <1>4, <1>5, <1>6 DEF ExecIInv

(* What a descriptor of the parent is, behind the close.                   *)
LEMMA Remains ==
  ASSUME stderr_pipe \in Descriptor \X Descriptor, fds = Remaining
  PROVE  /\ stderr_pipe[2] = 7 => fds[7] = Closed
         /\ stderr_pipe[2] # 7 => fds[7] = ReadEnd("stdout")
         /\ fds[stderr_pipe[1]] # Closed =>
              stderr_pipe[1] # stderr_pipe[2] /\ stderr_pipe[1] \notin {5, 8, 9}
         /\ stderr_pipe[1] \in {4, 6} => fds[stderr_pipe[1]] \in {Closed} \cup {WriteEnd(p) : p \in Pipe}
         /\ stderr_pipe[1] = 3 /\ stderr_pipe[2] \notin {3, 4} =>
              fds[3] = ReadEnd("unused") /\ fds[4] = WriteEnd("unused")
         /\ stderr_pipe[1] = 3 => fds[3] \in {Closed, ReadEnd("unused")}
<1>1. /\ stderr_pipe[1] \in {0, 1, 2, 3, 4, 5, 6, 7, 8, 9}
      /\ {3, 4, 7} \subseteq Descriptor /\ stderr_pipe[1] \in Descriptor
  BY TenDescriptors DEF Descriptor
<1>2. \A d \in Descriptor : fds[d] = IF d \in ToClose THEN Closed ELSE Opened[d]
  BY DEF Remaining
<1>3. {"unused", "stdin", "stdout"} \subseteq Pipe
  BY DEF Pipe
<1> QED BY <1>1, <1>2, <1>3, OpenedEnds DEF ToClose

(* Data comes from the stdout pipe, or, for the second buffer, from the    *)
(* first pipe or, when nothing is left in it, the stdout pipe.             *)
LEMMA ReadDataKeeps ==
  ASSUME ExecIInv, NEW stream \in {"out", "err"}, ReadData(stream)
  PROVE  ExecIInv'
<1>1. PICK p \in Pipe, n \in 1..BufSize :
        /\ ReadsFrom(stream) = ReadEnd(p)
        /\ n <= held[p]
        /\ held' = [held EXCEPT ![p] = @ - n]
        /\ received' = [received EXCEPT ![stream] = @ + n]
  BY DEF ReadData
<1>2. /\ UNCHANGED <<program, stderr_pipe, parent, fds, child, childFds, todo>>
      /\ parent = stream
      /\ length' = [length EXCEPT ![stream] = 0 + BufSize]
  BY DEF ReadData, ParentAt, input, childVars, ActualBufLen
<1>3. BufSize \in Nat /\ n \in Nat /\ n > 0
  BY ExecAssumption
<1>4. 0 + BufSize = BufSize
  BY <1>3
<1>5. length' \in [out : {0, BufSize}, err : {0, BufSize}]
  BY <1>2, <1>4 DEF ExecIInv, CountOK
<1>6. received' \in [out : Nat, err : Nat] /\ held' \in [Pipe -> Nat]
  BY <1>1, <1>3 DEF ExecIInv, CountOK
<1>7. fds = Remaining
  BY <1>2 DEF ExecIInv, TablesOK
<1>8. stream = "out" => p = "stdout"
  BY <1>1, <1>7, Remains, EndsDiffer DEF ReadsFrom, ExecIInv, InputOK
<1>9. stream = "err" => p # "stdout"
  BY <1>1, <1>2, <1>3 DEF ExecIInv, EndOK
<1>10. held'["stdout"] + received'.out = held["stdout"] + received.out
  <2>1. held["stdout"] \in Nat /\ received.out \in Nat /\ "stdout" \in Pipe
    BY DEF ExecIInv, CountOK, Pipe
  <2>2. CASE stream = "out"
    <3>1. held'["stdout"] = held["stdout"] - n /\ received'.out = received.out + n
      BY <1>1, <1>8, <2>1, <2>2 DEF ExecIInv, CountOK
    <3> QED BY <3>1, <2>1, <1>3
  <2>3. CASE stream = "err"
    BY <1>1, <1>9, <2>1, <2>3 DEF ExecIInv, CountOK
  <2> QED BY <2>2, <2>3
<1>11. InputOK' /\ OrderOK'
  BY <1>2 DEF ExecIInv, InputOK, OrderOK
<1>12. EndOK'
  <2>1. stream = "err" => held'["stdout"] = held["stdout"] /\ length'.out = length.out
    BY <1>1, <1>2, <1>9 DEF ExecIInv, CountOK, Pipe
  <2> QED BY <1>2, <2>1 DEF ExecIInv, EndOK
<1>13. ExecTypeOK'
  <2>1. \A q \in Pipe : held'[q] \in 0..PipeSize
    BY <1>1, <1>3, ExecAssumption DEF ExecIInv, ExecTypeOK, CountOK
  <2> QED BY <1>2, <1>5, <1>6, <2>1 DEF ExecIInv, ExecTypeOK
<1>14. TablesOK'
  BY <1>2, <1>7, OrderDead DEF ExecIInv, TablesOK, Remaining, ToClose, NoneOpen, Opened
<1>15. CountOK'
  BY <1>2, <1>5, <1>6, <1>10 DEF ExecIInv, CountOK, Done, Waiting, StderrPipe
<1> QED BY <1>11, <1>12, <1>13, <1>14, <1>15 DEF ExecIInv

(* The end of a stream is the end of a pipe that nobody writes to any      *)
(* more, or a standard stream.                                             *)
LEMMA ReadEofKeeps ==
  ASSUME ExecIInv, NEW stream \in {"out", "err"}, ReadEof(stream)
  PROVE  ExecIInv'
<1>1. /\ UNCHANGED <<program, stderr_pipe, fds, received, child, childFds, todo, held>>
      /\ parent = stream
      /\ stream = "out" => parent' = "err" /\ length' = [out |-> 0, err |-> BufSize]
      /\ stream = "err" => parent' = "returned" /\ length' = [length EXCEPT !.err = 0]
  BY DEF ReadEof, ParentAt, input, childVars, ActualBufLen
<1>2. fds = Remaining /\ childFds = NoneOpen /\ stderr_pipe \in Descriptor \X Descriptor
  BY <1>1, OrderDead DEF ExecIInv, TablesOK, InputOK
<1>3. length' \in [out : {0, BufSize}, err : {0, BufSize}]
  BY <1>1 DEF ExecIInv, CountOK
<1>4. \/ \E p \in Pipe : ReadsFrom(stream) = ReadEnd(p) /\ held[p] = 0 /\ ~Writers(p)
      \/ \E n \in 0..2 : ReadsFrom(stream) = Standard(n)
  BY DEF ReadEof
<1>5. CASE stream = "out"
  <2>1. stderr_pipe[2] # 7 /\ held["stdout"] = 0
    BY <1>2, <1>4, <1>5, Remains, EndsDiffer DEF ReadsFrom
  <2> QED BY <1>1, <1>3, <1>5, <2>1, EndStep
<1>6. CASE stream = "err"
  <2>1. fds[stderr_pipe[1]] # Closed /\ \A p \in Pipe : fds[stderr_pipe[1]] # WriteEnd(p)
    BY <1>4, <1>6, EndsDiffer DEF ReadsFrom
  <2>2. stderr_pipe[1] = 3 => stderr_pipe[2] = 4
    <3> SUFFICES ASSUME stderr_pipe[1] = 3, stderr_pipe[2] # 4 PROVE FALSE
      OBVIOUS
    <3>1. stderr_pipe[2] # 3
      BY <1>2, <2>1, Remains
    <3>2. fds[3] = ReadEnd("unused") /\ fds[4] = WriteEnd("unused")
      BY <1>2, <3>1, Remains
    <3>3. Writers("unused")
      BY <3>2 DEF Writers, Descriptor
    <3> QED BY <1>4, <1>6, <3>2, <3>3, EndsDiffer DEF ReadsFrom
  <2>3. /\ stderr_pipe[1] \in {0, 1, 2, 7} \/ stderr_pipe = <<3, 4>>
        /\ stderr_pipe[1] # stderr_pipe[2]
    <3>1. stderr_pipe[1] \in {0, 1, 2, 3, 7} /\ stderr_pipe[1] # stderr_pipe[2]
      BY <1>2, <2>1, Remains, TenDescriptors
    <3>2. stderr_pipe = <<stderr_pipe[1], stderr_pipe[2]>>
      BY <1>2
    <3> QED BY <2>2, <3>1, <3>2
  <2> QED BY <1>1, <1>3, <1>6, <2>3, EndStep
<1> QED BY <1>5, <1>6

(* A read that fails.                                                      *)
LEMMA ReadFailsKeeps ==
  ASSUME ExecIInv, ReadFails("out") \/ ReadFails("err")
  PROVE  ExecIInv'
BY OrderDead, PanicKeeps DEF ReadFails, ParentAt

-----------------------------------------------------------------------------
(* The child.                                                              *)

(* A step that leaves the parent, what is to be written and, unless the    *)
(* child has failed, the pipes.                                            *)
LEMMA ChildMoves ==
  ASSUME ExecIInv, UNCHANGED <<input, parentVars, todo>>,
         parent \in {"close", "wait"}, child # "failed",
         \/ child' = "running" /\ childFds' = Duplicated /\ held' = held
         \/ child' = "dead" /\ childFds' = NoneOpen /\ held' = held /\ todo = <<0, 0>>
         \/ child' = "failed" /\ childFds' = NoneOpen /\ held' \in [Pipe -> 0..PipeSize]
  PROVE  ExecIInv'
<1>1. UNCHANGED <<program, stderr_pipe, parent, fds, received, length, todo>>
  BY DEF input, parentVars
<1>2. InputOK' /\ OrderOK' /\ EndOK'
  BY <1>1 DEF ExecIInv, InputOK, OrderOK, EndOK
<1>3. ExecTypeOK'
  BY <1>1, AllOpen DEF ExecIInv, ExecTypeOK, InputOK
<1>4. TablesOK'
  BY <1>1 DEF ExecIInv, TablesOK, Opened, Remaining, ToClose, NoneOpen, Duplicated, ChildsErr
<1>5. CountOK'
  BY <1>1 DEF ExecIInv, CountOK, Done, Waiting, StderrPipe
<1> QED BY <1>2, <1>3, <1>4, <1>5 DEF ExecIInv

(* While the child lives the parent has not come past its wait.            *)
LEMMA ChildLives ==
  ASSUME ExecIInv, child \in {"forked", "running"}
  PROVE  parent \in {"close", "wait"}
BY DEF ExecIInv, OrderOK

(* exec keeps the invariant.                                               *)
LEMMA ExecKeeps ==
  ASSUME ExecIInv, Exec
  PROVE  ExecIInv'
<1>1. child = "forked" /\ childFds = Opened /\ stderr_pipe \in Descriptor \X Descriptor
  BY DEF Exec, ExecIInv, TablesOK, InputOK
<1>2. held \in [Pipe -> 0..PipeSize]
  BY DEF ExecIInv, ExecTypeOK, CountOK
<1>3. Complains => held' \in [Pipe -> 0..PipeSize]
  BY <1>2, ExecAssumption DEF Complains
<1>4. \/ child' = "running" /\ childFds' = Duplicated /\ held' = held
      \/ child' = "failed" /\ childFds' = NoneOpen /\ held' \in [Pipe -> 0..PipeSize]
  BY <1>1, <1>3, EndsDuplicated DEF Exec, Dies, NoneOpen
<1> QED BY <1>1, <1>4, ChildLives, ChildMoves DEF Exec

(* The end of the child keeps the invariant.                               *)
LEMMA ExitKeeps ==
  ASSUME ExecIInv, Exit
  PROVE  ExecIInv'
BY ChildLives, ChildMoves DEF Exit, Dies, NoneOpen

(* The running child's streams: a pipe for each that it has one for.       *)
LEMMA RunningEnds ==
  ASSUME ExecIInv, child = "running"
  PROVE  /\ childFds[0] = ReadEnd("stdin") /\ childFds[6] = WriteEnd("stdin")
         /\ \A p \in Pipe : childFds[1] = WriteEnd(p) <=> p = "stdout"
         /\ \A p \in Pipe : childFds[2] = WriteEnd(p) <=> p \in StderrPipe
<1>1. childFds = Duplicated /\ stderr_pipe \in Descriptor \X Descriptor
  BY DEF ExecIInv, TablesOK, InputOK
<1>2. /\ Duplicated[0] = ReadEnd("stdin") /\ Duplicated[1] = WriteEnd("stdout")
      /\ Duplicated[2] = ChildsErr /\ Duplicated[6] = WriteEnd("stdin")
  BY OpenedEnds DEF Duplicated, Descriptor
<1> QED BY <1>1, <1>2, ErrorsGo, EndsDiffer

(* What is written leaves the program and is counted in its pipe.          *)
LEMMA WriteSomeKeeps ==
  ASSUME ExecIInv, NEW d \in {1, 2}, WriteSome(d)
  PROVE  ExecIInv'
<1>1. /\ UNCHANGED <<program, stderr_pipe, parent, fds, received, length, child, childFds>>
      /\ child = "running"
  BY DEF WriteSome, input, parentVars
<1>2. parent \in {"close", "wait"}
  BY <1>1, ChildLives
<1>3. PICK n \in 1..todo[d] :
        /\ todo' = [todo EXCEPT ![d] = @ - n]
        /\ \/ /\ \A p \in Pipe : childFds[d] # WriteEnd(p)
              /\ UNCHANGED held
           \/ \E p \in Pipe :
                /\ childFds[d] = WriteEnd(p)
                /\ held[p] + n <= PipeSize
                /\ held' = [held EXCEPT ![p] = @ + n]
  BY DEF WriteSome
<1>4. todo \in Nat \X Nat /\ held \in [Pipe -> Nat]
  BY DEF ExecIInv, CountOK
<1>5. n \in Nat /\ n <= todo[d] /\ todo[1] \in Nat /\ todo[2] \in Nat
  BY <1>3, <1>4
<1>6. /\ todo' \in Nat \X Nat
      /\ d = 1 => todo'[1] = todo[1] - n /\ todo'[2] = todo[2]
      /\ d = 2 => todo'[1] = todo[1] /\ todo'[2] = todo[2] - n
  <2>1. todo = <<todo[1], todo[2]>>
    BY <1>4
  <2>2. CASE d = 1
    <3>1. todo' = <<todo[1] - n, todo[2]>>
      BY <1>3, <2>1, <2>2
    <3> QED BY <3>1, <1>5, <2>2
  <2>3. CASE d = 2
    <3>1. todo' = <<todo[1], todo[2] - n>>
      BY <1>3, <2>1, <2>3
    <3> QED BY <3>1, <1>5, <2>3
  <2> QED BY <2>2, <2>3
<1> DEFINE Into(p) == childFds[d] = WriteEnd(p)
<1>7. \A p \in Pipe : Into(p) <=> p \in (IF d = 1 THEN {"stdout"} ELSE StderrPipe)
  BY <1>1, RunningEnds
<1>8. /\ held' \in [Pipe -> Nat]
      /\ \A p \in Pipe : held'[p] = IF Into(p) THEN held[p] + n ELSE held[p]
      /\ \A p \in Pipe : Into(p) => held[p] + n <= PipeSize
  BY <1>3, <1>4, <1>5, EndsDiffer
<1>9. program.out \in Nat /\ program.err \in Nat
  BY DEF ExecIInv, InputOK, ChildProgram
<1>10. \A p \in Pipe : Done(p)' = IF Into(p) THEN Done(p) + n ELSE Done(p)
  <2> SUFFICES ASSUME NEW p \in Pipe
               PROVE  Done(p)' = IF Into(p) THEN Done(p) + n ELSE Done(p)
    OBVIOUS
  <2>1. StderrPipe' = StderrPipe
    BY <1>1 DEF StderrPipe
  <2>2. CASE d = 1
    BY <1>1, <1>5, <1>6, <1>7, <1>9, <2>1, <2>2 DEF Done
  <2>3. CASE d = 2
    BY <1>1, <1>5, <1>6, <1>7, <1>9, <2>1, <2>3 DEF Done
  <2> QED BY <2>2, <2>3
<1>11. InputOK' /\ OrderOK' /\ EndOK'
  BY <1>1, <1>2 DEF ExecIInv, InputOK, OrderOK, EndOK
<1>12. ExecTypeOK'
  <2>1. \A p \in Pipe : held'[p] \in 0..PipeSize
    BY <1>3, <1>5, <1>8, ExecAssumption DEF ExecIInv, ExecTypeOK, CountOK
  <2> QED BY <1>1, <2>1 DEF ExecIInv, ExecTypeOK
<1>13. TablesOK'
  BY <1>1, <1>2 DEF ExecIInv, TablesOK, Remaining, ToClose, NoneOpen, Opened, Duplicated, ChildsErr
<1>14. CountOK'
  <2>1. \A p \in Pipe : held'[p] = Done(p)'
    BY <1>1, <1>2, <1>8, <1>10 DEF ExecIInv, CountOK, Waiting
  <2>2. held'["stdout"] + received'.out = Done("stdout")'
    <3>1. "stdout" \in Pipe /\ held["stdout"] \in Nat /\ received.out \in Nat
      BY DEF ExecIInv, CountOK, Pipe
    <3>2. held["stdout"] = Done("stdout") /\ held["stdout"] + received.out = Done("stdout")
      BY <1>1, <1>2, <3>1 DEF ExecIInv, CountOK, Waiting
    <3>3. received.out = 0
      BY <3>1, <3>2
    <3> QED BY <1>1, <2>1, <3>1, <3>3, <1>8
  <2> QED BY <1>1, <1>6, <1>8, <2>1, <2>2 DEF ExecIInv, CountOK
<1> QED BY <1>11, <1>12, <1>13, <1>14 DEF ExecIInv

-----------------------------------------------------------------------------
(* Theorems.                                                               *)

(* Every step of either process keeps the invariant.                       *)
LEMMA ExecStepKeeps ==
  ASSUME ExecIInv, [ExecNext]_execVars
  PROVE  ExecIInv'
<1>1. CASE Parent
  BY <1>1, MakePipesKeeps, ForkKeeps, CloseKeeps, WaitKeeps, ReadDataKeeps, ReadEofKeeps,
     ReadFailsKeeps DEF Parent
<1>2. CASE Child
  BY <1>2, ExecKeeps, WriteSomeKeeps, ExitKeeps DEF Child
<1>3. CASE UNCHANGED execVars
  <2>1. UNCHANGED <<program, stderr_pipe, parent, fds, received, length, child, childFds,
                    todo, held>>
    BY <1>3 DEF execVars, input, parentVars, childVars
  <2>2. InputOK' /\ OrderOK' /\ EndOK'
    BY <2>1 DEF ExecIInv, InputOK, OrderOK, EndOK
  <2>3. ExecTypeOK'
    BY <2>1 DEF ExecIInv, ExecTypeOK
  <2>4. TablesOK'
    BY <2>1 DEF ExecIInv, TablesOK, Fresh, Remaining, ToClose, NoneOpen, Opened, Duplicated, ChildsErr
  <2>5. CountOK'
    BY <2>1 DEF ExecIInv, CountOK, Done, Waiting, StderrPipe
  <2> QED BY <2>2, <2>3, <2>4, <2>5 DEF ExecIInv
<1> QED BY <1>1, <1>2, <1>3 DEF ExecNext

(* The invariant of parent and child.                                      *)
THEOREM ExecInvariantHolds == ExecSpec => []ExecIInv
<1>1. ExecInit => ExecIInv
  BY ExecStarts
<1>2. ExecIInv /\ [ExecNext]_execVars => ExecIInv'
  BY ExecStepKeeps
<1> QED BY <1>1, <1>2, PTL DEF ExecSpec

(* os_exec_process returns only if the numbers in stderr_pipe happen to    *)
(* suit it, and then with two empty buffers, having read all that the      *)
(* program wrote to its standard output (os.cpp:39-50, 84-92).             *)
THEOREM ReturnIsInVain == ExecSpec => []ReturnsInVain
<1>1. ExecIInv => ReturnsInVain
  <2> SUFFICES ASSUME ExecIInv PROVE ReturnsInVain
    OBVIOUS
  <2>1. ParentAt("returned") => length = [out |-> 0, err |-> 0]
    <3>1. length \in [out : {0, BufSize}, err : {0, BufSize}]
      BY DEF ExecIInv, CountOK
    <3>2. length = [out |-> length.out, err |-> length.err]
      BY <3>1
    <3> QED BY <3>2 DEF ExecIInv, EndOK, ParentAt
  <2>2. ParentAt("returned") /\ child = "dead" => received.out = Written("stdout")
    <3> SUFFICES ASSUME ParentAt("returned"), child = "dead"
                 PROVE  received.out = Written("stdout")
      OBVIOUS
    <3>1. held["stdout"] = 0 /\ received.out \in Nat /\ todo[1] = 0 /\ todo[2] = 0
      BY DEF ExecIInv, EndOK, CountOK, ParentAt
    <3>2. received.out = Done("stdout")
      BY <3>1 DEF ExecIInv, CountOK
    <3>3. program.out \in Nat /\ program.err \in Nat
      BY DEF ExecIInv, InputOK, ChildProgram
    <3> QED BY <3>1, <3>2, <3>3 DEF Done, Written
  <2>3. ReturnsByChance
    BY DEF ExecIInv, EndOK, ReturnsByChance, ParentAt
  <2> QED BY <2>1, <2>2, <2>3 DEF ReturnsInVain, OutputIsLost, ExecIInv
<1> QED BY <1>1, ExecInvariantHolds, PTL

(* The running child keeps the write end of its own input.                 *)
LEMMA InputNeverEnds ==
  ASSUME ExecIInv, child = "running"
  PROVE  ~SeesEof
<1>1. childFds[0] = ReadEnd("stdin") /\ childFds[6] = WriteEnd("stdin")
  BY RunningEnds
<1>2. Writers("stdin") /\ "stdin" \in Pipe
  BY <1>1 DEF Writers, Descriptor, Pipe
<1> QED BY <1>1, <1>2 DEF SeesEof

(* A child with more output than the pipes hold, or that reads its input   *)
(* to the end, runs for ever, and its parent waits for it for ever: the    *)
(* pipes are read only behind waitpid (os.cpp:117-121).                    *)
THEOREM WaitIsForEver == ExecSpec => WaitsForEver
<1>1. ExecIInv /\ [ExecNext]_execVars =>
        [(child = "running" /\ ~CanEnd) => (child' = "running" /\ parent' \in {"close", "wait"})]_execVars
  <2> SUFFICES ASSUME ExecIInv, ExecNext, child = "running", ~CanEnd
               PROVE  child' = "running" /\ parent' \in {"close", "wait"}
    OBVIOUS
  <2>1. parent \in {"close", "wait"}
    BY ChildLives
  <2>2. CASE Parent
    BY <2>1, <2>2 DEF Parent, MakePipes, Fork, CloseEnds, Wait, ReadData, ReadEof, ReadFails,
                      ParentAt, ChildEnded, childVars
  <2>3. CASE Child
    <3>1. CASE Exec
      BY <3>1 DEF Exec
    <3>2. ASSUME NEW d \in {1, 2}, WriteSome(d) PROVE child' = child /\ parent' = parent
      BY <3>2 DEF WriteSome, parentVars
    <3>3. ~Exit
      <4> SUFFICES ASSUME Exit PROVE FALSE
        OBVIOUS
      <4>1. ~program.reads
        BY InputNeverEnds DEF Exit
      <4>2. todo[1] = 0 /\ todo[2] = 0
        BY DEF Exit
      <4>3. program.out \in Nat /\ program.err \in Nat
        BY DEF ExecIInv, InputOK, ChildProgram
      <4>4. \A p \in Pipe : Written(p) = Done(p)
        BY <4>2, <4>3 DEF Written, Done
      <4>5. \A p \in Pipe : Written(p) = held[p] /\ held[p] \in 0..PipeSize
        BY <2>1, <4>4 DEF ExecIInv, CountOK, ExecTypeOK, Waiting
      <4>6. \A p \in Pipe : Written(p) <= PipeSize
        BY <4>5, ExecAssumption
      <4> QED BY <4>1, <4>6 DEF CanEnd
    <3> QED BY <2>1, <2>3, <3>1, <3>2, <3>3 DEF Child
  <2> QED BY <2>2, <2>3 DEF ExecNext
<1> QED BY <1>1, ExecInvariantHolds, PTL DEF ExecSpec, WaitsForEver
=============================================================================
