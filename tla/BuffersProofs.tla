---------------------------- MODULE BuffersProofs ----------------------------
(***************************************************************************)
(* Proofs that every buffer keeps its terminator inside its memory, that   *)
(* equal buffers hash equal, that behind capacities and terminators there  *)
(* are texts and stacks, and where those who read them see something else, *)
(* for every size of the ints, of the first capacity and of the texts, and *)
(* for any number of buffers and calls.                                    *)
(***************************************************************************)
EXTENDS Buffers, WellFoundedInduction, SequenceTheorems, TLAPS

(* Buffers in use.                                                         *)
Terminable == {l \in Memory : l.length # 0 /\ l.items[l.length] = Nul}

IInv == TypeOK /\ TerminatorInPlace

-----------------------------------------------------------------------------
(* Doubling.                                                               *)

(* Numbers have a least one.                                               *)
LEMMA LeastNumber ==
  ASSUME NEW T, T \subseteq Nat, T # {}
  PROVE  \E x \in T : \A y \in T : x <= y
<1> DEFINE R == OpToRel(<, Nat)
<1>1. IsWellFoundedOn(R, Nat)
  BY NatLessThanWellFounded
<1>2. \A x, y \in Nat : y < x => <<y, x>> \in R
  BY DEF OpToRel
<1> HIDE DEF R
<1>3. PICK x \in T : \A y \in T : <<y, x>> \notin R
  BY <1>1, WFMin
<1>4. \A y \in T : x <= y
  <2> TAKE y \in T
  <2>1. x \in Nat /\ y \in Nat /\ ~(y < x)
    BY <1>2, <1>3
  <2> QED BY <2>1
<1> QED BY <1>4

(* A set that has 0 and the successor of each of its numbers has them all. *)
LEMMA FromZero ==
  ASSUME NEW S, 0 \in S, \A n \in Nat : n \in S => n + 1 \in S
  PROVE  Nat \subseteq S
<1> DEFINE T == Nat \ S
<1> SUFFICES ASSUME T # {} PROVE FALSE
  OBVIOUS
<1>1. PICK x \in T : \A y \in T : x <= y
  <2>1. T \subseteq Nat
    OBVIOUS
  <2> HIDE DEF T
  <2> QED BY <2>1, LeastNumber
<1>2. x \in Nat /\ x # 0 /\ x - 1 \in Nat /\ x - 1 < x /\ x = (x - 1) + 1
  OBVIOUS
<1>3. x - 1 \notin T
  BY <1>1, <1>2
<1> QED BY <1>2, <1>3

(* There is a function that doubles, as far as wanted.                     *)
LEMMA DoublingExists ==
  ASSUME NEW m \in Nat
  PROVE  \E f \in [0..m -> Nat] : f[0] = 1 /\ \A k \in 1..m : f[k] = 2 * f[k - 1]
<1> DEFINE Doubles(n, f) == f[0] = 1 /\ \A k \in 1..n : f[k] = 2 * f[k - 1]
           S == {n \in Nat : \E f \in [0..n -> Nat] : Doubles(n, f)}
<1>1. 0 \in S
  <2> DEFINE f == [k \in 0..0 |-> 1]
  <2>1. f \in [0..0 -> Nat] /\ f[0] = 1 /\ 1..0 = {}
    OBVIOUS
  <2> HIDE DEF f
  <2> QED BY <2>1
<1>2. ASSUME NEW n \in Nat, n \in S
      PROVE  n + 1 \in S
  <2>1. PICK f \in [0..n -> Nat] : Doubles(n, f)
    BY <1>2
  <2> DEFINE e == [k \in 0..n + 1 |-> IF k = n + 1 THEN 2 * f[n] ELSE f[k]]
  <2>2. e \in [0..n + 1 -> Nat]
    <3>1. \A k \in 0..n + 1 : k # n + 1 => k \in 0..n
      OBVIOUS
    <3>2. 2 * f[n] \in Nat
      OBVIOUS
    <3> QED BY <3>1, <3>2
  <2>3. ASSUME NEW k \in 1..n + 1
        PROVE  e[k] = 2 * e[k - 1]
    <3>1. CASE k = n + 1
      <4>1. k - 1 = n /\ n \in 0..n + 1 /\ n # n + 1 /\ n + 1 \in 0..n + 1
        BY <3>1
      <4>2. e[n + 1] = 2 * f[n] /\ e[n] = f[n]
        BY <4>1
      <4> QED BY <3>1, <4>1, <4>2
    <3>2. CASE k # n + 1
      <4>1. k \in 1..n /\ k \in 0..n + 1 /\ k - 1 \in 0..n + 1 /\ k - 1 # n + 1
        BY <3>2
      <4>2. e[k] = f[k] /\ e[k - 1] = f[k - 1]
        BY <3>2, <4>1
      <4> QED BY <2>1, <4>1, <4>2
    <3> QED BY <3>1, <3>2
  <2>4. e[0] = 1
    BY <2>1
  <2> HIDE DEF e
  <2>5. Doubles(n + 1, e)
    BY <2>3, <2>4
  <2> HIDE DEF Doubles
  <2> QED BY <2>2, <2>5
<1>3. Nat \subseteq S
  <2> HIDE DEF S
  <2> QED BY <1>1, <1>2, FromZero
<1> QED BY <1>3

(* What Doubled is.                                                        *)
LEMMA DoubledIs ==
  /\ Doubled \in [0..MaxInt -> Nat]
  /\ Doubled[0] = 1
  /\ \A k \in 1..MaxInt : Doubled[k] = 2 * Doubled[k - 1]
<1> DEFINE Is(f) == f = [k \in 0..MaxInt |-> IF k = 0 THEN 1 ELSE 2 * f[k - 1]]
<1>1. MaxInt \in Nat
  BY SizesAssumption
<1>2. PICK f \in [0..MaxInt -> Nat] : f[0] = 1 /\ \A k \in 1..MaxInt : f[k] = 2 * f[k - 1]
  BY <1>1, DoublingExists
<1>3. Is(f)
  <2>1. \A k \in 0..MaxInt : f[k] = IF k = 0 THEN 1 ELSE 2 * f[k - 1]
    BY <1>1, <1>2
  <2> QED BY <2>1
<1>4. Doubled = CHOOSE f1 : Is(f1)
  BY DEF Doubled
<1> HIDE DEF Is
<1>5. Is(Doubled)
  BY <1>3, <1>4
<1>6. \A k \in 0..MaxInt : Doubled[k] = IF k = 0 THEN 1 ELSE 2 * Doubled[k - 1]
  BY <1>5 DEF Is
<1> DEFINE S == {n \in Nat : n \in 0..MaxInt => Doubled[n] \in Nat}
<1>7. Doubled[0] = 1 /\ \A k \in 1..MaxInt : k \in 0..MaxInt /\ Doubled[k] = 2 * Doubled[k - 1]
  BY <1>1, <1>6
<1>8. 0 \in S
  BY <1>7
<1>9. ASSUME NEW n \in Nat, n \in S PROVE n + 1 \in S
  <2> SUFFICES ASSUME n + 1 \in 0..MaxInt PROVE Doubled[n + 1] \in Nat
    OBVIOUS
  <2>1. n \in 0..MaxInt /\ n + 1 \in 1..MaxInt /\ (n + 1) - 1 = n
    BY <1>1
  <2>2. Doubled[n] \in Nat /\ Doubled[n + 1] = 2 * Doubled[n]
    BY <1>7, <1>9, <2>1
  <2> QED BY <2>2
<1>10. Nat \subseteq S
  <2> HIDE DEF S
  <2> QED BY <1>8, <1>9, FromZero
<1>11. \A n \in 0..MaxInt : Doubled[n] \in Nat
  BY <1>1, <1>10
<1>12. Doubled = [k \in 0..MaxInt |-> Doubled[k]]
  <2>1. \E g : Doubled = [k \in 0..MaxInt |-> g[k]]
    <3> DEFINE g == [k \in 0..MaxInt |-> IF k = 0 THEN 1 ELSE 2 * Doubled[k - 1]]
    <3>1. Doubled = g /\ g = [k \in 0..MaxInt |-> g[k]]
      BY <1>5 DEF Is
    <3> QED BY <3>1
  <2> QED BY <2>1
<1> QED BY <1>7, <1>11, <1>12

(* Doubling k times more than doubles the number of doublings.             *)
LEMMA DoubledGrows ==
  ASSUME NEW k \in 0..MaxInt
  PROVE  Doubled[k] \in Nat /\ Doubled[k] >= k + 1
<1> DEFINE S == {n \in Nat : n \in 0..MaxInt => Doubled[n] \in Nat /\ Doubled[n] >= n + 1}
<1>1. MaxInt \in Nat
  BY SizesAssumption
<1>2. 0 \in S
  BY DoubledIs
<1>3. ASSUME NEW n \in Nat, n \in S PROVE n + 1 \in S
  <2> SUFFICES ASSUME n + 1 \in 0..MaxInt
               PROVE  Doubled[n + 1] \in Nat /\ Doubled[n + 1] >= (n + 1) + 1
    OBVIOUS
  <2>1. n \in 0..MaxInt /\ n + 1 \in 1..MaxInt /\ (n + 1) - 1 = n
    BY <1>1
  <2>2. Doubled[n] \in Nat /\ Doubled[n] >= n + 1 /\ Doubled[n + 1] = 2 * Doubled[n]
    BY <1>3, <2>1, DoubledIs
  <2> QED BY <2>2
<1>4. Nat \subseteq S
  <2> HIDE DEF S
  <2> QED BY <1>2, <1>3, FromZero
<1> QED BY <1>1, <1>4

(* Doubling a factor doubles the product.                                  *)
LEMMA Regroup == \A x, y \in Int : x * (2 * y) = 2 * (x * y)
OBVIOUS

(* Doubling i times and then k times.                                      *)
LEMMA DoubledSum ==
  ASSUME NEW i \in Nat, NEW k \in Nat, i + k <= MaxInt
  PROVE  Doubled[i + k] = Doubled[i] * Doubled[k]
<1> DEFINE S == {n \in Nat : i + n <= MaxInt => Doubled[i + n] = Doubled[i] * Doubled[n]}
<1>1. MaxInt \in Nat
  BY SizesAssumption
<1>2. 0 \in S
  <2>1. i \in 0..MaxInt
    BY <1>1
  <2>2. Doubled[i] \in Nat /\ Doubled[0] = 1
    BY <2>1, DoubledIs
  <2>3. Doubled[i] * 1 = Doubled[i] /\ i + 0 = i
    BY <2>2
  <2> QED BY <2>2, <2>3
<1>3. ASSUME NEW n \in Nat, n \in S PROVE n + 1 \in S
  <2> SUFFICES ASSUME i + (n + 1) <= MaxInt
               PROVE  Doubled[i + (n + 1)] = Doubled[i] * Doubled[n + 1]
    OBVIOUS
  <2> DEFINE x == Doubled[i]
             y == Doubled[n]
  <2>1. /\ i \in 0..MaxInt /\ n \in 0..MaxInt /\ n + 1 \in 1..MaxInt /\ (n + 1) - 1 = n
        /\ i + (n + 1) \in 1..MaxInt /\ (i + (n + 1)) - 1 = i + n /\ i + n <= MaxInt
    BY <1>1
  <2>2. x \in Int /\ y \in Int /\ Doubled[n + 1] = 2 * y
    <3>1. x \in Nat /\ y \in Nat
      BY <2>1, DoubledGrows
    <3>2. Doubled[n + 1] = 2 * y
      BY <2>1, DoubledIs
    <3> HIDE DEF x, y
    <3> QED BY <3>1, <3>2
  <2>3. Doubled[i + n] = x * y
    BY <1>3, <2>1
  <2>4. Doubled[i + (n + 1)] = 2 * Doubled[i + n]
    BY <2>1, DoubledIs
  <2> HIDE DEF x, y
  <2>5. x * (2 * y) = 2 * (x * y)
    BY <2>2, Regroup
  <2>6. Doubled[i + (n + 1)] = x * Doubled[n + 1]
    BY <2>2, <2>3, <2>4, <2>5
  <2> QED BY <2>6 DEF x
<1>4. Nat \subseteq S
  <2> HIDE DEF S
  <2> QED BY <1>2, <1>3, FromZero
<1> QED BY <1>4

(* A product bounds the sum of what its factors are beyond.                *)
LEMMA Products ==
  ASSUME NEW a \in Nat, NEW i \in Nat, NEW k \in Nat, NEW x \in Nat, NEW y \in Nat, NEW m \in Nat,
         a # 0, x >= i + 1, y >= k + 1, (a * x) * y <= m
  PROVE  i + k <= m
<1>1. x * y <= (a * x) * y
  <2>1. x * y \in Nat /\ (a * x) * y = a * (x * y)
    OBVIOUS
  <2>2. \A p \in Nat : p <= a * p
    OBVIOUS
  <2> QED BY <2>1, <2>2
<1>2. (i + 1) * (k + 1) <= x * y
  OBVIOUS
<1>3. i + k <= (i + 1) * (k + 1)
  OBVIOUS
<1>4. x * y \in Nat /\ (a * x) * y \in Nat /\ (i + 1) * (k + 1) \in Nat
  OBVIOUS
<1> QED BY <1>1, <1>2, <1>3, <1>4

(* What doubling a capacity gives is a capacity.                           *)
LEMMA DoublingsOfDoublings ==
  ASSUME NEW a \in Nat \ {0}, NEW c \in Doublings(a), NEW d \in Doublings(c)
  PROVE  d \in Doublings(a)
<1>1. MaxInt \in Nat
  BY SizesAssumption
<1>2. PICK i \in 0..MaxInt : c = a * Doubled[i]
  BY DEF Doublings
<1>3. PICK k \in 0..MaxInt : d = c * Doubled[k]
  BY DEF Doublings
<1> DEFINE x == Doubled[i]
           y == Doubled[k]
<1>4. x \in Nat /\ x >= i + 1 /\ y \in Nat /\ y >= k + 1
  BY DoubledGrows
<1>5. c \in Nat /\ a <= c /\ d \in Nat /\ c <= d /\ d <= MaxInt
  BY <1>1 DEF Doublings
<1> HIDE DEF x, y
<1>6. d = (a * x) * y
  BY <1>2, <1>3 DEF x, y
<1>7. i + k <= MaxInt
  BY <1>1, <1>4, <1>5, <1>6, Products
<1>8. i + k \in 0..MaxInt /\ Doubled[i + k] = x * y
  BY <1>1, <1>7, DoubledSum DEF x, y
<1>9. d = a * Doubled[i + k]
  <2>1. (a * x) * y = a * (x * y)
    BY <1>4
  <2> QED BY <1>6, <1>8, <2>1
<1> QED BY <1>1, <1>5, <1>8, <1>9 DEF Doublings

(* A capacity is a doubling of every smaller one.                          *)
LEMMA DoublingsAbove ==
  ASSUME NEW a \in Nat \ {0}, NEW c \in Doublings(a), NEW d \in Doublings(a), c <= d
  PROVE  d \in Doublings(c)
<1>1. MaxInt \in Nat
  BY SizesAssumption
<1>2. PICK i \in 0..MaxInt : c = a * Doubled[i]
  BY DEF Doublings
<1>3. PICK k \in 0..MaxInt : d = a * Doubled[k]
  BY DEF Doublings
<1>4. c \in Nat /\ d \in Nat /\ c # 0 /\ d <= MaxInt /\ c <= MaxInt
  BY <1>1 DEF Doublings
<1>5. CASE i <= k
  <2> DEFINE x == Doubled[i]
             n == k - i
             y == Doubled[n]
  <2>1. n \in 0..MaxInt /\ i + n = k /\ i \in Nat /\ n \in Nat /\ i + n <= MaxInt
    BY <1>1, <1>5
  <2>2. Doubled[k] = x * y
    <3> HIDE DEF n
    <3> QED BY <2>1, DoubledSum
  <2>3. x \in Nat /\ y \in Nat
    BY <2>1, DoubledGrows
  <2> HIDE DEF x, y
  <2>4. a * (x * y) = (a * x) * y
    BY <2>3
  <2>5. d = c * y
    BY <1>2, <1>3, <2>2, <2>4 DEF x
  <2> QED BY <1>1, <1>4, <2>1, <2>5 DEF Doublings, y
<1>6. CASE ~(i <= k)
  <2> DEFINE x == Doubled[k]
             n == i - k
             y == Doubled[n]
  <2>1. n \in 0..MaxInt /\ k + n = i /\ k \in Nat /\ n \in Nat /\ k + n <= MaxInt /\ n >= 1
    BY <1>1, <1>6
  <2>2. Doubled[i] = x * y
    <3> HIDE DEF n
    <3> QED BY <2>1, DoubledSum
  <2>3. x \in Nat /\ y \in Nat /\ x >= k + 1 /\ y >= n + 1 /\ y >= 2
    <3>1. x \in Nat /\ y \in Nat /\ x >= k + 1 /\ y >= n + 1
      BY <2>1, DoubledGrows
    <3> HIDE DEF x, y, n
    <3> QED BY <2>1, <3>1
  <2> HIDE DEF x, y, n
  <2>4. a * (x * y) = (a * x) * y /\ a * x \in Nat
    BY <2>3
  <2>5. c = d * y
    BY <1>2, <1>3, <2>2, <2>4 DEF x
  <2>6. d * y >= 2 * d
    BY <1>4, <2>3
  <2>7. d = 0
    BY <1>4, <2>5, <2>6
  <2> QED BY <1>4, <2>5, <2>7, <2>3
<1> QED BY <1>5, <1>6

(* Memory that grows has a capacity that memory may have.                  *)
LEMMA CapacitiesAre ==
  ASSUME NEW l, Capacity(l) \in {0} \cup Doublings(MinCapacity)
  PROVE  /\ Least(l) \in Doublings(MinCapacity)
         /\ Capacities(l) \subseteq Doublings(MinCapacity)
<1>1. MinCapacity \in Nat \ {0} /\ MaxInt \in Nat /\ MinCapacity <= MaxInt
  BY SizesAssumption
<1>2. MinCapacity \in Doublings(MinCapacity)
  <2>1. 0 \in 0..MaxInt /\ MinCapacity = MinCapacity * Doubled[0]
    BY <1>1, DoubledIs
  <2> QED BY <1>1, <2>1 DEF Doublings
<1>3. Least(l) \in Doublings(MinCapacity)
  BY <1>1, <1>2 DEF Least
<1> DEFINE a == MinCapacity
           c == Least(l)
<1> HIDE DEF a, c
<1>4. \A d \in Doublings(c) : d \in Doublings(a)
  BY <1>1, <1>3, DoublingsOfDoublings DEF a, c
<1> QED BY <1>3, <1>4 DEF Capacities, a, c

(* A list can be grown to n if any capacity is large enough for n.         *)
LEMMA CanHoldIff ==
  ASSUME NEW l, Capacity(l) \in {0} \cup Doublings(MinCapacity), NEW n \in Nat
  PROVE  CanHold(l, n) <=> \E c \in Doublings(MinCapacity) : n <= c
<1>1. MinCapacity \in Nat \ {0} /\ MaxInt \in Nat /\ MinCapacity <= MaxInt
  BY SizesAssumption
<1>2. /\ Least(l) \in Doublings(MinCapacity)
      /\ Capacities(l) \subseteq Doublings(MinCapacity)
  BY CapacitiesAre
<1>3. ASSUME CanHold(l, n) PROVE \E c \in Doublings(MinCapacity) : n <= c
  BY <1>2, <1>3 DEF CanHold, Smallest, Enough
<1>4. ASSUME NEW p \in Doublings(MinCapacity), n <= p PROVE CanHold(l, n)
  <2>1. p \in Nat /\ p <= MaxInt /\ Least(l) \in Nat /\ Least(l) <= MaxInt
    BY <1>1, <1>2 DEF Doublings
  <2>2. Enough(l, n) # {}
    <3>1. CASE Least(l) <= p
      <4> DEFINE a == MinCapacity
                 c == Least(l)
      <4> HIDE DEF a, c
      <4>1. p \in Doublings(c)
        BY <1>1, <1>2, <1>4, <3>1, DoublingsAbove DEF a, c
      <4> QED BY <1>4, <4>1 DEF Enough, Capacities, c
    <3>2. CASE ~(Least(l) <= p)
      <4>1. 0 \in 0..MaxInt /\ Least(l) = Least(l) * Doubled[0] /\ Least(l) \in Least(l)..MaxInt
        <5>1. Doubled[0] = 1 /\ Least(l) * 1 = Least(l)
          BY <2>1, DoubledIs
        <5> QED BY <1>1, <2>1, <5>1
      <4>2. Least(l) \in Capacities(l)
        BY <4>1 DEF Capacities, Doublings
      <4> QED BY <1>4, <2>1, <3>2, <4>2 DEF Enough
    <3> QED BY <3>1, <3>2
  <2>3. Enough(l, n) \subseteq Nat
    BY <1>1, <1>2 DEF Enough, Doublings
  <2>4. PICK x \in Enough(l, n) : \A y \in Enough(l, n) : x <= y
    BY <2>2, <2>3, LeastNumber
  <2> QED BY <1>1, <1>4, <2>1, <2>4 DEF CanHold, Smallest
<1> QED BY <1>3, <1>4

-----------------------------------------------------------------------------
(* Lists.                                                                  *)

(* An array is as long as the one it is made from.                         *)
LEMMA SameLength ==
  ASSUME NEW s \in Seq(Byte), NEW f, f = [i \in DOMAIN s |-> f[i]],
         \A i \in DOMAIN s : f[i] \in Byte
  PROVE  f \in Seq(Byte) /\ Len(f) = Len(s)
<1>1. DOMAIN s = 1..Len(s) /\ Len(s) \in Nat
  OBVIOUS
<1>2. f \in [1..Len(s) -> Byte]
  BY <1>1
<1> QED BY <1>1, <1>2

(* A list that has grown to a capacity it can reach holds what it held.    *)
LEMMA EnsureCapacityHolds ==
  ASSUME NEW l \in Memory, NEW n \in Nat, CanHold(l, n)
  PROVE  /\ EnsureCapacity(l, n) \in Memory
         /\ EnsureCapacity(l, n).length = l.length
         /\ Capacity(EnsureCapacity(l, n)) >= n
         /\ Capacity(EnsureCapacity(l, n)) >= Capacity(l)
         /\ \A i \in 1..l.length : EnsureCapacity(l, n).items[i] = l.items[i]
<1> DEFINE better == CHOOSE c \in Smallest(Enough(l, n)) : TRUE
<1>1. better \in Smallest(Enough(l, n))
  BY DEF CanHold
<1>2. /\ l.items \in Seq(Byte) /\ l.length \in Nat /\ l.length <= Len(l.items)
      /\ Len(l.items) \in Nat
  BY DEF Memory, Capacity
<1>3. /\ better \in Nat /\ better >= n /\ better >= Len(l.items)
      /\ better \in Doublings(MinCapacity)
  <2>1. better \in Capacities(l) /\ better >= n
    BY <1>1 DEF Smallest, Enough
  <2>2. better \in Doublings(MinCapacity)
    BY <2>1, CapacitiesAre DEF Memory
  <2>3. better \in Nat /\ better >= Len(l.items)
    BY <1>2, <2>1, SizesAssumption DEF Capacities, Doublings, Least, Capacity
  <2> QED BY <2>1, <2>2, <2>3
<1> HIDE DEF better
<1> DEFINE items == [i \in 1..better |-> IF i <= Capacity(l) THEN l.items[i] ELSE Junk]
<1>4. items \in Seq(Byte) /\ Len(items) = better
  <2>1. \A i \in 1..better : items[i] \in Byte
    BY <1>2, <1>3 DEF Capacity, Byte
  <2> QED BY <2>1, <1>3
<1>5. EnsureCapacity(l, n) = [items |-> items, length |-> l.length]
  BY DEF EnsureCapacity, WithCapacity, better
<1> HIDE DEF items
<1>6. \A i \in 1..l.length : items[i] = l.items[i]
  BY <1>2, <1>3 DEF items, Capacity
<1> QED BY <1>2, <1>3, <1>4, <1>5, <1>6 DEF Memory, Capacity

(* resize sets the length that it has made room for.                        *)
LEMMA ResizedType ==
  ASSUME NEW l \in Memory, NEW n \in Nat, CanHold(l, n)
  PROVE  Resized(l, n) \in Memory /\ Resized(l, n).length = n
BY EnsureCapacityHolds DEF Resized, WithLength, Memory, Capacity

(* An item of an array is written.                                         *)
LEMMA WriteType ==
  ASSUME NEW items \in Seq(Byte), NEW i \in 1..Len(items), NEW x \in Byte
  PROVE  /\ [items EXCEPT ![i] = x] \in Seq(Byte)
         /\ Len([items EXCEPT ![i] = x]) = Len(items)
         /\ [items EXCEPT ![i] = x][i] = x
OBVIOUS

(* append writes one item behind the last.                                  *)
LEMMA PushedType ==
  ASSUME NEW l \in Memory, NEW x \in Byte, CanHold(l, l.length + 1)
  PROVE  Pushed(l, x) \in Memory
<1> DEFINE items == EnsureCapacity(l, l.length + 1).items
<1>1. l.length + 1 \in Nat
  BY DEF Memory
<1>2. /\ items \in Seq(Byte) /\ l.length + 1 \in 1..Len(items)
      /\ Len(items) \in {0} \cup Doublings(MinCapacity)
  BY <1>1, EnsureCapacityHolds DEF Memory, Capacity
<1>3. Pushed(l, x) = [items |-> [items EXCEPT ![l.length + 1] = x], length |-> l.length + 1]
  BY DEF Pushed
<1> HIDE DEF items
<1> DEFINE new == [items EXCEPT ![l.length + 1] = x]
<1>4. new \in Seq(Byte) /\ Len(new) = Len(items)
  BY <1>2, WriteType
<1> HIDE DEF new
<1>5. [items |-> new, length |-> l.length + 1] \in Memory
  BY <1>1, <1>2, <1>4 DEF Memory, Capacity
<1> QED BY <1>3, <1>5 DEF new

-----------------------------------------------------------------------------
(* Buffers.                                                                *)

(* A list becomes a buffer when its last byte is made a NUL.                *)
LEMMA TerminatedType ==
  ASSUME NEW l \in Memory, l.length # 0
  PROVE  Terminated(l) \in Terminable /\ Terminated(l).length = l.length
<1>1. l.items \in Seq(Byte) /\ l.length \in 1..Len(l.items) /\ Nul \in Byte
  BY DEF Memory, Capacity, Byte
<1> DEFINE items == [l.items EXCEPT ![l.length] = Nul]
<1>2. items \in Seq(Byte) /\ Len(items) = Len(l.items) /\ items[l.length] = Nul
  BY <1>1, WriteType
<1>3. Terminated(l) = [items |-> items, length |-> l.length]
  BY DEF Terminated
<1> HIDE DEF items
<1> QED BY <1>1, <1>2, <1>3 DEF Terminable, Memory, Capacity

(* memcpy changes the bytes it covers and no others.                        *)
LEMMA CopiedType ==
  ASSUME NEW l \in Memory, NEW n \in Int, NEW t \in Seq(Byte)
  PROVE  /\ Copied(l, n, t) \in Memory
         /\ Copied(l, n, t).length = l.length
         /\ \A i \in 1..Capacity(l) :
              Copied(l, n, t).items[i] = IF i - n \in 1..Len(t) THEN t[i - n] ELSE l.items[i]
<1> DEFINE items == [i \in DOMAIN l.items |->
                       IF i - n \in DOMAIN t THEN t[i - n] ELSE l.items[i]]
<1>1. /\ l \in [items : Seq(Byte), length : Nat]
      /\ l.items \in Seq(Byte)
      /\ l.length <= Len(l.items)
      /\ DOMAIN l.items = 1..Len(l.items)
      /\ DOMAIN t = 1..Len(t)
  BY DEF Memory, Capacity
<1>2. items \in Seq(Byte) /\ Len(items) = Len(l.items)
  <2>1. \A i \in 1..Len(l.items) : items[i] \in Byte
    BY <1>1
  <2> QED BY <2>1, <1>1
<1>3. \A i \in 1..Capacity(l) : items[i] = IF i - n \in 1..Len(t) THEN t[i - n] ELSE l.items[i]
  BY <1>1 DEF Capacity
<1>4. Copied(l, n, t) = [items |-> items, length |-> l.length]
  BY <1>1 DEF Copied
<1> HIDE DEF items
<1> QED BY <1>1, <1>2, <1>3, <1>4 DEF Memory, Capacity

(* buf_resize terminates what it has resized.                               *)
LEMMA BufResizedType ==
  ASSUME NEW l \in Memory, NEW n \in Nat, CanHold(l, n + 1)
  PROVE  BufResized(l, n) \in Terminable /\ BufResized(l, n).length = n + 1
<1>1. Resized(l, n + 1) \in Memory /\ Resized(l, n + 1).length = n + 1
  BY ResizedType
<1> QED BY <1>1, TerminatedType DEF BufResized

(* A buffer made from memory is terminated behind the text.                 *)
LEMMA BufFromMemType ==
  ASSUME NEW l \in Memory, NEW t \in Seq(Byte), CanHold(l, Len(t) + 1)
  PROVE  BufFromMem(l, t) \in Terminable /\ BufFromMem(l, t).length = Len(t) + 1
<1>1. Resized(l, Len(t) + 1) \in Memory /\ Resized(l, Len(t) + 1).length = Len(t) + 1
  BY ResizedType
<1>2. /\ Copied(Resized(l, Len(t) + 1), 0, t) \in Memory
      /\ Copied(Resized(l, Len(t) + 1), 0, t).length = Len(t) + 1
  BY <1>1, CopiedType
<1> QED BY <1>2, TerminatedType DEF BufFromMem

(* Appending moves the terminator behind the text that is appended.         *)
LEMMA BufAppendedType ==
  ASSUME NEW l \in Terminable, NEW t \in Seq(Byte), CanHold(l, l.length + Len(t))
  PROVE  BufAppended(l, t) \in Terminable /\ BufAppended(l, t).length = l.length + Len(t)
<1>1. l \in Memory /\ BufLen(l) \in Nat /\ l.length = BufLen(l) + 1
  BY DEF Terminable, Memory, BufLen
<1>2. /\ BufLen(l) + Len(t) \in Nat
      /\ BufLen(l) + Len(t) + 1 = l.length + Len(t)
  BY <1>1
<1> DEFINE grown == BufResized(l, BufLen(l) + Len(t))
<1>3. grown \in Memory /\ grown.length = l.length + Len(t) /\ l.length + Len(t) # 0
  <2>1. grown \in Terminable /\ grown.length = BufLen(l) + Len(t) + 1
    BY <1>1, <1>2, BufResizedType
  <2> QED BY <1>1, <1>2, <2>1 DEF Terminable
<1> HIDE DEF grown
<1>4. /\ Copied(grown, BufLen(l), t) \in Memory
      /\ Copied(grown, BufLen(l), t).length = l.length + Len(t)
  BY <1>1, <1>3, CopiedType
<1> QED BY <1>3, <1>4, TerminatedType DEF BufAppended, grown

(* vsnprintf's NUL and the terminator both fit, one behind the other.       *)
LEMMA BufFormattedType ==
  ASSUME NEW l \in Terminable, NEW t \in Seq(Byte), CanHold(l, l.length + Len(t) + 1)
  PROVE  BufFormatted(l, t) \in Terminable
<1>1. l \in Memory /\ BufLen(l) \in Nat /\ l.length = BufLen(l) + 1
  BY DEF Terminable, Memory, BufLen
<1> DEFINE n == BufLen(l) + Len(t) + 1
           grown == BufResized(l, n)
           s == t \o <<Nul>>
<1>2. n \in Nat /\ n + 1 = l.length + Len(t) + 1
  BY <1>1
<1>3. grown \in Terminable /\ grown.length = n + 1
  BY <1>1, <1>2, BufResizedType
<1>4. s \in Seq(Byte) /\ Len(s) = Len(t) + 1
  BY DEF Byte
<1> HIDE DEF grown, s
<1>5. /\ grown \in Memory /\ grown.items[n + 1] = Nul
      /\ n + 1 \in 1..Capacity(grown)
  BY <1>2, <1>3 DEF Terminable, Memory, Capacity
<1>6. /\ Copied(grown, BufLen(l), s) \in Memory
      /\ Copied(grown, BufLen(l), s).length = n + 1
      /\ Copied(grown, BufLen(l), s).items[n + 1] = Nul
  <2>1. ~(n + 1 - BufLen(l) \in 1..Len(s))
    BY <1>1, <1>4
  <2> QED BY <1>1, <1>3, <1>4, <1>5, <2>1, CopiedType
<1> QED BY <1>2, <1>6 DEF BufFormatted, grown, s, Terminable

(* Bytes that are written in front of the terminator leave it in place.    *)
LEMMA CopiedTerminable ==
  ASSUME NEW l \in Terminable, NEW t \in Seq(Byte), Len(t) < l.length
  PROVE  Copied(l, 0, t) \in Terminable
<1>1. l \in Memory /\ l.length \in 1..Capacity(l) /\ l.items[l.length] = Nul
  BY DEF Terminable, Memory, Capacity
<1>2. ~(l.length - 0 \in 1..Len(t))
  BY <1>1 DEF Capacity
<1> QED BY <1>1, <1>2, CopiedType DEF Terminable

(* The contents of a buffer.                                               *)
LEMMA TextOfType ==
  ASSUME NEW l \in Terminable
  PROVE  /\ TextOf(l) \in Seq(Byte)
         /\ Len(TextOf(l)) = l.length - 1
         /\ \A i \in 1..(l.length - 1) : TextOf(l)[i] = l.items[i]
<1>1. /\ l.items \in Seq(Byte) /\ l.length \in Nat \ {0} /\ l.length <= Len(l.items)
      /\ Len(l.items) \in Nat
  BY DEF Terminable, Memory, Capacity
<1>2. 1 \in 1..Len(l.items) + 1 /\ l.length - 1 \in 1 - 1..Len(l.items)
  BY <1>1
<1> QED BY <1>1, <1>2, SubSeqProperties DEF TextOf, BufLen

-----------------------------------------------------------------------------
(* The contents of buffers and lists.                                      *)

(* A buffer that holds the bytes of a text in front of its terminator.     *)
LEMMA TextIs ==
  ASSUME NEW l \in Terminable, NEW t \in Seq(Byte), l.length = Len(t) + 1,
         \A i \in 1..Len(t) : l.items[i] = t[i]
  PROVE  TextOf(l) = t
<1>1. /\ TextOf(l) \in Seq(Byte) /\ Len(TextOf(l)) = Len(t)
      /\ \A i \in 1..Len(t) : TextOf(l)[i] = t[i]
  <2>1. l.length - 1 = Len(t)
    OBVIOUS
  <2> QED BY <2>1, TextOfType
<1> HIDE DEF TextOf
<1> QED BY <1>1, SeqEqual

(* The terminator is written behind the bytes.                             *)
LEMMA TerminatedItems ==
  ASSUME NEW l \in Memory, l.length # 0
  PROVE  \A i \in 1..l.length - 1 : Terminated(l).items[i] = l.items[i]
<1>1. l.items \in Seq(Byte) /\ l.length \in 1..Len(l.items)
  BY DEF Memory, Capacity
<1> QED BY <1>1 DEF Terminated

(* resize keeps what it has room for.                                      *)
LEMMA BufResizedItems ==
  ASSUME NEW l \in Memory, NEW n \in Nat, CanHold(l, n + 1)
  PROVE  \A i \in 1..n : i <= l.length => BufResized(l, n).items[i] = l.items[i]
<1>1. /\ Resized(l, n + 1) \in Memory /\ Resized(l, n + 1).length = n + 1
      /\ l.length \in Nat
  BY ResizedType DEF Memory
<1>2. \A i \in 1..l.length : Resized(l, n + 1).items[i] = l.items[i]
  BY EnsureCapacityHolds DEF Resized, WithLength
<1> DEFINE r == Resized(l, n + 1)
<1> HIDE DEF r
<1>3. \A i \in 1..n : Terminated(r).items[i] = r.items[i]
  BY <1>1, TerminatedItems DEF r
<1> SUFFICES ASSUME NEW i \in 1..n, i <= l.length
             PROVE  Terminated(r).items[i] = l.items[i]
  BY DEF BufResized, r
<1> QED BY <1>1, <1>2, <1>3 DEF r

(* Memory is copied as it is.                                              *)
LEMMA BufFromMemText ==
  ASSUME NEW l \in Memory, NEW t \in Seq(Byte), CanHold(l, Len(t) + 1)
  PROVE  TextOf(BufFromMem(l, t)) = t
<1> DEFINE r == Resized(l, Len(t) + 1)
           c == Copied(r, 0, t)
<1>1. r \in Memory /\ r.length = Len(t) + 1
  BY ResizedType
<1> HIDE DEF r
<1>2. /\ c \in Memory /\ c.length = Len(t) + 1
      /\ \A i \in 1..Capacity(r) : c.items[i] = IF i - 0 \in 1..Len(t) THEN t[i - 0] ELSE r.items[i]
  BY <1>1, CopiedType
<1>3. Len(t) + 1 <= Capacity(r) /\ Capacity(r) \in Nat
  BY <1>1 DEF Memory, Capacity
<1>4. \A i \in 1..Len(t) : c.items[i] = t[i]
  BY <1>2, <1>3
<1> HIDE DEF c
<1>5. \A i \in 1..Len(t) : Terminated(c).items[i] = c.items[i]
  <2>1. c.length - 1 = Len(t) /\ c.length # 0
    BY <1>2
  <2> QED BY <1>2, <2>1, TerminatedItems
<1>6. BufFromMem(l, t) = Terminated(c)
  BY DEF BufFromMem, c, r
<1> QED BY <1>4, <1>5, <1>6, BufFromMemType, TextIs

(* What stands behind the first bytes of a buffer that has room for it.     *)
LEMMA CopiedBehind ==
  ASSUME NEW r \in Terminable, NEW old \in Seq(Byte), NEW t \in Seq(Byte),
         r.length = Len(old) + Len(t) + 1, \A i \in 1..Len(old) : r.items[i] = old[i]
  PROVE  Copied(r, Len(old), t) \in Terminable /\ TextOf(Copied(r, Len(old), t)) = old \o t
<1> DEFINE n == Len(old)
           c == Copied(r, n, t)
           joined == old \o t
<1>1. /\ r \in Memory /\ n \in Nat /\ Len(t) \in Nat /\ Capacity(r) \in Nat
      /\ n + Len(t) + 1 \in 1..Capacity(r) /\ r.items[n + Len(t) + 1] = Nul
  BY DEF Terminable, Memory, Capacity
<1>2. /\ c \in Memory /\ c.length = n + Len(t) + 1
      /\ \A i \in 1..Capacity(r) : c.items[i] = IF i - n \in 1..Len(t) THEN t[i - n] ELSE r.items[i]
  BY <1>1, CopiedType
<1>3. /\ joined \in Seq(Byte) /\ Len(joined) = n + Len(t)
      /\ \A i \in 1..n + Len(t) : joined[i] = IF i <= n THEN old[i] ELSE t[i - n]
  BY <1>1, ConcatProperties
<1> HIDE DEF c, joined
<1>4. ASSUME NEW i \in 1..n + Len(t)
      PROVE  c.items[i] = joined[i]
  <2>1. i \in 1..Capacity(r) /\ n + Len(t) \in Nat /\ i \in Int
    BY <1>1
  <2>2. c.items[i] = IF i - n \in 1..Len(t) THEN t[i - n] ELSE r.items[i]
    BY <1>2, <2>1
  <2>3. CASE i <= n
    <3>1. ~(i - n \in 1..Len(t)) /\ i \in 1..n
      BY <1>1, <2>1, <2>3
    <3> QED BY <1>3, <2>2, <2>3, <3>1
  <2>4. CASE ~(i <= n)
    <3>1. i - n \in 1..Len(t)
      BY <1>1, <2>1, <2>4
    <3> QED BY <1>3, <2>2, <2>4, <3>1
  <2> QED BY <2>3, <2>4
<1>5. c.items[n + Len(t) + 1] = Nul
  <2>1. ~((n + Len(t) + 1) - n \in 1..Len(t))
    BY <1>1
  <2> QED BY <1>1, <1>2, <2>1
<1>6. c \in Terminable
  BY <1>1, <1>2, <1>5 DEF Terminable
<1>7. c.length = Len(joined) + 1 /\ \A i \in 1..Len(joined) : c.items[i] = joined[i]
  BY <1>2, <1>3, <1>4
<1>8. TextOf(c) = joined
  BY <1>3, <1>6, <1>7, TextIs
<1> QED BY <1>6, <1>8 DEF c, joined

(* A terminator is written where one stands already.                       *)
LEMMA TerminatedTwice ==
  ASSUME NEW l \in Terminable
  PROVE  Terminated(l) = l
<1>1. /\ l \in [items : Seq(Byte), length : Nat] /\ l.items \in Seq(Byte)
      /\ l.items[l.length] = Nul
  BY DEF Terminable, Memory
<1>2. [l.items EXCEPT ![l.length] = Nul] = l.items
  BY <1>1
<1> QED BY <1>1, <1>2 DEF Terminated

(* The text is appended to what the buffer contains.                       *)
LEMMA BufAppendedText ==
  ASSUME NEW l \in Terminable, NEW t \in Seq(Byte), CanHold(l, l.length + Len(t))
  PROVE  TextOf(BufAppended(l, t)) = TextOf(l) \o t
<1> DEFINE n == BufLen(l)
           old == TextOf(l)
           r == BufResized(l, n + Len(t))
           c == Copied(r, Len(old), t)
<1>1. /\ l \in Memory /\ n \in Nat /\ l.length = n + 1 /\ Len(t) \in Nat
      /\ n + Len(t) \in Nat /\ (n + Len(t)) + 1 = l.length + Len(t)
  BY DEF Terminable, Memory, BufLen
<1>2. /\ old \in Seq(Byte) /\ Len(old) = n
      /\ \A i \in 1..n : old[i] = l.items[i]
  BY TextOfType, <1>1
<1>3. BufAppended(l, t) = Terminated(c)
  BY <1>2 DEF BufAppended
<1> HIDE DEF n, old
<1>4. r \in Terminable /\ r.length = n + Len(t) + 1
  BY <1>1, BufResizedType
<1>5. \A i \in 1..n : r.items[i] = l.items[i]
  <2>1. \A i \in 1..n + Len(t) : i <= l.length => r.items[i] = l.items[i]
    BY <1>1, BufResizedItems
  <2> HIDE DEF r
  <2> QED BY <1>1, <2>1
<1> HIDE DEF r
<1>6. c \in Terminable /\ TextOf(c) = old \o t
  <2>1. r.length = Len(old) + Len(t) + 1 /\ \A i \in 1..Len(old) : r.items[i] = old[i]
    BY <1>2, <1>4, <1>5
  <2> QED BY <1>2, <1>4, <2>1, CopiedBehind
<1> HIDE DEF c
<1>7. Terminated(c) = c
  BY <1>6, TerminatedTwice
<1> QED BY <1>3, <1>6, <1>7 DEF old

(* So it is by buf_appendf, with a NUL.                                    *)
LEMMA BufFormattedText ==
  ASSUME NEW l \in Terminable, NEW t \in Seq(Byte), CanHold(l, l.length + Len(t) + 1)
  PROVE  TextOf(BufFormatted(l, t)) = Formatted(TextOf(l), t)
<1> DEFINE n == BufLen(l)
           old == TextOf(l)
           s == t \o <<Nul>>
           r == BufResized(l, n + Len(t) + 1)
           c == Copied(r, Len(old), s)
<1>1. l \in Memory /\ n \in Nat /\ l.length = n + 1 /\ Len(t) \in Nat
  BY DEF Terminable, Memory, BufLen
<1> HIDE DEF n
<1>8. n + Len(t) + 1 \in Nat /\ (n + Len(t) + 1) + 1 = l.length + Len(t) + 1
  BY <1>1
<1>2. /\ old \in Seq(Byte) /\ Len(old) = n
      /\ \A i \in 1..n : old[i] = l.items[i]
  BY TextOfType, <1>1
<1>3. BufFormatted(l, t) = c
  BY <1>2, <1>1 DEF BufFormatted, n
<1>4. s \in Seq(Byte) /\ Len(s) = Len(t) + 1 /\ old \o s = old \o t \o <<Nul>>
  <2>1. <<Nul>> \in Seq(Byte)
    BY DEF Byte
  <2> HIDE DEF old
  <2> QED BY <1>2, <2>1
<1> HIDE DEF s, old
<1>5. r \in Terminable /\ r.length = n + Len(s) + 1
  <2>1. r \in Terminable /\ r.length = (n + Len(t) + 1) + 1
    BY <1>1, <1>8, BufResizedType
  <2> HIDE DEF r
  <2> QED BY <1>1, <1>4, <2>1
<1>6. \A i \in 1..n : r.items[i] = l.items[i]
  <2>1. \A i \in 1..n + Len(t) + 1 : i <= l.length => r.items[i] = l.items[i]
    BY <1>1, <1>8, BufResizedItems
  <2> HIDE DEF r
  <2> QED BY <1>1, <2>1
<1> HIDE DEF r
<1>7. TextOf(c) = old \o s
  <2>1. r.length = Len(old) + Len(s) + 1 /\ \A i \in 1..Len(old) : r.items[i] = old[i]
    BY <1>2, <1>5, <1>6
  <2> QED BY <1>2, <1>4, <1>5, <2>1, CopiedBehind
<1> QED BY <1>3, <1>4, <1>7 DEF Formatted, old

(* fread fills the buffer.                                                 *)
LEMMA FetchedText ==
  ASSUME NEW l \in Memory, NEW t \in Seq(Byte), CanHold(l, Len(t) + 1)
  PROVE  /\ Copied(BufResized(l, Len(t)), 0, t) \in Terminable
         /\ TextOf(Copied(BufResized(l, Len(t)), 0, t)) = t
<1> DEFINE r == BufResized(l, Len(t))
<1>1. r \in Terminable /\ r.length = Len(t) + 1
  BY BufResizedType
<1> HIDE DEF r
<1>2. <<>> \in Seq(Byte) /\ Len(<<>>) = 0 /\ <<>> \o t = t
  OBVIOUS
<1> DEFINE old == <<>>
<1>3. /\ old \in Seq(Byte) /\ Len(old) = 0 /\ old \o t = t
      /\ r.length = Len(old) + Len(t) + 1 /\ \A i \in 1..Len(old) : r.items[i] = old[i]
  BY <1>1, <1>2
<1> HIDE DEF old
<1>4. Copied(r, Len(old), t) \in Terminable /\ TextOf(Copied(r, Len(old), t)) = old \o t
  BY <1>1, <1>3, CopiedBehind
<1> QED BY <1>3, <1>4 DEF r

(* resize gives a text of any length, which begins as it did.              *)
LEMMA BufResizedText ==
  ASSUME NEW l \in Memory, NEW n \in Nat, CanHold(l, n + 1)
  PROVE  /\ TextOf(BufResized(l, n)) \in Seq(Byte)
         /\ Len(TextOf(BufResized(l, n))) = n
         /\ \A i \in 1..n : i <= l.length => TextOf(BufResized(l, n))[i] = l.items[i]
<1> DEFINE r == BufResized(l, n)
<1>1. r \in Terminable /\ r.length = n + 1 /\ r.length - 1 = n
  BY BufResizedType
<1>2. \A i \in 1..n : i <= l.length => r.items[i] = l.items[i]
  BY BufResizedItems
<1> HIDE DEF r
<1>3. /\ TextOf(r) \in Seq(Byte) /\ Len(TextOf(r)) = n
      /\ \A i \in 1..n : TextOf(r)[i] = r.items[i]
  BY <1>1, TextOfType
<1> QED BY <1>2, <1>3 DEF r

(* Both parts of a path are texts.                                         *)
LEMMA SplitType ==
  ASSUME NEW p \in Seq(Byte)
  PROVE  Dirname(p) \in Seq(Byte) /\ Basename(p) \in Seq(Byte)
<1>1. CASE LastSlash(p) = {}
  BY <1>1 DEF Dirname, Basename, Byte
<1>2. CASE LastSlash(p) # {}
  <2> DEFINE i == CHOOSE j \in LastSlash(p) : TRUE
  <2>1. i \in LastSlash(p)
    BY <1>2
  <2> HIDE DEF i
  <2>2. i \in 1..Len(p)
    BY <2>1 DEF LastSlash, Slashes, LastIndex
  <2>3. SubSeq(p, 1, i - 1) \in Seq(Byte) /\ SubSeq(p, i + 1, Len(p)) \in Seq(Byte)
    BY <2>2, SubSeqProperties
  <2> QED BY <1>2, <2>3 DEF Dirname, Basename, i
<1> QED BY <1>1, <1>2

(* One text behind another.                                                *)
LEMMA Behind ==
  ASSUME NEW s \in Seq(Byte), NEW t \in Seq(Byte), NEW n \in Nat, NEW m \in Nat,
         Len(s) = n, n + Len(t) = m
  PROVE  /\ s \o t \in Seq(Byte) /\ Len(s \o t) = m
         /\ \A j \in 1..m : (s \o t)[j] = IF j <= n THEN s[j] ELSE t[j - n]
BY ConcatProperties

(* A sequence of two items.                                                *)
LEMMA TwoItems ==
  ASSUME NEW a \in Byte, NEW b \in Byte
  PROVE  <<a>> \o <<b>> = <<a, b>>
<1> DEFINE s == <<a>>
           t == <<b>>
           u == s \o t
           v == <<a, b>>
<1>1. /\ s \in Seq(Byte) /\ Len(s) = 1 /\ s[1] = a
      /\ t \in Seq(Byte) /\ Len(t) = 1 /\ t[1] = b
      /\ v \in Seq(Byte) /\ Len(v) = 2 /\ v[1] = a /\ v[2] = b
  OBVIOUS
<1> HIDE DEF s, t, v
<1>2. /\ u \in Seq(Byte) /\ Len(u) = 2
      /\ \A j \in 1..2 : u[j] = IF j <= 1 THEN s[j] ELSE t[j - 1]
  <2>1. 1 + Len(t) = 2
    BY <1>1
  <2> QED BY <1>1, <2>1, Behind
<1> HIDE DEF u
<1>3. \A j \in 1..2 : u[j] = v[j]
  <2>1. 1..2 = {1, 2} /\ 2 - 1 = 1
    OBVIOUS
  <2>2. u[1] = v[1] /\ u[2] = v[2]
    BY <1>1, <1>2, <2>1
  <2> QED BY <2>1, <2>2
<1>4. u = v
  BY <1>1, <1>2, <1>3, SeqEqual
<1> QED BY <1>4 DEF s, t, u, v

(* A sequence is the parts in front of and behind one of its items.        *)
LEMMA CutAndJoined ==
  ASSUME NEW p \in Seq(Byte), NEW i \in 1..Len(p), p[i] = "/"
  PROVE  SubSeq(p, 1, i - 1) \o <<"/">> \o SubSeq(p, i + 1, Len(p)) = p
<1> DEFINE front == SubSeq(p, 1, i - 1)
           back == SubSeq(p, i + 1, Len(p))
           slash == <<"/">>
           head == front \o slash
           all == head \o back
<1>1. Len(p) \in Nat /\ i \in Nat
  OBVIOUS
<1>2. /\ front \in Seq(Byte) /\ Len(front) = i - 1
      /\ \A j \in 1..i - 1 : front[j] = p[j]
  <2>1. 1 \in 1..Len(p) + 1 /\ i - 1 \in 1 - 1..Len(p)
    BY <1>1
  <2> QED BY <1>1, <2>1, SubSeqProperties
<1>3. /\ back \in Seq(Byte) /\ Len(back) = Len(p) - i
      /\ \A j \in 1..Len(p) - i : back[j] = p[j + i]
  <2>1. i + 1 \in 1..Len(p) + 1 /\ Len(p) \in (i + 1) - 1..Len(p)
    BY <1>1
  <2>2. /\ back \in Seq(Byte) /\ Len(back) = IF i + 1 <= Len(p) THEN Len(p) - (i + 1) + 1 ELSE 0
        /\ \A j \in 1..Len(p) - (i + 1) + 1 : back[j] = p[(i + 1) + j - 1]
    BY <1>1, <2>1, SubSeqProperties
  <2> HIDE DEF back
  <2>3. Len(back) = Len(p) - i
    BY <1>1, <2>2
  <2>4. ASSUME NEW j \in 1..Len(p) - i PROVE back[j] = p[j + i]
    <3>1. j \in 1..Len(p) - (i + 1) + 1 /\ (i + 1) + j - 1 = j + i
      BY <1>1
    <3> QED BY <2>2, <3>1
  <2> QED BY <2>2, <2>3, <2>4
<1>4. slash \in Seq(Byte) /\ Len(slash) = 1 /\ slash[1] = p[i]
  BY DEF Byte
<1> HIDE DEF front, back, slash
<1>5. /\ head \in Seq(Byte) /\ Len(head) = i
      /\ \A j \in 1..i : head[j] = IF j <= i - 1 THEN front[j] ELSE slash[j - (i - 1)]
  <2> DEFINE k == i - 1
  <2>1. k + Len(slash) = i /\ k \in Nat
    BY <1>1, <1>4
  <2>2. Len(front) = k /\ front \in Seq(Byte) /\ slash \in Seq(Byte) /\ i \in Nat
    BY <1>1, <1>2, <1>4
  <2> HIDE DEF k
  <2>3. /\ head \in Seq(Byte) /\ Len(head) = i
        /\ \A j \in 1..i : head[j] = IF j <= k THEN front[j] ELSE slash[j - k]
    BY <2>1, <2>2, Behind
  <2> QED BY <2>3 DEF k
<1>6. \A j \in 1..i : head[j] = p[j]
  <2> TAKE j \in 1..i
  <2>1. CASE j <= i - 1
    BY <1>1, <1>2, <1>5, <2>1
  <2>2. CASE ~(j <= i - 1)
    <3>1. j = i /\ j - (i - 1) = 1
      BY <1>1, <2>2
    <3> QED BY <1>4, <1>5, <2>2, <3>1
  <2> QED BY <2>1, <2>2
<1> HIDE DEF head
<1>7. /\ all \in Seq(Byte) /\ Len(all) = Len(p)
      /\ \A j \in 1..Len(p) : all[j] = IF j <= i THEN head[j] ELSE back[j - i]
  <2>1. i + Len(back) = Len(p)
    BY <1>1, <1>3
  <2> QED BY <1>1, <1>3, <1>5, <2>1, Behind
<1> HIDE DEF all
<1>8. \A j \in 1..Len(p) : all[j] = p[j]
  <2> TAKE j \in 1..Len(p)
  <2>1. CASE j <= i
    BY <1>1, <1>6, <1>7, <2>1
  <2>2. CASE ~(j <= i)
    <3>1. j - i \in 1..Len(p) - i /\ (j - i) + i = j
      BY <1>1, <2>2
    <3>2. back[j - i] = p[(j - i) + i]
      BY <1>3, <3>1
    <3> QED BY <1>7, <2>2, <3>1, <3>2
  <2> QED BY <2>1, <2>2
<1>9. all = p
  BY <1>7, <1>8, SeqEqual
<1> QED BY <1>9 DEF all, head, front, back, slash

(* The parts of a path lead to what the path leads to.                     *)
LEMMA SplitIsPath ==
  ASSUME NEW p \in Seq(Byte)
  PROVE  Dirname(p) \o <<"/">> \o Basename(p) \in {p, <<".", "/">> \o p}
<1>1. CASE LastSlash(p) = {}
  <2>1. <<".">> \o <<"/">> = <<".", "/">>
    BY TwoItems DEF Byte
  <2> QED BY <1>1, <2>1 DEF Dirname, Basename
<1>2. CASE LastSlash(p) # {}
  <2> DEFINE i == CHOOSE j \in LastSlash(p) : TRUE
  <2>1. i \in LastSlash(p)
    BY <1>2
  <2>2. Dirname(p) = SubSeq(p, 1, i - 1) /\ Basename(p) = SubSeq(p, i + 1, Len(p))
    BY <1>2 DEF Dirname, Basename
  <2> HIDE DEF i
  <2>3. i \in 1..Len(p) /\ p[i] = "/"
    BY <2>1 DEF LastSlash, Slashes, LastIndex
  <2> QED BY <2>2, <2>3, CutAndJoined
<1> QED BY <1>1, <1>2

(* A text that begins with a path and a NUL is the path to a C function.   *)
LEMMA CStringIs ==
  ASSUME NEW s \in Seq(Byte), NEW path \in Seq(Byte), Ends(path) = {},
         Len(path) < Len(s), s[Len(path) + 1] = Nul,
         \A i \in 1..Len(path) : s[i] = path[i]
  PROVE  CString(s) = path
<1> DEFINE n == Len(path) + 1
           first == CHOOSE i \in Ends(s) : \A j \in Ends(s) : i <= j
<1>1. n \in 1..Len(s) /\ Len(path) \in Nat /\ Len(s) \in Nat
  OBVIOUS
<1>2. n \in Ends(s) /\ \A j \in Ends(s) : n <= j
  <2>1. n \in Ends(s)
    BY <1>1 DEF Ends
  <2>2. ASSUME NEW j \in Ends(s), ~(n <= j)
        PROVE  FALSE
    <3>1. j \in 1..Len(s) /\ s[j] = Nul
      BY DEF Ends
    <3>2. j \in 1..Len(path)
      BY <1>1, <2>2, <3>1
    <3>3. path[j] = Nul /\ j \in DOMAIN path
      BY <3>1, <3>2
    <3> QED BY <3>3 DEF Ends
  <2> QED BY <2>1, <2>2
<1>3. first \in Ends(s) /\ \A j \in Ends(s) : first <= j
  <2> HIDE DEF n
  <2> QED BY <1>2
<1> HIDE DEF first
<1>4. first = n
  <2>1. first \in 1..Len(s)
    BY <1>3 DEF Ends
  <2> QED BY <1>1, <1>2, <1>3, <2>1
<1>5. CString(s) = SubSeq(s, 1, Len(path))
  <2>1. first - 1 = Len(path)
    BY <1>1, <1>4
  <2>2. Ends(s) # {}
    BY <1>2
  <2> HIDE DEF n
  <2> QED BY <2>1, <2>2 DEF CString, first
<1> HIDE DEF n
<1>6. /\ SubSeq(s, 1, Len(path)) \in Seq(Byte)
      /\ Len(SubSeq(s, 1, Len(path))) = Len(path)
      /\ \A i \in 1..Len(path) : SubSeq(s, 1, Len(path))[i] = s[i]
  <2>1. 1 \in 1..Len(s) + 1 /\ Len(path) \in 1 - 1..Len(s)
    BY <1>1
  <2> QED BY <1>1, <2>1, SubSeqProperties
<1> DEFINE head == SubSeq(s, 1, Len(path))
<1>7. head \in Seq(Byte) /\ Len(head) = Len(path) /\ \A i \in 1..Len(path) : head[i] = path[i]
  BY <1>6
<1> HIDE DEF head
<1>8. head = path
  BY <1>7, SeqEqual
<1> QED BY <1>5, <1>8 DEF head

(* What os_get_cwd leaves: the path, a NUL, and what getcwd left there.    *)
CwdText(l, path) ==
  /\ l \in Terminable
  /\ Len(path) < Len(TextOf(l))
  /\ TextOf(l)[Len(path) + 1] = Nul
  /\ \A i \in 1..Len(path) : TextOf(l)[i] = path[i]

(* getcwd's attempts that were too small leave a NUL, and none at the end. *)
LEMMA CwdBufferHolds ==
  ASSUME NEW l \in Memory, NEW path \in Seq(Byte), CwdFits(path) # {},
         CanHold(l, CwdLength(path) + 1)
  PROVE  CwdText(CwdBuffer(l, path), path)
<1> DEFINE n == CwdLength(path)
           sized == BufResized(l, n)
           tried == [i \in DOMAIN sized.items |->
                       IF i - 1 \in CwdTried(path) THEN Nul ELSE sized.items[i]]
           before == [items |-> tried, length |-> sized.length]
           s == path \o <<Nul>>
           c == Copied(before, 0, s)
<1>1. n \in Nat /\ Len(path) < n
  <2>1. n \in CwdFits(path)
    BY DEF CwdLength
  <2> QED BY <2>1, SizesAssumption DEF CwdFits, Smallest, CwdSizes, Doublings
<1>2. sized \in Terminable /\ sized.length = n + 1
  BY <1>1, BufResizedType
<1>3. CwdBuffer(l, path) = c
  BY DEF CwdBuffer
<1> HIDE DEF sized
<1>4. /\ sized.items \in Seq(Byte) /\ n + 1 \in 1..Len(sized.items)
      /\ sized.items[n + 1] = Nul
      /\ DOMAIN sized.items = 1..Len(sized.items)
  BY <1>1, <1>2 DEF Terminable, Memory, Capacity
<1>5. tried \in Seq(Byte) /\ Len(tried) = Len(sized.items) /\ tried[n + 1] = Nul
  <2>1. \A i \in 1..Len(sized.items) : tried[i] \in Byte
    BY <1>4 DEF Byte
  <2>2. tried[n + 1] = Nul
    BY <1>4
  <2>3. tried = [i \in DOMAIN sized.items |-> tried[i]]
    OBVIOUS
  <2> HIDE DEF tried
  <2>4. tried \in Seq(Byte) /\ Len(tried) = Len(sized.items)
    BY <1>4, <2>1, <2>3, SameLength
  <2> QED BY <2>2, <2>4
<1> HIDE DEF tried, n
<1>6. before \in Terminable /\ before.length = n + 1
  BY <1>1, <1>2, <1>4, <1>5 DEF Terminable, Memory, Capacity
<1> HIDE DEF before
<1>7. /\ s \in Seq(Byte) /\ Len(s) = Len(path) + 1 /\ s[Len(path) + 1] = Nul
      /\ \A i \in 1..Len(path) : s[i] = path[i]
  BY DEF Byte
<1> HIDE DEF s
<1>8. c \in Terminable /\ before \in Memory /\ Capacity(before) \in Nat /\ n + 1 <= Capacity(before)
  <2>1. Len(s) < before.length
    BY <1>1, <1>6, <1>7
  <2>2. c \in Terminable
    BY <1>6, <1>7, <2>1, CopiedTerminable
  <2> HIDE DEF c
  <2> QED BY <1>6, <2>2 DEF Terminable, Memory, Capacity
<1>9. /\ c.length = n + 1
      /\ \A i \in 1..Capacity(before) : c.items[i] = IF i - 0 \in 1..Len(s) THEN s[i - 0] ELSE before.items[i]
  BY <1>6, <1>7, <1>8, CopiedType
<1> HIDE DEF c
<1>10. /\ Len(TextOf(c)) = n
       /\ \A i \in 1..n : TextOf(c)[i] = c.items[i]
  <2>1. c.length - 1 = n
    BY <1>1, <1>9
  <2> QED BY <1>8, <2>1, TextOfType
<1>11. \A i \in 1..Len(s) : c.items[i] = s[i]
  BY <1>1, <1>7, <1>8, <1>9
<1>12. \A i \in 1..Len(s) : TextOf(c)[i] = s[i]
  BY <1>1, <1>7, <1>10, <1>11
<1> QED BY <1>1, <1>3, <1>7, <1>8, <1>10, <1>12 DEF CwdText

(* buf_upcase changes every byte in front of the terminator.               *)
LEMMA UpcasedText ==
  ASSUME NEW l \in Terminable
  PROVE  /\ BufUpcased(l) \in Terminable
         /\ TextOf(BufUpcased(l)) = [i \in DOMAIN TextOf(l) |-> Uppercase(TextOf(l)[i])]
<1> DEFINE items == [i \in DOMAIN l.items |->
                       IF i <= BufLen(l) THEN Uppercase(l.items[i]) ELSE l.items[i]]
           old == TextOf(l)
           up == [i \in DOMAIN old |-> Uppercase(old[i])]
           u == BufUpcased(l)
<1>1. /\ l.length \in Nat \ {0} /\ l.items[l.length] = Nul
      /\ l.items \in Seq(Byte) /\ l.length \in 1..Len(l.items)
      /\ DOMAIN l.items = 1..Len(l.items)
  BY DEF Terminable, Memory, Capacity
<1>2. \A x \in Byte : Uppercase(x) \in Byte
  BY DEF Uppercase, Byte
<1>3. u = [items |-> items, length |-> l.length]
  BY DEF BufUpcased
<1>4. items \in Seq(Byte) /\ Len(items) = Len(l.items) /\ items[l.length] = Nul
  <2>1. \A i \in 1..Len(l.items) : items[i] \in Byte
    BY <1>1, <1>2
  <2>2. items[l.length] = Nul
    BY <1>1 DEF BufLen
  <2>3. items \in Seq(Byte) /\ Len(items) = Len(l.items)
    <3>1. items = [i \in DOMAIN l.items |-> items[i]]
      OBVIOUS
    <3> HIDE DEF items
    <3> QED BY <1>1, <2>1, <3>1, SameLength
  <2> HIDE DEF items
  <2> QED BY <2>2, <2>3
<1>5. /\ old \in Seq(Byte) /\ Len(old) = l.length - 1
      /\ \A i \in 1..(l.length - 1) : old[i] = l.items[i]
  BY TextOfType
<1> HIDE DEF old
<1>6. DOMAIN old = 1..l.length - 1 /\ \A i \in 1..(l.length - 1) : up[i] = items[i] /\ up[i] \in Byte
  BY <1>1, <1>2, <1>5 DEF BufLen
<1> HIDE DEF items, u
<1>7. u \in Terminable /\ u.length = l.length
  BY <1>1, <1>3, <1>4 DEF Terminable, Memory, Capacity
<1>8. up \in Seq(Byte) /\ Len(up) = l.length - 1
  <2>1. up = [i \in DOMAIN old |-> up[i]]
    OBVIOUS
  <2> HIDE DEF up
  <2> QED BY <1>1, <1>5, <1>6, <2>1, SameLength
<1> HIDE DEF up
<1>9. TextOf(u) = up
  <2>1. u.length = Len(up) + 1 /\ \A i \in 1..Len(up) : u.items[i] = up[i]
    BY <1>1, <1>3, <1>6, <1>7, <1>8
  <2> QED BY <1>7, <1>8, <2>1, TextIs
<1> QED BY <1>7, <1>9 DEF u, up, old

(* A buffer that nobody has used is an empty text.                         *)
LEMMA EmptyText ==
  ASSUME NEW l \in Memory, l.length = 0
  PROVE  TextOf(l) = <<>> /\ InUse(l) = <<>>
<1>1. TextOf(l) = <<>>
  <2>1. BufLen(l) = -1 /\ l.items \in Seq(Byte)
    BY DEF BufLen, Memory
  <2> QED BY <2>1 DEF TextOf
<1>2. InUse(l) = <<>>
  <2>1. l.items \in Seq(Byte)
    BY DEF Memory
  <2> QED BY <2>1 DEF InUse
<1> QED BY <1>1, <1>2

(* What resize keeps of the text.                                          *)
LEMMA ResizedKeeps ==
  ASSUME NEW l \in Memory, l.length # 0 => l \in Terminable, NEW n \in Nat, CanHold(l, n + 1)
  PROVE  /\ BufResized(l, n) \in Memory
         /\ Len(TextOf(BufResized(l, n))) = n
         /\ \A i \in DOMAIN TextOf(l) : i <= n => TextOf(BufResized(l, n))[i] = TextOf(l)[i]
<1> DEFINE r == BufResized(l, n)
<1>1. r \in Memory
  BY BufResizedType DEF Terminable
<1>2. /\ Len(TextOf(r)) = n
      /\ \A i \in 1..n : i <= l.length => TextOf(r)[i] = l.items[i]
  BY BufResizedText
<1> HIDE DEF r
<1>3. CASE l.length = 0
  <2>1. DOMAIN TextOf(l) = {}
    BY <1>3, EmptyText
  <2> QED BY <1>1, <1>2, <2>1 DEF r
<1>4. CASE l.length # 0
  <2>1. /\ TextOf(l) \in Seq(Byte) /\ Len(TextOf(l)) = l.length - 1
        /\ \A i \in 1..(l.length - 1) : TextOf(l)[i] = l.items[i]
    BY <1>4, TextOfType
  <2>2. l.length \in Nat /\ DOMAIN TextOf(l) = 1..l.length - 1
    BY <2>1 DEF Memory
  <2>3. ASSUME NEW i \in 1..l.length - 1, i <= n
        PROVE  TextOf(r)[i] = TextOf(l)[i]
    <3>1. i \in 1..n /\ i <= l.length
      BY <2>2, <2>3
    <3> QED BY <1>2, <2>1, <3>1
  <2> QED BY <1>1, <1>2, <2>2, <2>3 DEF r
<1> QED BY <1>3, <1>4

(* The items of a list.                                                    *)
LEMMA InUseType ==
  ASSUME NEW l \in Memory
  PROVE  /\ InUse(l) \in Seq(Byte) /\ Len(InUse(l)) = l.length
         /\ \A i \in 1..l.length : InUse(l)[i] = l.items[i]
<1>1. /\ l.items \in Seq(Byte) /\ l.length \in Nat /\ l.length <= Len(l.items)
      /\ Len(l.items) \in Nat
  BY DEF Memory, Capacity
<1>2. 1 \in 1..Len(l.items) + 1 /\ l.length \in 1 - 1..Len(l.items)
  BY <1>1
<1> QED BY <1>1, <1>2, SubSeqProperties DEF InUse

(* A list that holds these items.                                          *)
LEMMA InUseIs ==
  ASSUME NEW l \in Memory, NEW t \in Seq(Byte), l.length = Len(t),
         \A i \in 1..Len(t) : l.items[i] = t[i]
  PROVE  InUse(l) = t
<1>1. /\ InUse(l) \in Seq(Byte) /\ Len(InUse(l)) = Len(t)
      /\ \A i \in 1..Len(t) : InUse(l)[i] = t[i]
  BY InUseType
<1> HIDE DEF InUse
<1> QED BY <1>1, SeqEqual

(* A text and one more byte.                                               *)
LEMMA OneMore ==
  ASSUME NEW s \in Seq(Byte), NEW x \in Byte
  PROVE  /\ s \o <<x>> \in Seq(Byte) /\ Len(s \o <<x>>) = Len(s) + 1
         /\ (s \o <<x>>)[Len(s) + 1] = x
         /\ \A i \in 1..Len(s) : (s \o <<x>>)[i] = s[i]
<1> DEFINE t == <<x>>
           u == s \o t
<1>1. t \in Seq(Byte) /\ Len(t) = 1 /\ t[1] = x /\ Len(s) \in Nat
  OBVIOUS
<1> HIDE DEF t
<1>2. /\ u \in Seq(Byte) /\ Len(u) = Len(s) + 1
      /\ \A j \in 1..Len(s) + 1 : u[j] = IF j <= Len(s) THEN s[j] ELSE t[j - Len(s)]
  <2> DEFINE k == Len(s)
             m == k + 1
  <2>1. k \in Nat /\ m \in Nat /\ Len(s) = k /\ k + Len(t) = m /\ t \in Seq(Byte)
    BY <1>1
  <2> HIDE DEF k, m
  <2>2. /\ u \in Seq(Byte) /\ Len(u) = m
        /\ \A j \in 1..m : u[j] = IF j <= k THEN s[j] ELSE t[j - k]
    BY <2>1, Behind
  <2> QED BY <2>2 DEF k, m
<1> HIDE DEF u
<1>3. u[Len(s) + 1] = x
  <2>1. (Len(s) + 1) - Len(s) = 1 /\ ~(Len(s) + 1 <= Len(s)) /\ Len(s) + 1 \in 1..Len(s) + 1
    BY <1>1
  <2> QED BY <1>1, <1>2, <2>1
<1>4. \A i \in 1..Len(s) : u[i] = s[i]
  BY <1>1, <1>2
<1> QED BY <1>2, <1>3, <1>4 DEF u, t

(* An item is written behind those in use.                                 *)
LEMMA PushedItems ==
  ASSUME NEW l \in Memory, NEW x \in Byte, CanHold(l, l.length + 1)
  PROVE  InUse(Pushed(l, x)) = InUse(l) \o <<x>>
<1> DEFINE old == InUse(l)
           new == old \o <<x>>
           p == Pushed(l, x)
           items == EnsureCapacity(l, l.length + 1).items
           n == l.length
<1>1. n \in Nat /\ n + 1 \in Nat
  BY DEF Memory
<1>2. /\ items \in Seq(Byte) /\ n + 1 \in 1..Len(items)
      /\ \A i \in 1..n : items[i] = l.items[i]
  BY <1>1, EnsureCapacityHolds DEF Memory, Capacity
<1>3. p \in Memory
  BY PushedType
<1>4. p.items = [items EXCEPT ![n + 1] = x] /\ p.length = n + 1
  BY DEF Pushed
<1>5. old \in Seq(Byte) /\ Len(old) = n /\ \A i \in 1..n : old[i] = l.items[i]
  BY InUseType
<1> HIDE DEF items, p, old
<1>6. /\ new \in Seq(Byte) /\ Len(new) = n + 1 /\ new[n + 1] = x
      /\ \A i \in 1..n : new[i] = old[i]
  <2>1. /\ new \in Seq(Byte) /\ Len(new) = Len(old) + 1 /\ new[Len(old) + 1] = x
        /\ \A i \in 1..Len(old) : new[i] = old[i]
    BY <1>5, OneMore
  <2> HIDE DEF new
  <2> QED BY <1>5, <2>1
<1> HIDE DEF new, n
<1>7. \A i \in 1..n + 1 : p.items[i] = new[i]
  <2>1. p.items[n + 1] = x
    BY <1>2, <1>4
  <2>2. \A i \in 1..n : p.items[i] = items[i]
    BY <1>1, <1>2, <1>4
  <2>3. \A i \in 1..n + 1 : i = n + 1 \/ i \in 1..n
    BY <1>1
  <2> QED BY <1>2, <1>5, <1>6, <2>1, <2>2, <2>3
<1>8. InUse(p) = new
  BY <1>3, <1>4, <1>6, <1>7, InUseIs
<1> QED BY <1>8 DEF p, new, old

(* The last item is taken off.                                             *)
LEMMA PoppedItems ==
  ASSUME NEW l \in Memory, l.length >= 1
  PROVE  /\ WithLength(l, l.length - 1) \in Memory
         /\ InUse(WithLength(l, l.length - 1)) = SubSeq(InUse(l), 1, Len(InUse(l)) - 1)
         /\ InUse(l) # <<>>
<1> DEFINE old == InUse(l)
           n == l.length
           p == WithLength(l, n - 1)
           t == SubSeq(old, 1, n - 1)
<1>1. n \in Nat /\ n - 1 \in Nat /\ n <= Len(l.items) /\ l.items \in Seq(Byte)
  BY DEF Memory, Capacity
<1>2. p.length = n - 1 /\ p.items = l.items /\ p \in Memory
  BY <1>1 DEF WithLength, Memory, Capacity
<1>3. old \in Seq(Byte) /\ Len(old) = n /\ \A i \in 1..n : old[i] = l.items[i]
  BY InUseType
<1>4. old # <<>>
  BY <1>1, <1>3
<1> HIDE DEF p, old
<1>5. t \in Seq(Byte) /\ Len(t) = n - 1 /\ \A i \in 1..n - 1 : t[i] = old[i]
  <2>1. 1 \in 1..Len(old) + 1 /\ n - 1 \in 1 - 1..Len(old)
    BY <1>1, <1>3
  <2> QED BY <1>1, <1>3, <2>1, SubSeqProperties
<1> HIDE DEF t
<1>6. \A i \in 1..n - 1 : p.items[i] = t[i]
  BY <1>1, <1>2, <1>3, <1>5
<1>7. InUse(p) = t
  BY <1>2, <1>5, <1>6, InUseIs
<1> QED BY <1>2, <1>3, <1>4, <1>7 DEF p, t, old

(* An item nobody has written is added.                                    *)
LEMMA AddedItems ==
  ASSUME NEW l \in Memory, CanHold(l, l.length + 1)
  PROVE  /\ Resized(l, l.length + 1) \in Memory
         /\ Len(InUse(Resized(l, l.length + 1))) = Len(InUse(l)) + 1
         /\ InUse(Resized(l, l.length + 1)) =
              InUse(l) \o <<InUse(Resized(l, l.length + 1))[Len(InUse(l)) + 1]>>
<1> DEFINE old == InUse(l)
           n == l.length
           r == Resized(l, n + 1)
           all == InUse(r)
           new == old \o <<all[n + 1]>>
<1>1. n \in Nat /\ n + 1 \in Nat
  BY DEF Memory
<1>2. r \in Memory /\ r.length = n + 1
  BY <1>1, ResizedType
<1>3. \A i \in 1..n : r.items[i] = l.items[i]
  BY <1>1, EnsureCapacityHolds DEF Resized, WithLength
<1>4. old \in Seq(Byte) /\ Len(old) = n /\ \A i \in 1..n : old[i] = l.items[i]
  BY InUseType
<1> HIDE DEF r, old, n
<1>5. all \in Seq(Byte) /\ Len(all) = n + 1 /\ \A i \in 1..n + 1 : all[i] = r.items[i]
  BY <1>2, InUseType
<1> HIDE DEF all
<1>6. all[n + 1] \in Byte
  BY <1>1, <1>5
<1>7. /\ new \in Seq(Byte) /\ Len(new) = n + 1 /\ new[n + 1] = all[n + 1]
      /\ \A i \in 1..n : new[i] = old[i]
  <2>1. /\ new \in Seq(Byte) /\ Len(new) = Len(old) + 1 /\ new[Len(old) + 1] = all[n + 1]
        /\ \A i \in 1..Len(old) : new[i] = old[i]
    BY <1>4, <1>6, OneMore
  <2> HIDE DEF new
  <2> QED BY <1>4, <2>1
<1> HIDE DEF new
<1>8. \A i \in 1..n + 1 : all[i] = new[i]
  <2>1. \A i \in 1..n + 1 : i = n + 1 \/ i \in 1..n
    BY <1>1
  <2> QED BY <1>3, <1>4, <1>5, <1>7, <2>1
<1>9. all = new
  BY <1>5, <1>7, <1>8, SeqEqual
<1> QED BY <1>2, <1>4, <1>5, <1>9 DEF all, new, r, old, n

-----------------------------------------------------------------------------
(* Steps.                                                                  *)

(* A buffer that is in use is terminated.                                  *)
LEMMA InUseTerminable ==
  ASSUME IInv, NEW b \in Buf
  PROVE  mem[b] \in Memory /\ (Initialized(b) => mem[b] \in Terminable)
BY DEF IInv, TypeOK, TerminatorInPlace, Terminable, Initialized

(* A buffer nobody has used.                                                *)
LEMMA UnsetType == Unset \in Memory
<1>1. <<>> \in Seq(Byte) /\ Len(<<>>) = 0
  OBVIOUS
<1> QED BY <1>1 DEF Unset, Memory, Capacity

(* A call that leaves a terminated buffer in the place of one.             *)
LEMMA BufferKeeps ==
  ASSUME IInv, NEW c, Called(c), NEW b \in Buf, NEW l \in Terminable,
         Returns([mem EXCEPT ![b] = l])
  PROVE  IInv'
<1> USE DEF IInv, TypeOK
<1>1. l \in Memory
  BY DEF Terminable
<1>2. mem' \in [Buf \cup List -> Memory]
  BY <1>1 DEF Returns
<1>3. TerminatorInPlace'
  BY <1>2 DEF TerminatorInPlace, Initialized, Terminable, Returns
<1>4. (calls \in 0..MaxCalls)' /\ outcome' = outcome
  BY SizesAssumption DEF Called, Returns
<1> QED BY <1>2, <1>3, <1>4

(* One that leaves a list in the place of one.                             *)
LEMMA ListKeeps ==
  ASSUME IInv, NEW c, Called(c), NEW l \in List, NEW k \in Memory,
         Returns([mem EXCEPT ![l] = k])
  PROVE  IInv'
<1> USE DEF IInv, TypeOK
<1>1. mem' \in [Buf \cup List -> Memory]
  BY DEF Returns
<1>2. TerminatorInPlace'
  BY <1>1, NamesAssumption DEF TerminatorInPlace, Initialized, Returns
<1>3. (calls \in 0..MaxCalls)' /\ outcome' = outcome
  BY SizesAssumption DEF Called, Returns
<1> QED BY <1>1, <1>2, <1>3

(* One that ends the program.                                              *)
LEMMA FailsKeeps ==
  ASSUME IInv, NEW c, Called(c), NEW how \in {"assert", "panic", "overflow"}, Fails(how)
  PROVE  IInv'
BY SizesAssumption DEF IInv, TypeOK, TerminatorInPlace, Initialized, Called, Fails

(* A call that stores a terminated buffer, or leaves the ints.              *)
LEMMA StoresKeeps ==
  ASSUME IInv, NEW c, Called(c), NEW b \in Buf, NEW n, NEW l,
         CanHold(mem[b], n) => l \in Terminable, Stores(b, n, l)
  PROVE  IInv'
<1>1. CASE CanHold(mem[b], n)
  BY <1>1, BufferKeeps DEF Stores
<1>2. CASE ~CanHold(mem[b], n)
  BY <1>2, FailsKeeps DEF Stores
<1> QED BY <1>1, <1>2

(* The same of a list.                                                      *)
LEMMA ListStoresKeeps ==
  ASSUME IInv, NEW c, Called(c), NEW b \in List, NEW n, NEW l,
         CanHold(mem[b], n) => l \in Memory, Stores(b, n, l)
  PROVE  IInv'
<1>1. CASE CanHold(mem[b], n)
  BY <1>1, ListKeeps DEF Stores
<1>2. CASE ~CanHold(mem[b], n)
  BY <1>2, FailsKeeps DEF Stores
<1> QED BY <1>1, <1>2

(* buf_resize.                                                             *)
LEMMA ResizeKeeps ==
  ASSUME IInv, NEW b \in Buf, NEW n \in Nat, Resize(b, n)
  PROVE  IInv'
BY InUseTerminable, BufResizedType, StoresKeeps DEF Resize

(* buf_alloc_fixed.                                                         *)
LEMMA AllocKeeps ==
  ASSUME IInv, NEW b \in Buf, NEW n \in Nat, Alloc(b, n)
  PROVE  IInv'
<1>1. CASE CanHold(Unset, n + 1)
  <2>1. BufResized(Unset, n) \in Terminable
    BY <1>1, UnsetType, BufResizedType
  <2> QED BY <1>1, <2>1, BufferKeeps DEF Alloc
<1>2. CASE ~CanHold(Unset, n + 1)
  BY <1>2, FailsKeeps DEF Alloc
<1> QED BY <1>1, <1>2

(* buf_init_from_mem, into memory that is new or is reused.                 *)
LEMMA AssignKeeps ==
  ASSUME IInv, NEW b \in Buf, NEW t \in Seq(Byte), Assign(b, t)
  PROVE  IInv'
<1>1. PICK l \in Fresh(b) : IF CanHold(l, Len(t) + 1)
                            THEN Returns([mem EXCEPT ![b] = BufFromMem(l, t)])
                            ELSE Fails("overflow")
  BY DEF Assign
<1>2. l \in Memory
  BY InUseTerminable, UnsetType DEF Fresh
<1>3. Called(<<"assign", b, t>>)
  BY DEF Assign
<1>4. CASE CanHold(l, Len(t) + 1)
  BY <1>1, <1>2, <1>3, <1>4, BufFromMemType, BufferKeeps
<1>5. CASE ~CanHold(l, Len(t) + 1)
  BY <1>1, <1>3, <1>5, FailsKeeps
<1> QED BY <1>4, <1>5

(* buf_init_from_buf.                                                       *)
LEMMA CopyBufKeeps ==
  ASSUME IInv, NEW b \in Buf, NEW c \in Buf, CopyBuf(b, c)
  PROVE  IInv'
<1>1. Called(<<"copy", b, c>>) /\ mem[b] \in Memory
  BY InUseTerminable DEF CopyBuf
<1>2. CASE Initialized(c)
  <2>1. mem[c] \in Terminable
    BY <1>2, InUseTerminable
  <2>2. TextOf(mem[c]) \in Seq(Byte) /\ Len(TextOf(mem[c])) + 1 = mem[c].length
    <3>1. /\ TextOf(mem[c]) \in Seq(Byte) /\ Len(TextOf(mem[c])) = mem[c].length - 1
          /\ mem[c].length \in Nat
      BY <2>1, TextOfType DEF Terminable, Memory
    <3> QED BY <3>1
  <2>3. CanHold(mem[b], mem[c].length) => BufFromMem(mem[b], TextOf(mem[c])) \in Terminable
    BY <1>1, <2>2, BufFromMemType
  <2>4. Stores(b, mem[c].length, BufFromMem(mem[b], TextOf(mem[c])))
    BY <1>2 DEF CopyBuf
  <2> QED BY <1>1, <2>3, <2>4, StoresKeeps
<1>3. CASE ~Initialized(c)
  BY <1>1, <1>3, FailsKeeps DEF CopyBuf
<1> QED BY <1>2, <1>3

(* buf_append_mem.                                                          *)
LEMMA AppendMemKeeps ==
  ASSUME IInv, NEW b \in Buf, NEW t \in Seq(Byte), AppendMem(b, t)
  PROVE  IInv'
<1>1. Called(<<"append", b, t>>)
  BY DEF AppendMem
<1>2. CASE Initialized(b)
  <2>1. CanHold(mem[b], mem[b].length + Len(t)) => BufAppended(mem[b], t) \in Terminable
    BY <1>2, InUseTerminable, BufAppendedType
  <2> QED BY <1>1, <1>2, <2>1, StoresKeeps DEF AppendMem
<1>3. CASE ~Initialized(b)
  BY <1>1, <1>3, FailsKeeps DEF AppendMem
<1> QED BY <1>2, <1>3

(* Whatever is read from memory that the resize has freed.                 *)
LEMMA ConcatKeeps ==
  ASSUME IInv, NEW b \in Buf, NEW c \in Buf, Concat(b, c)
  PROVE  IInv'
<1>1. Called(<<"concat", b, c>>)
  BY DEF Concat
<1>2. CASE Initialized(b) /\ Initialized(c)
  <2>1. PICK t \in Read(b, c) : Stores(b, mem[b].length + Len(t), BufAppended(mem[b], t))
    BY <1>2 DEF Concat
  <2>2. TextOf(mem[c]) \in Seq(Byte)
    BY <1>2, InUseTerminable, TextOfType
  <2>3. t \in Seq(Byte)
    <3>1. \A s \in Seq(Byte) : [i \in DOMAIN s |-> Junk] \in Seq(Byte)
      <4> TAKE s \in Seq(Byte)
      <4>1. DOMAIN s = 1..Len(s) /\ Len(s) \in Nat /\ Junk \in Byte
        BY DEF Byte
      <4> QED BY <4>1
    <3>2. t \in {TextOf(mem[c])} \cup Moved(TextOf(mem[c]))
      BY <2>1 DEF Read
    <3> QED BY <2>2, <3>1, <3>2 DEF Moved
  <2>4. CanHold(mem[b], mem[b].length + Len(t)) => BufAppended(mem[b], t) \in Terminable
    BY <1>2, <2>3, InUseTerminable, BufAppendedType
  <2> QED BY <1>1, <2>1, <2>4, StoresKeeps
<1>3. CASE ~(Initialized(b) /\ Initialized(c))
  BY <1>1, <1>3, FailsKeeps DEF Concat
<1> QED BY <1>2, <1>3

(* buf_appendf.                                                             *)
LEMMA FormatKeeps ==
  ASSUME IInv, NEW b \in Buf, NEW t \in Seq(Byte), Format(b, t)
  PROVE  IInv'
<1>1. Called(<<"format", b, t>>)
  BY DEF Format
<1>2. CASE Initialized(b)
  <2>1. CanHold(mem[b], mem[b].length + Len(t) + 1) => BufFormatted(mem[b], t) \in Terminable
    BY <1>2, InUseTerminable, BufFormattedType
  <2> QED BY <1>1, <1>2, <2>1, StoresKeeps DEF Format
<1>3. CASE ~Initialized(b)
  BY <1>1, <1>3, FailsKeeps DEF Format
<1> QED BY <1>2, <1>3

(* buf_slice, whose bounds are inside the contents.                         *)
LEMMA SliceKeeps ==
  ASSUME IInv, NEW b \in Buf, NEW c \in Buf, NEW s \in Nat, NEW e \in Nat, Slice(b, c, s, e)
  PROVE  IInv'
<1>1. Called(<<"slice", b, c, s, e>>)
  BY DEF Slice
<1> DEFINE part == SubSeq(TextOf(mem[c]), s + 1, e)
<1>2. CASE SliceExists(c, s, e) /\ CanHold(Unset, e - s + 1)
  <2>1. TextOf(mem[c]) \in Seq(Byte) /\ Len(TextOf(mem[c])) = BufLen(mem[c])
    BY <1>2, InUseTerminable, TextOfType DEF SliceExists, BufLen
  <2>2. /\ s + 1 \in 1..Len(TextOf(mem[c])) + 1
        /\ e \in (s + 1) - 1..Len(TextOf(mem[c]))
    BY <1>2, <2>1 DEF SliceExists
  <2>3. part \in Seq(Byte) /\ Len(part) + 1 = e - s + 1
    <3>1. part \in Seq(Byte) /\ Len(part) = IF s + 1 <= e THEN e - (s + 1) + 1 ELSE 0
      BY <2>1, <2>2, SubSeqProperties
    <3> QED BY <2>2, <3>1
  <2> HIDE DEF part
  <2>4. BufFromMem(Unset, part) \in Terminable
    BY <1>2, <2>3, UnsetType, BufFromMemType
  <2>5. Returns([mem EXCEPT ![b] = BufFromMem(Unset, part)])
    BY <1>2 DEF Slice, part
  <2> QED BY <1>1, <2>4, <2>5, BufferKeeps
<1>3. CASE ~(SliceExists(c, s, e) /\ CanHold(Unset, e - s + 1))
  BY <1>1, <1>3, FailsKeeps DEF Slice
<1> QED BY <1>2, <1>3

(* buf_upcase stops in front of the terminator.                             *)
LEMMA UpcaseKeeps ==
  ASSUME IInv, NEW b \in Buf, Upcase(b)
  PROVE  IInv'
<1>1. Called(<<"upcase", b>>)
  BY DEF Upcase
<1>2. CASE Initialized(b)
  BY <1>1, <1>2, InUseTerminable, UpcasedText, BufferKeeps DEF Upcase
<1>3. CASE ~Initialized(b)
  BY <1>1, <1>3, FailsKeeps DEF Upcase
<1> QED BY <1>2, <1>3

(* fread writes as many bytes as the file has.                              *)
LEMMA FetchFileKeeps ==
  ASSUME IInv, NEW b \in Buf, NEW t \in Seq(Byte), FetchFile(b, t)
  PROVE  IInv'
<1>1. Called(<<"fetch", b, t>>)
  BY DEF FetchFile
<1>2. CASE Stores(b, Len(t) + 1, Copied(BufResized(mem[b], Len(t)), 0, t))
  BY <1>1, <1>2, InUseTerminable, FetchedText, StoresKeeps
<1>3. CASE Fails("panic")
  BY <1>1, <1>3, FailsKeeps
<1> QED BY <1>2, <1>3 DEF FetchFile

(* os_get_cwd.                                                             *)
LEMMA GetCwdKeeps ==
  ASSUME IInv, NEW b \in Buf, NEW path \in Seq(Byte), GetCwd(b, path)
  PROVE  IInv'
<1>1. Called(<<"cwd", b, path>>)
  BY DEF GetCwd
<1>2. CASE CwdFits(path) # {} /\ ~Fails("panic")
  <2>1. CanHold(mem[b], CwdLength(path) + 1) => CwdBuffer(mem[b], path) \in Terminable
    BY <1>2, InUseTerminable, CwdBufferHolds DEF CwdText
  <2> QED BY <1>1, <1>2, <2>1, StoresKeeps DEF GetCwd
<1>3. CASE CwdFits(path) = {} \/ Fails("panic")
  BY <1>1, <1>3, FailsKeeps DEF GetCwd
<1> QED BY <1>2, <1>3

(* os_path_split stores two buffers.                                        *)
LEMMA PathSplitKeeps ==
  ASSUME IInv, NEW d \in Buf, NEW n \in Buf, NEW p \in Buf, PathSplit(d, n, p)
  PROVE  IInv'
<1>1. Called(<<"split", d, n, p>>) /\ d # n
  BY DEF PathSplit
<1> DEFINE path == TextOf(mem[p])
           fits == /\ CanHold(mem[d], Len(Dirname(path)) + 1)
                   /\ CanHold(mem[n], Len(Basename(path)) + 1)
<1>2. CASE Initialized(p) /\ fits
  <2> DEFINE dir == BufFromMem(mem[d], Dirname(path))
             name == BufFromMem(mem[n], Basename(path))
  <2>1. path \in Seq(Byte)
    BY <1>2, InUseTerminable, TextOfType
  <2>2. Returns([mem EXCEPT ![d] = dir, ![n] = name])
    BY <1>1, <1>2 DEF PathSplit
  <2> HIDE DEF path
  <2>3. dir \in Terminable /\ name \in Terminable
    BY <1>2, <2>1, SplitType, InUseTerminable, BufFromMemType
  <2> HIDE DEF dir, name
  <2>4. dir \in Memory /\ name \in Memory
    BY <2>3 DEF Terminable
  <2>5. mem' \in [Buf \cup List -> Memory] /\ outcome' = outcome
    BY <2>2, <2>4 DEF Returns, IInv, TypeOK
  <2>6. \A b \in Buf : mem'[b] = IF b = n THEN name ELSE IF b = d THEN dir ELSE mem[b]
    BY <2>2 DEF Returns, IInv, TypeOK
  <2>7. TerminatorInPlace'
    <3> SUFFICES ASSUME NEW b \in Buf, mem'[b].length # 0
                 PROVE  mem'[b].items[mem'[b].length] = Nul
      BY DEF TerminatorInPlace, Initialized
    <3> QED BY <2>3, <2>6 DEF Terminable, IInv, TerminatorInPlace, Initialized
  <2>8. (calls \in 0..MaxCalls)'
    BY <1>1, SizesAssumption DEF Called, IInv, TypeOK
  <2> QED BY <2>5, <2>7, <2>8 DEF IInv, TypeOK
<1>3. CASE ~(Initialized(p) /\ fits)
  BY <1>1, <1>3, FailsKeeps DEF PathSplit
<1> QED BY <1>2, <1>3

(* What os_path_join leaves.                                               *)
Joined(b, d, n) ==
  BufAppended(BufAppended(BufFromMem(mem[b], TextOf(mem[d])), <<"/">>), TextOf(mem[n]))

(* A path that is joined from two.                                         *)
LEMMA JoinedText ==
  ASSUME IInv, NEW b \in Buf, NEW d \in Buf, NEW n \in Buf, PathJoin(b, d, n),
         ~Fails("overflow"), ~Fails("assert")
  PROVE  /\ Initialized(d) /\ Initialized(n)
         /\ Returns([mem EXCEPT ![b] = Joined(b, d, n)])
         /\ Joined(b, d, n) \in Terminable
         /\ TextOf(Joined(b, d, n)) = TextOf(mem[d]) \o <<"/">> \o TextOf(mem[n])
<1> DEFINE front == TextOf(mem[d])
           back == TextOf(mem[n])
           dir == BufFromMem(mem[b], front)
           slash == BufAppended(dir, <<"/">>)
           joined == BufAppended(slash, back)
           fits == /\ CanHold(mem[b], mem[d].length)
                   /\ CanHold(dir, mem[d].length + 1)
                   /\ CanHold(slash, mem[d].length + mem[n].length)
<1>1. Initialized(d) /\ Initialized(n) /\ fits
  BY DEF PathJoin
<1>2. Returns([mem EXCEPT ![b] = joined])
  BY <1>1 DEF PathJoin
<1>3. /\ mem[d] \in Terminable /\ mem[n] \in Terminable /\ mem[b] \in Memory
      /\ mem[d].length \in Nat /\ mem[n].length \in Nat
  BY <1>1, InUseTerminable DEF Terminable, Memory
<1>4. /\ front \in Seq(Byte) /\ Len(front) + 1 = mem[d].length
      /\ back \in Seq(Byte) /\ Len(back) + 1 = mem[n].length
  <2>1. /\ front \in Seq(Byte) /\ Len(front) = mem[d].length - 1
        /\ back \in Seq(Byte) /\ Len(back) = mem[n].length - 1
    BY <1>3, TextOfType
  <2> QED BY <1>3, <2>1
<1> HIDE DEF front, back
<1>5. dir \in Terminable /\ dir.length = mem[d].length /\ TextOf(dir) = front
  BY <1>1, <1>3, <1>4, BufFromMemType, BufFromMemText
<1>6. /\ slash \in Terminable /\ slash.length = mem[d].length + 1
      /\ TextOf(slash) = front \o <<"/">>
  <2>1. <<"/">> \in Seq(Byte) /\ Len(<<"/">>) = 1
    BY DEF Byte
  <2> HIDE DEF dir
  <2> QED BY <1>1, <1>5, <2>1, BufAppendedType, BufAppendedText
<1>7. joined \in Terminable /\ TextOf(joined) = front \o <<"/">> \o back
  <2> HIDE DEF slash
  <2>1. slash.length + Len(back) = mem[d].length + mem[n].length
    BY <1>3, <1>4, <1>6
  <2> QED BY <1>1, <1>4, <1>6, <2>1, BufAppendedType, BufAppendedText
<1>8. joined = Joined(b, d, n)
  BY DEF Joined, front, back
<1> HIDE DEF joined
<1> QED BY <1>1, <1>2, <1>7, <1>8 DEF front, back

(* os_path_join stores into one buffer three times.                         *)
LEMMA PathJoinKeeps ==
  ASSUME IInv, NEW b \in Buf, NEW d \in Buf, NEW n \in Buf, PathJoin(b, d, n)
  PROVE  IInv'
<1>1. Called(<<"join", b, d, n>>)
  BY DEF PathJoin
<1>2. CASE ~Fails("overflow") /\ ~Fails("assert")
  BY <1>1, <1>2, JoinedText, BufferKeeps
<1>3. CASE Fails("overflow") \/ Fails("assert")
  BY <1>1, <1>3, FailsKeeps
<1> QED BY <1>2, <1>3

(* The calls on lists change no buffer.                                     *)
LEMMA ListCallKeeps ==
  ASSUME IInv, NEW l \in List, ListCall(l)
  PROVE  IInv'
<1>1. /\ mem[l] \in Memory /\ mem[l].length \in Nat
      /\ mem[l].items \in Seq(Byte) /\ mem[l].length <= Len(mem[l].items)
  BY DEF IInv, TypeOK, Memory, Capacity
<1>2. ASSUME NEW x \in {"a", "A"}, Push(l, x)
      PROVE  IInv'
  <2>1. CanHold(mem[l], mem[l].length + 1) => Pushed(mem[l], x) \in Memory
    BY <1>1, PushedType DEF Byte
  <2> QED BY <1>2, <2>1, ListStoresKeeps DEF Push
<1>3. CASE Pop(l)
  <2>1. CASE mem[l].length >= 1
    <3>1. WithLength(mem[l], mem[l].length - 1) \in Memory
      BY <1>1, <2>1 DEF WithLength, Memory, Capacity
    <3> QED BY <1>3, <2>1, <3>1, ListKeeps DEF Pop
  <2>2. CASE ~(mem[l].length >= 1)
    BY <1>3, <2>2, FailsKeeps DEF Pop
  <2> QED BY <2>1, <2>2
<1>4. CASE AddOne(l)
  <2>1. CanHold(mem[l], mem[l].length + 1) => Resized(mem[l], mem[l].length + 1) \in Memory
    BY <1>1, ResizedType
  <2> QED BY <1>4, <2>1, ListStoresKeeps DEF AddOne
<1>5. CASE Clear(l)
  <2>1. WithLength(mem[l], 0) \in Memory
    BY <1>1 DEF WithLength, Memory, Capacity
  <2> QED BY <1>5, <2>1, ListKeeps DEF Clear
<1> QED BY <1>2, <1>3, <1>4, <1>5 DEF ListCall

(* Every call of buffer.hpp.                                                *)
LEMMA BufCallKeeps ==
  ASSUME IInv, NEW b \in Buf, BufCall(b)
  PROVE  IInv'
<1>1. Strings \subseteq Seq(Byte)
  BY StringsAssumption
<1>2. CASE \E n \in {0, 2} : Alloc(b, n) \/ Resize(b, n)
  BY <1>2, AllocKeeps, ResizeKeeps
<1>3. CASE \E t \in Strings : Assign(b, t) \/ AppendMem(b, t) \/ Format(b, t)
  BY <1>1, <1>3, AssignKeeps, AppendMemKeeps, FormatKeeps
<1>4. CASE \E c \in Buf : CopyBuf(b, c) \/ Concat(b, c)
  BY <1>4, CopyBufKeeps, ConcatKeeps
<1>5. CASE \E c \in Buf : \E s \in 0..1, e \in 1..2 : Slice(b, c, s, e)
  BY <1>5, SliceKeeps
<1>6. CASE Upcase(b)
  BY <1>6, UpcaseKeeps
<1> QED BY <1>2, <1>3, <1>4, <1>5, <1>6 DEF BufCall

(* Every call of os.cpp.                                                    *)
LEMMA OsCallKeeps ==
  ASSUME IInv, NEW b \in Buf, OsCall(b)
  PROVE  IInv'
<1>1. Files \subseteq Seq(Byte) /\ Directories \subseteq Seq(Byte)
  BY StringsAssumption
<1>2. CASE \E t \in Files : FetchFile(b, t)
  BY <1>1, <1>2, FetchFileKeeps
<1>3. CASE \E path \in Directories : GetCwd(b, path)
  BY <1>1, <1>3, GetCwdKeeps
<1>4. CASE \E c, d \in Buf : PathSplit(b, c, d) \/ PathJoin(b, c, d)
  BY <1>4, PathSplitKeeps, PathJoinKeeps
<1> QED BY <1>2, <1>3, <1>4 DEF OsCall

-----------------------------------------------------------------------------
(* What TextSpec sees.                                                     *)

(* What TextSpec sees of the memory.                                       *)
Texts == [b \in Buf |-> TextOf(mem[b])]
Lists == [l \in List |-> InUse(mem[l])]
Said == IF outcome = "running" THEN call ELSE <<"failed">>

(* A call that leaves a buffer in the place of one.                        *)
LEMMA BufferBecomes ==
  ASSUME IInv, NEW c, Called(c), NEW b \in Buf, NEW l \in Memory,
         Returns([mem EXCEPT ![b] = l])
  PROVE  /\ Texts' = [Texts EXCEPT ![b] = TextOf(l)]
         /\ Texts'[b] = TextOf(l) /\ Texts[b] = TextOf(mem[b])
         /\ Lists' = Lists
         /\ Said' = c
<1>1. Said' = c
  BY DEF Called, Returns, Said
<1>2. \A a \in Buf \cup List : mem'[a] = IF a = b THEN l ELSE mem[a]
  BY DEF Returns, IInv, TypeOK
<1>3. Texts' = [Texts EXCEPT ![b] = TextOf(l)]
  BY <1>2 DEF Texts
<1>4. Lists' = Lists
  BY <1>2, NamesAssumption DEF Lists
<1> QED BY <1>1, <1>3, <1>4 DEF Texts

(* A call that leaves a list in the place of one.                          *)
LEMMA ListBecomes ==
  ASSUME IInv, NEW c, Called(c), NEW b \in List, NEW l \in Memory,
         Returns([mem EXCEPT ![b] = l])
  PROVE  /\ Lists' = [Lists EXCEPT ![b] = InUse(l)]
         /\ Lists'[b] = InUse(l) /\ Lists[b] = InUse(mem[b])
         /\ Texts' = Texts
         /\ Said' = c
<1>1. Said' = c
  BY DEF Called, Returns, Said
<1>2. \A a \in Buf \cup List : mem'[a] = IF a = b THEN l ELSE mem[a]
  BY DEF Returns, IInv, TypeOK
<1>3. Lists' = [Lists EXCEPT ![b] = InUse(l)]
  BY <1>2 DEF Lists
<1>4. Texts' = Texts
  BY <1>2, NamesAssumption DEF Texts
<1> QED BY <1>1, <1>3, <1>4 DEF Lists

(* A call that fails.                                                      *)
LEMMA FailsStops ==
  ASSUME NEW c, Called(c), NEW how \in {"assert", "panic", "overflow"}, Fails(how)
  PROVE  Contents!Next
<1>1. Said' = <<"failed">> /\ Texts' = Texts /\ Lists' = Lists
  BY DEF Called, Fails, Said, Texts, Lists
<1>2. Len(<<"failed">>) = 0 + 1 /\ <<"failed">>[1] = "failed"
  OBVIOUS
<1>3. Contents!Stop
  BY <1>1, <1>2 DEF Contents!Stop, Contents!Is, Said, Texts, Lists
<1> QED BY <1>3 DEF Contents!Next

(* A call of one argument.                                                 *)
LEMMA Pairs ==
  ASSUME NEW a, NEW b
  PROVE  Len(<<a, b>>) = 1 + 1 /\ <<a, b>>[1] = a /\ <<a, b>>[1 + 1] = b
OBVIOUS

(* One of two.                                                             *)
LEMMA Triples ==
  ASSUME NEW a, NEW b, NEW c
  PROVE  /\ Len(<<a, b, c>>) = 2 + 1 /\ <<a, b, c>>[1] = a
         /\ <<a, b, c>>[1 + 1] = b /\ <<a, b, c>>[2 + 1] = c
OBVIOUS

(* One of three.                                                           *)
LEMMA Quadruples ==
  ASSUME NEW a, NEW b, NEW c, NEW d
  PROVE  /\ Len(<<a, b, c, d>>) = 3 + 1 /\ <<a, b, c, d>>[1] = a
         /\ <<a, b, c, d>>[1 + 1] = b /\ <<a, b, c, d>>[2 + 1] = c /\ <<a, b, c, d>>[3 + 1] = d
OBVIOUS

(* One of four.                                                            *)
LEMMA Quintuples ==
  ASSUME NEW a, NEW b, NEW c, NEW d, NEW e
  PROVE  /\ Len(<<a, b, c, d, e>>) = 4 + 1 /\ <<a, b, c, d, e>>[1] = a
         /\ <<a, b, c, d, e>>[1 + 1] = b /\ <<a, b, c, d, e>>[2 + 1] = c
         /\ <<a, b, c, d, e>>[3 + 1] = d /\ <<a, b, c, d, e>>[4 + 1] = e
OBVIOUS

(* buf_init_from_mem.                                                      *)
LEMMA AssignImplements ==
  ASSUME IInv, NEW b \in Buf, NEW t \in Seq(Byte), Assign(b, t)
  PROVE  Contents!Next
<1>1. PICK l \in Fresh(b) : IF CanHold(l, Len(t) + 1)
                            THEN Returns([mem EXCEPT ![b] = BufFromMem(l, t)])
                            ELSE Fails("overflow")
  BY DEF Assign
<1>2. l \in Memory
  BY InUseTerminable, UnsetType DEF Fresh
<1>3. Called(<<"assign", b, t>>)
  BY DEF Assign
<1>4. CASE CanHold(l, Len(t) + 1)
  <2>1. BufFromMem(l, t) \in Memory /\ TextOf(BufFromMem(l, t)) = t
    BY <1>2, <1>4, BufFromMemType, BufFromMemText DEF Terminable
  <2>2. Returns([mem EXCEPT ![b] = BufFromMem(l, t)])
    BY <1>1, <1>4
  <2> DEFINE c == <<"assign", b, t>>
  <2>3. Len(c) = 2 + 1 /\ c[1] = "assign" /\ c[1 + 1] = b /\ c[2 + 1] = t
    BY Triples
  <2>4. Called(c)
    BY <1>3
  <2> HIDE DEF c
  <2>5. Texts' = [Texts EXCEPT ![b] = t] /\ Lists' = Lists /\ Said' = c
    BY <2>1, <2>2, <2>4, BufferBecomes
  <2>6. Contents!Assign /\ Lists' = Lists
    BY <2>3, <2>5 DEF Contents!Assign, Contents!Becomes, Contents!Arg, Contents!Is, Texts, Said
  <2> QED BY <2>6 DEF Contents!Next, Contents!TextNext, Lists
<1>5. CASE ~CanHold(l, Len(t) + 1)
  BY <1>1, <1>3, <1>5, FailsStops
<1> QED BY <1>4, <1>5

(* buf_resize.                                                             *)
LEMMA ResizeImplements ==
  ASSUME IInv, NEW b \in Buf, NEW n \in Nat, Resize(b, n)
  PROVE  Contents!Next
<1> DEFINE l == mem[b]
           r == BufResized(l, n)
           c == <<"resize", b, n>>
<1>1. Called(c)
  BY DEF Resize
<1>2. CASE CanHold(l, n + 1)
  <2>1. l \in Memory /\ (l.length # 0 => l \in Terminable)
    BY InUseTerminable DEF Initialized
  <2>2. Returns([mem EXCEPT ![b] = r])
    BY <1>2 DEF Resize, Stores
  <2>3. /\ r \in Memory /\ Len(TextOf(r)) = n
        /\ \A i \in DOMAIN TextOf(mem[b]) : i <= n => TextOf(r)[i] = TextOf(mem[b])[i]
    <3> HIDE DEF l
    <3>1. /\ r \in Memory /\ Len(TextOf(r)) = n
          /\ \A i \in DOMAIN TextOf(l) : i <= n => TextOf(r)[i] = TextOf(l)[i]
      BY <1>2, <2>1, ResizedKeeps
    <3> QED BY <3>1 DEF l
  <2>4. Len(c) = 2 + 1 /\ c[1] = "resize" /\ c[1 + 1] = b /\ c[2 + 1] = n
    BY Triples
  <2> HIDE DEF c, r
  <2>5. /\ Texts' = [Texts EXCEPT ![b] = Texts'[b]] /\ Lists' = Lists /\ Said' = c
        /\ Texts'[b] = TextOf(r) /\ Texts[b] = TextOf(mem[b])
    BY <1>1, <2>2, <2>3, BufferBecomes
  <2>6. Contents!Resize
    BY <2>3, <2>4, <2>5
       DEF Contents!Resize, Contents!Keeps, Contents!Becomes, Contents!Old, Contents!Arg, Contents!Is,
           Texts, Said
  <2> QED BY <2>5, <2>6 DEF Contents!Next, Contents!TextNext, Lists
<1>3. CASE ~CanHold(l, n + 1)
  <2>1. Fails("overflow")
    BY <1>3 DEF Resize, Stores
  <2> QED BY <1>1, <2>1, FailsStops
<1> QED BY <1>2, <1>3

(* buf_alloc_fixed.                                                        *)
LEMMA AllocImplements ==
  ASSUME IInv, NEW b \in Buf, NEW n \in Nat, Alloc(b, n)
  PROVE  Contents!Next
<1> DEFINE r == BufResized(Unset, n)
           c == <<"alloc", b, n>>
<1>1. Called(c)
  BY DEF Alloc
<1>2. CASE CanHold(Unset, n + 1)
  <2>1. Returns([mem EXCEPT ![b] = r])
    BY <1>2 DEF Alloc
  <2>2. /\ r \in Memory /\ Len(TextOf(r)) = n
    BY <1>2, UnsetType, ResizedKeeps DEF Unset
  <2>3. Len(c) = 2 + 1 /\ c[1] = "alloc" /\ c[1 + 1] = b /\ c[2 + 1] = n
    BY Triples
  <2> HIDE DEF c, r
  <2>4. /\ Texts' = [Texts EXCEPT ![b] = Texts'[b]] /\ Lists' = Lists /\ Said' = c
        /\ Texts'[b] = TextOf(r)
    BY <1>1, <2>1, <2>2, BufferBecomes
  <2>6. \A i \in DOMAIN <<>> : i <= n => Texts'[b][i] = <<>>[i]
    OBVIOUS
  <2>7. /\ Len(Texts'[b]) = n /\ Texts' = [Texts EXCEPT ![b] = Texts'[b]]
        /\ Said'[1] = "alloc" /\ Said'[1 + 1] = b /\ Said'[2 + 1] = n /\ Len(Said') = 2 + 1
    BY <2>2, <2>3, <2>4
  <2>5. Contents!Alloc
    BY <2>6, <2>7
       DEF Contents!Alloc, Contents!Keeps, Contents!Becomes, Contents!Arg, Contents!Is, Texts, Said
  <2> QED BY <2>4, <2>5 DEF Contents!Next, Contents!TextNext, Lists
<1>3. CASE ~CanHold(Unset, n + 1)
  BY <1>1, <1>3, FailsStops DEF Alloc
<1> QED BY <1>2, <1>3

(* buf_init_from_buf.                                                      *)
LEMMA CopyBufImplements ==
  ASSUME IInv, NEW b \in Buf, NEW d \in Buf, CopyBuf(b, d)
  PROVE  Contents!Next
<1> DEFINE t == TextOf(mem[d])
           l == BufFromMem(mem[b], t)
           c == <<"copy", b, d>>
<1>1. Called(c) /\ mem[b] \in Memory
  BY InUseTerminable DEF CopyBuf
<1>2. CASE Initialized(d) /\ CanHold(mem[b], mem[d].length)
  <2>1. Returns([mem EXCEPT ![b] = l])
    BY <1>2 DEF CopyBuf, Stores
  <2>2. t \in Seq(Byte) /\ Len(t) + 1 = mem[d].length
    <3>1. mem[d] \in Terminable /\ mem[d].length \in Nat
      BY <1>2, InUseTerminable DEF Terminable, Memory
    <3>2. t \in Seq(Byte) /\ Len(t) = mem[d].length - 1
      BY <3>1, TextOfType
    <3> QED BY <3>1, <3>2
  <2>3. l \in Memory /\ TextOf(l) = t
    <3> HIDE DEF t
    <3> QED BY <1>1, <1>2, <2>2, BufFromMemType, BufFromMemText DEF Terminable
  <2>4. Len(c) = 2 + 1 /\ c[1] = "copy" /\ c[1 + 1] = b /\ c[2 + 1] = d
    BY Triples
  <2> HIDE DEF c, l
  <2>5. Texts' = [Texts EXCEPT ![b] = Texts[d]] /\ Lists' = Lists /\ Said' = c
    BY <1>1, <2>1, <2>3, BufferBecomes DEF Texts
  <2>6. Contents!Copy
    BY <2>4, <2>5 DEF Contents!Copy, Contents!Becomes, Contents!Arg, Contents!Is, Texts, Said
  <2> QED BY <2>5, <2>6 DEF Contents!Next, Contents!TextNext, Lists
<1>3. CASE ~(Initialized(d) /\ CanHold(mem[b], mem[d].length))
  <2>1. Fails("overflow") \/ Fails("assert")
    BY <1>3 DEF CopyBuf, Stores
  <2> QED BY <1>1, <2>1, FailsStops
<1> QED BY <1>2, <1>3

(* buf_append_mem.                                                         *)
LEMMA AppendMemImplements ==
  ASSUME IInv, NEW b \in Buf, NEW t \in Seq(Byte), AppendMem(b, t)
  PROVE  Contents!Next
<1> DEFINE l == BufAppended(mem[b], t)
           c == <<"append", b, t>>
<1>1. Called(c)
  BY DEF AppendMem
<1>2. CASE Initialized(b) /\ CanHold(mem[b], mem[b].length + Len(t))
  <2>1. Returns([mem EXCEPT ![b] = l])
    BY <1>2 DEF AppendMem, Stores
  <2>2. l \in Memory /\ TextOf(l) = TextOf(mem[b]) \o t
    BY <1>2, InUseTerminable, BufAppendedType, BufAppendedText DEF Terminable
  <2>3. Len(c) = 2 + 1 /\ c[1] = "append" /\ c[1 + 1] = b /\ c[2 + 1] = t
    BY Triples
  <2> HIDE DEF c, l
  <2>4. Texts' = [Texts EXCEPT ![b] = Texts[b] \o t] /\ Lists' = Lists /\ Said' = c
    BY <1>1, <2>1, <2>2, BufferBecomes
  <2>5. Contents!AppendMem
    BY <2>3, <2>4
       DEF Contents!AppendMem, Contents!Becomes, Contents!Old, Contents!Arg, Contents!Is, Texts, Said
  <2> QED BY <2>4, <2>5 DEF Contents!Next, Contents!TextNext, Lists
<1>3. CASE ~(Initialized(b) /\ CanHold(mem[b], mem[b].length + Len(t)))
  <2>1. Fails("overflow") \/ Fails("assert")
    BY <1>3 DEF AppendMem, Stores
  <2> QED BY <1>1, <2>1, FailsStops
<1> QED BY <1>2, <1>3

(* buf_appendf.                                                            *)
LEMMA FormatImplements ==
  ASSUME IInv, NEW b \in Buf, NEW t \in Seq(Byte), Format(b, t)
  PROVE  Contents!Next
<1> DEFINE l == BufFormatted(mem[b], t)
           c == <<"format", b, t>>
<1>1. Called(c)
  BY DEF Format
<1>2. CASE Initialized(b) /\ CanHold(mem[b], mem[b].length + Len(t) + 1)
  <2>1. Returns([mem EXCEPT ![b] = l])
    BY <1>2 DEF Format, Stores
  <2>2. l \in Memory /\ TextOf(l) = Formatted(TextOf(mem[b]), t)
    BY <1>2, InUseTerminable, BufFormattedType, BufFormattedText DEF Terminable
  <2>3. Len(c) = 2 + 1 /\ c[1] = "format" /\ c[1 + 1] = b /\ c[2 + 1] = t
    BY Triples
  <2> HIDE DEF c, l
  <2>4. Texts' = [Texts EXCEPT ![b] = Formatted(Texts[b], t)] /\ Lists' = Lists /\ Said' = c
    BY <1>1, <2>1, <2>2, BufferBecomes
  <2>5. Contents!Format
    BY <2>3, <2>4
       DEF Contents!Format, Contents!Becomes, Contents!Old, Contents!Arg, Contents!Is,
           Contents!Formatted, Formatted, Texts, Said
  <2> QED BY <2>4, <2>5 DEF Contents!Next, Contents!TextNext, Lists
<1>3. CASE ~(Initialized(b) /\ CanHold(mem[b], mem[b].length + Len(t) + 1))
  <2>1. Fails("overflow") \/ Fails("assert")
    BY <1>3 DEF Format, Stores
  <2> QED BY <1>1, <2>1, FailsStops
<1> QED BY <1>2, <1>3

(* Any text of the same length behind a text.                              *)
LEMMA BehindItself ==
  ASSUME NEW s \in Seq(Byte), NEW t \in Seq(Byte), Len(t) = Len(s)
  PROVE  /\ Len(s \o t) = 2 * Len(s)
         /\ \A i \in DOMAIN s : (s \o t)[i] = s[i]
<1>1. Len(s \o t) = Len(s) + Len(t) /\ Len(s) \in Nat /\ DOMAIN s = 1..Len(s)
  BY ConcatProperties
<1>2. \A i \in 1..Len(s) : (s \o t)[i] = s[i]
  OBVIOUS
<1> QED BY <1>1, <1>2

(* TextSpec reads C strings as Buffers does.                               *)
LEMMA SameCString == \A s : Contents!CString(s) = CString(s)
BY DEF Contents!CString, CString, Contents!Ends, Ends

(* buf_append_buf, of another buffer or of the same.                       *)
LEMMA ConcatImplements ==
  ASSUME IInv, NEW b \in Buf, NEW d \in Buf, Concat(b, d)
  PROVE  Contents!Next
<1> DEFINE old == TextOf(mem[b])
           src == TextOf(mem[d])
           c == <<"concat", b, d>>
<1>1. Called(c)
  BY DEF Concat
<1>2. CASE Initialized(b) /\ Initialized(d)
  <2>1. PICK t \in Read(b, d) : Stores(b, mem[b].length + Len(t), BufAppended(mem[b], t))
    BY <1>2 DEF Concat
  <2>2. src \in Seq(Byte) /\ old \in Seq(Byte) /\ mem[b] \in Terminable
    BY <1>2, InUseTerminable, TextOfType
  <2>3. t \in Seq(Byte) /\ Len(t) = Len(src) /\ (b # d => t = src)
    <3>1. ASSUME NEW s \in Seq(Byte)
          PROVE  [i \in DOMAIN s |-> Junk] \in Seq(Byte) /\ Len([i \in DOMAIN s |-> Junk]) = Len(s)
      <4>1. DOMAIN s = 1..Len(s) /\ Len(s) \in Nat /\ Junk \in Byte
        BY DEF Byte
      <4> QED BY <4>1
    <3>2. t \in {src} \cup Moved(src) /\ (b # d => t = src)
      BY <2>1 DEF Read
    <3> QED BY <2>2, <3>1, <3>2 DEF Moved
  <2> DEFINE l == BufAppended(mem[b], t)
  <2>4. CASE CanHold(mem[b], mem[b].length + Len(t))
    <3>1. Returns([mem EXCEPT ![b] = l])
      BY <2>1, <2>4 DEF Stores
    <3>2. l \in Memory /\ TextOf(l) = old \o t
      BY <2>2, <2>3, <2>4, BufAppendedType, BufAppendedText DEF Terminable
    <3>3. Len(c) = 2 + 1 /\ c[1] = "concat" /\ c[1 + 1] = b /\ c[2 + 1] = d
      BY Triples
    <3> HIDE DEF c, l
    <3>4. /\ Texts' = [Texts EXCEPT ![b] = old \o t] /\ Lists' = Lists /\ Said' = c
          /\ Texts'[b] = old \o t /\ Texts[b] = old /\ Texts[d] = src
      BY <1>1, <3>1, <3>2, BufferBecomes DEF Texts
    <3> HIDE DEF old, src
    <3>5. CASE b # d
      <4>1. Texts' = [Texts EXCEPT ![b] = Texts[b] \o Texts[d]]
        BY <2>3, <3>4, <3>5
      <4>2. Contents!Concat
        BY <3>3, <3>4, <3>5, <4>1
           DEF Contents!Concat, Contents!Becomes, Contents!Old, Contents!Arg, Contents!Is, Texts, Said
      <4> QED BY <3>4, <4>2 DEF Contents!Next, Contents!TextNext, Lists
    <3>6. CASE b = d
      <4>1. Len(t) = Len(old)
        BY <2>3, <3>6 DEF src, old
      <4>2. /\ Len(old \o t) = 2 * Len(old)
            /\ \A i \in DOMAIN old : (old \o t)[i] = old[i]
        BY <2>2, <2>3, <4>1, BehindItself
      <4>3. /\ Len(Texts'[b]) = 2 * Len(Texts[b]) /\ Texts' = [Texts EXCEPT ![b] = Texts'[b]]
            /\ \A i \in DOMAIN Texts[b] : i <= 2 * Len(Texts[b]) => Texts'[b][i] = Texts[b][i]
        BY <3>4, <4>2
      <4>4. Contents!Concat
        BY <3>3, <3>4, <3>6, <4>3
           DEF Contents!Concat, Contents!Keeps, Contents!Becomes, Contents!Old, Contents!Arg,
               Contents!Is, Texts, Said
      <4> QED BY <3>4, <4>4 DEF Contents!Next, Contents!TextNext, Lists
    <3> QED BY <3>5, <3>6
  <2>5. CASE ~CanHold(mem[b], mem[b].length + Len(t))
    <3>1. Fails("overflow")
      BY <2>1, <2>5 DEF Stores
    <3> QED BY <1>1, <3>1, FailsStops
  <2> QED BY <2>4, <2>5
<1>3. CASE ~(Initialized(b) /\ Initialized(d))
  BY <1>1, <1>3, FailsStops DEF Concat
<1> QED BY <1>2, <1>3

(* buf_slice.                                                              *)
LEMMA SliceImplements ==
  ASSUME IInv, NEW b \in Buf, NEW d \in Buf, NEW s \in Nat, NEW e \in Nat, Slice(b, d, s, e)
  PROVE  Contents!Next
<1> DEFINE part == SubSeq(TextOf(mem[d]), s + 1, e)
           l == BufFromMem(Unset, part)
           c == <<"slice", b, d, s, e>>
<1>1. Called(c)
  BY DEF Slice
<1>2. CASE SliceExists(d, s, e) /\ CanHold(Unset, e - s + 1)
  <2>1. TextOf(mem[d]) \in Seq(Byte) /\ Len(TextOf(mem[d])) = BufLen(mem[d])
    BY <1>2, InUseTerminable, TextOfType DEF SliceExists, BufLen
  <2>2. /\ s + 1 \in 1..Len(TextOf(mem[d])) + 1
        /\ e \in (s + 1) - 1..Len(TextOf(mem[d]))
    BY <1>2, <2>1 DEF SliceExists
  <2>3. part \in Seq(Byte) /\ Len(part) + 1 = e - s + 1
    <3>1. part \in Seq(Byte) /\ Len(part) = IF s + 1 <= e THEN e - (s + 1) + 1 ELSE 0
      BY <2>1, <2>2, SubSeqProperties
    <3> QED BY <2>2, <3>1
  <2>4. Returns([mem EXCEPT ![b] = l])
    BY <1>2 DEF Slice
  <2>5. l \in Memory /\ TextOf(l) = part
    <3> HIDE DEF part
    <3> QED BY <1>2, <2>3, UnsetType, BufFromMemType, BufFromMemText DEF Terminable
  <2>6. Len(c) = 4 + 1 /\ c[1] = "slice" /\ c[1 + 1] = b /\ c[2 + 1] = d /\ c[3 + 1] = s /\ c[4 + 1] = e
    BY Quintuples
  <2> HIDE DEF c, l
  <2>7. /\ Texts' = [Texts EXCEPT ![b] = part] /\ Lists' = Lists /\ Said' = c
        /\ Texts[d] = TextOf(mem[d])
    BY <1>1, <2>4, <2>5, BufferBecomes DEF Texts
  <2>8. Texts' = [Texts EXCEPT ![b] = SubSeq(Texts[d], s + 1, e)]
    BY <2>7
  <2>9. Contents!Slice
    BY <2>6, <2>7, <2>8 DEF Contents!Slice, Contents!Becomes, Contents!Arg, Contents!Is, Texts, Said
  <2> QED BY <2>7, <2>9 DEF Contents!Next, Contents!TextNext, Lists
<1>3. CASE ~(SliceExists(d, s, e) /\ CanHold(Unset, e - s + 1))
  <2>1. Fails("overflow") \/ Fails("assert")
    BY <1>3 DEF Slice
  <2> QED BY <1>1, <2>1, FailsStops
<1> QED BY <1>2, <1>3

(* buf_upcase.                                                             *)
LEMMA UpcaseImplements ==
  ASSUME IInv, NEW b \in Buf, Upcase(b)
  PROVE  Contents!Next
<1> DEFINE l == BufUpcased(mem[b])
           c == <<"upcase", b>>
<1>1. Called(c)
  BY DEF Upcase
<1>2. CASE Initialized(b)
  <2>1. Returns([mem EXCEPT ![b] = l])
    BY <1>2 DEF Upcase
  <2>2. /\ l \in Memory
        /\ TextOf(l) = [i \in DOMAIN TextOf(mem[b]) |-> Uppercase(TextOf(mem[b])[i])]
    BY <1>2, InUseTerminable, UpcasedText DEF Terminable
  <2>3. Len(c) = 1 + 1 /\ c[1] = "upcase" /\ c[1 + 1] = b
    BY Pairs
  <2> HIDE DEF c, l
  <2>4. /\ Texts' = [Texts EXCEPT ![b] = TextOf(l)] /\ Lists' = Lists /\ Said' = c
        /\ Texts[b] = TextOf(mem[b])
    BY <1>1, <2>1, <2>2, BufferBecomes
  <2>5. Texts' = [Texts EXCEPT ![b] = [i \in DOMAIN Texts[b] |-> Uppercase(Texts[b][i])]]
    BY <2>2, <2>4
  <2>6. Contents!Upcase
    BY <2>3, <2>4, <2>5
       DEF Contents!Upcase, Contents!Becomes, Contents!Old, Contents!Arg, Contents!Is,
           Contents!Uppercase, Uppercase, Texts, Said
  <2> QED BY <2>4, <2>6 DEF Contents!Next, Contents!TextNext, Lists
<1>3. CASE ~Initialized(b)
  BY <1>1, <1>3, FailsStops DEF Upcase
<1> QED BY <1>2, <1>3

(* os_fetch_file.                                                          *)
LEMMA FetchFileImplements ==
  ASSUME IInv, NEW b \in Buf, NEW t \in Seq(Byte), FetchFile(b, t)
  PROVE  Contents!Next
<1> DEFINE l == Copied(BufResized(mem[b], Len(t)), 0, t)
           c == <<"fetch", b, t>>
<1>1. Called(c)
  BY DEF FetchFile
<1>2. CASE CanHold(mem[b], Len(t) + 1) /\ ~Fails("panic")
  <2>1. Returns([mem EXCEPT ![b] = l])
    BY <1>2 DEF FetchFile, Stores
  <2>2. l \in Memory /\ TextOf(l) = t
    BY <1>2, InUseTerminable, FetchedText DEF Terminable
  <2>3. Len(c) = 2 + 1 /\ c[1] = "fetch" /\ c[1 + 1] = b /\ c[2 + 1] = t
    BY Triples
  <2> HIDE DEF c, l
  <2>4. Texts' = [Texts EXCEPT ![b] = t] /\ Lists' = Lists /\ Said' = c
    BY <1>1, <2>1, <2>2, BufferBecomes
  <2>5. Contents!Assign
    BY <2>3, <2>4 DEF Contents!Assign, Contents!Becomes, Contents!Arg, Contents!Is, Texts, Said
  <2> QED BY <2>4, <2>5 DEF Contents!Next, Contents!TextNext, Lists
<1>3. CASE ~CanHold(mem[b], Len(t) + 1) \/ Fails("panic")
  <2>1. Fails("overflow") \/ Fails("panic")
    BY <1>3 DEF FetchFile, Stores
  <2> QED BY <1>1, <2>1, FailsStops
<1> QED BY <1>2, <1>3

(* os_get_cwd.                                                             *)
LEMMA GetCwdImplements ==
  ASSUME IInv, NEW b \in Buf, NEW path \in Seq(Byte), Ends(path) = {}, GetCwd(b, path)
  PROVE  Contents!Next
<1> DEFINE l == CwdBuffer(mem[b], path)
           n == CwdLength(path) + 1
           c == <<"cwd", b, path>>
<1>1. Called(c) /\ mem[b] \in Memory
  BY InUseTerminable DEF GetCwd
<1>2. CASE CwdFits(path) # {} /\ CanHold(mem[b], n) /\ ~Fails("panic")
  <2>1. Returns([mem EXCEPT ![b] = l])
    BY <1>2 DEF GetCwd, Stores
  <2>2. l \in Memory /\ CString(TextOf(l)) = path
    <3>1. CwdText(l, path)
      BY <1>1, <1>2, CwdBufferHolds
    <3> HIDE DEF l
    <3>2. TextOf(l) \in Seq(Byte)
      BY <3>1, TextOfType DEF CwdText
    <3> QED BY <3>1, <3>2, CStringIs DEF CwdText, Terminable
  <2>3. Len(c) = 2 + 1 /\ c[1] = "cwd" /\ c[1 + 1] = b /\ c[2 + 1] = path
    BY Triples
  <2> HIDE DEF c, l
  <2>4. /\ Texts' = [Texts EXCEPT ![b] = Texts'[b]] /\ Lists' = Lists /\ Said' = c
        /\ Texts'[b] = TextOf(l)
    BY <1>1, <2>1, <2>2, BufferBecomes
  <2>5. Contents!CString(Texts'[b]) = path
    BY <2>2, <2>4, SameCString
  <2>6. Contents!Cwd
    BY <2>3, <2>4, <2>5
       DEF Contents!Cwd, Contents!Becomes, Contents!Arg, Contents!Is, Texts, Said
  <2> QED BY <2>4, <2>6 DEF Contents!Next, Contents!TextNext, Lists
<1>3. CASE ~(CwdFits(path) # {} /\ CanHold(mem[b], n)) \/ Fails("panic")
  <2>1. Fails("overflow") \/ Fails("panic")
    BY <1>3 DEF GetCwd, Stores
  <2> QED BY <1>1, <2>1, FailsStops
<1> QED BY <1>2, <1>3

(* os_path_split.                                                          *)
LEMMA PathSplitImplements ==
  ASSUME IInv, NEW d \in Buf, NEW n \in Buf, NEW p \in Buf, PathSplit(d, n, p)
  PROVE  Contents!Next
<1> DEFINE path == TextOf(mem[p])
           dir == BufFromMem(mem[d], Dirname(path))
           name == BufFromMem(mem[n], Basename(path))
           fits == /\ CanHold(mem[d], Len(Dirname(path)) + 1)
                   /\ CanHold(mem[n], Len(Basename(path)) + 1)
           c == <<"split", d, n, p>>
<1>1. Called(c) /\ d # n /\ mem[d] \in Memory /\ mem[n] \in Memory
  BY InUseTerminable DEF PathSplit
<1>2. CASE Initialized(p) /\ fits
  <2>1. path \in Seq(Byte)
    BY <1>2, InUseTerminable, TextOfType
  <2>2. Returns([mem EXCEPT ![d] = dir, ![n] = name])
    BY <1>1, <1>2 DEF PathSplit
  <2>3. Texts[p] = path
    BY DEF Texts
  <2> HIDE DEF path
  <2>4. TextOf(dir) = Dirname(path) /\ TextOf(name) = Basename(path)
    BY <1>1, <1>2, <2>1, SplitType, BufFromMemText
  <2>5. TextOf(dir) \o <<"/">> \o TextOf(name) \in {Texts[p], <<".", "/">> \o Texts[p]}
    BY <2>1, <2>3, <2>4, SplitIsPath
  <2>6. Len(c) = 3 + 1 /\ c[1] = "split" /\ c[1 + 1] = d /\ c[2 + 1] = n /\ c[3 + 1] = p
    BY Quadruples
  <2> HIDE DEF c, dir, name
  <2>7. Said' = c
    BY <1>1, <2>2 DEF Called, Returns, Said
  <2>8. \A a \in Buf \cup List : mem'[a] = IF a = n THEN name ELSE IF a = d THEN dir ELSE mem[a]
    BY <2>2 DEF Returns, IInv, TypeOK
  <2>9. Lists' = Lists
    BY <2>8, NamesAssumption DEF Lists
  <2>10. Texts'[d] = TextOf(dir) /\ Texts'[n] = TextOf(name)
    BY <1>1, <2>8 DEF Texts
  <2>11. Texts' = [Texts EXCEPT ![d] = Texts'[d], ![n] = Texts'[n]]
    <3>1. \A a \in Buf : Texts'[a] = IF a = n THEN Texts'[n] ELSE IF a = d THEN Texts'[d] ELSE Texts[a]
      BY <1>1, <2>8 DEF Texts
    <3>2. Texts = [a \in Buf |-> Texts[a]] /\ Texts' = [a \in Buf |-> Texts'[a]]
      BY DEF Texts
    <3> QED BY <1>1, <3>1, <3>2
  <2>12. Texts'[d] \o <<"/">> \o Texts'[n] \in {Texts[p], <<".", "/">> \o Texts[p]}
    BY <2>5, <2>10
  <2>13. Contents!Split
    BY <2>6, <2>7, <2>11, <2>12
       DEF Contents!Split, Contents!Arg, Contents!Is, Texts, Said
  <2> QED BY <2>9, <2>13 DEF Contents!Next, Contents!TextNext, Lists
<1>3. CASE ~(Initialized(p) /\ fits)
  <2>1. Fails("overflow") \/ Fails("assert")
    BY <1>3 DEF PathSplit
  <2> QED BY <1>1, <2>1, FailsStops
<1> QED BY <1>2, <1>3

(* os_path_join.                                                           *)
LEMMA PathJoinImplements ==
  ASSUME IInv, NEW b \in Buf, NEW d \in Buf, NEW n \in Buf, PathJoin(b, d, n)
  PROVE  Contents!Next
<1> DEFINE c == <<"join", b, d, n>>
           l == Joined(b, d, n)
<1>1. Called(c)
  BY DEF PathJoin
<1>2. CASE ~Fails("overflow") /\ ~Fails("assert")
  <2>1. /\ Returns([mem EXCEPT ![b] = l]) /\ l \in Memory
        /\ TextOf(l) = TextOf(mem[d]) \o <<"/">> \o TextOf(mem[n])
    BY <1>2, JoinedText DEF Terminable
  <2>2. Len(c) = 3 + 1 /\ c[1] = "join" /\ c[1 + 1] = b /\ c[2 + 1] = d /\ c[3 + 1] = n
    BY Quadruples
  <2> HIDE DEF c, l
  <2>3. /\ Texts' = [Texts EXCEPT ![b] = TextOf(l)] /\ Lists' = Lists /\ Said' = c
        /\ Texts[d] = TextOf(mem[d]) /\ Texts[n] = TextOf(mem[n])
    BY <1>1, <2>1, BufferBecomes DEF Texts
  <2>4. Texts' = [Texts EXCEPT ![b] = Texts[d] \o <<"/">> \o Texts[n]]
    BY <2>1, <2>3
  <2>5. Contents!Join
    BY <2>2, <2>3, <2>4 DEF Contents!Join, Contents!Becomes, Contents!Arg, Contents!Is, Texts, Said
  <2> QED BY <2>3, <2>5 DEF Contents!Next, Contents!TextNext, Lists
<1>3. CASE Fails("overflow") \/ Fails("assert")
  BY <1>1, <1>3, FailsStops
<1> QED BY <1>2, <1>3

(* The calls on lists.                                                     *)
LEMMA ListCallImplements ==
  ASSUME IInv, NEW l \in List, ListCall(l)
  PROVE  Contents!Next
<1>1. mem[l] \in Memory /\ Lists[l] = InUse(mem[l])
  BY DEF IInv, TypeOK, Lists
<1>2. ASSUME NEW x \in Byte, Push(l, x)
      PROVE  Contents!Next
  <2> DEFINE k == Pushed(mem[l], x)
             c == <<"push", l, x>>
  <2>1. Called(c)
    BY <1>2 DEF Push
  <2>2. CASE CanHold(mem[l], mem[l].length + 1)
    <3>1. Returns([mem EXCEPT ![l] = k])
      BY <1>2, <2>2 DEF Push, Stores
    <3>2. k \in Memory /\ InUse(k) = InUse(mem[l]) \o <<x>>
      BY <1>1, <2>2, PushedType, PushedItems
    <3>3. Len(c) = 2 + 1 /\ c[1] = "push" /\ c[1 + 1] = l /\ c[2 + 1] = x
      BY Triples
    <3> HIDE DEF c, k
    <3>4. /\ Lists' = [Lists EXCEPT ![l] = Lists[l] \o <<x>>] /\ Texts' = Texts /\ Said' = c
      BY <1>1, <2>1, <3>1, <3>2, ListBecomes
    <3>5. Contents!Push
      BY <3>3, <3>4
         DEF Contents!Push, Contents!Listed, Contents!Items, Contents!Arg, Contents!Is, Lists, Said
    <3> QED BY <3>4, <3>5 DEF Contents!Next, Contents!ListNext, Texts
  <2>3. CASE ~CanHold(mem[l], mem[l].length + 1)
    <3>1. Fails("overflow")
      BY <1>2, <2>3 DEF Push, Stores
    <3> QED BY <2>1, <3>1, FailsStops
  <2> QED BY <2>2, <2>3
<1>3. ASSUME Pop(l)
      PROVE  Contents!Next
  <2> DEFINE k == WithLength(mem[l], mem[l].length - 1)
             c == <<"pop", l>>
  <2>1. Called(c)
    BY <1>3 DEF Pop
  <2>2. CASE mem[l].length >= 1
    <3>1. Returns([mem EXCEPT ![l] = k])
      BY <1>3, <2>2 DEF Pop
    <3>2. /\ k \in Memory /\ InUse(mem[l]) # <<>>
          /\ InUse(k) = SubSeq(InUse(mem[l]), 1, Len(InUse(mem[l])) - 1)
      BY <1>1, <2>2, PoppedItems
    <3>3. Len(c) = 1 + 1 /\ c[1] = "pop" /\ c[1 + 1] = l
      BY Pairs
    <3> HIDE DEF c, k
    <3>4. /\ Lists' = [Lists EXCEPT ![l] = SubSeq(Lists[l], 1, Len(Lists[l]) - 1)]
          /\ Texts' = Texts /\ Said' = c /\ Lists[l] # <<>>
      BY <1>1, <2>1, <3>1, <3>2, ListBecomes
    <3>5. Contents!Pop
      BY <3>3, <3>4
         DEF Contents!Pop, Contents!Listed, Contents!Items, Contents!Arg, Contents!Is, Lists, Said
    <3> QED BY <3>4, <3>5 DEF Contents!Next, Contents!ListNext, Texts
  <2>3. CASE ~(mem[l].length >= 1)
    <3>1. Fails("assert")
      BY <1>3, <2>3 DEF Pop
    <3> QED BY <2>1, <3>1, FailsStops
  <2> QED BY <2>2, <2>3
<1>4. ASSUME AddOne(l)
      PROVE  Contents!Next
  <2> DEFINE k == Resized(mem[l], mem[l].length + 1)
             c == <<"add_one", l>>
  <2>1. Called(c)
    BY <1>4 DEF AddOne
  <2>2. CASE CanHold(mem[l], mem[l].length + 1)
    <3>1. Returns([mem EXCEPT ![l] = k])
      BY <1>4, <2>2 DEF AddOne, Stores
    <3>2. /\ k \in Memory /\ Len(InUse(k)) = Len(InUse(mem[l])) + 1
          /\ InUse(k) = InUse(mem[l]) \o <<InUse(k)[Len(InUse(mem[l])) + 1]>>
      BY <1>1, <2>2, AddedItems
    <3>3. Len(c) = 1 + 1 /\ c[1] = "add_one" /\ c[1 + 1] = l
      BY Pairs
    <3> HIDE DEF c, k
    <3>4. /\ Lists' = [Lists EXCEPT ![l] = InUse(k)] /\ Texts' = Texts /\ Said' = c
          /\ Lists'[l] = InUse(k)
      BY <1>1, <2>1, <3>1, <3>2, ListBecomes
    <3>5. /\ Lists' = [Lists EXCEPT ![l] = Lists[l] \o <<Lists'[l][Len(Lists[l]) + 1]>>]
          /\ Len(Lists'[l]) = Len(Lists[l]) + 1
      BY <1>1, <3>2, <3>4
    <3>6. Contents!AddOne
      BY <3>3, <3>4, <3>5
         DEF Contents!AddOne, Contents!Listed, Contents!Items, Contents!Arg, Contents!Is, Lists, Said
    <3> QED BY <3>4, <3>6 DEF Contents!Next, Contents!ListNext, Texts
  <2>3. CASE ~CanHold(mem[l], mem[l].length + 1)
    <3>1. Fails("overflow")
      BY <1>4, <2>3 DEF AddOne, Stores
    <3> QED BY <2>1, <3>1, FailsStops
  <2> QED BY <2>2, <2>3
<1>5. ASSUME Clear(l)
      PROVE  Contents!Next
  <2> DEFINE k == WithLength(mem[l], 0)
             c == <<"clear", l>>
  <2>1. Called(c) /\ Returns([mem EXCEPT ![l] = k])
    BY <1>5 DEF Clear
  <2>2. k \in Memory /\ InUse(k) = <<>>
    <3>1. k \in Memory /\ k.length = 0
      BY <1>1 DEF WithLength, Memory, Capacity
    <3> HIDE DEF k
    <3> QED BY <3>1, EmptyText
  <2>3. Len(c) = 1 + 1 /\ c[1] = "clear" /\ c[1 + 1] = l
    BY Pairs
  <2> HIDE DEF c, k
  <2>4. Lists' = [Lists EXCEPT ![l] = <<>>] /\ Texts' = Texts /\ Said' = c
    BY <2>1, <2>2, ListBecomes
  <2>5. Contents!Clear
    BY <2>3, <2>4
       DEF Contents!Clear, Contents!Listed, Contents!Arg, Contents!Is, Lists, Said
  <2> QED BY <2>4, <2>5 DEF Contents!Next, Contents!ListNext, Texts
<1> QED BY <1>2, <1>3, <1>4, <1>5 DEF ListCall, Byte

(* Any call.                                                               *)
LEMMA StepImplements ==
  ASSUME IInv, Next
  PROVE  Contents!Next
<1>1. ASSUME NEW b \in Buf, BufCall(b)
      PROVE  Contents!Next
  <2>1. Strings \subseteq Seq(Byte)
    BY StringsAssumption
  <2>2. CASE \E n \in {0, 2} : Alloc(b, n) \/ Resize(b, n)
    BY <2>2, AllocImplements, ResizeImplements
  <2>3. CASE \E t \in Strings : Assign(b, t) \/ AppendMem(b, t) \/ Format(b, t)
    BY <2>1, <2>3, AssignImplements, AppendMemImplements, FormatImplements
  <2>4. CASE \E c \in Buf : CopyBuf(b, c) \/ Concat(b, c)
    BY <2>4, CopyBufImplements, ConcatImplements
  <2>5. CASE \E c \in Buf : \E s \in 0..1, e \in 1..2 : Slice(b, c, s, e)
    BY <2>5, SliceImplements
  <2>6. CASE Upcase(b)
    BY <2>6, UpcaseImplements
  <2> QED BY <1>1, <2>2, <2>3, <2>4, <2>5, <2>6 DEF BufCall
<1>2. ASSUME NEW b \in Buf, OsCall(b)
      PROVE  Contents!Next
  <2>1. Files \subseteq Seq(Byte) /\ Directories \subseteq Seq(Byte)
    BY StringsAssumption
  <2>2. CASE \E t \in Files : FetchFile(b, t)
    BY <2>1, <2>2, FetchFileImplements
  <2>3. CASE \E path \in Directories : GetCwd(b, path)
    BY <2>1, <2>3, PathsAssumption, GetCwdImplements
  <2>4. CASE \E c, d \in Buf : PathSplit(b, c, d) \/ PathJoin(b, c, d)
    BY <2>4, PathSplitImplements, PathJoinImplements
  <2> QED BY <1>2, <2>2, <2>3, <2>4 DEF OsCall
<1> QED BY <1>1, <1>2, ListCallImplements DEF Next

-----------------------------------------------------------------------------
(* Theorems.                                                               *)

(* No call disturbs the invariant: not one of any of the operations.       *)
THEOREM InvariantHolds == Spec => []IInv
<1>1. Init => IInv
  <2> SUFFICES ASSUME Init PROVE IInv
    OBVIOUS
  <2>1. TypeOK
    BY UnsetType, SizesAssumption DEF Init, TypeOK
  <2>2. TerminatorInPlace
    BY DEF Init, TerminatorInPlace, Initialized, Unset
  <2> QED BY <2>1, <2>2 DEF IInv
<1>2. IInv /\ [Next]_vars => IInv'
  <2> SUFFICES ASSUME IInv, [Next]_vars PROVE IInv'
    OBVIOUS
  <2>1. CASE Next
    BY <2>1, BufCallKeeps, OsCallKeeps, ListCallKeeps DEF Next
  <2>2. CASE UNCHANGED vars
    BY <2>2 DEF vars, IInv, TypeOK, TerminatorInPlace, Initialized
  <2> QED BY <2>1, <2>2
<1> QED BY <1>1, <1>2, PTL DEF Spec

(* Memory is what lists and buffers take it for: no length ever passes the *)
(* capacity, no byte comes from outside of the memory.                     *)
THEOREM TypeCorrect == Spec => []TypeOK
BY InvariantHolds, PTL DEF IInv

(* buf_ptr is always a C string (buffer.hpp), after whatever calls.        *)
THEOREM TerminatorHolds == Spec => []TerminatorInPlace
BY InvariantHolds, PTL DEF IInv

(* buf_hash is a function of the contents (buffer.cpp:55-63).              *)
THEOREM HashesAgree == Spec => []EqualKeysHashEqual
<1>1. IInv => EqualKeysHashEqual
  <2> SUFFICES ASSUME IInv, NEW b \in Buf, NEW c \in Buf, Initialized(b), Initialized(c),
                      TextOf(mem[b]) = TextOf(mem[c])
               PROVE  BufHash(mem[b]) = BufHash(mem[c])
    BY DEF EqualKeysHashEqual
  <2>1. ASSUME NEW l \in Terminable
        PROVE  BufHash(l) = LET t == TextOf(l) IN
                            <<Len(t), IF Len(t) > 1 THEN t[2] ELSE Nul>>
    <3>1. /\ l.length \in Nat /\ BufLen(l) = Len(TextOf(l))
          /\ BufLen(l) > 1 => TextOf(l)[2] = l.items[2]
          /\ BufLen(l) = 1 => l.items[2] = Nul
      BY TextOfType DEF BufLen, Terminable, Memory
    <3>2. BufLen(l) \in Int
      BY <3>1 DEF BufLen
    <3> QED BY <3>1, <3>2 DEF BufHash
  <2>2. mem[b] \in Terminable /\ mem[c] \in Terminable
    BY InUseTerminable
  <2> QED BY <2>1, <2>2
<1> QED BY <1>1, InvariantHolds, PTL

(* Behind capacities and terminators, buffers are texts and lists stacks.  *)
THEOREM MemoryIsText == Spec => ImplementsText
<1>1. Init => Contents!Init
  <2> SUFFICES ASSUME Init PROVE Contents!Init
    OBVIOUS
  <2>1. \A b \in Buf \cup List : TextOf(mem[b]) = <<>> /\ InUse(mem[b]) = <<>>
    BY UnsetType, EmptyText DEF Init, Unset
  <2>2. Texts = [b \in Buf |-> <<>>] /\ Lists = [l \in List |-> <<>>]
    BY <2>1 DEF Texts, Lists
  <2>3. Said = <<"none">>
    BY DEF Init, Said
  <2> QED BY <2>2, <2>3 DEF Contents!Init, Texts, Lists, Said
<1>2. IInv /\ [Next]_vars => [Contents!Next]_<<Said, Texts, Lists>>
  <2>1. CASE Next
    BY <2>1, StepImplements
  <2>2. CASE UNCHANGED vars
    BY <2>2 DEF vars, Said, Texts, Lists
  <2> QED BY <2>1, <2>2
<1> QED BY <1>1, <1>2, InvariantHolds, PTL DEF Spec, ImplementsText, Contents!Spec, Said, Texts, Lists

(* Who makes the calls that the action properties are about.               *)
LEMMA Callers ==
  ASSUME Next
  PROVE  \/ \E b \in Buf, path \in Directories : GetCwd(b, path)
         \/ \E b \in Buf, t \in Files : FetchFile(b, t)
         \/ \E b, d, n \in Buf : PathJoin(b, d, n)
         \/ call'[1] \notin {"cwd", "fetch", "join"}
<1>1. ASSUME NEW b \in Buf, BufCall(b)
      PROVE  call'[1] \notin {"cwd", "fetch", "join"}
  <2>1. ASSUME NEW n, Alloc(b, n) \/ Resize(b, n) PROVE call'[1] \in {"alloc", "resize"}
    BY <2>1, Triples DEF Alloc, Resize, Called
  <2>2. ASSUME NEW t, Assign(b, t) \/ AppendMem(b, t) \/ Format(b, t)
        PROVE  call'[1] \in {"assign", "append", "format"}
    BY <2>2, Triples DEF Assign, AppendMem, Format, Called
  <2>3. ASSUME NEW c, CopyBuf(b, c) \/ Concat(b, c) PROVE call'[1] \in {"copy", "concat"}
    BY <2>3, Triples DEF CopyBuf, Concat, Called
  <2>4. ASSUME NEW c, NEW s, NEW e, Slice(b, c, s, e) PROVE call'[1] = "slice"
    BY <2>4, Quintuples DEF Slice, Called
  <2>5. ASSUME Upcase(b) PROVE call'[1] = "upcase"
    BY <2>5, Pairs DEF Upcase, Called
  <2> QED BY <1>1, <2>1, <2>2, <2>3, <2>4, <2>5 DEF BufCall
<1>2. ASSUME NEW l \in List, ListCall(l)
      PROVE  call'[1] \notin {"cwd", "fetch", "join"}
  BY <1>2 DEF ListCall, Push, Pop, AddOne, Clear, Called
<1>3. ASSUME NEW b \in Buf, NEW d \in Buf, NEW n \in Buf, PathSplit(b, d, n)
      PROVE  call'[1] \notin {"cwd", "fetch", "join"}
  BY <1>3 DEF PathSplit, Called
<1> QED BY <1>1, <1>2, <1>3 DEF Next, OsCall

(* What os_get_cwd returned is in the buffer until the next call.          *)
CwdOK ==
  outcome = "running" =>
    \A d \in Buf, path \in Directories : call = <<"cwd", d, path>> => CwdText(mem[d], path)

(* No call but os_get_cwd makes it false, and the next one forgets it.     *)
THEOREM CwdHolds == Spec => []CwdOK
<1>1. Init => CwdOK
  <2> SUFFICES ASSUME Init, NEW d, NEW path PROVE call # <<"cwd", d, path>>
    BY DEF CwdOK
  <2>1. <<"none">>[1] # <<"cwd", d, path>>[1]
    OBVIOUS
  <2> QED BY <2>1 DEF Init
<1>2. IInv /\ CwdOK /\ [Next]_vars => CwdOK'
  <2> SUFFICES ASSUME IInv, CwdOK, [Next]_vars, outcome' = "running",
                      NEW d \in Buf, NEW path \in Directories, call' = <<"cwd", d, path>>
               PROVE  CwdText(mem'[d], path)
    BY DEF CwdOK, CwdText
  <2>1. CASE UNCHANGED vars
    BY <2>1 DEF vars, CwdOK, CwdText
  <2>2. CASE Next
    <3>1. call'[1] = "cwd" /\ call'[1 + 1] = d /\ call'[2 + 1] = path
      BY Triples
    <3>2. PICK b \in Buf, p \in Directories : GetCwd(b, p)
      <4>1. ASSUME NEW b \in Buf, NEW t \in Files, FetchFile(b, t) PROVE FALSE
        BY <3>1, <4>1, Triples DEF FetchFile, Called
      <4>2. ASSUME NEW b \in Buf, NEW e \in Buf, NEW n \in Buf, PathJoin(b, e, n) PROVE FALSE
        BY <3>1, <4>2, Quadruples DEF PathJoin, Called
      <4> QED BY <2>2, <3>1, <4>1, <4>2, Callers
    <3>3. call' = <<"cwd", b, p>> /\ p \in Seq(Byte) /\ mem[b] \in Memory
      BY <3>2, StringsAssumption, InUseTerminable DEF GetCwd, Called
    <3>4. b = d /\ p = path
      BY <3>1, <3>3, Triples
    <3>5. /\ CwdFits(p) # {} /\ CanHold(mem[b], CwdLength(p) + 1)
          /\ Returns([mem EXCEPT ![b] = CwdBuffer(mem[b], p)])
      BY <3>2 DEF GetCwd, Stores, Fails
    <3>6. CwdText(CwdBuffer(mem[b], p), p)
      BY <3>3, <3>5, CwdBufferHolds
    <3>7. mem'[b] = CwdBuffer(mem[b], p)
      BY <3>5 DEF Returns, IInv, TypeOK
    <3> QED BY <3>4, <3>6, <3>7
  <2> QED BY <2>1, <2>2
<1> QED BY <1>1, <1>2, InvariantHolds, PTL DEF Spec

(* A path that begins with a NUL-terminated one is that one to fopen       *)
(* (main.cpp:57, codegen.cpp:654): the name of an import is never seen     *)
(* behind the directory that os_get_cwd returned.                          *)
THEOREM NamesHidden == Spec => CwdHidesName
<1>1. IInv /\ CwdOK /\ [Next]_vars =>
        [\A b, d, n \in Buf, path \in Directories :
           (call = <<"cwd", d, path>> /\ call' = <<"join", b, d, n>> /\ outcome' = "running") =>
              Shown(b)' = path /\ Text(b)' # path]_vars
  <2> SUFFICES ASSUME IInv, CwdOK, Next, NEW b \in Buf, NEW d \in Buf, NEW n \in Buf,
                      NEW path \in Directories, call = <<"cwd", d, path>>,
                      call' = <<"join", b, d, n>>, outcome' = "running"
               PROVE  CString(TextOf(mem'[b])) = path /\ TextOf(mem'[b]) # path
    BY DEF Shown, Text
  <2> DEFINE l == Joined(b, d, n)
             t == TextOf(mem[d])
             u == TextOf(mem[n])
             s == TextOf(l)
  <2>1. /\ call'[1] = "join" /\ call'[1 + 1] = b /\ call'[2 + 1] = d /\ call'[3 + 1] = n
    BY Quadruples
  <2>2. PathJoin(b, d, n)
    <3>1. ASSUME NEW a \in Buf, NEW f \in Files, FetchFile(a, f) PROVE FALSE
      BY <2>1, <3>1, Triples DEF FetchFile, Called
    <3>2. ASSUME NEW a \in Buf, NEW p \in Directories, GetCwd(a, p) PROVE FALSE
      BY <2>1, <3>2, Triples DEF GetCwd, Called
    <3>3. ASSUME NEW a \in Buf, NEW e \in Buf, NEW m \in Buf, PathJoin(a, e, m)
          PROVE  a = b /\ e = d /\ m = n
      BY <2>1, <3>3, Quadruples DEF PathJoin, Called
    <3> QED BY <2>1, <3>1, <3>2, <3>3, Callers
  <2>3. /\ Initialized(d) /\ Initialized(n) /\ Returns([mem EXCEPT ![b] = l])
        /\ l \in Terminable /\ s = t \o <<"/">> \o u
    BY <2>2, JoinedText DEF Fails
  <2>4. CwdText(mem[d], path) /\ path \in Seq(Byte) /\ Ends(path) = {}
    BY <2>2, StringsAssumption, PathsAssumption DEF CwdOK, PathJoin, Called
  <2>5. t \in Seq(Byte) /\ u \in Seq(Byte) /\ s \in Seq(Byte)
    BY <2>3, InUseTerminable, TextOfType
  <2>6. mem'[b] = l
    BY <2>3 DEF Returns, IInv, TypeOK
  <2>7. /\ Len(path) < Len(t) /\ t[Len(path) + 1] = Nul
        /\ \A i \in 1..Len(path) : t[i] = path[i]
    BY <2>4 DEF CwdText
  <2> HIDE DEF l, t, u
  <2> HIDE DEF s
  <2>8. Len(t) <= Len(s) /\ \A i \in 1..Len(t) : s[i] = t[i]
    <3> DEFINE v == t \o <<"/">>
    <3>1. v \in Seq(Byte) /\ Len(v) = Len(t) + 1 /\ \A i \in 1..Len(t) : v[i] = t[i]
      BY <2>5, OneMore DEF Byte
    <3> HIDE DEF v
    <3>2. s = v \o u
      BY <2>3 DEF v
    <3> DEFINE m == Len(v)
               k == m + Len(u)
    <3>3. m \in Nat /\ k \in Nat /\ Len(v) = m /\ m + Len(u) = k /\ m <= k
      BY <2>5, <3>1
    <3>4. m = Len(t) + 1 /\ Len(t) \in Nat
      BY <2>5, <3>1
    <3> HIDE DEF m, k
    <3>5. Len(s) = k /\ \A i \in 1..k : s[i] = IF i <= m THEN v[i] ELSE u[i - m]
      BY <2>5, <3>1, <3>2, <3>3, Behind
    <3> QED BY <3>1, <3>3, <3>4, <3>5
  <2>9. /\ Len(path) < Len(s) /\ s[Len(path) + 1] = Nul
        /\ \A i \in 1..Len(path) : s[i] = path[i]
    <3>1. Len(path) \in Nat /\ Len(t) \in Nat /\ Len(s) \in Nat
      BY <2>4, <2>5
    <3>2. Len(path) + 1 \in 1..Len(t) /\ \A i \in 1..Len(path) : i \in 1..Len(t)
      BY <2>7, <3>1
    <3>3. Len(path) < Len(s)
      BY <2>7, <2>8, <3>1
    <3> QED BY <2>7, <2>8, <3>2, <3>3
  <2>10. CString(s) = path
    BY <2>4, <2>5, <2>9, CStringIs
  <2>11. s # path
    BY <2>4, <2>5, <2>9
  <2> QED BY <2>6, <2>10, <2>11 DEF s
<1> QED BY <1>1, InvariantHolds, CwdHolds, PTL DEF Spec, CwdHidesName

(* Whether os_fetch_file leaves the ints depends on the file alone, not on *)
(* the buffer that it is given: the largest doubling of the first capacity *)
(* that is an int is the limit, and not what the guard allows              *)
(* (os.cpp:149-153).                                                       *)
THEOREM FetchLimit == Spec => FetchOverflows
<1>1. IInv /\ [Next]_vars =>
        [\A b \in Buf, t \in Files : (call' = <<"fetch", b, t>> /\ outcome' # "panic") =>
           ((outcome' = "overflow") <=> \A c \in Doublings(MinCapacity) : c < Len(t) + 1)]_vars
  <2> SUFFICES ASSUME IInv, Next, NEW b \in Buf, NEW t \in Files,
                      call' = <<"fetch", b, t>>, outcome' # "panic"
               PROVE  outcome' = "overflow" <=> \A c \in Doublings(MinCapacity) : c < Len(t) + 1
    OBVIOUS
  <2>1. call'[1] = "fetch" /\ call'[1 + 1] = b /\ call'[2 + 1] = t
    BY Triples
  <2>2. FetchFile(b, t)
    <3>1. ASSUME NEW a \in Buf, NEW e \in Buf, NEW m \in Buf, PathJoin(a, e, m) PROVE FALSE
      BY <2>1, <3>1, Quadruples DEF PathJoin, Called
    <3>2. ASSUME NEW a \in Buf, NEW p \in Directories, GetCwd(a, p) PROVE FALSE
      BY <2>1, <3>2, Triples DEF GetCwd, Called
    <3>3. ASSUME NEW a \in Buf, NEW f \in Files, FetchFile(a, f)
          PROVE  a = b /\ f = t
      BY <2>1, <3>3, Triples DEF FetchFile, Called
    <3> QED BY <2>1, <3>1, <3>2, <3>3, Callers
  <2>3. outcome' = "overflow" <=> ~CanHold(mem[b], Len(t) + 1)
    BY <2>2 DEF FetchFile, Stores, Returns, Fails, Called
  <2>4. Len(t) + 1 \in Nat
    BY StringsAssumption
  <2>5. CanHold(mem[b], Len(t) + 1) <=> \E c \in Doublings(MinCapacity) : Len(t) + 1 <= c
    BY <2>4, InUseTerminable, CanHoldIff DEF Memory
  <2>6. \A c \in Doublings(MinCapacity) : (Len(t) + 1 <= c) <=> ~(c < Len(t) + 1)
    BY <2>4, SizesAssumption DEF Doublings
  <2> QED BY <2>3, <2>5, <2>6
<1> QED BY <1>1, InvariantHolds, PTL DEF Spec, FetchOverflows
=============================================================================
