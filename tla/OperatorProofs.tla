---------------------------- MODULE OperatorProofs ----------------------------
(***************************************************************************)
(* Lemmas about the operators the models share, for every input: the       *)
(* vector idioms of Ordered, the insertion sort and the getters of         *)
(* FreeWiliDevice, and UniqueId's words.                                   *)
(***************************************************************************)
EXTENDS FreeWiliDevice, Ordered, FiniteSetTheorems, FunctionTheorems,
        SequenceTheorems, WellFoundedInduction, TLAPS

\* The library's well-ordering of the naturals as a plain set of pairs.
Less == {ss \in Nat \X Nat : ss[1] < ss[2]}

LEMMA LessWellFounded == IsWellFoundedOn(Less, Nat)
BY NatLessThanWellFounded, Zenon DEF OpToRel, Less

\* A set of indices has a least element.
LEMMA LeastIndex ==
  ASSUME NEW S, S \subseteq Nat, S # {}
  PROVE  \E m \in S : \A s \in S : m <= s
<1>1. PICK m \in S : \A s \in S : <<s, m>> \notin Less
  BY LessWellFounded, WFMin
<1>2. ASSUME NEW s \in S PROVE m <= s
  <2>1. s \in Nat /\ m \in Nat
    OBVIOUS
  <2>2. <<s, m>> \in Less <=> s < m
    BY <2>1 DEF Less
  <2> QED
    BY <1>1, <2>1, <2>2
<1> QED
  BY <1>2

\* Induction on a set of naturals: the library's rule takes an operator.
LEMMA SetInduction ==
  ASSUME NEW T, T \subseteq Nat, 0 \in T, \A n \in T : n + 1 \in T
  PROVE  T = Nat
<1> SUFFICES ASSUME Nat \ T # {} PROVE FALSE
  OBVIOUS
<1>1. PICK x \in Nat \ T : \A y \in Nat \ T : x <= y
  BY LeastIndex
<1>2. x - 1 \in T
  BY <1>1
<1> QED
  BY <1>2

\* A bounded one has a greatest element as well.
LEMMA GreatestIndex ==
  ASSUME NEW n \in Nat, NEW S, S \subseteq 0..n, S # {}
  PROVE  \E m \in S : \A s \in S : m >= s
<1> DEFINE Mirror == {n - s : s \in S}
<1>1. \A s \in S : s \in 0..n
  OBVIOUS
<1>2. Mirror \subseteq Nat /\ Mirror # {}
  <2>1. ASSUME NEW s \in S PROVE n - s \in Nat
    BY <1>1
  <2>2. \A m \in Mirror : \E s \in S : m = n - s
    OBVIOUS
  <2>3. Mirror \subseteq Nat
    BY <2>1, <2>2
  <2>4. PICK s \in S : TRUE
    OBVIOUS
  <2>5. n - s \in Mirror
    BY <2>4
  <2> QED
    BY <2>3, <2>5
<1>3. PICK m \in Mirror : \A t \in Mirror : m <= t
  BY <1>2, LeastIndex
<1>4. PICK g \in S : m = n - g
  OBVIOUS
<1>5. ASSUME NEW s \in S PROVE g >= s
  <2>1. n - s \in Mirror
    OBVIOUS
  <2>2. n - g <= n - s
    BY <1>3, <1>4, <2>1
  <2> QED
    BY <1>1, <2>2
<1> QED
  BY <1>5

\* So Min and Max of a non-empty set of indices are members of it.
LEMMA MinInSet ==
  ASSUME NEW S, S \subseteq Nat, S # {}
  PROVE  Min(S) \in S /\ \A s \in S : Min(S) <= s
BY LeastIndex, Zenon DEF Min

LEMMA MaxInSet ==
  ASSUME NEW n \in Nat, NEW S, S \subseteq 0..n, S # {}
  PROVE  Max(S) \in S /\ \A s \in S : Max(S) >= s
BY GreatestIndex, Zenon DEF Max

\* The values of a finite sequence of naturals have an upper bound.
LEMMA BoundedValues ==
  ASSUME NEW n \in Nat, NEW f \in [1..n -> Nat]
  PROVE  \E b \in Nat : \A i \in 1..n : f[i] <= b
<1> DEFINE T == {k \in Nat : k <= n => \E b \in Nat : \A i \in 1..k : f[i] <= b}
<1>1. 0 \in T
  OBVIOUS
<1>2. ASSUME NEW k \in T PROVE k + 1 \in T
  <2>1. ASSUME k + 1 <= n PROVE \E b \in Nat : \A i \in 1..(k + 1) : f[i] <= b
    <3>1. PICK b \in Nat : \A i \in 1..k : f[i] <= b
      BY <2>1
    <3>2. f[k + 1] \in Nat
      BY <2>1
    <3>3. ASSUME NEW i \in 1..(k + 1) PROVE f[i] <= b + f[k + 1]
      <4>1. f[i] \in Nat
        BY <2>1
      <4>2. CASE i = k + 1
        BY <3>2, <4>1, <4>2
      <4>3. CASE i # k + 1
        <5>1. i \in 1..k
          BY <4>3
        <5>2. f[i] <= b
          BY <3>1, <5>1
        <5> QED
          BY <3>2, <4>1, <5>2
      <4> QED
        BY <4>2, <4>3
    <3>4. b + f[k + 1] \in Nat
      BY <3>2
    <3> QED
      BY <3>3, <3>4
  <2> QED
    BY <2>1
<1>3. T = Nat
  <2>1. T \subseteq Nat
    OBVIOUS
  <2> HIDE DEF T
  <2> QED
    BY <1>1, <1>2, <2>1, SetInduction
<1>4. n \in T
  BY <1>3
<1> QED
  BY <1>4

LEMMA Bounded ==
  ASSUME NEW n \in Nat, NEW S, S \subseteq 1..n
  PROVE  IsFiniteSet(S) /\ Cardinality(S) \in Nat
<1>1. IsFiniteSet(1..n)
  BY FS_Interval
<1>2. IsFiniteSet(S)
  BY <1>1, FS_Subset
<1> QED
  BY <1>2, FS_CardinalityType

\* An increasing enumeration of S.
Enumerates(f, S) ==
  /\ f \in [1..Cardinality(S) -> S]
  /\ \A i, j \in 1..Cardinality(S) : i < j => f[i] < f[j]

\* One more index, greater than all of them, can be appended.
LEMMA EnumerateOneMore ==
  ASSUME NEW n \in Nat, NEW S, S \subseteq 1..n, NEW g, Enumerates(g, S)
  PROVE  \E f : Enumerates(f, S \cup {n + 1})
<1> DEFINE X == S \cup {n + 1}
           c == Cardinality(S)
           f == [i \in 1..(c + 1) |-> IF i = c + 1 THEN n + 1 ELSE g[i]]
<1>1. IsFiniteSet(S) /\ c \in Nat
  BY Bounded
<1>2. n + 1 \notin S
  OBVIOUS
<1>3. Cardinality(X) = c + 1
  BY <1>1, <1>2, FS_AddElement
<1>4. \A i \in 1..c : g[i] \in S
  BY DEF Enumerates
<1>5. \A i \in 1..(c + 1) : i # c + 1 => i \in 1..c
  BY <1>1
<1>6. f \in [1..(c + 1) -> X]
  BY <1>4, <1>5
<1>7. ASSUME NEW i \in 1..(c + 1), NEW j \in 1..(c + 1), i < j
      PROVE  f[i] < f[j]
  <2>1. i \in 1..c
    BY <1>1, <1>7
  <2>2. f[i] = g[i]
    BY <1>1, <2>1
  <2>3. g[i] \in 1..n
    BY <1>4, <2>1
  <2>4. CASE j = c + 1
    <3>1. f[j] = n + 1
      BY <2>4
    <3> QED
      BY <2>2, <2>3, <3>1
  <2>5. CASE j # c + 1
    <3>1. j \in 1..c /\ f[j] = g[j]
      BY <1>5, <2>5
    <3>2. g[i] < g[j]
      BY <1>7, <2>1, <3>1 DEF Enumerates
    <3> QED
      BY <2>2, <3>1, <3>2
  <2> QED
    BY <2>4, <2>5
<1>8. Enumerates(f, X)
  <2> HIDE DEF f, X
  <2> QED
    BY <1>3, <1>6, <1>7 DEF Enumerates
<1> QED
  BY <1>8

\* Every bounded set of indices has an increasing enumeration.
LEMMA Enumerable ==
  ASSUME NEW n \in Nat, NEW S, S \subseteq 1..n
  PROVE  \E f : Enumerates(f, S)
<1> DEFINE Good(k) == \A X \in SUBSET (1..k) : \E f : Enumerates(f, X)
           T == {k \in Nat : Good(k)}
<1>1. 0 \in T
  <2>1. ASSUME NEW X \in SUBSET (1..0) PROVE \E f : Enumerates(f, X)
    <3>1. X = {}
      OBVIOUS
    <3>2. Cardinality(X) = 0
      BY <3>1, FS_EmptySet
    <3>3. Enumerates(<<>>, X)
      BY <3>1, <3>2 DEF Enumerates
    <3> QED
      BY <3>3
  <2> QED
    BY <2>1
<1>2. ASSUME NEW k \in T PROVE k + 1 \in T
  <2>1. ASSUME NEW X \in SUBSET (1..(k + 1)) PROVE \E f : Enumerates(f, X)
    <3> DEFINE Y == X \ {k + 1}
    <3>1. Y \subseteq 1..k
      OBVIOUS
    <3>2. PICK g : Enumerates(g, Y)
      BY <3>1
    <3>3. CASE k + 1 \notin X
      <4>1. Y = X
        BY <3>3
      <4> QED
        BY <3>2, <4>1
    <3>4. CASE k + 1 \in X
      <4>1. Y \cup {k + 1} = X
        BY <3>4
      <4>2. \E f : Enumerates(f, Y \cup {k + 1})
        <5> HIDE DEF Y
        <5> QED
          BY <3>1, <3>2, EnumerateOneMore
      <4> QED
        BY <4>1, <4>2
    <3> QED
      BY <3>3, <3>4
  <2>2. k + 1 \in Nat
    OBVIOUS
  <2> QED
    BY <2>1, <2>2
<1>3. T = Nat
  <2>1. T \subseteq Nat
    OBVIOUS
  <2> HIDE DEF T
  <2> QED
    BY <1>1, <1>2, <2>1, SetInduction
<1>4. n \in T
  BY <1>3
<1> QED
  BY <1>4

\* InOrder(S) is an increasing bijection from 1..|S| to S.
THEOREM InOrderEnumerates ==
  ASSUME NEW n \in Nat, NEW S, S \subseteq 1..n
  PROVE  /\ Cardinality(S) \in Nat
         /\ InOrder(S) \in [1..Cardinality(S) -> S]
         /\ \A i, j \in 1..Cardinality(S) : i < j => InOrder(S)[i] < InOrder(S)[j]
         /\ \A i, j \in 1..Cardinality(S) : InOrder(S)[i] = InOrder(S)[j] => i = j
         /\ \A s \in S : \E i \in 1..Cardinality(S) : InOrder(S)[i] = s
<1> DEFINE c == Cardinality(S)
           f == InOrder(S)
<1>1. IsFiniteSet(S) /\ c \in Nat
  BY Bounded
<1>2. Enumerates(f, S)
  <2>1. \E e : Enumerates(e, S)
    BY Enumerable
  <2> QED
    BY <2>1, Zenon DEF InOrder, Enumerates
<1> HIDE DEF f
<1>3. f \in [1..c -> S] /\ \A i, j \in 1..c : i < j => f[i] < f[j]
  BY <1>2 DEF Enumerates
<1>4. ASSUME NEW i \in 1..c, NEW j \in 1..c, f[i] = f[j] PROVE i = j
  <2>1. f[i] \in 1..n /\ f[j] \in 1..n
    BY <1>3
  <2>2. i \in Nat /\ j \in Nat
    BY <1>1
  <2>3. ~(f[i] < f[j]) /\ ~(f[j] < f[i])
    BY <1>4, <2>1
  <2>4. ~(i < j) /\ ~(j < i)
    BY <1>3, <2>3
  <2> QED
    BY <2>2, <2>4
<1>5. f \in Injection(1..c, S)
  BY <1>3, <1>4, Fun_IsInj
<1>6. Cardinality(1..c) = c
  BY <1>1, FS_Interval
<1>7. f \in Surjection(1..c, S)
  BY <1>1, <1>5, <1>6, FS_Injection
<1>8. \A s \in S : \E i \in 1..c : f[i] = s
  BY <1>7 DEF Surjection
<1> QED
  BY <1>1, <1>3, <1>4, <1>8 DEF f

-----------------------------------------------------------------------------
\* Erase(v, gone) has the entries of v that are not gone, in v's order; when v has
\* no entry twice, neither has it.
THEOREM EraseKeeps ==
  ASSUME NEW X, NEW v \in Seq(X), NEW gone
  PROVE  /\ Erase(v, gone) \in Seq(X)
         /\ Range(Erase(v, gone)) = Range(v) \ gone
         /\ (\A i, j \in DOMAIN v : v[i] = v[j] => i = j)
              => \A i, j \in DOMAIN Erase(v, gone) :
                   Erase(v, gone)[i] = Erase(v, gone)[j] => i = j
<1> DEFINE S == {i \in DOMAIN v : v[i] \notin gone}
           c == Cardinality(S)
           kept == InOrder(S)
           w == Erase(v, gone)
<1>1. S \subseteq 1..Len(v) /\ Len(v) \in Nat /\ DOMAIN v = 1..Len(v)
  OBVIOUS
<1> HIDE DEF S
<1>2. /\ c \in Nat
      /\ kept \in [1..c -> S]
      /\ \A i, j \in 1..c : kept[i] = kept[j] => i = j
      /\ \A s \in S : \E i \in 1..c : kept[i] = s
  BY <1>1, InOrderEnumerates
<1>3. DOMAIN kept = 1..c
  BY <1>2
<1>4. w = [k \in 1..c |-> v[kept[k]]]
  BY <1>3 DEF Erase, S
<1> HIDE DEF kept, w
<1>5. \A k \in 1..c : kept[k] \in DOMAIN v /\ v[kept[k]] \notin gone
  BY <1>2 DEF S
<1>6. w \in Seq(X)
  BY <1>2, <1>4, <1>5
<1>7. Range(w) \subseteq Range(v) \ gone
  BY <1>4, <1>5 DEF Range
<1>8. ASSUME NEW x \in Range(v) \ gone PROVE x \in Range(w)
  <2>1. PICK i \in S : v[i] = x
    BY DEF Range, S
  <2>2. PICK k \in 1..c : kept[k] = i
    BY <1>2
  <2>3. w[k] = x
    BY <1>4, <2>1, <2>2
  <2> QED
    BY <1>4, <2>2, <2>3 DEF Range
<1>9. ASSUME \A i, j \in DOMAIN v : v[i] = v[j] => i = j,
             NEW i \in DOMAIN w, NEW j \in DOMAIN w, w[i] = w[j]
      PROVE  i = j
  <2>1. i \in 1..c /\ j \in 1..c /\ v[kept[i]] = v[kept[j]]
    BY <1>4, <1>9
  <2>2. kept[i] = kept[j]
    BY <1>5, <1>9, <2>1
  <2> QED
    BY <1>2, <2>1, <2>2
<1> QED
  BY <1>6, <1>7, <1>8, <1>9 DEF w

\* Two vectors without repetitions and without a common entry make one.
LEMMA ConcatDistinct ==
  ASSUME NEW X, NEW v \in Seq(X), NEW w \in Seq(X),
         \A i, j \in DOMAIN v : v[i] = v[j] => i = j,
         \A i, j \in DOMAIN w : w[i] = w[j] => i = j,
         Range(v) \cap Range(w) = {}
  PROVE  /\ v \o w \in Seq(X)
         /\ Range(v \o w) = Range(v) \cup Range(w)
         /\ \A i, j \in DOMAIN (v \o w) : (v \o w)[i] = (v \o w)[j] => i = j
<1> DEFINE m == Len(v)
           n == Len(w)
           u == v \o w
<1>1. /\ m \in Nat /\ n \in Nat
      /\ DOMAIN v = 1..m /\ DOMAIN w = 1..n /\ DOMAIN u = 1..(m + n)
      /\ \A i \in 1..m : u[i] = v[i]
      /\ \A i \in 1..(m + n) : i > m => u[i] = w[i - m] /\ i - m \in 1..n
      /\ u \in Seq(X)
  OBVIOUS
<1> HIDE DEF u
<1>2. \A i \in 1..n : u[m + i] = w[i] /\ m + i \in 1..(m + n)
  <2> TAKE i \in 1..n
  <2>1. m + i \in 1..(m + n) /\ m + i > m /\ (m + i) - m = i
    BY <1>1
  <2> QED
    BY <1>1, <2>1
<1>3. Range(u) \subseteq Range(v) \cup Range(w)
  <2> SUFFICES ASSUME NEW i \in 1..(m + n) PROVE u[i] \in Range(v) \cup Range(w)
    BY <1>1 DEF Range
  <2>1. CASE i > m
    BY <1>1, <2>1 DEF Range
  <2>2. CASE ~(i > m)
    <3>1. i \in 1..m
      BY <1>1, <2>2
    <3> QED
      BY <1>1, <3>1 DEF Range
  <2> QED
    BY <2>1, <2>2
<1>4. Range(v) \subseteq Range(u)
  <2> SUFFICES ASSUME NEW i \in 1..m PROVE v[i] \in Range(u)
    BY <1>1 DEF Range
  <2>1. i \in 1..(m + n)
    BY <1>1
  <2> QED
    BY <1>1, <2>1 DEF Range
<1>5. Range(w) \subseteq Range(u)
  <2> SUFFICES ASSUME NEW i \in 1..n PROVE w[i] \in Range(u)
    BY <1>1 DEF Range
  <2>1. m + i \in DOMAIN u /\ u[m + i] = w[i]
    BY <1>1, <1>2
  <2> QED
    BY <2>1 DEF Range
<1>6. ASSUME NEW i \in 1..(m + n), NEW j \in 1..(m + n), u[i] = u[j], i < j PROVE FALSE
  <2>1. CASE j <= m
    <3>1. i \in 1..m /\ j \in 1..m
      BY <1>1, <1>6, <2>1
    <3> QED
      BY <1>1, <1>6, <3>1
  <2>2. CASE i > m
    <3>1. j > m
      BY <1>1, <1>6, <2>2
    <3>2. w[i - m] = w[j - m] /\ i - m \in DOMAIN w /\ j - m \in DOMAIN w
      BY <1>1, <1>6, <2>2, <3>1
    <3>3. i - m = j - m
      BY <3>2
    <3> QED
      BY <1>1, <1>6, <3>3
  <2>3. CASE i <= m /\ j > m
    <3>1. i \in 1..m
      BY <1>1, <2>3
    <3>2. u[i] \in Range(v) /\ u[j] \in Range(w)
      BY <1>1, <2>3, <3>1 DEF Range
    <3> QED
      BY <1>6, <3>2
  <2> QED
    BY <1>1, <2>1, <2>2, <2>3
<1>7. ASSUME NEW i \in 1..(m + n), NEW j \in 1..(m + n), u[i] = u[j] PROVE i = j
  <2>1. i \in Int /\ j \in Int
    BY <1>1
  <2>2. ~(i < j) /\ ~(j < i)
    BY <1>6, <1>7
  <2> QED
    BY <2>1, <2>2
<1> QED
  BY <1>1, <1>3, <1>4, <1>5, <1>7 DEF u

-----------------------------------------------------------------------------
(* The sort. *)

IsStep(step, N, T) == step \in [(1..N) \X T -> T]

IsRecursion(f, N, T, base, step) ==
  /\ f \in [0..N -> T]
  /\ f[0] = base /\ \A n \in 1..N : f[n] = step[<<n, f[n - 1]>>]

\* A function defined by recursion on 1..N exists; the library's theorem about it
\* takes an operator.
LEMMA RecursionExists ==
  ASSUME NEW N \in Nat, NEW T, NEW base \in T, NEW step, IsStep(step, N, T)
  PROVE  \E f : IsRecursion(f, N, T, base, step)
<1>0. step \in [(1..N) \X T -> T]
  BY DEF IsStep
<1> DEFINE Solves(f, k) == f[0] = base /\ \A n \in 1..k : f[n] = step[<<n, f[n - 1]>>]
           D == {k \in Nat : k <= N => \E f \in [0..k -> T] : Solves(f, k)}
<1>1. 0 \in D
  <2>1. [n \in 0..0 |-> base] \in [0..0 -> T] /\ Solves([n \in 0..0 |-> base], 0)
    OBVIOUS
  <2> QED
    BY <2>1
<1>2. ASSUME NEW k \in D
      PROVE  k + 1 \in D
  <2> SUFFICES ASSUME k + 1 <= N
               PROVE  \E f \in [0..(k + 1) -> T] : Solves(f, k + 1)
    OBVIOUS
  <2>1. PICK f \in [0..k -> T] : Solves(f, k)
    OBVIOUS
  <2> DEFINE x == step[<<k + 1, f[k]>>]
             g == [n \in 0..(k + 1) |-> IF n = k + 1 THEN x ELSE f[n]]
  <2>2. x \in T
    BY <1>0
  <2>3. g \in [0..(k + 1) -> T]
    BY <2>2
  <2>4. \A n \in 0..k : g[n] = f[n]
    OBVIOUS
  <2>5. g[k + 1] = step[<<k + 1, g[k]>>]
    <3>1. k \in 0..k /\ k + 1 \in 0..(k + 1)
      OBVIOUS
    <3>2. g[k] = f[k]
      BY <2>4, <3>1
    <3>3. g[k + 1] = x
      BY <3>1
    <3> QED
      BY <3>2, <3>3
  <2> HIDE DEF g, x
  <2>6. ASSUME NEW n \in 1..(k + 1)
        PROVE  g[n] = step[<<n, g[n - 1]>>]
    <3>1. CASE n = k + 1
      BY <2>5, <3>1
    <3>2. CASE n # k + 1
      <4>1. n \in 1..k /\ n - 1 \in 0..k /\ n \in 0..k
        BY <3>2
      <4> QED
        BY <2>1, <2>4, <4>1
    <3> QED
      BY <3>1, <3>2
  <2>7. g[0] = base
    BY <2>1, <2>4
  <2> QED
    BY <2>3, <2>6, <2>7
<1>3. D = Nat
  <2>1. D \subseteq Nat
    OBVIOUS
  <2> HIDE DEF D
  <2> QED
    BY <1>1, <1>2, <2>1, SetInduction
<1>4. N \in D /\ N <= N
  BY <1>3
<1> QED
  BY <1>4 DEF IsRecursion

\* r is s with x at place p.
IsInsertion(r, S, s, p, x) ==
  /\ r \in Seq(S)
  /\ Len(r) = Len(s) + 1
  /\ \A i \in 1..(Len(s) + 1) :
       r[i] = IF i < p THEN s[i] ELSE IF i = p THEN x ELSE s[i - 1]

LEMMA InsertAtElements ==
  ASSUME NEW S, NEW s \in Seq(S), NEW x \in S, NEW p \in 1..(Len(s) + 1)
  PROVE  IsInsertion(InsertAt(s, p, x), S, s, p, x)
<1> DEFINE a == SubSeq(s, 1, p - 1)
           b == SubSeq(s, p, Len(s))
<1>1. PICK n \in Nat : n = Len(s)
  OBVIOUS
<1>2. p \in 1..(n + 1)
  BY <1>1
<1>3. a \in Seq(S) /\ Len(a) = p - 1 /\ \A i \in 1..(p - 1) : a[i] = s[i]
  BY <1>1, <1>2
<1>4. b \in Seq(S) /\ Len(b) = n - p + 1 /\ \A i \in 1..(n - p + 1) : b[i] = s[i + p - 1]
  BY <1>1, <1>2
<1>5. InsertAt(s, p, x) = (a \o <<x>>) \o b
  BY DEF InsertAt
<1> HIDE DEF a, b
<1> DEFINE l == a \o <<x>>
<1>6. l \in Seq(S) /\ Len(l) = p /\ \A i \in 1..p : l[i] = IF i < p THEN s[i] ELSE x
  BY <1>2, <1>3
<1>7. InsertAt(s, p, x) = l \o b
  BY <1>5
<1> HIDE DEF l
<1> DEFINE r == l \o b
<1>8. r \in Seq(S) /\ Len(r) = n + 1
  <2>1. r \in Seq(S) /\ Len(r) = Len(l) + Len(b)
    <3>1. l \in Seq(S) /\ b \in Seq(S)
      BY <1>4, <1>6
    <3> QED
      BY <3>1, ConcatProperties
  <2>2. p + (n - p + 1) = n + 1
    BY <1>2
  <2> QED
    BY <1>4, <1>6, <2>1, <2>2
<1>9. ASSUME NEW i \in 1..(n + 1)
      PROVE  r[i] = IF i < p THEN s[i] ELSE IF i = p THEN x ELSE s[i - 1]
  <2>1. CASE i <= p
    <3>1. i \in 1..p
      BY <2>1
    <3>2. r[i] = l[i]
      BY <1>2, <1>4, <1>6, <3>1
    <3> QED
      BY <1>2, <1>6, <3>1, <3>2
  <2>2. CASE i > p
    <3>1. i - p \in 1..(n - p + 1) /\ (i - p) + p - 1 = i - 1
      BY <1>2, <2>2
    <3>2. r[i] = b[i - p]
      BY <1>2, <1>4, <1>6, <2>2
    <3>3. b[i - p] = s[i - 1]
      BY <1>4, <3>1
    <3> QED
      BY <1>2, <2>2, <3>2, <3>3
  <2> HIDE DEF r
  <2>3. i <= p \/ i > p
    BY <1>2
  <2> QED
    BY <2>1, <2>2, <2>3
<1> HIDE DEF r
<1>10. IsInsertion(r, S, s, p, x)
  BY <1>1, <1>8, <1>9 DEF IsInsertion
<1> QED
  BY <1>7, <1>10 DEF r

\* Where one round puts its element.
LEMMA InsertedWhere ==
  ASSUME NEW S, NEW s \in Seq(S), NEW x \in S
  PROVE  \E p \in 1..(Len(s) + 1) :
           /\ Inserted(SortsBefore, s, x) = InsertAt(s, p, x)
           /\ p = 1 /\ Len(s) > 0 => SortsBefore(x, s[1])
           /\ p > 1 => ~SortsBefore(x, s[p - 1])
           /\ p > 1 => \A i \in p..Len(s) : SortsBefore(x, s[i])
<1> DEFINE stops == {i \in DOMAIN s : ~SortsBefore(x, s[i])}
           front == s = <<>> \/ 1 \notin stops
           p == IF front THEN 1 ELSE Max(stops) + 1
<1>1. Inserted(SortsBefore, s, x) = InsertAt(s, p, x)
  BY DEF Inserted
<1>2. PICK n \in Nat : n = Len(s) /\ DOMAIN s = 1..n
  OBVIOUS
<1>3. CASE front
  <2>1. p = 1
    BY <1>3
  <2>2. n > 0 => SortsBefore(x, s[1])
    BY <1>2, <1>3
  <2> HIDE DEF p
  <2> QED
    BY <1>1, <1>2, <2>1, <2>2
<1>4. CASE ~front
  <2>1. stops \subseteq 0..n /\ stops # {}
    BY <1>2, <1>4
  <2> HIDE DEF stops
  <2>2. Max(stops) \in stops /\ \A i \in stops : Max(stops) >= i
    BY <1>2, <2>1, MaxInSet
  <2>3. PICK m : m = Max(stops)
    OBVIOUS
  <2>4. m \in 1..n /\ ~SortsBefore(x, s[m])
    BY <1>2, <2>2, <2>3 DEF stops
  <2>5. \A i \in (m + 1)..n : SortsBefore(x, s[i])
    <3>1. ASSUME NEW i \in (m + 1)..n
          PROVE  i \notin stops
      BY <2>2, <2>3, <2>4
    <3> QED
      BY <1>2, <2>4, <3>1 DEF stops
  <2>6. p = m + 1
    BY <1>4, <2>3
  <2> HIDE DEF p, front
  <2>7. p \in 1..(n + 1) /\ p > 1 /\ p - 1 = m
    BY <2>4, <2>6
  <2> QED
    BY <1>1, <1>2, <2>4, <2>5, <2>6, <2>7
<1> QED
  BY <1>3, <1>4

\* The sort of n devices is n rounds.
LEMMA SortIsRounds ==
  ASSUME NEW S, NEW vector \in Seq(S)
  PROVE  \E sorted \in [0..Len(vector) -> Seq(S)] :
           /\ sorted[0] = <<>>
           /\ \A n \in 1..Len(vector) :
                sorted[n] = Inserted(SortsBefore, sorted[n - 1], vector[n])
           /\ SortUSBDevices(vector) = sorted[Len(vector)]
<1> DEFINE N == Len(vector)
           step == [a \in (1..N) \X Seq(S) |-> Inserted(SortsBefore, a[2], vector[a[1]])]
           Rounds(g) == [n \in 0..N |->
                           IF n = 0 THEN <<>> ELSE Inserted(SortsBefore, g[n - 1], vector[n])]
           sorted == CHOOSE g : g = Rounds(g)
<1>1. N \in Nat /\ \A n \in 1..N : vector[n] \in S
  OBVIOUS
<1>2. ASSUME NEW n \in 1..N, NEW s \in Seq(S)
      PROVE  Inserted(SortsBefore, s, vector[n]) \in Seq(S)
  <2>1. PICK x \in S : x = vector[n]
    BY <1>1
  <2>2. PICK q \in 1..(Len(s) + 1) : Inserted(SortsBefore, s, x) = InsertAt(s, q, x)
    BY InsertedWhere
  <2>3. IsInsertion(InsertAt(s, q, x), S, s, q, x)
    BY InsertAtElements
  <2>4. InsertAt(s, q, x) \in Seq(S)
    BY <2>3 DEF IsInsertion
  <2> QED
    BY <2>1, <2>2, <2>4
<1>3. step \in [(1..N) \X Seq(S) -> Seq(S)]
  BY <1>2
<1>4. \A n \in 1..N, s \in Seq(S) : step[<<n, s>>] = Inserted(SortsBefore, s, vector[n])
  OBVIOUS
<1>5. SortUSBDevices(vector) = sorted[N]
  BY DEF SortUSBDevices, InsertionSort
<1> HIDE DEF N, step
<1>6. PICK f \in [0..N -> Seq(S)] :
        f[0] = <<>> /\ \A n \in 1..N : f[n] = step[<<n, f[n - 1]>>]
  <2>1. PICK T : T = Seq(S)
    OBVIOUS
  <2>2. PICK base \in T : base = <<>>
    <3>1. <<>> \in Seq(S)
      OBVIOUS
    <3> QED
      BY <2>1, <3>1
  <2>3. IsStep(step, N, T)
    BY <1>3, <2>1 DEF IsStep
  <2>4. PICK f : IsRecursion(f, N, T, base, step)
    BY <1>1, <2>3, RecursionExists
  <2> QED
    BY <2>1, <2>2, <2>4 DEF IsRecursion
<1>7. f = Rounds(f)
  <2>1. ASSUME NEW n \in 0..N
        PROVE  f[n] = Rounds(f)[n]
    <3>1. CASE n = 0
      BY <1>1, <1>6, <3>1
    <3>2. CASE n # 0
      <4>1. n \in 1..N /\ n - 1 \in 0..N
        BY <1>1, <3>2
      <4> QED
        BY <1>4, <1>6, <3>2, <4>1
    <3> QED
      BY <3>1, <3>2
  <2> QED
    BY <1>6, <2>1
<1>8. sorted = Rounds(sorted)
  BY <1>7
<1> HIDE DEF sorted
<1>9. /\ DOMAIN sorted = 0..N /\ sorted[0] = <<>>
      /\ \A n \in 1..N : sorted[n] = Inserted(SortsBefore, sorted[n - 1], vector[n])
  <2>1. ASSUME NEW n \in 1..N
        PROVE  sorted[n] = Inserted(SortsBefore, sorted[n - 1], vector[n])
    <3>1. n \in 0..N /\ n # 0
      BY <1>1
    <3> QED
      BY <1>8, <3>1
  <2>2. 0 \in 0..N
    BY <1>1
  <2> QED
    BY <1>8, <2>1, <2>2
<1>10. \A n \in 0..N : sorted[n] \in Seq(S)
  <2> DEFINE D == {n \in Nat : n <= N => sorted[n] \in Seq(S)}
  <2>1. 0 \in D
    <3>1. <<>> \in Seq(S)
      OBVIOUS
    <3>2. sorted[0] \in Seq(S)
      BY <1>9, <3>1
    <3> QED
      BY <3>2
  <2>2. ASSUME NEW n \in D
        PROVE  n + 1 \in D
    <3> SUFFICES ASSUME n + 1 <= N
                 PROVE  sorted[n + 1] \in Seq(S)
      OBVIOUS
    <3>1. n + 1 \in 1..N /\ (n + 1) - 1 = n /\ sorted[n] \in Seq(S)
      BY <1>1
    <3> QED
      BY <1>2, <1>9, <3>1
  <2>3. D = Nat
    <3>1. D \subseteq Nat
      OBVIOUS
    <3> HIDE DEF D
    <3> QED
      BY <2>1, <2>2, <3>1, SetInduction
  <2>4. ASSUME NEW n \in 0..N
        PROVE  n \in Nat /\ n <= N
    BY <1>1
  <2> QED
    BY <2>3, <2>4
<1>11. sorted \in [0..N -> Seq(S)]
  <2>1. sorted = [n \in 0..N |-> sorted[n]]
    <3>1. PICK F : F = Rounds(sorted)
      OBVIOUS
    <3> QED
      BY <1>8
  <2> QED
    BY <1>10, <2>1
<1> QED
  BY <1>5, <1>9, <1>11 DEF N

-----------------------------------------------------------------------------
(* A sort yields the elements it was given in another order. *)

\* The first n elements of v are those of r, in another order.
Reorders(pi, r, v, n) ==
  /\ pi \in [1..n -> 1..n]
  /\ \A i, j \in 1..n : pi[i] = pi[j] => i = j
  /\ \A k \in 1..n : \E i \in 1..n : pi[i] = k
  /\ \A i \in 1..n : r[i] = v[pi[i]]

IsReordering(r, v, n) == Len(r) = n /\ \E pi : Reorders(pi, r, v, n)

LEMMA InsertReorders ==
  ASSUME NEW S, NEW v, NEW n \in Nat, NEW s \in Seq(S), IsReordering(s, v, n),
         NEW p \in 1..(n + 1), NEW r, IsInsertion(r, S, s, p, v[n + 1])
  PROVE  IsReordering(r, v, n + 1)
<1>1. Len(s) = n
  BY DEF IsReordering
<1>2. PICK pi : Reorders(pi, s, v, n)
  BY DEF IsReordering
<1> DEFINE m == n + 1
           rho == [i \in 1..m |-> IF i < p THEN pi[i] ELSE IF i = p THEN m ELSE pi[i - 1]]
<1>3. m \in Nat /\ m > n /\ 1..n \subseteq 1..m /\ p \in 1..m
  OBVIOUS
<1>4. /\ pi \in [1..n -> 1..n]
      /\ \A i, j \in 1..n : pi[i] = pi[j] => i = j
      /\ \A k \in 1..n : \E i \in 1..n : pi[i] = k
      /\ \A i \in 1..n : s[i] = v[pi[i]]
  BY <1>2 DEF Reorders
<1>5. Len(r) = m /\ \A i \in 1..m : r[i] = IF i < p THEN s[i] ELSE IF i = p THEN v[m] ELSE s[i - 1]
  BY <1>1 DEF IsInsertion
<1>6. /\ \A i \in 1..m : i < p => i \in 1..n /\ rho[i] = pi[i]
      /\ rho[p] = m
      /\ \A i \in 1..m : i > p => i - 1 \in 1..n /\ rho[i] = pi[i - 1]
  BY <1>3
<1>7. \A i \in 1..m : i = p \/ (i < p /\ i # p) \/ (i > p /\ i # p)
  BY <1>3
<1> HIDE DEF rho, m
<1>8. \A i \in 1..m : i # p => rho[i] \in 1..n /\ rho[i] # m
  <2> SUFFICES ASSUME NEW i \in 1..m, i # p
               PROVE  rho[i] \in 1..n
    BY DEF m
  <2>1. CASE i < p
    BY <1>4, <1>6, <2>1
  <2>2. CASE i > p
    BY <1>4, <1>6, <2>2
  <2> QED
    BY <1>7, <2>1, <2>2
<1>9. rho \in [1..m -> 1..m]
  <2>1. \A i \in 1..m : rho[i] \in 1..m
    BY <1>3, <1>6, <1>8 DEF m
  <2>2. rho = [i \in 1..m |-> rho[i]]
    BY DEF rho
  <2> QED
    BY <2>1, <2>2
<1>10. ASSUME NEW i \in 1..m, NEW j \in 1..m, rho[i] = rho[j]
       PROVE  i = j
  <2>1. CASE i = p \/ j = p
    BY <1>6, <1>8, <1>10, <2>1
  <2>2. CASE i < p /\ j < p
    BY <1>4, <1>6, <1>10, <2>2
  <2>3. CASE i > p /\ j > p
    <3>1. i - 1 = j - 1
      BY <1>4, <1>6, <1>10, <2>3
    <3> QED
      BY <3>1
  <2>4. ASSUME NEW a \in 1..m, NEW b \in 1..m, a < p, b > p, rho[a] = rho[b]
        PROVE  FALSE
    <3>1. a = b - 1
      BY <1>4, <1>6, <2>4
    <3> QED
      BY <1>3, <2>4, <3>1
  <2> QED
    BY <1>7, <1>10, <2>1, <2>2, <2>3, <2>4
<1>11. ASSUME NEW k \in 1..m
       PROVE  \E i \in 1..m : rho[i] = k
  <2>1. CASE k = m
    BY <1>3, <1>6, <2>1
  <2>2. CASE k # m
    <3>1. k \in 1..n
      BY <2>2 DEF m
    <3>2. PICK i \in 1..n : pi[i] = k
      BY <1>4, <3>1
    <3>3. CASE i < p
      BY <1>3, <1>6, <3>2, <3>3
    <3>4. CASE i >= p
      <4>1. i + 1 \in 1..m /\ i + 1 > p /\ (i + 1) - 1 = i
        BY <3>4 DEF m
      <4>2. rho[i + 1] = pi[(i + 1) - 1]
        BY <1>6, <4>1
      <4> QED
        BY <3>2, <4>1, <4>2
    <3> QED
      BY <3>3, <3>4
  <2> QED
    BY <2>1, <2>2
<1>12. ASSUME NEW i \in 1..m
       PROVE  r[i] = v[rho[i]]
  <2>1. CASE i = p
    BY <1>5, <1>6, <2>1
  <2>2. CASE i < p
    BY <1>4, <1>5, <1>6, <2>2
  <2>3. CASE i > p
    <3>1. r[i] = s[i - 1]
      BY <1>5, <2>3
    <3>2. i - 1 \in 1..n /\ rho[i] = pi[i - 1]
      BY <1>6, <2>3
    <3>3. s[i - 1] = v[pi[i - 1]]
      BY <1>4, <3>2
    <3> QED
      BY <3>1, <3>2, <3>3
  <2> QED
    BY <1>7, <2>1, <2>2, <2>3
<1>13. Reorders(rho, r, v, m)
  BY <1>9, <1>10, <1>11, <1>12 DEF Reorders
<1> QED
  BY <1>5, <1>13 DEF IsReordering, m

\* An element at a time, each anywhere in the list so far.
AreRounds(sorted, S, v) ==
  /\ sorted \in [0..Len(v) -> Seq(S)]
  /\ sorted[0] = <<>>
  /\ \A n \in 1..Len(v) : \E p \in 1..(Len(sorted[n - 1]) + 1) :
       sorted[n] = InsertAt(sorted[n - 1], p, v[n])

LEMMA RoundsReorder ==
  ASSUME NEW S, NEW v \in Seq(S), NEW sorted, AreRounds(sorted, S, v)
  PROVE  IsReordering(sorted[Len(v)], v, Len(v)) /\ sorted[Len(v)] \in Seq(S)
<1>1. PICK N \in Nat : N = Len(v)
  OBVIOUS
<1>2. /\ sorted \in [0..N -> Seq(S)] /\ sorted[0] = <<>>
      /\ \A n \in 1..N : \E p \in 1..(Len(sorted[n - 1]) + 1) :
           sorted[n] = InsertAt(sorted[n - 1], p, v[n])
  BY <1>1 DEF AreRounds
<1>3. \A n \in 1..N : v[n] \in S
  BY <1>1
<1> DEFINE D == {n \in Nat : n <= N => IsReordering(sorted[n], v, n)}
<1>4. 0 \in D
  <2>1. 1..0 = {} /\ Len(<<>>) = 0
    OBVIOUS
  <2>2. Reorders([i \in {} |-> 1], <<>>, v, 0)
    BY <2>1 DEF Reorders
  <2>3. IsReordering(<<>>, v, 0)
    BY <2>1, <2>2 DEF IsReordering
  <2> QED
    BY <1>2, <2>3
<1>5. ASSUME NEW n \in D
      PROVE  n + 1 \in D
  <2> SUFFICES ASSUME n + 1 <= N
               PROVE  IsReordering(sorted[n + 1], v, n + 1)
    OBVIOUS
  <2>1. /\ n \in Nat /\ n \in 0..N /\ n + 1 \in 1..N /\ (n + 1) - 1 = n
        /\ IsReordering(sorted[n], v, n)
    OBVIOUS
  <2> HIDE DEF D
  <2>2. PICK s \in Seq(S) : s = sorted[n]
    BY <1>2, <2>1
  <2>3. Len(s) = n
    BY <2>1, <2>2 DEF IsReordering
  <2>4. PICK p \in 1..(n + 1) : sorted[n + 1] = InsertAt(s, p, v[n + 1])
    BY <1>2, <2>1, <2>2, <2>3
  <2>5. PICK x \in S : x = v[n + 1]
    BY <1>3, <2>1
  <2>6. p \in 1..(Len(s) + 1)
    BY <2>3
  <2>7. IsInsertion(InsertAt(s, p, x), S, s, p, x)
    BY <2>6, InsertAtElements
  <2> QED
    BY <2>1, <2>2, <2>4, <2>5, <2>7, InsertReorders
<1>6. D = Nat
  <2>1. D \subseteq Nat
    OBVIOUS
  <2> HIDE DEF D
  <2> QED
    BY <1>4, <1>5, <2>1, SetInduction
<1>7. N \in D /\ N <= N /\ N \in 0..N
  BY <1>6
<1> QED
  BY <1>1, <1>2, <1>7

LEMMA DeviceSortReorders ==
  ASSUME NEW S, NEW v \in Seq(S)
  PROVE  IsReordering(SortUSBDevices(v), v, Len(v)) /\ SortUSBDevices(v) \in Seq(S)
<1>1. PICK sorted \in [0..Len(v) -> Seq(S)] :
        /\ sorted[0] = <<>>
        /\ \A n \in 1..Len(v) : sorted[n] = Inserted(SortsBefore, sorted[n - 1], v[n])
        /\ SortUSBDevices(v) = sorted[Len(v)]
  BY SortIsRounds
<1>2. ASSUME NEW n \in 1..Len(v)
      PROVE  \E p \in 1..(Len(sorted[n - 1]) + 1) :
               sorted[n] = InsertAt(sorted[n - 1], p, v[n])
  <2>1. n - 1 \in 0..Len(v)
    OBVIOUS
  <2>2. PICK s \in Seq(S) : s = sorted[n - 1]
    BY <2>1
  <2>3. PICK x \in S : x = v[n]
    OBVIOUS
  <2>4. PICK q \in 1..(Len(s) + 1) : Inserted(SortsBefore, s, x) = InsertAt(s, q, x)
    BY InsertedWhere
  <2> QED
    BY <1>1, <2>2, <2>3, <2>4
<1>3. AreRounds(sorted, S, v)
  BY <1>1, <1>2 DEF AreRounds
<1> QED
  BY <1>1, <1>3, RoundsReorder

LEMMA InsertedByID ==
  ASSUME NEW S, NEW s \in Seq(S), NEW x \in S
  PROVE  \E p \in 1..(Len(s) + 1) : Inserted(IDBefore, s, x) = InsertAt(s, p, x)
<1> DEFINE stops == {i \in DOMAIN s : ~IDBefore(x, s[i])}
           front == s = <<>> \/ 1 \notin stops
           p == IF front THEN 1 ELSE Max(stops) + 1
<1>1. Inserted(IDBefore, s, x) = InsertAt(s, p, x)
  BY DEF Inserted
<1>2. PICK n \in Nat : n = Len(s) /\ DOMAIN s = 1..n
  OBVIOUS
<1>3. CASE front
  <2>1. p = 1
    BY <1>3
  <2> HIDE DEF p
  <2> QED
    BY <1>1, <1>2, <2>1
<1>4. CASE ~front
  <2>1. stops \subseteq 0..n /\ stops # {}
    BY <1>2, <1>4
  <2>2. stops \subseteq 1..n
    BY <1>2
  <2>3. p = Max(stops) + 1
    BY <1>4
  <2> HIDE DEF stops, front, p
  <2>4. Max(stops) \in stops
    BY <2>1, MaxInSet
  <2>5. PICK m \in 1..n : m = Max(stops)
    BY <2>2, <2>4
  <2>6. p \in 1..(n + 1)
    BY <2>3, <2>5
  <2> QED
    BY <1>1, <1>2, <2>6
<1> QED
  BY <1>3, <1>4

LEMMA IDSortIsRounds ==
  ASSUME NEW S, NEW vector \in Seq(S)
  PROVE  \E sorted \in [0..Len(vector) -> Seq(S)] :
           /\ sorted[0] = <<>>
           /\ \A n \in 1..Len(vector) :
                sorted[n] = Inserted(IDBefore, sorted[n - 1], vector[n])
           /\ SortByUniqueID(vector) = sorted[Len(vector)]
<1> DEFINE N == Len(vector)
           step == [a \in (1..N) \X Seq(S) |-> Inserted(IDBefore, a[2], vector[a[1]])]
           Rounds(g) == [n \in 0..N |->
                           IF n = 0 THEN <<>> ELSE Inserted(IDBefore, g[n - 1], vector[n])]
           sorted == CHOOSE g : g = Rounds(g)
<1>1. N \in Nat /\ \A n \in 1..N : vector[n] \in S
  OBVIOUS
<1>2. ASSUME NEW n \in 1..N, NEW s \in Seq(S)
      PROVE  Inserted(IDBefore, s, vector[n]) \in Seq(S)
  <2>1. PICK x \in S : x = vector[n]
    BY <1>1
  <2>2. PICK q \in 1..(Len(s) + 1) : Inserted(IDBefore, s, x) = InsertAt(s, q, x)
    BY InsertedByID
  <2>3. IsInsertion(InsertAt(s, q, x), S, s, q, x)
    BY InsertAtElements
  <2>4. InsertAt(s, q, x) \in Seq(S)
    BY <2>3 DEF IsInsertion
  <2> QED
    BY <2>1, <2>2, <2>4
<1>3. step \in [(1..N) \X Seq(S) -> Seq(S)]
  BY <1>2
<1>4. \A n \in 1..N, s \in Seq(S) : step[<<n, s>>] = Inserted(IDBefore, s, vector[n])
  OBVIOUS
<1>5. SortByUniqueID(vector) = sorted[N]
  BY DEF SortByUniqueID, InsertionSort
<1> HIDE DEF N, step
<1>6. PICK f \in [0..N -> Seq(S)] :
        f[0] = <<>> /\ \A n \in 1..N : f[n] = step[<<n, f[n - 1]>>]
  <2>1. PICK T : T = Seq(S)
    OBVIOUS
  <2>2. PICK base \in T : base = <<>>
    <3>1. <<>> \in Seq(S)
      OBVIOUS
    <3> QED
      BY <2>1, <3>1
  <2>3. IsStep(step, N, T)
    BY <1>3, <2>1 DEF IsStep
  <2>4. PICK f : IsRecursion(f, N, T, base, step)
    BY <1>1, <2>3, RecursionExists
  <2> QED
    BY <2>1, <2>2, <2>4 DEF IsRecursion
<1>7. f = Rounds(f)
  <2>1. ASSUME NEW n \in 0..N
        PROVE  f[n] = Rounds(f)[n]
    <3>1. CASE n = 0
      BY <1>1, <1>6, <3>1
    <3>2. CASE n # 0
      <4>1. n \in 1..N /\ n - 1 \in 0..N
        BY <1>1, <3>2
      <4> QED
        BY <1>4, <1>6, <3>2, <4>1
    <3> QED
      BY <3>1, <3>2
  <2> QED
    BY <1>6, <2>1
<1>8. sorted = Rounds(sorted)
  BY <1>7
<1> HIDE DEF sorted
<1>9. /\ DOMAIN sorted = 0..N /\ sorted[0] = <<>>
      /\ \A n \in 1..N : sorted[n] = Inserted(IDBefore, sorted[n - 1], vector[n])
  <2>1. ASSUME NEW n \in 1..N
        PROVE  sorted[n] = Inserted(IDBefore, sorted[n - 1], vector[n])
    <3>1. n \in 0..N /\ n # 0
      BY <1>1
    <3> QED
      BY <1>8, <3>1
  <2>2. 0 \in 0..N
    BY <1>1
  <2> QED
    BY <1>8, <2>1, <2>2
<1>10. \A n \in 0..N : sorted[n] \in Seq(S)
  <2> DEFINE D == {n \in Nat : n <= N => sorted[n] \in Seq(S)}
  <2>1. 0 \in D
    <3>1. <<>> \in Seq(S)
      OBVIOUS
    <3>2. sorted[0] \in Seq(S)
      BY <1>9, <3>1
    <3> QED
      BY <3>2
  <2>2. ASSUME NEW n \in D
        PROVE  n + 1 \in D
    <3> SUFFICES ASSUME n + 1 <= N
                 PROVE  sorted[n + 1] \in Seq(S)
      OBVIOUS
    <3>1. n + 1 \in 1..N /\ (n + 1) - 1 = n /\ sorted[n] \in Seq(S)
      BY <1>1
    <3> QED
      BY <1>2, <1>9, <3>1
  <2>3. D = Nat
    <3>1. D \subseteq Nat
      OBVIOUS
    <3> HIDE DEF D
    <3> QED
      BY <2>1, <2>2, <3>1, SetInduction
  <2>4. ASSUME NEW n \in 0..N
        PROVE  n \in Nat /\ n <= N
    BY <1>1
  <2> QED
    BY <2>3, <2>4
<1>11. sorted \in [0..N -> Seq(S)]
  <2>1. sorted = [n \in 0..N |-> sorted[n]]
    <3>1. PICK F : F = Rounds(sorted)
      OBVIOUS
    <3> QED
      BY <1>8
  <2> QED
    BY <1>10, <2>1
<1> QED
  BY <1>5, <1>9, <1>11 DEF N

LEMMA IDSortReorders ==
  ASSUME NEW S, NEW v \in Seq(S)
  PROVE  IsReordering(SortByUniqueID(v), v, Len(v)) /\ SortByUniqueID(v) \in Seq(S)
<1>1. PICK sorted \in [0..Len(v) -> Seq(S)] :
        /\ sorted[0] = <<>>
        /\ \A n \in 1..Len(v) : sorted[n] = Inserted(IDBefore, sorted[n - 1], v[n])
        /\ SortByUniqueID(v) = sorted[Len(v)]
  BY IDSortIsRounds
<1>2. ASSUME NEW n \in 1..Len(v)
      PROVE  \E p \in 1..(Len(sorted[n - 1]) + 1) :
               sorted[n] = InsertAt(sorted[n - 1], p, v[n])
  <2>1. n - 1 \in 0..Len(v)
    OBVIOUS
  <2>2. PICK s \in Seq(S) : s = sorted[n - 1]
    BY <2>1
  <2>3. PICK x \in S : x = v[n]
    OBVIOUS
  <2>4. PICK q \in 1..(Len(s) + 1) : Inserted(IDBefore, s, x) = InsertAt(s, q, x)
    BY InsertedByID
  <2> QED
    BY <1>1, <2>2, <2>3, <2>4
<1>3. AreRounds(sorted, S, v)
  BY <1>1, <1>2 DEF AreRounds
<1> QED
  BY <1>1, <1>3, RoundsReorder

LEMMA SameElements ==
  ASSUME NEW S, NEW v \in Seq(S), NEW r \in Seq(S), IsReordering(r, v, Len(v))
  PROVE  Len(r) = Len(v) /\ ToSet(r) = ToSet(v)
<1>1. PICK n \in Nat : n = Len(v) /\ DOMAIN v = 1..n
  OBVIOUS
<1>2. Len(r) = n /\ DOMAIN r = 1..n
  BY <1>1 DEF IsReordering
<1>3. PICK pi : Reorders(pi, r, v, n)
  BY <1>1 DEF IsReordering
<1>4. /\ \A i \in 1..n : pi[i] \in 1..n /\ r[i] = v[pi[i]]
      /\ \A k \in 1..n : \E i \in 1..n : pi[i] = k
  BY <1>3 DEF Reorders
<1>5. ToSet(r) \subseteq ToSet(v)
  <2>1. ASSUME NEW i \in 1..n
        PROVE  r[i] \in ToSet(v)
    <3>1. PICK k \in 1..n : k = pi[i] /\ r[i] = v[k]
      BY <1>4
    <3>2. v[k] \in ToSet(v)
      BY <1>1 DEF ToSet
    <3> QED
      BY <3>1, <3>2
  <2> QED
    BY <1>2, <2>1 DEF ToSet
<1>6. ASSUME NEW k \in 1..n
      PROVE  v[k] \in ToSet(r)
  <2>1. PICK i \in 1..n : pi[i] = k
    BY <1>4
  <2>2. r[i] = v[k]
    BY <1>4, <2>1
  <2>3. r[i] \in ToSet(r)
    BY <1>2 DEF ToSet
  <2> QED
    BY <2>2, <2>3
<1>7. ToSet(v) \subseteq ToSet(r)
  BY <1>1, <1>6 DEF ToSet
<1> QED
  BY <1>1, <1>2, <1>5, <1>7

\* kept gives the places in v of the entries of w, which are those not gone.
AreKept(kept, w, v, gone) ==
  /\ kept \in [DOMAIN w -> {i \in DOMAIN v : v[i] \notin gone}]
  /\ \A k, l \in DOMAIN w : kept[k] = kept[l] => k = l
  /\ \A i \in DOMAIN v : v[i] \notin gone => \E k \in DOMAIN w : kept[k] = i
  /\ \A k \in DOMAIN w : w[k] = v[kept[k]]

LEMMA EraseIndices ==
  ASSUME NEW X, NEW v \in Seq(X), NEW gone
  PROVE  \E kept : AreKept(kept, Erase(v, gone), v, gone)
<1> DEFINE S == {i \in DOMAIN v : v[i] \notin gone}
           c == Cardinality(S)
           kept == InOrder(S)
           w == Erase(v, gone)
<1>1. S \subseteq 1..Len(v) /\ Len(v) \in Nat
  OBVIOUS
<1> HIDE DEF S
<1>2. /\ kept \in [1..c -> S]
      /\ \A i, j \in 1..c : kept[i] = kept[j] => i = j
      /\ \A s \in S : \E i \in 1..c : kept[i] = s
  BY <1>1, InOrderEnumerates
<1>3. DOMAIN kept = 1..c
  BY <1>2
<1>4. w = [k \in 1..c |-> v[kept[k]]]
  BY <1>3 DEF Erase, S
<1> HIDE DEF kept, w
<1>5. DOMAIN w = 1..c /\ \A k \in 1..c : w[k] = v[kept[k]]
  BY <1>4
<1>6. AreKept(kept, w, v, gone)
  BY <1>2, <1>5 DEF AreKept, S
<1> QED
  BY <1>6 DEF w

-----------------------------------------------------------------------------
(* Lists of the elements of a set, and what a scanner makes of such a list. *)

LEMMA EmptyList ==
  ASSUME NEW S, NEW list, list = <<>>
  PROVE  list \in Seq(S) /\ DOMAIN list = {}
OBVIOUS

LEMMA SeqOfItself ==
  ASSUME NEW X, NEW w \in Seq(X)
  PROVE  w \in Seq(ToSet(w))
<1>1. \A i \in 1..Len(w) : w[i] \in ToSet(w)
  BY DEF ToSet
<1>2. w \in [1..Len(w) -> ToSet(w)] /\ Len(w) \in Nat
  BY <1>1
<1> QED
  BY <1>2

LEMMA FiniteValues ==
  ASSUME NEW S, IsFiniteSet(S), NEW f
  PROVE  IsFiniteSet({f[x] : x \in S})
<1> DEFINE T == {f[x] : x \in S}
           g == [x \in S |-> f[x]]
<1>1. g \in [S -> T] /\ \A t \in T : \E x \in S : g[x] = t
  OBVIOUS
<1>2. g \in Surjection(S, T)
  BY <1>1 DEF Surjection
<1> QED
  BY <1>2, FS_Surjection

\* Each element of S, once.
IsListing(list, S) ==
  /\ list \in Seq(S)
  /\ \A i, j \in DOMAIN list : list[i] = list[j] => i = j
  /\ \A x \in S : \E i \in DOMAIN list : list[i] = x

\* from gives what each device of w was made of; none that can be made is missing.
AreMade(from, w, P, g) ==
  /\ from \in [DOMAIN w -> P]
  /\ \A k, l \in DOMAIN w : from[k] = from[l] => k = l
  /\ \A k \in DOMAIN w : w[k] = g[from[k]] /\ g[from[k]] # BuildError
  /\ \A p \in P : g[p] # BuildError => \E k \in DOMAIN w : from[k] = p

IsMapped(v, g, list) == v = [i \in DOMAIN list |-> g[list[i]]]

LEMMA MadeFrom ==
  ASSUME NEW P, NEW g, NEW X, \A p \in P : g[p] \in X,
         NEW list, IsListing(list, P), NEW v, IsMapped(v, g, list),
         NEW w, w = Erase(v, {BuildError})
  PROVE  w \in Seq(X) /\ \E from : AreMade(from, w, P, g)
<1>1. IsListing(list, P)
  OBVIOUS
<1>2. PICK n \in Nat : n = Len(list) /\ DOMAIN list = 1..n /\ \A i \in 1..n : list[i] \in P
  <2>1. list \in Seq(P)
    BY <1>1 DEF IsListing
  <2> QED
    BY <2>1
<1>3. /\ \A i, j \in 1..n : list[i] = list[j] => i = j
      /\ \A x \in P : \E i \in 1..n : list[i] = x
  BY <1>1, <1>2 DEF IsListing
<1>4. v = [i \in 1..n |-> g[list[i]]]
  BY <1>2 DEF IsMapped
<1>5. v \in Seq(X)
  <2>1. v \in [1..n -> X]
    BY <1>2, <1>4
  <2> QED
    BY <2>1
<1>6. w = Erase(v, {BuildError})
  BY <1>2, <1>4
<1>7. w \in Seq(X)
  BY <1>5, <1>6, EraseKeeps
<1>8. PICK kept : AreKept(kept, w, v, {BuildError})
  BY <1>5, <1>6, EraseIndices
<1>9. DOMAIN v = 1..n /\ \A i \in 1..n : v[i] = g[list[i]]
  BY <1>4
<1>10. /\ \A k \in DOMAIN w : kept[k] \in 1..n /\ v[kept[k]] # BuildError /\ w[k] = v[kept[k]]
       /\ \A k, l \in DOMAIN w : kept[k] = kept[l] => k = l
       /\ \A i \in 1..n : v[i] # BuildError => \E k \in DOMAIN w : kept[k] = i
  BY <1>8, <1>9 DEF AreKept
<1>11. PICK from : from = [k \in DOMAIN w |-> list[kept[k]]]
  OBVIOUS
<1>12. \A k \in DOMAIN w : from[k] = list[kept[k]]
  BY <1>11
<1>13. from \in [DOMAIN w -> P]
  BY <1>2, <1>10, <1>11
<1>14. \A k, l \in DOMAIN w : from[k] = from[l] => k = l
  BY <1>3, <1>10, <1>12
<1>15. ASSUME NEW k \in DOMAIN w
       PROVE  w[k] = g[from[k]] /\ g[from[k]] # BuildError
  <2>1. PICK i \in 1..n : i = kept[k]
    BY <1>10
  <2>2. w[k] = v[i] /\ v[i] # BuildError /\ v[i] = g[list[i]] /\ from[k] = list[i]
    BY <1>9, <1>10, <1>12, <2>1
  <2> QED
    BY <2>2
<1>16. ASSUME NEW p \in P, g[p] # BuildError
       PROVE  \E k \in DOMAIN w : from[k] = p
  <2>1. PICK i \in 1..n : list[i] = p
    BY <1>3
  <2>2. PICK k \in DOMAIN w : kept[k] = i
    BY <1>9, <1>10, <1>16, <2>1
  <2> QED
    BY <1>12, <2>1, <2>2
<1>17. AreMade(from, w, P, g)
  BY <1>13, <1>14, <1>15, <1>16 DEF AreMade
<1> QED
  BY <1>7, <1>17

LEMMA SetToSeqLists ==
  ASSUME NEW S, IsFiniteSet(S)
  PROVE  IsListing(SetToSeq(S), S)
<1>1. PICK n \in Nat : n = Cardinality(S) /\ ExistsBijection(1..n, S)
  BY FS_CardinalityType
<1>2. PICK f \in [1..n -> S] : IsInjective(f)
  BY <1>1 DEF ExistsBijection, Bijection, Injection
<1>3. PICK list : list = SetToSeq(S)
  OBVIOUS
<1>4. list \in [1..n -> S] /\ IsInjective(list)
  BY <1>1, <1>2, <1>3 DEF SetToSeq
<1>5. IsFiniteSet(1..n) /\ Cardinality(1..n) = n
  <2>1. 1 \in Int /\ n \in Int /\ (1 > n => n = 0) /\ n - 1 + 1 = n
    BY <1>1
  <2> QED
    BY <2>1, FS_Interval
<1>6. list \in Surjection(1..n, S)
  <2>1. list \in Injection(1..n, S)
    BY <1>4 DEF Injection
  <2> QED
    BY <1>1, <1>5, <2>1, FS_Injection
<1>7. \A x \in S : \E i \in 1..n : list[i] = x
  BY <1>6 DEF Surjection
<1>8. list \in Seq(S) /\ DOMAIN list = 1..n
  BY <1>4
<1> QED
  BY <1>3, <1>4, <1>7, <1>8 DEF IsListing, IsInjective

\* Two lists made of different things, one behind the other.
LEMMA MadeTogether ==
  ASSUME NEW X, NEW g, NEW P, NEW Q, P \cap Q = {},
         NEW v \in Seq(X), NEW a, AreMade(a, v, P, g),
         NEW w \in Seq(X), NEW b, AreMade(b, w, Q, g)
  PROVE  v \o w \in Seq(X) /\ \E c : AreMade(c, v \o w, P \cup Q, g)
<1>1. PICK m \in Nat : m = Len(v) /\ DOMAIN v = 1..m
  OBVIOUS
<1>2. PICK n \in Nat : n = Len(w) /\ DOMAIN w = 1..n
  OBVIOUS
<1>3. PICK u : u = v \o w
  OBVIOUS
<1>4. /\ u \in Seq(X) /\ DOMAIN u = 1..(m + n)
      /\ \A i \in 1..m : u[i] = v[i]
      /\ \A i \in 1..(m + n) : i > m => u[i] = w[i - m] /\ i - m \in 1..n
  BY <1>1, <1>2, <1>3
<1>5. \A i \in 1..(m + n) : i \in 1..m \/ (i > m /\ i - m \in 1..n)
  OBVIOUS
<1>6. \A i \in 1..n : m + i \in 1..(m + n) /\ m + i > m /\ (m + i) - m = i
  OBVIOUS
<1>7. 1..m \subseteq 1..(m + n) /\ \A i \in 1..m : ~(i > m)
  OBVIOUS
<1>8. PICK c : c = [i \in 1..(m + n) |-> IF i > m THEN b[i - m] ELSE a[i]]
  OBVIOUS
<1>9. \A i \in 1..(m + n) : c[i] = IF i > m THEN b[i - m] ELSE a[i]
  BY <1>8
<1>10. /\ \A i \in 1..m : a[i] \in P /\ v[i] = g[a[i]] /\ g[a[i]] # BuildError
       /\ \A i, j \in 1..m : a[i] = a[j] => i = j
       /\ \A p \in P : g[p] # BuildError => \E i \in 1..m : a[i] = p
  <2>1. a \in [1..m -> P] /\ \A i \in 1..m : v[i] = g[a[i]] /\ g[a[i]] # BuildError
    BY <1>1 DEF AreMade
  <2>2. \A i, j \in 1..m : a[i] = a[j] => i = j
    BY <1>1 DEF AreMade
  <2>3. ASSUME NEW p \in P, g[p] # BuildError
        PROVE  \E i \in 1..m : a[i] = p
    BY <1>1, <2>3 DEF AreMade
  <2> QED
    BY <2>1, <2>2, <2>3
<1>11. /\ \A i \in 1..n : b[i] \in Q /\ w[i] = g[b[i]] /\ g[b[i]] # BuildError
       /\ \A i, j \in 1..n : b[i] = b[j] => i = j
       /\ \A p \in Q : g[p] # BuildError => \E i \in 1..n : b[i] = p
  <2>1. b \in [1..n -> Q] /\ \A i \in 1..n : w[i] = g[b[i]] /\ g[b[i]] # BuildError
    BY <1>2 DEF AreMade
  <2>2. \A i, j \in 1..n : b[i] = b[j] => i = j
    BY <1>2 DEF AreMade
  <2>3. ASSUME NEW p \in Q, g[p] # BuildError
        PROVE  \E i \in 1..n : b[i] = p
    BY <1>2, <2>3 DEF AreMade
  <2> QED
    BY <2>1, <2>2, <2>3
<1>12. /\ \A i \in 1..m : c[i] = a[i] /\ u[i] = v[i]
       /\ \A i \in 1..(m + n) : i > m => c[i] = b[i - m] /\ u[i] = w[i - m]
  BY <1>4, <1>7, <1>9
<1>13. c \in [1..(m + n) -> P \cup Q]
  <2>1. \A i \in 1..(m + n) : c[i] \in P \cup Q
    BY <1>5, <1>10, <1>11, <1>12
  <2> QED
    BY <1>8, <2>1
<1>14. \A i \in 1..(m + n) : u[i] = g[c[i]] /\ g[c[i]] # BuildError
  BY <1>5, <1>10, <1>11, <1>12
<1>15. ASSUME NEW i \in 1..(m + n), NEW j \in 1..(m + n), c[i] = c[j]
       PROVE  i = j
  <2>1. CASE i \in 1..m /\ j \in 1..m
    BY <1>10, <1>12, <1>15, <2>1
  <2>2. CASE i > m /\ j > m
    <3>1. i - m \in 1..n /\ j - m \in 1..n
      BY <1>4, <2>2
    <3>2. i - m = j - m
      BY <1>11, <1>12, <1>15, <2>2, <3>1
    <3> QED
      BY <3>2
  <2>3. CASE (i \in 1..m /\ j > m) \/ (j \in 1..m /\ i > m)
    <3>1. FALSE
      BY <1>4, <1>10, <1>11, <1>12, <1>15, <2>3
    <3> QED
      BY <3>1
  <2> QED
    BY <1>5, <2>1, <2>2, <2>3
<1>16. ASSUME NEW p \in P \cup Q, g[p] # BuildError
       PROVE  \E i \in 1..(m + n) : c[i] = p
  <2>1. CASE p \in P
    <3>1. PICK i \in 1..m : a[i] = p
      BY <1>10, <1>16, <2>1
    <3> QED
      BY <1>7, <1>12, <3>1
  <2>2. CASE p \in Q
    <3>1. PICK i \in 1..n : b[i] = p
      BY <1>11, <1>16, <2>2
    <3>2. c[m + i] = b[i]
      BY <1>6, <1>12
    <3> QED
      BY <1>6, <3>1, <3>2
  <2> QED
    BY <2>1, <2>2
<1>17. AreMade(c, u, P \cup Q, g)
  BY <1>4, <1>13, <1>14, <1>15, <1>16 DEF AreMade
<1> QED
  BY <1>3, <1>4, <1>17

LEMMA SortedFrom ==
  ASSUME NEW P, NEW g, NEW X, NEW w \in Seq(X), NEW from, AreMade(from, w, P, g)
  PROVE  /\ SortByUniqueID(w) \in Seq(X)
         /\ \E to : AreMade(to, SortByUniqueID(w), P, g)
<1>1. PICK r : r = SortByUniqueID(w)
  OBVIOUS
<1>2. PICK n \in Nat : n = Len(w) /\ DOMAIN w = 1..n
  OBVIOUS
<1>3. r \in Seq(X) /\ IsReordering(r, w, n)
  BY <1>1, <1>2, IDSortReorders
<1>4. DOMAIN r = 1..n
  BY <1>3 DEF IsReordering
<1>5. PICK pi : Reorders(pi, r, w, n)
  BY <1>3 DEF IsReordering
<1>6. /\ \A i \in 1..n : pi[i] \in 1..n /\ r[i] = w[pi[i]]
      /\ \A i, j \in 1..n : pi[i] = pi[j] => i = j
      /\ \A k \in 1..n : \E i \in 1..n : pi[i] = k
  BY <1>5 DEF Reorders
<1>7. /\ \A k \in 1..n : from[k] \in P /\ w[k] = g[from[k]] /\ g[from[k]] # BuildError
      /\ \A k, l \in 1..n : from[k] = from[l] => k = l
      /\ \A p \in P : g[p] # BuildError => \E k \in 1..n : from[k] = p
  BY <1>2 DEF AreMade
<1>8. PICK to : to = [i \in 1..n |-> from[pi[i]]]
  OBVIOUS
<1>9. \A i \in 1..n : to[i] = from[pi[i]]
  BY <1>8
<1>10. to \in [1..n -> P]
  BY <1>6, <1>7, <1>8
<1>11. ASSUME NEW k \in 1..n, NEW l \in 1..n, to[k] = to[l]
       PROVE  k = l
  <2>1. PICK i \in 1..n, j \in 1..n : i = pi[k] /\ j = pi[l]
    BY <1>6
  <2>2. from[i] = from[j]
    BY <1>9, <1>11, <2>1
  <2>3. i = j
    BY <1>7, <2>2
  <2> QED
    BY <1>6, <2>1, <2>3
<1>12. ASSUME NEW k \in 1..n
       PROVE  r[k] = g[to[k]] /\ g[to[k]] # BuildError
  <2>1. PICK i \in 1..n : i = pi[k]
    BY <1>6
  <2>2. r[k] = w[i] /\ to[k] = from[i]
    BY <1>6, <1>9, <2>1
  <2> QED
    BY <1>7, <2>2
<1>13. ASSUME NEW p \in P, g[p] # BuildError
       PROVE  \E k \in 1..n : to[k] = p
  <2>1. PICK k \in 1..n : from[k] = p
    BY <1>7, <1>13
  <2>2. PICK i \in 1..n : pi[i] = k
    BY <1>6
  <2> QED
    BY <1>9, <2>1, <2>2
<1>14. AreMade(to, r, P, g)
  BY <1>4, <1>10, <1>11, <1>12, <1>13 DEF AreMade
<1> QED
  BY <1>1, <1>3, <1>14

-----------------------------------------------------------------------------
(* Paths. *)

LEMMA FrontOfAppend ==
  ASSUME NEW S, NEW s \in Seq(S), NEW x \in S
  PROVE  Front(Append(s, x)) = s /\ Len(Append(s, x)) = Len(s) + 1
BY DEF Front

LEMMA FrontIsPath ==
  ASSUME NEW S, NEW s \in Seq(S), Len(s) \in Nat \ {0}
  PROVE  Front(s) \in Seq(S) /\ Len(Front(s)) = Len(s) - 1
<1> DEFINE n == Len(s) - 1
<1>1. n \in Nat /\ \A i \in 1..n : s[i] \in S
  OBVIOUS
<1>2. Front(s) = [i \in 1..n |-> s[i]]
  BY <1>1 DEF Front
<1> HIDE DEF n
<1>3. [i \in 1..n |-> s[i]] \in Seq(S) /\ Len([i \in 1..n |-> s[i]]) = n
  BY <1>1
<1> QED
  BY <1>2, <1>3 DEF n

\* What is below the hub of a place is above the place.
LEMMA PrefixOfFront ==
  ASSUME NEW S, NEW s \in Seq(S), NEW t \in Seq(S), Len(t) \in Nat \ {0}, IsPrefix(s, Front(t))
  PROVE  IsPrefix(s, t)
<1>1. Front(t) \in Seq(S) /\ Len(Front(t)) = Len(t) - 1
  BY FrontIsPath
<1>2. Len(s) <= Len(t) - 1 /\ Len(s) \in Nat
  BY <1>1 DEF IsPrefix
<1>3. SubSeq(Front(t), 1, Len(s)) = SubSeq(t, 1, Len(s))
  BY <1>1, <1>2 DEF Front
<1> QED
  BY <1>2, <1>3 DEF IsPrefix

LEMMA PrefixElements ==
  ASSUME NEW S, NEW s \in Seq(S), NEW t \in Seq(S)
  PROVE  IsPrefix(s, t) <=> Len(s) <= Len(t) /\ \A i \in 1..Len(s) : s[i] = t[i]
<1>1. PICK n \in Nat : n = Len(s) /\ s \in [1..n -> S]
  OBVIOUS
<1>2. SubSeq(s, 1, n) = s
  BY <1>1
<1>3. CASE ~(n <= Len(t))
  BY <1>1, <1>3 DEF IsPrefix
<1>4. CASE n <= Len(t)
  <2>1. PICK u : u = SubSeq(t, 1, n)
    OBVIOUS
  <2>2. u \in [1..n -> S] /\ \A i \in 1..n : u[i] = t[i]
    <3>1. u \in Seq(S) /\ Len(u) = n
      BY <1>1, <1>4, <2>1
    <3>2. \A i \in 1..n : u[i] = t[i]
      BY <1>1, <1>4, <2>1
    <3> QED
      BY <3>1, <3>2
  <2>3. s = u <=> \A i \in 1..n : s[i] = u[i]
    BY <1>1, <2>2
  <2> QED
    BY <1>1, <1>2, <1>4, <2>1, <2>2, <2>3 DEF IsPrefix
<1> QED
  BY <1>3, <1>4

LEMMA SameSequence ==
  ASSUME NEW S, NEW s \in Seq(S), NEW t \in Seq(S), Len(s) = Len(t),
         \A i \in 1..Len(s) : s[i] = t[i]
  PROVE  s = t
<1>1. s \in [1..Len(s) -> S] /\ t \in [1..Len(t) -> S]
  OBVIOUS
<1> QED
  BY <1>1

LEMMA FrontElements ==
  ASSUME NEW S, NEW s \in Seq(S), Len(s) > 0
  PROVE  /\ Front(s) \in Seq(S) /\ Len(Front(s)) = Len(s) - 1
         /\ \A i \in 1..(Len(s) - 1) : Front(s)[i] = s[i]
<1>1. Len(s) \in Nat \ {0}
  OBVIOUS
<1>2. Front(s) \in Seq(S) /\ Len(Front(s)) = Len(s) - 1
  BY <1>1, FrontIsPath
<1>3. \A i \in 1..(Len(s) - 1) : Front(s)[i] = s[i]
  BY <1>1 DEF Front
<1> QED
  BY <1>2, <1>3

LEMMA PrefixReflexive ==
  ASSUME NEW S, NEW s \in Seq(S)
  PROVE  IsPrefix(s, s)
BY PrefixElements

LEMMA PrefixTransitive ==
  ASSUME NEW S, NEW s \in Seq(S), NEW t \in Seq(S), NEW u \in Seq(S),
         IsPrefix(s, t), IsPrefix(t, u)
  PROVE  IsPrefix(s, u)
<1>1. PICK m \in Nat, n \in Nat, k \in Nat : m = Len(s) /\ n = Len(t) /\ k = Len(u)
  OBVIOUS
<1>2. m <= n /\ n <= k /\ (\A i \in 1..m : s[i] = t[i]) /\ \A i \in 1..n : t[i] = u[i]
  BY <1>1, PrefixElements
<1>3. \A i \in 1..m : i \in 1..n
  BY <1>2
<1>4. m <= k /\ \A i \in 1..m : s[i] = u[i]
  BY <1>2, <1>3
<1> QED
  BY <1>1, <1>4, PrefixElements

\* Two prefixes of a path are prefixes of one another.
LEMMA PrefixesNested ==
  ASSUME NEW S, NEW s \in Seq(S), NEW t \in Seq(S), NEW u \in Seq(S),
         IsPrefix(s, u), IsPrefix(t, u)
  PROVE  IsPrefix(s, t) \/ IsPrefix(t, s)
<1>1. PICK m \in Nat, n \in Nat, k \in Nat : m = Len(s) /\ n = Len(t) /\ k = Len(u)
  OBVIOUS
<1>2. m <= k /\ n <= k /\ (\A i \in 1..m : s[i] = u[i]) /\ \A i \in 1..n : t[i] = u[i]
  BY <1>1, PrefixElements
<1>3. CASE m <= n
  <2>1. \A i \in 1..m : s[i] = t[i]
    BY <1>2, <1>3
  <2> QED
    BY <1>1, <1>3, <2>1, PrefixElements
<1>4. CASE n <= m
  <2>1. \A i \in 1..n : t[i] = s[i]
    BY <1>2, <1>4
  <2> QED
    BY <1>1, <1>4, <2>1, PrefixElements
<1> QED
  BY <1>3, <1>4

LEMMA PrefixBothWays ==
  ASSUME NEW S, NEW s \in Seq(S), NEW t \in Seq(S), IsPrefix(s, t), IsPrefix(t, s)
  PROVE  s = t
<1>1. Len(s) \in Nat /\ Len(t) \in Nat
  OBVIOUS
<1>2. Len(s) <= Len(t) /\ Len(t) <= Len(s) /\ \A i \in 1..Len(s) : s[i] = t[i]
  BY PrefixElements
<1>3. Len(s) = Len(t)
  BY <1>1, <1>2
<1> QED
  BY <1>2, <1>3, SameSequence

\* What is above a path and not the path is above its hub.
LEMMA StrictPrefixOfFront ==
  ASSUME NEW S, NEW s \in Seq(S), NEW t \in Seq(S), Len(t) > 0, IsPrefix(s, t), s # t
  PROVE  IsPrefix(s, Front(t))
<1>1. PICK m \in Nat, n \in Nat : m = Len(s) /\ n = Len(t)
  OBVIOUS
<1>2. m <= n /\ \A i \in 1..m : s[i] = t[i]
  BY <1>1, PrefixElements
<1>3. m # n
  BY <1>1, <1>2, SameSequence
<1>4. PICK f : f = Front(t)
  OBVIOUS
<1>5. f \in Seq(S) /\ Len(f) = n - 1 /\ \A i \in 1..(n - 1) : f[i] = t[i]
  BY <1>1, <1>4, FrontElements
<1>6. m <= n - 1 /\ \A i \in 1..m : s[i] = f[i]
  BY <1>2, <1>3, <1>5
<1> QED
  BY <1>1, <1>4, <1>5, <1>6, PrefixElements

LEMMA FrontIsPrefix ==
  ASSUME NEW S, NEW t \in Seq(S), Len(t) > 0
  PROVE  Front(t) \in Seq(S) /\ IsPrefix(Front(t), t) /\ Front(t) # t
<1>1. PICK n \in Nat : n = Len(t)
  OBVIOUS
<1>2. PICK f : f = Front(t)
  OBVIOUS
<1>3. f \in Seq(S) /\ Len(f) = n - 1 /\ \A i \in 1..(n - 1) : f[i] = t[i]
  BY <1>1, <1>2, FrontElements
<1>4. IsPrefix(f, t) /\ f # t
  BY <1>1, <1>3, PrefixElements
<1> QED
  BY <1>2, <1>3, <1>4

-----------------------------------------------------------------------------
(* What fromUSBDevices makes of any list. *)

LEMMA FirstOfKindIs ==
  ASSUME NEW S, NEW list \in Seq(S), NEW kind
  PROVE  \/ FirstOfKind(list, kind) = 0 /\ \A i \in DOMAIN list : list[i].kind # kind
         \/ /\ FirstOfKind(list, kind) # 0 /\ FirstOfKind(list, kind) \in DOMAIN list
            /\ list[FirstOfKind(list, kind)].kind = kind
<1> DEFINE I == {i \in 1..Len(list) : list[i].kind = kind}
<1>1. FirstOfKind(list, kind) = IF I # {} THEN Min(I) ELSE 0
  BY DEF FirstOfKind, SelectInSeq
<1>2. DOMAIN list = 1..Len(list) /\ Len(list) \in Nat
  OBVIOUS
<1>3. CASE I = {}
  BY <1>1, <1>2, <1>3
<1>4. CASE I # {}
  <2>1. I \subseteq Nat
    BY <1>2
  <2> HIDE DEF I
  <2>2. Min(I) \in I
    BY <1>4, <2>1, MinInSet
  <2>3. FirstOfKind(list, kind) \in I
    BY <1>1, <1>4, <2>2
  <2>4. FirstOfKind(list, kind) \in 1..Len(list) /\ list[FirstOfKind(list, kind)].kind = kind
    BY <2>3 DEF I
  <2> QED
    BY <1>2, <2>4
<1> QED
  BY <1>3, <1>4

\* Nothing comes before the first element.
LEMMA FirstOfKindFirst ==
  ASSUME NEW S, NEW list \in Seq(S), Len(list) > 0, NEW kind, list[1].kind = kind
  PROVE  FirstOfKind(list, kind) = 1
<1> DEFINE I == {i \in 1..Len(list) : list[i].kind = kind}
<1>1. FirstOfKind(list, kind) = IF I # {} THEN Min(I) ELSE 0
  BY DEF FirstOfKind, SelectInSeq
<1>2. I \subseteq Nat /\ 1 \in I /\ \A i \in I : i >= 1
  OBVIOUS
<1> HIDE DEF I
<1>3. PICK m : m = Min(I)
  OBVIOUS
<1>4. m \in I /\ m <= 1
  BY <1>2, <1>3, MinInSet
<1>5. m = 1
  <2>1. m \in Nat /\ m >= 1
    BY <1>2, <1>4
  <2> QED
    BY <1>4, <2>1
<1> QED
  BY <1>1, <1>2, <1>3, <1>5

\* What a getter looks for at a port.
AtPort(dev, location) == dev.location = location /\ dev.kind \notin {"Hub", "Other"}

Finds(list, kind, location, k) ==
  \/ k = 0 /\ \A i \in DOMAIN list : list[i].kind # kind /\ ~AtPort(list[i], location)
  \/ k # 0 /\ k \in DOMAIN list /\ (list[k].kind = kind \/ AtPort(list[k], location))

LEMMA ByKindElseLocationIs ==
  ASSUME NEW S, NEW d, NEW list \in Seq(S), d.usbDevices = list, NEW kind, NEW location
  PROVE  Finds(list, kind, location, ByKindElseLocation(d, kind, location))
<1> DEFINE I == {i \in 1..Len(list) : AtPort(list[i], location)}
           first == FirstOfKind(list, kind)
           k == ByKindElseLocation(d, kind, location)
<1>1. k = IF first # 0 THEN first ELSE IF I # {} THEN Min(I) ELSE 0
  BY DEF ByKindElseLocation, SelectInSeq, AtPort
<1>2. \/ first = 0 /\ \A i \in DOMAIN list : list[i].kind # kind
      \/ first # 0 /\ first \in DOMAIN list /\ list[first].kind = kind
  BY FirstOfKindIs
<1>3. DOMAIN list = 1..Len(list) /\ 0 \notin 1..Len(list)
  OBVIOUS
<1>4. I # {} => Min(I) \in DOMAIN list /\ AtPort(list[Min(I)], location)
  <2> SUFFICES ASSUME I # {}
               PROVE  Min(I) \in DOMAIN list /\ AtPort(list[Min(I)], location)
    OBVIOUS
  <2>1. I \subseteq Nat
    BY <1>3
  <2> HIDE DEF I
  <2>2. Min(I) \in I
    BY <2>1, MinInSet
  <2> QED
    BY <1>3, <2>2 DEF I
<1>5. I = {} => \A i \in DOMAIN list : ~AtPort(list[i], location)
  BY <1>3
<1> HIDE DEF I, first, k
<1>6. \/ k = 0 /\ \A i \in DOMAIN list : list[i].kind # kind /\ ~AtPort(list[i], location)
      \/ k # 0 /\ k \in DOMAIN list /\ (list[k].kind = kind \/ AtPort(list[k], location))
  BY <1>1, <1>2, <1>3, <1>4, <1>5
<1> QED
  BY <1>6 DEF k, Finds

\* The kinds the serial of a FREE-WILi2 may come from.
CarrierKinds == {"FTDI", "SerialMain", "SerialDisplay"}

LEMMA FallbackSerialIs ==
  ASSUME NEW S, NEW list \in Seq(S)
  PROVE  \/ /\ FallbackSerial(list) = ""
            /\ \A i \in DOMAIN list : list[i].kind \in CarrierKinds => list[i].serial = ""
         \/ /\ FallbackSerial(list) # ""
            /\ \E i \in DOMAIN list : /\ list[i].kind \in CarrierKinds
                                     /\ FallbackSerial(list) = list[i].serial
<1> DEFINE carriers(kind) == {i \in DOMAIN list : list[i].kind = kind /\ list[i].serial # ""}
           I == {n \in 1..Len(FallbackKinds) : carriers(FallbackKinds[n]) # {}}
           k == IF I # {} THEN Min(I) ELSE 0
<1>1. FallbackSerial(list) = IF k = 0 THEN "" ELSE list[Min(carriers(FallbackKinds[k]))].serial
  BY DEF FallbackSerial, SelectInSeq
<1>2. Len(FallbackKinds) = 3 /\ 1..3 = {1, 2, 3}
  BY DEF FallbackKinds
<1>3. FallbackKinds[1] = "FTDI" /\ FallbackKinds[2] = "SerialMain" /\ FallbackKinds[3] = "SerialDisplay"
  BY DEF FallbackKinds
<1>4. \A kind : carriers(kind) \subseteq Nat
  <2>1. Len(list) \in Nat /\ DOMAIN list = 1..Len(list)
    OBVIOUS
  <2>2. DOMAIN list \subseteq Nat
    BY <2>1
  <2> QED
    BY <2>2
<1>5. \A kind, i : i \in carriers(kind) <=>
        i \in DOMAIN list /\ list[i].kind = kind /\ list[i].serial # ""
  OBVIOUS
<1>6. I \subseteq {1, 2, 3} /\ \A n \in {1, 2, 3} : n \in I <=> carriers(FallbackKinds[n]) # {}
  BY <1>2
<1> HIDE DEF carriers, I
<1>7. CASE I = {}
  <2>1. carriers("FTDI") = {} /\ carriers("SerialMain") = {} /\ carriers("SerialDisplay") = {}
    BY <1>3, <1>6, <1>7
  <2>2. \A i \in DOMAIN list : list[i].kind \in CarrierKinds => list[i].serial = ""
    BY <1>5, <2>1 DEF CarrierKinds
  <2>3. FallbackSerial(list) = ""
    BY <1>1, <1>7
  <2> QED
    BY <2>2, <2>3
<1>8. CASE I # {}
  <2>1. I \subseteq Nat
    BY <1>6
  <2>2. Min(I) \in I
    BY <1>8, <2>1, MinInSet
  <2>3. k \in {1, 2, 3} /\ carriers(FallbackKinds[k]) # {}
    BY <1>6, <1>8, <2>2
  <2> HIDE DEF k
  <2>4. PICK kind : kind = FallbackKinds[k]
    OBVIOUS
  <2>5. kind \in CarrierKinds /\ carriers(kind) # {}
    BY <1>3, <2>3, <2>4 DEF CarrierKinds
  <2>6. PICK i : i = Min(carriers(kind))
    OBVIOUS
  <2>7. i \in carriers(kind)
    BY <1>4, <2>5, <2>6, MinInSet
  <2>8. i \in DOMAIN list /\ list[i].kind = kind /\ list[i].serial # ""
    BY <1>5, <2>7
  <2>9. k # 0
    BY <2>3
  <2>10. FallbackSerial(list) = list[Min(carriers(FallbackKinds[k]))].serial
    BY <1>1, <2>9
  <2>11. FallbackSerial(list) = list[i].serial
    BY <2>4, <2>6, <2>10, Zenon
  <2> QED
    BY <2>5, <2>8, <2>11
<1> QED
  BY <1>7, <1>8

\* A device that was made has a type the library knows.
LEMMA MadeType ==
  ASSUME NEW list, fromUSBDevices(list) # BuildError
  PROVE  fromUSBDevices(list).deviceType \in DeviceType
<1>1. ASSUME NEW d, Build(d) # BuildError
      PROVE  Build(d) = d
  BY <1>1 DEF Build
<1>2. PICK k : fromUSBDevices(list) = IF k # 0 THEN FromStandalone(list, k) ELSE FromHub(list)
  BY DEF fromUSBDevices
<1>3. ASSUME NEW prod
      PROVE  standaloneDeviceType(prod) \in DeviceType
  BY DEF standaloneDeviceType, DeviceType
<1>4. CASE k # 0
  <2>1. PICK d : fromUSBDevices(list) = Build(d)
                 /\ d.deviceType = standaloneDeviceType(list[k].prod)
    BY <1>2, <1>4 DEF FromStandalone
  <2> QED
    BY <1>1, <1>3, <2>1
<1>5. CASE k = 0
  <2>1. \E type \in {"FreeWili", "FreeWili2"} : \E serial, id :
          FromHub(list) = Build([deviceType |-> type, name |-> type, serial |-> serial,
                                 uniqueID |-> id, standalone |-> FALSE,
                                 usbDevices |-> SortUSBDevices(list)])
    <3> DEFINE k1 == FirstOfKind(list, "Hub")
               ftdi == FirstOfKind(list, "FTDI")
               isFW2 == \E i \in DOMAIN list : list[i].kind = "Hub" /\ list[i].prod = "FW2Hub"
               type == IF isFW2 THEN "FreeWili2" ELSE "FreeWili"
               serial == CASE isFW2 /\ list[k1].serial # "" -> list[k1].serial
                           [] isFW2 /\ list[k1].serial = "" -> FallbackSerial(list)
                           [] ~isFW2 /\ ftdi # 0 -> list[ftdi].serial
                           [] OTHER -> "Unknown"
               id == IF k1 = 0 THEN {} ELSE UniqueID(list[k1].portChain)
    <3> HIDE DEF serial, id, type
    <3>1. FromHub(list) = Build([deviceType |-> type, name |-> type, serial |-> serial,
                                 uniqueID |-> id, standalone |-> FALSE,
                                 usbDevices |-> SortUSBDevices(list)])
      BY DEF FromHub, serial, id, type
    <3>2. type \in {"FreeWili", "FreeWili2"}
      BY DEF type
    <3> QED
      BY <3>1, <3>2
  <2>2. PICK d : fromUSBDevices(list) = Build(d) /\ d.deviceType \in {"FreeWili", "FreeWili2"}
    BY <1>2, <1>5, <2>1
  <2> QED
    BY <1>1, <2>2 DEF DeviceType
<1> QED
  BY <1>4, <1>5

\* A badge or bootloader by itself is made into a standalone device.
LEMMA MadeStandalone ==
  ASSUME NEW dev, isStandAloneDevice(dev.prod), fromUSBDevices(<<dev>>) # BuildError
  PROVE  fromUSBDevices(<<dev>>).standalone
<1> DEFINE I == {i \in 1..Len(<<dev>>) : isStandAloneDevice(<<dev>>[i].prod)}
           k == IF I # {} THEN Min(I) ELSE 0
<1>1. I = {1}
  OBVIOUS
<1>2. Min({1}) = 1
  <2>1. Min({1}) \in {1}
    BY MinInSet
  <2> QED
    BY <2>1
<1>3. k = 1
  BY <1>1, <1>2
<1>4. fromUSBDevices(<<dev>>) = IF k # 0 THEN FromStandalone(<<dev>>, k) ELSE FromHub(<<dev>>)
  BY DEF fromUSBDevices, SelectInSeq
<1> HIDE DEF k
<1>5. PICK d : fromUSBDevices(<<dev>>) = Build(d) /\ d.standalone
  BY <1>3, <1>4 DEF FromStandalone
<1> QED
  BY <1>5 DEF Build

LEMMA HubKind ==
  ASSUME NEW prod, is_freewili_hub(prod), NEW location
  PROVE  getUSBDeviceTypeFrom(prod, location) = "Hub"
<1>1. prod \in HubProduct /\ prod \in WhitelistVIDPID /\ prod # "RpiCdc"
  BY DEF is_freewili_hub, HubProduct, WhitelistVIDPID
<1>2. DOMAIN usbDeviceTypeMap = WhitelistVIDPID
  BY DEF usbDeviceTypeMap
<1>3. usbDeviceTypeMap[prod] = "Hub"
  <2>1. CASE prod = "FW1Hub"
    BY <1>1, <2>1 DEF usbDeviceTypeMap
  <2>2. CASE prod = "FW2Hub"
    BY <1>1, <2>2 DEF usbDeviceTypeMap
  <2> QED
    BY <1>1, <2>1, <2>2 DEF HubProduct
<1> QED
  BY <1>1, <1>2, <1>3 DEF getUSBDeviceTypeFrom

\* The first device that makes the list a standalone FreeWili.
LEMMA FirstStandaloneIs ==
  ASSUME NEW S, NEW list \in Seq(S)
  PROVE  \/ /\ \A i \in DOMAIN list : ~isStandAloneDevice(list[i].prod)
            /\ fromUSBDevices(list) = FromHub(list)
         \/ \E k \in DOMAIN list :
              /\ isStandAloneDevice(list[k].prod)
              /\ fromUSBDevices(list) = FromStandalone(list, k)
<1> DEFINE I == {i \in 1..Len(list) : isStandAloneDevice(list[i].prod)}
           k == IF I # {} THEN Min(I) ELSE 0
<1>1. fromUSBDevices(list) = IF k # 0 THEN FromStandalone(list, k) ELSE FromHub(list)
  BY DEF fromUSBDevices, SelectInSeq
<1>2. DOMAIN list = 1..Len(list) /\ Len(list) \in Nat
  OBVIOUS
<1>3. CASE I = {}
  BY <1>1, <1>2, <1>3
<1>4. CASE I # {}
  <2>1. I \subseteq Nat /\ I \subseteq 1..Len(list)
    BY <1>2
  <2> HIDE DEF I
  <2>2. Min(I) \in I
    BY <1>4, <2>1, MinInSet
  <2>3. k \in I /\ k # 0
    BY <1>2, <1>4, <2>1, <2>2
  <2> HIDE DEF k
  <2> QED
    BY <1>1, <1>2, <2>1, <2>3 DEF I
<1> QED
  BY <1>3, <1>4

DeviceRecord(type, name, serial, id, alone, list) ==
  [deviceType |-> type, name |-> name, serial |-> serial, uniqueID |-> id,
   standalone |-> alone, usbDevices |-> list]

LEMMA DeviceIsNoError ==
  ASSUME NEW type, NEW name, NEW serial, NEW id, NEW alone, NEW list
  PROVE  LET d == DeviceRecord(type, name, serial, id, alone, list)
         IN  /\ d # BuildError
             /\ Build(d) = IF name = "" \/ serial = "" \/ type = "Unknown" THEN BuildError ELSE d
<1> DEFINE d == DeviceRecord(type, name, serial, id, alone, list)
<1>1. DOMAIN d = {"deviceType", "name", "serial", "uniqueID", "standalone", "usbDevices"}
  BY DEF DeviceRecord
<1>2. DOMAIN BuildError = {"is"}
  BY DEF BuildError
<1>3. "is" \notin DOMAIN d
  BY <1>1
<1>4. d.name = name /\ d.serial = serial /\ d.deviceType = type
  BY DEF DeviceRecord
<1> HIDE DEF d
<1>5. d # BuildError
  BY <1>2, <1>3
<1>6. Build(d) = IF name = "" \/ serial = "" \/ type = "Unknown" THEN BuildError ELSE d
  BY <1>4 DEF Build
<1> QED
  BY <1>5, <1>6 DEF d

LEMMA StandaloneRecord ==
  ASSUME NEW list, NEW k
  PROVE  FromStandalone(list, k) =
           Build(DeviceRecord(standaloneDeviceType(list[k].prod), list[k].name, list[k].serial,
                              UniqueID(list[k].portChain), TRUE, list))
BY DEF FromStandalone, DeviceRecord

\* The ID a hub gives its group, and the serial of a unit whose hub says it.
HubID(list) ==
  IF FirstOfKind(list, "Hub") = 0 THEN {} ELSE UniqueID(list[FirstOfKind(list, "Hub")].portChain)

\* The name and type, and the serial, of the group of a hub.
HasFW2Hub(list) == \E i \in DOMAIN list : list[i].kind = "Hub" /\ list[i].prod = "FW2Hub"

HubType(list) == IF HasFW2Hub(list) THEN "FreeWili2" ELSE "FreeWili"

HubSerial(list) ==
  LET hub  == FirstOfKind(list, "Hub")
      ftdi == FirstOfKind(list, "FTDI")
  IN  CASE HasFW2Hub(list) /\ list[hub].serial # "" -> list[hub].serial
        [] HasFW2Hub(list) /\ list[hub].serial = "" -> FallbackSerial(list)
        [] ~HasFW2Hub(list) /\ ftdi # 0 -> list[ftdi].serial
        [] OTHER -> "Unknown"

HubRecordOf(list) ==
  DeviceRecord(HubType(list), HubType(list), HubSerial(list), HubID(list), FALSE,
               SortUSBDevices(list))

LEMMA HubRecord ==
  ASSUME NEW list
  PROVE  FromHub(list) = Build(HubRecordOf(list))
BY DEF FromHub, HubRecordOf, DeviceRecord, HubID, HubType, HubSerial, HasFW2Hub

LEMMA TypeOfStandalone ==
  ASSUME NEW prod, isStandAloneDevice(prod)
  PROVE  standaloneDeviceType(prod) \in DeviceType /\ standaloneDeviceType(prod) # "Unknown"
<1>1. prod \in {"Rp2350Uf2", "Winky", "Defcon2024", "Badge2025", "Probe"}
  BY DEF isStandAloneDevice, StandaloneProduct
<1>2. CASE prod = "Rp2350Uf2"
  BY <1>2 DEF standaloneDeviceType, DeviceType
<1>3. CASE prod = "Winky"
  BY <1>3 DEF standaloneDeviceType, DeviceType
<1>4. CASE prod = "Defcon2024"
  BY <1>4 DEF standaloneDeviceType, DeviceType
<1>5. CASE prod = "Badge2025"
  BY <1>5 DEF standaloneDeviceType, DeviceType
<1>6. CASE prod = "Probe"
  BY <1>6 DEF standaloneDeviceType, DeviceType
<1> QED
  BY <1>1, <1>2, <1>3, <1>4, <1>5, <1>6

\* What a device that was made has of the list it was made of.
IsMadeOf(d, list) ==
  \/ \E k \in DOMAIN list :
       /\ isStandAloneDevice(list[k].prod)
       /\ d.standalone /\ d.usbDevices = list /\ d.uniqueID = UniqueID(list[k].portChain)
  \/ /\ \A k \in DOMAIN list : ~isStandAloneDevice(list[k].prod)
     /\ ~d.standalone /\ d.usbDevices = SortUSBDevices(list) /\ d.uniqueID = HubID(list)

LEMMA MadeOf ==
  ASSUME NEW S, NEW list \in Seq(S), fromUSBDevices(list) # BuildError
  PROVE  IsMadeOf(fromUSBDevices(list), list)
<1>1. ASSUME NEW k \in DOMAIN list, isStandAloneDevice(list[k].prod),
             fromUSBDevices(list) = FromStandalone(list, k)
      PROVE  IsMadeOf(fromUSBDevices(list), list)
  <2>1. PICK d : d = DeviceRecord(standaloneDeviceType(list[k].prod), list[k].name,
                                  list[k].serial, UniqueID(list[k].portChain), TRUE, list)
    OBVIOUS
  <2>2. fromUSBDevices(list) = d
    BY <1>1, <2>1, StandaloneRecord, DeviceIsNoError
  <2>3. d.standalone /\ d.usbDevices = list /\ d.uniqueID = UniqueID(list[k].portChain)
    BY <2>1 DEF DeviceRecord
  <2> QED
    BY <1>1, <2>2, <2>3 DEF IsMadeOf
<1>2. ASSUME \A i \in DOMAIN list : ~isStandAloneDevice(list[i].prod),
             fromUSBDevices(list) = FromHub(list)
      PROVE  IsMadeOf(fromUSBDevices(list), list)
  <2>1. PICK d : d = HubRecordOf(list)
    OBVIOUS
  <2>2. fromUSBDevices(list) = d
    BY <1>2, <2>1, HubRecord, DeviceIsNoError DEF HubRecordOf
  <2>3. ~d.standalone /\ d.usbDevices = SortUSBDevices(list) /\ d.uniqueID = HubID(list)
    BY <2>1 DEF HubRecordOf, DeviceRecord
  <2> QED
    BY <1>2, <2>2, <2>3 DEF IsMadeOf
<1> QED
  BY <1>1, <1>2, FirstStandaloneIs

LEMMA SingletonList ==
  ASSUME NEW S, NEW x \in S
  PROVE  <<x>> \in Seq(S) /\ DOMAIN <<x>> = {1} /\ <<x>>[1] = x
<1>1. <<x>> \in Seq(S)
  OBVIOUS
<1>2. Len(<<x>>) = 1
  OBVIOUS
<1>3. <<x>>[1] = x
  OBVIOUS
<1>4. DOMAIN <<x>> = 1..Len(<<x>>)
  BY <1>1
<1> QED
  BY <1>1, <1>2, <1>3, <1>4

\* A badge that says who it is is made into a device.
LEMMA BadgeIsMade ==
  ASSUME NEW dev, isStandAloneDevice(dev.prod), dev.name # "", dev.serial # ""
  PROVE  fromUSBDevices(<<dev>>) # BuildError
<1>1. PICK list : list = <<dev>>
  OBVIOUS
<1>2. list \in Seq({dev}) /\ DOMAIN list = {1} /\ list[1] = dev
  BY <1>1, SingletonList
<1>3. fromUSBDevices(list) = FromStandalone(list, 1)
  BY <1>2, FirstStandaloneIs
<1>4. standaloneDeviceType(list[1].prod) # "Unknown"
  BY <1>2, TypeOfStandalone
<1>5. PICK d : d = DeviceRecord(standaloneDeviceType(list[1].prod), list[1].name,
                                list[1].serial, UniqueID(list[1].portChain), TRUE, list)
  OBVIOUS
<1>6. d # BuildError /\ Build(d) = d
  BY <1>2, <1>4, <1>5, DeviceIsNoError
<1>7. fromUSBDevices(list) = Build(d)
  BY <1>3, <1>5, StandaloneRecord
<1> QED
  BY <1>1, <1>6, <1>7

\* So is the group of a FREE-WILi2 whose hub says the serial.
IsOnlyHub(list, k) ==
  /\ k \in DOMAIN list
  /\ list[k].kind = "Hub"
  /\ \A i \in DOMAIN list : i # k => list[i].kind # "Hub"

LEMMA UnitIsMade ==
  ASSUME NEW S, NEW list \in Seq(S), NEW k, IsOnlyHub(list, k),
         \A i \in DOMAIN list : ~isStandAloneDevice(list[i].prod),
         list[k].prod = "FW2Hub", list[k].serial # ""
  PROVE  /\ fromUSBDevices(list) # BuildError
         /\ HubID(list) = UniqueID(list[k].portChain)
<1>1. fromUSBDevices(list) = FromHub(list)
  BY FirstStandaloneIs
<1>2. FirstOfKind(list, "Hub") = k /\ k # 0
  <2>1. k \in DOMAIN list /\ list[k].kind = "Hub"
    BY DEF IsOnlyHub
  <2>2. PICK j : j = FirstOfKind(list, "Hub")
    OBVIOUS
  <2>3. j # 0 /\ j \in DOMAIN list /\ list[j].kind = "Hub"
    <3>1. \/ j = 0 /\ \A i \in DOMAIN list : list[i].kind # "Hub"
          \/ j # 0 /\ j \in DOMAIN list /\ list[j].kind = "Hub"
      BY ONLY <2>2, FirstOfKindIs, list \in Seq(S)
    <3> QED
      BY ONLY <3>1, <2>1
  <2>4. j = k
    BY <2>3 DEF IsOnlyHub
  <2> QED
    BY <2>2, <2>3, <2>4
<1>3. HasFW2Hub(list)
  BY DEF HasFW2Hub, IsOnlyHub
<1>4. HubType(list) = "FreeWili2" /\ HubSerial(list) = list[k].serial
  BY <1>2, <1>3 DEF HubType, HubSerial
<1>5. PICK d : d = HubRecordOf(list)
  OBVIOUS
<1>6. d # BuildError /\ Build(d) = d
  <2>1. HubType(list) # "" /\ HubType(list) # "Unknown" /\ HubSerial(list) # ""
    BY <1>4
  <2> QED
    BY <1>5, <2>1, DeviceIsNoError DEF HubRecordOf
<1>7. fromUSBDevices(list) = d
  BY <1>1, <1>5, <1>6, HubRecord
<1> QED
  BY <1>2, <1>6, <1>7 DEF HubID

-----------------------------------------------------------------------------
(* A location ID tells places of the USB tree apart.  Port i of a chain has   *)
(* the bits 6(i - 1) to 6i - 1 of the word for itself, and a hub port is at   *)
(* least 1, so both the ports and the length of the chain can be read back   *)
(* from the word.                                                            *)

Bit == 0..(BitsPerPort - 1)

LEMMA IDConstants == BitsPerPort = 6 /\ UInt32Width = 32 /\ ExactDepth = 5 /\ Bit = 0..5
BY DEF BitsPerPort, UInt32Width, ExactDepth, Bit

LEMMA Element ==
  ASSUME NEW S, NEW s \in Seq(S), NEW i \in DOMAIN s
  PROVE  s[i] \in S
OBVIOUS

LEMMA SeqOfMore ==
  ASSUME NEW S, NEW T, S \subseteq T, NEW s \in Seq(S)
  PROVE  s \in Seq(T)
OBVIOUS

\* The six bits of a port, one by one.
LEMMA BitsOfPort ==
  ASSUME NEW port \in 0..63
  PROVE  /\ 0 \in PortBits(port) <=> port % 2 = 1
         /\ 1 \in PortBits(port) <=> (port \div 2) % 2 = 1
         /\ 2 \in PortBits(port) <=> (port \div 4) % 2 = 1
         /\ 3 \in PortBits(port) <=> (port \div 8) % 2 = 1
         /\ 4 \in PortBits(port) <=> (port \div 16) % 2 = 1
         /\ 5 \in PortBits(port) <=> (port \div 32) % 2 = 1
<1>1. /\ Pow2[1] = 1 /\ Pow2[2] = 2 /\ Pow2[3] = 4
      /\ Pow2[4] = 8 /\ Pow2[5] = 16 /\ Pow2[6] = 32
  BY DEF Pow2
<1>2. \A b \in 0..5 : b \in PortBits(port) <=> (port \div Pow2[b + 1]) % 2 = 1
  BY IDConstants DEF PortBits
<1>3. /\ 0 \in PortBits(port) <=> (port \div Pow2[1]) % 2 = 1
      /\ 1 \in PortBits(port) <=> (port \div Pow2[2]) % 2 = 1
      /\ 2 \in PortBits(port) <=> (port \div Pow2[3]) % 2 = 1
      /\ 3 \in PortBits(port) <=> (port \div Pow2[4]) % 2 = 1
      /\ 4 \in PortBits(port) <=> (port \div Pow2[5]) % 2 = 1
      /\ 5 \in PortBits(port) <=> (port \div Pow2[6]) % 2 = 1
  BY <1>2
<1>4. port \div 1 = port
  OBVIOUS
<1> QED
  BY <1>1, <1>3, <1>4

\* A port is the sum of its bits.
LEMMA PortIsSum ==
  ASSUME NEW port \in 0..63
  PROVE  port = (port % 2) + 2 * ((port \div 2) % 2) + 4 * ((port \div 4) % 2)
                  + 8 * ((port \div 8) % 2) + 16 * ((port \div 16) % 2) + 32 * ((port \div 32) % 2)
OBVIOUS

\* Six bits tell the ports apart, and no port but 0 is without any.
LEMMA PortBitsDistinct ==
  ASSUME NEW p \in 0..63, NEW q \in 0..63, PortBits(p) = PortBits(q)
  PROVE  p = q
<1>1. /\ p % 2 \in 0..1 /\ (p \div 2) % 2 \in 0..1 /\ (p \div 4) % 2 \in 0..1
      /\ (p \div 8) % 2 \in 0..1 /\ (p \div 16) % 2 \in 0..1 /\ (p \div 32) % 2 \in 0..1
  OBVIOUS
<1>2. /\ q % 2 \in 0..1 /\ (q \div 2) % 2 \in 0..1 /\ (q \div 4) % 2 \in 0..1
      /\ (q \div 8) % 2 \in 0..1 /\ (q \div 16) % 2 \in 0..1 /\ (q \div 32) % 2 \in 0..1
  OBVIOUS
<1>3. /\ p % 2 = 1 <=> q % 2 = 1
      /\ (p \div 2) % 2 = 1 <=> (q \div 2) % 2 = 1
      /\ (p \div 4) % 2 = 1 <=> (q \div 4) % 2 = 1
      /\ (p \div 8) % 2 = 1 <=> (q \div 8) % 2 = 1
      /\ (p \div 16) % 2 = 1 <=> (q \div 16) % 2 = 1
      /\ (p \div 32) % 2 = 1 <=> (q \div 32) % 2 = 1
  BY BitsOfPort
<1>4. /\ p % 2 = q % 2 /\ (p \div 2) % 2 = (q \div 2) % 2 /\ (p \div 4) % 2 = (q \div 4) % 2
      /\ (p \div 8) % 2 = (q \div 8) % 2 /\ (p \div 16) % 2 = (q \div 16) % 2
      /\ (p \div 32) % 2 = (q \div 32) % 2
  BY <1>1, <1>2, <1>3
<1> QED
  BY <1>4, PortIsSum

LEMMA PortHasBits ==
  ASSUME NEW p \in 0..63
  PROVE  PortBits(p) \subseteq Bit /\ (p # 0 => PortBits(p) # {})
<1>1. PortBits(p) \subseteq Bit
  BY DEF PortBits, Bit
<1>2. ASSUME p # 0, PortBits(p) = {} PROVE FALSE
  <2>1. /\ p % 2 # 1 /\ (p \div 2) % 2 # 1 /\ (p \div 4) % 2 # 1
        /\ (p \div 8) % 2 # 1 /\ (p \div 16) % 2 # 1 /\ (p \div 32) % 2 # 1
    BY <1>2, BitsOfPort
  <2>2. /\ p % 2 = 0 /\ (p \div 2) % 2 = 0 /\ (p \div 4) % 2 = 0
        /\ (p \div 8) % 2 = 0 /\ (p \div 16) % 2 = 0 /\ (p \div 32) % 2 = 0
    BY <2>1
  <2> QED
    BY <1>2, <2>2, PortIsSum
<1> QED
  BY <1>1, <1>2

\* A chain that keeps within the exact depth has no overshifted port: one ID.
LEMMA ShortChainHasOneID ==
  ASSUME NEW portChain \in Seq(1..63), Len(portChain) <= ExactDepth
  PROVE  UniqueIDs(portChain) = {UniqueID(portChain)}
<1>1. ASSUME NEW i \in DOMAIN portChain PROVE ~(BitsPerPort * (i - 1) >= UInt32Width)
  <2>1. i \in 1..5
    BY IDConstants
  <2> QED
    BY <2>1, IDConstants
<1>2. Overshifted(portChain) = {}
  BY <1>1 DEF Overshifted
<1>3. SUBSET Overshifted(portChain) = {{}}
  BY <1>2
<1> QED
  BY <1>3 DEF UniqueIDs, UniqueID

\* The six bits of the word that belong to port i are the port's; a chain that is
\* shorter leaves them clear.
LEMMA SliceOfWord ==
  ASSUME NEW portChain \in Seq(0..63), Len(portChain) <= ExactDepth,
         NEW i \in 1..5, NEW b \in Bit
  PROVE  6 * (i - 1) + b \in UniqueID(portChain) <=>
           i \in DOMAIN portChain /\ b \in PortBits(portChain[i])
<1>1. ASSUME NEW k \in DOMAIN portChain, 6 * (i - 1) + b \in
               ShiftLeft(PortBits(portChain[k]), (BitsPerPort * (k - 1)) % UInt32Width)
      PROVE  k = i /\ b \in PortBits(portChain[i])
  <2>1. k \in 1..5 /\ portChain[k] \in 0..63
    BY IDConstants
  <2>2. (BitsPerPort * (k - 1)) % UInt32Width = 6 * (k - 1)
    BY <2>1, IDConstants
  <2>3. PICK c \in PortBits(portChain[k]) : 6 * (i - 1) + b = c + 6 * (k - 1)
    BY <1>1, <2>2, Zenon DEF ShiftLeft
  <2>4. c \in 0..5 /\ b \in 0..5
    BY <2>1, PortHasBits, IDConstants
  <2>5. k = i /\ c = b
    BY <2>1, <2>3, <2>4
  <2> QED
    BY <2>5
<1>2. ASSUME i \in DOMAIN portChain, b \in PortBits(portChain[i])
      PROVE  6 * (i - 1) + b \in
               ShiftLeft(PortBits(portChain[i]), (BitsPerPort * (i - 1)) % UInt32Width)
  <2>1. (BitsPerPort * (i - 1)) % UInt32Width = 6 * (i - 1)
    BY IDConstants
  <2>2. b + 6 * (i - 1) < UInt32Width /\ 6 * (i - 1) + b = b + 6 * (i - 1)
    BY IDConstants
  <2> QED
    BY <1>2, <2>1, <2>2 DEF ShiftLeft
<1>3. 6 * (i - 1) + b \in UniqueID(portChain) <=>
        \E k \in DOMAIN portChain : 6 * (i - 1) + b \in
          ShiftLeft(PortBits(portChain[k]), (BitsPerPort * (k - 1)) % UInt32Width)
  BY DEF UniqueID, UniqueIDWith
<1> QED
  BY <1>1, <1>2, <1>3

\* The word tells how far the chain goes and which ports it takes, when it does not
\* end with 0.
LEMMA DistinctChains ==
  ASSUME NEW s \in Seq(0..63), NEW t \in Seq(0..63),
         Len(s) <= ExactDepth, Len(t) <= ExactDepth,
         Len(s) > 0 => s[Len(s)] # 0, Len(t) > 0 => t[Len(t)] # 0,
         UniqueID(s) = UniqueID(t)
  PROVE  s = t
<1>1. DOMAIN s \subseteq 1..5 /\ DOMAIN t \subseteq 1..5
  BY IDConstants
<1>2. ASSUME NEW i \in 1..5, NEW b \in Bit
      PROVE  (i \in DOMAIN s /\ b \in PortBits(s[i])) <=> (i \in DOMAIN t /\ b \in PortBits(t[i]))
  BY SliceOfWord
<1>3. ASSUME NEW i \in DOMAIN s, i \notin DOMAIN t PROVE s[i] = 0
  <2>1. s[i] \in 0..63
    BY Element
  <2>2. PortBits(s[i]) \subseteq Bit /\ \A b \in Bit : b \notin PortBits(s[i])
    BY <1>1, <1>2, <1>3, <2>1, PortHasBits
  <2> QED
    BY <2>1, <2>2, PortHasBits
<1>4. ASSUME NEW i \in DOMAIN t, i \notin DOMAIN s PROVE t[i] = 0
  <2>1. t[i] \in 0..63
    BY Element
  <2>2. PortBits(t[i]) \subseteq Bit /\ \A b \in Bit : b \notin PortBits(t[i])
    BY <1>1, <1>2, <1>4, <2>1, PortHasBits
  <2> QED
    BY <2>1, <2>2, PortHasBits
<1>5. PICK m, n : m = Len(s) /\ n = Len(t)
  OBVIOUS
<1>6. m \in Nat /\ n \in Nat /\ DOMAIN s = 1..m /\ DOMAIN t = 1..n
  BY <1>5
<1>7. ~(m > n)
  <2> SUFFICES ASSUME m > n PROVE FALSE
    OBVIOUS
  <2>1. m \in DOMAIN s /\ m \notin DOMAIN t /\ m > 0
    BY <1>6
  <2> QED
    BY <1>3, <1>5, <2>1
<1>8. ~(n > m)
  <2> SUFFICES ASSUME n > m PROVE FALSE
    OBVIOUS
  <2>1. n \in DOMAIN t /\ n \notin DOMAIN s /\ n > 0
    BY <1>6
  <2> QED
    BY <1>4, <1>5, <2>1
<1>9. DOMAIN s = DOMAIN t
  BY <1>6, <1>7, <1>8
<1>10. ASSUME NEW i \in DOMAIN s PROVE s[i] = t[i]
  <2>1. s[i] \in 0..63 /\ t[i] \in 0..63
    BY <1>9, Element
  <2>2. PortBits(s[i]) \subseteq Bit /\ PortBits(t[i]) \subseteq Bit
    BY <2>1, PortHasBits
  <2>3. PortBits(s[i]) = PortBits(t[i])
    BY <1>1, <1>2, <1>9, <2>2
  <2> QED
    BY <2>1, <2>3, PortBitsDistinct
<1> QED
  BY <1>9, <1>10

\* The ports of hubs start at 1.
LEMMA LastPort ==
  ASSUME NEW s \in Seq(1..63), Len(s) > 0
  PROVE  s[Len(s)] # 0
<1>1. PICK n : n = Len(s)
  OBVIOUS
<1>2. n \in Nat /\ n > 0 /\ DOMAIN s = 1..n
  BY <1>1
<1>3. n \in DOMAIN s
  BY <1>2
<1>4. PICK x : x = s[n]
  OBVIOUS
<1>5. x \in 1..63
  BY <1>3, <1>4, Element
<1>6. x # 0
  BY <1>5
<1> QED
  BY <1>1, <1>4, <1>6

LEMMA DistinctWords ==
  ASSUME NEW s \in Seq(1..63), NEW t \in Seq(1..63),
         Len(s) <= ExactDepth, Len(t) <= ExactDepth,
         UniqueID(s) = UniqueID(t)
  PROVE  s = t
<1>1. s \in Seq(0..63) /\ t \in Seq(0..63)
  BY SeqOfMore
<1>2. Len(s) > 0 => s[Len(s)] # 0
  BY LastPort
<1>3. Len(t) > 0 => t[Len(t)] # 0
  BY LastPort
<1> QED
  BY <1>1, <1>2, <1>3, DistinctChains
=============================================================================
