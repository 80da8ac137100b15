--------------------------- MODULE LinuxScanProofs ---------------------------
(***************************************************************************)
(* What Fw::find_all reports on Linux, for every set of devices one may    *)
(* plug in and any number of hot-plug events between its walks.            *)
(***************************************************************************)
EXTENDS LinuxScan, OperatorProofs

-----------------------------------------------------------------------------
(* udev's list: each path of a finite set, once. *)

Chosen(s) == CHOOSE x \in s : TRUE

\* f folds the subsets of S with step, an element at a time.
IsFold(f, S, T, base, step) ==
  /\ f \in [SUBSET S -> T]
  /\ f[{}] = base
  /\ \A s \in SUBSET S : s # {} => f[s] = step[<<Chosen(s), f[s \ {Chosen(s)}]>>]

LEMMA FoldExists ==
  ASSUME NEW S, IsFiniteSet(S), NEW T, NEW base \in T, NEW step, step \in [S \X T -> T]
  PROVE  \E f : IsFold(f, S, T, base, step)
<1> DEFINE F == [SUBSET S -> T]
           N == Cardinality(S)
           Next1(g) == [s \in SUBSET S |->
                          IF s = {} THEN base ELSE step[<<Chosen(s), g[s \ {Chosen(s)}]>>]]
           first == [s \in SUBSET S |-> base]
           round == [a \in (1..N) \X F |-> Next1(a[2])]
<1>1. N \in Nat /\ \A s \in SUBSET S : IsFiniteSet(s) /\ Cardinality(s) \in 0..N
  <2>1. N \in Nat
    BY FS_CardinalityType
  <2>2. ASSUME NEW s \in SUBSET S
        PROVE  IsFiniteSet(s) /\ Cardinality(s) \in 0..N
    <3>1. IsFiniteSet(s) /\ Cardinality(s) <= N
      BY FS_Subset
    <3>2. Cardinality(s) \in Nat
      BY <3>1, FS_CardinalityType
    <3> QED
      BY <2>1, <3>1, <3>2
  <2> QED
    BY <2>1, <2>2
<1>2. \A s \in SUBSET S : s # {} => Chosen(s) \in s
  BY DEF Chosen
<1>3. ASSUME NEW g \in F
      PROVE  Next1(g) \in F
  <2>1. ASSUME NEW s \in SUBSET S, s # {}
        PROVE  step[<<Chosen(s), g[s \ {Chosen(s)}]>>] \in T
    <3>1. Chosen(s) \in S /\ s \ {Chosen(s)} \in SUBSET S
      BY <1>2, <2>1
    <3>2. g[s \ {Chosen(s)}] \in T
      BY <3>1
    <3> QED
      BY <3>1, <3>2
  <2> QED
    BY <2>1
<1>4. first \in F
  OBVIOUS
<1>5. round \in [(1..N) \X F -> F] /\ \A n \in 1..N : \A g \in F : round[<<n, g>>] = Next1(g)
  BY <1>3
<1> HIDE DEF F, N, round
<1>6. PICK g : IsRecursion(g, N, F, first, round)
  <2> HIDE DEF first, Next1
  <2>1. IsStep(round, N, F)
    BY <1>5 DEF IsStep
  <2> QED
    BY <1>1, <1>4, <2>1, RecursionExists
<1>7. /\ \A n \in 0..N : g[n] \in F
      /\ g[0] = first
      /\ \A n \in 1..N : g[n] = Next1(g[n - 1])
  <2>1. g \in [0..N -> F] /\ g[0] = first /\ \A n \in 1..N : g[n] = round[<<n, g[n - 1]>>]
    BY <1>6 DEF IsRecursion
  <2>2. ASSUME NEW n \in 1..N
        PROVE  g[n] = Next1(g[n - 1])
    <3>1. PICK h \in F : h = g[n - 1]
      <4>1. n - 1 \in 0..N
        BY <1>1
      <4> QED
        BY <2>1, <4>1
    <3>2. round[<<n, h>>] = Next1(h)
      BY <1>5
    <3> HIDE DEF Next1
    <3> QED
      BY <2>1, <3>1, <3>2
  <2> QED
    BY <2>1, <2>2
<1> DEFINE f == [s \in SUBSET S |-> g[Cardinality(s)][s]]
<1>8. f \in [SUBSET S -> T]
  BY <1>1, <1>7 DEF F
<1>9. f[{}] = base
  <2>1. Cardinality({}) = 0
    BY FS_EmptySet
  <2>2. {} \in SUBSET S /\ first[{}] = base
    OBVIOUS
  <2> QED
    BY <1>7, <2>1, <2>2
<1>10. ASSUME NEW s \in SUBSET S, s # {}
       PROVE  f[s] = step[<<Chosen(s), f[s \ {Chosen(s)}]>>]
  <2>1. PICK x \in s : x = Chosen(s)
    BY <1>2, <1>10
  <2>2. PICK n \in 0..N : n = Cardinality(s)
    BY <1>1
  <2>3. Cardinality(s \ {x}) = n - 1 /\ n - 1 \in Nat
    <3>1. Cardinality(s \ {x}) = n - 1
      BY <1>1, <2>2, FS_RemoveElement
    <3>2. Cardinality(s \ {x}) \in 0..N
      BY <1>1
    <3> QED
      BY <3>1, <3>2
  <2>4. n \in 1..N
    BY <1>1, <2>3
  <2>5. g[n][s] = step[<<Chosen(s), g[n - 1][s \ {Chosen(s)}]>>]
    <3>1. PICK h : h = g[n - 1]
      OBVIOUS
    <3>2. g[n] = Next1(h)
      <4> HIDE DEF Next1, f, first
      <4> QED
        BY <1>7, <2>4, <3>1
    <3> QED
      BY <1>10, <3>1, <3>2
  <2>6. f[s] = g[n][s]
    BY <2>2
  <2>7. f[s \ {x}] = g[n - 1][s \ {x}]
    BY <2>3
  <2> QED
    BY <2>1, <2>5, <2>6, <2>7
<1> HIDE DEF f
<1> QED
  BY <1>8, <1>9, <1>10 DEF IsFold

\* Where one round of the sort puts a path.
LEMMA InsertedByText ==
  ASSUME NEW S, NEW s \in Seq(S), NEW x \in S
  PROVE  \E p \in 1..(Len(s) + 1) : Inserted(TextBefore, s, x) = InsertAt(s, p, x)
<1> DEFINE stops == {i \in DOMAIN s : ~TextBefore(x, s[i])}
           front == s = <<>> \/ 1 \notin stops
           p == IF front THEN 1 ELSE Max(stops) + 1
<1>1. Inserted(TextBefore, s, x) = InsertAt(s, p, x)
  BY DEF Inserted
<1>2. PICK n \in Nat : n = Len(s) /\ DOMAIN s = 1..n
  OBVIOUS
<1>3. CASE front
  <2>1. p = 1
    BY <1>3
  <2> HIDE DEF p
  <2> QED
    BY <1>1, <1>2, <2>1
<1>4. CASE ~front
  <2>1. stops \subseteq 0..n /\ stops # {}
    BY <1>2, <1>4
  <2>2. stops \subseteq 1..n
    BY <1>2
  <2>3. p = Max(stops) + 1
    BY <1>4
  <2> HIDE DEF stops, front, p
  <2>4. Max(stops) \in stops
    BY <2>1, MaxInSet
  <2>5. PICK m \in 1..n : m = Max(stops)
    BY <2>2, <2>4
  <2>6. p \in 1..(n + 1)
    BY <2>3, <2>5
  <2> QED
    BY <1>1, <1>2, <2>6
<1> QED
  BY <1>3, <1>4

LEMMA InsertLists ==
  ASSUME NEW S, NEW x \in S, NEW s, IsListing(s, S \ {x}), NEW p \in 1..(Len(s) + 1)
  PROVE  IsListing(InsertAt(s, p, x), S)
<1>1. s \in Seq(S \ {x}) /\ s \in Seq(S)
  <2>1. s \in Seq(S \ {x})
    BY DEF IsListing
  <2> QED
    BY <2>1
<1>2. PICK n \in Nat : n = Len(s) /\ DOMAIN s = 1..n
  BY <1>1
<1>3. \A i \in 1..n : s[i] \in S \ {x}
  BY <1>1, <1>2
<1>4. /\ \A i, j \in 1..n : s[i] = s[j] => i = j
      /\ \A y \in S \ {x} : \E i \in 1..n : s[i] = y
  BY <1>2 DEF IsListing
<1>5. PICK r : r = InsertAt(s, p, x)
  OBVIOUS
<1>6. IsInsertion(r, S, s, p, x)
  BY <1>1, <1>5, InsertAtElements
<1>7. /\ r \in Seq(S) /\ DOMAIN r = 1..(n + 1) /\ p \in 1..(n + 1)
      /\ \A i \in 1..(n + 1) : r[i] = IF i < p THEN s[i] ELSE IF i = p THEN x ELSE s[i - 1]
  BY <1>2, <1>6 DEF IsInsertion
<1>8. \A i \in 1..(n + 1) : \/ i < p /\ i \in 1..n /\ r[i] = s[i]
                            \/ i = p /\ r[i] = x
                            \/ i > p /\ i - 1 \in 1..n /\ r[i] = s[i - 1]
  BY <1>7
<1>9. ASSUME NEW i \in 1..(n + 1), NEW j \in 1..(n + 1), r[i] = r[j]
      PROVE  i = j
  BY <1>3, <1>4, <1>7, <1>8, <1>9
<1>10. ASSUME NEW y \in S
       PROVE  \E i \in 1..(n + 1) : r[i] = y
  <2>1. CASE y = x
    BY <1>7, <2>1
  <2>2. CASE y # x
    <3>1. PICK i \in 1..n : s[i] = y
      BY <1>4, <2>2
    <3>2. CASE i < p
      <4>1. i \in 1..(n + 1)
        BY <1>2
      <4> QED
        BY <1>7, <3>1, <3>2, <4>1
    <3>3. CASE ~(i < p)
      <4>1. i + 1 \in 1..(n + 1) /\ ~(i + 1 < p) /\ i + 1 # p /\ (i + 1) - 1 = i
        BY <1>7, <3>3
      <4>2. r[i + 1] = s[i]
        BY <1>7, <4>1
      <4> QED
        BY <3>1, <4>1, <4>2
    <3> QED
      BY <3>2, <3>3
  <2> QED
    BY <2>1, <2>2
<1> QED
  BY <1>5, <1>7, <1>9, <1>10 DEF IsListing

LEMMA EnumeratedLists ==
  ASSUME NEW S, IsFiniteSet(S)
  PROVE  IsListing(Enumerated(S), S)
<1> DEFINE T == Seq(S)
           step == [a \in S \X T |-> Inserted(TextBefore, a[2], a[1])]
           Folds1(g) == [s \in SUBSET S |->
                           IF s = {} THEN <<>>
                           ELSE Inserted(TextBefore, g[s \ {Chosen(s)}], Chosen(s))]
           iter == CHOOSE g : g = Folds1(g)
<1>1. Enumerated(S) = iter[S]
  BY DEF Enumerated, FoldSet, MapThenFoldSet, Chosen
<1>2. ASSUME NEW s \in T, NEW x \in S
      PROVE  Inserted(TextBefore, s, x) \in T
  <2>1. PICK p \in 1..(Len(s) + 1) : Inserted(TextBefore, s, x) = InsertAt(s, p, x)
    BY InsertedByText
  <2>2. IsInsertion(InsertAt(s, p, x), S, s, p, x)
    BY InsertAtElements
  <2> QED
    BY <2>1, <2>2 DEF IsInsertion
<1>3. step \in [S \X T -> T] /\ \A x \in S : \A s \in T : step[<<x, s>>] = Inserted(TextBefore, s, x)
  BY <1>2
<1>4. <<>> \in T
  OBVIOUS
<1> HIDE DEF T, step
<1>5. PICK f : IsFold(f, S, T, <<>>, step)
  BY <1>3, <1>4, FoldExists
<1>6. f \in [SUBSET S -> T] /\ f[{}] = <<>>
  BY <1>5 DEF IsFold
<1>7. f = Folds1(f)
  <2>1. ASSUME NEW s \in SUBSET S
        PROVE  f[s] = Folds1(f)[s]
    <3>1. CASE s = {}
      BY <1>6, <3>1
    <3>2. CASE s # {}
      <4>1. Chosen(s) \in S /\ s \ {Chosen(s)} \in SUBSET S
        BY <3>2 DEF Chosen
      <4>2. f[s] = step[<<Chosen(s), f[s \ {Chosen(s)}]>>]
        BY <1>5, <3>2 DEF IsFold
      <4>3. f[s] = Inserted(TextBefore, f[s \ {Chosen(s)}], Chosen(s))
        BY <1>3, <1>6, <4>1, <4>2
      <4> QED
        BY <3>2, <4>3
    <3> QED
      BY <3>1, <3>2
  <2> QED
    BY <1>6, <2>1
<1>8. iter = Folds1(iter)
  BY <1>7
<1> HIDE DEF iter
<1>9. iter[{}] = <<>>
  BY <1>8
<1>10. ASSUME NEW s \in SUBSET S, s # {}
       PROVE  iter[s] = Inserted(TextBefore, iter[s \ {Chosen(s)}], Chosen(s))
  BY <1>8, <1>10
<1> DEFINE D == {n \in Nat : \A s \in SUBSET S : Cardinality(s) = n => IsListing(iter[s], s)}
<1>11. \A s \in SUBSET S : IsFiniteSet(s) /\ Cardinality(s) \in Nat
  BY FS_Subset, FS_CardinalityType
<1>12. 0 \in D
  <2>1. ASSUME NEW s \in SUBSET S, Cardinality(s) = 0
        PROVE  IsListing(iter[s], s)
    <3>1. s = {}
      BY <1>11, <2>1, FS_EmptySet
    <3>2. <<>> \in Seq(s) /\ DOMAIN <<>> = {}
      OBVIOUS
    <3>3. IsListing(<<>>, s)
      BY <3>1, <3>2 DEF IsListing
    <3> QED
      BY <1>9, <3>1, <3>3
  <2> QED
    BY <2>1
<1>13. ASSUME NEW n \in D
       PROVE  n + 1 \in D
  <2>1. ASSUME NEW s \in SUBSET S, Cardinality(s) = n + 1
        PROVE  IsListing(iter[s], s)
    <3>1. s # {}
      BY <2>1, FS_EmptySet
    <3>2. PICK x \in s : x = Chosen(s)
      BY <3>1 DEF Chosen
    <3>3. Cardinality(s \ {x}) = n
      BY <1>11, <2>1, FS_RemoveElement
    <3>4. PICK l : l = iter[s \ {x}] /\ IsListing(l, s \ {x})
      BY <3>3
    <3>5. l \in Seq(s)
      <4>1. l \in Seq(s \ {x})
        BY <3>4 DEF IsListing
      <4> QED
        BY <4>1
    <3>6. PICK p \in 1..(Len(l) + 1) : Inserted(TextBefore, l, x) = InsertAt(l, p, x)
      BY <3>5, InsertedByText
    <3>7. iter[s] = InsertAt(l, p, x)
      BY <1>10, <3>1, <3>2, <3>4, <3>6
    <3> QED
      BY <3>4, <3>7, InsertLists
  <2> QED
    BY <2>1
<1>14. D = Nat
  <2>1. D \subseteq Nat
    OBVIOUS
  <2> HIDE DEF D
  <2> QED
    BY <1>12, <1>13, <2>1, SetInduction
<1>15. S \in SUBSET S
  OBVIOUS
<1> QED
  BY <1>1, <1>11, <1>14, <1>15
-----------------------------------------------------------------------------
(* The tree: every device hangs on hubs, and hubs have neither tty nor disk. *)

PathSeq == Seq(1..99)

LEMMA PathsAre ==
  /\ Paths \subseteq PathSeq
  /\ \A p \in Paths : Len(p) \in Nat /\ Len(p) > 0 /\ (Len(p) = 1 => p = <<1>>)
<1>1. <<1>> \in PathSeq /\ Len(<<1>>) = 1
  BY DEF PathSeq
<1>2. ASSUME NEW slot \in UNION Desks
      PROVE  slot.path \in PathSeq /\ Len(slot.path) \in Nat /\ Len(slot.path) > 1
  <2>1. slot.path \in PathSeq /\ Len(slot.path) > 1
    BY SlotsAssumption DEF PathSeq
  <2> QED
    BY <2>1 DEF PathSeq
<1>3. ASSUME NEW p \in Paths
      PROVE  p \in PathSeq /\ Len(p) \in Nat /\ Len(p) > 0 /\ (Len(p) = 1 => p = <<1>>)
  <2>1. CASE p = <<1>>
    <3> HIDE DEF PathSeq
    <3> QED
      BY <1>1, <2>1
  <2>2. CASE p # <<1>>
    <3>1. PICK slot \in UNION Desks : p = slot.path
      BY <2>2 DEF Paths
    <3>2. PICK n : n = Len(p)
      OBVIOUS
    <3>3. p \in PathSeq /\ n \in Nat /\ n > 1
      BY <1>2, <3>1, <3>2
    <3>4. n > 0 /\ n # 1
      BY <3>3
    <3> QED
      BY <3>2, <3>3, <3>4
  <2> QED
    BY <2>1, <2>2
<1> HIDE DEF PathSeq
<1> QED
  BY <1>3

Closed ==
  \A q \in DOMAIN tree : \A a \in PathSeq :
    (Len(a) > 0 /\ IsPrefix(a, q))
      => a \in DOMAIN tree /\ (a # q => IsHub(tree[a].prod))

TreeInv ==
  /\ desk \in Desks
  /\ IsFiniteSet(DOMAIN tree) /\ DOMAIN tree \subseteq Paths
  /\ Closed
  /\ \A p \in DOMAIN tree :
       /\ tree[p].tty \in Nat /\ tree[p].disk \in Nat
       /\ IsHub(tree[p].prod) => tree[p].tty = 0 /\ tree[p].disk = 0

LEMMA LowestFreeIsNumber ==
  ASSUME NEW used, used \subseteq Nat, IsFiniteSet(used)
  PROVE  LowestFree(used) \in Nat
<1>1. PICK n \in Nat : n = Cardinality(used)
  BY FS_CardinalityType
<1>2. PICK I : I = 1..(n + 1)
  OBVIOUS
<1>3. IsFiniteSet(I) /\ Cardinality(I) = n + 1
  <2>1. n + 1 \in Int /\ 1 \in Int /\ ~(1 > n + 1) /\ (n + 1) - 1 + 1 = n + 1
    OBVIOUS
  <2> QED
    BY <1>2, <2>1, FS_Interval
<1>4. I \ used # {}
  <2> SUFFICES ASSUME I \subseteq used PROVE FALSE
    OBVIOUS
  <2>1. Cardinality(I) <= Cardinality(used)
    BY FS_Subset
  <2> QED
    BY <1>1, <1>3, <2>1
<1>5. I \ used \subseteq Nat
  BY <1>2
<1>6. LowestFree(used) = Min(I \ used)
  BY <1>1, <1>2 DEF LowestFree
<1> QED
  BY <1>4, <1>5, <1>6, MinInSet

LEMMA AttachedNumbers ==
  ASSUME TreeInv, NEW slot \in UNION Desks
  PROVE  LET d == Attached(slot)
         IN  /\ d.prod = slot.prod
             /\ d.tty \in Nat /\ d.disk \in Nat
             /\ IsHub(d.prod) => d.tty = 0 /\ d.disk = 0
<1> DEFINE ttys == {tree[p].tty : p \in DOMAIN tree}
           mounts == {tree[p].disk : p \in DOMAIN tree}
           tty == IF slot.tty THEN LowestFree(ttys \ {0}) ELSE 0
           disk == IF slot.disk THEN LowestFree(mounts \ {0}) ELSE 0
<1>1. LowestFree(ttys \ {0}) \in Nat
  <2> DEFINE f == [p \in DOMAIN tree |-> tree[p].tty]
  <2>1. IsFiniteSet({f[p] : p \in DOMAIN tree})
    BY FiniteValues DEF TreeInv
  <2>2. IsFiniteSet(ttys)
    BY <2>1
  <2>3. ttys \subseteq Nat
    BY DEF TreeInv
  <2> HIDE DEF ttys
  <2>4. IsFiniteSet(ttys \ {0}) /\ ttys \ {0} \subseteq Nat
    BY <2>2, <2>3, FS_RemoveElement
  <2> QED
    BY <2>4, LowestFreeIsNumber
<1>2. LowestFree(mounts \ {0}) \in Nat
  <2> DEFINE f == [p \in DOMAIN tree |-> tree[p].disk]
  <2>1. IsFiniteSet({f[p] : p \in DOMAIN tree})
    BY FiniteValues DEF TreeInv
  <2>2. IsFiniteSet(mounts)
    BY <2>1
  <2>3. mounts \subseteq Nat
    BY DEF TreeInv
  <2> HIDE DEF mounts
  <2>4. IsFiniteSet(mounts \ {0}) /\ mounts \ {0} \subseteq Nat
    BY <2>2, <2>3, FS_RemoveElement
  <2> QED
    BY <2>4, LowestFreeIsNumber
<1>3. Attached(slot) = [prod |-> slot.prod, name |-> slot.name, serial |-> slot.serial,
                        tty |-> tty, disk |-> disk]
  BY DEF Attached
<1> HIDE DEF ttys, mounts
<1>4. tty \in Nat /\ disk \in Nat
  BY <1>1, <1>2
<1>5. IsHub(slot.prod) => tty = 0 /\ disk = 0
  BY SlotsAssumption
<1> HIDE DEF tty, disk
<1> QED
  BY <1>3, <1>4, <1>5
\* A hot-plug event leaves the rest of the tree alone, and what it changes is
\* everything below the place it changes.
Kept(paths) ==
  /\ \A p \in DOMAIN tree : p \in DOMAIN tree' => tree'[p] = tree[p]
  /\ \A p \in DOMAIN tree : p \in DOMAIN tree' \/ p \in paths
  /\ \A p \in DOMAIN tree' : p \in DOMAIN tree \/ p \in paths
  /\ paths \subseteq Paths
  /\ \A d \in paths : \A p \in DOMAIN tree' : IsPrefix(d, p) => p \in paths

LEMMA Plugged ==
  ASSUME TreeInv, NEW slot \in desk, Plug(slot)
  PROVE  TreeInv' /\ Kept({slot.path})
<1> DEFINE x == slot.path
<1>1. slot \in UNION Desks /\ x \in Paths
  BY DEF TreeInv, Paths
<1>2. /\ x \in PathSeq /\ Len(x) > 0
      /\ \A p \in DOMAIN tree : p \in PathSeq /\ Len(p) > 0
  BY <1>1, PathsAre DEF TreeInv
<1>3. /\ x \notin DOMAIN tree
      /\ Front(x) \in DOMAIN tree /\ IsHub(tree[Front(x)].prod)
      /\ tree' = [p \in DOMAIN tree \cup {x} |-> IF p = x THEN Attached(slot) ELSE tree[p]]
      /\ desk' = desk
  BY DEF Plug
<1>4. PICK new : new = Attached(slot)
  OBVIOUS
<1>5. new.tty \in Nat /\ new.disk \in Nat /\ (IsHub(new.prod) => new.tty = 0 /\ new.disk = 0)
  BY <1>1, <1>4, AttachedNumbers
<1> HIDE DEF x
<1>6. /\ DOMAIN tree' = DOMAIN tree \cup {x}
      /\ tree'[x] = new
      /\ \A p \in DOMAIN tree : tree'[p] = tree[p]
  BY <1>3, <1>4
<1>7. \A p \in DOMAIN tree : ~IsPrefix(x, p)
  BY <1>2, <1>3 DEF TreeInv, Closed
<1>8. Closed'
  <2> SUFFICES ASSUME NEW q \in DOMAIN tree', NEW a \in PathSeq, Len(a) > 0, IsPrefix(a, q)
               PROVE  a \in DOMAIN tree' /\ (a # q => IsHub(tree'[a].prod))
    BY DEF Closed
  <2>1. CASE q \in DOMAIN tree
    <3>1. a \in DOMAIN tree /\ (a # q => IsHub(tree[a].prod))
      BY <2>1 DEF TreeInv, Closed
    <3> QED
      BY <1>6, <3>1
  <2>2. CASE q = x /\ a = x
    BY <1>6, <2>2
  <2>3. CASE q = x /\ a # x
    <3>1. IsPrefix(a, Front(x))
      BY <1>2, <2>3, StrictPrefixOfFront DEF PathSeq
    <3>2. a \in DOMAIN tree /\ (a # Front(x) => IsHub(tree[a].prod))
      BY <1>3, <3>1 DEF TreeInv, Closed
    <3>3. IsHub(tree[a].prod)
      BY <1>3, <3>2
    <3> QED
      BY <1>6, <3>2, <3>3
  <2> QED
    BY <1>6, <2>1, <2>2, <2>3
<1>9. IsFiniteSet(DOMAIN tree')
  BY <1>6, FS_AddElement DEF TreeInv
<1>10. TreeInv'
  <2>1. DOMAIN tree' \subseteq Paths
    BY <1>1, <1>6 DEF TreeInv, x
  <2>2. ASSUME NEW p \in DOMAIN tree'
        PROVE  /\ tree'[p].tty \in Nat /\ tree'[p].disk \in Nat
               /\ IsHub(tree'[p].prod) => tree'[p].tty = 0 /\ tree'[p].disk = 0
    <3>1. CASE p = x
      BY <1>5, <1>6, <3>1
    <3>2. CASE p # x
      BY <1>6, <3>2 DEF TreeInv
    <3> QED
      BY <3>1, <3>2
  <2>3. desk' \in Desks
    BY <1>3 DEF TreeInv
  <2> QED
    BY <1>8, <1>9, <2>1, <2>2, <2>3 DEF TreeInv
<1>11. Kept({x})
  <2>1. {x} \subseteq Paths
    BY <1>1 DEF x
  <2> QED
    BY <1>6, <1>7, <2>1 DEF Kept
<1> QED
  BY <1>10, <1>11 DEF x

LEMMA Unplugged ==
  ASSUME TreeInv, NEW path \in DOMAIN tree, Unplug(path)
  PROVE  TreeInv' /\ Kept(Subtree(path))
<1>1. \A p \in DOMAIN tree : p \in Paths /\ p \in PathSeq /\ Len(p) > 0
  BY PathsAre DEF TreeInv
<1>2. /\ desk' = desk
      /\ DOMAIN tree' = DOMAIN tree \ Subtree(path)
      /\ \A p \in DOMAIN tree \ Subtree(path) : tree'[p] = tree[p]
  BY DEF Unplug, Restrict
<1>3. \A p \in DOMAIN tree : p \in Subtree(path) <=> IsPrefix(path, p)
  BY DEF Subtree
<1>4. Subtree(path) \subseteq DOMAIN tree
  BY DEF Subtree
<1>5. Closed'
  <2> SUFFICES ASSUME NEW q \in DOMAIN tree', NEW a \in PathSeq, Len(a) > 0, IsPrefix(a, q)
               PROVE  a \in DOMAIN tree' /\ (a # q => IsHub(tree'[a].prod))
    BY DEF Closed
  <2>1. q \in DOMAIN tree /\ ~IsPrefix(path, q)
    BY <1>2, <1>3
  <2>2. a \in DOMAIN tree /\ (a # q => IsHub(tree[a].prod))
    BY <2>1 DEF TreeInv, Closed
  <2>3. ~IsPrefix(path, a)
    BY <1>1, <2>1, PrefixTransitive DEF PathSeq
  <2> QED
    BY <1>2, <1>3, <2>2, <2>3
<1>6. IsFiniteSet(DOMAIN tree')
  BY <1>2, FS_Subset DEF TreeInv
<1>7. TreeInv'
  BY <1>2, <1>5, <1>6 DEF TreeInv
<1>8. \A d \in Subtree(path) : \A p \in DOMAIN tree' : IsPrefix(d, p) => p \in Subtree(path)
  <2> SUFFICES ASSUME NEW d \in Subtree(path), NEW p \in DOMAIN tree', IsPrefix(d, p)
               PROVE  p \in Subtree(path)
    OBVIOUS
  <2>1. IsPrefix(path, d) /\ d \in PathSeq /\ p \in PathSeq /\ path \in PathSeq
    BY <1>1, <1>2, <1>3, <1>4
  <2>2. IsPrefix(path, p)
    BY <2>1, PrefixTransitive DEF PathSeq
  <2> QED
    BY <1>2, <1>3, <2>2
<1>9. Kept(Subtree(path))
  <2>1. Subtree(path) \subseteq Paths
    BY <1>1, <1>4
  <2> QED
    BY <1>2, <1>4, <1>8, <2>1 DEF Kept
<1> QED
  BY <1>7, <1>9
LEMMA TreeStays ==
  ASSUME TreeInv, [Next]_vars
  PROVE  TreeInv'
<1>1. ASSUME NEW slot \in desk, Plug(slot)
      PROVE  TreeInv'
  BY <1>1, Plugged
<1>2. ASSUME NEW path \in DOMAIN tree, Unplug(path)
      PROVE  TreeInv'
  BY <1>2, Unplugged
<1>3. CASE UNCHANGED <<desk, tree>>
  BY <1>3 DEF TreeInv, Closed
<1>4. CASE ListDisks \/ ListSerialPorts \/ FindStandalone \/ FindFreeWilis
  BY <1>3, <1>4 DEF ListDisks, ListSerialPorts, FindStandalone, FindFreeWilis, Walk
<1>5. CASE UNCHANGED vars
  BY <1>3, <1>5 DEF vars
<1> QED
  BY <1>1, <1>2, <1>4, <1>5 DEF Next

\* The two ways a hot-plug event is one.
LEMMA HotPlug ==
  ASSUME TreeInv, (\E slot \in desk : Plug(slot)) \/ (\E path \in DOMAIN tree : Unplug(path))
  PROVE  \E paths : Kept(paths) /\ Changed(paths)
<1>1. ASSUME NEW slot \in desk, Plug(slot)
      PROVE  Kept({slot.path}) /\ Changed({slot.path})
  BY <1>1, Plugged DEF Plug
<1>2. ASSUME NEW path \in DOMAIN tree, Unplug(path)
      PROVE  Kept(Subtree(path)) /\ Changed(Subtree(path))
  BY <1>2, Unplugged DEF Unplug
<1> QED
  BY <1>1, <1>2

\* What is changed during a scan, and what was plugged in below it.
DisturbedInv ==
  /\ disturbed \subseteq Paths
  /\ \A d \in disturbed : \A p \in DOMAIN tree : IsPrefix(d, p) => p \in disturbed

Walks == {"disks", "serial ports", "standalone", "hubs"}

PhaseInv ==
  /\ pc \in Phases /\ failed \subseteq Walks
  /\ pc = "_listSerialPorts" => failed \subseteq {"disks"}

\* The phases of the three later walks, and how they may fail.
LEMMA LaterWalks ==
  /\ ListSerialPorts =>
       /\ pc = "_listSerialPorts" /\ pc' = "_find_all_standalone"
       /\ UNCHANGED <<desk, tree, disks, devices, result, disturbed>>
       /\ \/ failed' = failed
          \/ failed' = failed \cup {"serial ports"} /\ serialPorts' = <<>>
  /\ FindStandalone =>
       /\ pc = "_find_all_standalone" /\ pc' = "_find_all_freewili"
       /\ UNCHANGED <<desk, tree, disks, serialPorts, result, disturbed>>
       /\ \/ failed' = failed
          \/ failed' = failed \cup {"standalone"} /\ devices' = <<>>
  /\ FindFreeWilis =>
       /\ pc = "_find_all_freewili" /\ pc' = "idle"
       /\ UNCHANGED <<desk, tree, disks, serialPorts, devices, disturbed>>
       /\ \/ failed' = failed
          \/ failed' = failed \cup {"hubs"} /\ result' = ScanError
<1>1. ASSUME ListSerialPorts
      PROVE  /\ pc = "_listSerialPorts" /\ pc' = "_find_all_standalone"
             /\ UNCHANGED <<desk, tree, disks, devices, result, disturbed>>
             /\ \/ failed' = failed
                \/ failed' = failed \cup {"serial ports"} /\ serialPorts' = <<>>
  BY <1>1 DEF ListSerialPorts, Walk, FailedWalk
<1>2. ASSUME FindStandalone
      PROVE  /\ pc = "_find_all_standalone" /\ pc' = "_find_all_freewili"
             /\ UNCHANGED <<desk, tree, disks, serialPorts, result, disturbed>>
             /\ \/ failed' = failed
                \/ failed' = failed \cup {"standalone"} /\ devices' = <<>>
  BY <1>2 DEF FindStandalone, Walk, FailedWalk
<1>3. ASSUME FindFreeWilis
      PROVE  /\ pc = "_find_all_freewili" /\ pc' = "idle"
             /\ UNCHANGED <<desk, tree, disks, serialPorts, devices, disturbed>>
             /\ \/ failed' = failed
                \/ failed' = failed \cup {"hubs"} /\ result' = ScanError
  BY <1>3 DEF FindFreeWilis, Walk, FailedWalk
<1> QED
  BY <1>1, <1>2, <1>3

LEMMA DisturbedStays ==
  ASSUME TreeInv, DisturbedInv, [Next]_vars
  PROVE  DisturbedInv'
<1>1. ASSUME NEW paths, Kept(paths), Changed(paths)
      PROVE  DisturbedInv'
  <2>1. CASE disturbed' = {}
    BY <2>1 DEF DisturbedInv
  <2>2. CASE disturbed' = disturbed \cup paths
    <3>1. disturbed' \subseteq Paths
      BY <1>1, <2>2 DEF DisturbedInv, Kept
    <3>2. ASSUME NEW d \in disturbed', NEW p \in DOMAIN tree', IsPrefix(d, p)
          PROVE  p \in disturbed'
      <4>1. CASE d \in paths
        BY <1>1, <2>2, <3>2, <4>1 DEF Kept
      <4>2. CASE d \in disturbed
        <5>1. p \in DOMAIN tree \/ p \in paths
          BY <1>1, <3>2 DEF Kept
        <5> QED
          BY <2>2, <3>2, <4>2, <5>1 DEF DisturbedInv
      <4> QED
        BY <2>2, <3>2, <4>1, <4>2
    <3> QED
      BY <3>1, <3>2 DEF DisturbedInv
  <2> QED
    BY <1>1, <2>1, <2>2 DEF Changed
<1>2. CASE (\E slot \in desk : Plug(slot)) \/ (\E path \in DOMAIN tree : Unplug(path))
  BY <1>1, <1>2, HotPlug
<1>3. CASE ListDisks
  BY <1>3 DEF ListDisks, DisturbedInv
<1>4. CASE UNCHANGED <<tree, disturbed>>
  BY <1>4 DEF DisturbedInv
<1>5. CASE ListSerialPorts \/ FindStandalone \/ FindFreeWilis
  BY <1>4, <1>5 DEF ListSerialPorts, FindStandalone, FindFreeWilis, Walk
<1>6. CASE UNCHANGED vars
  BY <1>4, <1>6 DEF vars
<1> QED
  BY <1>2, <1>3, <1>5, <1>6 DEF Next

LEMMA PhaseStays ==
  ASSUME TreeInv, PhaseInv, [Next]_vars
  PROVE  PhaseInv'
<1>1. ASSUME NEW paths, Changed(paths)
      PROVE  PhaseInv'
  BY <1>1 DEF PhaseInv, Changed, scanVars, Phases
<1>2. CASE (\E slot \in desk : Plug(slot)) \/ (\E path \in DOMAIN tree : Unplug(path))
  BY <1>1, <1>2, HotPlug
<1>3. CASE ListDisks
  BY <1>3 DEF ListDisks, Walk, PhaseInv, Phases, Walks
<1>4. CASE ListSerialPorts
  BY <1>4, LaterWalks DEF PhaseInv, Phases, Walks
<1>5. CASE FindStandalone
  BY <1>5, LaterWalks DEF PhaseInv, Phases, Walks
<1>6. CASE FindFreeWilis
  BY <1>6, LaterWalks DEF PhaseInv, Phases, Walks
<1>7. CASE UNCHANGED vars
  BY <1>7 DEF vars, PhaseInv
<1> QED
  BY <1>2, <1>3, <1>4, <1>5, <1>6, <1>7 DEF Next
-----------------------------------------------------------------------------
(* The two listings: what they say of a place that was left alone is still so. *)

TtyAt == [p \in DOMAIN tree |-> tree[p].tty]
DiskAt == [p \in DOMAIN tree |-> tree[p].disk]

SaysTheTruth(list, number) ==
  \A i \in DOMAIN list :
    \/ list[i].devPath \in disturbed
    \/ list[i].devPath \in DOMAIN tree /\ number[list[i].devPath] = list[i].name

HasAll(list, number) ==
  \A p \in DOMAIN tree \ disturbed :
    number[p] # 0 => \E i \in DOMAIN list : list[i].devPath = p

\* A scan that was started and not forgotten.
Scanning == pc # "idle" \/ result # NoResult

DisksInv ==
  /\ disks \in Seq(Info) /\ SaysTheTruth(disks, DiskAt)
  /\ "disks" \in failed => disks = <<>>
  /\ (Scanning /\ "disks" \notin failed) => HasAll(disks, DiskAt)

PortsInv ==
  /\ serialPorts \in Seq(Info) /\ SaysTheTruth(serialPorts, TtyAt)
  /\ "serial ports" \in failed => serialPorts = <<>>
  /\ (Scanning /\ pc # "_listSerialPorts" /\ "serial ports" \notin failed)
       => HasAll(serialPorts, TtyAt)

LEMMA ListingIs ==
  ASSUME TreeInv, NEW number, \A p \in DOMAIN tree : number[p] \in Nat
  PROVE  /\ Listing(number) \in Seq(Info)
         /\ \A i \in DOMAIN Listing(number) :
              /\ Listing(number)[i].devPath \in DOMAIN tree
              /\ number[Listing(number)[i].devPath] = Listing(number)[i].name
         /\ \A p \in DOMAIN tree :
              number[p] # 0 => \E i \in DOMAIN Listing(number) : Listing(number)[i].devPath = p
<1> DEFINE S == {p \in DOMAIN tree : number[p] # 0}
<1>1. IsFiniteSet(S)
  BY FS_Subset DEF TreeInv
<1>2. PICK list : list = Enumerated(S) /\ IsListing(list, S)
  BY <1>1, EnumeratedLists
<1>3. PICK n \in Nat : n = Len(list) /\ DOMAIN list = 1..n /\ \A i \in 1..n : list[i] \in S
  <2>1. list \in Seq(S)
    BY <1>2 DEF IsListing
  <2> QED
    BY <2>1
<1>4. \A x \in S : \E i \in 1..n : list[i] = x
  BY <1>2, <1>3 DEF IsListing
<1>5. PICK l : l = [i \in 1..n |-> [devPath |-> list[i], name |-> number[list[i]]]]
  OBVIOUS
<1>6. l = Listing(number)
  BY <1>2, <1>3, <1>5 DEF Listing
<1>7. \A i \in 1..n : list[i] \in DOMAIN tree /\ list[i] \in Paths /\ number[list[i]] \in Nat \ {0}
  BY <1>3 DEF TreeInv
<1>8. DOMAIN l = 1..n /\ \A i \in 1..n : l[i].devPath = list[i] /\ l[i].name = number[list[i]]
  BY <1>5
<1>9. l \in Seq(Info)
  <2>1. \A i \in 1..n : l[i] \in Info
    BY <1>5, <1>7 DEF Info
  <2>2. l \in [1..n -> Info]
    BY <1>5, <2>1
  <2> QED
    BY <2>2
<1>10. \A p \in DOMAIN tree : number[p] # 0 => \E i \in 1..n : l[i].devPath = p
  BY <1>4, <1>8
<1> QED
  BY <1>6, <1>7, <1>8, <1>9, <1>10

\* A hot-plug event during a scan.
LEMMA StillTrue ==
  ASSUME NEW paths, Kept(paths), disturbed' = disturbed \cup paths, NEW list
  PROVE  /\ SaysTheTruth(list, TtyAt) => SaysTheTruth(list, TtyAt)'
         /\ SaysTheTruth(list, DiskAt) => SaysTheTruth(list, DiskAt)'
         /\ HasAll(list, TtyAt) => HasAll(list, TtyAt)'
         /\ HasAll(list, DiskAt) => HasAll(list, DiskAt)'
<1>1. \A p \in DOMAIN tree : p \in disturbed' \/ (p \in DOMAIN tree' /\ tree'[p] = tree[p])
  BY DEF Kept
<1>2. \A p \in DOMAIN tree' \ disturbed' : p \in DOMAIN tree \ disturbed /\ tree'[p] = tree[p]
  BY DEF Kept
<1>3. disturbed \subseteq disturbed'
  OBVIOUS
<1> QED
  BY <1>1, <1>2, <1>3 DEF SaysTheTruth, HasAll, TtyAt, DiskAt

LEMMA DisksStay ==
  ASSUME TreeInv, PhaseInv, DisksInv, [Next]_vars
  PROVE  DisksInv'
<1>1. ASSUME NEW paths, Kept(paths), Changed(paths)
      PROVE  DisksInv'
  <2>1. CASE pc = "idle"
    <3>1. disks' = <<>> /\ failed' = {} /\ pc' = "idle" /\ result' = NoResult
      BY <1>1, <2>1 DEF Changed
    <3>2. disks' \in Seq(Info) /\ DOMAIN disks' = {}
      BY <3>1, EmptyList
    <3> QED
      BY <3>1, <3>2 DEF DisksInv, SaysTheTruth, Scanning
  <2>2. CASE pc # "idle"
    <3>1. disturbed' = disturbed \cup paths /\ UNCHANGED <<pc, disks, failed>>
      BY <1>1, <2>2 DEF Changed, scanVars
    <3>2. /\ SaysTheTruth(disks, DiskAt) => SaysTheTruth(disks, DiskAt)'
          /\ HasAll(disks, DiskAt) => HasAll(disks, DiskAt)'
      <4>1. PICK list : list = disks /\ list = disks'
        BY <3>1
      <4>2. /\ SaysTheTruth(list, DiskAt) => SaysTheTruth(list, DiskAt)'
            /\ HasAll(list, DiskAt) => HasAll(list, DiskAt)'
        BY <1>1, <3>1, StillTrue
      <4> QED
        BY <4>1, <4>2 DEF SaysTheTruth, HasAll
    <3> QED
      BY <2>2, <3>1, <3>2 DEF DisksInv, Scanning
  <2> QED
    BY <2>1, <2>2
<1>2. CASE (\E slot \in desk : Plug(slot)) \/ (\E path \in DOMAIN tree : Unplug(path))
  BY <1>1, <1>2, HotPlug
<1>3. CASE ListDisks
  <2>1. UNCHANGED tree /\ disturbed' = {}
    BY <1>3 DEF ListDisks, Walk
  <2>2. CASE disks' = Listing([p \in DOMAIN tree |-> tree[p].disk]) /\ failed' = {}
    <3>1. disks' = Listing(DiskAt)
      BY <2>2 DEF DiskAt
    <3>2. \A p \in DOMAIN tree : DiskAt[p] \in Nat
      BY DEF DiskAt, TreeInv
    <3>3. /\ disks' \in Seq(Info)
          /\ \A i \in DOMAIN disks' :
               disks'[i].devPath \in DOMAIN tree /\ DiskAt[disks'[i].devPath] = disks'[i].name
          /\ \A p \in DOMAIN tree :
               DiskAt[p] # 0 => \E i \in DOMAIN disks' : disks'[i].devPath = p
      BY <3>1, <3>2, ListingIs
    <3>4. DiskAt' = DiskAt
      BY <2>1 DEF DiskAt
    <3> QED
      BY <2>1, <2>2, <3>3, <3>4 DEF DisksInv, SaysTheTruth, HasAll
  <2>3. CASE disks' = <<>> /\ failed' = {"disks"}
    <3>1. disks' \in Seq(Info) /\ DOMAIN disks' = {}
      BY <2>3, EmptyList
    <3> QED
      BY <2>3, <3>1 DEF DisksInv, SaysTheTruth
  <2> QED
    BY <1>3, <2>2, <2>3 DEF ListDisks
<1>4. ASSUME UNCHANGED <<tree, disturbed, disks>>, pc # "idle",
             "disks" \in failed <=> "disks" \in failed'
      PROVE  DisksInv'
  BY <1>4 DEF DisksInv, SaysTheTruth, HasAll, Scanning, DiskAt
<1>5. CASE ListSerialPorts
  BY <1>4, <1>5, LaterWalks
<1>6. CASE FindStandalone
  BY <1>4, <1>6, LaterWalks
<1>7. CASE FindFreeWilis
  BY <1>4, <1>7, LaterWalks
<1>8. CASE UNCHANGED vars
  BY <1>8 DEF vars, DisksInv, SaysTheTruth, HasAll, Scanning, DiskAt
<1> QED
  BY <1>2, <1>3, <1>5, <1>6, <1>7, <1>8 DEF Next

LEMMA PortsStay ==
  ASSUME TreeInv, PhaseInv, PortsInv, [Next]_vars
  PROVE  PortsInv'
<1>1. ASSUME NEW paths, Kept(paths), Changed(paths)
      PROVE  PortsInv'
  <2>1. CASE pc = "idle"
    <3>1. serialPorts' = <<>> /\ failed' = {} /\ pc' = "idle" /\ result' = NoResult
      BY <1>1, <2>1 DEF Changed
    <3>2. serialPorts' \in Seq(Info) /\ DOMAIN serialPorts' = {}
      BY <3>1, EmptyList
    <3> QED
      BY <3>1, <3>2 DEF PortsInv, SaysTheTruth, Scanning
  <2>2. CASE pc # "idle"
    <3>1. disturbed' = disturbed \cup paths /\ UNCHANGED <<pc, serialPorts, failed>>
      BY <1>1, <2>2 DEF Changed, scanVars
    <3>2. /\ SaysTheTruth(serialPorts, TtyAt) => SaysTheTruth(serialPorts, TtyAt)'
          /\ HasAll(serialPorts, TtyAt) => HasAll(serialPorts, TtyAt)'
      <4>1. PICK list : list = serialPorts /\ list = serialPorts'
        BY <3>1
      <4>2. /\ SaysTheTruth(list, TtyAt) => SaysTheTruth(list, TtyAt)'
            /\ HasAll(list, TtyAt) => HasAll(list, TtyAt)'
        BY <1>1, <3>1, StillTrue
      <4> QED
        BY <4>1, <4>2 DEF SaysTheTruth, HasAll
    <3> QED
      BY <2>2, <3>1, <3>2 DEF PortsInv, Scanning
  <2> QED
    BY <2>1, <2>2
<1>2. CASE (\E slot \in desk : Plug(slot)) \/ (\E path \in DOMAIN tree : Unplug(path))
  BY <1>1, <1>2, HotPlug
<1>3. CASE ListDisks
  <2>1. serialPorts' = <<>> /\ pc' = "_listSerialPorts"
    BY <1>3 DEF ListDisks, Walk
  <2>2. serialPorts' \in Seq(Info) /\ DOMAIN serialPorts' = {}
    BY <2>1, EmptyList
  <2> QED
    BY <2>1, <2>2 DEF PortsInv, SaysTheTruth
<1>4. CASE ListSerialPorts
  <2>1. UNCHANGED <<tree, disturbed>>
    BY <1>4, LaterWalks
  <2>2. CASE serialPorts' = Listing([p \in DOMAIN tree |-> tree[p].tty]) /\ UNCHANGED failed
    <3>1. serialPorts' = Listing(TtyAt)
      BY <2>2 DEF TtyAt
    <3>2. \A p \in DOMAIN tree : TtyAt[p] \in Nat
      BY DEF TtyAt, TreeInv
    <3>3. /\ serialPorts' \in Seq(Info)
          /\ \A i \in DOMAIN serialPorts' :
               /\ serialPorts'[i].devPath \in DOMAIN tree
               /\ TtyAt[serialPorts'[i].devPath] = serialPorts'[i].name
          /\ \A p \in DOMAIN tree :
               TtyAt[p] # 0 => \E i \in DOMAIN serialPorts' : serialPorts'[i].devPath = p
      BY <3>1, <3>2, ListingIs
    <3>4. TtyAt' = TtyAt
      BY <2>1 DEF TtyAt
    <3>5. "serial ports" \notin failed
      BY <1>4, LaterWalks DEF PhaseInv
    <3> QED
      BY <2>1, <2>2, <3>3, <3>4, <3>5 DEF PortsInv, SaysTheTruth, HasAll
  <2>3. CASE serialPorts' = <<>> /\ "serial ports" \in failed'
    <3>1. serialPorts' \in Seq(Info) /\ DOMAIN serialPorts' = {}
      BY <2>3, EmptyList
    <3> QED
      BY <2>3, <3>1 DEF PortsInv, SaysTheTruth
  <2> QED
    BY <1>4, <2>2, <2>3 DEF ListSerialPorts, FailedWalk
<1>5. ASSUME UNCHANGED <<tree, disturbed, serialPorts>>, pc # "idle", pc # "_listSerialPorts",
             "serial ports" \in failed <=> "serial ports" \in failed'
      PROVE  PortsInv'
  BY <1>5 DEF PortsInv, SaysTheTruth, HasAll, Scanning, TtyAt
<1>6. CASE FindStandalone
  BY <1>5, <1>6, LaterWalks
<1>7. CASE FindFreeWilis
  BY <1>5, <1>7, LaterWalks
<1>8. CASE UNCHANGED vars
  BY <1>8 DEF vars, PortsInv, SaysTheTruth, HasAll, Scanning, TtyAt
<1> QED
  BY <1>2, <1>3, <1>4, <1>6, <1>7, <1>8 DEF Next
-----------------------------------------------------------------------------
(* What a walk makes of the places it found. *)

\* The name in the first entry at the very path, and in the first whose path a path
\* contains.
NameOf(list, I) == IF I = {} THEN 0 ELSE list[Min(I)].name

EntriesAt(list, path) == {i \in 1..Len(list) : list[i].devPath = path}

EntriesIn(list, path) == {i \in 1..Len(list) : TextContains(path, list[i].devPath)}

LEMMA NameOfEntry ==
  ASSUME NEW list \in Seq(Info), NEW I, I \subseteq 1..Len(list)
  PROVE  \/ I = {} /\ NameOf(list, I) = 0
         \/ \E i \in I : NameOf(list, I) = list[i].name /\ list[i].name \in Nat \ {0}
<1>1. CASE I = {}
  BY <1>1 DEF NameOf
<1>2. CASE I # {}
  <2>1. I \subseteq Nat
    OBVIOUS
  <2>2. PICK m \in I : m = Min(I)
    BY <1>2, <2>1, MinInSet
  <2>3. list[m] \in Info
    OBVIOUS
  <2>4. NameOf(list, I) = list[m].name
    BY <1>2, <2>2 DEF NameOf
  <2> QED
    BY <2>3, <2>4 DEF Info
<1> QED
  BY <1>1, <1>2

LEMMA SelectedName ==
  ASSUME NEW list, NEW I, I \subseteq 1..Len(list), Len(list) \in Nat
  PROVE  (IF (IF I # {} THEN Min(I) ELSE 0) = 0 THEN 0
          ELSE list[IF I # {} THEN Min(I) ELSE 0].name) = NameOf(list, I)
<1>1. CASE I = {}
  BY <1>1 DEF NameOf
<1>2. CASE I # {}
  <2>1. I \subseteq Nat
    OBVIOUS
  <2>2. PICK m \in I : m = Min(I)
    BY <1>2, <2>1, MinInSet
  <2>3. m # 0
    OBVIOUS
  <2> QED
    BY <1>2, <2>2, <2>3 DEF NameOf
<1> QED
  BY <1>1, <1>2

LEMMA MatchAt ==
  ASSUME NEW list \in Seq(Info), NEW path
  PROVE  FirstMatching(list, LAMBDA devPath : devPath = path) = NameOf(list, EntriesAt(list, path))
<1>1. EntriesAt(list, path) \subseteq 1..Len(list) /\ Len(list) \in Nat
  BY DEF EntriesAt
<1> QED
  BY <1>1, SelectedName DEF FirstMatching, SelectInSeq, EntriesAt

LEMMA MatchIn ==
  ASSUME NEW list \in Seq(Info), NEW path
  PROVE  FirstMatching(list, LAMBDA devPath : TextContains(path, devPath))
           = NameOf(list, EntriesIn(list, path))
<1>1. EntriesIn(list, path) \subseteq 1..Len(list) /\ Len(list) \in Nat
  BY DEF EntriesIn
<1> QED
  BY <1>1, SelectedName DEF FirstMatching, SelectInSeq, EntriesIn
-----------------------------------------------------------------------------
(* The badges of the standalone walk. *)

BadgeDev(path) ==
  USBDeviceAt(path, tree[path].name, NameOf(serialPorts, EntriesAt(serialPorts, path)),
              NameOf(disks, EntriesAt(disks, path)))

LEMMA BadgeAt ==
  ASSUME serialPorts \in Seq(Info), disks \in Seq(Info), NEW path
  PROVE  StandaloneAt(path) = fromUSBDevices(<<BadgeDev(path)>>)
<1>1. /\ FirstMatching(serialPorts, LAMBDA devPath : devPath = path)
           = NameOf(serialPorts, EntriesAt(serialPorts, path))
      /\ FirstMatching(disks, LAMBDA devPath : devPath = path)
           = NameOf(disks, EntriesAt(disks, path))
  BY MatchAt
<1> QED
  BY <1>1 DEF StandaloneAt, BadgeDev

\* In a list that holds what is there, an undisturbed place finds its own name.
LEMMA OwnName ==
  ASSUME NEW list \in Seq(Info), NEW number, SaysTheTruth(list, number), HasAll(list, number),
         NEW p \in DOMAIN tree, p \notin disturbed
  PROVE  NameOf(list, EntriesAt(list, p)) = number[p]
<1> DEFINE I == EntriesAt(list, p)
<1>1. I \subseteq 1..Len(list) /\ DOMAIN list = 1..Len(list)
  BY DEF EntriesAt
<1>2. CASE I = {}
  <2>1. number[p] = 0
    BY <1>1, <1>2 DEF HasAll, EntriesAt
  <2> QED
    BY <1>2, <2>1 DEF NameOf
<1>3. CASE I # {}
  <2>1. PICK i \in I : NameOf(list, I) = list[i].name
    BY <1>1, <1>3, NameOfEntry
  <2>2. i \in DOMAIN list /\ list[i].devPath = p
    BY <1>1, <2>1 DEF EntriesAt
  <2> QED
    BY <2>1, <2>2 DEF SaysTheTruth
<1> QED
  BY <1>2, <1>3

\* A name is not zero only where the list has it.
IsListed(list, p, name) ==
  name # 0 => \E i \in DOMAIN list : list[i].devPath = p /\ list[i].name = name

LEMMA NameIsListed ==
  ASSUME NEW list \in Seq(Info), NEW p
  PROVE  IsListed(list, p, NameOf(list, EntriesAt(list, p)))
<1> DEFINE I == EntriesAt(list, p)
<1>1. I \subseteq 1..Len(list) /\ DOMAIN list = 1..Len(list) /\ \A i \in I : list[i].devPath = p
  BY DEF EntriesAt
<1> HIDE DEF I
<1>2. NameOf(list, I) = 0 \/ \E i \in I : NameOf(list, I) = list[i].name
  BY <1>1, NameOfEntry
<1>3. IsListed(list, p, NameOf(list, I))
  BY <1>1, <1>2 DEF IsListed
<1> QED
  BY <1>3 DEF I

AloneIn(p) == p \in DOMAIN tree /\ isStandAloneDevice(tree[p].prod) /\ ~OnFreeWiliHub(p)

IsBadgeDev(dev, p) ==
  /\ dev.portChain = p
  /\ IsListed(serialPorts, p, dev.port) /\ IsListed(disks, p, dev.paths)
  /\ p \in disturbed \/ (AloneIn(p) /\ Said(dev) = Due(p))

IsBadgeOf(d, p) ==
  /\ d.standalone /\ d.deviceType \in DeviceType /\ d.uniqueID = UniqueID(p)
  /\ \E dev : d.usbDevices = <<dev>> /\ IsBadgeDev(dev, p)

BadgesFound == pc = "_find_all_freewili" \/ (pc = "idle" /\ result # NoResult)

SaysWhoItIs(p) == tree[p].name # "" /\ tree[p].serial # ""

AreBadges(from) ==
  /\ from \in [DOMAIN devices -> Paths]
  /\ \A i, j \in DOMAIN devices : from[i] = from[j] => i = j
  /\ \A i \in DOMAIN devices : IsBadgeOf(devices[i], from[i])
  /\ (BadgesFound /\ "standalone" \notin failed) =>
       \A p \in DOMAIN tree \ disturbed :
         AloneIn(p) /\ SaysWhoItIs(p) => \E i \in DOMAIN devices : from[i] = p

BeforeBadges == pc \in {"_listSerialPorts", "_find_all_standalone"}

DevicesInv ==
  /\ devices \in Seq(ToSet(devices)) /\ \E from : AreBadges(from)
  /\ BeforeBadges => devices = <<>>

LEMMA BadgeIsRight ==
  ASSUME TreeInv, DisksInv, PortsInv, pc = "_find_all_standalone",
         NEW p, AloneIn(p), StandaloneAt(p) # BuildError
  PROVE  IsBadgeOf(StandaloneAt(p), p)
<1>1. serialPorts \in Seq(Info) /\ disks \in Seq(Info)
  BY DEF DisksInv, PortsInv
<1>2. PICK dev : dev = BadgeDev(p)
  OBVIOUS
<1>3. PICK list : list = <<dev>>
  OBVIOUS
<1>4. list \in Seq({dev}) /\ DOMAIN list = {1} /\ list[1] = dev
  BY <1>3, SingletonList
<1>5. PICK d : d = StandaloneAt(p) /\ d = fromUSBDevices(list) /\ d # BuildError
  BY <1>1, <1>2, <1>3, BadgeAt
<1>6. /\ dev.prod = tree[p].prod /\ dev.portChain = p
      /\ dev.port = NameOf(serialPorts, EntriesAt(serialPorts, p))
      /\ dev.paths = NameOf(disks, EntriesAt(disks, p))
  BY <1>2 DEF BadgeDev, USBDeviceAt
<1>7. isStandAloneDevice(list[1].prod)
  BY <1>4, <1>6 DEF AloneIn
<1>8. d.standalone /\ d.usbDevices = list /\ d.uniqueID = UniqueID(p) /\ d.deviceType \in DeviceType
  <2>1. IsMadeOf(d, list)
    BY <1>4, <1>5, MadeOf
  <2>2. d.standalone /\ d.usbDevices = list /\ d.uniqueID = UniqueID(list[1].portChain)
    BY <1>4, <1>7, <2>1 DEF IsMadeOf
  <2> QED
    BY <1>4, <1>5, <1>6, <2>2, MadeType
<1>9. IsListed(serialPorts, p, dev.port) /\ IsListed(disks, p, dev.paths)
  BY <1>1, <1>6, NameIsListed
<1>10. ASSUME p \notin disturbed
       PROVE  Said(dev) = Due(p)
  <2>1. p \in DOMAIN tree
    BY DEF AloneIn
  <2>2. dev.port = IF "serial ports" \in failed THEN 0 ELSE tree[p].tty
    <3>1. CASE "serial ports" \in failed
      <4>1. serialPorts = <<>>
        BY <3>1 DEF PortsInv
      <4>2. DOMAIN serialPorts = {}
        BY <4>1, EmptyList
      <4> QED
        BY <1>9, <3>1, <4>2 DEF IsListed
    <3>2. CASE "serial ports" \notin failed
      <4>1. SaysTheTruth(serialPorts, TtyAt) /\ HasAll(serialPorts, TtyAt)
        BY <3>2 DEF PortsInv, Scanning
      <4>2. dev.port = TtyAt[p]
        BY <1>1, <1>6, <1>10, <2>1, <4>1, OwnName
      <4> QED
        BY <2>1, <3>2, <4>2 DEF TtyAt
    <3> QED
      BY <3>1, <3>2
  <2>3. dev.paths = IF "disks" \in failed THEN 0 ELSE tree[p].disk
    <3>1. CASE "disks" \in failed
      <4>1. disks = <<>>
        BY <3>1 DEF DisksInv
      <4>2. DOMAIN disks = {}
        BY <4>1, EmptyList
      <4> QED
        BY <1>9, <3>1, <4>2 DEF IsListed
    <3>2. CASE "disks" \notin failed
      <4>1. SaysTheTruth(disks, DiskAt) /\ HasAll(disks, DiskAt)
        BY <3>2 DEF DisksInv, Scanning
      <4>2. dev.paths = DiskAt[p]
        BY <1>1, <1>6, <1>10, <2>1, <4>1, OwnName
      <4> QED
        BY <2>1, <3>2, <4>2 DEF DiskAt
    <3> QED
      BY <3>1, <3>2
  <2> QED
    BY <1>6, <2>2, <2>3 DEF Said, Due
<1>11. IsBadgeDev(dev, p)
  BY <1>6, <1>9, <1>10 DEF IsBadgeDev
<1>12. IsBadgeOf(d, p)
  BY <1>3, <1>8, <1>11 DEF IsBadgeOf
<1> QED
  BY <1>5, <1>12

LEMMA BadgeIsFound ==
  ASSUME DisksInv, PortsInv, NEW p, AloneIn(p), SaysWhoItIs(p)
  PROVE  StandaloneAt(p) # BuildError
<1>1. serialPorts \in Seq(Info) /\ disks \in Seq(Info)
  BY DEF DisksInv, PortsInv
<1>2. PICK dev : dev = BadgeDev(p)
  OBVIOUS
<1>3. dev.prod = tree[p].prod /\ dev.name = tree[p].name /\ dev.serial = tree[p].serial
  BY <1>2 DEF BadgeDev, USBDeviceAt
<1>4. fromUSBDevices(<<dev>>) # BuildError
  BY <1>3, BadgeIsMade DEF AloneIn, SaysWhoItIs
<1> QED
  BY <1>1, <1>2, <1>4, BadgeAt
\* What a hot-plug event leaves of a badge.
LEMMA AloneStays ==
  ASSUME TreeInv, TreeInv', NEW paths, Kept(paths), NEW p \in DOMAIN tree, p \in DOMAIN tree'
  PROVE  /\ AloneIn(p) <=> AloneIn(p)'
         /\ SaysWhoItIs(p) <=> SaysWhoItIs(p)'
<1>1. tree'[p] = tree[p]
  BY DEF Kept
<1>2. p \in PathSeq /\ Len(p) \in Nat /\ Len(p) > 0
  BY PathsAre DEF TreeInv
<1>3. OnFreeWiliHub(p) <=> OnFreeWiliHub(p)'
  <2>1. CASE Len(p) > 1
    <3>1. PICK f : f = Front(p)
      OBVIOUS
    <3>2. f \in PathSeq /\ Len(f) > 0 /\ IsPrefix(f, p)
      <4>1. f \in PathSeq /\ Len(f) = Len(p) - 1
        BY <1>2, <3>1, FrontElements DEF PathSeq
      <4>2. IsPrefix(f, p)
        BY <1>2, <3>1, FrontIsPrefix DEF PathSeq
      <4> QED
        BY <1>2, <2>1, <4>1, <4>2
    <3>3. f \in DOMAIN tree /\ f \in DOMAIN tree'
      BY <3>2 DEF TreeInv, Closed
    <3>4. tree'[f] = tree[f]
      BY <3>3 DEF Kept
    <3> QED
      BY <3>1, <3>4 DEF OnFreeWiliHub
  <2>2. CASE ~(Len(p) > 1)
    BY <2>2 DEF OnFreeWiliHub
  <2> QED
    BY <2>1, <2>2
<1> QED
  BY <1>1, <1>3 DEF AloneIn, SaysWhoItIs

LEMMA BadgeStays ==
  ASSUME NEW d, NEW p, IsBadgeOf(d, p),
         UNCHANGED <<serialPorts, disks>>,
         "serial ports" \in failed <=> "serial ports" \in failed',
         "disks" \in failed <=> "disks" \in failed',
         p \in disturbed => p \in disturbed',
         AloneIn(p) => p \in disturbed' \/ (AloneIn(p)' /\ tree'[p] = tree[p])
  PROVE  IsBadgeOf(d, p)'
<1>1. PICK dev : d.usbDevices = <<dev>> /\ IsBadgeDev(dev, p)
  BY DEF IsBadgeOf
<1>2. IsListed(serialPorts, p, dev.port)' /\ IsListed(disks, p, dev.paths)'
  BY <1>1 DEF IsBadgeDev, IsListed
<1>3. p \in disturbed' \/ (AloneIn(p)' /\ Said(dev) = Due(p)')
  <2>1. CASE p \in disturbed
    BY <2>1
  <2>2. CASE AloneIn(p) /\ Said(dev) = Due(p)
    <3>1. CASE p \in disturbed'
      BY <3>1
    <3>2. CASE AloneIn(p)' /\ tree'[p] = tree[p]
      BY <2>2, <3>2 DEF Due
    <3> QED
      BY <2>2, <3>1, <3>2
  <2> QED
    BY <1>1, <2>1, <2>2 DEF IsBadgeDev
<1>4. IsBadgeDev(dev, p)'
  BY <1>1, <1>2, <1>3 DEF IsBadgeDev, Said
<1> QED
  BY <1>1, <1>4 DEF IsBadgeOf

LEMMA BadgesFoundHere ==
  ASSUME TreeInv, DisksInv, PortsInv, FindStandalone
  PROVE  DevicesInv'
<1> DEFINE found == {p \in DOMAIN tree : isStandAloneDevice(tree[p].prod) /\ ~OnFreeWiliHub(p)}
           g == [p \in found |-> StandaloneAt(p)]
           X == {g[p] : p \in found}
           list == Enumerated(found)
<1>1. /\ pc = "_find_all_standalone" /\ pc' = "_find_all_freewili"
      /\ UNCHANGED <<desk, tree, disks, serialPorts, result, disturbed>>
      /\ failed' = failed \/ (failed' = failed \cup {"standalone"} /\ devices' = <<>>)
  BY LaterWalks
<1>2. \A p : p \in found <=> AloneIn(p)
  BY DEF AloneIn
<1>3. IsFiniteSet(found) /\ found \subseteq Paths
  <2>1. found \subseteq DOMAIN tree
    OBVIOUS
  <2> HIDE DEF found
  <2> QED
    BY <2>1, FS_Subset DEF TreeInv
<1>4. ASSUME NEW d, NEW p, IsBadgeOf(d, p)
      PROVE  IsBadgeOf(d, p)'
  <2>1. AloneIn(p) => AloneIn(p)' /\ tree'[p] = tree[p]
    BY <1>1 DEF AloneIn, OnFreeWiliHub
  <2>2. /\ "serial ports" \in failed <=> "serial ports" \in failed'
        /\ "disks" \in failed <=> "disks" \in failed'
    BY <1>1
  <2> QED
    BY <1>1, <1>4, <2>1, <2>2, BadgeStays
<1>5. CASE devices' = <<>> /\ "standalone" \in failed'
  <2>1. devices' \in Seq(ToSet(devices')) /\ DOMAIN devices' = {}
    BY <1>5, EmptyList
  <2>2. PICK from : from = [i \in {} |-> <<>>]
    OBVIOUS
  <2>3. AreBadges(from)'
    BY <1>5, <2>1, <2>2 DEF AreBadges
  <2> QED
    BY <2>1, <2>3 DEF DevicesInv
<1>6. CASE devices' = SortByUniqueID(Made(found, StandaloneAt)) /\ failed' = failed
  <2>1. PICK w : w = Made(found, StandaloneAt)
    OBVIOUS
  <2>2. w = Erase([i \in DOMAIN list |-> StandaloneAt(list[i])], {BuildError})
    BY <2>1 DEF Made
  <2>3. \A i \in DOMAIN list : list[i] \in found
    <3> HIDE DEF found
    <3>1. IsListing(list, found)
      BY <1>3, EnumeratedLists
    <3>2. list \in Seq(found)
      BY <3>1 DEF IsListing
    <3> QED
      BY <3>2
  <2>4. w = Erase([i \in DOMAIN list |-> g[list[i]]], {BuildError})
    <3>1. [i \in DOMAIN list |-> StandaloneAt(list[i])] = [i \in DOMAIN list |-> g[list[i]]]
      BY <2>3
    <3> QED
      BY <2>2, <3>1
  <2>5. \A p \in found : g[p] = StandaloneAt(p) /\ g[p] \in X
    OBVIOUS
  <2> HIDE DEF found, g, X
  <2>6. w \in Seq(X) /\ \E from : AreMade(from, w, found, g)
    <3>1. PICK l : l = list
      OBVIOUS
    <3>2. PICK v : v = [i \in DOMAIN l |-> g[l[i]]]
      OBVIOUS
    <3>3. IsMapped(v, g, l) /\ w = Erase(v, {BuildError})
      BY <2>4, <3>1, <3>2 DEF IsMapped
    <3>4. IsListing(l, found)
      BY <1>3, <3>1, EnumeratedLists
    <3> HIDE DEF list
    <3> QED
      BY <2>5, <3>3, <3>4, MadeFrom
  <2>7. PICK r : r = SortByUniqueID(w)
    OBVIOUS
  <2>8. r \in Seq(X) /\ \E from : AreMade(from, r, found, g)
    BY <2>6, <2>7, SortedFrom
  <2>9. PICK from : AreMade(from, r, found, g)
    BY <2>8
  <2>10. devices' = r
    BY <1>6, <2>1, <2>7
  <2>11. ASSUME NEW i \in DOMAIN r
         PROVE  IsBadgeOf(r[i], from[i])'
    <3>1. PICK p \in found : p = from[i]
      BY <2>9 DEF AreMade
    <3>2. r[i] = g[p] /\ g[p] # BuildError
      BY <2>9, <3>1 DEF AreMade
    <3>3. IsBadgeOf(r[i], p)
      BY <1>1, <1>2, <2>5, <3>1, <3>2, BadgeIsRight
    <3> QED
      BY <1>4, <3>1, <3>3
  <2>12. ASSUME NEW p \in DOMAIN tree, AloneIn(p)', SaysWhoItIs(p)'
         PROVE  \E i \in DOMAIN r : from[i] = p
    <3>1. AloneIn(p) /\ SaysWhoItIs(p)
      BY <1>1, <2>12 DEF AloneIn, SaysWhoItIs, OnFreeWiliHub
    <3>2. p \in found /\ g[p] # BuildError
      BY <1>2, <2>5, <3>1, BadgeIsFound
    <3> QED
      BY <2>9, <3>2 DEF AreMade
  <2>13. from \in [DOMAIN r -> Paths] /\ \A i, j \in DOMAIN r : from[i] = from[j] => i = j
    BY <1>3, <2>9 DEF AreMade
  <2>14. AreBadges(from)'
    BY <1>1, <2>10, <2>11, <2>12, <2>13 DEF AreBadges
  <2>15. devices' \in Seq(ToSet(devices')) /\ ~BeforeBadges'
    BY <1>1, <2>8, <2>10, SeqOfItself DEF BeforeBadges
  <2> QED
    BY <2>14, <2>15 DEF DevicesInv
<1> QED
  BY <1>5, <1>6 DEF FindStandalone, FailedWalk

LEMMA DevicesStay ==
  ASSUME TreeInv, DisksInv, PortsInv, DevicesInv, [Next]_vars
  PROVE  DevicesInv'
<1>1. TreeInv'
  BY TreeStays
<1>2. PICK from : AreBadges(from)
  BY DEF DevicesInv
<1>3. ASSUME devices' = <<>>, ~BadgesFound'
      PROVE  DevicesInv'
  <2>1. devices' \in Seq(ToSet(devices')) /\ DOMAIN devices' = {}
    BY <1>3, EmptyList
  <2>2. PICK none : none = [i \in {} |-> <<>>]
    OBVIOUS
  <2>3. AreBadges(none)'
    BY <1>3, <2>1, <2>2 DEF AreBadges
  <2> QED
    BY <2>1, <2>3 DEF DevicesInv
<1>4. ASSUME UNCHANGED <<disks, serialPorts, devices>>,
             "serial ports" \in failed <=> "serial ports" \in failed',
             "disks" \in failed <=> "disks" \in failed',
             "standalone" \in failed <=> "standalone" \in failed',
             BadgesFound' => BadgesFound, BeforeBadges' => BeforeBadges,
             disturbed \subseteq disturbed',
             \A p \in DOMAIN tree : p \in disturbed' \/ (p \in DOMAIN tree' /\ tree'[p] = tree[p]),
             \A p \in DOMAIN tree' : p \in disturbed' \/ p \in DOMAIN tree,
             \A p \in DOMAIN tree :
               p \in DOMAIN tree' => /\ AloneIn(p) <=> AloneIn(p)'
                                     /\ SaysWhoItIs(p) <=> SaysWhoItIs(p)'
      PROVE  DevicesInv'
  <2>1. ASSUME NEW i \in DOMAIN devices
        PROVE  IsBadgeOf(devices[i], from[i])'
    <3>1. PICK d, p : d = devices[i] /\ p = from[i] /\ IsBadgeOf(d, p)
      BY <1>2 DEF AreBadges
    <3>2. AloneIn(p) => p \in disturbed' \/ (AloneIn(p)' /\ tree'[p] = tree[p])
      BY <1>4 DEF AloneIn
    <3>3. IsBadgeOf(d, p)'
      BY <1>4, <3>1, <3>2, BadgeStays
    <3>4. d = devices'[i]
      BY <1>4, <3>1
    <3> QED
      BY <3>1, <3>3, <3>4
  <2>2. ASSUME BadgesFound', "standalone" \notin failed',
               NEW p \in DOMAIN tree' \ disturbed', AloneIn(p)', SaysWhoItIs(p)'
        PROVE  \E i \in DOMAIN devices : from[i] = p
    <3>1. p \in DOMAIN tree /\ p \notin disturbed /\ AloneIn(p) /\ SaysWhoItIs(p)
      BY <1>4, <2>2
    <3> QED
      BY <1>2, <1>4, <2>2, <3>1 DEF AreBadges
  <2>3. AreBadges(from)'
    BY <1>2, <1>4, <2>1, <2>2 DEF AreBadges
  <2>4. devices' \in Seq(ToSet(devices')) /\ (BeforeBadges' => devices' = <<>>)
    BY <1>4 DEF DevicesInv
  <2> QED
    BY <2>3, <2>4 DEF DevicesInv
<1>5. ASSUME NEW paths, Kept(paths), Changed(paths)
      PROVE  DevicesInv'
  <2>1. CASE pc = "idle"
    BY <1>3, <1>5, <2>1 DEF Changed, BadgesFound
  <2>2. CASE pc # "idle"
    <3>1. disturbed' = disturbed \cup paths
          /\ UNCHANGED <<pc, disks, serialPorts, devices, result, failed>>
      BY <1>5, <2>2 DEF Changed, scanVars
    <3>2. (BadgesFound' => BadgesFound) /\ (BeforeBadges' => BeforeBadges)
      BY <3>1 DEF BadgesFound, BeforeBadges
    <3>3. /\ \A p \in DOMAIN tree : p \in disturbed' \/ (p \in DOMAIN tree' /\ tree'[p] = tree[p])
          /\ \A p \in DOMAIN tree' : p \in disturbed' \/ p \in DOMAIN tree
      BY <1>5, <3>1 DEF Kept
    <3>4. \A p \in DOMAIN tree :
            p \in DOMAIN tree' => /\ AloneIn(p) <=> AloneIn(p)'
                                  /\ SaysWhoItIs(p) <=> SaysWhoItIs(p)'
      BY <1>1, <1>5, AloneStays
    <3> QED
      BY <1>4, <3>1, <3>2, <3>3, <3>4
  <2> QED
    BY <2>1, <2>2
<1>6. CASE (\E slot \in desk : Plug(slot)) \/ (\E path \in DOMAIN tree : Unplug(path))
  BY <1>5, <1>6, HotPlug
<1>7. CASE ListDisks
  <2>1. devices' = <<>> /\ pc' = "_listSerialPorts"
    BY <1>7 DEF ListDisks, Walk
  <2> QED
    BY <1>3, <2>1 DEF BadgesFound
<1>8. ASSUME UNCHANGED <<tree, disks, serialPorts, devices, disturbed>>,
             "serial ports" \in failed <=> "serial ports" \in failed',
             "disks" \in failed <=> "disks" \in failed',
             "standalone" \in failed <=> "standalone" \in failed',
             BadgesFound' => BadgesFound, BeforeBadges' => BeforeBadges
      PROVE  DevicesInv'
  <2>1. \A p \in DOMAIN tree : /\ AloneIn(p) <=> AloneIn(p)'
                               /\ SaysWhoItIs(p) <=> SaysWhoItIs(p)'
    BY <1>8 DEF AloneIn, SaysWhoItIs, OnFreeWiliHub
  <2> QED
    BY <1>4, <1>8, <2>1
<1>9. CASE FindStandalone
  BY <1>9, BadgesFoundHere
<1>10. CASE FindFreeWilis
  <2>1. pc = "_find_all_freewili"
        /\ UNCHANGED <<tree, disks, serialPorts, devices, disturbed>>
        /\ pc' = "idle" /\ (failed' = failed \/ failed' = failed \cup {"hubs"})
    BY <1>10, LaterWalks
  <2>2. BadgesFound /\ ~BeforeBadges'
    BY <2>1 DEF BadgesFound, BeforeBadges
  <2>3. /\ "serial ports" \in failed <=> "serial ports" \in failed'
        /\ "disks" \in failed <=> "disks" \in failed'
        /\ "standalone" \in failed <=> "standalone" \in failed'
    BY <2>1
  <2> QED
    BY <1>8, <2>1, <2>2, <2>3
<1>11. CASE UNCHANGED vars
  <2>1. (BadgesFound' => BadgesFound) /\ (BeforeBadges' => BeforeBadges)
    BY <1>11 DEF vars, BadgesFound, BeforeBadges
  <2> QED
    BY <1>8, <1>11, <2>1 DEF vars
<1>12. CASE ListSerialPorts
  <2>1. pc = "_listSerialPorts" /\ pc' = "_find_all_standalone" /\ devices' = devices
    BY <1>12, LaterWalks
  <2>2. ~BadgesFound' /\ devices' = <<>>
    BY <2>1 DEF BadgesFound, DevicesInv, BeforeBadges
  <2> QED
    BY <1>3, <2>2
<1> QED
  BY <1>6, <1>7, <1>9, <1>10, <1>11, <1>12 DEF Next
-----------------------------------------------------------------------------
(* The groups of the hub walk, and the result: badges and groups, each once. *)

ChildDev(path) ==
  USBDeviceAt(path, "name", NameOf(serialPorts, EntriesIn(serialPorts, path)),
              NameOf(disks, EntriesIn(disks, path)))

HubDev(hub) == USBDeviceAt(hub, tree[hub].name, 0, 0)

GroupList(hub) ==
  Append([i \in DOMAIN Enumerated(Children(hub)) |-> ChildDev(Enumerated(Children(hub))[i])],
         HubDev(hub))

Group(hub) == fromUSBDevices(GroupList(hub))

LEMMA GroupAt ==
  ASSUME serialPorts \in Seq(Info), disks \in Seq(Info), NEW hub
  PROVE  FreeWiliAt(hub) = Group(hub)
<1>1. ASSUME NEW path
      PROVE  ChildAt(path) = ChildDev(path)
  <2>1. /\ FirstMatching(serialPorts, LAMBDA devPath : TextContains(path, devPath))
             = NameOf(serialPorts, EntriesIn(serialPorts, path))
        /\ FirstMatching(disks, LAMBDA devPath : TextContains(path, devPath))
             = NameOf(disks, EntriesIn(disks, path))
    BY MatchIn
  <2> QED
    BY <2>1 DEF ChildAt, ChildDev
<1> QED
  BY <1>1 DEF FreeWiliAt, Group, GroupList, HubDev

\* Each device of r comes from the standalone walk or from the hub walk, and no
\* place is used twice by one of them.
IsReportOf(d, isBadge, p) ==
  \/ isBadge /\ IsBadgeOf(d, p)
  \/ ~isBadge /\ p \in HubsIn(DOMAIN tree) /\ d = Group(p) /\ d # BuildError

Reports(r, isBadge, at) ==
  /\ isBadge \in [DOMAIN r -> BOOLEAN] /\ at \in [DOMAIN r -> Paths]
  /\ \A i, j \in DOMAIN r : isBadge[i] = isBadge[j] /\ at[i] = at[j] => i = j
  /\ \A i \in DOMAIN r : IsReportOf(r[i], isBadge[i], at[i])
  /\ "standalone" \notin failed =>
       \A p \in DOMAIN tree \ disturbed :
         AloneIn(p) /\ SaysWhoItIs(p) => \E i \in DOMAIN r : isBadge[i] /\ at[i] = p
  /\ \A hub \in HubsIn(DOMAIN tree) :
       Group(hub) # BuildError => \E i \in DOMAIN r : ~isBadge[i] /\ at[i] = hub

ResultInv ==
  \/ result \in {NoResult, ScanError}
  \/ pc = "idle" /\ \E isBadge, at : Reports(result, isBadge, at)

LEMMA ReportsReordered ==
  ASSUME NEW v, NEW n \in Nat, DOMAIN v = 1..n, NEW isBadge, NEW at, Reports(v, isBadge, at),
         NEW r, DOMAIN r = 1..n, IsReordering(r, v, n)
  PROVE  \E newBadge, newAt : Reports(r, newBadge, newAt)
<1>1. PICK pi : Reorders(pi, r, v, n)
  BY DEF IsReordering
<1>2. /\ \A i \in 1..n : pi[i] \in 1..n /\ r[i] = v[pi[i]]
      /\ \A i, j \in 1..n : pi[i] = pi[j] => i = j
      /\ \A k \in 1..n : \E i \in 1..n : pi[i] = k
  BY <1>1 DEF Reorders
<1>3. PICK newBadge, newAt : /\ newBadge = [i \in 1..n |-> isBadge[pi[i]]]
                             /\ newAt = [i \in 1..n |-> at[pi[i]]]
  OBVIOUS
<1>4. \A i \in 1..n : newBadge[i] = isBadge[pi[i]] /\ newAt[i] = at[pi[i]]
  BY <1>3
<1>5. \A i \in 1..n : isBadge[i] \in BOOLEAN /\ at[i] \in Paths
  BY DEF Reports
<1>6. newBadge \in [1..n -> BOOLEAN] /\ newAt \in [1..n -> Paths]
  <2>1. \A i \in 1..n : isBadge[pi[i]] \in BOOLEAN /\ at[pi[i]] \in Paths
    BY <1>2, <1>5
  <2> QED
    BY <1>3, <2>1
<1>7. ASSUME NEW i \in 1..n, NEW j \in 1..n, newBadge[i] = newBadge[j], newAt[i] = newAt[j]
      PROVE  i = j
  <2>1. PICK k \in 1..n, l \in 1..n : k = pi[i] /\ l = pi[j]
    BY <1>2
  <2>2. isBadge[k] = isBadge[l] /\ at[k] = at[l]
    BY <1>4, <1>7, <2>1
  <2>3. k = l
    BY <2>2 DEF Reports
  <2> QED
    BY <1>2, <2>1, <2>3
<1>8. ASSUME NEW i \in 1..n
      PROVE  IsReportOf(r[i], newBadge[i], newAt[i])
  <2>1. PICK k \in 1..n : k = pi[i]
    BY <1>2
  <2>2. IsReportOf(v[k], isBadge[k], at[k])
    BY DEF Reports
  <2>3. r[i] = v[k] /\ newBadge[i] = isBadge[k] /\ newAt[i] = at[k]
    BY <1>2, <1>4, <2>1
  <2> QED
    BY <2>2, <2>3
<1>9. ASSUME NEW p, NEW k \in 1..n, at[k] = p
      PROVE  \E i \in 1..n : newBadge[i] = isBadge[k] /\ newAt[i] = p
  <2>1. PICK i \in 1..n : pi[i] = k
    BY <1>2
  <2> QED
    BY <1>4, <1>9, <2>1
<1>10. ASSUME "standalone" \notin failed,
              NEW p \in DOMAIN tree \ disturbed, AloneIn(p), SaysWhoItIs(p)
       PROVE  \E i \in 1..n : newBadge[i] /\ newAt[i] = p
  <2>1. PICK k \in 1..n : isBadge[k] /\ at[k] = p
    BY <1>10 DEF Reports
  <2> QED
    BY <1>9, <2>1
<1>11. ASSUME NEW hub \in HubsIn(DOMAIN tree), Group(hub) # BuildError
       PROVE  \E i \in 1..n : ~newBadge[i] /\ newAt[i] = hub
  <2>1. PICK k \in 1..n : ~isBadge[k] /\ at[k] = hub
    BY <1>11 DEF Reports
  <2> QED
    BY <1>9, <2>1
<1>12. Reports(r, newBadge, newAt)
  BY <1>6, <1>7, <1>8, <1>10, <1>11 DEF Reports
<1> QED
  BY <1>12

LEMMA ReportsJoined ==
  ASSUME NEW X, devices \in Seq(X), NEW from, AreBadges(from), BadgesFound,
         HubsIn(DOMAIN tree) \subseteq Paths,
         NEW g, \A h \in HubsIn(DOMAIN tree) : g[h] = Group(h),
         NEW m \in Seq(X), NEW hubOf, AreMade(hubOf, m, HubsIn(DOMAIN tree), g)
  PROVE  \E isBadge, at : Reports(devices \o m, isBadge, at)
<1>1. PICK a \in Nat, b \in Nat : /\ a = Len(devices) /\ DOMAIN devices = 1..a
                                  /\ b = Len(m) /\ DOMAIN m = 1..b
  OBVIOUS
<1>2. PICK v : v = devices \o m
  OBVIOUS
<1>3. DOMAIN v = 1..(a + b)
  <2>1. v \in Seq(X) /\ Len(v) = a + b
    BY <1>1, <1>2
  <2> QED
    BY <2>1
<1>4. /\ \A i \in 1..a : i \in 1..(a + b) /\ v[i] = devices[i]
      /\ \A i \in 1..b : a + i \in 1..(a + b) /\ v[a + i] = m[i] /\ ~(a + i <= a) /\ (a + i) - a = i
  BY <1>1, <1>2
<1>5. \A i \in 1..(a + b) : (i <= a /\ i \in 1..a)
                            \/ (~(i <= a) /\ i - a \in 1..b /\ a + (i - a) = i)
  BY <1>1
<1>6. PICK isBadge, at : /\ isBadge = [i \in 1..(a + b) |-> IF i <= a THEN TRUE ELSE FALSE]
                         /\ at = [i \in 1..(a + b) |-> IF i <= a THEN from[i] ELSE hubOf[i - a]]
  OBVIOUS
<1>7. /\ \A i \in 1..a : from[i] \in Paths /\ IsBadgeOf(devices[i], from[i])
      /\ \A i, j \in 1..a : from[i] = from[j] => i = j
  BY <1>1 DEF AreBadges
<1>8. /\ \A i \in 1..b : /\ hubOf[i] \in HubsIn(DOMAIN tree) /\ hubOf[i] \in Paths
                         /\ m[i] = Group(hubOf[i]) /\ m[i] # BuildError
      /\ \A i, j \in 1..b : hubOf[i] = hubOf[j] => i = j
      /\ \A h \in HubsIn(DOMAIN tree) : Group(h) # BuildError => \E i \in 1..b : hubOf[i] = h
  <2>1. ASSUME NEW i \in 1..b
        PROVE  /\ hubOf[i] \in HubsIn(DOMAIN tree) /\ hubOf[i] \in Paths
               /\ m[i] = Group(hubOf[i]) /\ m[i] # BuildError
    <3>1. PICK h \in HubsIn(DOMAIN tree) : h = hubOf[i]
      BY <1>1 DEF AreMade
    <3>2. m[i] = g[h] /\ g[h] # BuildError
      BY <1>1, <3>1 DEF AreMade
    <3> QED
      BY <3>1, <3>2
  <2>2. \A i, j \in 1..b : hubOf[i] = hubOf[j] => i = j
    BY <1>1 DEF AreMade
  <2>3. \A h \in HubsIn(DOMAIN tree) : Group(h) # BuildError => \E i \in 1..b : hubOf[i] = h
    BY <1>1 DEF AreMade
  <2> QED
    BY <2>1, <2>2, <2>3
<1>9. /\ \A i \in 1..a : isBadge[i] = TRUE /\ at[i] = from[i]
      /\ \A i \in 1..b : isBadge[a + i] = FALSE /\ at[a + i] = hubOf[i]
  <2>1. ASSUME NEW i \in 1..a
        PROVE  isBadge[i] = TRUE /\ at[i] = from[i]
    <3>1. i <= a /\ i \in 1..(a + b)
      OBVIOUS
    <3> QED
      BY <1>6, <3>1
  <2>2. ASSUME NEW i \in 1..b
        PROVE  isBadge[a + i] = FALSE /\ at[a + i] = hubOf[i]
    <3>1. PICK k \in 1..(a + b) : k = a + i /\ ~(k <= a) /\ k - a = i
      OBVIOUS
    <3>2. at[k] = hubOf[k - a]
      BY <1>6, <3>1
    <3>3. isBadge[k] = FALSE
      BY <1>6, <3>1
    <3> QED
      BY <3>1, <3>2, <3>3
  <2> QED
    BY <2>1, <2>2
<1>10. isBadge \in [1..(a + b) -> BOOLEAN]
  BY <1>6
<1>11. at \in [1..(a + b) -> Paths]
  <2>1. ASSUME NEW i \in 1..(a + b)
        PROVE  (IF i <= a THEN from[i] ELSE hubOf[i - a]) \in Paths
    BY <1>5, <1>7, <1>8
  <2> QED
    BY <1>6, <2>1
<1>12. ASSUME NEW i \in 1..(a + b), NEW j \in 1..(a + b), isBadge[i] = isBadge[j], at[i] = at[j]
       PROVE  i = j
  <2>1. CASE i <= a
    <3>1. i \in 1..a /\ isBadge[i] = TRUE /\ at[i] = from[i]
      BY <1>5, <1>9, <2>1
    <3>2. CASE j <= a
      <4>1. j \in 1..a /\ at[j] = from[j]
        BY <1>5, <1>9, <3>2
      <4> QED
        BY <1>7, <1>12, <3>1, <4>1
    <3>3. CASE ~(j <= a)
      <4>1. PICK l \in 1..b : j = a + l
        BY <1>5, <3>3
      <4>2. isBadge[j] = FALSE
        BY <1>9, <4>1
      <4> QED
        BY <1>12, <3>1, <4>2
    <3> QED
      BY <3>2, <3>3
  <2>2. CASE ~(i <= a)
    <3>1. PICK k \in 1..b : i = a + k /\ isBadge[i] = FALSE /\ at[i] = hubOf[k]
      BY <1>5, <1>9, <2>2
    <3>2. CASE j <= a
      <4>1. isBadge[j] = TRUE
        BY <1>5, <1>9, <3>2
      <4> QED
        BY <1>12, <3>1, <4>1
    <3>3. CASE ~(j <= a)
      <4>1. PICK l \in 1..b : j = a + l /\ at[j] = hubOf[l]
        BY <1>5, <1>9, <3>3
      <4>2. k = l
        BY <1>8, <1>12, <3>1, <4>1
      <4> QED
        BY <3>1, <4>1, <4>2
    <3> QED
      BY <3>2, <3>3
  <2> QED
    BY <2>1, <2>2
<1>13. ASSUME NEW i \in 1..(a + b)
       PROVE  IsReportOf(v[i], isBadge[i], at[i])
  <2>1. CASE i <= a
    <3>1. i \in 1..a /\ isBadge[i] = TRUE /\ at[i] = from[i] /\ v[i] = devices[i]
      BY <1>4, <1>5, <1>9, <2>1
    <3> QED
      BY <1>7, <3>1 DEF IsReportOf
  <2>2. CASE ~(i <= a)
    <3>1. PICK k \in 1..b : i = a + k
      BY <1>5, <2>2
    <3>2. isBadge[i] = FALSE /\ at[i] = hubOf[k] /\ v[i] = m[k]
      BY <1>4, <1>9, <3>1
    <3> QED
      BY <1>8, <3>2 DEF IsReportOf
  <2> QED
    BY <2>1, <2>2
<1>14. ASSUME "standalone" \notin failed,
              NEW p \in DOMAIN tree \ disturbed, AloneIn(p), SaysWhoItIs(p)
       PROVE  \E i \in 1..(a + b) : isBadge[i] /\ at[i] = p
  <2>1. PICK i \in 1..a : from[i] = p
    BY <1>1, <1>14 DEF AreBadges
  <2> QED
    BY <1>4, <1>9, <2>1
<1>15. ASSUME NEW hub \in HubsIn(DOMAIN tree), Group(hub) # BuildError
       PROVE  \E i \in 1..(a + b) : ~isBadge[i] /\ at[i] = hub
  <2>1. PICK i \in 1..b : hubOf[i] = hub
    BY <1>8, <1>15
  <2>2. a + i \in 1..(a + b) /\ isBadge[a + i] = FALSE /\ at[a + i] = hub
    BY <1>4, <1>9, <2>1
  <2> QED
    BY <2>2
<1>16. Reports(v, isBadge, at)
  BY <1>3, <1>10, <1>11, <1>12, <1>13, <1>14, <1>15 DEF Reports
<1> QED
  BY <1>2, <1>16
\* What a report says stays as it is while nothing it was made of changes.
LEMMA ReportsStay ==
  ASSUME UNCHANGED <<tree, disks, serialPorts, disturbed, failed>>,
         NEW r, NEW isBadge, NEW at, Reports(r, isBadge, at)
  PROVE  Reports(r, isBadge, at)'
<1>1. \A p : (AloneIn(p) <=> AloneIn(p)') /\ (SaysWhoItIs(p) <=> SaysWhoItIs(p)')
  BY DEF AloneIn, SaysWhoItIs, OnFreeWiliHub
<1>2. ASSUME NEW hub
      PROVE  Group(hub)' = Group(hub)
  BY DEF Group, GroupList, HubDev, ChildDev, USBDeviceAt, Children, EntriesIn
<1>3. HubsIn(DOMAIN tree)' = HubsIn(DOMAIN tree)
  BY DEF HubsIn
<1>4. ASSUME NEW d, NEW p, IsBadgeOf(d, p)
      PROVE  IsBadgeOf(d, p)'
  <2>1. AloneIn(p) => AloneIn(p)' /\ tree'[p] = tree[p]
    BY <1>1
  <2> QED
    BY <1>4, <2>1, BadgeStays
<1>5. ASSUME NEW i \in DOMAIN r
      PROVE  IsReportOf(r[i], isBadge[i], at[i])'
  <2>1. PICK d, b, p : d = r[i] /\ b = isBadge[i] /\ p = at[i]
    OBVIOUS
  <2>2. IsReportOf(d, b, p)
    BY <2>1 DEF Reports
  <2>3. IsReportOf(d, b, p)'
    BY <1>2, <1>3, <1>4, <2>2 DEF IsReportOf
  <2> QED
    BY <2>1, <2>3
<1> QED
  BY <1>1, <1>2, <1>3, <1>5 DEF Reports

LEMMA HubsAreMade ==
  ASSUME TreeInv, DisksInv, PortsInv
  PROVE  LET hubs == HubsIn(DOMAIN tree)
             m == Made(hubs, FreeWiliAt)
         IN  \E g, X, hubOf : /\ m \in Seq(X) /\ AreMade(hubOf, m, hubs, g)
                              /\ \A h \in hubs : g[h] = Group(h)
<1> DEFINE hubs == HubsIn(DOMAIN tree)
           list == Enumerated(hubs)
           g == [h \in hubs |-> Group(h)]
           X == {g[h] : h \in hubs}
<1>1. IsFiniteSet(hubs)
  <2>1. hubs \subseteq DOMAIN tree
    BY DEF HubsIn
  <2> QED
    BY <2>1, FS_Subset DEF TreeInv
<1>2. \A h : FreeWiliAt(h) = Group(h)
  BY GroupAt DEF DisksInv, PortsInv
<1>3. PICK m : m = Made(hubs, FreeWiliAt)
  OBVIOUS
<1>4. m = Erase([i \in DOMAIN list |-> FreeWiliAt(list[i])], {BuildError})
  BY <1>3 DEF Made
<1>5. \A i \in DOMAIN list : list[i] \in hubs
  <2>1. IsListing(list, hubs)
    BY <1>1, EnumeratedLists
  <2>2. list \in Seq(hubs)
    BY <2>1 DEF IsListing
  <2> QED
    BY <2>2
<1>6. [i \in DOMAIN list |-> FreeWiliAt(list[i])] = [i \in DOMAIN list |-> g[list[i]]]
  BY <1>2, <1>5
<1>7. \A h \in hubs : g[h] = Group(h) /\ g[h] \in X
  OBVIOUS
<1>8. PICK l, v : l = list /\ v = [i \in DOMAIN l |-> g[l[i]]]
  OBVIOUS
<1>9. IsMapped(v, g, l) /\ m = Erase(v, {BuildError})
  BY <1>4, <1>6, <1>8 DEF IsMapped
<1>10. IsListing(l, hubs)
  BY <1>1, <1>8, EnumeratedLists
<1> HIDE DEF hubs, list, g, X
<1>11. m \in Seq(X) /\ \E hubOf : AreMade(hubOf, m, hubs, g)
  BY <1>7, <1>9, <1>10, MadeFrom
<1> QED
  BY <1>3, <1>7, <1>11 DEF hubs

LEMMA SeqsTogether ==
  ASSUME NEW X, NEW Y, NEW v \in Seq(X), NEW w \in Seq(Y)
  PROVE  v \in Seq(X \cup Y) /\ w \in Seq(X \cup Y) /\ v \o w \in Seq(X \cup Y)
<1>1. v \in [1..Len(v) -> X \cup Y] /\ w \in [1..Len(w) -> X \cup Y]
  OBVIOUS
<1>2. v \in Seq(X \cup Y) /\ w \in Seq(X \cup Y)
  BY <1>1
<1> QED
  BY <1>2

LEMMA ResultIsMade ==
  ASSUME TreeInv, DisksInv, PortsInv, DevicesInv, pc = "_find_all_freewili",
         NEW r, r = SortByUniqueID(devices \o Made(HubsIn(DOMAIN tree), FreeWiliAt))
  PROVE  \E isBadge, at : Reports(r, isBadge, at)
<1>1. PICK from, Y : AreBadges(from) /\ Y = ToSet(devices) /\ devices \in Seq(Y)
  BY DEF DevicesInv
<1>2. PICK m : m = Made(HubsIn(DOMAIN tree), FreeWiliAt)
  OBVIOUS
<1>3. PICK g, X, hubOf : /\ m \in Seq(X) /\ AreMade(hubOf, m, HubsIn(DOMAIN tree), g)
                         /\ \A h \in HubsIn(DOMAIN tree) : g[h] = Group(h)
  BY <1>2, HubsAreMade
<1>4. PICK Z : Z = Y \cup X /\ devices \in Seq(Z) /\ m \in Seq(Z) /\ devices \o m \in Seq(Z)
  BY <1>1, <1>3, SeqsTogether
<1>5. BadgesFound /\ HubsIn(DOMAIN tree) \subseteq Paths
  BY DEF BadgesFound, HubsIn, TreeInv
<1>6. PICK v : v = devices \o m
  OBVIOUS
<1>7. PICK isBadge, at : Reports(v, isBadge, at)
  BY <1>1, <1>3, <1>4, <1>5, <1>6, ReportsJoined
<1>8. PICK n \in Nat : n = Len(v) /\ DOMAIN v = 1..n /\ v \in Seq(Z)
  BY <1>4, <1>6
<1>9. r = SortByUniqueID(v)
  BY <1>2, <1>6
<1>10. r \in Seq(Z) /\ IsReordering(r, v, n)
  BY <1>8, <1>9, IDSortReorders
<1>11. DOMAIN r = 1..n
  BY <1>10 DEF IsReordering
<1> QED
  BY <1>7, <1>8, <1>10, <1>11, ReportsReordered

LEMMA ResultStays ==
  ASSUME TreeInv, DisksInv, PortsInv, DevicesInv, ResultInv, [Next]_vars
  PROVE  ResultInv'
<1>1. ASSUME NEW paths, Changed(paths)
      PROVE  ResultInv'
  <2>1. CASE pc = "idle"
    BY <1>1, <2>1 DEF Changed, ResultInv
  <2>2. CASE pc # "idle"
    BY <1>1, <2>2 DEF Changed, ResultInv, scanVars
  <2> QED
    BY <2>1, <2>2
<1>2. CASE (\E slot \in desk : Plug(slot)) \/ (\E path \in DOMAIN tree : Unplug(path))
  BY <1>1, <1>2, HotPlug
<1>3. CASE ListDisks
  BY <1>3 DEF ListDisks, ResultInv
<1>4. CASE ListSerialPorts \/ FindStandalone
  <2>1. pc # "idle" /\ result' = result
    BY <1>4, LaterWalks
  <2> QED
    BY <2>1 DEF ResultInv
<1>5. CASE FindFreeWilis
  <2>1. /\ pc = "_find_all_freewili" /\ pc' = "idle"
        /\ UNCHANGED <<tree, disks, serialPorts, disturbed>>
    BY <1>5, LaterWalks
  <2>2. CASE result' = ScanError
    BY <2>2 DEF ResultInv
  <2>3. CASE /\ result' = SortByUniqueID(devices \o Made(HubsIn(DOMAIN tree), FreeWiliAt))
             /\ failed' = failed
    <3>1. PICK r : r = result'
      OBVIOUS
    <3>2. PICK isBadge, at : Reports(r, isBadge, at)
      BY <2>1, <2>3, <3>1, ResultIsMade
    <3>3. Reports(r, isBadge, at)'
      BY <2>1, <2>3, <3>2, ReportsStay
    <3>4. Reports(result, isBadge, at)'
      BY <3>1, <3>3
    <3> QED
      BY <2>1, <3>4 DEF ResultInv
  <2> QED
    BY <1>5, <2>2, <2>3 DEF FindFreeWilis, HubsIn
<1>6. CASE UNCHANGED vars
  <2>1. CASE result \in {NoResult, ScanError}
    BY <1>6, <2>1 DEF vars, ResultInv
  <2>2. CASE pc = "idle" /\ \E isBadge, at : Reports(result, isBadge, at)
    <3>1. PICK r : r = result /\ r = result'
      BY <1>6 DEF vars
    <3>2. PICK isBadge, at : Reports(r, isBadge, at)
      BY <2>2, <3>1
    <3>3. Reports(r, isBadge, at)'
      BY <1>6, <3>2, ReportsStay DEF vars
    <3>4. Reports(result, isBadge, at)'
      BY <3>1, <3>3
    <3> QED
      BY <1>6, <2>2, <3>4 DEF vars, ResultInv
  <2> QED
    BY <2>1, <2>2 DEF ResultInv
<1> QED
  BY <1>2, <1>3, <1>4, <1>5, <1>6 DEF Next

-----------------------------------------------------------------------------
(* The inductive invariant. *)

IInv == TreeInv /\ DisturbedInv /\ PhaseInv /\ DisksInv /\ PortsInv /\ DevicesInv /\ ResultInv

LEMMA InitHolds == Init => IInv
<1> SUFFICES ASSUME Init PROVE IInv
  OBVIOUS
<1>1. /\ desk \in Desks /\ DOMAIN tree = {<<1>>} /\ tree[<<1>>] = RootHub
      /\ pc = "idle" /\ result = NoResult /\ disturbed = {} /\ failed = {}
      /\ disks = <<>> /\ serialPorts = <<>> /\ devices = <<>>
  BY DEF Init
<1>2. RootHub.prod = "ForeignHub" /\ RootHub.tty = 0 /\ RootHub.disk = 0
  BY DEF RootHub
<1>3. Closed
  <2>1. PICK root : root = <<1>>
    OBVIOUS
  <2> SUFFICES ASSUME NEW a \in PathSeq, Len(a) > 0, IsPrefix(a, root)
               PROVE  a = root
    BY <1>1, <2>1 DEF Closed
  <2>2. root \in Seq(1..99)
    <3>1. 1 \in 1..99
      OBVIOUS
    <3> QED
      BY <2>1, <3>1
  <2>3. Len(root) = 1
    BY <2>1
  <2>4. a \in Seq(1..99) /\ IsPrefix(a, root)
    BY <2>1 DEF PathSeq
  <2>5. PICK n \in Nat : n = Len(a)
    BY <2>4
  <2>6. n <= Len(root) /\ \A i \in 1..n : a[i] = root[i]
    BY <2>2, <2>4, <2>5, PrefixElements
  <2>7. n = Len(root)
    BY <2>3, <2>5, <2>6
  <2> QED
    BY <2>2, <2>4, <2>5, <2>6, <2>7, SameSequence
<1>4. TreeInv
  <2>1. IsFiniteSet({<<1>>})
    BY FS_Singleton
  <2>2. <<1>> \in Paths
    BY DEF Paths
  <2> QED
    BY <1>1, <1>2, <1>3, <2>1, <2>2 DEF TreeInv
<1>5. DisturbedInv /\ PhaseInv /\ ResultInv
  BY <1>1 DEF DisturbedInv, PhaseInv, Phases, Walks, ResultInv
<1>6. /\ disks \in Seq(Info) /\ DOMAIN disks = {}
      /\ serialPorts \in Seq(Info) /\ DOMAIN serialPorts = {}
      /\ devices \in Seq(ToSet(devices)) /\ DOMAIN devices = {}
  BY <1>1, EmptyList
<1>7. DisksInv /\ PortsInv
  BY <1>1, <1>6 DEF DisksInv, PortsInv, SaysTheTruth, Scanning
<1>8. DevicesInv
  <2>1. PICK none : none = [i \in {} |-> <<>>]
    OBVIOUS
  <2>2. AreBadges(none)
    BY <1>1, <1>6, <2>1 DEF AreBadges, BadgesFound
  <2> QED
    BY <1>1, <1>6, <2>2 DEF DevicesInv, BeforeBadges
<1> QED
  BY <1>4, <1>5, <1>7, <1>8 DEF IInv

LEMMA StepHolds == IInv /\ [Next]_vars => IInv'
<1> SUFFICES ASSUME IInv, [Next]_vars PROVE IInv'
  OBVIOUS
<1>1. /\ TreeInv /\ DisturbedInv /\ PhaseInv /\ DisksInv /\ PortsInv
      /\ DevicesInv /\ ResultInv
  BY DEF IInv
<1>2. TreeInv' /\ DisturbedInv' /\ PhaseInv'
  BY <1>1, TreeStays, DisturbedStays, PhaseStays
<1>3. DisksInv' /\ PortsInv'
  BY <1>1, DisksStay, PortsStay
<1>4. DevicesInv' /\ ResultInv'
  BY <1>1, DevicesStay, ResultStays
<1> QED
  BY <1>2, <1>3, <1>4 DEF IInv

LEMMA Invariance == Spec => []IInv
BY InitHolds, StepHolds, PTL DEF Spec
-----------------------------------------------------------------------------
(* The types. *)

(* Every value the four walks and the hot-plug events produce is one the     *)
(* program can have: listings of real places with a device node, standalone  *)
(* devices with their one USB device, and results whose every entry has a    *)
(* type the library knows (fwfinder_linux.cpp:545-567).                      *)
THEOREM LinuxTypes == Spec => []TypeOK
<1>1. IInv => TypeOK
  <2> SUFFICES ASSUME IInv PROVE TypeOK
    OBVIOUS
  <2>1. TreeInv /\ DisturbedInv /\ PhaseInv /\ DisksInv /\ PortsInv /\ DevicesInv /\ ResultInv
    BY DEF IInv
  <2>0. PICK root : root = <<1>>
    OBVIOUS
  <2>2. ASSUME NEW p \in DOMAIN tree, p # root
        PROVE  Front(p) \in DOMAIN tree /\ IsHub(tree[Front(p)].prod)
    <3>1. p \in PathSeq /\ Len(p) \in Nat /\ Len(p) > 0 /\ Len(p) # 1
      BY <2>0, <2>1, <2>2, PathsAre DEF TreeInv
    <3>2. PICK f : f = Front(p)
      OBVIOUS
    <3>3. f \in PathSeq /\ Len(f) = Len(p) - 1
      BY <3>1, <3>2, FrontElements DEF PathSeq
    <3>4. IsPrefix(f, p) /\ f # p
      BY <3>1, <3>2, FrontIsPrefix DEF PathSeq
    <3>5. Len(f) > 0
      BY <3>1, <3>3
    <3> QED
      BY <2>1, <3>2, <3>3, <3>4, <3>5 DEF TreeInv, Closed
  <2>3. ASSUME NEW i \in DOMAIN devices
        PROVE  devices[i].standalone /\ devices[i].usbDevices # <<>>
    <3>1. PICK from : AreBadges(from)
      BY <2>1 DEF DevicesInv
    <3>2. IsBadgeOf(devices[i], from[i])
      BY <3>1 DEF AreBadges
    <3>3. PICK dev : devices[i].usbDevices = <<dev>>
      BY <3>2 DEF IsBadgeOf
    <3> QED
      BY <3>2, <3>3 DEF IsBadgeOf
  <2>4. ASSUME result \notin {NoResult, ScanError}, NEW i \in DOMAIN result
        PROVE  result[i].deviceType \in DeviceType
    <3>1. PICK isBadge, at : Reports(result, isBadge, at)
      BY <2>1, <2>4 DEF ResultInv
    <3>2. PICK d, p : d = result[i] /\ (IsBadgeOf(d, p) \/ (d = Group(p) /\ d # BuildError))
      BY <2>4, <3>1 DEF Reports, IsReportOf
    <3>3. CASE IsBadgeOf(d, p)
      BY <3>2, <3>3 DEF IsBadgeOf
    <3>4. CASE d = Group(p) /\ d # BuildError
      BY <3>2, <3>4, MadeType DEF Group
    <3> QED
      BY <3>2, <3>3, <3>4
  <2>5. desk \in Desks /\ DOMAIN tree \subseteq Paths
    BY <2>1 DEF TreeInv
  <2>6. disks \in Seq(Info) /\ serialPorts \in Seq(Info) /\ disturbed \subseteq Paths
    BY <2>1 DEF DisksInv, PortsInv, DisturbedInv
  <2>7. pc \in Phases /\ failed \subseteq Walks
    BY <2>1 DEF PhaseInv
  <2> QED
    BY <2>0, <2>2, <2>3, <2>4, <2>5, <2>6, <2>7 DEF TypeOK, Walks
<1> QED
  BY <1>1, Invariance, PTL

-----------------------------------------------------------------------------
(* What the group of a hub is made of. *)

\* list has the child of each place but the last, whose device is the hub.
IsGroupList(list, hub, l, n) ==
  /\ list \in Seq(ToSet(list)) /\ Len(list) = n + 1 /\ DOMAIN list = 1..(n + 1)
  /\ \A i \in 1..n : l[i] \in Children(hub) /\ list[i] = ChildDev(l[i])
  /\ list[n + 1] = HubDev(hub)
  /\ \A p \in Children(hub) : \E i \in 1..n : l[i] = p
  /\ \A i, j \in 1..n : l[i] = l[j] => i = j

LEMMA GroupListIs ==
  ASSUME TreeInv, NEW hub
  PROVE  /\ IsFiniteSet(Children(hub)) /\ Cardinality(Children(hub)) \in Nat
         /\ \E l : IsGroupList(GroupList(hub), hub, l, Cardinality(Children(hub)))
<1> DEFINE C == Children(hub)
<1>1. IsFiniteSet(C)
  <2>1. C \subseteq DOMAIN tree
    BY DEF Children
  <2> QED
    BY <2>1, FS_Subset DEF TreeInv
<1> HIDE DEF C
<1>2. PICK l : l = Enumerated(C) /\ IsListing(l, C)
  BY <1>1, EnumeratedLists
<1>3. PICK n \in Nat : n = Len(l) /\ DOMAIN l = 1..n /\ l \in [1..n -> C]
  <2>1. l \in Seq(C)
    BY <1>2 DEF IsListing
  <2> QED
    BY <2>1
<1>4. /\ \A i, j \in 1..n : l[i] = l[j] => i = j
      /\ \A p \in C : \E i \in 1..n : l[i] = p
  BY <1>2, <1>3 DEF IsListing
<1>5. Cardinality(C) = n
  <2>1. l \in Bijection(1..n, C)
    BY <1>3, <1>4 DEF Bijection, Injection, Surjection, IsInjective
  <2>2. IsFiniteSet(1..n) /\ Cardinality(1..n) = n
    <3>1. /\ IsFiniteSet(1..n)
          /\ Cardinality(1..n) = IF 1 > n THEN 0 ELSE n - 1 + 1
      BY FS_Interval
    <3> QED
      BY <3>1
  <2> QED
    BY <2>1, <2>2, FS_Bijection DEF ExistsBijection
<1>6. PICK c : c = [i \in 1..n |-> ChildDev(l[i])]
  OBVIOUS
<1>7. PICK S : S = {ChildDev(l[i]) : i \in 1..n} \cup {HubDev(hub)}
  OBVIOUS
<1>8. c \in Seq(S) /\ Len(c) = n
  <2>1. c \in [1..n -> S]
    BY <1>6, <1>7
  <2> QED
    BY <2>1
<1>9. PICK list : list = Append(c, HubDev(hub))
  OBVIOUS
<1>10. list = GroupList(hub)
  BY <1>2, <1>3, <1>6, <1>9 DEF GroupList, C
<1>11. PICK h \in S : h = HubDev(hub)
  BY <1>7
<1>12. /\ list \in Seq(S) /\ Len(list) = n + 1 /\ DOMAIN list = 1..(n + 1)
       /\ (\A i \in 1..n : list[i] = c[i]) /\ list[n + 1] = h
  <2>1. list = Append(c, h)
    BY <1>9, <1>11
  <2> QED
    BY <1>8, <2>1
<1>13. list \in Seq(ToSet(list))
  BY <1>12, SeqOfItself
<1>14. \A i \in 1..n : l[i] \in C /\ list[i] = ChildDev(l[i])
  BY <1>3, <1>6, <1>12
<1>15. IsGroupList(list, hub, l, n)
  BY <1>4, <1>11, <1>12, <1>13, <1>14 DEF IsGroupList, C
<1> QED
  BY <1>1, <1>5, <1>10, <1>15 DEF C
-----------------------------------------------------------------------------
(* While no port needs a second digit, text and path are the same thing.     *)

\* No device hangs on a tenth port.  A root hub may have one: the run linux_wide
\* shows what contains() makes of it.
OneDigitPorts == Paths \subseteq Seq(1..9)

LEMMA TextIsPath ==
  ASSUME NEW path \in Seq(1..9), NEW part \in Seq(1..9), Len(part) > 0
  PROVE  TextContains(path, part) <=> IsPrefix(part, path)
<1>1. PICK m \in Nat, n \in Nat : m = Len(part) /\ n = Len(path) /\ m > 0
  OBVIOUS
<1>2. CASE ~(m <= n)
  BY <1>1, <1>2, PrefixElements DEF TextContains
<1>3. CASE m <= n
  <2>1. PICK a \in 1..9, b \in 1..9 : a = path[m] /\ b = part[m]
    BY <1>1, <1>3
  <2>2. TextExtends(a, b) <=> a = b
    <3>1. a \div 10 = 0 /\ a \div 100 = 0 /\ b # 0
      OBVIOUS
    <3> QED
      BY <3>1 DEF TextExtends
  <2>3. PICK f : f = Front(part)
    OBVIOUS
  <2>4. f \in Seq(1..9) /\ Len(f) = m - 1 /\ \A i \in 1..(m - 1) : f[i] = part[i]
    BY <1>1, <2>3, FrontElements
  <2>5. PICK u : u = SubSeq(path, 1, m - 1)
    OBVIOUS
  <2>6. u \in Seq(1..9) /\ Len(u) = m - 1 /\ \A i \in 1..(m - 1) : u[i] = path[i]
    BY <1>1, <1>3, <2>5
  <2>7. f = u <=> \A i \in 1..(m - 1) : part[i] = path[i]
    <3>1. ASSUME \A i \in 1..(m - 1) : part[i] = path[i]
          PROVE  f = u
      BY <2>4, <2>6, <3>1, SameSequence
    <3>2. ASSUME f = u, NEW i \in 1..(m - 1)
          PROVE  part[i] = path[i]
      BY <2>4, <2>6, <3>2
    <3> QED
      BY <3>1, <3>2
  <2>8. Last(part) = b
    BY <1>1, <2>1 DEF Last
  <2>9. TextContains(path, part) <=> f = u /\ a = b
    BY <1>1, <1>3, <2>1, <2>2, <2>3, <2>5, <2>8 DEF TextContains
  <2>10. (\A i \in 1..m : part[i] = path[i])
           <=> (\A i \in 1..(m - 1) : part[i] = path[i]) /\ part[m] = path[m]
    <3>1. \A i \in 1..m : i \in 1..(m - 1) \/ i = m
      BY <1>1
    <3>2. m \in 1..m /\ \A i \in 1..(m - 1) : i \in 1..m
      BY <1>1
    <3> QED
      BY <3>1, <3>2
  <2> QED
    BY <1>1, <1>3, <2>1, <2>7, <2>9, <2>10, PrefixElements
<1> QED
  BY <1>2, <1>3

LEMMA PathIsText ==
  ASSUME OneDigitPorts, NEW p \in Paths
  PROVE  /\ p \in Seq(1..9) /\ p \in PathSeq /\ Len(p) \in Nat /\ Len(p) > 0
         /\ IsPrefix(p, p)
<1>1. p \in Seq(1..9)
  BY DEF OneDigitPorts
<1>2. IsPrefix(p, p)
  BY <1>1, PrefixReflexive
<1> QED
  BY <1>1, <1>2, PathsAre

\* The children of a hub are what is below it.
LEMMA ChildrenAre ==
  ASSUME OneDigitPorts, TreeInv, NEW hub \in DOMAIN tree
  PROVE  /\ Subtree(hub) = Children(hub) \cup {hub} /\ hub \notin Children(hub)
         /\ \A p \in Children(hub) : p \in DOMAIN tree /\ IsPrefix(hub, p) /\ p # hub
<1>1. DOMAIN tree \subseteq Paths
  BY DEF TreeInv
<1>2. ASSUME NEW p \in DOMAIN tree
      PROVE  p \in Children(hub) <=> IsPrefix(hub, p) /\ p # hub
  <2>1. p \in Seq(1..9) /\ hub \in Seq(1..9) /\ Len(p) > 0 /\ Len(hub) > 0
    BY <1>1, PathIsText
  <2>2. PICK m \in Nat, n \in Nat : m = Len(hub) /\ n = Len(p)
    BY <2>1
  <2>3. PICK f : f = Front(p)
    OBVIOUS
  <2>4. f \in Seq(1..9) /\ Len(f) = n - 1 /\ IsPrefix(f, p)
    BY <2>1, <2>2, <2>3, FrontElements, FrontIsPrefix
  <2>5. TextContains(f, hub) <=> IsPrefix(hub, f)
    BY <2>1, <2>4, TextIsPath
  <2>6. ASSUME IsPrefix(hub, f)
        PROVE  IsPrefix(hub, p) /\ p # hub
    <3>1. IsPrefix(hub, p)
      BY <2>1, <2>4, <2>6, PrefixTransitive
    <3>2. m <= n - 1
      BY <2>1, <2>2, <2>4, <2>6, PrefixElements
    <3> QED
      BY <2>2, <3>1, <3>2
  <2>7. ASSUME IsPrefix(hub, p), p # hub
        PROVE  n > 1 /\ IsPrefix(hub, f)
    <3>1. IsPrefix(hub, f)
      BY <2>1, <2>3, <2>7, StrictPrefixOfFront
    <3>2. m <= n - 1
      BY <2>1, <2>2, <2>4, <3>1, PrefixElements
    <3> QED
      BY <2>1, <2>2, <3>1, <3>2
  <2> QED
    BY <2>2, <2>3, <2>5, <2>6, <2>7 DEF Children
<1>3. IsPrefix(hub, hub)
  BY <1>1, PathIsText
<1>4. Children(hub) \subseteq DOMAIN tree
  BY DEF Children
<1> QED
  BY <1>2, <1>3, <1>4 DEF Subtree

HubsHaveNone(number) == \A q \in DOMAIN tree : IsHub(tree[q].prod) => number[q] = 0

LEMMA NumbersOfHubs ==
  ASSUME TreeInv
  PROVE  HubsHaveNone(TtyAt) /\ HubsHaveNone(DiskAt)
BY DEF TreeInv, HubsHaveNone, TtyAt, DiskAt

\* An entry whose path a device's contains is the device's own, or of a place above
\* it that was something else when it was listed.
LEMMA EntryFor ==
  ASSUME OneDigitPorts, TreeInv, NEW list \in Seq(Info), NEW number,
         SaysTheTruth(list, number), HubsHaveNone(number),
         NEW p \in DOMAIN tree, NEW i \in EntriesIn(list, p)
  PROVE  /\ i \in DOMAIN list /\ IsPrefix(list[i].devPath, p)
         /\ list[i].devPath = p \/ list[i].devPath \in disturbed
<1>1. i \in DOMAIN list /\ TextContains(p, list[i].devPath)
  BY DEF EntriesIn
<1>2. PICK info \in Info : info = list[i]
  BY <1>1
<1>3. PICK a \in Paths : a = info.devPath /\ info.name # 0
  BY <1>2 DEF Info
<1>4. p \in Paths
  BY DEF TreeInv
<1>5. a \in Seq(1..9) /\ a \in PathSeq /\ Len(a) > 0 /\ p \in Seq(1..9)
  BY <1>4, PathIsText
<1>6. IsPrefix(a, p)
  BY <1>1, <1>2, <1>3, <1>5, TextIsPath
<1>7. a \in disturbed \/ (a \in DOMAIN tree /\ number[a] = info.name)
  BY <1>1, <1>2, <1>3 DEF SaysTheTruth
<1>8. a # p => IsHub(tree[a].prod)
  BY <1>5, <1>6 DEF TreeInv, Closed
<1>9. a = p \/ a \in disturbed
  BY <1>3, <1>7, <1>8 DEF HubsHaveNone
<1> QED
  BY <1>1, <1>2, <1>3, <1>6, <1>9
-----------------------------------------------------------------------------
(* The group of a hub: its USB devices and the place it is named for. *)

LEMMA GroupDevices ==
  ASSUME TreeInv, NEW hub, Group(hub) # BuildError
  PROVE  /\ ToSet(Group(hub).usbDevices) = {ChildDev(p) : p \in Children(hub)} \cup {HubDev(hub)}
         /\ Len(Group(hub).usbDevices) = Cardinality(Children(hub)) + 1
<1>1. PICK n \in Nat : n = Cardinality(Children(hub))
  BY GroupListIs
<1>2. PICK list : list = GroupList(hub)
  OBVIOUS
<1>3. PICK l : IsGroupList(list, hub, l, n)
  BY <1>1, <1>2, GroupListIs
<1>4. PICK d : d = Group(hub)
  OBVIOUS
<1>5. PICK S : S = ToSet(list) /\ list \in Seq(S)
  BY <1>3 DEF IsGroupList
<1>6. IsMadeOf(d, list)
  BY <1>2, <1>4, <1>5, MadeOf DEF Group
<1>7. Len(d.usbDevices) = Len(list) /\ ToSet(d.usbDevices) = ToSet(list)
  <2>1. CASE d.usbDevices = list
    BY <2>1
  <2>2. CASE d.usbDevices = SortUSBDevices(list)
    <3>1. PICK r : r = SortUSBDevices(list)
      OBVIOUS
    <3>2. r \in Seq(S) /\ IsReordering(r, list, Len(list))
      BY <1>5, <3>1, DeviceSortReorders
    <3> QED
      BY <1>5, <2>2, <3>1, <3>2, SameElements
  <2> QED
    BY <1>6, <2>1, <2>2 DEF IsMadeOf
<1>8. ToSet(list) = {ChildDev(p) : p \in Children(hub)} \cup {HubDev(hub)}
  <2>1. ToSet(list) = {list[i] : i \in 1..(n + 1)}
    BY <1>3 DEF IsGroupList, ToSet
  <2>2. \A i \in 1..(n + 1) : i \in 1..n \/ i = n + 1
    OBVIOUS
  <2>3. n + 1 \in 1..(n + 1) /\ \A i \in 1..n : i \in 1..(n + 1)
    OBVIOUS
  <2>4. ASSUME NEW p \in Children(hub)
        PROVE  ChildDev(p) \in ToSet(list)
    <3>1. PICK i \in 1..n : l[i] = p
      BY <1>3 DEF IsGroupList
    <3>2. list[i] = ChildDev(p)
      BY <1>3, <3>1 DEF IsGroupList
    <3> QED
      BY <2>1, <2>3, <3>2
  <2>5. HubDev(hub) \in ToSet(list)
    BY <1>3, <2>1, <2>3 DEF IsGroupList
  <2>6. ASSUME NEW i \in 1..(n + 1)
        PROVE  list[i] \in {ChildDev(p) : p \in Children(hub)} \cup {HubDev(hub)}
    BY <1>3, <2>2 DEF IsGroupList
  <2> QED
    BY <2>1, <2>4, <2>5, <2>6
<1>9. Len(list) = n + 1
  BY <1>3 DEF IsGroupList
<1> QED
  BY <1>1, <1>4, <1>7, <1>8, <1>9

\* Each device of a group is at a place of the subtree.
PlaceIn(hub, l, n, k) == IF k = n + 1 THEN hub ELSE l[k]

LEMMA GroupPlaces ==
  ASSUME OneDigitPorts, TreeInv, NEW hub \in DOMAIN tree, NEW n \in Nat, NEW l, NEW list,
         IsGroupList(list, hub, l, n), NEW k \in DOMAIN list
  PROVE  /\ PlaceIn(hub, l, n, k) \in Subtree(hub)
         /\ list[k].portChain = PlaceIn(hub, l, n, k)
         /\ list[k].prod = tree[PlaceIn(hub, l, n, k)].prod
         /\ list[k].kind = getUSBDeviceTypeFrom(tree[PlaceIn(hub, l, n, k)].prod,
                                                Last(PlaceIn(hub, l, n, k)))
<1>1. Subtree(hub) = Children(hub) \cup {hub}
  BY ChildrenAre
<1>2. k \in 1..n \/ k = n + 1
  BY DEF IsGroupList
<1>3. CASE k = n + 1
  <2>1. list[k] = HubDev(hub)
    BY <1>3 DEF IsGroupList
  <2> QED
    BY <1>1, <1>3, <2>1 DEF PlaceIn, HubDev, USBDeviceAt
<1>4. CASE k \in 1..n /\ k # n + 1
  <2>1. list[k] = ChildDev(l[k]) /\ l[k] \in Children(hub)
    BY <1>4 DEF IsGroupList
  <2> QED
    BY <1>1, <1>4, <2>1 DEF PlaceIn, ChildDev, USBDeviceAt
<1>5. n + 1 \notin 1..n
  OBVIOUS
<1> QED
  BY <1>2, <1>3, <1>4, <1>5

LEMMA GroupPlace ==
  ASSUME OneDigitPorts, TreeInv, NEW hub \in HubsIn(DOMAIN tree), Group(hub) # BuildError
  PROVE  \E p \in Subtree(hub) : Group(hub).uniqueID = UniqueID(p)
<1>1. PICK n \in Nat : n = Cardinality(Children(hub))
  BY GroupListIs
<1>2. PICK list : list = GroupList(hub)
  OBVIOUS
<1>3. PICK l : IsGroupList(list, hub, l, n)
  BY <1>1, <1>2, GroupListIs
<1>4. PICK d : d = Group(hub)
  OBVIOUS
<1>5. PICK S : S = ToSet(list) /\ list \in Seq(S)
  BY <1>3 DEF IsGroupList
<1>6. IsMadeOf(d, list)
  BY <1>2, <1>4, <1>5, MadeOf DEF Group
<1>7. hub \in DOMAIN tree /\ is_freewili_hub(tree[hub].prod)
  BY DEF HubsIn
<1>8. ASSUME NEW k \in DOMAIN list
      PROVE  \E p \in Subtree(hub) : list[k].portChain = p
  BY <1>3, <1>7, GroupPlaces
<1>9. \E k \in DOMAIN list : d.uniqueID = UniqueID(list[k].portChain)
  <2>1. CASE \E k \in DOMAIN list : d.uniqueID = UniqueID(list[k].portChain)
    BY <2>1
  <2>2. CASE d.uniqueID = HubID(list)
    <3>1. n + 1 \in DOMAIN list /\ list[n + 1] = HubDev(hub)
      BY <1>3 DEF IsGroupList
    <3>2. list[n + 1].kind = "Hub"
      BY <1>7, <3>1, HubKind DEF HubDev, USBDeviceAt
    <3>3. PICK k : k = FirstOfKind(list, "Hub")
      OBVIOUS
    <3>4. \/ k = 0 /\ \A i \in DOMAIN list : list[i].kind # "Hub"
          \/ k # 0 /\ k \in DOMAIN list
      BY ONLY <1>5, <3>3, FirstOfKindIs
    <3>5. k # 0 /\ k \in DOMAIN list
      BY <3>1, <3>2, <3>4
    <3> QED
      BY <2>2, <3>3, <3>5 DEF HubID
  <2> QED
    BY <1>6, <2>1, <2>2 DEF IsMadeOf
<1> QED
  BY <1>4, <1>8, <1>9

-----------------------------------------------------------------------------
(* Ports and mount points stay in place. *)

LEMMA ChildNames ==
  ASSUME OneDigitPorts, TreeInv, NEW list \in Seq(Info), NEW number,
         SaysTheTruth(list, number), HubsHaveNone(number), NEW p \in DOMAIN tree,
         NEW dev, dev.portChain = p,
         NEW name, name = NameOf(list, EntriesIn(list, p)), name # 0
  PROVE  ListedFor(dev, name, list)
<1>1. EntriesIn(list, p) \subseteq 1..Len(list)
  BY DEF EntriesIn
<1>2. PICK i \in EntriesIn(list, p) : name = list[i].name
  BY <1>1, NameOfEntry
<1>3. /\ i \in DOMAIN list /\ IsPrefix(list[i].devPath, p)
      /\ list[i].devPath = p \/ list[i].devPath \in disturbed
  BY EntryFor
<1>4. list[i] \in ToSet(list)
  BY <1>3 DEF ToSet
<1> QED
  BY <1>2, <1>3, <1>4 DEF ListedFor

LEMMA PortsInPlaceNow ==
  ASSUME OneDigitPorts, IInv
  PROVE  PortsStayInPlace
<1>1. TreeInv /\ DisksInv /\ PortsInv /\ ResultInv
  BY DEF IInv
<1>2. /\ serialPorts \in Seq(Info) /\ SaysTheTruth(serialPorts, TtyAt)
      /\ disks \in Seq(Info) /\ SaysTheTruth(disks, DiskAt)
      /\ HubsHaveNone(TtyAt) /\ HubsHaveNone(DiskAt)
  BY <1>1, NumbersOfHubs DEF DisksInv, PortsInv
<1>3. ASSUME NEW d, NEW p, IsBadgeOf(d, p), NEW dev \in ToSet(d.usbDevices)
      PROVE  /\ dev.port # 0 => ListedFor(dev, dev.port, serialPorts)
             /\ dev.paths # 0 => ListedFor(dev, dev.paths, disks)
  <2>1. PICK it : d.usbDevices = <<it>> /\ IsBadgeDev(it, p)
    BY <1>3 DEF IsBadgeOf
  <2>2. dev = it
    BY <1>3, <2>1 DEF ToSet
  <2>3. /\ dev.portChain = p
        /\ IsListed(serialPorts, p, dev.port) /\ IsListed(disks, p, dev.paths)
    BY <2>1, <2>2 DEF IsBadgeDev
  <2> QED
    BY <2>3 DEF IsListed, ListedFor, ToSet
<1>4. ASSUME NEW hub \in HubsIn(DOMAIN tree), Group(hub) # BuildError,
             NEW dev \in ToSet(Group(hub).usbDevices)
      PROVE  /\ dev.port # 0 => ListedFor(dev, dev.port, serialPorts)
             /\ dev.paths # 0 => ListedFor(dev, dev.paths, disks)
  <2>1. dev = HubDev(hub) \/ \E p \in Children(hub) : dev = ChildDev(p)
    BY <1>1, <1>4, GroupDevices
  <2>2. CASE dev = HubDev(hub)
    BY <2>2 DEF HubDev, USBDeviceAt
  <2>3. ASSUME NEW p \in Children(hub), dev = ChildDev(p)
        PROVE  /\ dev.port # 0 => ListedFor(dev, dev.port, serialPorts)
               /\ dev.paths # 0 => ListedFor(dev, dev.paths, disks)
    <3>1. /\ dev.portChain = p
          /\ dev.port = NameOf(serialPorts, EntriesIn(serialPorts, p))
          /\ dev.paths = NameOf(disks, EntriesIn(disks, p))
      BY <2>3 DEF ChildDev, USBDeviceAt
    <3>2. p \in DOMAIN tree
      BY DEF Children
    <3> QED
      BY <1>1, <1>2, <3>1, <3>2, ChildNames
  <2> QED
    BY <2>1, <2>2, <2>3
<1>5. SUFFICES ASSUME Returned, NEW i \in DOMAIN result, NEW dev \in ToSet(result[i].usbDevices)
               PROVE  /\ dev.port # 0 => ListedFor(dev, dev.port, serialPorts)
                      /\ dev.paths # 0 => ListedFor(dev, dev.paths, disks)
  BY DEF PortsStayInPlace
<1>6. PICK isBadge, at : Reports(result, isBadge, at)
  BY <1>1, <1>5 DEF ResultInv, Returned
<1>7. IsReportOf(result[i], isBadge[i], at[i])
  BY <1>6 DEF Reports
<1> QED
  BY <1>3, <1>4, <1>5, <1>7 DEF IsReportOf

(* While no hub port needs a second digit, and whatever is plugged and       *)
(* unplugged between the walks, a serial port or mount point of a report was *)
(* listed for the place of its device or for one above it that changed       *)
(* meanwhile (fwfinder_linux.cpp:335-343, 448-455).                          *)
THEOREM PortsInPlace ==
  ASSUME OneDigitPorts PROVE Spec => []PortsStayInPlace
<1>1. IInv => PortsStayInPlace
  BY PortsInPlaceNow
<1> QED
  BY <1>1, Invariance, PTL
-----------------------------------------------------------------------------
(* One place, one report. *)

\* No place is deeper than the ID's six bits a port reach.
ShallowPlaces == \A p \in Paths : Len(p) <= ExactDepth

LEMMA PlacesByID ==
  ASSUME OneDigitPorts, ShallowPlaces, NEW p \in Paths, NEW q \in Paths,
         UniqueID(p) = UniqueID(q)
  PROVE  p = q
<1>1. p \in Seq(1..9) /\ q \in Seq(1..9)
  BY PathIsText
<1>2. 1..9 \subseteq 1..63
  OBVIOUS
<1>3. p \in Seq(1..63) /\ q \in Seq(1..63)
  BY <1>1, <1>2, SeqOfMore
<1> QED
  BY <1>3, DistinctWords DEF ShallowPlaces

LEMMA HubIsNoBadge ==
  ASSUME NEW prod
  PROVE  ~(is_freewili_hub(prod) /\ isStandAloneDevice(prod)) /\ ~(IsHub(prod) /\ isStandAloneDevice(prod))
BY DEF is_freewili_hub, isStandAloneDevice, IsHub, HubProduct, StandaloneProduct

LEMMA TwoClaims ==
  ASSUME TreeInv, NEW p \in DOMAIN tree, NEW a \in Claims(p), NEW b \in Claims(p), a # b
  PROVE  Cardinality(Claims(p)) > 1
<1>1. Claims(p) \subseteq DOMAIN tree
  BY DEF Claims, HubsIn, StandalonesIn
<1>2. IsFiniteSet(Claims(p))
  BY <1>1, FS_Subset DEF TreeInv
<1>3. Cardinality({a, b}) = 2
  <2>1. IsFiniteSet({a}) /\ Cardinality({a}) = 1
    BY FS_Singleton
  <2>2. {a, b} = {a} \cup {b} /\ b \notin {a}
    OBVIOUS
  <2>3. Cardinality({a} \cup {b}) = Cardinality({a}) + 1
    BY <2>1, <2>2, FS_AddElement
  <2> QED
    BY <2>1, <2>2, <2>3
<1>4. {a, b} \subseteq Claims(p)
  OBVIOUS
<1>5. Cardinality({a, b}) <= Cardinality(Claims(p)) /\ Cardinality(Claims(p)) \in Nat
  BY <1>2, <1>4, FS_Subset, FS_CardinalityType
<1> QED
  BY <1>3, <1>5

\* A report names a place: that of its badge, or one of its hub's subtree.
Names(d, isBadge, at, p) ==
  /\ p \in Paths /\ d.uniqueID = UniqueID(p)
  /\ isBadge => at = p /\ (p \in disturbed \/ AloneIn(p))
  /\ ~isBadge => at \in HubsIn(DOMAIN tree) /\ p \in DOMAIN tree /\ IsPrefix(at, p)

LEMMA EachNamesAPlace ==
  ASSUME OneDigitPorts, TreeInv, NEW d, NEW isBadge \in BOOLEAN, NEW at \in Paths,
         IsReportOf(d, isBadge, at)
  PROVE  \E p : Names(d, isBadge, at, p)
<1>1. CASE isBadge /\ IsBadgeOf(d, at)
  <2>1. at \in disturbed \/ AloneIn(at)
    BY <1>1 DEF IsBadgeOf, IsBadgeDev
  <2>2. d.uniqueID = UniqueID(at)
    BY <1>1 DEF IsBadgeOf
  <2> QED
    BY <1>1, <2>1, <2>2 DEF Names
<1>2. CASE ~isBadge /\ at \in HubsIn(DOMAIN tree) /\ d = Group(at) /\ d # BuildError
  <2>1. PICK p \in Subtree(at) : d.uniqueID = UniqueID(p)
    BY <1>2, GroupPlace
  <2>2. p \in DOMAIN tree /\ IsPrefix(at, p) /\ p \in Paths
    BY <2>1 DEF Subtree, TreeInv
  <2> QED
    BY <1>2, <2>1, <2>2 DEF Names
<1> QED
  BY <1>1, <1>2 DEF IsReportOf

LEMMA OneReportNow ==
  ASSUME OneDigitPorts, ShallowPlaces, IInv
  PROVE  OneReportPerPlace
<1>1. TreeInv /\ ResultInv
  BY DEF IInv
<1>2. SUFFICES ASSUME Returned, NEW i \in DOMAIN result, NEW j \in DOMAIN result,
                      i # j, result[i].uniqueID = result[j].uniqueID
               PROVE  \/ \E p \in disturbed : UniqueID(p) = result[i].uniqueID
                      \/ \E p \in DOMAIN tree : /\ UniqueID(p) = result[i].uniqueID
                                                /\ Cardinality(Claims(p)) > 1
  BY DEF OneReportPerPlace
<1>3. PICK isBadge, at : Reports(result, isBadge, at)
  BY <1>1, <1>2 DEF ResultInv, Returned
<1>4. /\ isBadge[i] \in BOOLEAN /\ at[i] \in Paths /\ IsReportOf(result[i], isBadge[i], at[i])
      /\ isBadge[j] \in BOOLEAN /\ at[j] \in Paths /\ IsReportOf(result[j], isBadge[j], at[j])
      /\ ~(isBadge[i] = isBadge[j] /\ at[i] = at[j])
  BY <1>2, <1>3 DEF Reports
<1>5. PICK a, b, x, y : a = isBadge[i] /\ b = isBadge[j] /\ x = at[i] /\ y = at[j]
  OBVIOUS
<1>6. PICK p : Names(result[i], a, x, p)
  BY <1>1, <1>4, <1>5, EachNamesAPlace
<1>7. PICK q : Names(result[j], b, y, q)
  BY <1>1, <1>4, <1>5, EachNamesAPlace
<1>8. p = q /\ p \in Paths /\ result[i].uniqueID = UniqueID(p)
  <2>1. p \in Paths /\ q \in Paths /\ UniqueID(p) = UniqueID(q)
    BY <1>2, <1>6, <1>7 DEF Names
  <2> QED
    BY <1>6, <2>1, PlacesByID DEF Names
<1>9. CASE p \in disturbed
  BY <1>8, <1>9
<1>10. CASE p \notin disturbed
  <2>1. a \in BOOLEAN /\ b \in BOOLEAN /\ ~(a = b /\ x = y)
    BY <1>4, <1>5
  <2>2. /\ a => x = p /\ AloneIn(p)
        /\ ~a => x \in HubsIn(DOMAIN tree) /\ p \in DOMAIN tree /\ IsPrefix(x, p)
    BY <1>6, <1>10 DEF Names
  <2>3. /\ b => y = p /\ AloneIn(p)
        /\ ~b => y \in HubsIn(DOMAIN tree) /\ p \in DOMAIN tree /\ IsPrefix(y, p)
    BY <1>7, <1>8, <1>10 DEF Names
  <2>4. AloneIn(p) => p \in Claims(p) /\ p \in DOMAIN tree /\ p \notin HubsIn(DOMAIN tree)
    <3>1. SUFFICES ASSUME AloneIn(p)
                   PROVE  p \in Claims(p) /\ p \in DOMAIN tree /\ p \notin HubsIn(DOMAIN tree)
      OBVIOUS
    <3>2. p \in DOMAIN tree /\ isStandAloneDevice(tree[p].prod) /\ ~OnFreeWiliHub(p)
      BY <3>1 DEF AloneIn
    <3>3. p \notin HubsIn(DOMAIN tree)
      BY <3>2, HubIsNoBadge DEF HubsIn
    <3>4. Front(p) \notin HubsIn(DOMAIN tree)
      <4>1. SUFFICES ASSUME Front(p) \in HubsIn(DOMAIN tree) PROVE FALSE
        OBVIOUS
      <4>2. PICK f : f = Front(p)
        OBVIOUS
      <4>3. f \in DOMAIN tree /\ is_freewili_hub(tree[f].prod) /\ f \in Paths
        BY <1>1, <4>1, <4>2 DEF HubsIn, TreeInv
      <4>4. Len(f) \in Nat /\ Len(f) > 0 /\ Len(p) \in Nat /\ Len(p) > 0 /\ p \in PathSeq
        BY <1>8, <4>3, PathIsText
      <4>5. Len(f) = Len(p) - 1
        BY <4>2, <4>4, FrontElements DEF PathSeq
      <4>6. Len(p) > 1
        BY <4>4, <4>5
      <4> QED
        BY <3>2, <4>2, <4>3, <4>6 DEF OnFreeWiliHub
    <3> QED
      BY <3>2, <3>3, <3>4 DEF Claims, StandalonesIn
  <2>5. \A h \in HubsIn(DOMAIN tree) : IsPrefix(h, p) => h \in Claims(p)
    BY DEF Claims
  <2>6. x \in Claims(p) /\ y \in Claims(p) /\ x # y /\ p \in DOMAIN tree
    <3>1. CASE a /\ b
      BY <2>1, <2>2, <2>3, <3>1
    <3>2. CASE a /\ ~b
      BY <2>2, <2>3, <2>4, <2>5, <3>2
    <3>3. CASE ~a /\ b
      BY <2>2, <2>3, <2>4, <2>5, <3>3
    <3>4. CASE ~a /\ ~b
      BY <2>1, <2>2, <2>3, <2>5, <3>4
    <3> QED
      BY <2>1, <3>1, <3>2, <3>3, <3>4
  <2>7. Cardinality(Claims(p)) > 1
    BY <1>1, <2>6, TwoClaims
  <2> QED
    BY <1>8, <2>6, <2>7
<1> QED
  BY <1>9, <1>10

(* While no hub port needs a second digit and no device is deeper than the   *)
(* six bits a port of its ID reach, two reports share an ID only when the    *)
(* place was exchanged between the two walks or two walks claim it           *)
(* (fwfinder_linux.cpp:313-327, 419, fwfinder.cpp:175, 269).                 *)
THEOREM OneReport ==
  ASSUME OneDigitPorts, ShallowPlaces PROVE Spec => []OneReportPerPlace
<1>1. IInv => OneReportPerPlace
  BY OneReportNow
<1> QED
  BY <1>1, Invariance, PTL
-----------------------------------------------------------------------------
(* What stays put is reported. *)

LEMMA KindOfHub ==
  ASSUME NEW prod, NEW location, getUSBDeviceTypeFrom(prod, location) = "Hub"
  PROVE  is_freewili_hub(prod)
<1>1. DOMAIN usbDeviceTypeMap = WhitelistVIDPID
  BY DEF usbDeviceTypeMap
<1>2. prod \in WhitelistVIDPID
  <2>1. CASE prod \notin DOMAIN usbDeviceTypeMap
    BY <2>1 DEF getUSBDeviceTypeFrom
  <2> QED
    BY <1>1, <2>1
<1>3. usbDeviceTypeMap[prod] = "Hub"
  BY <1>1, <1>2 DEF getUSBDeviceTypeFrom
<1>4. SUFFICES ASSUME prod \notin HubProduct PROVE FALSE
  BY DEF is_freewili_hub
<1>5. usbDeviceTypeMap[prod] # "Hub"
  BY <1>2, <1>4 DEF usbDeviceTypeMap
<1> QED
  BY <1>3, <1>5

LEMMA UndisturbedSubtree ==
  ASSUME OneDigitPorts, TreeInv, DisturbedInv, NEW path \in DOMAIN tree, Undisturbed(path),
         NEW p \in Subtree(path), NEW d \in disturbed
  PROVE  ~IsPrefix(d, p)
<1>1. p \in DOMAIN tree /\ IsPrefix(path, p)
  BY DEF Subtree
<1>2. p \in Seq(1..9) /\ path \in Seq(1..9) /\ d \in Seq(1..9) /\ IsPrefix(path, path)
  BY <1>1, PathIsText DEF TreeInv, DisturbedInv
<1>3. SUFFICES ASSUME IsPrefix(d, p) PROVE FALSE
  OBVIOUS
<1>4. IsPrefix(d, path) \/ IsPrefix(path, d)
  BY <1>1, <1>2, <1>3, PrefixesNested
<1>5. ~IsPrefix(path, d)
  BY DEF Undisturbed
<1>6. path \in disturbed
  BY <1>4, <1>5 DEF DisturbedInv
<1> QED
  BY <1>2, <1>6 DEF Undisturbed

\* In a list that holds what is there, an undisturbed child finds its own name.
LEMMA ChildName ==
  ASSUME OneDigitPorts, TreeInv, NEW list \in Seq(Info), NEW number,
         SaysTheTruth(list, number), HasAll(list, number), HubsHaveNone(number),
         NEW p \in DOMAIN tree, \A d \in disturbed : ~IsPrefix(d, p)
  PROVE  NameOf(list, EntriesIn(list, p)) = number[p]
<1>1. p \in Paths /\ p \in Seq(1..9) /\ IsPrefix(p, p) /\ Len(p) > 0
  BY PathIsText DEF TreeInv
<1>2. p \notin disturbed
  BY <1>1
<1>3. EntriesIn(list, p) = EntriesAt(list, p)
  <2>1. ASSUME NEW i \in EntriesIn(list, p)
        PROVE  i \in EntriesAt(list, p)
    <3>1. list[i].devPath = p
      BY EntryFor
    <3> QED
      BY <3>1 DEF EntriesIn, EntriesAt
  <2>2. ASSUME NEW i \in EntriesAt(list, p)
        PROVE  i \in EntriesIn(list, p)
    <3>1. TextContains(p, p)
      BY <1>1, TextIsPath
    <3> QED
      BY <3>1 DEF EntriesIn, EntriesAt
  <2> QED
    BY <2>1, <2>2
<1> QED
  BY <1>2, <1>3, OwnName

LEMMA ChildIsDue ==
  ASSUME OneDigitPorts, TreeInv, DisksInv, PortsInv, Returned,
         NEW p \in DOMAIN tree, \A d \in disturbed : ~IsPrefix(d, p)
  PROVE  Said(ChildDev(p)) = Due(p)
<1>1. PICK dev : dev = ChildDev(p)
  OBVIOUS
<1>2. /\ dev.prod = tree[p].prod /\ dev.portChain = p
      /\ dev.port = NameOf(serialPorts, EntriesIn(serialPorts, p))
      /\ dev.paths = NameOf(disks, EntriesIn(disks, p))
  BY <1>1 DEF ChildDev, USBDeviceAt
<1>3. Scanning /\ pc # "_listSerialPorts"
  BY DEF Scanning, Returned
<1>4. /\ serialPorts \in Seq(Info) /\ disks \in Seq(Info)
      /\ HubsHaveNone(TtyAt) /\ HubsHaveNone(DiskAt)
  BY NumbersOfHubs DEF DisksInv, PortsInv
<1>5. dev.port = IF "serial ports" \in failed THEN 0 ELSE tree[p].tty
  <2>1. CASE "serial ports" \in failed
    <3>1. serialPorts = <<>>
      BY <2>1 DEF PortsInv
    <3>2. EntriesIn(serialPorts, p) = {}
      BY <3>1 DEF EntriesIn
    <3> QED
      BY <1>2, <2>1, <3>2 DEF NameOf
  <2>2. CASE "serial ports" \notin failed
    <3>1. SaysTheTruth(serialPorts, TtyAt) /\ HasAll(serialPorts, TtyAt)
      BY <1>3, <2>2 DEF PortsInv
    <3>2. dev.port = TtyAt[p]
      BY <1>2, <1>4, <3>1, ChildName
    <3> QED
      BY <2>2, <3>2 DEF TtyAt
  <2> QED
    BY <2>1, <2>2
<1>6. dev.paths = IF "disks" \in failed THEN 0 ELSE tree[p].disk
  <2>1. CASE "disks" \in failed
    <3>1. disks = <<>>
      BY <2>1 DEF DisksInv
    <3>2. EntriesIn(disks, p) = {}
      BY <3>1 DEF EntriesIn
    <3> QED
      BY <1>2, <2>1, <3>2 DEF NameOf
  <2>2. CASE "disks" \notin failed
    <3>1. SaysTheTruth(disks, DiskAt) /\ HasAll(disks, DiskAt)
      BY <1>3, <2>2 DEF DisksInv
    <3>2. dev.paths = DiskAt[p]
      BY <1>2, <1>4, <3>1, ChildName
    <3> QED
      BY <2>2, <3>2 DEF DiskAt
  <2> QED
    BY <2>1, <2>2
<1> QED
  BY <1>1, <1>2, <1>5, <1>6 DEF Said, Due

\* The group of an undisturbed FREE-WILi2 says what is due of each of its devices.
GroupIsRight(path, d) ==
  /\ d.uniqueID = UniqueID(path)
  /\ {Said(dev) : dev \in ToSet(d.usbDevices)} = {Due(p) : p \in Subtree(path)}
  /\ Len(d.usbDevices) = Cardinality(Subtree(path))

LEMMA UnitsGroup ==
  ASSUME OneDigitPorts, TreeInv, DisturbedInv, DisksInv, PortsInv, Returned,
         NEW path, PlainFreeWili(path), Undisturbed(path)
  PROVE  Group(path) # BuildError /\ GroupIsRight(path, Group(path))
<1>1. /\ path \in DOMAIN tree /\ tree[path].prod = "FW2Hub" /\ tree[path].serial # ""
      /\ StandalonesIn(Subtree(path)) = {}
  BY DEF PlainFreeWili
<1>2. \A h \in HubsIn(DOMAIN tree) : IsPrefix(path, h) => h = path
  BY DEF PlainFreeWili
<1>3. PICK n \in Nat : n = Cardinality(Children(path))
  BY GroupListIs
<1>4. PICK list : list = GroupList(path)
  OBVIOUS
<1>5. PICK l : IsGroupList(list, path, l, n)
  BY <1>3, <1>4, GroupListIs
<1>6. PICK S : S = ToSet(list) /\ list \in Seq(S)
  BY <1>5 DEF IsGroupList
<1>7. /\ n + 1 \in DOMAIN list /\ list[n + 1] = HubDev(path)
      /\ \A k \in DOMAIN list : k \in 1..n \/ k = n + 1
  BY <1>5 DEF IsGroupList
<1>8. is_freewili_hub(tree[path].prod) /\ IsHub(tree[path].prod) /\ path \in HubsIn(DOMAIN tree)
  BY <1>1 DEF is_freewili_hub, HubProduct, IsHub, HubsIn
<1>9. Subtree(path) = Children(path) \cup {path} /\ path \notin Children(path)
  BY <1>1, ChildrenAre
<1>10. IsOnlyHub(list, n + 1)
  <2>1. list[n + 1].kind = "Hub"
    BY <1>7, <1>8, HubKind DEF HubDev, USBDeviceAt
  <2>2. ASSUME NEW k \in DOMAIN list, k # n + 1, list[k].kind = "Hub"
        PROVE  FALSE
    <3>1. k \in 1..n
      BY <1>7, <2>2
    <3>2. l[k] \in Children(path) /\ list[k] = ChildDev(l[k])
      BY <1>5, <3>1 DEF IsGroupList
    <3>3. is_freewili_hub(tree[l[k]].prod)
      BY <2>2, <3>2, KindOfHub DEF ChildDev, USBDeviceAt
    <3>4. l[k] \in DOMAIN tree /\ IsPrefix(path, l[k]) /\ l[k] # path
      BY <1>1, <3>2, ChildrenAre
    <3> QED
      BY <1>2, <3>3, <3>4 DEF HubsIn
  <2> QED
    BY <1>7, <2>1, <2>2 DEF IsOnlyHub
<1>11. \A k \in DOMAIN list : ~isStandAloneDevice(list[k].prod)
  <2>1. ASSUME NEW k \in DOMAIN list, isStandAloneDevice(list[k].prod)
        PROVE  FALSE
    <3>1. PICK p : p = PlaceIn(path, l, n, k)
      OBVIOUS
    <3>2. path \in DOMAIN tree
      BY <1>1
    <3>3. p \in Subtree(path) /\ list[k].prod = tree[p].prod
      BY <1>5, <3>1, <3>2, GroupPlaces
    <3> QED
      BY <1>1, <2>1, <3>3 DEF StandalonesIn
  <2> QED
    BY <2>1
<1>12. list[n + 1].prod = "FW2Hub" /\ list[n + 1].serial # "" /\ list[n + 1].portChain = path
  <2>1. PICK h : h = HubDev(path)
    OBVIOUS
  <2>2. h.prod = tree[path].prod /\ h.serial = tree[path].serial /\ h.portChain = path
    BY <2>1 DEF HubDev, USBDeviceAt
  <2>3. PICK k : k = n + 1
    OBVIOUS
  <2>4. list[k] = h
    BY <1>7, <2>1, <2>3
  <2>5. list[k].prod = "FW2Hub" /\ list[k].serial # "" /\ list[k].portChain = path
    BY <1>1, <2>2, <2>4
  <2> QED
    BY <2>3, <2>5
<1>13. fromUSBDevices(list) # BuildError /\ HubID(list) = UniqueID(path)
  BY <1>6, <1>10, <1>11, <1>12, UnitIsMade
<1>14. PICK d : d = Group(path) /\ d = fromUSBDevices(list) /\ d # BuildError
  BY <1>4, <1>13 DEF Group
<1>15. d.uniqueID = UniqueID(path)
  <2>1. IsMadeOf(d, list)
    BY <1>6, <1>14, MadeOf
  <2> QED
    BY <1>11, <1>13, <2>1 DEF IsMadeOf
<1>16. /\ ToSet(d.usbDevices) = {ChildDev(p) : p \in Children(path)} \cup {HubDev(path)}
       /\ Len(d.usbDevices) = n + 1
  BY <1>3, <1>14, GroupDevices
<1>17. \A p \in Children(path) : Said(ChildDev(p)) = Due(p)
  <2>1. ASSUME NEW p \in Children(path)
        PROVE  Said(ChildDev(p)) = Due(p)
    <3>1. p \in Subtree(path) /\ p \in DOMAIN tree
      BY <1>9 DEF Subtree
    <3>2. \A q \in disturbed : ~IsPrefix(q, p)
      BY <1>1, <3>1, UndisturbedSubtree
    <3> QED
      BY <3>1, <3>2, ChildIsDue
  <2> QED
    BY <2>1
<1>18. Said(HubDev(path)) = Due(path)
  <2>1. tree[path].tty = 0 /\ tree[path].disk = 0
    BY <1>1, <1>8 DEF TreeInv
  <2> QED
    BY <2>1 DEF Said, Due, HubDev, USBDeviceAt
<1>19. {Said(dev) : dev \in ToSet(d.usbDevices)} = {Due(p) : p \in Subtree(path)}
  <2>1. PICK C : C = Children(path)
    OBVIOUS
  <2>2. PICK h, due : h = HubDev(path) /\ due = Due(path) /\ Said(h) = due
    BY <1>18
  <2>3. {Said(dev) : dev \in {ChildDev(p) : p \in C} \cup {h}} = {Said(ChildDev(p)) : p \in C} \cup {due}
    BY <2>2
  <2>4. {Due(p) : p \in C \cup {path}} = {Due(p) : p \in C} \cup {due}
    BY <2>2
  <2>5. {Said(ChildDev(p)) : p \in C} = {Due(p) : p \in C}
    BY <1>17, <2>1
  <2> QED
    BY <1>9, <1>16, <2>1, <2>2, <2>3, <2>4, <2>5
<1>20. Cardinality(Subtree(path)) = n + 1
  BY <1>3, <1>9, GroupListIs, FS_AddElement
<1> QED
  BY <1>14, <1>15, <1>16, <1>19, <1>20 DEF GroupIsRight
\* No device is below a badge.
LEMMA BadgeIsALeaf ==
  ASSUME OneDigitPorts, TreeInv, NEW path \in DOMAIN tree, isStandAloneDevice(tree[path].prod)
  PROVE  Subtree(path) = {path}
<1>1. path \in Paths
  BY DEF TreeInv
<1>2. path \in PathSeq /\ Len(path) > 0 /\ IsPrefix(path, path)
  BY <1>1, PathIsText
<1>3. ~IsHub(tree[path].prod)
  BY HubIsNoBadge
<1>4. ASSUME NEW p \in DOMAIN tree, IsPrefix(path, p)
      PROVE  p = path
  BY <1>2, <1>3, <1>4 DEF TreeInv, Closed
<1> QED
  BY <1>2, <1>4 DEF Subtree

\* The one report a place is due.
OneRightReport(path) ==
  \E k \in DOMAIN result :
    /\ GroupIsRight(path, result[k])
    /\ \A j \in DOMAIN result : result[j].uniqueID = UniqueID(path) => j = k

LEMMA BadgeReported ==
  ASSUME OneDigitPorts, ShallowPlaces, TreeInv,
         NEW path \in DOMAIN tree, Undisturbed(path), LoneBadge(path),
         NEW isBadge, NEW at, Reports(result, isBadge, at)
  PROVE  OneRightReport(path)
<1>1. /\ isStandAloneDevice(tree[path].prod) /\ SaysWhoItIs(path) /\ "standalone" \notin failed
      /\ \A hub \in HubsIn(DOMAIN tree) : ~IsPrefix(hub, path)
  BY DEF LoneBadge, StandalonesIn, SaysWhoItIs
<1>2. path \in Paths
  BY DEF TreeInv
<1>3. path \in PathSeq /\ IsPrefix(path, path) /\ Len(path) > 0
  BY <1>2, PathIsText
<1>4. path \notin disturbed
  BY <1>3 DEF Undisturbed
<1>5. AloneIn(path)
  <2>1. ASSUME OnFreeWiliHub(path)
        PROVE  FALSE
    <3>1. PICK f : f = Front(path)
      OBVIOUS
    <3>2. Len(path) > 1 /\ is_freewili_hub(tree[f].prod)
      BY <2>1, <3>1 DEF OnFreeWiliHub
    <3>3. f \in PathSeq /\ Len(f) = Len(path) - 1 /\ IsPrefix(f, path)
      BY <1>3, <3>1, FrontElements, FrontIsPrefix DEF PathSeq
    <3>4. Len(path) \in Nat
      BY <1>2, PathIsText
    <3>5. Len(f) > 0
      BY <3>2, <3>3, <3>4
    <3>6. f \in DOMAIN tree
      BY <3>3, <3>5 DEF TreeInv, Closed
    <3> QED
      BY <1>1, <3>2, <3>3, <3>6 DEF HubsIn
  <2> QED
    BY <1>1, <2>1 DEF AloneIn
<1>6. PICK k \in DOMAIN result : isBadge[k] /\ at[k] = path
  BY <1>1, <1>4, <1>5 DEF Reports
<1>7. PICK d : d = result[k] /\ IsBadgeOf(d, path)
  <2>1. IsReportOf(result[k], isBadge[k], at[k])
    BY DEF Reports
  <2> QED
    BY <1>6, <2>1 DEF IsReportOf
<1>8. GroupIsRight(path, d)
  <2>1. PICK dev : d.usbDevices = <<dev>> /\ Said(dev) = Due(path) /\ d.uniqueID = UniqueID(path)
    BY <1>4, <1>7 DEF IsBadgeOf, IsBadgeDev
  <2>2. Subtree(path) = {path}
    BY <1>1, BadgeIsALeaf
  <2>3. ToSet(<<dev>>) = {dev} /\ Len(<<dev>>) = 1
    BY DEF ToSet
  <2>4. Cardinality({path}) = 1
    BY FS_Singleton
  <2> QED
    BY <2>1, <2>2, <2>3, <2>4 DEF GroupIsRight
<1>9. ASSUME NEW j \in DOMAIN result, result[j].uniqueID = UniqueID(path)
      PROVE  j = k
  <2>1. PICK b, x : /\ b = isBadge[j] /\ x = at[j] /\ b \in BOOLEAN /\ x \in Paths
                    /\ IsReportOf(result[j], b, x)
    BY DEF Reports
  <2>2. PICK p : Names(result[j], b, x, p)
    BY <2>1, EachNamesAPlace
  <2>3. p = path
    BY <1>2, <1>9, <2>2, PlacesByID DEF Names
  <2>4. b /\ x = path
    BY <1>1, <2>1, <2>2, <2>3 DEF Names
  <2> QED
    BY <1>6, <2>1, <2>4 DEF Reports
<1> QED
  BY <1>7, <1>8, <1>9 DEF OneRightReport

LEMMA UnitReported ==
  ASSUME OneDigitPorts, ShallowPlaces, TreeInv, DisturbedInv, DisksInv, PortsInv, Returned,
         NEW path \in DOMAIN tree, Undisturbed(path), PlainFreeWili(path),
         NEW isBadge, NEW at, Reports(result, isBadge, at)
  PROVE  OneRightReport(path)
<1>1. /\ tree[path].prod = "FW2Hub"
      /\ \A h \in HubsIn(DOMAIN tree) : IsPrefix(h, path) => h = path
  BY DEF PlainFreeWili
<1>2. path \in HubsIn(DOMAIN tree) /\ ~isStandAloneDevice(tree[path].prod)
  <2>1. is_freewili_hub(tree[path].prod)
    BY <1>1 DEF is_freewili_hub, HubProduct
  <2> QED
    BY <2>1, HubIsNoBadge DEF HubsIn
<1>3. path \in Paths /\ IsPrefix(path, path)
  BY PathIsText DEF TreeInv
<1>4. path \notin disturbed
  BY <1>3 DEF Undisturbed
<1>5. Group(path) # BuildError /\ GroupIsRight(path, Group(path))
  BY UnitsGroup
<1>6. PICK k \in DOMAIN result : ~isBadge[k] /\ at[k] = path
  BY <1>2, <1>5 DEF Reports
<1>7. result[k] = Group(path)
  <2>1. IsReportOf(result[k], isBadge[k], at[k])
    BY DEF Reports
  <2> QED
    BY <1>6, <2>1 DEF IsReportOf
<1>8. ASSUME NEW j \in DOMAIN result, result[j].uniqueID = UniqueID(path)
      PROVE  j = k
  <2>1. PICK b, x : /\ b = isBadge[j] /\ x = at[j] /\ b \in BOOLEAN /\ x \in Paths
                    /\ IsReportOf(result[j], b, x)
    BY DEF Reports
  <2>2. PICK p : Names(result[j], b, x, p)
    BY <2>1, EachNamesAPlace
  <2>3. p = path
    BY <1>3, <1>8, <2>2, PlacesByID DEF Names
  <2>4. ~b /\ x = path
    BY <1>1, <1>2, <1>4, <2>1, <2>2, <2>3 DEF Names, AloneIn
  <2>5. isBadge[k] = isBadge[j]
    <3>1. isBadge[k] \in BOOLEAN /\ isBadge[j] \in BOOLEAN
      BY DEF Reports
    <3> QED
      BY <1>6, <2>1, <2>4, <3>1
  <2> QED
    BY <1>6, <2>1, <2>4, <2>5 DEF Reports
<1> QED
  BY <1>5, <1>7, <1>8 DEF OneRightReport

LEMMA UndisturbedReportedNow ==
  ASSUME OneDigitPorts, ShallowPlaces, IInv
  PROVE  UndisturbedReported
<1>1. TreeInv /\ DisturbedInv /\ DisksInv /\ PortsInv /\ ResultInv
  BY DEF IInv
<1>2. SUFFICES ASSUME Returned,
                      NEW path \in DOMAIN tree, Undisturbed(path),
                      LoneBadge(path) \/ PlainFreeWili(path),
                      NEW reports,
                      reports = {i \in DOMAIN result : result[i].uniqueID = UniqueID(path)}
               PROVE  /\ Cardinality(reports) = 1
                      /\ \A i \in reports :
                           /\ {Said(dev) : dev \in ToSet(result[i].usbDevices)}
                                = {Due(p) : p \in Subtree(path)}
                           /\ Len(result[i].usbDevices) = Cardinality(Subtree(path))
  BY DEF UndisturbedReported
<1>3. PICK isBadge, at : Reports(result, isBadge, at)
  BY <1>1, <1>2 DEF ResultInv, Returned
<1>4. OneRightReport(path)
  <2>1. CASE LoneBadge(path)
    BY <1>1, <1>2, <1>3, <2>1, BadgeReported
  <2>2. CASE PlainFreeWili(path)
    BY <1>1, <1>2, <1>3, <2>2, UnitReported
  <2> QED
    BY <1>2, <2>1, <2>2
<1>5. PICK k \in DOMAIN result :
        /\ GroupIsRight(path, result[k])
        /\ \A j \in DOMAIN result : result[j].uniqueID = UniqueID(path) => j = k
  BY <1>4 DEF OneRightReport
<1>6. reports = {k}
  BY <1>2, <1>5 DEF GroupIsRight
<1>7. Cardinality({k}) = 1
  BY FS_Singleton
<1> QED
  BY <1>5, <1>6, <1>7 DEF GroupIsRight

(* While no hub port needs a second digit and no device is deeper than the   *)
(* six bits a port of its ID reach: whatever else is plugged and unplugged   *)
(* while find_all runs, and whichever walks cannot open udev, a lone badge   *)
(* and a FREE-WILi2 that stay put are reported exactly once, with exactly    *)
(* their USB devices, each with its own serial port and mount points         *)
(* (fwfinder_linux.cpp:545-567).                                             *)
THEOREM ReportedUndisturbed ==
  ASSUME OneDigitPorts, ShallowPlaces PROVE Spec => []UndisturbedReported
<1>1. IInv => UndisturbedReported
  BY UndisturbedReportedNow
<1> QED
  BY <1>1, Invariance, PTL
=============================================================================
