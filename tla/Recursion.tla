----------------------------- MODULE Recursion -----------------------------
(***************************************************************************)
(* Induction over the natural numbers in a first-order form, and what      *)
(* follows for the recursive functions and the filters the models are      *)
(* written with.  The induction theorems of the library take a predicate   *)
(* as a parameter; these take the set of the numbers that have it.         *)
(***************************************************************************)
EXTENDS Listing, Integers, WellFoundedInduction, FiniteSetTheorems, SequenceTheorems, TLAPS

\* Every set of numbers has a least element.
LEMMA LeastElement ==
    ASSUME NEW S \in SUBSET Nat, S # {}
    PROVE  \E n \in S : \A k \in S : n <= k
<1> DEFINE R == OpToRel(<, Nat)
<1>1. IsWellFoundedOn(R, Nat)
    BY NatLessThanWellFounded
<1>2. \E n \in S : \A k \in S : ~ (<<k, n>> \in R)
    <2> HIDE DEF R
    <2> QED BY <1>1, WFMin
<1>3. \A k, n \in Nat : <<k, n>> \in R <=> k < n
    BY DEF OpToRel
<1>4. PICK n \in S : \A k \in S : ~ (<<k, n>> \in R)
    BY <1>2
<1>5. \A k \in S : ~ (k < n)
    <2> HIDE DEF R
    <2> QED BY <1>3, <1>4
<1> QED BY <1>5

\* Induction up to n, T being the numbers for which the claim holds.
LEMMA Upward ==
    ASSUME NEW n \in Nat, NEW T, 0 \in T,
           \A k \in 0 .. n - 1 : k \in T => k + 1 \in T
    PROVE  0 .. n \subseteq T
<1> DEFINE S == {k \in 0 .. n : k \notin T}
<1>1. SUFFICES ASSUME S # {} PROVE FALSE
    OBVIOUS
<1>2. PICK k \in S : \A l \in S : k <= l
    <2>1. S \in SUBSET Nat
        OBVIOUS
    <2> HIDE DEF S
    <2> QED BY <1>1, <2>1, LeastElement
<1>3. k # 0 /\ k - 1 \in 0 .. n - 1 /\ k - 1 \notin S
    BY <1>2
<1> QED BY <1>2, <1>3

\* A loop of n rounds: f[k] is what there is after round k, W[k] where that is.
IsLoop(f, n, W, v, step) ==
    /\ f = [k \in 0 .. n |-> IF k = 0 THEN v ELSE step[k][f[k - 1]]]
    /\ \A k \in 0 .. n : f[k] \in W[k]

Loop(n, W, v, step) == CHOOSE f : IsLoop(f, n, W, v, step)

\* There is such a loop, when every round goes from one W to the next.
LEMMA LoopExists ==
    ASSUME NEW n \in Nat, NEW W, NEW v \in W[0], NEW step,
           \A k \in 1 .. n : \A w \in W[k - 1] : step[k][w] \in W[k]
    PROVE  IsLoop(Loop(n, W, v, step), n, W, v, step)
<1> DEFINE Up(m) == \E f : IsLoop(f, m, W, v, step)
           T == {m \in 0 .. n : Up(m)}
<1>1. 0 \in T
    <2> DEFINE g == [k \in 0 .. 0 |-> v]
    <2>1. g = [k \in 0 .. 0 |-> IF k = 0 THEN v ELSE step[k][g[k - 1]]]
        OBVIOUS
    <2>2. \A k \in 0 .. 0 : g[k] \in W[k]
        OBVIOUS
    <2>3. Up(0)
        <3> HIDE DEF g
        <3> QED BY <2>1, <2>2 DEF IsLoop
    <2> QED BY <2>3
<1>2. ASSUME NEW m \in 0 .. n - 1, m \in T PROVE m + 1 \in T
    <2>1. PICK f : /\ f = [k \in 0 .. m |-> IF k = 0 THEN v ELSE step[k][f[k - 1]]]
                   /\ \A k \in 0 .. m : f[k] \in W[k]
        BY <1>2 DEF IsLoop
    <2> DEFINE g == [k \in 0 .. m + 1 |-> IF k = m + 1 THEN step[k][f[m]] ELSE f[k]]
    <2>2. step[m + 1][f[m]] \in W[m + 1]
        BY <2>1
    <2>3. \A k \in 0 .. m + 1 : g[k] \in W[k]
        BY <2>1, <2>2
    <2>4. ASSUME NEW k \in 0 .. m + 1
          PROVE  g[k] = IF k = 0 THEN v ELSE step[k][g[k - 1]]
        <3>1. CASE k = m + 1
            BY <3>1
        <3>2. CASE k \in 0 .. m
            <4>1. f[k] = IF k = 0 THEN v ELSE step[k][f[k - 1]]
                BY <2>1, <3>2
            <4> QED BY <3>2, <4>1
        <3> QED BY <3>1, <3>2
    <2>5. g = [k \in 0 .. m + 1 |-> IF k = 0 THEN v ELSE step[k][g[k - 1]]]
        BY <2>4
    <2>6. Up(m + 1)
        <3> HIDE DEF g
        <3> QED BY <2>3, <2>5 DEF IsLoop
    <2> QED BY <2>6
<1>3. n \in T
    <2>1. 0 .. n \subseteq T
        <3>1. \A k \in 0 .. n - 1 : k \in T => k + 1 \in T
            BY <1>2
        <3> HIDE DEF T
        <3> QED BY <1>1, <3>1, Upward
    <2> QED BY <2>1
<1>4. \E f : IsLoop(f, n, W, v, step)
    BY <1>3
<1> QED BY <1>4, Zenon DEF Loop

\* What every round keeps, there is at the end.
LEMMA LoopStays ==
    ASSUME NEW n \in Nat, NEW W, NEW f, f[0] \in W[0],
           \A k \in 1 .. n : f[k - 1] \in W[k - 1] => f[k] \in W[k]
    PROVE  f[n] \in W[n]
<1> DEFINE T == {k \in 0 .. n : f[k] \in W[k]}
<1>1. 0 \in T
    OBVIOUS
<1>2. ASSUME NEW k \in 0 .. n - 1, k \in T PROVE k + 1 \in T
    <2>1. k + 1 \in 1 .. n /\ (k + 1) - 1 = k
        OBVIOUS
    <2> QED BY <1>2, <2>1
<1>3. 0 .. n \subseteq T
    <2>1. \A k \in 0 .. n - 1 : k \in T => k + 1 \in T
        BY <1>2
    <2> HIDE DEF T
    <2> QED BY <1>1, <2>1, Upward
<1> QED BY <1>3

----------------------------------------------------------------------------
(* The members of a finite set of numbers in ascending order.              *)

Below(S, i) == {j \in S : j < i}

\* A member has fewer below it than there are, and more than any below it.
LEMMA BelowCounts ==
    ASSUME NEW S \in SUBSET Nat, IsFiniteSet(S), NEW i \in S
    PROVE  /\ IsFiniteSet(Below(S, i))
           /\ Cardinality(Below(S, i)) \in 0 .. Cardinality(S) - 1
           /\ \A j \in S : j < i => Cardinality(Below(S, j)) < Cardinality(Below(S, i))
<1>1. \A T \in SUBSET S : IsFiniteSet(T) /\ Cardinality(T) \in Nat
    BY FS_Subset, FS_CardinalityType
<1>2. ASSUME NEW T \in SUBSET S, NEW U \in SUBSET T, U # T
      PROVE  Cardinality(U) < Cardinality(T)
    <2>1. IsFiniteSet(T) /\ Cardinality(T) \in Nat /\ Cardinality(U) \in Nat
        BY <1>1
    <2>2. Cardinality(U) <= Cardinality(T) /\ (Cardinality(T) = Cardinality(U) => T = U)
        BY <2>1, FS_Subset, Zenon
    <2> QED BY <1>2, <2>1, <2>2
<1>3. Below(S, i) \in SUBSET S /\ Below(S, i) # S
    BY DEF Below
<1>4. Cardinality(Below(S, i)) < Cardinality(S)
    BY <1>2, <1>3
<1>5. ASSUME NEW j \in S, j < i
      PROVE  Cardinality(Below(S, j)) < Cardinality(Below(S, i))
    <2>1. \A k \in S : k < j => k < i
        BY <1>5
    <2>2. j \in Nat /\ ~ (j < j)
        OBVIOUS
    <2>3. Below(S, j) \subseteq Below(S, i) /\ j \in Below(S, i) /\ j \notin Below(S, j)
        BY <1>5, <2>1, <2>2 DEF Below
    <2> QED BY <1>2, <1>3, <2>3
<1> QED BY <1>1, <1>3, <1>4, <1>5

\* There is a member with n below it, for every n less than there are members.
LEMMA RankExists ==
    ASSUME NEW S \in SUBSET Nat, IsFiniteSet(S), NEW n \in 0 .. Cardinality(S) - 1
    PROVE  \E i \in S : Cardinality(Below(S, i)) = n
<1> DEFINE T == {k \in 0 .. n : \E i \in S : Cardinality(Below(S, i)) = k}
<1>0. Cardinality(S) \in Nat
    BY FS_CardinalityType
<1>1. 0 \in T
    <2>1. S # {}
        BY FS_EmptySet
    <2>2. PICK i \in S : \A k \in S : i <= k
        BY <2>1, LeastElement
    <2>3. Below(S, i) = {}
        <3>1. \A k \in S : ~ (k < i)
            BY <2>2
        <3> QED BY <3>1 DEF Below
    <2> QED BY <2>2, <2>3, FS_EmptySet
<1>2. ASSUME NEW k \in 0 .. n - 1, k \in T PROVE k + 1 \in T
    <2>1. PICK i \in S : Cardinality(Below(S, i)) = k
        BY <1>2
    <2> DEFINE Upto == Below(S, i) \cup {i}
    <2>2. IsFiniteSet(Below(S, i)) /\ i \notin Below(S, i)
        BY BelowCounts DEF Below
    <2>3. Cardinality(Upto) = k + 1
        BY <2>1, <2>2, FS_AddElement
    <2>4. S \ Upto # {}
        <3>1. Upto \subseteq S
            BY DEF Below
        <3>2. Upto # S
            <4>1. k + 1 # Cardinality(S)
                BY <1>0
            <4> QED BY <2>3, <4>1
        <3> QED BY <3>1, <3>2
    <2>5. PICK l \in S \ Upto : \A j \in S \ Upto : l <= j
        <3> HIDE DEF Upto
        <3>1. S \ Upto \in SUBSET Nat
            OBVIOUS
        <3> QED BY <2>4, <3>1, LeastElement
    <2>6. Below(S, l) = Upto
        <3>1. \A j \in S : j \in Upto <=> j <= i
            BY DEF Below
        <3>2. \A j \in S : j \notin Upto => ~ (j < l)
            BY <2>5
        <3>3. \A j \in S : j \in Upto => j < l
            BY <2>5, <3>1
        <3>4. Upto \subseteq S
            BY DEF Below
        <3> HIDE DEF Upto
        <3> QED BY <3>2, <3>3, <3>4 DEF Below
    <2> QED BY <2>3, <2>5, <2>6
<1>3. 0 .. n \subseteq T
    <2>1. \A k \in 0 .. n - 1 : k \in T => k + 1 \in T
        BY <1>2
    <2>2. n \in Nat
        BY <1>0
    <2> HIDE DEF T
    <2> QED BY <1>1, <2>1, <2>2, Upward
<1> QED BY <1>0, <1>3

\* NthOf finds it.
LEMMA NthOfHasRank ==
    ASSUME NEW S \in SUBSET Nat, IsFiniteSet(S), NEW n \in 0 .. Cardinality(S) - 1
    PROVE  NthOf(S, n) \in S /\ Cardinality(Below(S, NthOf(S, n))) = n
<1>1. \E i \in S : Cardinality({j \in S : j < i}) = n
    BY RankExists DEF Below
<1> QED BY <1>1 DEF NthOf, Below

\* NthOf goes upwards, and meets every member.
LEMMA NthOfAscends ==
    ASSUME NEW S \in SUBSET Nat, IsFiniteSet(S)
    PROVE  /\ \A m, n \in 0 .. Cardinality(S) - 1 : m < n => NthOf(S, m) < NthOf(S, n)
           /\ \A i \in S : \E n \in 0 .. Cardinality(S) - 1 : NthOf(S, n) = i
<1>0. Cardinality(S) \in Nat
    BY FS_CardinalityType
<1>1. \A n \in 0 .. Cardinality(S) - 1 :
          NthOf(S, n) \in S /\ Cardinality(Below(S, NthOf(S, n))) = n
    BY NthOfHasRank
<1>2. \A i, j \in S : j < i => Cardinality(Below(S, j)) < Cardinality(Below(S, i))
    BY BelowCounts
<1>3. ASSUME NEW m \in 0 .. Cardinality(S) - 1, NEW n \in 0 .. Cardinality(S) - 1, m < n
      PROVE  NthOf(S, m) < NthOf(S, n)
    <2>1. PICK i \in S : i = NthOf(S, m) /\ Cardinality(Below(S, i)) = m
        BY <1>1
    <2>2. PICK j \in S : j = NthOf(S, n) /\ Cardinality(Below(S, j)) = n
        BY <1>1
    <2>3. i < j \/ i = j \/ j < i
        OBVIOUS
    <2> QED BY <1>0, <1>2, <1>3, <2>1, <2>2, <2>3
<1>4. ASSUME NEW i \in S
      PROVE  \E n \in 0 .. Cardinality(S) - 1 : NthOf(S, n) = i
    <2> DEFINE n == Cardinality(Below(S, i))
    <2>1. n \in 0 .. Cardinality(S) - 1
        BY BelowCounts
    <2>2. PICK j \in S : j = NthOf(S, n) /\ Cardinality(Below(S, j)) = n
        BY <1>1, <2>1
    <2>3. i < j \/ i = j \/ j < i
        OBVIOUS
    <2>4. i = j
        BY <1>0, <1>2, <2>1, <2>2, <2>3
    <2> QED BY <2>1, <2>2, <2>4
<1> QED BY <1>3, <1>4

\* What InOrder lists.
LEMMA InOrderLists ==
    ASSUME NEW S \in SUBSET Nat, IsFiniteSet(S)
    PROVE  /\ InOrder(S) \in Seq(S)
           /\ Len(InOrder(S)) = Cardinality(S)
           /\ \A i \in S : \E n \in 1 .. Len(InOrder(S)) : InOrder(S)[n] = i
           /\ \A m, n \in 1 .. Len(InOrder(S)) : m < n => InOrder(S)[m] < InOrder(S)[n]
<1>0. Cardinality(S) \in Nat
    BY FS_CardinalityType
<1>1. \A n \in 1 .. Cardinality(S) : InOrder(S)[n] = NthOf(S, n - 1) /\ InOrder(S)[n] \in S
    <2>1. ASSUME NEW n \in 1 .. Cardinality(S) PROVE NthOf(S, n - 1) \in S
        <3>1. n - 1 \in 0 .. Cardinality(S) - 1
            BY <1>0
        <3> QED BY <3>1, NthOfHasRank
    <2> QED BY <2>1 DEF InOrder
<1>2. InOrder(S) \in Seq(S) /\ Len(InOrder(S)) = Cardinality(S)
    <2>1. InOrder(S) \in [1 .. Cardinality(S) -> S]
        BY <1>1 DEF InOrder
    <2> QED BY <1>0, <2>1
<1>3. ASSUME NEW i \in S PROVE \E n \in 1 .. Cardinality(S) : InOrder(S)[n] = i
    <2>1. PICK n \in 0 .. Cardinality(S) - 1 : NthOf(S, n) = i
        BY NthOfAscends
    <2>2. n + 1 \in 1 .. Cardinality(S) /\ (n + 1) - 1 = n
        BY <1>0
    <2> QED BY <1>1, <2>1, <2>2
<1>4. ASSUME NEW m \in 1 .. Cardinality(S), NEW n \in 1 .. Cardinality(S), m < n
      PROVE  InOrder(S)[m] < InOrder(S)[n]
    <2>1. m - 1 \in 0 .. Cardinality(S) - 1 /\ n - 1 \in 0 .. Cardinality(S) - 1 /\ m - 1 < n - 1
        BY <1>0, <1>4
    <2>2. NthOf(S, m - 1) < NthOf(S, n - 1)
        BY <2>1, NthOfAscends
    <2> QED BY <1>1, <2>2
<1> QED BY <1>2, <1>3, <1>4

\* Those keeps the elements at I, and their order.
LEMMA ThoseKeeps ==
    ASSUME NEW A, NEW seq \in Seq(A), NEW I \in SUBSET (1 .. Len(seq))
    PROVE  /\ Those(seq, I) \in Seq(A)
           /\ Len(Those(seq, I)) = Cardinality(I)
           /\ \A n \in 1 .. Len(Those(seq, I)) :
                  InOrder(I)[n] \in I /\ Those(seq, I)[n] = seq[InOrder(I)[n]]
           /\ \A i \in I : \E n \in 1 .. Len(Those(seq, I)) : InOrder(I)[n] = i
           /\ \A m, n \in 1 .. Len(Those(seq, I)) : m < n => InOrder(I)[m] < InOrder(I)[n]
<1>1. I \in SUBSET Nat /\ IsFiniteSet(I) /\ Cardinality(I) \in Nat
    <2>1. Len(seq) \in Nat
        OBVIOUS
    <2>2. IsFiniteSet(1 .. Len(seq))
        BY <2>1, FS_Interval
    <2>3. IsFiniteSet(I) /\ Cardinality(I) \in Nat
        BY <2>2, FS_Subset, FS_CardinalityType, Zenon
    <2>4. I \in SUBSET Nat
        BY <2>1
    <2> QED BY <2>3, <2>4
<1>2. /\ InOrder(I) \in Seq(I)
      /\ Len(InOrder(I)) = Cardinality(I)
      /\ \A i \in I : \E n \in 1 .. Len(InOrder(I)) : InOrder(I)[n] = i
      /\ \A m, n \in 1 .. Len(InOrder(I)) : m < n => InOrder(I)[m] < InOrder(I)[n]
    BY <1>1, InOrderLists
<1>3. \A n \in 1 .. Cardinality(I) : InOrder(I)[n] \in I
    BY <1>2
<1>4. Those(seq, I) = [n \in 1 .. Cardinality(I) |-> seq[InOrder(I)[n]]]
    BY DEF Those, InOrder
<1>5. Those(seq, I) \in [1 .. Cardinality(I) -> A]
    <2>1. \A n \in 1 .. Cardinality(I) : seq[InOrder(I)[n]] \in A
        <3>1. \A i \in 1 .. Len(seq) : seq[i] \in A
            OBVIOUS
        <3> QED BY <1>3, <3>1
    <2> QED BY <1>4, <2>1
<1>6. Those(seq, I) \in Seq(A) /\ Len(Those(seq, I)) = Cardinality(I)
    BY <1>1, <1>5
<1> QED BY <1>2, <1>3, <1>4, <1>6

----------------------------------------------------------------------------
(* The last element of a sequence that is in a set, and what comes before  *)
(* it, as the sequence grows at its end and is taken from its head.        *)

Has(seq, K) == \E i \in 1 .. Len(seq) : seq[i] \in K

IsLastAt(seq, K, i) ==
    /\ i \in 1 .. Len(seq) /\ seq[i] \in K
    /\ \A j \in 1 .. Len(seq) : seq[j] \in K => j <= i

LastIn(seq, K) == seq[CHOOSE i \in 1 .. Len(seq) : IsLastAt(seq, K, i)]

\* Every bounded set of numbers has a greatest element.
LEMMA GreatestElement ==
    ASSUME NEW n \in Nat, NEW S \in SUBSET (0 .. n), S # {}
    PROVE  \E i \in S : \A k \in S : k <= i
<1> DEFINE T == {n - k : k \in S}
<1>1. T \in SUBSET Nat /\ T # {}
    <2>1. \A k \in S : n - k \in Nat
        OBVIOUS
    <2> QED BY <2>1
<1>2. PICK t \in T : \A k \in T : t <= k
    <2> HIDE DEF T
    <2> QED BY <1>1, LeastElement
<1>3. PICK i \in S : t = n - i
    OBVIOUS
<1>4. ASSUME NEW k \in S PROVE k <= i
    <2>1. n - k \in T
        OBVIOUS
    <2>2. t <= n - k
        BY <1>2, <2>1
    <2> QED BY <1>3, <2>2
<1> QED BY <1>4

\* What is in a sequence is somewhere the last time.
LEMMA LastExists ==
    ASSUME NEW A, NEW seq \in Seq(A), NEW K, Has(seq, K)
    PROVE  \E i \in 1 .. Len(seq) : IsLastAt(seq, K, i) /\ LastIn(seq, K) = seq[i]
<1> DEFINE S == {i \in 1 .. Len(seq) : seq[i] \in K}
<1>1. Len(seq) \in Nat /\ S \in SUBSET (0 .. Len(seq)) /\ S # {}
    BY DEF Has
<1>2. PICK i \in S : \A k \in S : k <= i
    <2> HIDE DEF S
    <2> QED BY <1>1, GreatestElement
<1>3. IsLastAt(seq, K, i)
    BY <1>2 DEF IsLastAt
<1>4. \E j \in 1 .. Len(seq) : IsLastAt(seq, K, j)
    BY <1>3 DEF IsLastAt
<1> QED BY <1>4 DEF LastIn

\* A place that is the last is where LastIn looks.
LEMMA LastIsAt ==
    ASSUME NEW A, NEW seq \in Seq(A), NEW K, NEW i, IsLastAt(seq, K, i)
    PROVE  Has(seq, K) /\ LastIn(seq, K) = seq[i] /\ LastIn(seq, K) \in K
<1>1. Has(seq, K) /\ i \in 1 .. Len(seq)
    BY DEF Has, IsLastAt
<1>2. PICK j \in 1 .. Len(seq) : IsLastAt(seq, K, j) /\ LastIn(seq, K) = seq[j]
    BY <1>1, LastExists
<1>3. i = j
    BY <1>2 DEF IsLastAt
<1> QED BY <1>1, <1>2, <1>3 DEF IsLastAt

\* The sequences need not be of the same set.
LEMMA ConcatIsAssociative ==
    ASSUME NEW A, NEW a \in Seq(A), NEW B, NEW b \in Seq(B), NEW C, NEW c \in Seq(C)
    PROVE  (a \o b) \o c = a \o (b \o c)
<1>1. a \in Seq(A \cup B \cup C) /\ b \in Seq(A \cup B \cup C) /\ c \in Seq(A \cup B \cup C)
    OBVIOUS
<1> QED BY <1>1

\* A sequence of one element.
LEMMA LastOfOne ==
    ASSUME NEW e, NEW K
    PROVE  /\ Has(<<e>>, K) <=> e \in K
           /\ e \in K => LastIn(<<e>>, K) = e
<1> DEFINE one == <<e>>
<1>1. one \in Seq({e}) /\ Len(one) = 1 /\ one[1] = e
    OBVIOUS
<1> HIDE DEF one
<1>2. Has(one, K) <=> e \in K
    BY <1>1 DEF Has
<1>3. e \in K => IsLastAt(one, K, 1)
    BY <1>1 DEF IsLastAt
<1>4. e \in K => LastIn(one, K) = e
    BY <1>1, <1>3, LastIsAt
<1> QED BY <1>2, <1>4 DEF one

\* More is added at the end.
LEMMA LastOfConcat ==
    ASSUME NEW A, NEW seq \in Seq(A), NEW more \in Seq(A), NEW K
    PROVE  /\ Has(seq \o more, K) <=> Has(seq, K) \/ Has(more, K)
           /\ Has(more, K) => LastIn(seq \o more, K) = LastIn(more, K)
           /\ ~Has(more, K) /\ Has(seq, K) => LastIn(seq \o more, K) = LastIn(seq, K)
<1> DEFINE all == seq \o more
<1>1. /\ all \in Seq(A) /\ Len(all) = Len(seq) + Len(more)
      /\ Len(seq) \in Nat /\ Len(more) \in Nat
      /\ \A i \in 1 .. Len(seq) : all[i] = seq[i]
      /\ \A i \in 1 .. Len(more) : all[Len(seq) + i] = more[i]
    OBVIOUS
<1>2. \A i \in 1 .. Len(all) : \/ i \in 1 .. Len(seq)
                               \/ \E j \in 1 .. Len(more) : i = Len(seq) + j
    <2> SUFFICES ASSUME NEW i \in 1 .. Len(all), i \notin 1 .. Len(seq)
                 PROVE  \E j \in 1 .. Len(more) : i = Len(seq) + j
        OBVIOUS
    <2>1. i - Len(seq) \in 1 .. Len(more) /\ i = Len(seq) + (i - Len(seq))
        BY <1>1
    <2> QED BY <2>1
<1>3. /\ \A i \in 1 .. Len(seq) : i \in 1 .. Len(all)
      /\ \A j \in 1 .. Len(more) : Len(seq) + j \in 1 .. Len(all)
    BY <1>1
<1> HIDE DEF all
<1>4. Has(all, K) <=> Has(seq, K) \/ Has(more, K)
    BY <1>1, <1>2, <1>3 DEF Has
<1>5. ASSUME Has(more, K) PROVE LastIn(all, K) = LastIn(more, K)
    <2>1. PICK i \in 1 .. Len(more) : IsLastAt(more, K, i) /\ LastIn(more, K) = more[i]
        BY <1>5, LastExists
    <2>2. ASSUME NEW j \in 1 .. Len(all), all[j] \in K PROVE j <= Len(seq) + i
        <3>1. CASE j \in 1 .. Len(seq)
            BY <1>1, <3>1
        <3>2. ASSUME NEW l \in 1 .. Len(more), j = Len(seq) + l PROVE j <= Len(seq) + i
            <4>1. more[l] \in K
                BY <1>1, <2>2, <3>2
            <4> QED BY <1>1, <2>1, <3>2, <4>1 DEF IsLastAt
        <3> QED BY <1>2, <3>1, <3>2
    <2>3. IsLastAt(all, K, Len(seq) + i)
        BY <1>1, <1>3, <2>1, <2>2 DEF IsLastAt
    <2> QED BY <1>1, <2>1, <2>3, LastIsAt
<1>6. ASSUME ~Has(more, K), Has(seq, K) PROVE LastIn(all, K) = LastIn(seq, K)
    <2>1. PICK i \in 1 .. Len(seq) : IsLastAt(seq, K, i) /\ LastIn(seq, K) = seq[i]
        BY <1>6, LastExists
    <2>2. ASSUME NEW j \in 1 .. Len(all), all[j] \in K PROVE j <= i
        <3>1. ASSUME NEW l \in 1 .. Len(more), j = Len(seq) + l PROVE FALSE
            BY <1>1, <1>6, <2>2, <3>1 DEF Has
        <3>2. j \in 1 .. Len(seq)
            BY <1>2, <3>1
        <3> QED BY <1>1, <2>1, <2>2, <3>2 DEF IsLastAt
    <2>3. IsLastAt(all, K, i)
        BY <1>1, <1>3, <2>1, <2>2 DEF IsLastAt
    <2> QED BY <1>1, <2>1, <2>3, LastIsAt
<1> QED BY <1>4, <1>5, <1>6 DEF all

\* The head is taken.
LEMMA LastOfTail ==
    ASSUME NEW A, NEW seq \in Seq(A), seq # <<>>, NEW K
    PROVE  /\ Has(seq, K) <=> Head(seq) \in K \/ Has(Tail(seq), K)
           /\ Has(Tail(seq), K) => LastIn(Tail(seq), K) = LastIn(seq, K)
           /\ ~Has(Tail(seq), K) /\ Head(seq) \in K => LastIn(seq, K) = Head(seq)
<1> DEFINE one == <<Head(seq)>>
<1>1. /\ one \in Seq(A) /\ Tail(seq) \in Seq(A) /\ seq = one \o Tail(seq)
      /\ Len(one) = 1 /\ one[1] = Head(seq)
    OBVIOUS
<1>2. /\ Has(one, K) <=> Head(seq) \in K
      /\ Head(seq) \in K => IsLastAt(one, K, 1)
    BY DEF Has, IsLastAt
<1>3. Head(seq) \in K => LastIn(one, K) = Head(seq)
    BY <1>1, <1>2, LastIsAt
<1>4. /\ Has(one \o Tail(seq), K) <=> Has(one, K) \/ Has(Tail(seq), K)
      /\ Has(Tail(seq), K) => LastIn(one \o Tail(seq), K) = LastIn(Tail(seq), K)
      /\ ~Has(Tail(seq), K) /\ Has(one, K) => LastIn(one \o Tail(seq), K) = LastIn(one, K)
    <2> DEFINE more == Tail(seq)
    <2>1. one \in Seq(A) /\ more \in Seq(A)
        BY <1>1
    <2> HIDE DEF one, more
    <2>2. /\ Has(one \o more, K) <=> Has(one, K) \/ Has(more, K)
          /\ Has(more, K) => LastIn(one \o more, K) = LastIn(more, K)
          /\ ~Has(more, K) /\ Has(one, K) => LastIn(one \o more, K) = LastIn(one, K)
        BY <2>1, LastOfConcat
    <2> QED BY <2>2 DEF more
<1> HIDE DEF one
<1> QED BY <1>1, <1>2, <1>3, <1>4

\* What passes a test: the last of K is the same, when all of K passes.
LEMMA LastOfThose ==
    ASSUME NEW A, NEW seq \in Seq(A), NEW I \in SUBSET (1 .. Len(seq)), NEW K,
           \A i \in 1 .. Len(seq) : seq[i] \in K => i \in I
    PROVE  /\ Has(Those(seq, I), K) <=> Has(seq, K)
           /\ Has(seq, K) => LastIn(Those(seq, I), K) = LastIn(seq, K)
<1> DEFINE some == Those(seq, I)
<1>1. /\ some \in Seq(A) /\ Len(some) \in Nat
      /\ \A n \in 1 .. Len(some) : InOrder(I)[n] \in I /\ some[n] = seq[InOrder(I)[n]]
      /\ \A i \in I : \E n \in 1 .. Len(some) : InOrder(I)[n] = i
      /\ \A m, n \in 1 .. Len(some) : m < n => InOrder(I)[m] < InOrder(I)[n]
    BY ThoseKeeps
<1> HIDE DEF some
<1>2. Has(some, K) => Has(seq, K)
    BY <1>1 DEF Has
<1>3. ASSUME Has(seq, K) PROVE Has(some, K) /\ LastIn(some, K) = LastIn(seq, K)
    <2>1. PICK i \in 1 .. Len(seq) : IsLastAt(seq, K, i) /\ LastIn(seq, K) = seq[i]
        BY <1>3, LastExists
    <2>2. i \in I
        BY <2>1 DEF IsLastAt
    <2>3. PICK n \in 1 .. Len(some) : InOrder(I)[n] = i
        BY <1>1, <2>2
    <2>4. some[n] = seq[i] /\ seq[i] \in K
        BY <1>1, <2>1, <2>3 DEF IsLastAt
    <2>5. ASSUME NEW m \in 1 .. Len(some), some[m] \in K PROVE m <= n
        <3>1. InOrder(I)[m] \in 1 .. Len(seq) /\ seq[InOrder(I)[m]] \in K
            BY <1>1, <2>5
        <3>2. InOrder(I)[m] <= InOrder(I)[n]
            BY <2>1, <2>3, <3>1 DEF IsLastAt
        <3>3. n < m => InOrder(I)[n] < InOrder(I)[m]
            BY <1>1
        <3>4. InOrder(I)[n] \in Nat /\ InOrder(I)[m] \in Nat
            BY <2>3, <3>1
        <3> QED BY <3>2, <3>3, <3>4
    <2>6. IsLastAt(some, K, n)
        BY <2>4, <2>5 DEF IsLastAt
    <2> QED BY <1>1, <2>1, <2>4, <2>6, LastIsAt
<1> QED BY <1>2, <1>3 DEF some

\* Every element in K has one in L before it.
Before(seq, K, L) == \A i \in 1 .. Len(seq) : seq[i] \in K => \E j \in 1 .. i - 1 : seq[j] \in L

\* What comes before in both parts comes before in the whole.
LEMMA BeforeInConcat ==
    ASSUME NEW A, NEW seq \in Seq(A), NEW more \in Seq(A), NEW K, NEW L,
           Before(seq, K, L), Before(more, K, L) \/ ~Has(more, K) \/ Has(seq, L)
    PROVE  Before(seq \o more, K, L)
<1> DEFINE all == seq \o more
<1>1. /\ all \in Seq(A) /\ Len(all) = Len(seq) + Len(more)
      /\ Len(seq) \in Nat /\ Len(more) \in Nat
      /\ \A i \in 1 .. Len(seq) : all[i] = seq[i]
      /\ \A i \in 1 .. Len(more) : all[Len(seq) + i] = more[i]
    OBVIOUS
<1> HIDE DEF all
<1>2. ASSUME NEW i \in 1 .. Len(seq), all[i] \in K PROVE \E j \in 1 .. i - 1 : all[j] \in L
    <2>1. PICK j \in 1 .. i - 1 : seq[j] \in L
        BY <1>1, <1>2 DEF Before
    <2>2. j \in 1 .. Len(seq)
        BY <1>1
    <2> QED BY <1>1, <2>1, <2>2
<1>3. ASSUME NEW i \in 1 .. Len(more), all[Len(seq) + i] \in K
      PROVE  \E j \in 1 .. Len(seq) + i - 1 : all[j] \in L
    <2>1. Has(more, K)
        BY <1>1, <1>3 DEF Has
    <2>2. CASE Has(seq, L)
        <3>1. PICK j \in 1 .. Len(seq) : seq[j] \in L
            BY <2>2 DEF Has
        <3>2. j \in 1 .. Len(seq) + i - 1
            BY <1>1
        <3> QED BY <1>1, <3>1, <3>2
    <2>3. CASE Before(more, K, L)
        <3>1. PICK j \in 1 .. i - 1 : more[j] \in L
            BY <1>1, <1>3, <2>3 DEF Before
        <3>2. j \in 1 .. Len(more) /\ Len(seq) + j \in 1 .. Len(seq) + i - 1
            BY <1>1
        <3> QED BY <1>1, <3>1, <3>2
    <2> QED BY <2>1, <2>2, <2>3
<1>4. ASSUME NEW i \in 1 .. Len(all), all[i] \in K PROVE \E j \in 1 .. i - 1 : all[j] \in L
    <2>1. CASE i \in 1 .. Len(seq)
        BY <1>2, <1>4, <2>1
    <2>2. CASE i \notin 1 .. Len(seq)
        <3>1. PICK l \in 1 .. Len(more) : i = Len(seq) + l
            <4>1. i - Len(seq) \in 1 .. Len(more) /\ i = Len(seq) + (i - Len(seq))
                BY <1>1, <2>2
            <4> QED BY <4>1
        <3> QED BY <1>3, <1>4, <3>1
    <2> QED BY <2>1, <2>2
<1> QED BY <1>4 DEF Before, all

\* What comes before still does without the head, unless that was it.
LEMMA BeforeInTail ==
    ASSUME NEW A, NEW seq \in Seq(A), seq # <<>>, NEW K, NEW L, Before(seq, K, L)
    PROVE  \/ Before(Tail(seq), K, L)
           \/ Head(seq) \in L
<1>1. /\ Tail(seq) \in Seq(A) /\ Len(Tail(seq)) = Len(seq) - 1 /\ Len(seq) \in Nat \ {0}
      /\ Head(seq) = seq[1]
      /\ \A i \in 1 .. Len(Tail(seq)) : Tail(seq)[i] = seq[i + 1]
    OBVIOUS
<1> SUFFICES ASSUME seq[1] \notin L,
                    NEW i \in 1 .. Len(Tail(seq)), Tail(seq)[i] \in K
             PROVE  \E j \in 1 .. i - 1 : Tail(seq)[j] \in L
    BY <1>1 DEF Before
<1>2. seq[i + 1] \in K /\ i + 1 \in 1 .. Len(seq)
    BY <1>1
<1>3. PICK j \in 1 .. (i + 1) - 1 : seq[j] \in L
    BY <1>2 DEF Before
<1>4. j # 1 /\ j - 1 \in 1 .. i - 1 /\ j - 1 \in 1 .. Len(Tail(seq)) /\ (j - 1) + 1 = j
    BY <1>1, <1>3
<1> QED BY <1>1, <1>3, <1>4

\* What comes before still does when nothing of it is left out.
LEMMA BeforeInThose ==
    ASSUME NEW A, NEW seq \in Seq(A), NEW I \in SUBSET (1 .. Len(seq)), NEW K, NEW L,
           \A i \in 1 .. Len(seq) : seq[i] \in L => i \in I,
           Before(seq, K, L)
    PROVE  Before(Those(seq, I), K, L)
<1> DEFINE some == Those(seq, I)
<1>1. /\ some \in Seq(A) /\ Len(some) \in Nat
      /\ \A n \in 1 .. Len(some) : InOrder(I)[n] \in I /\ some[n] = seq[InOrder(I)[n]]
      /\ \A i \in I : \E n \in 1 .. Len(some) : InOrder(I)[n] = i
      /\ \A m, n \in 1 .. Len(some) : m < n => InOrder(I)[m] < InOrder(I)[n]
    BY ThoseKeeps
<1> HIDE DEF some
<1>2. ASSUME NEW n \in 1 .. Len(some), some[n] \in K PROVE \E m \in 1 .. n - 1 : some[m] \in L
    <2>1. InOrder(I)[n] \in 1 .. Len(seq) /\ seq[InOrder(I)[n]] \in K
        BY <1>1, <1>2
    <2>2. PICK j \in 1 .. InOrder(I)[n] - 1 : seq[j] \in L
        BY <2>1 DEF Before
    <2>3. j \in 1 .. Len(seq) /\ j < InOrder(I)[n] /\ InOrder(I)[n] \in Nat
        BY <2>1, <2>2
    <2>4. PICK m \in 1 .. Len(some) : InOrder(I)[m] = j
        BY <1>1, <2>2, <2>3
    <2>5. m < n
        <3>1. n < m => InOrder(I)[n] < InOrder(I)[m]
            BY <1>1
        <3> QED BY <2>3, <2>4, <3>1
    <2> QED BY <1>1, <2>2, <2>4, <2>5
<1> QED BY <1>2 DEF Before, some

\* A sequence in two parts.
LEMMA SplitSequence ==
    ASSUME NEW A, NEW seq \in Seq(A), NEW n \in 0 .. Len(seq)
    PROVE  /\ SubSeq(seq, 1, n) \in Seq(A) /\ SubSeq(seq, n + 1, Len(seq)) \in Seq(A)
           /\ Len(SubSeq(seq, 1, n)) = n
           /\ \A i \in 1 .. n : SubSeq(seq, 1, n)[i] = seq[i]
           /\ SubSeq(seq, 1, n) \o SubSeq(seq, n + 1, Len(seq)) = seq
<1> DEFINE pre == SubSeq(seq, 1, n)
           suf == SubSeq(seq, n + 1, Len(seq))
<1>0. n \in Nat /\ Len(seq) \in Nat /\ n <= Len(seq) /\ \A i \in 1 .. Len(seq) : seq[i] \in A
    OBVIOUS
<1>1. pre \in Seq(A) /\ Len(pre) = n /\ \A i \in 1 .. n : pre[i] = seq[i]
    BY <1>0
<1>2. suf \in Seq(A) /\ Len(suf) = Len(seq) - n /\ \A i \in 1 .. Len(seq) - n : suf[i] = seq[n + i]
    BY <1>0
<1> HIDE DEF pre, suf
<1>3. SubSeq(seq, 1, n) \o SubSeq(seq, n + 1, Len(seq)) = SubSeq(seq, 1, Len(seq))
    <2>1. 1 \in 1 .. Len(seq) + 1 /\ n \in 1 - 1 .. Len(seq) /\ Len(seq) \in n .. Len(seq)
        BY <1>0
    <2> QED BY <2>1, ConcatAdjacentSubSeq
<1> QED BY <1>1, <1>2, <1>3, SubSeqFull DEF pre, suf

\* What is left of a sequence when its first part is gone.
LEMMA BeforeInRest ==
    ASSUME NEW A, NEW seq \in Seq(A), NEW more \in Seq(A), NEW K, NEW L,
           Before(seq \o more, K, L)
    PROVE  Before(more, K, L) \/ Has(seq, L)
<1> DEFINE all == seq \o more
<1>1. /\ Len(all) = Len(seq) + Len(more) /\ Len(seq) \in Nat /\ Len(more) \in Nat
      /\ \A i \in 1 .. Len(seq) : all[i] = seq[i]
      /\ \A i \in 1 .. Len(more) : all[Len(seq) + i] = more[i]
    OBVIOUS
<1>2. Before(all, K, L)
    OBVIOUS
<1> HIDE DEF all
<1> SUFFICES ASSUME ~Has(seq, L), NEW i \in 1 .. Len(more), more[i] \in K
             PROVE  \E j \in 1 .. i - 1 : more[j] \in L
    BY DEF Before
<1>3. PICK l \in 1 .. (Len(seq) + i) - 1 : all[l] \in L
    <2>1. Len(seq) + i \in 1 .. Len(all) /\ all[Len(seq) + i] \in K
        BY <1>1
    <2> QED BY <1>2, <2>1 DEF Before
<1>4. l \notin 1 .. Len(seq)
    BY <1>1, <1>3 DEF Has
<1>5. l - Len(seq) \in 1 .. i - 1 /\ l - Len(seq) \in 1 .. Len(more) /\ l = Len(seq) + (l - Len(seq))
    BY <1>1, <1>3, <1>4
<1> QED BY <1>1, <1>3, <1>5
=============================================================================
