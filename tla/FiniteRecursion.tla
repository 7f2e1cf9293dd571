-------------------------- MODULE FiniteRecursion --------------------------
(***************************************************************************)
(* Induction and recursion over numbers, over sequences and over the       *)
(* subsets of a finite set, stated with sets and functions instead of      *)
(* operators so that they can be cited with the instances the other proofs *)
(* need.  They are about no particular component: the sums of AuthPam, the *)
(* stream positions of MsgRead and the folds of the other modules rest on  *)
(* them.                                                                   *)
(***************************************************************************)
EXTENDS Integers, FiniteSets, Functions, FiniteSetTheorems, SequenceTheorems, WellFoundedInduction, TLAPS

\* Every set of numbers that is not empty has a least one.
LEMMA LeastNumber ==
    ASSUME NEW T, T \subseteq Nat, T # {}
    PROVE  \E n \in T : \A m \in T : n <= m
  <1> DEFINE R == OpToRel(<, Nat)
  <1>1. IsWellFoundedOn(R, Nat)
    BY NatLessThanWellFounded, Zenon
  <1>2. PICK x \in T : \A y \in T : ~(<<y, x>> \in R)
    <2> HIDE DEF R
    <2> QED
      BY <1>1, WFMin
  <1>3. \A y \in T : ~(y < x)
    BY <1>2 DEF OpToRel
  <1> QED
    BY <1>3

\* A set that has 0, and with a number the next one, has all.
LEMMA NumberInduction ==
    ASSUME NEW T, 0 \in T, \A n \in Nat : n \in T => n + 1 \in T
    PROVE  Nat \subseteq T
  <1> DEFINE C == Nat \ T
  <1>1. SUFFICES ASSUME C # {} PROVE FALSE
    OBVIOUS
  <1>2. PICK n \in C : \A m \in C : n <= m
    BY <1>1, LeastNumber
  <1>3. n # 0
    OBVIOUS
  <1>4. n - 1 \in Nat /\ n - 1 \in T
    BY <1>2, <1>3
  <1> QED
    BY <1>4

\* A set that has the empty sequence, and with a sequence every one that is an
\* element longer, has all.
LEMMA SequenceInduction ==
    ASSUME NEW S, NEW T, <<>> \in T, \A s \in Seq(S) : \A e \in S : s \in T => Append(s, e) \in T
    PROVE  Seq(S) \subseteq T
  <1> DEFINE N == {n \in Nat : \A s \in Seq(S) : Len(s) = n => s \in T}
  <1>1. 0 \in N
    <2>1. \A s \in Seq(S) : Len(s) = 0 => s = <<>>
      BY EmptySeq
    <2> QED
      BY <2>1
  <1>2. ASSUME NEW n \in Nat, n \in N
        PROVE  n + 1 \in N
    <2>1. SUFFICES ASSUME NEW s \in Seq(S), Len(s) = n + 1
                   PROVE  s \in T
      OBVIOUS
    <2>2. s # <<>>
      BY <2>1
    <2>3. PICK r \in Seq(S), e \in S : s = Append(r, e)
      BY <2>2, SequenceEmptyOrAppend
    <2>4. Len(r) = n
      BY <2>1, <2>3
    <2> QED
      BY <1>2, <2>3, <2>4
  <1> HIDE DEF N
  <1>3. Nat \subseteq N
    BY <1>1, <1>2, NumberInduction
  <1>4. \A s \in Seq(S) : Len(s) \in N
    BY <1>3
  <1> QED
    BY <1>4 DEF N

\* A set T that has {}, and s whenever it has every s without an element of it,
\* has all subsets of S.
LEMMA SubsetInduction ==
    ASSUME NEW S, IsFiniteSet(S), NEW T, {} \in T,
           \A s \in SUBSET S : s # {} /\ (\A x \in s : s \ {x} \in T) => s \in T
    PROVE  SUBSET S \subseteq T
  <1> DEFINE N == {n \in Nat : \A s \in SUBSET S : Cardinality(s) = n => s \in T}
  <1>1. \A s \in SUBSET S : IsFiniteSet(s) /\ Cardinality(s) \in Nat
    BY FS_Subset, FS_CardinalityType
  <1>2. 0 \in N
    BY <1>1, FS_EmptySet
  <1>3. ASSUME NEW n \in Nat, n \in N
        PROVE  n + 1 \in N
    <2>1. SUFFICES ASSUME NEW s \in SUBSET S, Cardinality(s) = n + 1
                   PROVE  s \in T
      OBVIOUS
    <2>2. s # {}
      <3>1. Cardinality({}) = 0
        BY FS_EmptySet
      <3>2. Cardinality(s) # 0
        BY <2>1
      <3> QED
        BY <3>1, <3>2
    <2>3. \A x \in s : Cardinality(s \ {x}) = n
      BY <1>1, <2>1, FS_RemoveElement
    <2>4. \A x \in s : s \ {x} \in T
      BY <1>3, <2>3
    <2> QED
      BY <2>2, <2>4
  <1> HIDE DEF N
  <1>4. Nat \subseteq N
    BY <1>2, <1>3, NumberInduction
  <1> QED
    BY <1>1, <1>4 DEF N

\* There is a function on the subsets of S that is base on the empty set and,
\* on any other set s, h of the element c[s] and of its value on the rest.
Recurs(S, V, base, c, h) ==
    \E g \in [SUBSET S -> V] :
        \A s \in SUBSET S : g[s] = IF s = {} THEN base ELSE h[c[s]][g[s \ {c[s]}]]

\* A recursion that takes one element off a finite set at a time defines a
\* function.
LEMMA SetRecursion ==
    ASSUME NEW S, IsFiniteSet(S), NEW V, NEW base \in V,
           NEW c, \A s \in SUBSET S : s # {} => c[s] \in s,
           NEW h \in [S -> [V -> V]]
    PROVE  Recurs(S, V, base, c, h)
  <1> DEFINE Good(g, s) == g[s] = IF s = {} THEN base ELSE h[c[s]][g[s \ {c[s]}]]
             UpTo(n) == \E g \in [SUBSET S -> V] :
                          \A s \in SUBSET S : Cardinality(s) <= n => Good(g, s)
             N == {n \in Nat : UpTo(n)}
  <1>1. /\ \A s \in SUBSET S : IsFiniteSet(s) /\ Cardinality(s) \in Nat
        /\ \A s \in SUBSET S : Cardinality(s) = 0 <=> s = {}
        /\ \A s \in SUBSET S : \A x \in s : Cardinality(s \ {x}) = Cardinality(s) - 1
    BY FS_Subset, FS_CardinalityType, FS_EmptySet, FS_RemoveElement
  <1>2. 0 \in N
    <2> DEFINE g == [s \in SUBSET S |-> base]
    <2>1. g \in [SUBSET S -> V]
      OBVIOUS
    <2>2. \A s \in SUBSET S : Cardinality(s) <= 0 => Good(g, s)
      BY <1>1
    <2> QED
      BY <2>1, <2>2
  <1>3. ASSUME NEW n \in Nat, n \in N
        PROVE  n + 1 \in N
    <2>1. PICK g \in [SUBSET S -> V] : \A s \in SUBSET S : Cardinality(s) <= n => Good(g, s)
      BY <1>3
    <2> DEFINE k == [s \in SUBSET S |-> IF s = {} THEN base ELSE h[c[s]][g[s \ {c[s]}]]]
    <2>2. k \in [SUBSET S -> V]
      <3>1. ASSUME NEW s \in SUBSET S, s # {}
            PROVE  h[c[s]][g[s \ {c[s]}]] \in V
        <4>1. c[s] \in S /\ s \ {c[s]} \in SUBSET S
          BY <3>1
        <4> QED
          BY <4>1
      <3> QED
        BY <3>1
    <2>3. ASSUME NEW s \in SUBSET S, Cardinality(s) <= n
          PROVE  k[s] = g[s]
      BY <2>1, <2>3
    <2>4. ASSUME NEW s \in SUBSET S, Cardinality(s) <= n + 1
          PROVE  Good(k, s)
      <3>1. CASE s = {}
        BY <3>1
      <3>2. CASE s # {}
        <4>1. c[s] \in s /\ s \ {c[s]} \in SUBSET S
          BY <3>2
        <4>2. Cardinality(s \ {c[s]}) <= n
          BY <1>1, <2>4, <4>1
        <4>3. k[s \ {c[s]}] = g[s \ {c[s]}]
          BY <2>3, <4>1, <4>2
        <4> QED
          BY <3>2, <4>3
      <3> QED
        BY <3>1, <3>2
    <2> HIDE DEF k
    <2>5. UpTo(n + 1)
      BY <2>2, <2>4
    <2> HIDE DEF UpTo
    <2> QED
      BY <2>5
  <1> HIDE DEF N
  <1>4. Nat \subseteq N
    BY <1>2, <1>3, NumberInduction
  <1>5. PICK g \in [SUBSET S -> V] : \A s \in SUBSET S : Cardinality(s) <= Cardinality(S) => Good(g, s)
    BY <1>1, <1>4 DEF N
  <1>6. \A s \in SUBSET S : Cardinality(s) <= Cardinality(S)
    BY FS_Subset
  <1> QED
    BY <1>5, <1>6 DEF Recurs

\* There is a function on 0..n that is base on 0 and h[i] of its value on i - 1
\* on every other i.
RecursTo(n, V, base, h) ==
    \E g \in [0..n -> V] : \A i \in 0..n : g[i] = IF i = 0 THEN base ELSE h[i][g[i - 1]]

\* A recursion over numbers defines a function.
LEMMA NumberRecursion ==
    ASSUME NEW n \in Nat, NEW V, NEW base \in V, NEW h \in [1..n -> [V -> V]]
    PROVE  RecursTo(n, V, base, h)
  <1> DEFINE Good(g, i) == g[i] = IF i = 0 THEN base ELSE h[i][g[i - 1]]
             UpTo(k) == \E g \in [0..n -> V] : \A i \in 0..n : i <= k => Good(g, i)
             N == {k \in Nat : UpTo(k)}
  <1>1. 0 \in N
    <2> DEFINE g == [i \in 0..n |-> base]
    <2>1. g \in [0..n -> V]
      OBVIOUS
    <2>2. \A i \in 0..n : i <= 0 => Good(g, i)
      OBVIOUS
    <2> HIDE DEF g
    <2>3. UpTo(0)
      BY <2>1, <2>2
    <2> QED
      BY <2>3
  <1>2. ASSUME NEW k \in Nat, k \in N
        PROVE  k + 1 \in N
    <2>1. PICK g \in [0..n -> V] : \A i \in 0..n : i <= k => Good(g, i)
      BY <1>2
    <2> DEFINE f == [i \in 0..n |-> IF i = 0 THEN base ELSE h[i][g[i - 1]]]
    <2>2. f \in [0..n -> V]
      <3>1. ASSUME NEW i \in 0..n, i # 0
            PROVE  h[i][g[i - 1]] \in V
        <4>1. i \in 1..n /\ i - 1 \in 0..n
          BY <3>1
        <4>2. h[i] \in [V -> V] /\ g[i - 1] \in V
          BY <4>1
        <4> QED
          BY <4>2
      <3> QED
        BY <3>1
    <2>3. \A i \in 0..n : i <= k => f[i] = g[i]
      BY <2>1
    <2>4. ASSUME NEW i \in 0..n, i <= k + 1
          PROVE  Good(f, i)
      <3>1. CASE i = 0
        BY <3>1
      <3>2. CASE i # 0
        <4>1. i - 1 \in 0..n /\ i - 1 <= k
          BY <2>4, <3>2
        <4>2. f[i - 1] = g[i - 1]
          BY <2>3, <4>1
        <4> QED
          BY <3>2, <4>2
      <3> QED
        BY <3>1, <3>2
    <2> HIDE DEF f
    <2>5. UpTo(k + 1)
      BY <2>2, <2>4
    <2> HIDE DEF UpTo
    <2> QED
      BY <2>5
  <1> HIDE DEF N
  <1>3. Nat \subseteq N
    BY <1>1, <1>2, NumberInduction
  <1>4. PICK g \in [0..n -> V] : \A i \in 0..n : i <= n => Good(g, i)
    BY <1>3 DEF N
  <1> QED
    BY <1>4 DEF RecursTo

\* The greatest element of a set of numbers.
Greatest(s) == CHOOSE x \in s : \A y \in s : x >= y

\* A set of numbers up to n that is not empty has a greatest one.
LEMMA GreatestNumber ==
    ASSUME NEW n \in Nat, NEW s \in SUBSET (1..n), s # {}
    PROVE  Greatest(s) \in s /\ \A y \in s : y <= Greatest(s)
  <1> DEFINE T == {k \in Nat : \E x \in s : k = n - x}
  <1>1. T \subseteq Nat /\ T # {}
    <2>1. PICK x \in s : TRUE
      OBVIOUS
    <2>2. x \in 1..n
      OBVIOUS
    <2>3. n - x \in Nat
      BY <2>2
    <2> QED
      BY <2>3
  <1>2. PICK k \in T : \A l \in T : k <= l
    <2> HIDE DEF T
    <2> QED
      BY <1>1, LeastNumber
  <1>3. PICK x \in s : k = n - x
    OBVIOUS
  <1>4. ASSUME NEW y \in s
        PROVE  x >= y
    <2>1. x \in 1..n /\ y \in 1..n
      OBVIOUS
    <2>2. n - y \in T
      BY <2>1
    <2>3. n - x <= n - y
      BY <1>2, <1>3, <2>2
    <2> QED
      BY <2>1, <2>3
  <1>5. Greatest(s) \in s /\ \A y \in s : Greatest(s) >= y
    BY <1>4 DEF Greatest
  <1>6. \A y \in s : y \in Nat
    OBVIOUS
  <1> QED
    BY <1>5, <1>6

\* iter folds sets of positions up to n, the greatest position last; as long as
\* it yields values in V, its steps are those of h.
IsFold(iter, n, V, base, h) ==
    /\ iter[{}] = base
    /\ \A s \in SUBSET (1..n) :
         s # {} /\ iter[s \ {Greatest(s)}] \in V =>
           iter[s] = h[Greatest(s)][iter[s \ {Greatest(s)}]]

\* g takes the steps h[1], h[2], ... one after the other.
IsRun(g, n, V, base, h) ==
    /\ g \in [0..n -> V]
    /\ g[0] = base
    /\ \A i \in 1..n : g[i] = h[i][g[i - 1]]

\* A fold that takes the greatest position off a set first, which is how a
\* sequence is folded from its left, ends where the run does.
LEMMA FoldIsRun ==
    ASSUME NEW n \in Nat, NEW V, NEW base, NEW h, NEW g, NEW iter,
           IsFold(iter, n, V, base, h), IsRun(g, n, V, base, h)
    PROVE  iter[1..n] = g[n]
  <1> DEFINE T == {k \in Nat : k \in 0..n => iter[1..k] = g[k]}
  <1>1. 0 \in T
    <2>1. 1..0 = {}
      OBVIOUS
    <2> QED
      BY <2>1 DEF IsRun, IsFold
  <1>2. ASSUME NEW k \in Nat, k \in T
        PROVE  k + 1 \in T
    <2>1. SUFFICES ASSUME k + 1 \in 0..n
                   PROVE  iter[1..(k + 1)] = g[k + 1]
      OBVIOUS
    <2> DEFINE m == k + 1
               s == 1..m
    <2>2. m \in 1..n /\ m - 1 = k /\ k \in 0..n
      BY <2>1
    <2>3. s \in SUBSET (1..n) /\ m \in s /\ s # {} /\ \A j \in s : j \in Nat /\ j <= m
      BY <2>2
    <2>4. s \ {m} = 1..k
      OBVIOUS
    <2>5. iter[1..k] = g[k] /\ g[k] \in V
      BY <1>2, <2>2 DEF IsRun
    <2> HIDE DEF T, m, s
    <2>6. Greatest(s) \in s /\ \A j \in s : j <= Greatest(s)
      BY <2>3, GreatestNumber
    <2>7. Greatest(s) = m
      <3>1. Greatest(s) \in Nat /\ m \in Nat /\ m <= Greatest(s) /\ Greatest(s) <= m
        BY <2>2, <2>3, <2>6
      <3> QED
        BY <3>1
    <2>8. iter[s] = h[m][iter[s \ {m}]]
      BY <2>3, <2>4, <2>5, <2>7 DEF IsFold
    <2>9. g[m] = h[m][g[k]]
      BY <2>2 DEF IsRun
    <2>10. iter[s] = g[m]
      BY <2>4, <2>5, <2>8, <2>9
    <2> QED
      BY <2>10 DEF m, s
  <1> HIDE DEF T
  <1>3. Nat \subseteq T
    BY <1>1, <1>2, NumberInduction
  <1>4. n \in T /\ n \in 0..n
    BY <1>3
  <1> QED
    BY <1>4 DEF T

\* The fold is defined.
FoldExists(n, V, base, h) ==
    \E f \in [SUBSET (1..n) -> V] :
        \A s \in SUBSET (1..n) :
            f[s] = IF s = {} THEN base ELSE h[Greatest(s)][f[s \ {Greatest(s)}]]

\* Steps that map values to values define a fold.
LEMMA FoldRecursion ==
    ASSUME NEW n \in Nat, NEW V, NEW base \in V, NEW h \in [1..n -> [V -> V]]
    PROVE  FoldExists(n, V, base, h)
  <1> DEFINE c == [s \in SUBSET (1..n) |-> Greatest(s)]
             S == 1..n
  <1>1. \A s \in SUBSET S : s # {} => c[s] \in s
    BY GreatestNumber
  <1>2. \A s \in SUBSET S : c[s] = Greatest(s)
    OBVIOUS
  <1>3. IsFiniteSet(S)
    BY FS_Interval
  <1> HIDE DEF c
  <1>4. Recurs(S, V, base, c, h)
    <2>1. h \in [S -> [V -> V]]
      OBVIOUS
    <2> HIDE DEF S
    <2> QED
      BY <1>1, <1>3, <2>1, SetRecursion
  <1>5. PICK f \in [SUBSET S -> V] :
          \A s \in SUBSET S : f[s] = IF s = {} THEN base ELSE h[c[s]][f[s \ {c[s]}]]
    BY <1>4 DEF Recurs
  <1>6. \A s \in SUBSET S :
          f[s] = IF s = {} THEN base ELSE h[Greatest(s)][f[s \ {Greatest(s)}]]
    BY <1>2, <1>5
  <1> QED
    BY <1>6 DEF FoldExists

\* There is a function on X that is final outside D and, on an x in D, h[x] of
\* its value on j[x].
Jumps(X, V, D, final, j, h) ==
    \E f \in [X -> V] : \A x \in X : f[x] = IF x \in D THEN h[x][f[j[x]]] ELSE final[x]

\* A recursion that jumps from each number up to n to a greater one, or stops,
\* defines a function.
LEMMA JumpRecursion ==
    ASSUME NEW n \in Nat, NEW V, NEW D \in SUBSET (0..n),
           NEW final \in [0..n -> V], NEW j, NEW h \in [0..n -> [V -> V]],
           \A x \in D : j[x] \in 0..n /\ x < j[x]
    PROVE  Jumps(0..n, V, D, final, j, h)
  <1> DEFINE Good(f, x) == f[x] = IF x \in D THEN h[x][f[j[x]]] ELSE final[x]
             Down(k) == \E f \in [0..n -> V] : \A x \in 0..n : x >= n - k => Good(f, x)
             N == {k \in Nat : Down(k)}
  <1>1. 0 \in N
    <2>1. final \in [0..n -> V] /\ \A x \in 0..n : x >= n - 0 => Good(final, x)
      <3>1. ASSUME NEW x \in 0..n, x >= n - 0
            PROVE  x \notin D
        <4>1. x = n
          BY <3>1
        <4> QED
          BY <4>1
      <3> QED
        BY <3>1
    <2>2. Down(0)
      BY <2>1
    <2> QED
      BY <2>2
  <1>2. ASSUME NEW k \in Nat, k \in N
        PROVE  k + 1 \in N
    <2>1. PICK f \in [0..n -> V] : \A x \in 0..n : x >= n - k => Good(f, x)
      BY <1>2
    <2> DEFINE e == [x \in 0..n |-> IF x \in D THEN h[x][f[j[x]]] ELSE final[x]]
    <2>2. e \in [0..n -> V]
      <3>1. ASSUME NEW x \in D
            PROVE  h[x][f[j[x]]] \in V
        <4>1. h[x] \in [V -> V] /\ f[j[x]] \in V
          BY <3>1
        <4> QED
          BY <4>1
      <3> QED
        BY <3>1
    <2>3. \A x \in 0..n : x >= n - k => e[x] = f[x]
      BY <2>1
    <2>4. ASSUME NEW x \in 0..n, x >= n - (k + 1)
          PROVE  Good(e, x)
      <3>1. CASE x \in D
        <4>1. j[x] \in 0..n /\ j[x] >= n - k
          BY <2>4, <3>1
        <4>2. e[j[x]] = f[j[x]]
          BY <2>3, <4>1
        <4> QED
          BY <3>1, <4>2
      <3>2. CASE x \notin D
        BY <3>2
      <3> QED
        BY <3>1, <3>2
    <2> HIDE DEF e
    <2>5. Down(k + 1)
      BY <2>2, <2>4
    <2> HIDE DEF Down
    <2> QED
      BY <2>5
  <1> HIDE DEF N
  <1>3. Nat \subseteq N
    BY <1>1, <1>2, NumberInduction
  <1>4. PICK f \in [0..n -> V] : \A x \in 0..n : x >= n - n => Good(f, x)
    BY <1>3 DEF N
  <1> QED
    BY <1>4 DEF Jumps

\* A set that has every number up to n whose greater ones it has, has all.
LEMMA DownwardInduction ==
    ASSUME NEW n \in Nat, NEW T,
           \A x \in 0..n : (\A y \in 0..n : y > x => y \in T) => x \in T
    PROVE  0..n \subseteq T
  <1> DEFINE N == {k \in Nat : \A x \in 0..n : x >= n - k => x \in T}
  <1>1. 0 \in N
    <2>1. \A x \in 0..n : x >= n - 0 => x = n /\ \A y \in 0..n : ~(y > x)
      OBVIOUS
    <2> QED
      BY <2>1
  <1>2. ASSUME NEW k \in Nat, k \in N
        PROVE  k + 1 \in N
    <2>1. ASSUME NEW x \in 0..n, x >= n - (k + 1)
          PROVE  x \in T
      <3>1. \A y \in 0..n : y > x => y >= n - k
        BY <2>1
      <3> QED
        BY <1>2, <3>1
    <2> QED
      BY <2>1
  <1> HIDE DEF N
  <1>3. Nat \subseteq N
    BY <1>1, <1>2, NumberInduction
  <1>4. n \in N
    BY <1>3
  <1> QED
    BY <1>4 DEF N

-----------------------------------------------------------------------------
(* Sums. *)

\* The element a sum takes off a set next.
Pick(s) == CHOOSE t \in s : TRUE

\* g[s] is the sum of the tally over s, for every subset s of S.
SumsUp(g, S, tally) ==
    /\ g \in [SUBSET S -> Nat]
    /\ \A s \in SUBSET S :
         g[s] = IF s = {} THEN 0 ELSE tally[Pick(s)] + g[s \ {Pick(s)}]

\* What the recursion of a sum says, taken apart.
LEMMA SumStep ==
    ASSUME NEW S, NEW g, NEW tally, SumsUp(g, S, tally)
    PROVE  /\ g[{}] = 0
           /\ \A s \in SUBSET S :
                s # {} => /\ Pick(s) \in s /\ Pick(s) \in S
                          /\ s \ {Pick(s)} \in SUBSET S
                          /\ g[s] = tally[Pick(s)] + g[s \ {Pick(s)}]
  <1>1. g[{}] = 0
    <2>1. {} \in SUBSET S
      OBVIOUS
    <2> QED
      BY <2>1 DEF SumsUp
  <1>2. ASSUME NEW s \in SUBSET S, s # {}
        PROVE  Pick(s) \in s
    BY <1>2 DEF Pick
  <1> QED
    BY <1>1, <1>2 DEF SumsUp

\* SumFunctionOnSet is what its recursion says: the recursive function inside
\* the fold exists.
LEMMA SumRecursion ==
    ASSUME NEW S, IsFiniteSet(S), NEW tally, \A t \in S : tally[t] \in Nat
    PROVE  \E g : SumsUp(g, S, tally) /\ SumFunctionOnSet(tally, S) = g[S]
  <1> DEFINE Def(g) == [s \in SUBSET S |->
                          IF s = {} THEN 0
                          ELSE tally[CHOOSE t \in s : TRUE] + g[s \ {CHOOSE t \in s : TRUE}]]
             iter == CHOOSE g : g = Def(g)
             c == [s \in SUBSET S |-> Pick(s)]
             h == [t \in S |-> [v \in Nat |-> tally[t] + v]]
  <1>1. SumFunctionOnSet(tally, S) = iter[S]
    BY DEF SumFunctionOnSet, FoldFunctionOnSet, MapThenFoldSet
  <1>2. \A s \in SUBSET S : s # {} => c[s] \in s
    BY DEF Pick
  <1>3. h \in [S -> [Nat -> Nat]] /\ 0 \in Nat
    OBVIOUS
  <1>4. \E g : g = Def(g)
    <2> HIDE DEF c, h
    <2>0. Recurs(S, Nat, 0, c, h)
      BY <1>2, <1>3, SetRecursion
    <2>1. PICK g \in [SUBSET S -> Nat] :
            \A s \in SUBSET S : g[s] = IF s = {} THEN 0 ELSE h[c[s]][g[s \ {c[s]}]]
      BY <2>0 DEF Recurs
    <2>2. ASSUME NEW s \in SUBSET S, s # {}
          PROVE  g[s] = tally[Pick(s)] + g[s \ {Pick(s)}]
      <3>1. c[s] = Pick(s) /\ c[s] \in S /\ s \ {c[s]} \in SUBSET S
        BY <1>2, <2>2 DEF c
      <3>2. h[c[s]][g[s \ {c[s]}]] = tally[c[s]] + g[s \ {c[s]}]
        BY <3>1 DEF h
      <3> QED
        BY <2>1, <2>2, <3>1, <3>2
    <2>3. g = Def(g)
      BY <2>1, <2>2 DEF Pick
    <2> QED
      BY <2>3
  <1>5. iter = Def(iter)
    <2> HIDE DEF Def
    <2> QED
      BY <1>4
  <1> HIDE DEF iter
  <1>6. /\ DOMAIN iter = SUBSET S
        /\ \A s \in SUBSET S : iter[s] = IF s = {} THEN 0 ELSE tally[Pick(s)] + iter[s \ {Pick(s)}]
    BY <1>5 DEF Pick
  <1>7. iter = [s \in SUBSET S |-> iter[s]]
    BY <1>5
  <1> HIDE DEF Def
  <1> DEFINE T == {s \in SUBSET S : iter[s] \in Nat}
  <1>8. {} \in T
    <2>1. {} \in SUBSET S
      OBVIOUS
    <2>2. iter[{}] = 0
      BY <1>6, <2>1
    <2> QED
      BY <2>1, <2>2
  <1>9. ASSUME NEW s \in SUBSET S, s # {}, \A x \in s : s \ {x} \in T
        PROVE  s \in T
    <2>1. Pick(s) \in s
      BY <1>9 DEF Pick
    <2>2. iter[s] = tally[Pick(s)] + iter[s \ {Pick(s)}]
      BY <1>6, <1>9
    <2>3. tally[Pick(s)] \in Nat /\ iter[s \ {Pick(s)}] \in Nat
      BY <1>9, <2>1
    <2> QED
      BY <2>2, <2>3
  <1> HIDE DEF T
  <1>10. SUBSET S \subseteq T
    BY <1>8, <1>9, SubsetInduction
  <1>11. iter \in [SUBSET S -> Nat]
    BY <1>7, <1>10 DEF T
  <1> QED
    BY <1>1, <1>6, <1>11 DEF SumsUp

\* A sum can be taken in any order.
LEMMA SumAnyOrder ==
    ASSUME NEW S, IsFiniteSet(S), NEW tally, \A t \in S : tally[t] \in Nat,
           NEW g, SumsUp(g, S, tally)
    PROVE  \A s \in SUBSET S : \A x \in s : g[s] = tally[x] + g[s \ {x}]
  <1> DEFINE T == {s \in SUBSET S : \A x \in s : g[s] = tally[x] + g[s \ {x}]}
  <1>1. {} \in T
    OBVIOUS
  <1>2. ASSUME NEW s \in SUBSET S, s # {}, \A x \in s : s \ {x} \in T
        PROVE  s \in T
    <2>1. SUFFICES ASSUME NEW x \in s
                   PROVE  g[s] = tally[x] + g[s \ {x}]
      OBVIOUS
    <2> DEFINE y == Pick(s)
    <2>2. y \in s /\ g[s] = tally[y] + g[s \ {y}]
      BY <1>2, SumStep
    <2>3. CASE x = y
      BY <2>2, <2>3
    <2>4. CASE x # y
      <3> HIDE DEF y
      <3>1. x \in s \ {y} /\ y \in s \ {x} /\ s \ {y} \in T /\ s \ {x} \in T
        BY <1>2, <2>1, <2>2, <2>4
      <3>2. g[s \ {y}] = tally[x] + g[(s \ {y}) \ {x}]
        BY <3>1
      <3>3. g[s \ {x}] = tally[y] + g[(s \ {x}) \ {y}]
        BY <3>1
      <3>4. (s \ {x}) \ {y} = (s \ {y}) \ {x}
        OBVIOUS
      <3> DEFINE w == g[(s \ {y}) \ {x}]
      <3>5. tally[x] \in Nat /\ tally[y] \in Nat /\ w \in Nat
        BY <2>2 DEF SumsUp
      <3>6. g[s] = tally[y] + (tally[x] + w) /\ g[s \ {x}] = tally[y] + w
        BY <2>2, <3>2, <3>3, <3>4
      <3> HIDE DEF w, T
      <3> QED
        BY <3>5, <3>6
    <2> QED
      BY <2>3, <2>4
  <1> HIDE DEF T
  <1>3. SUBSET S \subseteq T
    BY <1>1, <1>2, SubsetInduction
  <1> QED
    BY <1>3 DEF T

\* An element more makes the sum greater by its value.
LEMMA SumAdd ==
    ASSUME NEW S, IsFiniteSet(S), NEW tally, \A t \in S : tally[t] \in Nat,
           NEW x, x \notin S, tally[x] \in Nat
    PROVE  /\ SumFunctionOnSet(tally, S) \in Nat
           /\ SumFunctionOnSet(tally, S \cup {x}) = SumFunctionOnSet(tally, S) + tally[x]
  <1> DEFINE U == S \cup {x}
  <1>1. IsFiniteSet(U) /\ (\A t \in U : tally[t] \in Nat) /\ S \in SUBSET U
        /\ U \in SUBSET U /\ x \in U /\ U \ {x} = S
    BY FS_AddElement
  <1> HIDE DEF U
  <1>2. PICK a : SumsUp(a, S, tally) /\ SumFunctionOnSet(tally, S) = a[S]
    BY SumRecursion
  <1>3. PICK b : SumsUp(b, U, tally) /\ SumFunctionOnSet(tally, U) = b[U]
    BY <1>1, SumRecursion
  <1>4. b[U] = tally[x] + b[S]
    BY <1>1, <1>3, SumAnyOrder
  <1> DEFINE T == {s \in SUBSET S : b[s] = a[s]}
  <1>5. {} \in T
    <2>1. a[{}] = 0
      BY <1>2, SumStep
    <2>2. b[{}] = 0
      BY <1>3, SumStep
    <2> QED
      BY <2>1, <2>2
  <1>6. ASSUME NEW s \in SUBSET S, s # {}, \A y \in s : s \ {y} \in T
        PROVE  s \in T
    <2>1. Pick(s) \in s /\ a[s] = tally[Pick(s)] + a[s \ {Pick(s)}]
      BY <1>2, <1>6, SumStep
    <2>2. s \in SUBSET U
      BY <1>1
    <2>3. b[s] = tally[Pick(s)] + b[s \ {Pick(s)}]
      BY <1>3, <1>6, <2>2, SumStep
    <2> QED
      BY <1>6, <2>1, <2>3
  <1> HIDE DEF T
  <1>7. SUBSET S \subseteq T
    BY <1>5, <1>6, SubsetInduction
  <1>8. b[S] = a[S]
    BY <1>7 DEF T
  <1>9. a[S] \in Nat
    BY <1>2 DEF SumsUp
  <1> QED
    BY <1>2, <1>3, <1>4, <1>8, <1>9 DEF U

\* Elements without a value do not change a sum.
LEMMA SumAddNothing ==
    ASSUME NEW S, IsFiniteSet(S), NEW tally, \A t \in S : tally[t] \in Nat,
           NEW Z, IsFiniteSet(Z), \A t \in Z : tally[t] = 0
    PROVE  SumFunctionOnSet(tally, S \cup Z) = SumFunctionOnSet(tally, S)
  <1> DEFINE T == {z \in SUBSET Z : SumFunctionOnSet(tally, S \cup z) = SumFunctionOnSet(tally, S)}
  <1>1. {} \in T
    <2>1. S \cup {} = S
      OBVIOUS
    <2> QED
      BY <2>1
  <1>2. ASSUME NEW z \in SUBSET Z, z # {}, \A y \in z : z \ {y} \in T
        PROVE  z \in T
    <2>1. PICK y \in z : TRUE
      BY <1>2
    <2> DEFINE r == z \ {y}
               R == S \cup r
    <2>2. r \in T /\ SumFunctionOnSet(tally, R) = SumFunctionOnSet(tally, S)
      BY <1>2
    <2>3. CASE y \in R
      <3>1. R = S \cup z
        BY <2>3
      <3> QED
        BY <2>2, <3>1
    <2>4. CASE y \notin R
      <3>1. IsFiniteSet(r)
        BY FS_Subset
      <3>2. /\ (\A t \in R : tally[t] \in Nat) /\ tally[y] = 0 /\ tally[y] \in Nat
            /\ R \cup {y} = S \cup z
        OBVIOUS
      <3> HIDE DEF r
      <3>5. IsFiniteSet(R)
        BY <3>1, FS_Union
      <3> HIDE DEF R, T
      <3>3. /\ SumFunctionOnSet(tally, R) \in Nat
            /\ SumFunctionOnSet(tally, R \cup {y}) = SumFunctionOnSet(tally, R) + tally[y]
        BY <2>4, <3>2, <3>5, SumAdd
      <3>4. SumFunctionOnSet(tally, S \cup z) = SumFunctionOnSet(tally, S)
        BY <2>2, <3>2, <3>3
      <3> QED
        BY <3>4 DEF T
    <2> QED
      BY <2>3, <2>4
  <1> HIDE DEF T
  <1>3. SUBSET Z \subseteq T
    BY <1>1, <1>2, SubsetInduction
  <1> QED
    BY <1>3 DEF T

\* The sum over nothing is 0.
LEMMA SumOfNone ==
    ASSUME NEW tally
    PROVE  SumFunctionOnSet(tally, {}) = 0
  <1>1. PICK g : SumsUp(g, {}, tally) /\ SumFunctionOnSet(tally, {}) = g[{}]
    BY FS_EmptySet, SumRecursion
  <1> QED
    BY <1>1, SumStep
=============================================================================
