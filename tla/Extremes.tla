-------------------------------- MODULE Extremes --------------------------------
(***************************************************************************)
(* A set of naturals has a least element, and a bounded one a greatest.    *)
(* The proofs use the two in the place of induction: of the sizes at which *)
(* a claim fails, take the smallest.  From them: what a greedy pass over a *)
(* finite set in some order keeps is well defined.                         *)
(***************************************************************************)
EXTENDS Naturals, FiniteSets, FiniteSetTheorems, WellFoundedInduction, TLAPS

(* The smallest size at which a claim fails, if there is any. *)
LEMMA LeastElement ==
    ASSUME NEW S \in SUBSET Nat, S # {}
    PROVE  \E x \in S : \A y \in S : x <= y
<1> DEFINE Below == OpToRel(<, Nat)
<1>1. IsWellFoundedOn(Below, Nat)
  BY NatLessThanWellFounded
<1>2. \A a, b \in Nat : a < b => <<a, b>> \in Below
  BY DEF OpToRel
<1> HIDE DEF Below
<1>3. PICK x \in S : \A y \in S : ~(<<y, x>> \in Below)
  BY <1>1, WFMin
<1>4. ASSUME NEW y \in S PROVE x <= y
  <2>1. x \in Nat /\ y \in Nat
    OBVIOUS
  <2>2. ~(y < x)
    BY <1>2, <1>3, <2>1
  <2> QED
    BY <2>1, <2>2
<1> QED
  BY <1>4

(* The last of finitely many. *)
LEMMA GreatestElement ==
    ASSUME NEW N \in Nat, NEW S \in SUBSET (0 .. N), S # {}
    PROVE  \E x \in S : \A y \in S : y <= x
<1> DEFINE D == {d \in Nat : N - d \in S}
<1>1. \A y \in S : y \in Nat /\ N - y \in Nat /\ N - (N - y) = y
  OBVIOUS
<1>2. D # {}
  <2>1. PICK y \in S : TRUE
    OBVIOUS
  <2> QED
    BY <1>1, <2>1
<1>3. PICK d \in D : \A e \in D : d <= e
  <2>1. D \in SUBSET Nat
    OBVIOUS
  <2> HIDE DEF D
  <2> QED
    BY <1>2, <2>1, LeastElement
<1>4. ASSUME NEW y \in S PROVE y <= N - d
  <2>1. N - y \in D
    BY <1>1
  <2>2. d <= N - y
    BY <1>3, <2>1
  <2> QED
    BY <1>1, <2>2
<1> QED
  BY <1>4
-----------------------------------------------------------------------------
(* A strict order, as a set of pairs. *)
StrictOrder(R, C) ==
    /\ R \subseteq C \X C
    /\ \A x \in C : <<x, x>> \notin R
    /\ \A x, y, z \in C : <<x, y>> \in R /\ <<y, z>> \in R => <<x, z>> \in R

LEMMA MinimalElement ==
    ASSUME NEW C, NEW R, StrictOrder(R, C), NEW S \in SUBSET C, IsFiniteSet(S), S # {}
    PROVE  \E x \in S : \A y \in S : <<y, x>> \notin R
<1> DEFINE below(x) == {y \in S : <<y, x>> \in R}
           Sizes == {Cardinality(below(x)) : x \in S}
<1>1. \A x \in S : IsFiniteSet(below(x)) /\ Cardinality(below(x)) \in Nat
  BY FS_Subset, FS_CardinalityType
<1>2. Sizes \in SUBSET Nat /\ Sizes # {}
  BY <1>1
<1>3. PICK n \in Sizes : \A k \in Sizes : n <= k
  <2> HIDE DEF Sizes
  <2> QED
    BY <1>2, LeastElement
<1>4. PICK x \in S : n = Cardinality(below(x))
  OBVIOUS
<1>5. ASSUME NEW y \in S, <<y, x>> \in R PROVE FALSE
  <2>1. below(y) \in SUBSET below(x)
    BY <1>5 DEF StrictOrder
  <2>2. y \in below(x) /\ y \notin below(y)
    BY <1>5 DEF StrictOrder
  <2>3. Cardinality(below(y)) <= Cardinality(below(x)) /\ Cardinality(below(x)) # Cardinality(below(y))
    <3> HIDE DEF below
    <3> QED
      BY <1>1, <2>1, <2>2, FS_Subset
  <2>4. Cardinality(below(x)) <= Cardinality(below(y))
    BY <1>3, <1>4
  <2> HIDE DEF below
  <2> QED
    BY <1>1, <2>3, <2>4
<1> QED
  BY <1>5

(* A greedy pass: taken in the order R, an element is kept unless one that *)
(* was kept displaces it (Q).  There is a set of those kept.               *)
Greedy(kept, C, Q) == \A c \in C : c \in kept <=> ~\E d \in kept : <<d, c>> \in Q

LEMMA GreedyPass ==
    ASSUME NEW C, IsFiniteSet(C), NEW R, StrictOrder(R, C), NEW Q \in SUBSET R
    PROVE  \E kept \in SUBSET C : Greedy(kept, C, Q)
<1> DEFINE Closed(S) == \A c \in S, d \in C : <<d, c>> \in R => d \in S
           Passed == {S \in SUBSET C : Closed(S) /\ \E K \in SUBSET S : Greedy(K, S, Q)}
           Sizes == {Cardinality(S) : S \in Passed}
<1>1. \A S \in SUBSET C : /\ IsFiniteSet(S) /\ Cardinality(S) \in Nat
                          /\ Cardinality(S) <= Cardinality(C)
  BY FS_Subset, FS_CardinalityType
<1>2. Sizes \in SUBSET (0 .. Cardinality(C)) /\ Sizes # {} /\ Cardinality(C) \in Nat
  <2>1. {} \in Passed
    <3>1. Greedy({}, {}, Q) /\ {} \in SUBSET {}
      BY DEF Greedy
    <3> QED
      BY <3>1
  <2>2. Cardinality({}) \in Sizes
    BY <2>1
  <2>3. Cardinality(C) \in Nat
    BY FS_CardinalityType
  <2>4. Passed \subseteq SUBSET C
    OBVIOUS
  <2> HIDE DEF Passed
  <2> QED
    BY <1>1, <2>2, <2>3, <2>4
<1>3. PICK n \in Sizes : \A k \in Sizes : k <= n
  <2> HIDE DEF Sizes
  <2> QED
    BY <1>2, GreatestElement
<1>4. PICK S \in Passed : n = Cardinality(S)
  <2> HIDE DEF Passed
  <2> QED
    OBVIOUS
<1>5. S \in SUBSET C /\ Closed(S)
  OBVIOUS
<1>6. PICK K \in SUBSET S : Greedy(K, S, Q)
  OBVIOUS
<1>7. CASE S = C
  BY <1>6, <1>7
<1>8. CASE S # C
  <2>1. C \ S # {} /\ C \ S \in SUBSET C /\ IsFiniteSet(C \ S)
    BY <1>1, <1>5, <1>8
  <2>2. PICK c \in C \ S : \A d \in C \ S : <<d, c>> \notin R
    BY <2>1, MinimalElement
  <2> DEFINE T == S \cup {c}
             L == IF \E d \in K : <<d, c>> \in Q THEN K ELSE K \cup {c}
  <2>3. T \in SUBSET C /\ Closed(T)
    BY <1>5, <2>2
  <2>4. L \in SUBSET T /\ Greedy(L, T, Q)
    <3>1. \A e \in S : e # c /\ <<c, e>> \notin Q
      BY <1>5, <2>2
    <3>2. <<c, c>> \notin Q
      BY <2>2 DEF StrictOrder
    <3>3. \A e \in S : e \in L <=> ~\E d \in L : <<d, e>> \in Q
      BY <1>6, <3>1 DEF Greedy
    <3>4. c \in L <=> ~\E d \in L : <<d, c>> \in Q
      BY <1>6, <2>2, <3>2
    <3> QED
      BY <1>6, <3>3, <3>4 DEF Greedy
  <2>5. T \in Passed
    <3> HIDE DEF T, L
    <3> QED
      BY <2>3, <2>4
  <2>6. Cardinality(T) = Cardinality(S) + 1
    BY <1>1, <1>5, <2>2, FS_AddElement
  <2>7. Cardinality(T) <= Cardinality(S)
    <3> HIDE DEF T, Passed
    <3> QED
      BY <1>3, <1>4, <2>5
  <2> HIDE DEF T
  <2> QED
    BY <1>1, <1>5, <2>6, <2>7
<1> QED
  BY <1>7, <1>8
-----------------------------------------------------------------------------
(* The iterates of an operator on the subsets of S, from the empty set.  A  *)
(* recursive function that computes them exists, and as many steps as S has *)
(* elements reach the least set closed under a growing, monotone operator.  *)
Iterates(walk, G, N) == walk = [n \in 0 .. N |-> IF n = 0 THEN {} ELSE G[walk[n - 1]]]

Growing(G, S) == /\ G \in [SUBSET S -> SUBSET S]
                 /\ \A A \in SUBSET S : A \subseteq G[A]
                 /\ \A A, B \in SUBSET S : A \subseteq B => G[A] \subseteq G[B]

(* A loop over 1 .. N that keeps a value of T: its states exist. *)
Looped(acc, first, step, N) ==
    acc = [n \in 0 .. N |-> IF n = 0 THEN first ELSE step[n][acc[n - 1]]]

LEMMA PassExists ==
    ASSUME NEW T, NEW first \in T, NEW N \in Nat, NEW step \in [1 .. N -> [T -> T]]
    PROVE  \E acc \in [0 .. N -> T] : Looped(acc, first, step, N)
<1> DEFINE Upto(h, m) == /\ h \in [0 .. m -> T] /\ h[0] = first
                         /\ \A n \in 1 .. m : h[n] = step[n][h[n - 1]]
           Good == {m \in 0 .. N : \E h : Upto(h, m)}
<1>1. 0 \in Good
  <2> DEFINE h == [n \in 0 .. 0 |-> first]
  <2>1. Upto(h, 0)
    OBVIOUS
  <2> HIDE DEF h, Upto
  <2> QED
    BY <2>1
<1>2. PICK m \in Good : \A k \in Good : k <= m
  <2>1. Good \in SUBSET (0 .. N) /\ Good # {}
    BY <1>1
  <2> HIDE DEF Good
  <2> QED
    BY <2>1, GreatestElement
<1>3. PICK h : Upto(h, m)
  OBVIOUS
<1>4. m = N
  <2> SUFFICES ASSUME m # N PROVE FALSE
    OBVIOUS
  <2>1. m \in Nat /\ m + 1 \in 0 .. N /\ m + 1 \in 1 .. N
    OBVIOUS
  <2> DEFINE k == [n \in 0 .. (m + 1) |-> IF n = m + 1 THEN step[m + 1][h[m]] ELSE h[n]]
  <2>2. /\ \A n \in 0 .. m : n # m + 1 /\ n \in 0 .. (m + 1) /\ k[n] = h[n]
        /\ k[m + 1] = step[m + 1][h[m]] /\ 0 \in 0 .. m /\ m \in 0 .. m
        /\ \A n \in 0 .. (m + 1) : n \in 0 .. m \/ n = m + 1
    BY <2>1
  <2>3. k \in [0 .. (m + 1) -> T] /\ k[0] = first
    <3>1. h \in [0 .. m -> T] /\ h[0] = first
      BY <1>3
    <3>2. h[m] \in T /\ \A n \in 0 .. m : h[n] \in T
      BY <2>2, <3>1
    <3>3. step[m + 1] \in [T -> T]
      BY <2>1
    <3>4. step[m + 1][h[m]] \in T
      BY <3>2, <3>3
    <3>5. \A n \in 0 .. (m + 1) : k[n] \in T
      <4> HIDE DEF k, Upto, Good
      <4> QED
        BY <2>2, <3>2, <3>4
    <3> QED
      BY <2>2, <3>1, <3>5
  <2>4. ASSUME NEW n \in 1 .. (m + 1) PROVE k[n] = step[n][k[n - 1]]
    <3> HIDE DEF k
    <3>1. CASE n = m + 1
      BY <2>1, <2>2, <3>1
    <3>2. CASE n # m + 1
      <4>1. n \in 1 .. m /\ n - 1 \in 0 .. m
        BY <2>1, <3>2
      <4>2. h[n] = step[n][h[n - 1]]
        BY <1>3, <4>1
      <4>3. k[n] = h[n] /\ k[n - 1] = h[n - 1]
        BY <2>2, <4>1
      <4> QED
        BY <4>2, <4>3
    <3> QED
      BY <3>1, <3>2
  <2> HIDE DEF k
  <2>5. Upto(k, m + 1)
    BY <2>3, <2>4
  <2>6. m + 1 \in Good
    BY <2>1, <2>5
  <2> HIDE DEF Good
  <2> QED
    BY <1>2, <2>1, <2>6
<1>5. h \in [0 .. N -> T] /\ h = [n \in 0 .. N |-> IF n = 0 THEN first ELSE step[n][h[n - 1]]]
  <2>1. \A n \in 0 .. N : n # 0 => n \in 1 .. N
    OBVIOUS
  <2> QED
    BY <1>3, <1>4, <2>1
<1> QED
  BY <1>5 DEF Looped

LEMMA IterationExists ==
    ASSUME NEW S, NEW G \in [SUBSET S -> SUBSET S], NEW N \in Nat
    PROVE  \E walk : Iterates(walk, G, N)
<1> DEFINE T == SUBSET S
           first == {}
           step == [n \in 1 .. N |-> G]
<1>1. step \in [1 .. N -> [T -> T]] /\ first \in T
  OBVIOUS
<1>2. \A n \in 0 .. N : n # 0 => step[n] = G
  OBVIOUS
<1> HIDE DEF T, first, step
<1>3. PICK acc \in [0 .. N -> T] : Looped(acc, first, step, N)
  BY <1>1, PassExists
<1>4. acc = [n \in 0 .. N |-> IF n = 0 THEN {} ELSE G[acc[n - 1]]]
  <2> DEFINE body(n) == IF n = 0 THEN {} ELSE step[n][acc[n - 1]]
             same(n) == IF n = 0 THEN {} ELSE G[acc[n - 1]]
  <2>1. acc = [n \in 0 .. N |-> body(n)]
    BY <1>3 DEF Looped, first
  <2>2. \A n \in 0 .. N : body(n) = same(n)
    BY <1>2
  <2> HIDE DEF body, same
  <2>3. acc = [n \in 0 .. N |-> same(n)]
    BY ONLY <2>1, <2>2
  <2> QED
    BY <2>3 DEF same
<1> QED
  BY <1>4 DEF Iterates

LEMMA LeastFixpoint ==
    ASSUME NEW S, IsFiniteSet(S), NEW N \in Nat, Cardinality(S) <= N,
           NEW G, Growing(G, S), NEW walk, Iterates(walk, G, N)
    PROVE  /\ walk[N] \in SUBSET S
           /\ G[walk[N]] = walk[N]
           /\ \A B \in SUBSET S : G[B] \subseteq B => walk[N] \subseteq B
<1>1. /\ walk[0] = {}
      /\ \A n \in 0 .. N : n # 0 => n - 1 \in 0 .. N /\ walk[n] = G[walk[n - 1]]
  <2>1. walk = [n \in 0 .. N |-> IF n = 0 THEN {} ELSE G[walk[n - 1]]]
    BY DEF Iterates
  <2>2. \A n \in 0 .. N : walk[n] = IF n = 0 THEN {} ELSE G[walk[n - 1]]
    BY <2>1
  <2>3. 0 \in 0 .. N /\ \A n \in 0 .. N : n # 0 => n - 1 \in 0 .. N
    OBVIOUS
  <2> QED
    BY <2>2, <2>3
<1>2. \A n \in 0 .. N : walk[n] \in SUBSET S
  <2> DEFINE Bad == {n \in 0 .. N : walk[n] \notin SUBSET S}
  <2> SUFFICES ASSUME Bad # {} PROVE FALSE
    OBVIOUS
  <2>1. PICK n \in Bad : \A k \in Bad : n <= k
    <3>1. Bad \in SUBSET Nat
      OBVIOUS
    <3> HIDE DEF Bad
    <3> QED
      BY <3>1, LeastElement
  <2>2. n # 0
    BY <1>1
  <2>3. n - 1 \in 0 .. N /\ n - 1 \notin Bad
    BY <1>1, <2>1, <2>2
  <2>4. walk[n - 1] \in SUBSET S
    BY <2>3
  <2> QED
    BY <1>1, <2>2, <2>4 DEF Growing
<1>3. ASSUME NEW B \in SUBSET S, G[B] \subseteq B, NEW m \in 0 .. N
      PROVE  walk[m] \subseteq B
  <2> DEFINE Bad == {n \in 0 .. N : ~(walk[n] \subseteq B)}
  <2> SUFFICES ASSUME Bad # {} PROVE FALSE
    OBVIOUS
  <2>1. PICK n \in Bad : \A k \in Bad : n <= k
    <3>1. Bad \in SUBSET Nat
      OBVIOUS
    <3> HIDE DEF Bad
    <3> QED
      BY <3>1, LeastElement
  <2>2. n # 0
    BY <1>1
  <2>3. n - 1 \in 0 .. N /\ n - 1 \notin Bad
    BY <1>1, <2>1, <2>2
  <2>4. walk[n - 1] \subseteq B /\ walk[n - 1] \in SUBSET S
    BY <1>2, <2>3
  <2>5. walk[n] \subseteq G[B]
    BY <1>1, <2>2, <2>4 DEF Growing
  <2> QED
    BY <1>3, <2>5
<1>4. \A A \in SUBSET S : IsFiniteSet(A) /\ Cardinality(A) \in Nat
                          /\ Cardinality(A) <= Cardinality(S)
                          /\ (Cardinality(A) = Cardinality(S) => A = S)
  <2>1. Cardinality(S) \in Nat
    BY FS_CardinalityType
  <2> QED
    BY <2>1, FS_Subset, FS_CardinalityType
<1>5. ASSUME NEW m \in 0 .. N
      PROVE  G[walk[m]] = walk[m] \/ m <= Cardinality(walk[m])
  <2> DEFINE Bad == {n \in 0 .. N : G[walk[n]] # walk[n] /\ ~(n <= Cardinality(walk[n]))}
  <2> SUFFICES ASSUME Bad # {} PROVE FALSE
    OBVIOUS
  <2>1. PICK n \in Bad : \A k \in Bad : n <= k
    <3>1. Bad \in SUBSET Nat
      OBVIOUS
    <3> HIDE DEF Bad
    <3> QED
      BY <3>1, LeastElement
  <2>2. n # 0
    BY <1>1, FS_EmptySet
  <2>3. n - 1 \in 0 .. N /\ n - 1 \notin Bad
    BY <1>1, <2>1, <2>2
  <2>4. walk[n] = G[walk[n - 1]] /\ walk[n - 1] \in SUBSET S /\ walk[n] \in SUBSET S
    BY <1>1, <1>2, <2>2, <2>3
  <2>5. G[walk[n - 1]] # walk[n - 1]
    BY <2>4
  <2>6. n - 1 <= Cardinality(walk[n - 1])
    BY <2>3, <2>5
  <2>7. walk[n - 1] \subseteq walk[n] /\ walk[n - 1] # walk[n]
    BY <2>4, <2>5 DEF Growing
  <2>8. Cardinality(walk[n - 1]) < Cardinality(walk[n])
    <3>1. IsFiniteSet(walk[n])
      BY <1>4, <2>4
    <3>2. Cardinality(walk[n - 1]) <= Cardinality(walk[n])
          /\ Cardinality(walk[n - 1]) # Cardinality(walk[n])
      BY <2>7, <3>1, FS_Subset
    <3> QED
      BY <1>4, <2>4, <3>2
  <2> QED
    BY <1>4, <2>2, <2>4, <2>6, <2>8
<1>6. N \in 0 .. N
  OBVIOUS
<1>7. G[walk[N]] = walk[N]
  <2>1. CASE N <= Cardinality(walk[N])
    <3>1. walk[N] = S
      <4>1. Cardinality(S) \in Nat
        BY FS_CardinalityType
      <4> QED
        BY <1>2, <1>4, <1>6, <2>1, <4>1
    <3> QED
      BY <3>1 DEF Growing
  <2> QED
    BY <1>5, <1>6, <2>1
<1> QED
  BY <1>2, <1>3, <1>6, <1>7
=================================================================================
