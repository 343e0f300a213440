------------------------------ MODULE Induction ------------------------------
(***************************************************************************)
(* Induction over the natural numbers, with sets in the place of           *)
(* predicates, and what it tells of recursive functions and folds: that    *)
(* there is a function as they define it.  The proofs about definitions    *)
(* over sequences rest on these lemmas.                                    *)
(***************************************************************************)
EXTENDS Naturals, SequencesExt, WellFoundedInduction, SequenceTheorems, TLAPS

LEMMA Smallest ==
  ASSUME NEW T \in SUBSET Nat, T # {}
  PROVE  \E n \in T : \A m \in T : ~(m < n)
<1> DEFINE R == {p \in Nat \X Nat : p[1] < p[2]}
<1>1. IsWellFoundedOn(R, Nat)
  BY NatLessThanWellFounded DEF OpToRel
<1>2. \E x \in T : \A y \in T : ~(<<y, x>> \in R)
  <2> HIDE DEF R
  <2> QED BY <1>1, WFMin
<1> QED BY <1>2

LEMMA Induct ==
  ASSUME NEW T, 0 \in T, \A n \in Nat : n \in T => n + 1 \in T
  PROVE  Nat \subseteq T
<1> SUFFICES ASSUME Nat \ T # {} PROVE FALSE
  OBVIOUS
<1>1. PICK n \in Nat \ T : \A m \in Nat \ T : ~(m < n)
  BY Smallest
<1>2. n # 0 /\ n - 1 \in Nat
  BY <1>1
<1>3. n - 1 \in T /\ (n - 1) + 1 = n
  BY <1>1, <1>2
<1> QED BY <1>1, <1>2, <1>3

LEMMA InductTo ==
  ASSUME NEW N \in Nat, NEW T, 0 \in T, \A n \in 0..N-1 : n \in T => n + 1 \in T
  PROVE  0..N \subseteq T
<1> DEFINE U == {n \in Nat : n <= N => n \in T}
<1>1. 0 \in U
  OBVIOUS
<1>2. ASSUME NEW n \in Nat, n \in U PROVE n + 1 \in U
  BY <1>2
<1>3. Nat \subseteq U
  <2> HIDE DEF U
  <2> QED BY <1>1, <1>2, Induct
<1> QED BY <1>3

\* g is defined by recursion over the numbers up to N.
Recursing(g, V, base, N, F) ==
  g \in [0..N -> V] /\ g[0] = base /\ \A k \in 1..N : g[k] = F[<<g[k-1], k>>]

LEMMA Recursion ==
  ASSUME NEW V, NEW base \in V, NEW N \in Nat, NEW F \in [V \X (1..N) -> V]
  PROVE  \E g : Recursing(g, V, base, N, F)
<1> DEFINE Up(n) == \E g \in [0..n -> V] : g[0] = base /\ \A k \in 1..n : g[k] = F[<<g[k-1], k>>]
           T == {n \in 0..N : Up(n)}
<1>1. 0 \in T
  <2>1. Up(0)
    <3> WITNESS [k \in 0..0 |-> base] \in [0..0 -> V]
    <3> QED OBVIOUS
  <2> QED BY <2>1
<1>2. ASSUME NEW n \in 0..N-1, n \in T PROVE n + 1 \in T
  <2>1. PICK g \in [0..n -> V] : g[0] = base /\ \A k \in 1..n : g[k] = F[<<g[k-1], k>>]
    BY <1>2
  <2>2. n + 1 \in 1..N /\ n \in 0..n /\ F[<<g[n], n + 1>>] \in V
    BY <2>1
  <2> DEFINE h == [k \in 0..n+1 |-> IF k = n + 1 THEN F[<<g[n], n + 1>>] ELSE g[k]]
  <2>3. h \in [0..n+1 -> V] /\ \A k \in 0..n : h[k] = g[k]
    BY <2>1, <2>2
  <2>4. h[0] = base
    BY <2>1, <2>3
  <2>5. ASSUME NEW k \in 1..n+1 PROVE h[k] = F[<<h[k-1], k>>]
    <3>1. k \in 0..n+1 /\ k - 1 \in 0..n /\ h[k-1] = g[k-1]
      BY <2>3
    <3>2. CASE k = n + 1
      <4>1. k - 1 = n
        BY <3>2
      <4> QED BY <3>1, <3>2, <4>1
    <3>3. CASE k \in 1..n
      BY <2>1, <2>3, <3>1, <3>3
    <3> QED BY <3>2, <3>3
  <2> HIDE DEF h
  <2>6. Up(n + 1)
    BY <2>3, <2>4, <2>5
  <2>7. n + 1 \in 0..N
    BY <2>2
  <2> QED BY <2>6, <2>7
<1>3. 0..N \subseteq T
  <2> HIDE DEF T
  <2> QED BY <1>1, <1>2, InductTo
<1>4. N \in T
  <2>1. N \in 0..N
    OBVIOUS
  <2> HIDE DEF T
  <2> QED BY <1>3, <2>1
<1>5. Up(N)
  <2> HIDE DEF Up
  <2> QED BY <1>4
<1> QED BY <1>5 DEF Recursing

\* g is the function behind FoldLeft, which is defined on sets of indices.
Folding(g, V, base, N, F) ==
  /\ g \in [SUBSET (1..N) -> V]
  /\ \A S \in SUBSET (1..N) :
       g[S] = IF S = {} THEN base ELSE F[<<g[S \ {Max(S)}], Max(S)>>]

LEMMA FoldRecursion ==
  ASSUME NEW V, NEW base \in V, NEW N \in Nat, NEW F \in [V \X (1..N) -> V]
  PROVE  \E g : Folding(g, V, base, N, F)
<1> DEFINE Step(g, S) == g[S] = IF S = {} THEN base ELSE F[<<g[S \ {Max(S)}], Max(S)>>]
           Up(n) == \E g \in [SUBSET (1..n) -> V] : \A S \in SUBSET (1..n) : Step(g, S)
           T == {n \in 0..N : Up(n)}
<1>1. 0 \in T
  <2>1. Up(0)
    <3> DEFINE g == [S \in SUBSET (1..0) |-> base]
    <3>1. g \in [SUBSET (1..0) -> V]
      OBVIOUS
    <3>2. ASSUME NEW S \in SUBSET (1..0) PROVE S = {} /\ g[S] = base
      OBVIOUS
    <3> HIDE DEF g
    <3> HIDE DEF Step
    <3>3. ASSUME NEW S \in SUBSET (1..0) PROVE Step(g, S)
      <4>1. S = {} /\ g[S] = base
        BY <3>2
      <4> HIDE DEF g
      <4> QED BY <4>1 DEF Step
    <3> HIDE DEF g
    <3> QED BY <3>1, <3>3
  <2> HIDE DEF Up
  <2> QED BY <2>1
<1>2. ASSUME NEW n \in 0..N-1, n \in T PROVE n + 1 \in T
  <2>1. PICK g \in [SUBSET (1..n) -> V] : \A S \in SUBSET (1..n) : Step(g, S)
    BY <1>2
  <2>2. n + 1 \in 1..N /\ n + 1 \in 0..N /\ 1..n+1 = (1..n) \cup {n+1} /\ n + 1 \notin 1..n
    OBVIOUS
  <2> DEFINE h == [S \in SUBSET (1..n+1) |->
                     IF n + 1 \in S THEN F[<<g[S \ {n+1}], n+1>>] ELSE g[S]]
  <2>3. ASSUME NEW S \in SUBSET (1..n+1) PROVE S \ {n+1} \in SUBSET (1..n)
    BY <2>2
  <2>4. h \in [SUBSET (1..n+1) -> V]
    <3>1. ASSUME NEW S \in SUBSET (1..n+1)
          PROVE (IF n + 1 \in S THEN F[<<g[S \ {n+1}], n+1>>] ELSE g[S]) \in V
      <4>1. CASE n + 1 \in S
        <5>1. g[S \ {n+1}] \in V
          BY <2>1, <2>3
        <5> QED BY <4>1, <5>1, <2>2
      <4>2. CASE n + 1 \notin S
        BY <2>1, <2>3, <4>2
      <4> QED BY <4>1, <4>2
    <3> QED BY <3>1
  <2>5. ASSUME NEW S \in SUBSET (1..n) PROVE h[S] = g[S]
    BY <2>2, <2>5
  <2>6. ASSUME NEW S \in SUBSET (1..n+1) PROVE Step(h, S)
    <3>1. CASE n + 1 \in S
      <4>1. Max(S) = n + 1
        <5>1. \A y \in S : n + 1 >= y
          OBVIOUS
        <5>2. \A x \in S : (\A y \in S : x >= y) => x = n + 1
          BY <3>1
        <5> QED BY <3>1, <5>1, <5>2 DEF Max
      <4>2. h[S] = F[<<g[S \ {n+1}], n+1>>]
        BY <3>1
      <4>3. h[S \ {n+1}] = g[S \ {n+1}]
        BY <2>3, <2>5
      <4> QED BY <3>1, <4>1, <4>2, <4>3
    <3>2. CASE n + 1 \notin S
      <4>1. S \in SUBSET (1..n)
        BY <2>3, <3>2
      <4>2. h[S] = g[S] /\ Step(g, S)
        BY <2>1, <2>5, <4>1
      <4>3. h[S \ {Max(S)}] = g[S \ {Max(S)}]
        BY <2>5, <4>1
      <4> QED BY <4>2, <4>3
    <3> QED BY <3>1, <3>2
  <2> HIDE DEF h, Step
  <2>7. Up(n + 1)
    BY <2>4, <2>6
  <2> QED BY <2>2, <2>7
<1>3. 0..N \subseteq T
  <2> HIDE DEF T
  <2> QED BY <1>1, <1>2, InductTo
<1>4. N \in T
  <2>1. N \in 0..N
    OBVIOUS
  <2> HIDE DEF T
  <2> QED BY <1>3, <2>1
<1>5. Up(N)
  <2> HIDE DEF Up
  <2> QED BY <1>4
<1>6. PICK g \in [SUBSET (1..N) -> V] : \A S \in SUBSET (1..N) : Step(g, S)
  BY <1>5
<1> QED BY <1>6 DEF Folding

\* A set of numbers up to N has a maximum.
LEMMA MaxInRange ==
  ASSUME NEW N \in Nat, NEW S \in SUBSET (1..N), S # {}
  PROVE  Max(S) \in S /\ \A y \in S : Max(S) >= y
<1> DEFINE T == {n \in Nat : N - n \in S}
<1>1. T # {}
  <2>1. PICK x \in S : x \in 1..N
    OBVIOUS
  <2>2. N - x \in Nat /\ N - (N - x) = x
    BY <2>1
  <2> QED BY <2>1, <2>2
<1>2. PICK n \in T : \A m \in T : ~(m < n)
  <2>1. T \in SUBSET Nat
    OBVIOUS
  <2> HIDE DEF T
  <2> QED BY <1>1, <2>1, Smallest
<1>3. N - n \in S /\ n \in Nat
  BY <1>2
<1>4. \A y \in S : N - n >= y
  <2> SUFFICES ASSUME NEW y \in S PROVE N - n >= y
    OBVIOUS
  <2>1. y \in 1..N /\ N - y \in Nat /\ N - (N - y) = y
    OBVIOUS
  <2>2. N - y \in T
    BY <2>1
  <2>3. ~(N - y < n)
    BY <1>2, <2>2
  <2> QED BY <1>3, <2>1, <2>3
<1>5. \E x \in S : \A y \in S : x >= y
  BY <1>3, <1>4
<1> QED BY <1>5 DEF Max

\* A sequence without its last element.
LEMMA FrontShape ==
  ASSUME NEW E, NEW s \in Seq(E), s # <<>>
  PROVE  /\ Len(s) \in Nat \ {0}
         /\ Front(s) \in Seq(E) /\ Len(Front(s)) = Len(s) - 1
         /\ \A i \in 1..Len(s) - 1 : Front(s)[i] = s[i]
<1>1. Len(s) \in Nat \ {0} /\ \A i \in 1..Len(s) : s[i] \in E
  BY LenProperties, ElementOfSeq, EmptySeq
<1> DEFINE n == Len(s) - 1
<1>2. n \in Nat /\ n < Len(s) /\ 1 \in Int /\ n \in Int
  BY <1>1
<1>3. \A i \in 1..n : s[i] \in E
  BY <1>1, <1>2
<1> HIDE DEF n
<1>4. /\ SubSeq(s, 1, n) \in Seq(E)
      /\ Len(SubSeq(s, 1, n)) = IF 1 <= n THEN n - 1 + 1 ELSE 0
      /\ \A i \in 1..n - 1 + 1 : SubSeq(s, 1, n)[i] = s[1 + i - 1]
  BY <1>2, <1>3, SubSeqProperties
<1>5. /\ Len(SubSeq(s, 1, n)) = n
      /\ \A i \in 1..n : SubSeq(s, 1, n)[i] = s[i]
  BY <1>2, <1>4
<1> QED BY <1>1, <1>4, <1>5 DEF n, Front

\* The numbers up to one that is added are up to it, which is their maximum.
LEMMA MaxOfRange ==
  ASSUME NEW k \in Nat \ {0}
  PROVE  Max(1..k) = k /\ (1..k) \ {k} = 1..k-1 /\ 1..k # {}
<1>1. k \in 1..k /\ \A y \in 1..k : k >= y
  OBVIOUS
<1>2. \A x \in 1..k : (\A y \in 1..k : x >= y) => x = k
  OBVIOUS
<1> DEFINE S == 1..k
<1>3. Max(S) = k
  <2> HIDE DEF S
  <2>1. k \in S /\ \A y \in S : k >= y
    BY <1>1 DEF S
  <2>2. \A x \in S : (\A y \in S : x >= y) => x = k
    BY <1>2 DEF S
  <2> QED BY <2>1, <2>2 DEF Max
<1>4. (1..k) \ {k} = 1..k-1 /\ 1..k # {}
  BY <1>1
<1> HIDE DEF S
<1>5. Max(1..k) = k
  BY <1>3 DEF S
<1> QED BY <1>4, <1>5
=============================================================================
