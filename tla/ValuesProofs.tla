---------------------------- MODULE ValuesProofs ----------------------------
(***************************************************************************)
(* Proofs about Values, for any stages, units and bounds: what an analysis *)
(* of the time samples tells is what is removed, whatever operations have  *)
(* rewritten the stage before; removing duplicates, and interpolated       *)
(* samples, leaves every value what it is at every time; what a stage      *)
(* shows is the same afterwards, and after extents have been computed; and *)
(* an extent that has been computed bounds its points at every time.       *)
(***************************************************************************)
EXTENDS Values, Induction, FiniteSetTheorems

-----------------------------------------------------------------------------
(* Sums of functions with finitely many arguments *)

\* g tells the sum of f over each set of indices.
Summing(g, S, f) ==
  /\ g \in [SUBSET S -> Nat]
  /\ \A s \in SUBSET S : g[s] = IF s = {} THEN 0
                                ELSE LET x == CHOOSE x \in s : TRUE IN f[x] + g[s \ {x}]

\* There is such a g, by induction over the number of indices.
LEMMA SumExists ==
  ASSUME NEW S, IsFiniteSet(S), NEW f \in [S -> Nat]
  PROVE  \E g : Summing(g, S, f)
<1> DEFINE Chosen(s) == CHOOSE x \in s : TRUE
           Adds(g, s) == g[s] = IF s = {} THEN 0 ELSE f[Chosen(s)] + g[s \ {Chosen(s)}]
           Small(n) == {s \in SUBSET S : Cardinality(s) <= n}
           Up(n) == \E g \in [Small(n) -> Nat] : \A s \in Small(n) : Adds(g, s)
           T == {n \in Nat : Up(n)}
<1>0. ASSUME NEW s \in SUBSET S
      PROVE  /\ IsFiniteSet(s) /\ Cardinality(s) \in Nat /\ (Cardinality(s) = 0 <=> s = {})
             /\ s # {} => /\ Chosen(s) \in s /\ s \ {Chosen(s)} \in SUBSET S
                          /\ Cardinality(s \ {Chosen(s)}) = Cardinality(s) - 1
  <2>1. IsFiniteSet(s) /\ Cardinality(s) \in Nat
    BY FS_Subset, FS_CardinalityType
  <2>2. Cardinality(s) = 0 <=> s = {}
    BY <2>1, FS_EmptySet
  <2>3. ASSUME s # {} PROVE Chosen(s) \in s /\ Cardinality(s \ {Chosen(s)}) = Cardinality(s) - 1
    <3>1. Chosen(s) \in s
      BY <2>3
    <3> HIDE DEF Chosen
    <3>2. Cardinality(s \ {Chosen(s)}) = Cardinality(s) - 1
      BY <2>1, <3>1, FS_RemoveElement
    <3> QED BY <3>1, <3>2
  <2> QED BY <2>1, <2>2, <2>3
<1> HIDE DEF Chosen
<1>1. 0 \in T
  <2> DEFINE g == [s \in Small(0) |-> 0]
  <2>1. ASSUME NEW s \in Small(0) PROVE Adds(g, s)
    <3>1. s \in SUBSET S /\ Cardinality(s) <= 0
      OBVIOUS
    <3>2. Cardinality(s) \in Nat /\ (Cardinality(s) = 0 <=> s = {})
      BY <1>0, <3>1
    <3>3. s = {}
      BY <3>1, <3>2
    <3>4. g[s] = 0
      OBVIOUS
    <3> HIDE DEF g
    <3> QED BY <3>3, <3>4
  <2>2. g \in [Small(0) -> Nat]
    OBVIOUS
  <2> HIDE DEF g, Adds
  <2>3. Up(0)
    BY <2>1, <2>2
  <2> QED BY <2>3
<1>2. ASSUME NEW n \in Nat, n \in T PROVE n + 1 \in T
  <2>1. PICK g \in [Small(n) -> Nat] : \A s \in Small(n) : Adds(g, s)
    BY <1>2
  <2> DEFINE h == [s \in Small(n + 1) |-> IF s \in Small(n) THEN g[s]
                                         ELSE f[Chosen(s)] + g[s \ {Chosen(s)}]]
  <2>2. ASSUME NEW s \in Small(n + 1), s \notin Small(n)
        PROVE s # {} /\ Chosen(s) \in S /\ s \ {Chosen(s)} \in Small(n) /\ s \in SUBSET S
    BY <1>0, <2>2
  <2>3. ASSUME NEW s \in Small(n)
        PROVE  s \in Small(n + 1) /\ (s # {} => s \ {Chosen(s)} \in Small(n))
    <3>1. s \in SUBSET S /\ Cardinality(s) <= n
      BY <2>3
    <3>2. Cardinality(s) \in Nat
      BY <1>0, <3>1
    <3>3. s # {} => s \ {Chosen(s)} \in SUBSET S /\ Cardinality(s \ {Chosen(s)}) = Cardinality(s) - 1
      BY <1>0, <3>1
    <3> QED BY <3>1, <3>2, <3>3
  <2> HIDE DEF Small
  <2>4. h \in [Small(n + 1) -> Nat]
    <3>1. ASSUME NEW s \in Small(n + 1), s \notin Small(n)
          PROVE f[Chosen(s)] + g[s \ {Chosen(s)}] \in Nat
      <4>1. f[Chosen(s)] \in Nat /\ g[s \ {Chosen(s)}] \in Nat
        BY <3>1, <2>1, <2>2
      <4> QED BY <4>1
    <3> QED BY <2>1, <3>1
  <2>5. ASSUME NEW s \in Small(n) PROVE h[s] = g[s]
    BY <2>3
  <2>6. ASSUME NEW s \in Small(n + 1) PROVE Adds(h, s)
    <3>1. CASE s \in Small(n)
      <4>1. Adds(g, s) /\ h[s] = g[s]
        BY <2>1, <2>5, <3>1
      <4>2. s # {} => h[s \ {Chosen(s)}] = g[s \ {Chosen(s)}]
        BY <2>3, <2>5, <3>1
      <4> HIDE DEF h
      <4> QED BY <4>1, <4>2
    <3>2. CASE s \notin Small(n)
      <4>1. h[s] = f[Chosen(s)] + g[s \ {Chosen(s)}]
        BY <3>2
      <4>2. h[s \ {Chosen(s)}] = g[s \ {Chosen(s)}] /\ s # {}
        BY <2>2, <2>5, <3>2
      <4> HIDE DEF h
      <4> QED BY <4>1, <4>2
    <3> QED BY <3>1, <3>2
  <2> HIDE DEF h, Adds
  <2>7. Up(n + 1)
    BY <2>4, <2>6
  <2> HIDE DEF Up
  <2> QED BY <2>7
<1>3. Cardinality(S) \in Nat
  BY FS_CardinalityType
<1>4. Up(Cardinality(S))
  <2>1. Nat \subseteq T
    <3> HIDE DEF T
    <3> QED BY <1>1, <1>2, Induct
  <2> QED BY <1>3, <2>1
<1>5. Small(Cardinality(S)) = SUBSET S
  <2>1. \A s \in SUBSET S : Cardinality(s) <= Cardinality(S)
    BY FS_Subset
  <2> QED BY <2>1
<1> HIDE DEF Small
<1>6. PICK g \in [SUBSET S -> Nat] : \A s \in SUBSET S : Adds(g, s)
  BY <1>4, <1>5
<1> QED BY <1>6 DEF Summing, Chosen

\* The sum of a function is what such a g tells.
LEMMA SumIsTold ==
  ASSUME NEW S, IsFiniteSet(S), NEW f \in [S -> Nat]
  PROVE  \E g : Summing(g, S, f) /\ SumFunction(f) = g[S]
<1> DEFINE Iter(g) == g = [s \in SUBSET S |-> IF s = {} THEN 0
                             ELSE LET x == CHOOSE x \in s : TRUE IN f[x] + g[s \ {x}]]
<1>1. PICK g : Summing(g, S, f)
  BY SumExists
<1>2. Iter(g)
  BY <1>1 DEF Summing
<1>3. ASSUME NEW h, Iter(h) PROVE h = g
  <2> DEFINE T == {n \in Nat : \A s \in SUBSET S : Cardinality(s) = n => h[s] = g[s]}
             Chosen(s) == CHOOSE x \in s : TRUE
  <2>1. ASSUME NEW s \in SUBSET S
        PROVE  /\ IsFiniteSet(s) /\ Cardinality(s) \in Nat /\ (Cardinality(s) = 0 <=> s = {})
               /\ s # {} => Chosen(s) \in s
               /\ h[s] = IF s = {} THEN 0 ELSE f[Chosen(s)] + h[s \ {Chosen(s)}]
               /\ g[s] = IF s = {} THEN 0 ELSE f[Chosen(s)] + g[s \ {Chosen(s)}]
    <3>1. IsFiniteSet(s) /\ Cardinality(s) \in Nat
      BY FS_Subset, FS_CardinalityType
    <3>2. Cardinality(s) = 0 <=> s = {}
      BY <3>1, FS_EmptySet
    <3>3. h[s] = IF s = {} THEN 0 ELSE f[Chosen(s)] + h[s \ {Chosen(s)}]
      BY <1>3
    <3>4. g[s] = IF s = {} THEN 0 ELSE f[Chosen(s)] + g[s \ {Chosen(s)}]
      BY <1>1 DEF Summing
    <3> QED BY <3>1, <3>2, <3>3, <3>4
  <2> HIDE DEF Chosen
  <2>2. 0 \in T
    BY <2>1
  <2>3. ASSUME NEW n \in Nat, n \in T PROVE n + 1 \in T
    <3> SUFFICES ASSUME NEW s \in SUBSET S, Cardinality(s) = n + 1 PROVE h[s] = g[s]
      OBVIOUS
    <3>1. s # {} /\ Chosen(s) \in s
      BY <2>1
    <3>2. Cardinality(s \ {Chosen(s)}) = (n + 1) - 1 /\ s \ {Chosen(s)} \in SUBSET S
      BY <2>1, <3>1, FS_RemoveElement
    <3>3. h[s \ {Chosen(s)}] = g[s \ {Chosen(s)}]
      <4>1. (n + 1) - 1 = n
        OBVIOUS
      <4> QED BY <2>3, <3>2, <4>1
    <3> QED BY <2>1, <3>1, <3>3
  <2>4. Nat \subseteq T
    <3> HIDE DEF T
    <3> QED BY <2>2, <2>3, Induct
  <2>5. \A s \in SUBSET S : h[s] = g[s]
    BY <2>1, <2>4
  <2>6. DOMAIN h = SUBSET S /\ DOMAIN g = SUBSET S
    BY <1>2, <1>3
  <2>7. h = [s \in SUBSET S |-> h[s]] /\ g = [s \in SUBSET S |-> g[s]]
    BY <1>2, <1>3, <2>6
  <2> QED BY <2>5, <2>7
<1>4. DOMAIN f = S
  OBVIOUS
<1>5. SumFunction(f) = (CHOOSE h : Iter(h))[S]
  BY <1>4, Zenon DEF SumFunction, SumFunctionOnSet, FoldFunctionOnSet, MapThenFoldSet
<1>6. (CHOOSE h : Iter(h)) = g
  <2> HIDE DEF Iter
  <2> QED BY <1>2, <1>3
<1> QED BY <1>1, <1>5, <1>6

\* Any element may be taken off a sum.
LEMMA TakeOff ==
  ASSUME NEW S, IsFiniteSet(S), NEW f \in [S -> Nat], NEW g, Summing(g, S, f)
  PROVE  g[{}] = 0 /\ \A s \in SUBSET S : \A x \in s : g[s] = f[x] + g[s \ {x}]
<1> DEFINE T == {n \in Nat : \A s \in SUBSET S : Cardinality(s) = n
                              => \A x \in s : g[s] = f[x] + g[s \ {x}]}
           Chosen(s) == CHOOSE x \in s : TRUE
<1>1. ASSUME NEW s \in SUBSET S
      PROVE  /\ IsFiniteSet(s) /\ Cardinality(s) \in Nat /\ (Cardinality(s) = 0 <=> s = {})
             /\ \A x \in s : s \ {x} \in SUBSET S /\ Cardinality(s \ {x}) = Cardinality(s) - 1
             /\ g[s] \in Nat
             /\ s # {} => Chosen(s) \in s /\ g[s] = f[Chosen(s)] + g[s \ {Chosen(s)}]
             /\ s = {} => g[s] = 0
  <2>1. IsFiniteSet(s) /\ Cardinality(s) \in Nat
    BY FS_Subset, FS_CardinalityType
  <2>2. Cardinality(s) = 0 <=> s = {}
    BY <2>1, FS_EmptySet
  <2>3. \A x \in s : Cardinality(s \ {x}) = Cardinality(s) - 1
    BY <2>1, FS_RemoveElement
  <2>4. /\ g[s] \in Nat
        /\ s # {} => Chosen(s) \in s /\ g[s] = f[Chosen(s)] + g[s \ {Chosen(s)}]
        /\ s = {} => g[s] = 0
    BY DEF Summing
  <2> QED BY <2>1, <2>2, <2>3, <2>4
<1> HIDE DEF Chosen
<1>2. 0 \in T
  BY <1>1
<1>3. ASSUME NEW n \in Nat, n \in T PROVE n + 1 \in T
  <2> SUFFICES ASSUME NEW s \in SUBSET S, Cardinality(s) = n + 1, NEW x \in s
               PROVE  g[s] = f[x] + g[s \ {x}]
    OBVIOUS
  <2> DEFINE y == Chosen(s)
  <2>1. y \in s /\ g[s] = f[y] + g[s \ {y}]
    BY <1>1
  <2>2. CASE x = y
    BY <2>1, <2>2
  <2>3. CASE x # y
    <3>1. (n + 1) - 1 = n
      OBVIOUS
    <3>2. /\ s \ {x} \in SUBSET S /\ Cardinality(s \ {x}) = n
          /\ s \ {y} \in SUBSET S /\ Cardinality(s \ {y}) = n
      BY <1>1, <2>1, <3>1
    <3>3. x \in s \ {y} /\ y \in s \ {x} /\ (s \ {y}) \ {x} = (s \ {x}) \ {y}
      BY <2>1, <2>3
    <3>4. g[s \ {y}] = f[x] + g[(s \ {y}) \ {x}]
      BY <1>3, <3>2, <3>3
    <3>5. g[s \ {x}] = f[y] + g[(s \ {x}) \ {y}]
      BY <1>3, <3>2, <3>3
    <3>6. f[x] \in Nat /\ f[y] \in Nat /\ g[(s \ {x}) \ {y}] \in Nat
      <4>1. (s \ {x}) \ {y} \in SUBSET S /\ y \in S /\ x \in S
        BY <2>1
      <4>2. g[(s \ {x}) \ {y}] \in Nat
        BY <1>1, <4>1
      <4>3. f[x] \in Nat /\ f[y] \in Nat
        <5> HIDE DEF y
        <5> QED BY <4>1
      <4> QED BY <4>2, <4>3
    <3> DEFINE A == f[x]  B == f[y]  C == g[(s \ {x}) \ {y}]
    <3>7. g[s] = B + (A + C) /\ g[s \ {x}] = B + C
      <4> HIDE DEF y
      <4> QED BY <2>1, <3>3, <3>4, <3>5
    <3>8. B + (A + C) = A + (B + C)
      <4>1. A \in Nat /\ B \in Nat /\ C \in Nat
        BY <3>6
      <4> HIDE DEF A, B, C
      <4> QED BY <4>1
    <3> HIDE DEF B, C
    <3> QED BY <3>7, <3>8
  <2> QED BY <2>2, <2>3
<1>4. Nat \subseteq T
  <2> HIDE DEF T
  <2> QED BY <1>2, <1>3, Induct
<1>5. \A s \in SUBSET S : \A x \in s : g[s] = f[x] + g[s \ {x}]
  BY <1>1, <1>4
<1>6. g[{}] = 0
  BY <1>1
<1> QED BY <1>5, <1>6

\* Sums differ by the sum of the differences, which may be told of some only.
LEMMA SumDifference ==
  ASSUME NEW S, IsFiniteSet(S), NEW R \in SUBSET S,
         NEW f \in [S -> Nat], NEW f2 \in [S -> Nat], NEW k \in [R -> Nat],
         \A x \in S : f[x] = f2[x] + IF x \in R THEN k[x] ELSE 0
  PROVE  /\ SumFunction(f) \in Nat /\ SumFunction(f2) \in Nat /\ SumFunction(k) \in Nat
         /\ SumFunction(f) - SumFunction(f2) = SumFunction(k)
<1>1. PICK g : Summing(g, S, f) /\ SumFunction(f) = g[S]
  BY SumIsTold
<1>2. PICK g2 : Summing(g2, S, f2) /\ SumFunction(f2) = g2[S]
  BY SumIsTold
<1>3. IsFiniteSet(R)
  BY FS_Subset
<1>4. PICK h : Summing(h, R, k) /\ SumFunction(k) = h[R]
  BY <1>3, SumIsTold
<1>5. g[{}] = 0 /\ \A s \in SUBSET S : \A x \in s : g[s] = f[x] + g[s \ {x}]
  <2>1. IsFiniteSet(S) /\ Summing(g, S, f)
    BY <1>1
  <2> QED BY <2>1, TakeOff
<1>6. g2[{}] = 0 /\ \A s \in SUBSET S : \A x \in s : g2[s] = f2[x] + g2[s \ {x}]
  <2>1. IsFiniteSet(S) /\ Summing(g2, S, f2)
    BY <1>2
  <2> QED BY <2>1, TakeOff
<1>7. h[{}] = 0 /\ \A s \in SUBSET R : \A x \in s : h[s] = k[x] + h[s \ {x}]
  <2>1. IsFiniteSet(R) /\ Summing(h, R, k)
    BY <1>3, <1>4
  <2> QED BY <2>1, TakeOff
<1>8. g \in [SUBSET S -> Nat] /\ g2 \in [SUBSET S -> Nat] /\ h \in [SUBSET R -> Nat]
  BY <1>1, <1>2, <1>4 DEF Summing
<1> DEFINE T == {n \in Nat : \A s \in SUBSET S : Cardinality(s) = n => g[s] = g2[s] + h[s \cap R]}
<1>9. ASSUME NEW s \in SUBSET S
      PROVE  /\ Cardinality(s) \in Nat /\ (Cardinality(s) = 0 <=> s = {})
             /\ \A x \in s : s \ {x} \in SUBSET S /\ Cardinality(s \ {x}) = Cardinality(s) - 1
  <2>1. IsFiniteSet(s) /\ Cardinality(s) \in Nat
    BY FS_Subset, FS_CardinalityType
  <2>2. Cardinality(s) = 0 <=> s = {}
    BY <2>1, FS_EmptySet
  <2>3. \A x \in s : Cardinality(s \ {x}) = Cardinality(s) - 1
    BY <2>1, FS_RemoveElement
  <2> QED BY <2>1, <2>2, <2>3
<1>10. 0 \in T
  <2> SUFFICES ASSUME NEW s \in SUBSET S, Cardinality(s) = 0 PROVE g[s] = g2[s] + h[s \cap R]
    OBVIOUS
  <2>1. s = {} /\ s \cap R = {}
    BY <1>9
  <2> QED BY <2>1, <1>5, <1>6, <1>7
<1>11. ASSUME NEW n \in Nat, n \in T PROVE n + 1 \in T
  <2> SUFFICES ASSUME NEW s \in SUBSET S, Cardinality(s) = n + 1 PROVE g[s] = g2[s] + h[s \cap R]
    OBVIOUS
  <2>1. PICK x \in s : TRUE
    BY <1>9
  <2> DEFINE r == s \ {x}
  <2>2. r \in SUBSET S /\ Cardinality(r) = n
    <3>1. (n + 1) - 1 = n
      OBVIOUS
    <3> QED BY <1>9, <2>1, <3>1
  <2>3. g[r] = g2[r] + h[r \cap R]
    BY <1>11, <2>2
  <2>4. g[s] = f[x] + g[r] /\ g2[s] = f2[x] + g2[r]
    BY <1>5, <1>6, <2>1
  <2>5. h[s \cap R] = (IF x \in R THEN k[x] ELSE 0) + h[r \cap R]
    <3>1. CASE x \in R
      <4>1. x \in s \cap R /\ (s \cap R) \ {x} = r \cap R /\ s \cap R \in SUBSET R
        BY <2>1, <3>1
      <4>2. h[s \cap R] = k[x] + h[(s \cap R) \ {x}]
        BY <1>7, <4>1
      <4> HIDE DEF r
      <4> QED BY <3>1, <4>1, <4>2
    <3>2. CASE x \notin R
      <4>1. s \cap R = r \cap R /\ r \cap R \in SUBSET R
        BY <3>2
      <4>2. h[r \cap R] \in Nat
        BY <1>8, <4>1
      <4> HIDE DEF r
      <4> QED BY <3>2, <4>1, <4>2
    <3> QED BY <3>1, <3>2
  <2>6. /\ f[x] \in Nat /\ f2[x] \in Nat /\ (IF x \in R THEN k[x] ELSE 0) \in Nat
        /\ g2[r] \in Nat /\ h[r \cap R] \in Nat
        /\ f[x] = f2[x] + IF x \in R THEN k[x] ELSE 0
    <3>1. x \in S /\ r \cap R \in SUBSET R
      BY <2>1
    <3> QED BY <1>8, <2>2, <3>1
  <2> HIDE DEF r
  <2> DEFINE d == IF x \in R THEN k[x] ELSE 0
  <2>7. d \in Nat /\ f[x] = f2[x] + d /\ h[s \cap R] = d + h[r \cap R]
    BY <2>5, <2>6
  <2> HIDE DEF d
  <2> QED BY <2>3, <2>4, <2>6, <2>7
<1>12. Nat \subseteq T
  <2> HIDE DEF T
  <2> QED BY <1>10, <1>11, Induct
<1>13. g[S] = g2[S] + h[S \cap R]
  BY <1>9, <1>12
<1>14. S \cap R = R /\ g[S] \in Nat /\ g2[S] \in Nat /\ h[R] \in Nat
  BY <1>8
<1>15. g[S] - g2[S] = h[R]
  <2> DEFINE A == g[S]  B == g2[S]  C == h[R]
  <2>1. A = B + C /\ A \in Nat /\ B \in Nat /\ C \in Nat
    <3> HIDE DEF T
    <3> QED BY <1>13, <1>14
  <2> HIDE DEF A, B, C
  <2>2. A - B = C
    BY <2>1
  <2> QED BY <2>2 DEF A, B, C
<1>16. SumFunction(f) = g[S] /\ SumFunction(f2) = g2[S] /\ SumFunction(k) = h[R]
  BY <1>1, <1>2, <1>4
<1> HIDE DEF T
<1> QED BY <1>14, <1>15, <1>16

-----------------------------------------------------------------------------
(* The order of the times of samples *)

\* times are those of T, from the first to the last.
InOrderOf(times, T) ==
  /\ times \in [1..Cardinality(T) -> T]
  /\ \A i, j \in 1..Cardinality(T) : i < j => times[i] < times[j]

\* Finitely many times have a last one.
LEMMA Latest ==
  ASSUME NEW T, IsFiniteSet(T), T \subseteq Int, T # {}
  PROVE  \E t \in T : \A u \in T : u <= t
<1> DEFINE P == {n \in Nat : \A S \in SUBSET T : Cardinality(S) = n /\ S # {}
                              => \E t \in S : \A u \in S : u <= t}
<1>1. ASSUME NEW S \in SUBSET T
      PROVE  /\ IsFiniteSet(S) /\ Cardinality(S) \in Nat /\ (Cardinality(S) = 0 <=> S = {})
             /\ \A x \in S : Cardinality(S \ {x}) = Cardinality(S) - 1
  <2>1. IsFiniteSet(S) /\ Cardinality(S) \in Nat
    BY FS_Subset, FS_CardinalityType
  <2>2. Cardinality(S) = 0 <=> S = {}
    BY <2>1, FS_EmptySet
  <2>3. \A x \in S : Cardinality(S \ {x}) = Cardinality(S) - 1
    BY <2>1, FS_RemoveElement
  <2> QED BY <2>1, <2>2, <2>3
<1>2. 0 \in P
  BY <1>1
<1>3. ASSUME NEW n \in Nat, n \in P PROVE n + 1 \in P
  <2> SUFFICES ASSUME NEW S \in SUBSET T, Cardinality(S) = n + 1, S # {}
               PROVE  \E t \in S : \A u \in S : u <= t
    OBVIOUS
  <2>1. PICK x \in S : TRUE
    OBVIOUS
  <2>2. S \ {x} \in SUBSET T /\ Cardinality(S \ {x}) = n
    <3>1. (n + 1) - 1 = n
      OBVIOUS
    <3> QED BY <1>1, <3>1
  <2>3. CASE S \ {x} = {}
    <3>1. \A u \in S : u = x
      BY <2>3
    <3>2. x \in Int
      OBVIOUS
    <3> QED BY <3>1, <3>2
  <2>4. CASE S \ {x} # {}
    <3>1. PICK t \in S \ {x} : \A u \in S \ {x} : u <= t
      BY <1>3, <2>2, <2>4
    <3>2. t \in Int /\ x \in Int /\ \A u \in S : u \in Int
      OBVIOUS
    <3>3. CASE x <= t
      BY <3>1, <3>3
    <3>4. CASE t <= x
      <4>1. \A u \in S : u <= x
        BY <3>1, <3>2, <3>4
      <4> QED BY <4>1
    <3> QED BY <3>2, <3>3, <3>4
  <2> QED BY <2>3, <2>4
<1>4. Nat \subseteq P
  <2> HIDE DEF P
  <2> QED BY <1>2, <1>3, Induct
<1>5. Cardinality(T) \in P
  BY <1>1, <1>4
<1> QED BY <1>5

\* Finitely many times can be put in order.
LEMMA OrderExists ==
  ASSUME NEW T, IsFiniteSet(T), T \subseteq Int
  PROVE  \E times : InOrderOf(times, T)
<1> DEFINE P == {n \in Nat : \A S \in SUBSET T : Cardinality(S) = n => \E times : InOrderOf(times, S)}
<1>1. ASSUME NEW S \in SUBSET T
      PROVE  /\ IsFiniteSet(S) /\ Cardinality(S) \in Nat /\ (Cardinality(S) = 0 <=> S = {})
             /\ \A x \in S : Cardinality(S \ {x}) = Cardinality(S) - 1
  <2>1. IsFiniteSet(S) /\ Cardinality(S) \in Nat
    BY FS_Subset, FS_CardinalityType
  <2>2. Cardinality(S) = 0 <=> S = {}
    BY <2>1, FS_EmptySet
  <2>3. \A x \in S : Cardinality(S \ {x}) = Cardinality(S) - 1
    BY <2>1, FS_RemoveElement
  <2> QED BY <2>1, <2>2, <2>3
<1>2. 0 \in P
  <2> SUFFICES ASSUME NEW S \in SUBSET T, Cardinality(S) = 0 PROVE \E times : InOrderOf(times, S)
    OBVIOUS
  <2>1. 1..Cardinality(S) = {}
    OBVIOUS
  <2>2. [i \in {} |-> i] \in [1..Cardinality(S) -> S]
    BY <2>1
  <2>3. InOrderOf([i \in {} |-> i], S)
    BY <2>1, <2>2 DEF InOrderOf
  <2> QED BY <2>3
<1>3. ASSUME NEW n \in Nat, n \in P PROVE n + 1 \in P
  <2> SUFFICES ASSUME NEW S \in SUBSET T, Cardinality(S) = n + 1
               PROVE  \E times : InOrderOf(times, S)
    OBVIOUS
  <2>1. S # {} /\ IsFiniteSet(S) /\ S \subseteq Int
    BY <1>1
  <2>2. PICK t \in S : \A u \in S : u <= t
    BY <2>1, Latest
  <2>3. S \ {t} \in SUBSET T /\ Cardinality(S \ {t}) = n
    <3>1. (n + 1) - 1 = n
      OBVIOUS
    <3> QED BY <1>1, <3>1
  <2>4. PICK before : InOrderOf(before, S \ {t})
    BY <1>3, <2>3
  <2>5. before \in [1..n -> S \ {t}] /\ \A i, j \in 1..n : i < j => before[i] < before[j]
    BY <2>3, <2>4 DEF InOrderOf
  <2> DEFINE times == [i \in 1..n + 1 |-> IF i = n + 1 THEN t ELSE before[i]]
  <2>6. \A i \in 1..n : i \in 1..n + 1 /\ i # n + 1 /\ times[i] = before[i] /\ before[i] \in S /\ before[i] # t
    BY <2>5
  <2>7. \A i \in 1..n + 1 : i = n + 1 \/ i \in 1..n
    OBVIOUS
  <2>8. n + 1 \in 1..n + 1 /\ times[n + 1] = t
    OBVIOUS
  <2>9. times \in [1..n + 1 -> S]
    BY <2>5
  <2>10. ASSUME NEW i \in 1..n + 1, NEW j \in 1..n + 1, i < j PROVE times[i] < times[j]
    <3>1. i \in 1..n
      BY <2>10
    <3>2. CASE j \in 1..n
      BY <2>5, <2>6, <2>10, <3>1, <3>2
    <3>3. CASE j = n + 1
      <4>1. times[i] = before[i] /\ before[i] \in S /\ before[i] # t
        BY <2>6, <3>1
      <4>2. before[i] <= t /\ before[i] \in Int /\ t \in Int
        BY <2>1, <2>2, <4>1
      <4>3. before[i] < t
        BY <4>1, <4>2
      <4> HIDE DEF times
      <4> QED BY <2>8, <3>3, <4>1, <4>3
    <3> QED BY <2>7, <3>2, <3>3
  <2> HIDE DEF times
  <2>11. InOrderOf(times, S)
    BY <2>9, <2>10 DEF InOrderOf
  <2> QED BY <2>11
<1>4. Nat \subseteq P
  <2> HIDE DEF P
  <2> QED BY <1>2, <1>3, Induct
<1>5. Cardinality(T) \in P
  BY <1>1, <1>4
<1> QED BY <1>5

\* So the times of a map are in order, and all of them.
LEMMA OrderedTimes ==
  ASSUME NEW T, IsFiniteSet(T), T \subseteq Int
  PROVE  /\ Cardinality(T) \in Nat
         /\ InOrderOf(Ordered(T), T)
         /\ \A t \in T : \E i \in 1..Cardinality(T) : Ordered(T)[i] = t
<1> DEFINE n == Cardinality(T)
<1>1. n \in Nat
  BY FS_CardinalityType
<1>2. PICK times : InOrderOf(times, T)
  BY OrderExists
<1>3. \E f \in [1..n -> T] : \A i, j \in DOMAIN f : i < j => f[i] < f[j]
  BY <1>2 DEF InOrderOf
<1>4. Ordered(T) \in [1..n -> T] /\ \A i, j \in DOMAIN Ordered(T) : i < j => Ordered(T)[i] < Ordered(T)[j]
  BY <1>3 DEF Ordered
<1>5. InOrderOf(Ordered(T), T)
  BY <1>4 DEF InOrderOf
<1>6. \A t \in T : \E i \in 1..n : Ordered(T)[i] = t
  <2> DEFINE f == Ordered(T)
  <2>1. f \in [1..n -> T] /\ \A i, j \in 1..n : i < j => f[i] < f[j]
    BY <1>4
  <2> HIDE DEF f
  <2>2. ASSUME NEW i \in 1..n, NEW j \in 1..n, f[i] = f[j] PROVE i = j
    <3>1. f[i] \in Int /\ f[j] \in Int
      BY <2>1
    <3>2. ~(i < j) /\ ~(j < i)
      BY <2>1, <2>2, <3>1
    <3> QED BY <3>2, <1>1
  <2>3. f \in Injection(1..n, T)
    BY <2>1, <2>2 DEF Injection, IsInjective
  <2>4. Cardinality(1..n) = n /\ 1 \in Int /\ n \in Int
    <3>1. 1 \in Int /\ n \in Int
      BY <1>1
    <3>2. Cardinality(1..n) = IF 1 > n THEN 0 ELSE n-1+1
      <4> HIDE DEF n
      <4> QED BY <3>1, FS_Interval
    <3> HIDE DEF n
    <3> QED BY <1>1, <3>1, <3>2
  <2>5. f \in Surjection(1..n, T)
    <3>1. Cardinality(1..n) = Cardinality(T)
      BY <2>4
    <3> HIDE DEF n
    <3> QED BY <2>3, <3>1, FS_Injection
  <2> QED BY <2>5 DEF Surjection, f
<1> QED BY <1>1, <1>5, <1>6

-----------------------------------------------------------------------------
(* Removing samples *)

\* The places found redundant are places of samples.
LEMMA RedundantPlaces ==
  ASSUME NEW type, NEW times, NEW vs, NEW r, NEW n \in Nat, n > 1, DOMAIN vs = 1..n, Len(vs) = n
  PROVE  Redundant(type, times, vs, r) \subseteq 2..n
<1>1. filterHeld(vs) \subseteq 2..n
  BY DEF filterHeld
<1>2. LastRedundant(vs) \subseteq 2..n
  BY DEF LastRedundant
<1>3. filterFloatingPoint(vs) \subseteq 2..n
  BY <1>2 DEF filterFloatingPoint
<1>4. filterInterpolated(times, vs) \subseteq 2..n
  BY <1>2 DEF filterInterpolated
<1> QED BY <1>1, <1>3, <1>4 DEF Redundant

\* So what is filtered out are samples.
LEMMA RedundantAreSamples ==
  ASSUME NEW attr, StoredAttr(attr), Cardinality(DOMAIN attr.samples) > 1, NEW r
  PROVE  filterTimeSamples(attr, r) \subseteq DOMAIN attr.samples
<1> DEFINE T == DOMAIN attr.samples
           n == Cardinality(T)
           times == Ordered(T)
           vs == [i \in DOMAIN times |-> attr.samples[times[i]]]
<1>1. n \in Nat /\ times \in [1..n -> T]
  BY OrderedTimes DEF StoredAttr, InOrderOf
<1>2. DOMAIN vs = 1..n /\ Len(vs) = n
  <2>1. DOMAIN vs = 1..n
    BY <1>1
  <2> HIDE DEF vs, n
  <2> QED BY <2>1, <1>1, LenProperties
<1>3. Redundant(attr.type, times, vs, r) \subseteq 2..n
  <2> HIDE DEF times, vs, n
  <2> QED BY <1>1, <1>2, RedundantPlaces DEF n
<1> HIDE DEF T, n
<1>4. filterTimeSamples(attr, r) = { times[i] : i \in Redundant(attr.type, times, vs, r) }
  BY DEF filterTimeSamples, T
<1>5. \A i \in 2..n : times[i] \in T
  BY <1>1
<1> HIDE DEF times, vs
<1> QED BY <1>3, <1>4, <1>5 DEF T

\* Optimized removes the samples it is told to, and a single one left becomes the default.
LEMMA OptimizedKeeps ==
  ASSUME NEW attr, StoredAttr(attr), NEW removed
  PROVE  LET kept == DOMAIN attr.samples \ removed
             new == Optimized(attr, removed)
         IN  /\ StoredAttr(new)
             /\ new.type = attr.type
             /\ Cardinality(kept) # 1 => /\ DOMAIN new.samples = kept /\ new.default = attr.default
                                         /\ \A t \in kept : new.samples[t] = attr.samples[t]
             /\ Cardinality(kept) = 1 => /\ new.samples = << >>
                                         /\ \E t \in kept : kept = {t} /\ new.default = LeftValue(attr, t)
<1> DEFINE kept == DOMAIN attr.samples \ removed
           new == Optimized(attr, removed)
<1>1. IsFiniteSet(kept) /\ kept \subseteq Int
  BY FS_Subset DEF StoredAttr
<1>2. CASE Cardinality(kept) = 1
  <2>1. PICK t : kept = {t}
    BY <1>1, <1>2, FS_Singleton
  <2>2. (CHOOSE u \in kept : TRUE) = t
    BY <2>1
  <2>3. new = [attr EXCEPT !.samples = << >>, !.default = LeftValue(attr, t)]
    BY <1>2, <2>2 DEF Optimized
  <2>4. /\ new.samples = << >> /\ new.default = LeftValue(attr, t) /\ new.type = attr.type
        /\ DOMAIN new = DOMAIN attr
    BY <2>3 DEF StoredAttr
  <2>5. DOMAIN new.samples = {} /\ IsFiniteSet({})
    <3>1. DOMAIN << >> = {}
      OBVIOUS
    <3> HIDE DEF new
    <3> QED BY <2>4, <3>1, FS_EmptySet
  <2> HIDE DEF new
  <2>6. StoredAttr(new)
    BY <2>4, <2>5 DEF StoredAttr
  <2> QED BY <1>2, <2>1, <2>4, <2>6 DEF new
<1>3. CASE Cardinality(kept) # 1
  <2>1. new = [attr EXCEPT !.samples = [t \in kept |-> attr.samples[t]]]
    BY <1>3 DEF Optimized
  <2>2. /\ new.samples = [t \in kept |-> attr.samples[t]] /\ new.default = attr.default
        /\ new.type = attr.type /\ DOMAIN new = DOMAIN attr
    BY <2>1 DEF StoredAttr
  <2> HIDE DEF new
  <2>3. StoredAttr(new)
    BY <1>1, <2>2 DEF StoredAttr
  <2> QED BY <1>3, <2>2, <2>3 DEF new
<1> QED BY <1>2, <1>3

\* What the analysis counts for an attribute are the samples that it loses.
LEMMA AttributeCounted ==
  ASSUME NEW attr, StoredAttr(attr), NEW r
  PROVE  LET new == processAttribute(attr, r)
         IN  /\ StoredAttr(new)
             /\ Cardinality(DOMAIN attr.samples) \in Nat
             /\ Cardinality(DOMAIN new.samples) \in Nat
             /\ AnalyzedAttribute(attr, r) \in Nat
             /\ Cardinality(DOMAIN attr.samples)
                  = Cardinality(DOMAIN new.samples) + AnalyzedAttribute(attr, r)
<1> DEFINE T == DOMAIN attr.samples
           size == Cardinality(T)
           removed == filterTimeSamples(attr, r)
           new == processAttribute(attr, r)
           told == AnalyzedAttribute(attr, r)
<1>1. IsFiniteSet(T) /\ size \in Nat /\ (size = 0 <=> T = {})
  BY FS_CardinalityType, FS_EmptySet DEF StoredAttr
<1>2. DOMAIN << >> = {} /\ Cardinality({}) = 0 /\ IsFiniteSet({})
  BY FS_EmptySet
<1>3. CASE size <= 1
  <2>1. told = size
    BY <1>3 DEF AnalyzedAttribute
  <2>2. StoredAttr(new) /\ DOMAIN new.samples = {}
    <3>1. CASE attr.samples = << >>
      BY <3>1, <1>2 DEF processAttribute
    <3>2. CASE attr.samples # << >> /\ size = 1
      <4>1. new = Optimized(attr, {})
        BY <3>2 DEF processAttribute
      <4>2. DOMAIN attr.samples \ {} = T
        OBVIOUS
      <4>3. StoredAttr(new) /\ new.samples = << >>
        <5> HIDE DEF new
        <5> QED BY <3>2, <4>1, <4>2, OptimizedKeeps
      <4> HIDE DEF new
      <4> QED BY <4>3, <1>2
    <3>3. CASE attr.samples # << >> /\ size # 1
      <4>1. new = Optimized(attr, removed)
        BY <3>3 DEF processAttribute
      <4>2. T = {} /\ T \ removed = {}
        BY <1>1, <1>3, <3>3
      <4>3. StoredAttr(new) /\ DOMAIN new.samples = T \ removed
        <5> HIDE DEF new, removed
        <5>1. Cardinality(DOMAIN attr.samples \ removed) # 1
          BY <4>2, <1>2
        <5> QED BY <5>1, <4>1, OptimizedKeeps
      <4> HIDE DEF new
      <4> QED BY <4>2, <4>3
    <3> QED BY <3>1, <3>2, <3>3
  <2> HIDE DEF told, new, size
  <2> QED BY <1>1, <1>2, <2>1, <2>2 DEF told, new, size
<1>4. CASE size > 1
  <2>1. removed \subseteq T /\ IsFiniteSet(removed) /\ Cardinality(removed) \in Nat
    <3>1. removed \subseteq T
      BY <1>4, RedundantAreSamples
    <3> HIDE DEF removed
    <3> QED BY <3>1, <1>1, FS_Subset, FS_CardinalityType
  <2>2. new = Optimized(attr, removed)
    <3>1. attr.samples # << >> /\ size # 1
      BY <1>1, <1>2, <1>4
    <3> QED BY <3>1 DEF processAttribute
  <2>3. told = IF Cardinality(removed) = size - 1 THEN size ELSE Cardinality(removed)
    BY <1>1, <1>4 DEF AnalyzedAttribute
  <2> HIDE DEF removed, told
  <2>4. IsFiniteSet(T \ removed) /\ Cardinality(T \ removed) = size - Cardinality(removed)
    <3>1. T \cap removed = removed
      BY <2>1
    <3> HIDE DEF T
    <3> QED BY <3>1, <1>1, FS_Difference
  <2>5. StoredAttr(new)
    <3> HIDE DEF new
    <3> QED BY <2>2, OptimizedKeeps
  <2>6. CASE Cardinality(T \ removed) = 1
    <3>1. new.samples = << >>
      <4> HIDE DEF new
      <4> QED BY <2>2, <2>6, OptimizedKeeps
    <3>2. Cardinality(DOMAIN new.samples) = 0
      <4> HIDE DEF new
      <4> QED BY <3>1, <1>2
    <3>3. told = size
      <4> DEFINE c == Cardinality(removed)
      <4>1. 1 = size - c /\ c \in Nat /\ size \in Nat
        BY <2>1, <2>4, <2>6, <1>1
      <4> HIDE DEF c, size
      <4>2. c = size - 1
        BY <4>1
      <4> QED BY <4>2, <2>3 DEF c, size
    <3> HIDE DEF new, size
    <3> QED BY <1>1, <2>5, <3>2, <3>3 DEF told, new, size
  <2>7. CASE Cardinality(T \ removed) # 1
    <3>1. DOMAIN new.samples = T \ removed
      <4> HIDE DEF new
      <4> QED BY <2>2, <2>7, OptimizedKeeps
    <3> DEFINE c == Cardinality(removed)  d == Cardinality(DOMAIN new.samples)
    <3>2. d = size - c /\ c \in Nat /\ size \in Nat /\ d \in Nat /\ d # 1
      <4>1. Cardinality(T \ removed) \in Nat
        BY <2>4, FS_CardinalityType
      <4> HIDE DEF new
      <4> QED BY <1>1, <2>1, <2>4, <2>7, <3>1, <4>1
    <3>3. told = IF c = size - 1 THEN size ELSE c
      BY <2>3
    <3> HIDE DEF c, d, size
    <3>4. told = c /\ size = d + c
      BY <3>2, <3>3
    <3> HIDE DEF new
    <3> QED BY <2>5, <3>2, <3>4 DEF told, new, size, d
  <2> QED BY <2>6, <2>7
<1>5. size <= 1 \/ size > 1
  BY <1>1
<1> QED BY <1>3, <1>4, <1>5

\* The same of all attributes of a prim.
LEMMA PrimCounted ==
  ASSUME NEW prim, StoredPrim(prim), NEW r
  PROVE  LET new == OptimizedPrim(prim, r)
         IN  /\ StoredPrim(new)
             /\ SamplesOf(prim) \in Nat /\ SamplesOf(new) \in Nat /\ AnalyzedPrim(prim, r) \in Nat
             /\ SamplesOf(prim) = SamplesOf(new) + AnalyzedPrim(prim, r)
<1> DEFINE N == DOMAIN prim.attrs
           new == OptimizedPrim(prim, r)
           f == [n \in N |-> Cardinality(DOMAIN prim.attrs[n].samples)]
           f2 == [n \in N |-> Cardinality(DOMAIN new.attrs[n].samples)]
           k == [n \in N |-> AnalyzedAttribute(prim.attrs[n], r)]
<1>1. /\ DOMAIN new = DOMAIN prim
      /\ new.attrs = [n \in N |-> processAttribute(prim.attrs[n], r)]
  BY DEF OptimizedPrim, StoredPrim
<1>2. DOMAIN new.attrs = N /\ \A n \in N : new.attrs[n] = processAttribute(prim.attrs[n], r)
  <2> HIDE DEF new
  <2> QED BY <1>1
<1> HIDE DEF new
<1>3. IsFiniteSet(N) /\ \A n \in N : StoredAttr(prim.attrs[n])
  BY DEF StoredPrim
<1>4. ASSUME NEW n \in N
      PROVE  /\ StoredAttr(new.attrs[n])
             /\ f[n] \in Nat /\ f2[n] \in Nat /\ k[n] \in Nat /\ f[n] = f2[n] + k[n]
  <2>1. StoredAttr(prim.attrs[n]) /\ new.attrs[n] = processAttribute(prim.attrs[n], r)
    BY <1>2, <1>3
  <2>2. /\ f[n] = Cardinality(DOMAIN prim.attrs[n].samples)
        /\ f2[n] = Cardinality(DOMAIN new.attrs[n].samples)
        /\ k[n] = AnalyzedAttribute(prim.attrs[n], r)
    OBVIOUS
  <2> HIDE DEF f, f2, k
  <2> QED BY <2>1, <2>2, AttributeCounted
<1>5. StoredPrim(new)
  BY <1>1, <1>2, <1>4 DEF StoredPrim
<1>6. f \in [N -> Nat] /\ f2 \in [N -> Nat] /\ k \in [N -> Nat]
  BY <1>4
<1>7. SamplesOf(prim) = SumFunction(f) /\ AnalyzedPrim(prim, r) = SumFunction(k)
  BY DEF SamplesOf, AnalyzedPrim
<1>8. SamplesOf(new) = SumFunction(f2)
  BY <1>2 DEF SamplesOf
<1>9. \A n \in N : f[n] = f2[n] + IF n \in N THEN k[n] ELSE 0
  <2> HIDE DEF f, f2, k
  <2> QED BY <1>4
<1> HIDE DEF f, f2, k, N
<1>10. /\ SumFunction(f) \in Nat /\ SumFunction(f2) \in Nat /\ SumFunction(k) \in Nat
       /\ SumFunction(f) - SumFunction(f2) = SumFunction(k)
  <2>1. IsFiniteSet(N) /\ N \in SUBSET N
    BY <1>3
  <2> QED BY <1>6, <1>9, <2>1, SumDifference, SMTT(60)
<1>11. SumFunction(f) = SumFunction(f2) + SumFunction(k)
  <2> DEFINE A == SumFunction(f)  B == SumFunction(f2)  C == SumFunction(k)
  <2>1. A \in Nat /\ B \in Nat /\ C \in Nat /\ A - B = C
    BY <1>10
  <2> HIDE DEF A, B, C
  <2>2. A = B + C
    BY <2>1
  <2> QED BY <2>2 DEF A, B, C
<1> QED BY <1>5, <1>7, <1>8, <1>10, <1>11 DEF new

\* The same of a stage: as many samples go as the analysis counts.
LEMMA StageCounted ==
  ASSUME Stored(stage), NEW r, OptimizeTimeSamples(r)
  PROVE  /\ Stored(stage')
         /\ Samples(stage) - Samples(stage') = Analysis(stage, r)
<1> DEFINE P == DOMAIN stage.prims
           R == Resolved(stage)
           next == stage'
           f == [p \in P |-> SamplesOf(stage.prims[p])]
           f2 == [p \in P |-> SamplesOf(next.prims[p])]
           k == [p \in R |-> AnalyzedPrim(stage.prims[p], r)]
<1>1. /\ DOMAIN next = DOMAIN stage
      /\ next.prims = [p \in P |-> IF p \in R THEN OptimizedPrim(stage.prims[p], r)
                                   ELSE stage.prims[p]]
  BY DEF OptimizeTimeSamples, Stored
<1> HIDE DEF next
<1>2. DOMAIN next.prims = P /\ \A p \in P : next.prims[p] = IF p \in R THEN OptimizedPrim(stage.prims[p], r)
                                                            ELSE stage.prims[p]
  BY <1>1
<1>3. IsFiniteSet(P) /\ R \in SUBSET P /\ \A p \in P : StoredPrim(stage.prims[p])
  BY DEF Stored, Resolved
<1> HIDE DEF R
<1>4. ASSUME NEW p \in P
      PROVE  /\ StoredPrim(next.prims[p])
             /\ f[p] \in Nat /\ f2[p] \in Nat
             /\ p \in R => k[p] \in Nat
             /\ f[p] = f2[p] + IF p \in R THEN k[p] ELSE 0
  <2>1. /\ f[p] = SamplesOf(stage.prims[p])
        /\ f2[p] = SamplesOf(next.prims[p])
        /\ p \in R => k[p] = AnalyzedPrim(stage.prims[p], r)
    OBVIOUS
  <2>2. StoredPrim(stage.prims[p])
    BY <1>3
  <2> HIDE DEF f, f2, k
  <2>3. CASE p \in R
    <3>1. next.prims[p] = OptimizedPrim(stage.prims[p], r)
      BY <1>2, <2>3
    <3> QED BY <2>1, <2>2, <2>3, <3>1, PrimCounted
  <2>4. CASE p \notin R
    <3>1. next.prims[p] = stage.prims[p]
      BY <1>2, <2>4
    <3>2. SamplesOf(stage.prims[p]) \in Nat
      BY <2>2, PrimCounted
    <3>3. f[p] \in Nat /\ f2[p] = f[p]
      BY <2>1, <3>1, <3>2
    <3> QED BY <2>2, <2>4, <3>1, <3>3
  <2> QED BY <2>3, <2>4
<1>5. Stored(next)
  BY <1>1, <1>2, <1>3, <1>4 DEF Stored
<1>6. f \in [P -> Nat] /\ f2 \in [P -> Nat] /\ k \in [R -> Nat]
  BY <1>3, <1>4
<1>7. Samples(stage) = SumFunction(f) /\ Analysis(stage, r) = SumFunction(k) /\ Samples(next) = SumFunction(f2)
  <2>1. Samples(stage) = SumFunction(f)
    BY DEF Samples
  <2>2. Analysis(stage, r) = SumFunction(k)
    BY DEF Analysis, R
  <2>3. Samples(next) = SumFunction(f2)
    BY <1>2 DEF Samples
  <2> QED BY <2>1, <2>2, <2>3
<1>8. \A p \in P : f[p] = f2[p] + IF p \in R THEN k[p] ELSE 0
  <2> HIDE DEF f, f2, k
  <2> QED BY <1>4
<1> HIDE DEF f, f2, k, P
<1>9. SumFunction(f) - SumFunction(f2) = SumFunction(k)
  BY <1>3, <1>6, <1>8, SumDifference
<1>10. Samples(stage') = Samples(next) /\ (Stored(stage') <=> Stored(next))
  BY DEF next
<1> QED BY <1>5, <1>7, <1>9, <1>10

-----------------------------------------------------------------------------
(* Every other operation leaves a stage that a layer stores *)

\* A function has finitely many values of finitely many arguments.
LEMMA ImageFinite ==
  ASSUME NEW S, IsFiniteSet(S), NEW f, DOMAIN f = S
  PROVE  IsFiniteSet({ f[x] : x \in S })
<1> DEFINE T == { f[x] : x \in S }
           g == [x \in S |-> f[x]]
<1>1. g \in Surjection(S, T)
  BY DEF Surjection
<1> HIDE DEF g, T
<1>2. IsFiniteSet(T)
  BY <1>1, FS_Surjection
<1> QED BY <1>2 DEF T

\* An attribute may be added or replaced.
LEMMA StoredSetAttr ==
  ASSUME NEW prim, StoredPrim(prim), NEW name, NamesTell({name}), NEW attr, StoredAttr(attr)
  PROVE  StoredPrim(SetAttr(prim, name, attr))
<1> DEFINE new == SetAttr(prim, name, attr)
<1>1. /\ DOMAIN new = DOMAIN prim
      /\ new.attrs = [n \in DOMAIN prim.attrs \cup {name} |-> IF n = name THEN attr
                                                              ELSE prim.attrs[n]]
  BY DEF SetAttr, StoredPrim
<1>2. IsFiniteSet(DOMAIN prim.attrs \cup {name})
  BY FS_AddElement DEF StoredPrim
<1> HIDE DEF new
<1>3. /\ DOMAIN new.attrs = DOMAIN prim.attrs \cup {name}
      /\ \A n \in DOMAIN new.attrs : StoredAttr(new.attrs[n])
  BY <1>1 DEF StoredPrim
<1>4. NamesTell(DOMAIN new.attrs)
  BY <1>3 DEF StoredPrim, NamesTell
<1> QED BY <1>1, <1>2, <1>3, <1>4 DEF StoredPrim, new

\* An attribute without samples.
LEMMA StoredSimple ==
  ASSUME NEW type, NEW default
  PROVE  StoredAttr(Attr(type, default))
<1>1. DOMAIN << >> = {}
  OBVIOUS
<1> DEFINE a == Attr(type, default)
<1>2. DOMAIN a = {"type", "default", "samples"} /\ a.samples = << >>
  BY DEF Attr
<1> HIDE DEF a
<1> QED BY <1>1, <1>2, FS_EmptySet DEF StoredAttr, a

\* Transforming the values of an attribute leaves its times.
LEMMA StoredTransformed ==
  ASSUME NEW attr, StoredAttr(attr), NEW name, NEW scale, NEW basis
  PROVE  StoredAttr(Transformed(name, attr, scale, basis))
<1> DEFINE new == Transformed(name, attr, scale, basis)
<1>1. DOMAIN new = DOMAIN attr /\ DOMAIN new.samples = DOMAIN attr.samples
  BY DEF Transformed, StoredAttr
<1> HIDE DEF new
<1> QED BY <1>1 DEF StoredAttr, new

\* The attributes of a prim may be replaced one by one.
LEMMA StoredReplaced ==
  ASSUME NEW prim, StoredPrim(prim), NEW new,
         DOMAIN new = DOMAIN prim, DOMAIN new.attrs = DOMAIN prim.attrs,
         \A n \in DOMAIN prim.attrs : StoredAttr(new.attrs[n])
  PROVE  StoredPrim(new)
BY DEF StoredPrim

\* So it does for the attributes of a prim.
LEMMA StoredTransformAll ==
  ASSUME NEW prim, StoredPrim(prim), NEW names, NEW scale, NEW basis
  PROVE  StoredPrim(TransformAll(prim, names, scale, basis))
<1> DEFINE new == TransformAll(prim, names, scale, basis)
<1>1. /\ DOMAIN new = DOMAIN prim
      /\ new.attrs = [n \in DOMAIN prim.attrs |->
                        IF n \in names THEN Transformed(n, prim.attrs[n], scale, basis)
                        ELSE prim.attrs[n]]
  BY DEF TransformAll, StoredPrim
<1> HIDE DEF new
<1>2. ASSUME NEW n \in DOMAIN prim.attrs PROVE StoredAttr(new.attrs[n])
  <2>1. StoredAttr(prim.attrs[n])
    BY DEF StoredPrim
  <2>2. new.attrs[n] = IF n \in names THEN Transformed(n, prim.attrs[n], scale, basis)
                       ELSE prim.attrs[n]
    BY <1>1
  <2> QED BY <2>1, <2>2, StoredTransformed
<1>3. DOMAIN new.attrs = DOMAIN prim.attrs
  BY <1>1
<1>4. StoredPrim(new)
  BY <1>1, <1>2, <1>3, StoredReplaced
<1> QED BY <1>4 DEF new

\* Sets of a few elements are finite.
LEMMA FewFinite ==
  \A a, b, c, d : IsFiniteSet({a, b}) /\ IsFiniteSet({a, b, c, d})
<1> SUFFICES ASSUME NEW a, NEW b, NEW c, NEW d
             PROVE  IsFiniteSet({a, b}) /\ IsFiniteSet({a, b, c, d})
  OBVIOUS
<1>1. IsFiniteSet({a}) /\ IsFiniteSet({c})
  BY FS_Singleton
<1>2. {a, b} = {a} \cup {b} /\ {c, d} = {c} \cup {d} /\ {a, b, c, d} = {a, b} \cup {c, d}
  OBVIOUS
<1>3. IsFiniteSet({a} \cup {b}) /\ IsFiniteSet({c} \cup {d})
  BY <1>1, FS_AddElement
<1>4. IsFiniteSet({a, b}) /\ IsFiniteSet({c, d})
  BY <1>2, <1>3
<1>5. IsFiniteSet({a, b} \cup {c, d})
  BY <1>4, FS_Union
<1> QED BY <1>2, <1>4, <1>5

\* The lengths of a type are a few, and no limits.
LEMMA LengthNamesFinite ==
  ASSUME NEW type
  PROVE  IsFiniteSet(LengthNames(type)) /\ NamesTell(LengthNames(type))
<1> DEFINE A == {<<"height">>, <<"radius">>, <<"size">>, <<"width">>}
           B == {<<"length">>, <<"guideRadius">>, <<"clippingRange">>, <<"widths">>}
<1>1. IsFiniteSet(A) /\ IsFiniteSet(B)
  BY FewFinite
<1>2. IsFiniteSet(A \cup B)
  <2> HIDE DEF A, B
  <2> QED BY <1>1, FS_Union
<1>3. DOMAIN Lengths(type) \subseteq {"height", "radius", "size", "width", "length", "guideRadius", "clippingRange", "widths"}
  BY DEF Lengths
<1>4. LengthNames(type) \subseteq A \cup B
  BY <1>3 DEF LengthNames
<1>5. NamesTell(A \cup B)
  BY DEF NamesTell
<1> HIDE DEF A, B
<1>6. IsFiniteSet(LengthNames(type))
  BY <1>2, <1>4, FS_Subset
<1>7. NamesTell(LengthNames(type))
  BY <1>4, <1>5 DEF NamesTell
<1> QED BY <1>6, <1>7

\* The names of the attributes that a schema has.
LEMMA SchemaNames ==
  ASSUME NEW prim
  PROVE  /\ IsFiniteSet(Scaled(prim)) /\ NamesTell(Scaled(prim))
         /\ IsFiniteSet(Based(prim)) /\ NamesTell(Based(prim))
<1> DEFINE L == { LimitName(axis, end) : axis \in Limited(prim, TransAxes), end \in Ends }
           H == {LimitName("transX", "high"), LimitName("transX", "low"), LimitName("transY", "high"), LimitName("transY", "low")}
           Z == {LimitName("transZ", "high"), LimitName("transZ", "low")}
<1>1. IsFiniteSet(H) /\ IsFiniteSet(Z)
  BY FewFinite
<1>2. IsFiniteSet(H \cup Z)
  <2> HIDE DEF H, Z
  <2> QED BY <1>1, FS_Union
<1>3. L \subseteq H \cup Z
  BY DEF Limited, TransAxes, Ends
<1>4. NamesTell(H \cup Z)
  BY DEF NamesTell, LimitName, Flipped
<1>5. IsFiniteSet(L) /\ NamesTell(L)
  <2> HIDE DEF H, Z, L
  <2>1. IsFiniteSet(L)
    BY <1>2, <1>3, FS_Subset
  <2>2. NamesTell(L)
    BY <1>3, <1>4 DEF NamesTell
  <2> QED BY <2>1, <2>2
<1> HIDE DEF L, H, Z
<1>6. IsFiniteSet(Scaled(prim)) /\ NamesTell(Scaled(prim))
  <2>1. Scaled(prim) = L \cup LengthNames(prim.type)
    BY DEF Scaled, L
  <2>2. IsFiniteSet(LengthNames(prim.type)) /\ NamesTell(LengthNames(prim.type))
    BY LengthNamesFinite
  <2>3. IsFiniteSet(L \cup LengthNames(prim.type))
    BY <1>5, <2>2, FS_Union
  <2>4. NamesTell(L \cup LengthNames(prim.type))
    BY <1>5, <2>2 DEF NamesTell
  <2> QED BY <2>1, <2>3, <2>4
<1>7. IsFiniteSet(Based(prim)) /\ NamesTell(Based(prim))
  <2> DEFINE A == {<<"extent">>, <<"extentsHint">>, <<"translations">>, <<"translations">>}
  <2>1. IsFiniteSet(A)
    BY FewFinite
  <2>2. Based(prim) \subseteq A
    BY DEF Based
  <2>3. NamesTell(A)
    BY DEF NamesTell
  <2> HIDE DEF A
  <2>4. IsFiniteSet(Based(prim))
    BY <2>1, <2>2, FS_Subset
  <2>5. NamesTell(Based(prim))
    BY <2>2, <2>3 DEF NamesTell
  <2> QED BY <2>4, <2>5
<1> QED BY <1>6, <1>7

\* Fallbacks have no samples.
LEMMA StoredFallback ==
  ASSUME NEW prim, NEW name
  PROVE  StoredAttr(Fallback(prim, name))
<1>1. \A x : StoredAttr(F(x))
  BY StoredSimple DEF F
<1>2. StoredAttr(NoExtent) /\ StoredAttr(NoLimit) /\ \A x : StoredAttr(Box(x))
  BY StoredSimple DEF NoExtent, NoLimit, Box
<1>3. \A x, y : StoredAttr(Attr(x, y))
  BY StoredSimple
<1>4. StoredAttr(FallbackExtent(prim.type))
  BY <1>2 DEF FallbackExtent
<1>5. \A key \in DOMAIN Lengths(prim.type) : StoredAttr(Lengths(prim.type)[key])
  <2> SUFFICES ASSUME NEW key \in DOMAIN Lengths(prim.type)
               PROVE  StoredAttr(Lengths(prim.type)[key])
    OBVIOUS
  <2> QED BY <1>1, <1>3 DEF Lengths
<1>6. name \in LengthNames(prim.type) => name[1] \in DOMAIN Lengths(prim.type)
  BY DEF LengthNames
<1> QED BY <1>2, <1>3, <1>4, <1>5, <1>6 DEF Fallback

\* Attributes may be created with them.
LEMMA StoredCreate ==
  ASSUME NEW prim, StoredPrim(prim), NEW names, IsFiniteSet(names), NamesTell(names)
  PROVE  StoredPrim(Create(prim, names))
<1>1. CASE prim.spec # "def"
  BY <1>1 DEF Create
<1>2. CASE prim.spec = "def"
  <2> DEFINE new == Create(prim, names)
  <2>1. /\ DOMAIN new = DOMAIN prim
        /\ new.attrs = [n \in DOMAIN prim.attrs \cup names |->
                          IF n \in DOMAIN prim.attrs THEN prim.attrs[n] ELSE Fallback(prim, n)]
    BY <1>2 DEF Create, StoredPrim
  <2>2. IsFiniteSet(DOMAIN prim.attrs \cup names)
    BY FS_Union DEF StoredPrim
  <2> HIDE DEF new
  <2>3. DOMAIN new.attrs = DOMAIN prim.attrs \cup names
    BY <2>1
  <2>4. ASSUME NEW n \in DOMAIN new.attrs PROVE StoredAttr(new.attrs[n])
    <3>1. new.attrs[n] = IF n \in DOMAIN prim.attrs THEN prim.attrs[n] ELSE Fallback(prim, n)
      BY <2>1
    <3>2. n \in DOMAIN prim.attrs => StoredAttr(prim.attrs[n])
      BY DEF StoredPrim
    <3> QED BY <3>1, <3>2, StoredFallback
  <2>5. NamesTell(DOMAIN new.attrs)
    BY <2>3 DEF StoredPrim, NamesTell
  <2>6. StoredPrim(new)
    BY <2>1, <2>2, <2>3, <2>4, <2>5 DEF StoredPrim
  <2> QED BY <2>6 DEF new
<1> QED BY <1>1, <1>2

\* So the schema attributes of a prim may be processed.
LEMMA StoredSchema ==
  ASSUME NEW prim, StoredPrim(prim), NEW scale, NEW basis
  PROVE  StoredPrim(SchemaAttributes(prim, scale, basis))
<1> DEFINE scaled == IF scale = None THEN {} ELSE Scaled(prim)
           created == Create(prim, scaled \cup Based(prim))
           once == TransformAll(created, scaled, scale, None)
           lengths == IF scale = None THEN created
                      ELSE TransformAll(once, Dense(prim), Power(scale, -3), None)
<1>1. IsFiniteSet(scaled) /\ NamesTell(scaled) /\ IsFiniteSet(Based(prim)) /\ NamesTell(Based(prim))
  BY SchemaNames, FS_EmptySet DEF NamesTell
<1>2. IsFiniteSet(scaled \cup Based(prim)) /\ NamesTell(scaled \cup Based(prim))
  <2> HIDE DEF scaled
  <2>1. IsFiniteSet(scaled \cup Based(prim))
    BY <1>1, FS_Union
  <2> QED BY <1>1, <2>1 DEF NamesTell
<1> HIDE DEF scaled
<1>3. StoredPrim(created)
  BY <1>2, StoredCreate
<1> HIDE DEF created
<1>4. StoredPrim(once)
  BY <1>3, StoredTransformAll
<1> HIDE DEF once
<1>5. StoredPrim(lengths)
  BY <1>3, <1>4, StoredTransformAll
<1>6. SchemaAttributes(prim, scale, basis) = TransformAll(lengths, Based(prim), scale, basis)
  BY DEF SchemaAttributes, lengths, once, created, scaled
<1> HIDE DEF lengths
<1> QED BY <1>5, <1>6, StoredTransformAll

\* Flipping a name twice gives it back, which makes flipping injective.
LEMMA FlippedTwice ==
  ASSUME NEW names, NamesTell(names), NEW n \in names
  PROVE  FlippedName(FlippedName(n)) = n /\ NamesTell({FlippedName(n)})
<1>1. CASE n[1] = "limit"
  <2>1. n = LimitName(n[2], n[3]) /\ n[2] \in DOMAIN Flipped
    BY <1>1 DEF NamesTell
  <2> DEFINE axis == n[2]  end == n[3]
  <2>2. Flipped[axis] \in DOMAIN Flipped /\ Flipped[Flipped[axis]] = axis
    BY <2>1 DEF Flipped
  <2>3. FlippedName(n) = LimitName(Flipped[axis], end)
    BY <1>1 DEF FlippedName
  <2> HIDE DEF axis, end
  <2>4. FlippedName(LimitName(Flipped[axis], end)) = LimitName(Flipped[Flipped[axis]], end)
    BY DEF FlippedName, LimitName
  <2>5. NamesTell({LimitName(Flipped[axis], end)})
    BY <2>2 DEF NamesTell, LimitName
  <2> QED BY <2>1, <2>2, <2>3, <2>4, <2>5 DEF axis, end
<1>2. CASE n[1] # "limit"
  BY <1>2 DEF FlippedName, NamesTell
<1> QED BY <1>1, <1>2

\* So the limits of a prim may be flipped.
LEMMA StoredFlipped ==
  ASSUME NEW prim, StoredPrim(prim)
  PROVE  StoredPrim(FlipLimits(prim))
<1> DEFINE new == FlipLimits(prim)
           N == DOMAIN prim.attrs
           M == { FlippedName(m) : m \in N }
<1>1. /\ DOMAIN new = DOMAIN prim
      /\ new.attrs = [n \in M |-> prim.attrs[FlippedName(n)]]
  BY DEF FlipLimits, StoredPrim
<1> HIDE DEF new
<1>2. IsFiniteSet(M)
  <2> DEFINE f == [m \in N |-> FlippedName(m)]
  <2>1. DOMAIN f = N /\ M = { f[m] : m \in N }
    OBVIOUS
  <2>2. IsFiniteSet(N)
    BY DEF StoredPrim
  <2> HIDE DEF f, M, N
  <2>3. IsFiniteSet({ f[m] : m \in N })
    BY <2>1, <2>2, ImageFinite
  <2> QED BY <2>1, <2>3
<1>3. ASSUME NEW n \in M PROVE StoredAttr(new.attrs[n]) /\ NamesTell({n})
  <2>1. PICK m \in N : n = FlippedName(m)
    BY <1>3
  <2>2. FlippedName(n) = m /\ NamesTell({n})
    <3>1. NamesTell(N)
      BY DEF StoredPrim
    <3> HIDE DEF N
    <3> QED BY <2>1, <3>1, FlippedTwice
  <2>3. new.attrs[n] = prim.attrs[m]
    BY <1>1, <1>3, <2>2
  <2> QED BY <2>2, <2>3 DEF StoredPrim
<1>4. DOMAIN new.attrs = M
  BY <1>1
<1> HIDE DEF M
<1>5. NamesTell(M)
  BY <1>3 DEF NamesTell
<1>6. StoredPrim(new)
  BY <1>1, <1>2, <1>3, <1>4, <1>5 DEF StoredPrim
<1> QED BY <1>6 DEF new

\* A rotation about an axis keeps the times of its samples, or of those it is merged with.
LEMMA StoredTurned ==
  ASSUME NEW attr, StoredAttr(attr), NEW basis, NEW op, NEW old, StoredAttr(old)
  PROVE  StoredAttr(TurnedAttr(basis, op, attr)) /\ StoredAttr(Merged(old, TurnedAttr(basis, op, attr)))
<1> DEFINE new == TurnedAttr(basis, op, attr)
           both == Merged(old, new)
<1>1. DOMAIN new = DOMAIN attr /\ DOMAIN new.samples = DOMAIN attr.samples
  BY DEF TurnedAttr, StoredAttr
<1> HIDE DEF new
<1>2. StoredAttr(new)
  BY <1>1 DEF StoredAttr
<1>3. DOMAIN both = DOMAIN new /\ both.samples \in {old.samples, new.samples}
  BY <1>2 DEF Merged, StoredAttr
<1> HIDE DEF both
<1>4. StoredAttr(both)
  BY <1>2, <1>3 DEF StoredAttr
<1> QED BY <1>2, <1>4 DEF new, both

\* Names of ops are no limits.
LEMMA XformOpNames ==
  ASSUME NEW kind, NEW suffix
  PROVE  NamesTell({XformOp(kind, suffix)})
BY DEF NamesTell, XformOp

\* So the rotations of a prim may be turned.
LEMMA StoredSingleAxes ==
  ASSUME NEW prim, StoredPrim(prim), NEW basis
  PROVE  StoredPrim(TurnSingleAxes(prim, basis))
<1> DEFINE new == TurnSingleAxes(prim, basis)
           ops == Remapped(prim)
           names == { NewName(basis, op) : op \in ops }
           From(name) == CHOOSE op \in ops : NewName(basis, op) = name
           New(name) == TurnedAttr(basis, From(name), prim.attrs[From(name)])
           N == (DOMAIN prim.attrs \ ops) \cup names
<1>1. /\ DOMAIN new = DOMAIN prim
      /\ new.attrs = [n \in N |-> IF n \notin names THEN prim.attrs[n]
                                  ELSE IF Has(prim, n) THEN Merged(prim.attrs[n], New(n)) ELSE New(n)]
  BY DEF TurnSingleAxes, StoredPrim
<1> HIDE DEF new
<1>2. ops \subseteq DOMAIN prim.attrs
  BY DEF Remapped
<1>3. IsFiniteSet(DOMAIN prim.attrs) /\ \A n \in DOMAIN prim.attrs : StoredAttr(prim.attrs[n])
  BY DEF StoredPrim
<1> HIDE DEF ops
<1>4. IsFiniteSet(N)
  <2>1. IsFiniteSet(ops)
    BY <1>2, <1>3, FS_Subset
  <2>2. IsFiniteSet(names)
    <3> DEFINE f == [op \in ops |-> NewName(basis, op)]
    <3>1. DOMAIN f = ops /\ names = { f[op] : op \in ops }
      OBVIOUS
    <3> HIDE DEF f, names
    <3>2. IsFiniteSet({ f[op] : op \in ops })
      BY <2>1, <3>1, ImageFinite
    <3> QED BY <3>1, <3>2
  <2>3. IsFiniteSet(DOMAIN prim.attrs \ ops)
    BY <1>3, FS_Difference
  <2> HIDE DEF names
  <2> QED BY <2>2, <2>3, FS_Union
<1>5. ASSUME NEW n \in names PROVE From(n) \in ops
  <2>1. \E op \in ops : NewName(basis, op) = n
    BY <1>5
  <2> QED BY <2>1
<1> HIDE DEF From
<1>6. ASSUME NEW n \in names PROVE NamesTell({n})
  <2>1. PICK op \in ops : n = NewName(basis, op)
    BY <1>6
  <2> QED BY <2>1, XformOpNames DEF NewName
<1> HIDE DEF names
<1>7. ASSUME NEW n \in N PROVE StoredAttr(new.attrs[n]) /\ NamesTell({n})
  <2>1. CASE n \notin names
    <3>1. n \in DOMAIN prim.attrs /\ new.attrs[n] = prim.attrs[n]
      BY <1>1, <1>7, <2>1
    <3>2. NamesTell({n})
      BY <3>1 DEF StoredPrim, NamesTell
    <3> QED BY <1>3, <3>1, <3>2
  <2>2. CASE n \in names
    <3> DEFINE source == prim.attrs[From(n)]
    <3>1. StoredAttr(source)
      BY <1>2, <1>3, <1>5, <2>2
    <3>2. new.attrs[n] = IF Has(prim, n) THEN Merged(prim.attrs[n], TurnedAttr(basis, From(n), source))
                         ELSE TurnedAttr(basis, From(n), source)
      BY <1>1, <2>2
    <3>3. Has(prim, n) => StoredAttr(prim.attrs[n])
      BY <1>3 DEF Has
    <3> HIDE DEF source
    <3>4. StoredAttr(new.attrs[n])
      BY <3>1, <3>2, <3>3, StoredTurned
    <3> QED BY <1>6, <2>2, <3>4
  <2> QED BY <2>1, <2>2
<1>8. DOMAIN new.attrs = N
  BY <1>1
<1> HIDE DEF N
<1>9. NamesTell(N)
  BY <1>7 DEF NamesTell
<1>10. StoredPrim(new)
  BY <1>1, <1>4, <1>7, <1>8, <1>9 DEF StoredPrim
<1> QED BY <1>10 DEF new

\* Some attributes of a prim have finitely many times together.
LEMMA TimesFinite ==
  ASSUME NEW prim, StoredPrim(prim), NEW names
  PROVE  IsFiniteSet(TimesOf(prim, names)) /\ TimesOf(prim, names) \subseteq Int
<1> DEFINE N == names \cap DOMAIN prim.attrs
           f == [n \in N |-> DOMAIN prim.attrs[n].samples]
<1>1. IsFiniteSet(N)
  BY FS_Intersection DEF StoredPrim
<1>2. \A n \in N : IsFiniteSet(f[n]) /\ f[n] \subseteq Int
  BY DEF StoredPrim, StoredAttr
<1>3. DOMAIN f = N /\ TimesOf(prim, names) = UNION { f[n] : n \in N }
  BY DEF TimesOf
<1> HIDE DEF f, N
<1>4. IsFiniteSet({ f[n] : n \in N })
  BY <1>1, <1>3, ImageFinite
<1>5. IsFiniteSet(UNION { f[n] : n \in N })
  BY <1>2, <1>4, FS_UNION
<1> QED BY <1>2, <1>3, <1>5

\* Attributes may be removed.
LEMMA StoredRemoved ==
  ASSUME NEW prim, StoredPrim(prim), NEW names
  PROVE  StoredPrim(RemoveAttrs(prim, names))
<1> DEFINE new == RemoveAttrs(prim, names)
           N == DOMAIN prim.attrs \ names
<1>1. DOMAIN new = DOMAIN prim /\ new.attrs = [n \in N |-> prim.attrs[n]]
  BY DEF RemoveAttrs, StoredPrim
<1>2. IsFiniteSet(N)
  BY FS_Difference DEF StoredPrim
<1> HIDE DEF new
<1>3. DOMAIN new.attrs = N /\ \A n \in N : StoredAttr(new.attrs[n])
  BY <1>1 DEF StoredPrim
<1>4. NamesTell(N)
  BY DEF NamesTell, StoredPrim
<1> HIDE DEF N
<1>5. StoredPrim(new)
  BY <1>1, <1>2, <1>3, <1>4 DEF StoredPrim
<1> QED BY <1>5 DEF new

\* The order of the ops, and whether they begin anew, say nothing of the attributes.
LEMMA StoredOrder ==
  ASSUME NEW prim, StoredPrim(prim), NEW new,
         DOMAIN new = DOMAIN prim, new.attrs = prim.attrs
  PROVE  StoredPrim(new)
BY DEF StoredPrim

\* The ops of a prim may be collapsed into one.
LEMMA StoredCollapsed ==
  ASSUME NEW prim, StoredPrim(prim), NEW original, StoredPrim(original), NEW scale, NEW basis, NEW turned
  PROVE  StoredPrim(Collapse(prim, original, scale, basis, turned))
<1> DEFINE ops == Ops(original) \cap DOMAIN original.attrs
           Value(t) == CollapsedValue(LocalTransformation(original, t), scale, basis, turned)
           Default == IF \E op \in ops : HasDefault(original.attrs[op]) THEN Value(None)
                      ELSE IF turned THEN CollapsedValue(Identity, scale, basis, turned) ELSE None
           attr == [type |-> "matrix4d", default |-> Default,
                    samples |-> [t \in TimesOf(original, ops) |-> Value(t)]]
           bare == RemoveAttrs(prim, { n \in DOMAIN prim.attrs : IsXformOp(n) })
           set == SetAttr(bare, Transform, attr)
<1>1. Collapse(prim, original, scale, basis, turned)
        = [set EXCEPT !.order = <<Entry(Transform)>>, !.reset = FALSE]
  BY DEF Collapse
<1>2. StoredAttr(attr)
  <2> HIDE DEF Default, Value, ops
  <2>1. IsFiniteSet(TimesOf(original, ops)) /\ TimesOf(original, ops) \subseteq Int
    BY TimesFinite
  <2> QED BY <2>1 DEF StoredAttr
<1> HIDE DEF attr
<1>3. StoredPrim(bare)
  BY StoredRemoved
<1> HIDE DEF bare
<1>4. NamesTell({Transform})
  BY XformOpNames DEF Transform
<1>5. StoredPrim(set)
  BY <1>2, <1>3, <1>4, StoredSetAttr
<1> HIDE DEF set
<1> DEFINE new == Collapse(prim, original, scale, basis, turned)
<1>6. DOMAIN new = DOMAIN set /\ new.attrs = set.attrs
  BY <1>1, <1>5 DEF StoredPrim
<1> HIDE DEF new
<1>7. StoredPrim(new)
  BY <1>5, <1>6, StoredOrder
<1> QED BY <1>7 DEF new

\* A unique name is one of an op.
LEMMA UniqueOpNames ==
  ASSUME NEW prim, NEW kind, NEW suffix
  PROVE  NamesTell({UniqueOp(prim, kind, suffix)})
BY XformOpNames DEF UniqueOp

\* An op that corrects the axis may be added,
LEMMA StoredUpAxis ==
  ASSUME NEW prim, StoredPrim(prim), NEW name, NamesTell({name}), NEW basis
  PROVE  StoredPrim(CorrectUpAxis(prim, name, basis))
<1> DEFINE attr == Attr("float", <<<<basis.angle>>>>)
           set == SetAttr(prim, name, attr)
           new == CorrectUpAxis(prim, name, basis)
<1>1. new = [set EXCEPT !.order = Append(set.order, Entry(name))]
  BY DEF CorrectUpAxis
<1>2. StoredAttr(attr)
  BY StoredSimple
<1> HIDE DEF attr
<1>3. StoredPrim(set)
  BY <1>2, StoredSetAttr
<1> HIDE DEF set, new
<1>4. DOMAIN new = DOMAIN set /\ new.attrs = set.attrs
  BY <1>1, <1>3 DEF StoredPrim
<1>5. StoredPrim(new)
  BY <1>3, <1>4, StoredOrder
<1> QED BY <1>5 DEF new

\* and those that correct a skeleton.
LEMMA StoredSkeleton ==
  ASSUME NEW prim, StoredPrim(prim), NEW scale, NEW basis
  PROVE  StoredPrim(CorrectSkeleton(prim, scale, basis))
<1> DEFINE scaleOp == UniqueOp(prim, "scale", Correction)
           rotateOp == UniqueOp(prim, "rotateX", Correction)
           x == (Unit * scale.num) \div scale.den
           scaled == IF scale = None THEN prim
                     ELSE SetAttr(prim, scaleOp, Attr("double3", <<<<x, x, x>>>>))
           turned == IF basis = None THEN scaled
                     ELSE SetAttr(scaled, rotateOp, Attr("float", <<<<basis.angle>>>>))
           order == (IF scale = None THEN << >> ELSE <<Entry(scaleOp)>>)
                    \o (IF basis = None THEN << >> ELSE <<Entry(rotateOp)>>) \o turned.order
<1>1. CorrectSkeleton(prim, scale, basis) = [turned EXCEPT !.order = order]
  BY DEF CorrectSkeleton
<1>2. NamesTell({scaleOp}) /\ NamesTell({rotateOp})
  BY UniqueOpNames
<1> HIDE DEF scaleOp, rotateOp, x
<1>3. StoredPrim(scaled)
  <2>1. StoredAttr(Attr("double3", <<<<x, x, x>>>>))
    BY StoredSimple
  <2> QED BY <1>2, <2>1, StoredSetAttr
<1> HIDE DEF scaled
<1>4. StoredPrim(turned)
  <2>1. StoredAttr(Attr("float", <<<<basis.angle>>>>))
    BY StoredSimple
  <2> QED BY <1>2, <1>3, <2>1, StoredSetAttr
<1> HIDE DEF turned, order
<1> DEFINE new == CorrectSkeleton(prim, scale, basis)
<1>5. DOMAIN new = DOMAIN turned /\ new.attrs = turned.attrs
  BY <1>1, <1>4 DEF StoredPrim
<1> HIDE DEF new
<1>6. StoredPrim(new)
  BY <1>4, <1>5, StoredOrder
<1> QED BY <1>6 DEF new

\* The other attributes may be transformed.
LEMMA StoredOther ==
  ASSUME NEW prim, StoredPrim(prim), NEW original, NEW collapsed, NEW singles, NEW scale, NEW basis
  PROVE  StoredPrim(OtherAttributes(prim, original, collapsed, singles, scale, basis))
<1> DEFINE new == OtherAttributes(prim, original, collapsed, singles, scale, basis)
           names == { n \in DOMAIN original.attrs : ~(collapsed /\ IsXformOp(n)) }
           Scales(n) == /\ scale # None
                        /\ n \notin Scaled(original) \cup Based(original) \cup Dense(original)
                        /\ n # <<"angularVelocity">>
                        /\ IsTranslate(n) \/ original.attrs[n].type \in ScaledTypes
           Bases(n) == /\ basis # None
                       /\ n \notin Based(original) \cup singles
                       /\ n # <<"centerOfInterest">>
                       /\ IsXformOp(n) \/ original.attrs[n].type \in BasedTypes
           Other(n, attr) == Transformed(n, attr, IF Scales(n) THEN scale ELSE None,
                                                  IF Bases(n) THEN basis ELSE None)
<1>1. /\ DOMAIN new = DOMAIN prim
      /\ new.attrs = [n \in DOMAIN prim.attrs |->
                        IF n \in names THEN Other(n, prim.attrs[n]) ELSE prim.attrs[n]]
  <2> HIDE DEF Scales, Bases
  <2> QED BY DEF OtherAttributes, StoredPrim, Scales, Bases
<1> HIDE DEF new, names, Scales, Bases
<1>2. ASSUME NEW n \in DOMAIN prim.attrs PROVE StoredAttr(new.attrs[n])
  <2>1. StoredAttr(prim.attrs[n])
    BY DEF StoredPrim
  <2>2. StoredAttr(Other(n, prim.attrs[n]))
    BY <2>1, StoredTransformed
  <2> HIDE DEF Other
  <2>3. new.attrs[n] = IF n \in names THEN Other(n, prim.attrs[n]) ELSE prim.attrs[n]
    BY <1>1
  <2> QED BY <2>1, <2>2, <2>3
<1>3. DOMAIN new.attrs = DOMAIN prim.attrs
  BY <1>1
<1>4. StoredPrim(new)
  BY <1>1, <1>2, <1>3, StoredReplaced
<1> QED BY <1>4 DEF new

\* All that together is what is done of a prim,
LEMMA StoredProcessed ==
  ASSUME NEW prim, StoredPrim(prim), NEW scale, NEW basis, NEW collapseXforms
  PROVE  StoredPrim(ProcessPrim(prim, scale, basis, collapseXforms))
<1> DEFINE turned == basis # None /\ prim.type \in Turned
           collapsed == basis # None /\ collapseXforms /\ IsXformable(prim) /\ Collapsible(prim)
           singles == IF basis = None \/ collapseXforms THEN {} ELSE Remapped(prim)
           schema == SchemaAttributes(prim, scale, basis)
           flipped == IF basis # None /\ HasFlippedLimits(prim) THEN FlipLimits(schema) ELSE schema
           single == IF singles = {} THEN flipped ELSE TurnSingleAxes(flipped, basis)
           corrected == IF collapsed \/ (collapseXforms /\ turned)
                        THEN Collapse(single, prim, scale, basis, turned)
                        ELSE IF turned /\ prim.spec = "def"
                             THEN CorrectUpAxis(single,
                                                UniqueOp(prim, "rotateX", "upAxisCorrection"), basis)
                             ELSE single
<1>1. ProcessPrim(prim, scale, basis, collapseXforms)
        = OtherAttributes(corrected, prim, collapsed, singles, scale, basis)
  BY DEF ProcessPrim
<1>2. StoredPrim(schema)
  BY StoredSchema
<1> HIDE DEF schema, singles, turned, collapsed
<1>3. StoredPrim(flipped)
  BY <1>2, StoredFlipped
<1> HIDE DEF flipped
<1>4. StoredPrim(single)
  BY <1>3, StoredSingleAxes
<1> HIDE DEF single
<1>5. StoredPrim(corrected)
  <2>1. StoredPrim(Collapse(single, prim, scale, basis, turned))
    BY <1>4, StoredCollapsed
  <2>2. StoredPrim(CorrectUpAxis(single, UniqueOp(prim, "rotateX", "upAxisCorrection"), basis))
    BY <1>4, UniqueOpNames, StoredUpAxis
  <2> QED BY <1>4, <2>1, <2>2
<1> HIDE DEF corrected
<1> QED BY <1>1, <1>5, StoredOther

\* unless it is left out or the root of a skeleton,
LEMMA StoredTraversed ==
  ASSUME NEW s, Stored(s), NEW p \in DOMAIN s.prims, NEW scale, NEW basis, NEW collapseXforms,
         NEW ignoreKitCameras, NEW stopAtSkeletonRoot
  PROVE  StoredPrim(Traversed(s, p, scale, basis, collapseXforms, ignoreKitCameras, stopAtSkeletonRoot))
<1>1. StoredPrim(s.prims[p])
  BY DEF Stored
<1>2. StoredPrim(CorrectSkeleton(s.prims[p], scale, basis))
  BY <1>1, StoredSkeleton
<1>3. StoredPrim(ProcessPrim(s.prims[p], scale, basis, collapseXforms))
  BY <1>1, StoredProcessed
<1> QED BY <1>1, <1>2, <1>3 DEF Traversed

\* and of a stage.
LEMMA StoredEdited ==
  ASSUME Stored(stage), NEW metersPerUnit, NEW upAxis, NEW collapseXforms, NEW ignoreKitCameras,
         NEW stopAtSkeletonRoot,
         EditStageMetrics(metersPerUnit, upAxis, collapseXforms, ignoreKitCameras, stopAtSkeletonRoot)
  PROVE  Stored(stage')
<1> DEFINE next == stage'
           T(p, scale, basis) == Traversed(stage, p, scale, basis, collapseXforms,
                                           ignoreKitCameras, stopAtSkeletonRoot)
<1>1. PICK scale, basis :
        /\ DOMAIN next = {"metersPerUnit", "upAxis", "prims"}
        /\ \/ next.prims = stage.prims
           \/ next.prims = [p \in DOMAIN stage.prims |-> T(p, scale, basis)]
  BY DEF EditStageMetrics
<1>2. \A p \in DOMAIN stage.prims : StoredPrim(T(p, scale, basis))
  BY StoredTraversed
<1> HIDE DEF T, next
<1>3. Stored(next)
  BY <1>1, <1>2 DEF Stored
<1> QED BY <1>3 DEF next

\* A computed extent has the times of points.
LEMMA StoredExtent ==
  ASSUME NEW prim, StoredPrim(prim)
  PROVE  StoredPrim(WithExtent(prim))
<1> DEFINE times == ExtentTimes(prim)
           bounded == { t \in times : BoxAt(prim, t) # None }
           attr == ComputedExtent(prim)
<1>1. IsFiniteSet(times) /\ times \subseteq Int
  BY TimesFinite DEF ExtentTimes
<1>2. DOMAIN attr = {"type", "default", "samples"} /\ DOMAIN attr.samples = bounded
  BY DEF ComputedExtent
<1> HIDE DEF attr, times
<1>3. IsFiniteSet(bounded) /\ bounded \subseteq Int
  BY <1>1, FS_Subset
<1>4. StoredAttr(attr)
  BY <1>2, <1>3 DEF StoredAttr
<1>5. NamesTell({Extent})
  BY DEF NamesTell, Extent
<1>6. StoredPrim(SetAttr(prim, Extent, attr))
  BY <1>4, <1>5, StoredSetAttr
<1> QED BY <1>6 DEF WithExtent, attr

\* So extents may be computed, of whatever prims,
LEMMA StoredExtents ==
  ASSUME NEW s, Stored(s), NEW prims, DOMAIN prims = DOMAIN s.prims,
         \A p \in DOMAIN prims : StoredPrim(prims[p]), NEW P, NEW next,
         next = [s EXCEPT !.prims = WithExtents(prims, P)]
  PROVE  Stored(next)
<1>1. /\ DOMAIN next = DOMAIN s
      /\ next.prims = [p \in DOMAIN prims |-> IF p \in P THEN WithExtent(prims[p]) ELSE prims[p]]
  BY DEF WithExtents, Stored
<1>2. \A p \in DOMAIN prims : StoredPrim(WithExtent(prims[p]))
  BY StoredExtent
<1>3. DOMAIN next.prims = DOMAIN s.prims /\ \A p \in DOMAIN s.prims : StoredPrim(next.prims[p])
  BY <1>1, <1>2
<1> QED BY <1>1, <1>3 DEF Stored

\* as ComputeExtents does.
LEMMA StoredComputed ==
  ASSUME Stored(stage), ComputeExtents
  PROVE  Stored(stage')
BY StoredExtents DEF ComputeExtents, Stored

\* A default may be written,
LEMMA StoredWritten ==
  ASSUME NEW prim, StoredPrim(prim), NEW kind, NEW suffix, NEW row
  PROVE  StoredPrim(Written(prim, XformOp(kind, suffix), row))
<1> DEFINE name == XformOp(kind, suffix)
           attr == IF Has(prim, name) THEN [prim.attrs[name] EXCEPT !.default = <<row>>]
                   ELSE Attr("double3", <<row>>)
<1>1. NamesTell({name})
  BY XformOpNames
<1>2. Written(prim, name, row) = SetAttr(prim, name, attr)
  BY DEF Written
<1> HIDE DEF name
<1>3. StoredAttr(attr)
  <2>1. CASE Has(prim, name)
    <3>1. StoredAttr(prim.attrs[name])
      BY <2>1 DEF Has, StoredPrim
    <3>2. DOMAIN attr = DOMAIN prim.attrs[name] /\ attr.samples = prim.attrs[name].samples
      BY <2>1, <3>1 DEF StoredAttr
    <3> QED BY <3>1, <3>2 DEF StoredAttr
  <2>2. CASE ~Has(prim, name)
    BY <2>2, StoredSimple
  <2> QED BY <2>1, <2>2
<1> HIDE DEF attr
<1>4. StoredPrim(SetAttr(prim, name, attr))
  BY <1>1, <1>3, StoredSetAttr
<1> QED BY <1>2, <1>4 DEF name

\* and so a pivot,
LEMMA StoredPivot ==
  ASSUME NEW prim, StoredPrim(prim), NEW kind, NEW m, NEW pivot, NEW centre
  PROVE  StoredPrim(WithPivot(prim, kind, m, pivot, centre))
<1> DEFINE vectors == XformVectors(kind, m, pivot)
           translation == CorrectedTranslation(prim, vectors.translation, m, pivot, centre)
           placed == Written(prim, Translate, translation)
           moved == Written(placed, TranslatePivot, centre)
           turned == Written(moved, XformOp(kind, ""), vectors.rotation)
           scaled == Written(turned, XformOp("scale", ""), vectors.scale)
           new == WithPivot(prim, kind, m, pivot, centre)
<1>1. \E order : new = [scaled EXCEPT !.order = order]
  BY DEF WithPivot
<1> HIDE DEF new, vectors, translation
<1>2. StoredPrim(placed)
  BY StoredWritten DEF Translate
<1> HIDE DEF placed
<1>3. StoredPrim(moved)
  BY <1>2, StoredWritten DEF TranslatePivot
<1> HIDE DEF moved
<1>4. StoredPrim(turned)
  BY <1>3, StoredWritten
<1> HIDE DEF turned
<1>5. StoredPrim(scaled)
  BY <1>4, StoredWritten
<1> HIDE DEF scaled
<1>6. DOMAIN new = DOMAIN scaled /\ new.attrs = scaled.attrs
  BY <1>1, <1>5 DEF StoredPrim
<1>7. StoredPrim(new)
  BY <1>5, <1>6, StoredOrder
<1> QED BY <1>7 DEF new

\* of whatever prims.
LEMMA StoredPivoted ==
  ASSUME Stored(stage), NEW overwrite, NEW applyTo, NEW method, PivotPrims(overwrite, applyTo, method)
  PROVE  Stored(stage')
<1> DEFINE pivoted == [p \in DOMAIN stage.prims |->
                         IF p \in Resolved(stage) THEN PivotedPrim(stage, p, overwrite, applyTo, method)
                         ELSE stage.prims[p]]
<1>1. \A p \in DOMAIN stage.prims : StoredPrim(PivotedPrim(stage, p, overwrite, applyTo, method))
  <2> SUFFICES ASSUME NEW p \in DOMAIN stage.prims
               PROVE  StoredPrim(PivotedPrim(stage, p, overwrite, applyTo, method))
    OBVIOUS
  <2>1. StoredPrim(stage.prims[p])
    BY DEF Stored
  <2>2. \A kind, m, pivot, centre : StoredPrim(WithPivot(stage.prims[p], kind, m, pivot, centre))
    BY <2>1, StoredPivot
  <2> QED BY <2>1, <2>2 DEF PivotedPrim
<1>2. DOMAIN pivoted = DOMAIN stage.prims /\ \A p \in DOMAIN pivoted : StoredPrim(pivoted[p])
  BY <1>1 DEF Stored
<1>3. \E P : stage' = [stage EXCEPT !.prims = WithExtents(pivoted, P)]
  BY DEF PivotPrims
<1> HIDE DEF pivoted
<1> QED BY <1>2, <1>3, StoredExtents

\* Whatever operations run, a stage stays one that a layer stores: finitely many prims,
\* attributes and samples, and limits by the names of their axes (OptimizeTimeSamples,
\* EditStageMetrics, Pivot and ComputeExtents, all of what they write).
THEOREM StageStored == Spec => []Stored(stage)
<1>1. Init => Stored(stage)
  BY InitialStagesAssumption DEF Init
<1>2. Stored(stage) /\ [Next]_vars => Stored(stage)'
  <2> SUFFICES ASSUME Stored(stage), [Next]_vars PROVE Stored(stage')
    OBVIOUS
  <2>1. CASE ChangeUnits
    BY <2>1, StoredEdited DEF ChangeUnits
  <2>2. CASE RemoveDuplicates
    BY <2>2, StageCounted DEF RemoveDuplicates
  <2>3. CASE RemoveInterpolated
    BY <2>3, StageCounted DEF RemoveInterpolated
  <2>4. CASE CentrePivots
    BY <2>4, StoredPivoted DEF CentrePivots
  <2>5. CASE BoundMeshes
    BY <2>5, StoredComputed DEF BoundMeshes
  <2>6. CASE UNCHANGED vars
    BY <2>6 DEF vars
  <2> QED BY <2>1, <2>2, <2>3, <2>4, <2>5, <2>6 DEF Next
<1> QED BY <1>1, <1>2, PTL DEF Spec

\* As many samples go as an analysis of the stage tells: AnalyzedAttribute, which counts,
\* and processAttribute, which removes, agree on every attribute, also where one sample
\* would be left alone.
THEOREM AnalysisIsExact == Spec => AnalysisTells
<1>1. Stored(stage) /\ [Next]_vars
        => [/\ last' = "duplicates" => Samples(stage) - Samples(stage') = Analysis(stage, FALSE)
            /\ last' = "interpolated" => Samples(stage) - Samples(stage') = Analysis(stage, TRUE)]_vars
  <2> SUFFICES ASSUME Stored(stage), Next
      PROVE /\ last' = "duplicates" => Samples(stage) - Samples(stage') = Analysis(stage, FALSE)
            /\ last' = "interpolated" => Samples(stage) - Samples(stage') = Analysis(stage, TRUE)
    OBVIOUS
  <2>1. CASE ChangeUnits
    BY <2>1 DEF ChangeUnits, Step
  <2>2. CASE RemoveDuplicates
    BY <2>2, StageCounted DEF RemoveDuplicates, Step
  <2>3. CASE RemoveInterpolated
    BY <2>3, StageCounted DEF RemoveInterpolated, Step
  <2>4. CASE CentrePivots
    BY <2>4 DEF CentrePivots, Step
  <2>5. CASE BoundMeshes
    BY <2>5 DEF BoundMeshes, Step
  <2> QED BY <2>1, <2>2, <2>3, <2>4, <2>5 DEF Next
<1> QED BY <1>1, StageStored, PTL DEF Spec, AnalysisTells

-----------------------------------------------------------------------------
(* Duplicates tell nothing *)

\* Finitely many times have a first one.
LEMMA Earliest ==
  ASSUME NEW T, IsFiniteSet(T), T \subseteq Int, T # {}
  PROVE  \E t \in T : \A u \in T : t <= u
<1>1. Cardinality(T) \in Nat /\ Cardinality(T) # 0
  BY FS_CardinalityType, FS_EmptySet
<1>2. /\ Ordered(T) \in [1..Cardinality(T) -> T]
      /\ \A i, j \in 1..Cardinality(T) : i < j => Ordered(T)[i] < Ordered(T)[j]
      /\ \A t \in T : \E i \in 1..Cardinality(T) : Ordered(T)[i] = t
  BY OrderedTimes DEF InOrderOf
<1> DEFINE n == Cardinality(T)  times == Ordered(T)
<1> HIDE DEF n, times
<1>3. 1 \in 1..n /\ times[1] \in T
  BY <1>1, <1>2 DEF n, times
<1>4. ASSUME NEW u \in T PROVE times[1] <= u
  <2>1. PICK i \in 1..n : times[i] = u
    BY <1>2 DEF n, times
  <2>2. i = 1 \/ 1 < i
    BY <1>1 DEF n
  <2>3. times[1] \in Int /\ u \in Int
    BY <1>3
  <2>4. 1 < i => times[1] < times[i]
    BY <1>2, <1>3 DEF n, times
  <2> QED BY <2>1, <2>2, <2>3, <2>4
<1> QED BY <1>3, <1>4

\* The samples that tell the value at a time.
LowTime(T, t) == LET before == { u \in T : u <= t }
                     after == { u \in T : u >= t }
                 IN  IF before = {} THEN Min(after) ELSE Max(before)
HighTime(T, t) == LET after == { u \in T : u >= t } IN IF after = {} THEN LowTime(T, t)
                                                       ELSE Min(after)

\* They are next to it on either side, or both the one that is nearest.
LEMMA LowAndHigh ==
  ASSUME NEW T, IsFiniteSet(T), T \subseteq Int, T # {}, NEW t \in Int
  PROVE  LET lo == LowTime(T, t)
             hi == HighTime(T, t)
         IN  /\ lo \in T /\ hi \in T
             /\ \/ lo = hi /\ t < lo /\ \A u \in T : lo <= u
                \/ lo = hi /\ lo < t /\ \A u \in T : u <= lo
                \/ lo = hi /\ lo = t
                \/ lo < t /\ t < hi /\ \A u \in T : u <= lo \/ hi <= u
<1> DEFINE before == { u \in T : u <= t }
           after == { u \in T : u >= t }
           lo == LowTime(T, t)
           hi == HighTime(T, t)
<1>1. IsFiniteSet(before) /\ IsFiniteSet(after) /\ before \subseteq Int /\ after \subseteq Int
  BY FS_Subset
<1>2. before # {} => Max(before) \in before /\ \A u \in before : u <= Max(before)
  <2> HIDE DEF before
  <2> SUFFICES ASSUME before # {} PROVE Max(before) \in before /\ \A u \in before : u <= Max(before)
    OBVIOUS
  <2>1. \E x \in before : \A y \in before : x >= y
    BY <1>1, Latest
  <2>2. Max(before) \in before /\ \A y \in before : Max(before) >= y
    BY <2>1 DEF Max
  <2> QED BY <1>1, <2>2
<1>3. after # {} => Min(after) \in after /\ \A u \in after : Min(after) <= u
  <2> HIDE DEF after
  <2> SUFFICES ASSUME after # {} PROVE Min(after) \in after /\ \A u \in after : Min(after) <= u
    OBVIOUS
  <2>1. \E x \in after : \A y \in after : x <= y
    BY <1>1, Earliest
  <2> QED BY <2>1 DEF Min
<1>4. lo = IF before = {} THEN Min(after) ELSE Max(before)
  BY DEF LowTime
<1>5. hi = IF after = {} THEN lo ELSE Min(after)
  BY DEF HighTime
<1>6. \A u \in T : u \in Int /\ (u \in before <=> u <= t) /\ (u \in after <=> u >= t)
  OBVIOUS
<1>7. before \subseteq T /\ after \subseteq T
  OBVIOUS
<1> HIDE DEF lo, hi, before, after
<1>8. CASE before = {}
  <2>1. after # {}
    <3>1. PICK u \in T : TRUE
      OBVIOUS
    <3>2. u \in Int /\ ~(u <= t)
      BY <1>6, <1>8
    <3>3. u >= t
      BY <3>2
    <3> QED BY <1>6, <3>3
  <2>2. lo = Min(after) /\ hi = lo /\ lo \in T
    BY <1>3, <1>4, <1>5, <1>7, <1>8, <2>1
  <2>3. \A u \in T : lo <= u
    BY <1>3, <1>6, <1>8, <2>1, <2>2
  <2>4. t < lo
    BY <1>6, <1>8, <2>2
  <2> QED BY <2>2, <2>3, <2>4 DEF lo, hi
<1>9. CASE before # {} /\ after = {}
  <2>1. lo = Max(before) /\ hi = lo /\ lo \in T /\ lo \in before
    BY <1>2, <1>4, <1>5, <1>7, <1>9
  <2>2. \A u \in T : u <= lo
    BY <1>2, <1>6, <1>9, <2>1
  <2>3. lo < t
    BY <1>6, <1>9, <2>1
  <2> QED BY <2>1, <2>2, <2>3 DEF lo, hi
<1>10. CASE before # {} /\ after # {}
  <2>1. lo = Max(before) /\ hi = Min(after) /\ lo \in before /\ hi \in after /\ lo \in T /\ hi \in T
    BY <1>2, <1>3, <1>4, <1>5, <1>7, <1>10
  <2>2. \A u \in T : u <= lo \/ hi <= u
    BY <1>2, <1>3, <1>6, <1>10, <2>1
  <2>3. lo <= t /\ t <= hi /\ lo \in Int /\ hi \in Int
    BY <1>6, <2>1
  <2>4. CASE lo = t
    <3>1. lo \in after /\ hi <= lo
      BY <1>3, <1>6, <1>10, <2>1, <2>3, <2>4
    <3> QED BY <2>1, <2>3, <2>4, <3>1 DEF lo, hi
  <2>5. CASE hi = t
    <3>1. hi \in before /\ hi <= lo
      BY <1>2, <1>6, <1>10, <2>1, <2>3, <2>5
    <3> QED BY <2>1, <2>3, <2>5, <3>1 DEF lo, hi
  <2> QED BY <2>1, <2>2, <2>3, <2>4, <2>5 DEF lo, hi
<1> QED BY <1>8, <1>9, <1>10

\* The same of the places of the samples, of which some are left.
Bracket(times, S, t, lo, hi) ==
  \/ lo = hi /\ t < times[lo] /\ \A i \in S : lo <= i
  \/ lo = hi /\ times[lo] < t /\ \A i \in S : i <= lo
  \/ lo = hi /\ times[lo] = t
  \/ times[lo] < t /\ t < times[hi] /\ \A i \in S : i <= lo \/ hi <= i

\* The places of the samples that tell the value at a time.
LEMMA Bracketed ==
  ASSUME NEW n \in Nat, NEW times \in [1..n -> Int],
         \A i, j \in 1..n : i < j => times[i] < times[j],
         NEW S \in SUBSET (1..n), S # {}, NEW t \in Int, NEW T, T = { times[i] : i \in S }
  PROVE  \E a, b \in S : /\ times[a] = LowTime(T, t) /\ times[b] = HighTime(T, t)
                         /\ Bracket(times, S, t, a, b)
<1>1. IsFiniteSet(T)
  <2> DEFINE f == [i \in S |-> times[i]]
  <2>1. IsFiniteSet(S)
    <3>1. 1 \in Int /\ n \in Int
      OBVIOUS
    <3>2. IsFiniteSet(1..n)
      BY <3>1, FS_Interval
    <3> QED BY <3>2, FS_Subset
  <2>2. DOMAIN f = S
    OBVIOUS
  <2>3. T = { f[i] : i \in S }
    OBVIOUS
  <2> HIDE DEF f
  <2>4. IsFiniteSet({ f[i] : i \in S })
    BY <2>1, <2>2, ImageFinite
  <2> QED BY <2>3, <2>4
<1>2. T \subseteq Int /\ T # {}
  OBVIOUS
<1> DEFINE lo == LowTime(T, t)  hi == HighTime(T, t)
<1>3. /\ lo \in T /\ hi \in T
      /\ \/ lo = hi /\ t < lo /\ \A u \in T : lo <= u
         \/ lo = hi /\ lo < t /\ \A u \in T : u <= lo
         \/ lo = hi /\ lo = t
         \/ lo < t /\ t < hi /\ \A u \in T : u <= lo \/ hi <= u
  BY <1>1, <1>2, LowAndHigh
<1> HIDE DEF lo, hi
<1>4. PICK a \in S : times[a] = lo
  BY <1>3
<1>5. PICK b \in S : times[b] = hi
  BY <1>3
<1>6. ASSUME NEW i \in S, NEW j \in S
      PROVE  /\ times[i] \in Int /\ times[j] \in Int /\ i \in Int /\ j \in Int
             /\ times[i] <= times[j] => i <= j
             /\ times[i] = times[j] => i = j
             /\ times[i] \in T
  OBVIOUS
<1>7. lo = hi => a = b
  BY <1>4, <1>5, <1>6
<1>8. Bracket(times, S, t, a, b)
  <2>1. CASE lo = hi /\ t < lo /\ \A u \in T : lo <= u
    BY <1>4, <1>6, <1>7, <2>1 DEF Bracket
  <2>2. CASE lo = hi /\ lo < t /\ \A u \in T : u <= lo
    BY <1>4, <1>6, <1>7, <2>2 DEF Bracket
  <2>3. CASE lo = hi /\ lo = t
    BY <1>4, <1>7, <2>3 DEF Bracket
  <2>4. CASE lo < t /\ t < hi /\ \A u \in T : u <= lo \/ hi <= u
    <3>1. ASSUME NEW i \in S PROVE i <= a \/ b <= i
      <4>1. times[i] <= lo \/ hi <= times[i]
        BY <1>6, <2>4
      <4> QED BY <1>4, <1>5, <1>6, <4>1
    <3> QED BY <1>4, <1>5, <2>4, <3>1 DEF Bracket
  <2> QED BY <1>3, <2>1, <2>2, <2>3, <2>4
<1> QED BY <1>4, <1>5, <1>8 DEF lo, hi

\* Values that are each equal to the one before are all equal.
LEMMA AllEqual ==
  ASSUME NEW i \in Int, NEW j \in Int, NEW vs, \A k \in i+1..j : vs[k] = vs[k - 1]
  PROVE  \A k \in i..j : vs[k] = vs[i]
<1> DEFINE T == { m \in Nat : i + m <= j => vs[i + m] = vs[i] }
<1>1. 0 \in T
  <2>1. i + 0 = i
    OBVIOUS
  <2> QED BY <2>1
<1>2. ASSUME NEW m \in Nat, m \in T PROVE m + 1 \in T
  <2> SUFFICES ASSUME i + (m + 1) <= j PROVE vs[i + (m + 1)] = vs[i]
    OBVIOUS
  <2>1. i + (m + 1) \in i+1..j /\ (i + (m + 1)) - 1 = i + m /\ i + m <= j
    OBVIOUS
  <2>2. vs[i + m] = vs[i]
    BY <1>2, <2>1
  <2> QED BY <2>1, <2>2
<1>3. Nat \subseteq T
  <2> HIDE DEF T
  <2> QED BY <1>1, <1>2, Induct
<1>4. ASSUME NEW k \in i..j PROVE vs[k] = vs[i]
  <2>1. k - i \in Nat /\ i + (k - i) = k /\ k <= j
    OBVIOUS
  <2>2. k - i \in T
    BY <1>3, <2>1
  <2> QED BY <2>1, <2>2
<1> QED BY <1>4

\* n times in order; places R of values that are each equal to the one before, and to
\* the one after if there is one.
Increasing(n, times) ==
  n \in Nat /\ times \in [1..n -> Int] /\ \A i, j \in 1..n : i < j => times[i] < times[j]
Repeated(n, vs, R) == R \in SUBSET (2..n) /\ \A k \in R : vs[k] = vs[k - 1]
Lasting(n, vs, R) == \A k \in R : k < n => vs[k + 1] = vs[k]

\* Such a value tells nothing: the same values are found without it.
LEMMA SameBracket ==
  ASSUME NEW n, NEW times, Increasing(n, times), NEW vs, NEW R, Repeated(n, vs, R), NEW t \in Int,
         NEW a \in 1..n, NEW b \in 1..n, Bracket(times, 1..n, t, a, b),
         NEW c \in (1..n) \ R, NEW d \in (1..n) \ R, Bracket(times, (1..n) \ R, t, c, d)
  PROVE  /\ vs[c] = vs[a]
         /\ Lasting(n, vs, R) => (a = c /\ b = d) \/ (vs[b] = vs[a] /\ vs[d] = vs[c])
<1>0. /\ n \in Nat /\ times \in [1..n -> Int] /\ \A i, j \in 1..n : i < j => times[i] < times[j]
      /\ R \subseteq 2..n /\ \A k \in R : vs[k] = vs[k - 1]
  BY DEF Increasing, Repeated
<1>1. ASSUME NEW i \in 1..n, NEW j \in 1..n
      PROVE  /\ i \in Int /\ j \in Int /\ times[i] \in Int /\ times[j] \in Int
             /\ times[i] <= times[j] <=> i <= j
  BY <1>0
<1>2. 1 \in 1..n /\ 1 \in (1..n) \ R
  BY <1>0
<1>3. CASE t < times[a]
  <2>1. a = b /\ \A i \in 1..n : a <= i
    BY <1>1, <1>3 DEF Bracket
  <2>2. a = 1 /\ b = 1
    BY <1>2, <2>1
  <2>3. times[1] <= times[c] /\ times[c] \in Int /\ times[1] \in Int
    BY <1>1, <1>2
  <2>4. t < times[c]
    BY <1>3, <2>2, <2>3
  <2>5. c = d /\ \A i \in (1..n) \ R : c <= i
    BY <2>3, <2>4 DEF Bracket
  <2>6. c = 1 /\ d = 1
    BY <1>2, <2>5
  <2> QED BY <2>2, <2>6
<1>4. CASE times[a] <= t
  <2>1. times[1] <= t
    BY <1>1, <1>2, <1>4
  <2>2. times[c] <= t
    <3> SUFFICES ASSUME t < times[c] PROVE FALSE
      BY <1>1
    <3>1. \A i \in (1..n) \ R : c <= i
      BY <1>1 DEF Bracket
    <3>2. c = 1
      BY <1>2, <3>1
    <3> QED BY <1>1, <1>2, <2>1, <3>2
  <2>3. c <= a
    <3> SUFFICES ASSUME a < c PROVE FALSE
      BY <1>1
    <3>1. times[a] < times[c]
      BY <1>1
    <3>2. times[a] < t /\ t < times[b] /\ (c <= a \/ b <= c)
      <4>1. ~(t < times[a]) /\ times[a] # t /\ ~(c <= a) /\ c \in 1..n
        BY <1>1, <1>4, <2>2, <3>1
      <4> QED BY <4>1 DEF Bracket
    <3>3. times[b] <= times[c]
      BY <1>1, <3>2
    <3> QED BY <1>1, <2>2, <3>2, <3>3
  <2>4. a <= b
    BY <1>1 DEF Bracket
  <2>5. ASSUME NEW k \in 1..n, c < k, times[k] <= t PROVE k \in R
    <3> SUFFICES ASSUME k \in (1..n) \ R PROVE FALSE
      OBVIOUS
    <3>1. times[c] < times[k]
      BY <1>1, <2>5
    <3>2. times[c] < t
      BY <1>1, <2>5, <3>1
    <3>3. t < times[d] /\ (k <= c \/ d <= k)
      BY <1>1, <2>5, <3>2 DEF Bracket
    <3>4. times[d] <= times[k]
      BY <1>1, <2>5, <3>3
    <3> QED BY <1>1, <2>5, <3>3, <3>4
  <2>6. ASSUME NEW k \in c+1..a PROVE k \in R
    <3>1. k \in 1..n /\ c < k /\ times[k] <= times[a]
      <4>1. k \in 1..n /\ c < k /\ k <= a
        BY <1>0
      <4> QED BY <1>1, <4>1
    <3> QED BY <1>1, <1>4, <2>5, <3>1
  <2>7. vs[a] = vs[c]
    <3>1. \A k \in c..a : vs[k] = vs[c]
      <4>1. \A k \in c+1..a : vs[k] = vs[k - 1]
        BY <1>0, <2>6
      <4>2. c \in Int /\ a \in Int
        OBVIOUS
      <4> QED BY <4>1, <4>2, AllEqual
    <3> QED BY <2>3, <3>1
  <2>8. ASSUME Lasting(n, vs, R)
        PROVE  (a = c /\ b = d) \/ (vs[b] = vs[a] /\ vs[d] = vs[c])
    <3>1. CASE c = d /\ times[c] < t /\ \A i \in (1..n) \ R : i <= c
      <4>1. \A k \in c+1..n : vs[k] = vs[k - 1]
        BY <1>0, <3>1
      <4>2. c \in Int /\ n \in Int
        BY <1>0
      <4>3. \A k \in c..n : vs[k] = vs[c]
        BY <4>1, <4>2, AllEqual
      <4> QED BY <2>3, <2>4, <3>1, <4>3
    <3>2. CASE c = d /\ times[c] = t
      <4>1. a = c
        BY <1>1, <1>4, <2>3, <3>2
      <4>2. b = a
        BY <1>1, <3>2, <4>1 DEF Bracket
      <4> QED BY <3>2, <4>1, <4>2
    <3>3. CASE times[c] < t /\ t < times[d] /\ \A i \in (1..n) \ R : i <= c \/ d <= i
      <4>1. c < d /\ a < d
        BY <1>1, <1>4, <3>3
      <4>2. ASSUME NEW k \in c+1..d-1 PROVE k \in R
        <5>1. k \in 1..n /\ ~(k <= c) /\ ~(d <= k)
          BY <1>0
        <5> QED BY <3>3, <5>1
      <4>3. b <= d
        <5>1. a = b \/ (\A i \in 1..n : i <= a \/ b <= i)
          BY DEF Bracket
        <5> QED BY <4>1, <5>1
      <4>4. CASE d = c + 1
        <5>1. a = c
          BY <2>3, <4>1, <4>4
        <5>2. a # b
          <6> SUFFICES ASSUME a = b PROVE FALSE
            OBVIOUS
          <6>1. \A i \in 1..n : i <= a
            BY <1>1, <3>3, <5>1 DEF Bracket
          <6> QED BY <4>1, <6>1
        <5> QED BY <2>4, <4>3, <4>4, <5>1, <5>2
      <4>5. CASE d # c + 1
        <5>1. d - 1 \in R /\ d - 1 < n /\ (d - 1) + 1 = d
          <6>1. d - 1 \in c+1..d-1
            BY <4>1, <4>5
          <6> QED BY <1>0, <4>2, <6>1
        <5>2. vs[d] = vs[d - 1]
          BY <2>8, <5>1 DEF Lasting
        <5>3. \A k \in c+1..d : vs[k] = vs[k - 1]
          <6> SUFFICES ASSUME NEW k \in c+1..d PROVE vs[k] = vs[k - 1]
            OBVIOUS
          <6>1. CASE k = d
            BY <5>2, <6>1
          <6>2. CASE k # d
            <7>1. k \in c+1..d-1
              BY <6>2
            <7> QED BY <1>0, <4>2, <7>1
          <6> QED BY <6>1, <6>2
        <5>4. c \in Int /\ d \in Int
          OBVIOUS
        <5>5. \A k \in c..d : vs[k] = vs[c]
          BY <5>3, <5>4, AllEqual
        <5>6. b \in c..d /\ a \in c..d /\ d \in c..d
          BY <2>3, <2>4, <4>1, <4>3
        <5> QED BY <5>5, <5>6
      <4> QED BY <4>4, <4>5
    <3>4. CASE c = d /\ t < times[c]
      BY <1>1, <2>2, <3>4
    <3> QED BY <3>1, <3>2, <3>3, <3>4 DEF Bracket
  <2> QED BY <2>7, <2>8
<1> QED BY <1>1, <1>3, <1>4

\* Samples are blocks or sequences of rows of numbers.
Numbers(attr) ==
  attr.samples \in [DOMAIN attr.samples -> {Block} \cup Seq(Seq(Int))]

\* Between equal values there is no other.
LEMMA BetweenEqual ==
  ASSUME NEW v \in Seq(Seq(Int)), NEW num \in Int, NEW den \in Int, den > 0
  PROVE  Between(v, v, num, den) = v
<1>1. ASSUME NEW row \in Seq(Int) PROVE Plus(row, Over(Minus(row, row), num, den)) = row
  <2>1. ASSUME NEW j \in DOMAIN row PROVE row[j] + ((row[j] - row[j]) * num) \div den = row[j]
    <3>1. row[j] \in Int
      BY ElementOfSeq
    <3> DEFINE x == row[j]
    <3> HIDE DEF x
    <3>2. x - x = 0 /\ 0 * num = 0 /\ 0 \div den = 0 /\ x + 0 = x
      BY <3>1 DEF x
    <3> QED BY <3>2 DEF x
  <2>2. DOMAIN Minus(row, row) = DOMAIN row /\ \A j \in DOMAIN row : Minus(row, row)[j] = row[j] - row[j]
    BY DEF Minus
  <2>3. /\ DOMAIN Over(Minus(row, row), num, den) = DOMAIN row
        /\ \A j \in DOMAIN row : Over(Minus(row, row), num, den)[j] = ((row[j] - row[j]) * num) \div den
    BY <2>2 DEF Over
  <2>4. Plus(row, Over(Minus(row, row), num, den)) = [j \in DOMAIN row |-> row[j]]
    BY <2>1, <2>3 DEF Plus
  <2> QED BY <2>4
<1>2. ASSUME NEW i \in DOMAIN v PROVE v[i] \in Seq(Int)
  BY ElementOfSeq
<1>3. Between(v, v, num, den) = [i \in DOMAIN v |-> v[i]]
  BY <1>1, <1>2 DEF Between
<1> QED BY <1>3

\* What the samples at two times tell of the value, when they are the same.
LEMMA WithinEqual ==
  ASSUME NEW samples, NEW type, NEW lo \in Int, NEW hi \in Int, NEW t \in Int,
         samples[lo] \in {Block} \cup Seq(Seq(Int)), samples[hi] = samples[lo], lo = hi \/ lo < hi
  PROVE  Within(samples, type, lo, hi, t) = IF samples[lo] = Block THEN None ELSE samples[lo]
<1>1. CASE lo = hi
  BY <1>1 DEF Within
<1>2. CASE samples[lo] = Block
  BY <1>2 DEF Within
<1>3. CASE lo < hi /\ samples[lo] # Block
  <2>1. hi - lo > 0 /\ hi - lo \in Int /\ t - lo \in Int
    BY <1>3
  <2>2. Between(samples[lo], samples[lo], t - lo, hi - lo) = samples[lo]
    <3> DEFINE num == t - lo  den == hi - lo  v == samples[lo]
    <3>1. v \in Seq(Seq(Int)) /\ num \in Int /\ den \in Int /\ den > 0
      BY <1>3, <2>1
    <3> HIDE DEF num, den, v
    <3>2. Between(v, v, num, den) = v
      BY <3>1, BetweenEqual
    <3> QED BY <3>2 DEF num, den, v
  <2> QED BY <1>3, <2>2 DEF Within
<1> QED BY <1>1, <1>2, <1>3

\* They are in order.
LEMMA HighAfterLow ==
  ASSUME NEW n \in Nat, NEW times \in [1..n -> Int], NEW S \in SUBSET (1..n),
         NEW t \in Int, NEW a \in S, NEW b \in S, Bracket(times, S, t, a, b)
  PROVE  /\ times[a] \in Int /\ times[b] \in Int
         /\ times[a] = times[b] \/ times[a] < times[b]
<1>1. times[a] \in Int /\ times[b] \in Int
  OBVIOUS
<1>2. a = b \/ (times[a] < t /\ t < times[b])
  BY DEF Bracket
<1> QED BY <1>1, <1>2

\* What ValueAt resolves to with samples.
LEMMA ValueOfSamples ==
  ASSUME NEW attr, attr.samples # << >>, NEW t, t # None
  PROVE  ValueAt(attr, t) = Within(attr.samples, attr.type, LowTime(DOMAIN attr.samples, t),
                                   HighTime(DOMAIN attr.samples, t), t)
BY DEF ValueAt, LowTime, HighTime

\* The values vs of the samples of an attribute, at n times in order.
Placed(attr, n, times, vs) ==
  /\ n = Cardinality(DOMAIN attr.samples)
  /\ times = Ordered(DOMAIN attr.samples)
  /\ vs = [i \in DOMAIN times |-> attr.samples[times[i]]]

\* They are indeed n values, at all times of samples, in order.
LEMMA PlacedValues ==
  ASSUME NEW attr, StoredAttr(attr), NEW n, NEW times, NEW vs, Placed(attr, n, times, vs)
  PROVE  /\ n \in Nat
         /\ times \in [1..n -> DOMAIN attr.samples] /\ times \in [1..n -> Int]
         /\ \A i, j \in 1..n : i < j => times[i] < times[j]
         /\ Increasing(n, times)
         /\ \A u \in DOMAIN attr.samples : \E i \in 1..n : times[i] = u
         /\ DOMAIN vs = 1..n /\ Len(vs) = n /\ \A i \in 1..n : vs[i] = attr.samples[times[i]]
<1> DEFINE T == DOMAIN attr.samples  m == Cardinality(T)  order == Ordered(T)
           values == [i \in DOMAIN order |-> attr.samples[order[i]]]
<1>1. /\ m \in Nat /\ order \in [1..m -> T] /\ \A i, j \in 1..m : i < j => order[i] < order[j]
      /\ \A u \in T : \E i \in 1..m : order[i] = u
      /\ T \subseteq Int
  BY OrderedTimes DEF StoredAttr, InOrderOf
<1> HIDE DEF T, m, order
<1>2. DOMAIN values = 1..m /\ \A i \in 1..m : values[i] = attr.samples[order[i]]
  BY <1>1
<1>3. order \in [1..m -> Int]
  BY <1>1
<1> HIDE DEF values
<1>4. Len(values) = m
  BY <1>1, <1>2, LenProperties
<1>5. n = m /\ times = order /\ vs = values
  BY DEF Placed, m, order, values, T
<1>6. T = DOMAIN attr.samples
  BY DEF T
<1>7. Increasing(m, order)
  BY <1>1, <1>3 DEF Increasing
<1> QED BY <1>1, <1>2, <1>3, <1>4, <1>5, <1>6, <1>7

\* The times at places R.
TimesAt(times, R) == { times[i] : i \in R }

\* What removing duplicates asks of a sample before it goes.
LEMMA RedundantSame ==
  ASSUME NEW attr, StoredAttr(attr), HoldsStay(attr), NEW n, n \notin {0, 1}, NEW times, NEW vs,
         Placed(attr, n, times, vs)
  PROVE  LET R == Redundant(attr.type, times, vs, FALSE)
         IN  /\ filterTimeSamples(attr, FALSE) = TimesAt(times, R)
             /\ Repeated(n, vs, R)
             /\ Interpolated(attr.type) => Lasting(n, vs, R)
<1> DEFINE R == Redundant(attr.type, times, vs, FALSE)
           T == DOMAIN attr.samples
<1>1. /\ n \in Nat /\ n > 1 /\ times \in [1..n -> T] /\ times \in [1..n -> Int]
      /\ \A i, j \in 1..n : i < j => times[i] < times[j]
      /\ DOMAIN vs = 1..n /\ Len(vs) = n /\ \A i \in 1..n : vs[i] = attr.samples[times[i]]
  BY PlacedValues
<1>3. R \subseteq 2..n
  BY <1>1, RedundantPlaces
<1>4. filterTimeSamples(attr, FALSE) = { times[i] : i \in R }
  BY DEF filterTimeSamples, Placed
<1>5. /\ R = filterHeld(vs) \/ R = filterFloatingPoint(vs)
      /\ ~isHeldType(attr.type) => R = filterFloatingPoint(vs)
  BY DEF Redundant
<1> HIDE DEF R
<1>6. \A k \in R : vs[k] = vs[k - 1]
  BY <1>5 DEF filterHeld, filterFloatingPoint, LastRedundant
<1>7. ASSUME R = filterFloatingPoint(vs), NEW k \in R, k < n PROVE vs[k + 1] = vs[k]
  <2>1. k # Len(vs)
    BY <1>1, <1>7
  <2>2. k \in { i \in 2..(Len(vs) - 1) : vs[i] = vs[i - 1] /\ vs[i + 1] = vs[i] }
    BY <1>7, <2>1 DEF filterFloatingPoint, LastRedundant
  <2> QED BY <2>2
<1>8. ASSUME isHeldType(attr.type), Interpolated(attr.type), NEW k \in R, k < n
      PROVE  vs[k + 1] = vs[k]
  <2>1. k \in 1..n /\ k + 1 \in 1..n
    BY <1>1, <1>3, <1>8
  <2>2. times[k] \in T /\ times[k + 1] \in T /\ times[k] < times[k + 1]
    BY <1>1, <2>1
  <2>3. times[k] \in filterTimeSamples(attr, FALSE)
    BY <1>4
  <2>4. times[k + 1] > times[k]
    BY <1>1, <2>2
  <2>5. attr.samples[times[k + 1]] = attr.samples[times[k]]
    BY <1>8, <2>2, <2>3, <2>4 DEF HoldsStay
  <2> QED BY <1>1, <2>1, <2>5
<1> QED BY <1>3, <1>4, <1>5, <1>6, <1>7, <1>8 DEF R, Repeated, Lasting, TimesAt

\* The places a and b that tell the value of an attribute at a time, and c and d that do so when
\* the samples at the places R are removed.
TellAt(attr, n, times, R, t, a, b, c, d) ==
  /\ a \in 1..n /\ b \in 1..n /\ c \in (1..n) \ R /\ d \in (1..n) \ R
  /\ Bracket(times, 1..n, t, a, b) /\ Bracket(times, (1..n) \ R, t, c, d)
  /\ ValueAt(attr, t) = Within(attr.samples, attr.type, times[a], times[b], t)
  /\ ValueAt(Optimized(attr, TimesAt(times, R)), t)
       = Within(attr.samples, attr.type, times[c], times[d], t)

\* There are such places.
LEMMA OptimizedTells ==
  ASSUME NEW attr, StoredAttr(attr), attr.samples # << >>, NEW n, n # 0,
         NEW times, NEW vs, Placed(attr, n, times, vs), NEW R \in SUBSET (2..n), NEW t \in Int, t # None
  PROVE  \E a, b, c, d : TellAt(attr, n, times, R, t, a, b, c, d)
<1> DEFINE T == DOMAIN attr.samples
           S == (1..n) \ R
           removed == TimesAt(times, R)
           K == T \ removed
           new == Optimized(attr, removed)
<1>1. /\ n \in Nat /\ times \in [1..n -> T] /\ \A i, j \in 1..n : i < j => times[i] < times[j]
      /\ \A u \in T : \E i \in 1..n : times[i] = u
      /\ R \subseteq 2..n
  BY PlacedValues
<1>2. times \in [1..n -> Int] /\ Increasing(n, times)
  BY PlacedValues
<1>3. \A i \in 1..n : vs[i] = attr.samples[times[i]]
  BY PlacedValues
<1>4. T = { times[i] : i \in 1..n } /\ K = { times[i] : i \in S }
  <2>1. T = { times[i] : i \in 1..n }
    BY <1>1
  <2>2. ASSUME NEW i \in S PROVE times[i] \in K
    <3> SUFFICES ASSUME times[i] \in removed PROVE FALSE
      BY <1>1
    <3>1. PICK j \in R : times[i] = times[j]
      BY DEF TimesAt
    <3>2. i \in 1..n /\ j \in 1..n /\ i # j
      BY <1>1
    <3>3. i < j \/ j < i
      BY <3>2
    <3>4. times[i] \in Int /\ times[j] \in Int
      BY <1>2, <3>2
    <3> QED BY <1>1, <3>1, <3>2, <3>3, <3>4
  <2>3. ASSUME NEW u \in K PROVE \E i \in S : u = times[i]
    <3>1. PICK i \in 1..n : times[i] = u
      BY <1>1
    <3>2. i \notin R
      BY <3>1 DEF TimesAt
    <3> QED BY <3>1, <3>2
  <2>4. K = { times[i] : i \in S }
    <3> HIDE DEF K, S
    <3> QED BY <2>2, <2>3
  <2> QED BY <2>1, <2>4
<1>5. 1 \in S /\ 1 \in 1..n /\ S \in SUBSET (1..n) /\ 1..n # {}
      /\ 1..n \in SUBSET (1..n) /\ S # {}
  BY <1>1
<1> HIDE DEF new, T, K
<1>6. PICK a \in 1..n, b \in 1..n :
        times[a] = LowTime(T, t) /\ times[b] = HighTime(T, t) /\ Bracket(times, 1..n, t, a, b)
  <2> DEFINE all == 1..n
  <2>1. T = { times[i] : i \in all } /\ all \in SUBSET (1..n) /\ all # {}
    BY <1>4, <1>5
  <2> HIDE DEF all
  <2>2. \E a, b \in all : times[a] = LowTime(T, t) /\ times[b] = HighTime(T, t)
                          /\ Bracket(times, all, t, a, b)
    BY <1>1, <1>2, <2>1, Bracketed
  <2> QED BY <2>2 DEF all
<1>7. PICK c \in S, d \in S :
        times[c] = LowTime(K, t) /\ times[d] = HighTime(K, t) /\ Bracket(times, S, t, c, d)
  <2>1. K = { times[i] : i \in S } /\ S \in SUBSET (1..n) /\ S # {}
    BY <1>4, <1>5
  <2> HIDE DEF S
  <2> QED BY <1>1, <1>2, <2>1, Bracketed
<1> DEFINE W(i, j) == Within(attr.samples, attr.type, times[i], times[j], t)
<1>8. ValueAt(attr, t) = W(a, b)
  BY <1>6, ValueOfSamples DEF T
<1>9. /\ Cardinality(K) # 1 => /\ DOMAIN new.samples = K /\ new.type = attr.type
                               /\ \A u \in K : new.samples[u] = attr.samples[u]
      /\ Cardinality(K) = 1 => /\ new.samples = << >>
                               /\ \E u \in K : K = {u} /\ new.default = LeftValue(attr, u)
  <2> HIDE DEF removed
  <2> QED BY OptimizedKeeps DEF new, K, T
<1>10. ValueAt(new, t) = W(c, d)
  <2>1. CASE Cardinality(K) # 1
    <3>1. new.samples # << >>
      <4>1. times[1] \in K
        BY <1>4, <1>5
      <4>2. DOMAIN << >> = {}
        OBVIOUS
      <4> QED BY <1>9, <2>1, <4>1, <4>2
    <3>2. ValueAt(new, t) = Within(new.samples, new.type, times[c], times[d], t)
      BY <1>7, <1>9, <2>1, <3>1, ValueOfSamples
    <3>3. new.samples[times[c]] = attr.samples[times[c]] /\ new.samples[times[d]] = attr.samples[times[d]]
      BY <1>4, <1>9, <2>1
    <3>4. Within(new.samples, new.type, times[c], times[d], t) = W(c, d)
      BY <1>9, <2>1, <3>3 DEF Within
    <3> QED BY <3>2, <3>4
  <2>2. CASE Cardinality(K) = 1
    <3>1. PICK u \in K : K = {u} /\ new.default = LeftValue(attr, u)
      BY <1>9, <2>2
    <3>2. times[c] = u /\ times[d] = u
      BY <1>4, <3>1
    <3>3. ValueAt(new, t) = IF attr.samples[u] = Block THEN None ELSE attr.samples[u]
      BY <1>9, <2>2, <3>1, AttributesAssumption DEF ValueAt, LeftValue
    <3> QED BY <3>2, <3>3 DEF Within
  <2> QED BY <2>1, <2>2
<1> HIDE DEF W
<1>11. a \in 1..n /\ b \in 1..n /\ c \in (1..n) \ R /\ d \in (1..n) \ R
       /\ Bracket(times, 1..n, t, a, b) /\ Bracket(times, (1..n) \ R, t, c, d)
  BY <1>6, <1>7
<1> HIDE DEF S
<1>12. TellAt(attr, n, times, R, t, a, b, c, d)
  BY <1>8, <1>10, <1>11 DEF W, new, TellAt
<1> QED BY <1>12

\* Samples at the places R, as above, tell nothing.
LEMMA OptimizedUnseen ==
  ASSUME NEW attr, StoredAttr(attr), Numbers(attr), attr.samples # << >>, NEW n, n # 0,
         NEW times, NEW vs, Placed(attr, n, times, vs),
         NEW R, Repeated(n, vs, R), Interpolated(attr.type) => Lasting(n, vs, R),
         NEW t \in Int, t # None
  PROVE  ValueAt(Optimized(attr, TimesAt(times, R)), t) = ValueAt(attr, t)
<1> DEFINE W(i, j) == Within(attr.samples, attr.type, times[i], times[j], t)
           S == (1..n) \ R
<1>1. /\ n \in Nat /\ times \in [1..n -> DOMAIN attr.samples] /\ times \in [1..n -> Int]
      /\ Increasing(n, times) /\ \A i \in 1..n : vs[i] = attr.samples[times[i]]
      /\ R \in SUBSET (2..n)
  BY PlacedValues DEF Repeated
<1>a. PICK a, b, c, d : TellAt(attr, n, times, R, t, a, b, c, d)
  BY <1>1, OptimizedTells
<1>2. /\ a \in 1..n /\ b \in 1..n /\ c \in (1..n) \ R /\ d \in (1..n) \ R
      /\ Bracket(times, 1..n, t, a, b) /\ Bracket(times, (1..n) \ R, t, c, d)
      /\ ValueAt(attr, t) = W(a, b)
      /\ ValueAt(Optimized(attr, TimesAt(times, R)), t) = W(c, d)
  BY <1>a DEF TellAt
<1>3. /\ vs[c] = vs[a]
      /\ Interpolated(attr.type) => (a = c /\ b = d) \/ (vs[b] = vs[a] /\ vs[d] = vs[c])
  <2>1. vs[c] = vs[a] /\ (Lasting(n, vs, R) => (a = c /\ b = d) \/ (vs[b] = vs[a] /\ vs[d] = vs[c]))
    <3> HIDE DEF W
    <3> QED BY <1>1, <1>2, SameBracket
  <2> QED BY <2>1
<1> DEFINE Value(i) == IF vs[i] = Block THEN None ELSE vs[i]
<1>4. ASSUME ~Interpolated(attr.type), NEW i \in 1..n, NEW j \in 1..n PROVE W(i, j) = Value(i)
  BY <1>1, <1>4 DEF Within
<1>5. ASSUME NEW i \in 1..n, NEW j \in 1..n, vs[j] = vs[i], times[i] = times[j] \/ times[i] < times[j]
      PROVE  W(i, j) = Value(i)
  <2>1. attr.samples[times[i]] \in {Block} \cup Seq(Seq(Int)) /\ times[i] \in Int /\ times[j] \in Int
    BY <1>1 DEF Numbers
  <2>2. attr.samples[times[i]] = vs[i] /\ attr.samples[times[j]] = vs[i]
    BY <1>1, <1>5
  <2> DEFINE lo == times[i]  hi == times[j]
  <2> HIDE DEF lo, hi
  <2>3. Within(attr.samples, attr.type, lo, hi, t)
          = IF attr.samples[lo] = Block THEN None ELSE attr.samples[lo]
    BY <1>5, <2>1, <2>2, WithinEqual DEF lo, hi
  <2> QED BY <2>2, <2>3 DEF lo, hi
<1>6. /\ times[a] = times[b] \/ times[a] < times[b]
      /\ times[c] = times[d] \/ times[c] < times[d]
  <2>1. ASSUME NEW all \in SUBSET (1..n), NEW i \in all, NEW j \in all, Bracket(times, all, t, i, j)
        PROVE  times[i] = times[j] \/ times[i] < times[j]
    BY <1>1, <2>1, HighAfterLow
  <2>2. 1..n \in SUBSET (1..n) /\ (1..n) \ R \in SUBSET (1..n)
    OBVIOUS
  <2> QED BY <1>2, <2>1, <2>2
<1>7. W(a, b) = W(c, d)
  <2>1. a \in 1..n /\ b \in 1..n /\ c \in 1..n /\ d \in 1..n
    BY <1>2
  <2>2. CASE ~Interpolated(attr.type)
    <3> HIDE DEF W
    <3> QED BY <1>3, <1>4, <2>1, <2>2
  <2>3. CASE a = c /\ b = d
    BY <2>3
  <2>4. CASE vs[b] = vs[a] /\ vs[d] = vs[c]
    <3> HIDE DEF W
    <3> QED BY <1>3, <1>5, <1>6, <2>1, <2>4
  <2> QED BY <1>3, <2>2, <2>3, <2>4
<1> HIDE DEF W
<1> QED BY <1>2, <1>7

\* Removing duplicates from a Removable attribute leaves its value what it is at every time
\* (OptimizeTimeSamples, processAttribute with filterHeld or filterFloatingPoint): a sample
\* that goes is equal to the one before it, and to the one after if values between are
\* interpolated, or else is one of a last run of equal samples.  Removable leaves out what the
\* code does not promise this of: blocks among several samples of the types that filterFloatingPoint
\* reads unchecked (Readable), and values with a role that are held and then change, which
\* isHeldType takes for held although USD interpolates them (HoldsStay).
THEOREM DuplicatesUnseen ==
  ASSUME NEW attr, StoredAttr(attr), Numbers(attr), Removable(attr), NEW t \in Int, t # None
  PROVE  ValueAt(processAttribute(attr, FALSE), t) = ValueAt(attr, t)
<1>1. CASE attr.samples = << >>
  BY <1>1 DEF processAttribute
<1>2. CASE attr.samples # << >>
  <2>1. PICK n, times, vs : Placed(attr, n, times, vs)
    BY DEF Placed
  <2>2. n = Cardinality(DOMAIN attr.samples)
    BY <2>1 DEF Placed
  <2>3. n \in Nat /\ n # 0
    <3> SUFFICES ASSUME n = 0 PROVE FALSE
      BY <2>1, PlacedValues
    <3>1. DOMAIN attr.samples = {}
      BY <2>2, FS_EmptySet DEF StoredAttr
    <3>2. attr.samples \in [{} -> {Block} \cup Seq(Seq(Int))]
      BY <3>1 DEF Numbers
    <3>3. attr.samples = << >>
      BY <3>2
    <3> QED BY <1>2, <3>3
  <2>4. CASE n = 1
    <3>1. processAttribute(attr, FALSE) = Optimized(attr, {})
      BY <1>2, <2>2, <2>4 DEF processAttribute
    <3>2. TimesAt(times, {}) = {}
      BY DEF TimesAt
    <3>3. Repeated(n, vs, {}) /\ Lasting(n, vs, {})
      BY DEF Repeated, Lasting
    <3>4. ValueAt(Optimized(attr, TimesAt(times, {})), t) = ValueAt(attr, t)
      BY <1>2, <2>1, <2>3, <3>3, OptimizedUnseen
    <3> QED BY <3>1, <3>2, <3>4
  <2>5. CASE n # 1
    <3> DEFINE R == Redundant(attr.type, times, vs, FALSE)
    <3>1. processAttribute(attr, FALSE) = Optimized(attr, filterTimeSamples(attr, FALSE))
      BY <1>2, <2>2, <2>5 DEF processAttribute
    <3>2. n \notin {0, 1}
      BY <2>3, <2>5
    <3>3. /\ filterTimeSamples(attr, FALSE) = TimesAt(times, R)
          /\ Repeated(n, vs, R)
          /\ Interpolated(attr.type) => Lasting(n, vs, R)
      BY <2>1, <3>2, RedundantSame DEF Removable
    <3> HIDE DEF R
    <3>4. ValueAt(Optimized(attr, TimesAt(times, R)), t) = ValueAt(attr, t)
      BY <1>2, <2>1, <2>3, <3>3, OptimizedUnseen
    <3> QED BY <3>1, <3>3, <3>4
  <2> QED BY <2>3, <2>4, <2>5
<1> QED BY <1>1, <1>2

\* Every attribute with samples of numbers has the value it had, at every time.
KeepsValues ==
  \A p \in DOMAIN stage.prims : \A n \in DOMAIN stage.prims[p].attrs : \A t \in Int \ {None} :
    Numbers(stage.prims[p].attrs[n])
      => Get(stage'.prims[p], n, t) = Get(stage.prims[p], n, t)

\* Removing duplicates leaves every value what it is, at every time: in the steps of
\* OptimizeTimeSamples::execute without the interpolated ones, where every attribute is Removable.
THEOREM DuplicatesKeepValues == Spec => [][last' = "duplicates" => KeepsValues]_vars
<1>1. Stored(stage) /\ [Next]_vars => [last' = "duplicates" => KeepsValues]_vars
  <2> SUFFICES ASSUME Stored(stage), Next, last' = "duplicates" PROVE KeepsValues
    OBVIOUS
  <2>1. RemoveDuplicates
    BY DEF Next, ChangeUnits, RemoveInterpolated, CentrePivots, BoundMeshes, Step
  <2> SUFFICES ASSUME NEW p \in DOMAIN stage.prims, NEW n \in DOMAIN stage.prims[p].attrs,
                      NEW t \in Int, t # None, Numbers(stage.prims[p].attrs[n])
               PROVE  Get(stage'.prims[p], n, t) = Get(stage.prims[p], n, t)
    BY DEF KeepsValues
  <2> DEFINE prim == stage.prims[p]
             new == stage'.prims[p]
             attr == prim.attrs[n]
  <2>2. new = IF p \in Resolved(stage) THEN OptimizedPrim(prim, FALSE) ELSE prim
    BY <2>1 DEF RemoveDuplicates, OptimizeTimeSamples, Stored
  <2>3. StoredPrim(prim)
    BY DEF Stored
  <2>4. p \in Resolved(stage) => Removable(attr)
    BY <2>1 DEF RemoveDuplicates, AllRemovable
  <2> HIDE DEF new, prim
  <2>5. StoredAttr(attr) /\ Numbers(attr) /\ n \in DOMAIN prim.attrs
    BY <2>3 DEF StoredPrim, prim
  <2>6. CASE p \notin Resolved(stage)
    BY <2>2, <2>6 DEF new, prim
  <2>7. CASE p \in Resolved(stage)
    <3>1. new.attrs = [m \in DOMAIN prim.attrs |-> processAttribute(prim.attrs[m], FALSE)]
      BY <2>2, <2>3, <2>7 DEF OptimizedPrim, StoredPrim
    <3>2. n \in DOMAIN new.attrs /\ new.attrs[n] = processAttribute(attr, FALSE)
      BY <2>5, <3>1
    <3>3. ValueAt(processAttribute(attr, FALSE), t) = ValueAt(attr, t)
      BY <2>4, <2>5, <2>7, DuplicatesUnseen
    <3>4. Get(new, n, t) = Get(prim, n, t)
      BY <2>5, <3>2, <3>3 DEF Get, Has
    <3> QED BY <3>4 DEF new, prim
  <2> QED BY <2>6, <2>7
<1> QED BY <1>1, StageStored, PTL DEF Spec

-----------------------------------------------------------------------------
(* Interpolated samples tell nothing *)

\* Products of the same positive number are equal only of equal numbers.
LEMMA Cancel ==
  ASSUME NEW a \in Int, NEW b \in Int, NEW k \in Int, k > 0, a * k = b * k
  PROVE  a = b
OBVIOUS

\* Products of sums and differences.
LEMMA MultiplyOut ==
  ASSUME NEW a \in Int, NEW b \in Int, NEW c \in Int
  PROVE  /\ (a + b) * c = a * c + b * c /\ (a - b) * c = a * c - b * c
         /\ c * (a + b) = c * a + c * b /\ c * (a - b) = c * a - c * b
         /\ a * b = b * a /\ (a * b) * c = a * (b * c) /\ (a * b) * c = (a * c) * b
OBVIOUS

\* Dividing by one changes nothing.
LEMMA DivOne ==
  ASSUME NEW a \in Int
  PROVE a \div 1 = a
OBVIOUS

\* A number is a quotient rounded down and a rest smaller than the divisor.
LEMMA Remainder ==
  ASSUME NEW num \in Int, NEW den \in Int, den > 0
  PROVE  \E r \in Int : num = den * (num \div den) + r /\ 0 <= r /\ r < den /\ num \div den \in Int
<1> DEFINE q == num \div den  r == num % den
<1>1. q \in Int
  OBVIOUS
<1>2. r \in 0..den-1
  OBVIOUS
<1>3. num = den * q + r
  OBVIOUS
<1> HIDE DEF q, r
<1>4. r \in Int /\ 0 <= r /\ r < den
  BY <1>2
<1> QED BY <1>1, <1>3, <1>4 DEF q

\* Products with a positive number keep the order.
LEMMA Products ==
  ASSUME NEW a \in Int, NEW b \in Int, NEW c \in Int, a < b, c > 0
  PROVE  a * c < b * c
OBVIOUS

\* Two sums of a number and a fraction that are equal before rounding are equal after.
LEMMA SameFloor ==
  ASSUME NEW a \in Int, NEW b \in Int, NEW n \in Int, NEW m \in Int, NEW d \in Int, NEW e \in Int,
         d > 0, e > 0, (a - b) * (d * e) + n * e = m * d
  PROVE  a + n \div d = b + m \div e
<1>1. PICK r \in Int : n = d * (n \div d) + r /\ 0 <= r /\ r < d /\ n \div d \in Int
  BY Remainder
<1>2. PICK s \in Int : m = e * (m \div e) + s /\ 0 <= s /\ s < e /\ m \div e \in Int
  BY Remainder
<1> DEFINE p == n \div d  q == m \div e
<1>3. p \in Int /\ q \in Int /\ n = d * p + r /\ m = e * q + s
  BY <1>1, <1>2
<1> HIDE DEF p, q
<1> DEFINE k == (a + p) - (b + q)  D == d * e
<1>4. k * D = s * d - r * e
  <2>1. n * e = p * D + r * e
    <3>1. n * e = (d * p) * e + r * e
      BY <1>3, MultiplyOut
    <3>2. (d * p) * e = p * (d * e)
      BY <1>3, MultiplyOut
    <3> QED BY <3>1, <3>2
  <2>2. m * d = q * D + s * d
    <3>1. m * d = (e * q) * d + s * d
      BY <1>3, MultiplyOut
    <3>2. (e * q) * d = q * (d * e)
      BY <1>3, MultiplyOut
    <3> QED BY <3>1, <3>2
  <2>3. k * D = (a - b) * D + p * D - q * D
    <3> HIDE DEF D
    <3>1. D \in Int
      BY DEF D
    <3>2. k = ((a - b) + p) - q
      BY <1>3
    <3>3. k * D = ((a - b) + p) * D - q * D
      BY <1>3, <3>1, <3>2, MultiplyOut
    <3> HIDE DEF k
    <3> DEFINE f == a - b
    <3>4. f \in Int
      OBVIOUS
    <3> HIDE DEF f
    <3>5. (f + p) * D = f * D + p * D
      BY <1>3, <3>1, <3>4, MultiplyOut
    <3>6. k * D = (f + p) * D - q * D
      BY <3>3 DEF f
    <3> HIDE DEF p, q
    <3> DEFINE l == f * D  g == p * D  o == q * D  h == (f + p) * D
    <3>7. l \in Int /\ g \in Int /\ o \in Int /\ h = l + g /\ k * D = h - o
      BY <1>3, <3>1, <3>4, <3>5, <3>6
    <3> HIDE DEF l, g, o, h
    <3>8. k * D = l + g - o
      BY <3>7
    <3> QED BY <3>8 DEF f, l, g, o
  <2>4. (a - b) * D \in Int /\ p * D \in Int /\ q * D \in Int /\ r * e \in Int /\ s * d \in Int
    BY <1>3
  <2>5. (a - b) * D + n * e = m * d
    OBVIOUS
  <2> HIDE DEF k, D
  <2> QED BY <2>1, <2>2, <2>3, <2>4, <2>5
<1>5. /\ k \in Int /\ D \in Int /\ D > 0
      /\ 0 <= s * d /\ s * d < D /\ 0 <= r * e /\ r * e < D
      /\ s * d \in Int /\ r * e \in Int
  <2>1. k \in Int /\ D \in Int /\ s * d \in Int /\ r * e \in Int
    BY <1>3
  <2>2. D > 0 /\ 0 <= s * d /\ 0 <= r * e
    BY <1>1, <1>2
  <2>3. r * e < D
    BY <1>1, Products
  <2>4. s * d < D
    <3>1. s * d < e * d
      BY <1>2, Products
    <3> QED BY <3>1, MultiplyOut
  <2> QED BY <2>1, <2>2, <2>3, <2>4
<1> HIDE DEF k, D
<1>6. ~(k > 0)
  <2> SUFFICES ASSUME k >= 1 PROVE FALSE
    BY <1>5
  <2>1. k * D >= D
    BY <1>5
  <2> QED BY <1>4, <1>5, <2>1
<1>7. ~(k < 0)
  <2> SUFFICES ASSUME k <= -1 PROVE FALSE
    BY <1>5
  <2>1. k * D <= 0 - D
    BY <1>5
  <2> QED BY <1>4, <1>5, <2>1
<1>8. k = 0
  BY <1>5, <1>6, <1>7
<1> QED BY <1>3, <1>8 DEF k, p, q

\* Numbers x at places c to d, those between which change as fast before as after.
Straight(times, x, c, d) ==
  \A i \in c+1..d-1 :
    (x[i + 1] - x[i]) * (times[i] - times[i - 1]) = (x[i] - x[i - 1]) * (times[i + 1] - times[i])

\* From one place to another, such numbers change all the way as fast as they start to.
LEMMA Speed ==
  ASSUME NEW n, NEW times, Increasing(n, times), NEW x \in [1..n -> Int],
         NEW c \in 1..n, NEW d \in 1..n, c < d, Straight(times, x, c, d)
  PROVE  \A i \in c..d :
           (x[i] - x[c]) * (times[c + 1] - times[c]) = (x[c + 1] - x[c]) * (times[i] - times[c])
<1> DEFINE D == times[c + 1] - times[c]
           s == x[c + 1] - x[c]
           Fine(i) == (x[i] - x[c]) * D = s * (times[i] - times[c])
           T == { m \in Nat : c + m <= d => Fine(c + m) /\ (c + m + 1 <= d => Fine(c + m + 1)) }
<1>1. /\ n \in Nat /\ times \in [1..n -> Int] /\ \A i, j \in 1..n : i < j => times[i] < times[j]
      /\ c \in Int /\ d \in Int /\ c + 1 \in 1..n /\ \A i \in c..d : i \in 1..n
  BY DEF Increasing
<1>2. D \in Int /\ s \in Int
  BY <1>1
<1>3. ASSUME NEW i \in c..d PROVE times[i] \in Int /\ x[i] \in Int
  BY <1>1
<1> HIDE DEF D, s
<1>4. 0 \in T
  <2>1. Fine(c)
    BY <1>1, <1>2, <1>3
  <2>2. Fine(c + 1)
    BY <1>1, <1>2, <1>3, MultiplyOut DEF D, s
  <2>3. c + 0 = c /\ c + 0 + 1 = c + 1
    BY <1>1
  <2> HIDE DEF Fine
  <2> QED BY <2>1, <2>2, <2>3
<1>5. ASSUME NEW m \in Nat, m \in T PROVE m + 1 \in T
  <2> DEFINE h == c + m  i == c + m + 1  j == c + m + 2
  <2> SUFFICES ASSUME i <= d PROVE Fine(i) /\ (j <= d => Fine(j))
    BY <1>1
  <2>1. Fine(h) /\ Fine(i)
    BY <1>1, <1>5
  <2> SUFFICES ASSUME j <= d PROVE Fine(j)
    BY <2>1
  <2>2. h \in c..d /\ i \in c..d /\ j \in c..d /\ i \in c+1..d-1 /\ i + 1 = j /\ i - 1 = h /\ h < i
    BY <1>1
  <2>3. (x[j] - x[i]) * (times[i] - times[h]) = (x[i] - x[h]) * (times[j] - times[i])
    BY <2>2 DEF Straight
  <2>4. times[i] - times[h] > 0
    BY <1>1, <1>3, <2>2
  <2> HIDE DEF h, i, j
  <2>5. /\ x[h] \in Int /\ x[i] \in Int /\ x[j] \in Int /\ x[c] \in Int
        /\ times[h] \in Int /\ times[i] \in Int /\ times[j] \in Int /\ times[c] \in Int
    <3>1. c \in c..d
      BY <1>1
    <3> QED BY <1>3, <2>2, <3>1
  <2>8. Fine(j)
    <3> DEFINE xc == x[c]  xh == x[h]  xi == x[i]  xj == x[j]
               tc == times[c]  th == times[h]  ti == times[i]  tj == times[j]
    <3>1. /\ xc \in Int /\ xh \in Int /\ xi \in Int /\ xj \in Int
          /\ tc \in Int /\ th \in Int /\ ti \in Int /\ tj \in Int
      BY <2>5
    <3>2. /\ ti - th > 0 /\ (xh - xc) * D = s * (th - tc) /\ (xi - xc) * D = s * (ti - tc)
          /\ (xj - xi) * (ti - th) = (xi - xh) * (tj - ti)
      BY <2>1, <2>3, <2>4
    <3> HIDE DEF xc, xh, xi, xj, tc, th, ti, tj
    <3> DEFINE A == xj - xi  B == xi - xh  P == ti - th  Q == tj - ti
               u == xi - xc  v == xh - xc  y == ti - tc  z == th - tc
    <3>3. /\ A \in Int /\ B \in Int /\ P \in Int /\ Q \in Int /\ P > 0 /\ A * P = B * Q
          /\ u \in Int /\ v \in Int /\ y \in Int /\ z \in Int
          /\ u - v = B /\ y - z = P /\ xj - xc = A + u /\ tj - tc = Q + y
          /\ u * D = s * y /\ v * D = s * z
      BY <3>1, <3>2
    <3> HIDE DEF A, B, P, Q, u, v, y, z
    <3>4. B * D = s * P
      <4>1. (u - v) * D = u * D - v * D /\ s * (y - z) = s * y - s * z
        BY <1>2, <3>3, MultiplyOut
      <4> QED BY <3>3, <4>1
    <3>5. A * D = s * Q
      <4>1. (A * D) * P = (A * P) * D /\ (B * Q) * D = (B * D) * Q /\ (s * P) * Q = (s * Q) * P
        BY <1>2, <3>3, MultiplyOut
      <4>2. (A * D) * P = (s * Q) * P
        BY <3>3, <3>4, <4>1
      <4> DEFINE X == A * D  Y == s * Q
      <4>3. X \in Int /\ Y \in Int /\ P \in Int /\ P > 0 /\ X * P = Y * P
        BY <1>2, <3>3, <4>2
      <4> HIDE DEF X, Y
      <4>4. X = Y
        BY <4>3, Cancel
      <4> QED BY <4>4 DEF X, Y
    <3>6. (A + u) * D = A * D + u * D /\ s * (Q + y) = s * Q + s * y
      BY <1>2, <3>3, MultiplyOut
    <3>7. (xj - xc) * D = s * (tj - tc)
      BY <3>3, <3>5, <3>6
    <3> QED BY <3>7 DEF xj, xc, tj, tc
  <2> QED BY <2>8
<1>6. Nat \subseteq T
  <2> HIDE DEF T
  <2> QED BY <1>4, <1>5, Induct
<1>7. ASSUME NEW i \in c..d PROVE Fine(i)
  <2>1. i - c \in Nat /\ c + (i - c) = i /\ i <= d
    BY <1>1
  <2>2. i - c \in T
    BY <1>6, <2>1
  <2> HIDE DEF Fine
  <2> QED BY <2>1, <2>2
<1> QED BY <1>7 DEF D, s

\* A number x at a time s is on the line through y at t and z at u; and what the line tells
\* of a time v, rounded down.
OnLine(x, s, y, t, z, u) == (x - y) * (u - t) = (z - y) * (s - t)
Told(y, t, z, u, v) == y + ((z - y) * (v - t)) \div (u - t)

\* So they are on the line from the one at c to the one at d.
LEMMA StraightOnLine ==
  ASSUME NEW n, NEW times, Increasing(n, times), NEW x \in [1..n -> Int],
         NEW c \in 1..n, NEW d \in 1..n, c < d, Straight(times, x, c, d)
  PROVE  \A i \in c..d : OnLine(x[i], times[i], x[c], times[c], x[d], times[d])
<1>1. /\ n \in Nat /\ times \in [1..n -> Int] /\ \A i, j \in 1..n : i < j => times[i] < times[j]
      /\ c \in Int /\ d \in Int /\ c + 1 \in 1..n /\ \A i \in c..d : i \in 1..n
  BY DEF Increasing
<1> SUFFICES ASSUME NEW i \in c..d
             PROVE  (x[i] - x[c]) * (times[d] - times[c]) = (x[d] - x[c]) * (times[i] - times[c])
  BY DEF OnLine
<1> DEFINE D == times[c + 1] - times[c]
           s == x[c + 1] - x[c]
           A == x[i] - x[c]
           B == x[d] - x[c]
           P == times[i] - times[c]
           Q == times[d] - times[c]
<1>2. d \in c..d /\ i \in 1..n
  BY <1>1
<1>3. A * D = s * P /\ B * D = s * Q
  BY <1>2, Speed
<1>4. /\ x[i] \in Int /\ x[c] \in Int /\ x[d] \in Int /\ x[c + 1] \in Int
      /\ times[i] \in Int /\ times[c] \in Int /\ times[d] \in Int /\ times[c + 1] \in Int
  BY <1>1, <1>2
<1>5. A \in Int /\ B \in Int /\ P \in Int /\ Q \in Int /\ D \in Int /\ s \in Int /\ D > 0
  <2>1. times[c] < times[c + 1]
    BY <1>1
  <2>2. A \in Int /\ B \in Int /\ s \in Int
    BY <1>4
  <2>3. P \in Int /\ Q \in Int /\ D \in Int
    BY <1>4
  <2>4. D > 0
    BY <1>4, <2>1
  <2> QED BY <2>2, <2>3, <2>4
<1> HIDE DEF A, B, P, Q, D, s
<1>6. A * Q = B * P
  <2>1. (A * Q) * D = (A * D) * Q /\ (s * P) * Q = (s * Q) * P /\ (B * P) * D = (B * D) * P
    BY <1>5, MultiplyOut
  <2>2. (A * Q) * D = (B * P) * D
    BY <1>3, <1>5, <2>1
  <2>3. A * Q \in Int /\ B * P \in Int
    BY <1>5
  <2> QED BY <1>5, <2>2, <2>3, Cancel
<1> QED BY <1>6 DEF A, B, P, Q

\* A line through two of its points tells the same number at a time, rounded down, as it
\* does through two others.
LEMMA SameLine ==
  ASSUME NEW xa \in Int, NEW xb \in Int, NEW xc \in Int, NEW xd \in Int, NEW ta \in Int, NEW tb \in Int,
         NEW tc \in Int, NEW td \in Int, NEW t \in Int, ta < tb, tc < td,
         OnLine(xa, ta, xc, tc, xd, td), OnLine(xb, tb, xc, tc, xd, td)
  PROVE  Told(xa, ta, xb, tb, t) = Told(xc, tc, xd, td, t)
<1> DEFINE e == td - tc  d == tb - ta  s == xd - xc  u == xa - xc  v == xb - xc
           p == ta - tc  q == tb - tc  r == t - ta  w == t - tc
<1>1. /\ e \in Int /\ d \in Int /\ s \in Int /\ u \in Int /\ v \in Int /\ p \in Int /\ q \in Int
      /\ r \in Int /\ w \in Int /\ e > 0 /\ d > 0
      /\ xb - xa = v - u /\ d = q - p /\ w = p + r
      /\ u * e = s * p /\ v * e = s * q
  BY DEF OnLine
<1> DEFINE N == (v - u) * r  M == s * w
<1>2. N \in Int /\ M \in Int
  BY <1>1
<1>3. u * (d * e) + N * e = M * d
  <2> HIDE DEF e, d, s, u, v, p, q, r, w
  <2> DEFINE f == v - u
  <2>1. f \in Int /\ f * e = s * d
    <3>1. (v - u) * e = v * e - u * e /\ s * (q - p) = s * q - s * p
      BY <1>1, MultiplyOut
    <3> QED BY <1>1, <3>1
  <2> HIDE DEF f
  <2>2. (f * r) * e = (s * d) * r
    <3>1. (f * r) * e = (f * e) * r
      BY <1>1, <2>1, MultiplyOut
    <3> QED BY <2>1, <3>1
  <2>3. u * (d * e) = (s * d) * p
    <3>1. u * (d * e) = (u * e) * d /\ (s * p) * d = (s * d) * p
      BY <1>1
    <3> QED BY <1>1, <3>1
  <2> DEFINE g == s * d
  <2>4. g \in Int
    BY <1>1
  <2>5. M * d = g * w
    BY <1>1, MultiplyOut
  <2> HIDE DEF g
  <2>6. g * (p + r) = g * p + g * r
    BY <1>1, <2>4, MultiplyOut
  <2>7. N * e = g * r /\ u * (d * e) = g * p /\ M * d = g * p + g * r
    BY <1>1, <2>2, <2>3, <2>5, <2>6 DEF f, g
  <2> QED BY <2>7
<1> HIDE DEF N, M, e, d, u
<1>4. (xa - xc) * (d * e) + N * e = M * d
  BY <1>3 DEF u
<1>5. xa + N \div d = xc + M \div e
  BY <1>1, <1>2, <1>4, SameFloor
<1>6. N = (xb - xa) * (t - ta) /\ M = (xd - xc) * (t - tc)
  BY <1>1 DEF N, M
<1> QED BY <1>5, <1>6 DEF d, e, Told

\* At a point of it, the line tells that.
LEMMA LineAt ==
  ASSUME NEW xa \in Int, NEW xc \in Int, NEW xd \in Int, NEW ta \in Int, NEW tc \in Int, NEW td \in Int,
         tc < td, OnLine(xa, ta, xc, tc, xd, td)
  PROVE  xa = Told(xc, tc, xd, td, ta)
<1> DEFINE e == td - tc  M == (xd - xc) * (ta - tc)
<1>1. e \in Int /\ e > 0 /\ M \in Int /\ 1 * e = e
  OBVIOUS
<1>2. (xa - xc) * e = M
  BY DEF OnLine
<1> HIDE DEF e, M
<1>3. (xa - xc) * (1 * e) + 0 * e = M * 1
  BY <1>1, <1>2
<1>4. xa + 0 \div 1 = xc + M \div e
  BY <1>1, <1>3, SameFloor
<1>5. xa + 0 \div 1 = xa
  BY DivOne
<1> QED BY <1>4, <1>5 DEF e, M, Told

\* Samples that are rows of numbers, of one shape.
Shaped(attr) ==
  \A t, u \in DOMAIN attr.samples :
    /\ attr.samples[t] \in Seq(Seq(Int))
    /\ DOMAIN attr.samples[u] = DOMAIN attr.samples[t]
    /\ \A j \in DOMAIN attr.samples[t] : DOMAIN attr.samples[u][j] = DOMAIN attr.samples[t][j]

\* n values of one shape.
Even(n, vs) ==
  \A h, i \in 1..n :
    /\ vs[h] \in Seq(Seq(Int)) /\ vs[h] # Block
    /\ DOMAIN vs[i] = DOMAIN vs[h]
    /\ \A j \in DOMAIN vs[h] : DOMAIN vs[i][j] = DOMAIN vs[h][j]

\* The number in a column of a row, through the samples.
Numbered(n, vs, j, k) == [i \in 1..n |-> vs[i][j][k]]

\* They are numbers, since all samples have one shape.
LEMMA NumberedInt ==
  ASSUME NEW n \in Nat, NEW vs, Even(n, vs), NEW h \in 1..n, NEW j \in DOMAIN vs[h],
         NEW k \in DOMAIN vs[h][j]
  PROVE  /\ Numbered(n, vs, j, k) \in [1..n -> Int]
         /\ \A i \in 1..n : Numbered(n, vs, j, k)[i] = vs[i][j][k]
<1>1. ASSUME NEW i \in 1..n PROVE vs[i][j][k] \in Int
  <2>1. vs[i] \in Seq(Seq(Int)) /\ j \in DOMAIN vs[i] /\ k \in DOMAIN vs[i][j]
    BY DEF Even
  <2>2. vs[i][j] \in Seq(Int)
    BY <2>1, ElementOfSeq
  <2> DEFINE row == vs[i][j]
  <2>3. row \in Seq(Int) /\ k \in DOMAIN row
    BY <2>1, <2>2
  <2> HIDE DEF row
  <2>4. row[k] \in Int
    BY <2>3, ElementOfSeq
  <2> QED BY <2>4 DEF row
<1> QED BY <1>1 DEF Numbered

\* Places R of values that change as fast before as after, or of a last one that is equal to
\* the one before.
Steady(n, times, vs, R) ==
  /\ R \in SUBSET (2..n)
  /\ \A i \in R : i < n =>
       \A j \in DOMAIN vs[i] : \A k \in DOMAIN vs[i][j] :
         (vs[i + 1][j][k] - vs[i][j][k]) * (times[i] - times[i - 1])
           = (vs[i][j][k] - vs[i - 1][j][k]) * (times[i + 1] - times[i])
  /\ n \in R => vs[n] = vs[n - 1]

\* A filtered sample is at such a place.
LEMMA FilteredSteady ==
  ASSUME NEW n \in Nat, n > 1, NEW times, Increasing(n, times), NEW vs, DOMAIN vs = 1..n, Len(vs) = n,
         Even(n, vs)
  PROVE  Steady(n, times, vs, filterInterpolated(times, vs))
<1> DEFINE R == filterInterpolated(times, vs)
           I == { i \in 2..(Len(vs) - 1) :
                    adjustForDelta(Diff(vs, i + 1), times[i] - times[i - 1])
                      = adjustForDelta(Diff(vs, i), times[i + 1] - times[i]) }
<1>1. R = I \cup LastRedundant(vs)
  BY DEF filterInterpolated
<1>2. \A i \in LastRedundant(vs) : i = n /\ vs[n] = vs[n - 1]
  BY DEF LastRedundant
<1>3. n \in 2..n /\ n \notin 2..(Len(vs) - 1) /\ 2..(Len(vs) - 1) \subseteq 2..n
  BY DEF LastRedundant
<1>4. R \in SUBSET (2..n)
  <2> HIDE DEF R
  <2> QED BY <1>1, <1>2, <1>3
<1>5. n \in R => vs[n] = vs[n - 1]
  <2> HIDE DEF R
  <2> QED BY <1>1, <1>2, <1>3
<1>6. ASSUME NEW i \in R, i < n, NEW j \in DOMAIN vs[i], NEW k \in DOMAIN vs[i][j]
      PROVE  (vs[i + 1][j][k] - vs[i][j][k]) * (times[i] - times[i - 1])
               = (vs[i][j][k] - vs[i - 1][j][k]) * (times[i + 1] - times[i])
  <2>1. i \in I
    <3> HIDE DEF R, I
    <3> QED BY <1>1, <1>2, <1>6
  <2>2. i \in 1..n /\ i + 1 \in 1..n /\ i - 1 \in 1..n /\ (i + 1) - 1 = i
    BY <1>4, <1>6
  <2> DEFINE x == vs[i + 1]  y == vs[i]  z == vs[i - 1]  d == times[i] - times[i - 1]
             e == times[i + 1] - times[i]
  <2>3. /\ j \in DOMAIN x /\ k \in DOMAIN x[j] /\ j \in DOMAIN y /\ k \in DOMAIN y[j]
    BY <2>2 DEF Even
  <2>4. Diff(vs, i + 1) = [l \in DOMAIN x |-> Minus(x[l], y[l])]
    BY <2>2 DEF Diff
  <2>5. Diff(vs, i) = [l \in DOMAIN y |-> Minus(y[l], z[l])]
    BY <2>2 DEF Diff
  <2>6. adjustForDelta(Diff(vs, i + 1), d) = adjustForDelta(Diff(vs, i), e)
    BY <2>1
  <2>7. x[j][k] \in Int /\ y[j][k] \in Int /\ z[j][k] \in Int
    BY <2>2, NumberedInt, <1>6
  <2>8. d \in Int /\ e \in Int
    BY <2>2 DEF Increasing
  <2> HIDE DEF x, y, z, d, e
  <2>9. ASSUME NEW f, NEW g, NEW delta, NEW D, D = [l \in DOMAIN f |-> Minus(f[l], g[l])],
               j \in DOMAIN f, k \in DOMAIN f[j]
        PROVE  adjustForDelta(D, delta)[j][k] = ((f[j][k] - g[j][k]) * delta) \div 1
    <3>1. j \in DOMAIN D /\ D[j] = Minus(f[j], g[j])
      BY <2>9
    <3>2. k \in DOMAIN D[j] /\ D[j][k] = f[j][k] - g[j][k]
      BY <2>9, <3>1 DEF Minus
    <3>3. adjustForDelta(D, delta)[j] = Over(D[j], delta, 1)
      BY <3>1 DEF adjustForDelta
    <3>4. Over(D[j], delta, 1)[k] = (D[j][k] * delta) \div 1
      BY <3>2 DEF Over
    <3> QED BY <3>2, <3>3, <3>4
  <2>10. ((x[j][k] - y[j][k]) * d) \div 1 = ((y[j][k] - z[j][k]) * e) \div 1
    BY <2>3, <2>4, <2>5, <2>6, <2>9
  <2> DEFINE X == x[j][k]  Y == y[j][k]  Z == z[j][k]
  <2>11. X \in Int /\ Y \in Int /\ Z \in Int /\ ((X - Y) * d) \div 1 = ((Y - Z) * e) \div 1
    BY <2>7, <2>10
  <2> HIDE DEF X, Y, Z
  <2>12. (X - Y) * d = (Y - Z) * e
    BY <2>8, <2>11
  <2> QED BY <2>12 DEF X, Y, Z, x, y, z, d, e
<1> HIDE DEF R
<1> QED BY <1>4, <1>5, <1>6 DEF Steady, R

\* Where the places a and b that tell the value at a time are, and c and d that do so
\* without those of R.
Surround(n, times, R, t, a, b, c, d) ==
  \/ a = c /\ b = d
  \/ c = d /\ c <= a /\ a <= b /\ c+1..n \subseteq R
  \/ /\ c < d /\ c <= a /\ a <= b /\ b <= d /\ c+1..d-1 \subseteq R
     /\ a = b => times[a] = t

\* The samples next to a time, and those that remain next to it, are so placed.
LEMMA Brackets ==
  ASSUME NEW n, NEW times, Increasing(n, times), NEW R \in SUBSET (2..n), NEW t \in Int,
         NEW a \in 1..n, NEW b \in 1..n, Bracket(times, 1..n, t, a, b),
         NEW c \in (1..n) \ R, NEW d \in (1..n) \ R, Bracket(times, (1..n) \ R, t, c, d)
  PROVE  Surround(n, times, R, t, a, b, c, d)
<1> USE DEF Surround
<1>0. /\ n \in Nat /\ times \in [1..n -> Int] /\ \A i, j \in 1..n : i < j => times[i] < times[j]
  BY DEF Increasing
<1>1. ASSUME NEW i \in 1..n, NEW j \in 1..n
      PROVE  /\ i \in Int /\ j \in Int /\ times[i] \in Int /\ times[j] \in Int
             /\ times[i] <= times[j] <=> i <= j
  <2>1. i \in Int /\ j \in Int /\ times[i] \in Int /\ times[j] \in Int
    BY <1>0
  <2>2. i < j => times[i] < times[j]
    BY <1>0
  <2>3. j < i => times[j] < times[i]
    BY <1>0
  <2> QED BY <2>1, <2>2, <2>3
<1>2. 1 \in 1..n /\ 1 \in (1..n) \ R
  BY <1>0
<1>3. CASE t < times[a]
  <2>1. a = b /\ \A i \in 1..n : a <= i
    BY <1>1, <1>3 DEF Bracket
  <2>2. a = 1 /\ b = 1
    BY <1>2, <2>1
  <2>3. times[1] <= times[c] /\ times[c] \in Int /\ times[1] \in Int
    BY <1>1, <1>2
  <2>4. t < times[c]
    BY <1>3, <2>2, <2>3
  <2>5. c = d /\ \A i \in (1..n) \ R : c <= i
    BY <2>3, <2>4 DEF Bracket
  <2>6. c = 1 /\ d = 1
    BY <1>2, <2>5
  <2> QED BY <2>2, <2>6
<1>4. CASE times[a] <= t
  <2>1. times[1] <= t
    BY <1>1, <1>2, <1>4
  <2>2. times[c] <= t
    <3> SUFFICES ASSUME t < times[c] PROVE FALSE
      BY <1>1
    <3>1. \A i \in (1..n) \ R : c <= i
      BY <1>1 DEF Bracket
    <3>2. c = 1
      BY <1>2, <3>1
    <3> QED BY <1>1, <1>2, <2>1, <3>2
  <2>3. c <= a
    <3> SUFFICES ASSUME a < c PROVE FALSE
      BY <1>1
    <3>1. times[a] < times[c]
      BY <1>1
    <3>2. times[a] < t /\ t < times[b] /\ (c <= a \/ b <= c)
      <4>1. ~(t < times[a]) /\ times[a] # t /\ ~(c <= a) /\ c \in 1..n
        BY <1>1, <1>4, <2>2, <3>1
      <4> QED BY <4>1 DEF Bracket
    <3>3. times[b] <= times[c]
      BY <1>1, <3>2
    <3> QED BY <1>1, <2>2, <3>2, <3>3
  <2>4. a <= b
    BY <1>1 DEF Bracket
  <2>5. CASE c = d /\ times[c] < t /\ \A i \in (1..n) \ R : i <= c
    <3>1. c+1..n \subseteq R
      BY <1>0, <2>5
    <3> QED BY <2>3, <2>4, <2>5, <3>1
  <2>6. CASE c = d /\ times[c] = t
    <3>1. a = c
      BY <1>1, <1>4, <2>3, <2>6
    <3>2. b = a
      BY <1>1, <2>6, <3>1 DEF Bracket
    <3> QED BY <2>6, <3>1, <3>2
  <2>7. CASE times[c] < t /\ t < times[d] /\ \A i \in (1..n) \ R : i <= c \/ d <= i
    <3>1. c < d /\ a < d
      BY <1>1, <1>4, <2>7
    <3>2. c+1..d-1 \subseteq R
      <4> SUFFICES ASSUME NEW k \in c+1..d-1 PROVE k \in R
        OBVIOUS
      <4>1. k \in 1..n /\ ~(k <= c) /\ ~(d <= k)
        BY <1>0
      <4> QED BY <2>7, <4>1
    <3>3. b <= d
      <4>1. a = b \/ (\A i \in 1..n : i <= a \/ b <= i)
        BY DEF Bracket
      <4> QED BY <3>1, <4>1
    <3>4. a = b => times[a] = t
      <4> SUFFICES ASSUME a = b, times[a] # t PROVE FALSE
        OBVIOUS
      <4>1. times[a] < t /\ \A i \in 1..n : i <= a
        BY <1>1, <1>4 DEF Bracket
      <4>2. d <= a
        BY <4>1
      <4> QED BY <3>1, <4>2
    <3> QED BY <2>3, <2>4, <3>1, <3>2, <3>3, <3>4
  <2>8. CASE c = d /\ t < times[c]
    BY <1>1, <2>2, <2>8
  <2> QED BY <2>5, <2>6, <2>7, <2>8 DEF Bracket
<1> QED BY <1>1, <1>3, <1>4

\* Steady values at the end do not change any more.
LEMMA SteadyEnd ==
  ASSUME NEW n, NEW times, Increasing(n, times), NEW vs, Even(n, vs), NEW R, Steady(n, times, vs, R),
         NEW c \in 1..n, c+1..n \subseteq R
  PROVE  \A k \in c..n : vs[k] = vs[c]
<1>0. /\ n \in Nat /\ times \in [1..n -> Int] /\ \A i, j \in 1..n : i < j => times[i] < times[j]
      /\ R \in SUBSET (2..n)
  BY DEF Increasing, Steady
<1> DEFINE T == { m \in Nat : n - m \in c+1..n => vs[n - m] = vs[n - m - 1] }
<1>1. 0 \in T
  <2>1. n - 0 = n
    BY <1>0
  <2>2. n \in c+1..n => vs[n] = vs[n - 1]
    BY DEF Steady
  <2> QED BY <2>1, <2>2
<1>2. ASSUME NEW m \in Nat, m \in T PROVE m + 1 \in T
  <2> DEFINE i == n - (m + 1)
  <2> SUFFICES ASSUME i \in c+1..n PROVE vs[i] = vs[i - 1]
    OBVIOUS
  <2>1. /\ i \in R /\ i < n /\ i \in 2..n /\ i + 1 = n - m /\ i + 1 \in c+1..n
        /\ i \in 1..n /\ i - 1 \in 1..n /\ i + 1 \in 1..n /\ (i + 1) - 1 = i
    BY <1>0
  <2>2. vs[i + 1] = vs[i]
    <3>1. vs[n - m] = vs[n - m - 1]
      BY <1>2, <2>1
    <3>2. n - m - 1 = i
      BY <1>0
    <3> QED BY <2>1, <3>1, <3>2
  <2> HIDE DEF i
  <2>3. ASSUME NEW j \in DOMAIN vs[i], NEW k \in DOMAIN vs[i][j] PROVE vs[i][j][k] = vs[i - 1][j][k]
    <3> DEFINE x == vs[i][j][k]  y == vs[i - 1][j][k]  z == vs[i + 1][j][k]
               p == times[i] - times[i - 1]  q == times[i + 1] - times[i]
    <3>1. (z - x) * p = (x - y) * q
      BY <2>1 DEF Steady
    <3>2. x \in Int /\ y \in Int /\ z = x
      BY <1>0, <2>1, <2>2, NumberedInt
    <3>3. p \in Int /\ q \in Int /\ q > 0
      <4>1. times[i] \in Int /\ times[i - 1] \in Int /\ times[i + 1] \in Int /\ times[i] < times[i + 1]
        BY <1>0, <2>1
      <4> QED BY <4>1
    <3> HIDE DEF x, y, z, p, q
    <3>4. (x - y) * q = 0
      BY <3>1, <3>2, <3>3
    <3>5. x - y = 0
      BY <3>2, <3>3, <3>4
    <3>6. x = y
      BY <3>2, <3>5
    <3> QED BY <3>6 DEF x, y
  <2>4. /\ vs[i] \in Seq(Seq(Int)) /\ vs[i - 1] \in Seq(Seq(Int)) /\ DOMAIN vs[i - 1] = DOMAIN vs[i]
        /\ \A j \in DOMAIN vs[i] : DOMAIN vs[i - 1][j] = DOMAIN vs[i][j]
    BY <2>1 DEF Even
  <2> DEFINE v == vs[i]  w == vs[i - 1]
  <2>5. \A j \in DOMAIN v : v[j] \in Seq(Int) /\ w[j] \in Seq(Int)
    BY <2>4, ElementOfSeq
  <2>6. \A j \in DOMAIN v : v[j] = w[j]
    <3> SUFFICES ASSUME NEW j \in DOMAIN v PROVE v[j] = w[j]
      OBVIOUS
    <3>1. \A k \in DOMAIN v[j] : v[j][k] = w[j][k]
      BY <2>3
    <3>2. DOMAIN v[j] = DOMAIN w[j]
      BY <2>4
    <3> HIDE DEF v, w
    <3>3. v[j] = [k \in DOMAIN v[j] |-> v[j][k]] /\ w[j] = [k \in DOMAIN w[j] |-> w[j][k]]
      BY <2>5
    <3> QED BY <3>1, <3>2, <3>3
  <2>7. DOMAIN v = DOMAIN w /\ v \in Seq(Seq(Int)) /\ w \in Seq(Seq(Int))
    BY <2>4
  <2> HIDE DEF v, w
  <2>8. v = [j \in DOMAIN v |-> v[j]] /\ w = [j \in DOMAIN w |-> w[j]]
    BY <2>7
  <2>9. v = w
    BY <2>6, <2>7, <2>8
  <2> QED BY <2>9 DEF v, w
<1>3. Nat \subseteq T
  <2> HIDE DEF T
  <2> QED BY <1>1, <1>2, Induct
<1>4. ASSUME NEW k \in c+1..n PROVE vs[k] = vs[k - 1]
  <2>1. n - k \in Nat /\ n - (n - k) = k
    BY <1>0
  <2>2. n - k \in T
    BY <1>3, <2>1
  <2> QED BY <2>1, <2>2
<1>5. c \in Int /\ n \in Int
  BY <1>0
<1> QED BY <1>4, <1>5, AllEqual

\* What two samples interpolate to, number by number.
LEMMA BetweenNumbers ==
  ASSUME NEW v, NEW w, NEW t, NEW u, NEW s, \A j \in DOMAIN v : DOMAIN w[j] = DOMAIN v[j]
  PROVE  /\ DOMAIN Between(v, w, s - t, u - t) = DOMAIN v
         /\ \A j \in DOMAIN v :
              Between(v, w, s - t, u - t)[j] = [k \in DOMAIN v[j] |-> Told(v[j][k], t, w[j][k], u, s)]
<1> DEFINE num == s - t  den == u - t
<1>1. DOMAIN Between(v, w, num, den) = DOMAIN v
  BY DEF Between
<1>2. ASSUME NEW j \in DOMAIN v
      PROVE  Between(v, w, num, den)[j] = [k \in DOMAIN v[j] |-> Told(v[j][k], t, w[j][k], u, s)]
  <2>1. Between(v, w, num, den)[j] = Plus(v[j], Over(Minus(w[j], v[j]), num, den))
    BY DEF Between
  <2>2. \A k \in DOMAIN w[j] : Over(Minus(w[j], v[j]), num, den)[k] = ((w[j][k] - v[j][k]) * num) \div den
    BY DEF Minus, Over
  <2> QED BY <2>1, <2>2 DEF Plus, Told
<1> QED BY <1>1, <1>2

\* Two values that are told to be the same, number by number, are.
LEMMA BetweenSame ==
  ASSUME NEW v, NEW w, NEW t, NEW u, NEW s, \A j \in DOMAIN v : DOMAIN w[j] = DOMAIN v[j],
         NEW f, NEW g, NEW p, NEW q, \A j \in DOMAIN f : DOMAIN g[j] = DOMAIN f[j],
         DOMAIN f = DOMAIN v, \A j \in DOMAIN v : DOMAIN f[j] = DOMAIN v[j],
         \A j \in DOMAIN v : \A k \in DOMAIN v[j] :
           Told(v[j][k], t, w[j][k], u, s) = Told(f[j][k], p, g[j][k], q, s)
  PROVE  Between(v, w, s - t, u - t) = Between(f, g, s - p, q - p)
<1> DEFINE A == Between(v, w, s - t, u - t)  B == Between(f, g, s - p, q - p)
           Av(j) == [k \in DOMAIN v[j] |-> Told(v[j][k], t, w[j][k], u, s)]
           Bv(j) == [k \in DOMAIN f[j] |-> Told(f[j][k], p, g[j][k], q, s)]
<1>1. DOMAIN A = DOMAIN v /\ \A j \in DOMAIN v : A[j] = Av(j)
  BY BetweenNumbers
<1>2. DOMAIN B = DOMAIN f /\ \A j \in DOMAIN f : B[j] = Bv(j)
  BY BetweenNumbers
<1>3. ASSUME NEW j \in DOMAIN v PROVE Av(j) = Bv(j)
  OBVIOUS
<1>4. A = [j \in DOMAIN A |-> A[j]] /\ B = [j \in DOMAIN B |-> B[j]]
  BY DEF Between
<1> HIDE DEF A, B, Av, Bv
<1>5. A = B
  BY <1>1, <1>2, <1>3, <1>4
<1> QED BY <1>5 DEF A, B

\* A value f that is told, number by number.
ToldAs(f, v, t, w, u, s) ==
  /\ f \in Seq(Seq(Int)) /\ DOMAIN f = DOMAIN v
  /\ \A j \in DOMAIN v : /\ DOMAIN f[j] = DOMAIN v[j] /\ DOMAIN w[j] = DOMAIN v[j]
                         /\ \A k \in DOMAIN v[j] : f[j][k] = Told(v[j][k], t, w[j][k], u, s)

\* What Between tells is such a value.
LEMMA BetweenIs ==
  ASSUME NEW v, NEW w, NEW t, NEW u, NEW s, NEW f, ToldAs(f, v, t, w, u, s)
  PROVE  Between(v, w, s - t, u - t) = f
<1> USE DEF ToldAs
<1> DEFINE A == Between(v, w, s - t, u - t)
           Av(j) == [k \in DOMAIN v[j] |-> Told(v[j][k], t, w[j][k], u, s)]
<1>1. DOMAIN A = DOMAIN v /\ \A j \in DOMAIN v : A[j] = Av(j)
  BY BetweenNumbers
<1>2. ASSUME NEW j \in DOMAIN v PROVE Av(j) = f[j]
  <2>1. f[j] \in Seq(Int)
    BY ElementOfSeq
  <2>2. f[j] = [k \in DOMAIN f[j] |-> f[j][k]]
    BY <2>1
  <2> QED BY <2>2
<1>3. A = [j \in DOMAIN A |-> A[j]]
  BY DEF Between
<1>4. f = [j \in DOMAIN f |-> f[j]]
  OBVIOUS
<1> HIDE DEF A, Av
<1>5. A = f
  BY <1>1, <1>2, <1>3, <1>4
<1> QED BY <1>5 DEF A

\* Without steady samples, the same value is found at every time.
LEMMA SteadyUnseen ==
  ASSUME NEW n, NEW times, Increasing(n, times), NEW vs, Even(n, vs), NEW R, Steady(n, times, vs, R),
         NEW t \in Int,
         NEW a \in 1..n, NEW b \in 1..n, Bracket(times, 1..n, t, a, b),
         NEW c \in (1..n) \ R, NEW d \in (1..n) \ R, Bracket(times, (1..n) \ R, t, c, d),
         NEW samples, \A i \in 1..n : vs[i] = samples[times[i]], NEW type, Interpolated(type)
  PROVE  Within(samples, type, times[a], times[b], t) = Within(samples, type, times[c], times[d], t)
<1>0. /\ n \in Nat /\ times \in [1..n -> Int] /\ \A i, j \in 1..n : i < j => times[i] < times[j]
      /\ R \in SUBSET (2..n)
  BY DEF Increasing, Steady
<1>1. \/ a = c /\ b = d
      \/ c = d /\ c <= a /\ a <= b /\ c+1..n \subseteq R
      \/ /\ c < d /\ c <= a /\ a <= b /\ b <= d /\ c+1..d-1 \subseteq R
         /\ a = b => times[a] = t
  <2>1. Surround(n, times, R, t, a, b, c, d)
    BY <1>0, Brackets
  <2> QED BY <2>1 DEF Surround
<1>2. \A i \in {a, b, c, d} : /\ i \in 1..n /\ times[i] \in Int /\ samples[times[i]] = vs[i]
                              /\ vs[i] \in Seq(Seq(Int)) /\ vs[i] # Block
  BY <1>0 DEF Even
<1>3. CASE a = c /\ b = d
  BY <1>3
<1>4. CASE c = d /\ c <= a /\ a <= b /\ c+1..n \subseteq R
  <2>1. \A k \in c..n : vs[k] = vs[c]
    BY <1>4, SteadyEnd
  <2>2. vs[a] = vs[c] /\ vs[b] = vs[c]
    BY <1>4, <2>1
  <2>3. times[a] = times[b] \/ times[a] < times[b]
    BY <1>0, <1>4
  <2>4. ASSUME NEW lo \in {times[a], times[c]}, NEW hi \in {times[b], times[d]}, lo = hi \/ lo < hi
        PROVE  Within(samples, type, lo, hi, t) = vs[c]
    <3>1. samples[lo] = vs[c] /\ samples[hi] = vs[c] /\ lo \in Int /\ hi \in Int
      BY <1>2, <1>4, <2>2
    <3>2. samples[lo] \in {Block} \cup Seq(Seq(Int)) /\ samples[lo] # Block
      BY <1>2, <3>1
    <3>3. Within(samples, type, lo, hi, t) = samples[lo]
      BY <2>4, <3>1, <3>2, WithinEqual
    <3> QED BY <3>1, <3>3
  <2>5. Within(samples, type, times[a], times[b], t) = vs[c]
    BY <2>3, <2>4
  <2>6. Within(samples, type, times[c], times[d], t) = vs[c]
    BY <1>4, <2>4
  <2> QED BY <2>5, <2>6
<1>5. CASE /\ c < d /\ c <= a /\ a <= b /\ b <= d /\ c+1..d-1 \subseteq R
           /\ a = b => times[a] = t
  <2>1. times[c] < times[d] /\ (a < b => times[a] < times[b])
    BY <1>0, <1>5
  <2>2. Within(samples, type, times[c], times[d], t)
          = Between(vs[c], vs[d], t - times[c], times[d] - times[c])
    <3>1. times[c] # times[d]
      BY <1>2, <2>1
    <3> QED BY <1>2, <3>1 DEF Within
  <2>3. ASSUME NEW h \in 1..n, NEW i \in 1..n
        PROVE  DOMAIN vs[i] = DOMAIN vs[h] /\ \A j \in DOMAIN vs[h] : DOMAIN vs[i][j] = DOMAIN vs[h][j]
    BY DEF Even
  <2>4. ASSUME NEW j \in DOMAIN vs[c], NEW k \in DOMAIN vs[c][j], NEW i \in c..d
        PROVE  /\ i \in 1..n
               /\ vs[i][j][k] \in Int /\ vs[c][j][k] \in Int /\ vs[d][j][k] \in Int
               /\ OnLine(vs[i][j][k], times[i], vs[c][j][k], times[c], vs[d][j][k], times[d])
    <3> DEFINE x == Numbered(n, vs, j, k)
    <3>1. x \in [1..n -> Int] /\ \A l \in 1..n : x[l] = vs[l][j][k]
      <4>1. c \in 1..n /\ n \in Nat
        BY <1>0
      <4> HIDE DEF x
      <4> QED BY <4>1, NumberedInt DEF x
    <3>2. Straight(times, x, c, d)
      <4> SUFFICES ASSUME NEW l \in c+1..d-1
                   PROVE  (x[l + 1] - x[l]) * (times[l] - times[l - 1])
                            = (x[l] - x[l - 1]) * (times[l + 1] - times[l])
        BY DEF Straight
      <4>1. l \in R /\ l < n /\ l \in 1..n /\ l + 1 \in 1..n /\ l - 1 \in 1..n
        BY <1>0, <1>5
      <4>2. j \in DOMAIN vs[l] /\ k \in DOMAIN vs[l][j]
        BY <2>3, <4>1
      <4>3. (vs[l + 1][j][k] - vs[l][j][k]) * (times[l] - times[l - 1])
              = (vs[l][j][k] - vs[l - 1][j][k]) * (times[l + 1] - times[l])
        BY <4>1, <4>2 DEF Steady
      <4>4. x[l + 1] = vs[l + 1][j][k] /\ x[l] = vs[l][j][k] /\ x[l - 1] = vs[l - 1][j][k]
        BY <3>1, <4>1
      <4> HIDE DEF x
      <4> QED BY <4>3, <4>4
    <3> HIDE DEF x
    <3>3. \A l \in c..d : OnLine(x[l], times[l], x[c], times[c], x[d], times[d])
      BY <1>5, <3>1, <3>2, StraightOnLine
    <3>4. i \in 1..n /\ c \in 1..n /\ d \in 1..n
      BY <1>0
    <3>5. x[i] = vs[i][j][k] /\ x[c] = vs[c][j][k] /\ x[d] = vs[d][j][k]
      BY <3>1, <3>4
    <3>6. x[i] \in Int /\ x[c] \in Int /\ x[d] \in Int
      BY <3>1, <3>4
    <3> QED BY <3>3, <3>4, <3>5, <3>6
  <2>5. a \in c..d /\ b \in c..d
    BY <1>5
  <2>6. CASE a = b
    <3>1. Within(samples, type, times[a], times[b], t) = vs[a]
      BY <1>2, <2>6 DEF Within
    <3>2. ASSUME NEW j \in DOMAIN vs[c], NEW k \in DOMAIN vs[c][j]
          PROVE  vs[a][j][k] = Told(vs[c][j][k], times[c], vs[d][j][k], times[d], t)
      <4> DEFINE xa == vs[a][j][k]  xc == vs[c][j][k]  xd == vs[d][j][k]
                 tc == times[c]  td == times[d]
      <4>1. xa \in Int /\ xc \in Int /\ xd \in Int /\ OnLine(xa, t, xc, tc, xd, td)
        BY <1>5, <2>4, <2>5, <2>6
      <4>2. tc \in Int /\ td \in Int /\ tc < td
        BY <1>2, <2>1
      <4> HIDE DEF xa, xc, xd, tc, td
      <4>3. xa = Told(xc, tc, xd, td, t)
        BY <4>1, <4>2, LineAt, SMTT(40)
      <4> QED BY <4>3 DEF xa, xc, xd, tc, td
    <3>3. Between(vs[c], vs[d], t - times[c], times[d] - times[c]) = vs[a]
      <4> DEFINE v == vs[c]  w == vs[d]  f == vs[a]  p == times[c]  u == times[d]
      <4>1. /\ \A j \in DOMAIN v : DOMAIN w[j] = DOMAIN v[j]
            /\ f \in Seq(Seq(Int)) /\ DOMAIN f = DOMAIN v /\ \A j \in DOMAIN v : DOMAIN f[j] = DOMAIN v[j]
        BY <1>2, <2>3
      <4>2. \A j \in DOMAIN v : \A k \in DOMAIN v[j] :
              f[j][k] = Told(v[j][k], p, w[j][k], u, t)
        BY <3>2
      <4> HIDE DEF v, w, f, p, u
      <4>3. Between(v, w, t - p, u - p) = f
        <5>1. ToldAs(f, v, p, w, u, t)
          BY <4>1, <4>2 DEF ToldAs
        <5> QED BY <5>1, BetweenIs
      <4> QED BY <4>3 DEF v, w, f, p, u
    <3> QED BY <2>2, <3>1, <3>3
  <2>7. CASE a # b
    <3>1. times[a] < times[b] /\ times[a] # times[b]
      BY <1>2, <1>5, <2>1, <2>7
    <3>2. Within(samples, type, times[a], times[b], t)
            = Between(vs[a], vs[b], t - times[a], times[b] - times[a])
      BY <1>2, <3>1 DEF Within
    <3>3. ASSUME NEW j \in DOMAIN vs[a], NEW k \in DOMAIN vs[a][j]
          PROVE  Told(vs[a][j][k], times[a], vs[b][j][k], times[b], t)
                   = Told(vs[c][j][k], times[c], vs[d][j][k], times[d], t)
      <4> DEFINE xa == vs[a][j][k]  xb == vs[b][j][k]  xc == vs[c][j][k]  xd == vs[d][j][k]
                 ta == times[a]  tb == times[b]  tc == times[c]  td == times[d]
      <4>1. j \in DOMAIN vs[c] /\ k \in DOMAIN vs[c][j]
        BY <2>3
      <4>2. /\ xa \in Int /\ xb \in Int /\ xc \in Int /\ xd \in Int
            /\ OnLine(xa, ta, xc, tc, xd, td) /\ OnLine(xb, tb, xc, tc, xd, td)
        BY <2>4, <2>5, <4>1
      <4>3. ta \in Int /\ tb \in Int /\ tc \in Int /\ td \in Int /\ ta < tb /\ tc < td
        BY <1>2, <2>1, <3>1
      <4> HIDE DEF xa, xb, xc, xd, ta, tb, tc, td
      <4>4. Told(xa, ta, xb, tb, t) = Told(xc, tc, xd, td, t)
        BY <4>2, <4>3, SameLine, SMTT(40)
      <4> QED BY <4>4 DEF xa, xb, xc, xd, ta, tb, tc, td
    <3>4. Between(vs[a], vs[b], t - times[a], times[b] - times[a])
            = Between(vs[c], vs[d], t - times[c], times[d] - times[c])
      <4> DEFINE v == vs[a]  w == vs[b]  f == vs[c]  g == vs[d]
                 u == times[a]  y == times[b]  p == times[c]  q == times[d]
      <4>1. /\ \A j \in DOMAIN v : DOMAIN w[j] = DOMAIN v[j]
            /\ \A j \in DOMAIN f : DOMAIN g[j] = DOMAIN f[j]
            /\ DOMAIN f = DOMAIN v /\ \A j \in DOMAIN v : DOMAIN f[j] = DOMAIN v[j]
        BY <2>3
      <4>2. \A j \in DOMAIN v : \A k \in DOMAIN v[j] :
              Told(v[j][k], u, w[j][k], y, t) = Told(f[j][k], p, g[j][k], q, t)
        BY <3>3
      <4> HIDE DEF v, w, f, g, u, y, p, q
      <4>3. Between(v, w, t - u, y - u) = Between(f, g, t - p, q - p)
        BY <4>1, <4>2, BetweenSame
      <4> QED BY <4>3 DEF v, w, f, g, u, y, p, q
    <3> QED BY <2>2, <3>2, <3>4
  <2> QED BY <2>6, <2>7
<1> QED BY <1>1, <1>3, <1>4, <1>5

\* Steady samples tell nothing either.
LEMMA SteadyOptimized ==
  ASSUME NEW attr, StoredAttr(attr), Shaped(attr), Interpolated(attr.type), attr.samples # << >>,
         NEW n, n # 0, NEW times, NEW vs, Placed(attr, n, times, vs), NEW R, Steady(n, times, vs, R),
         NEW t \in Int, t # None
  PROVE  ValueAt(Optimized(attr, TimesAt(times, R)), t) = ValueAt(attr, t)
<1> DEFINE W(i, j) == Within(attr.samples, attr.type, times[i], times[j], t)
<1>1. /\ n \in Nat /\ times \in [1..n -> DOMAIN attr.samples]
      /\ Increasing(n, times) /\ \A i \in 1..n : vs[i] = attr.samples[times[i]]
      /\ R \in SUBSET (2..n)
  BY PlacedValues DEF Steady
<1>2. Even(n, vs)
  <2>1. \A i \in 1..n : times[i] \in DOMAIN attr.samples
    BY <1>1
  <2> QED BY <1>1, <2>1, AttributesAssumption DEF Even, Shaped
<1>a. PICK a, b, c, d : TellAt(attr, n, times, R, t, a, b, c, d)
  BY <1>1, OptimizedTells
<1>3. /\ a \in 1..n /\ b \in 1..n /\ c \in (1..n) \ R /\ d \in (1..n) \ R
      /\ Bracket(times, 1..n, t, a, b) /\ Bracket(times, (1..n) \ R, t, c, d)
      /\ ValueAt(attr, t) = W(a, b)
      /\ ValueAt(Optimized(attr, TimesAt(times, R)), t) = W(c, d)
  BY <1>a DEF TellAt
<1>4. W(a, b) = W(c, d)
  BY <1>1, <1>2, <1>3, SteadyUnseen
<1> HIDE DEF W
<1> QED BY <1>3, <1>4

\* An attribute that is interpolated has samples of one shape, as interpolating asks of them.
Uniform(attr) == attr.type \in LinearTypes \ QuatTypes => Shaped(attr)

\* Removing interpolated samples leaves the value of an attribute what it is at every time, the
\* numbers rounded as they were (processAttribute with filterInterpolated): a sample that goes
\* is on a line with those before and after it, and so is what is left.
THEOREM InterpolatedUnseen ==
  ASSUME NEW attr, StoredAttr(attr), Numbers(attr), Removable(attr), Uniform(attr), NEW t \in Int, t # None
  PROVE  ValueAt(processAttribute(attr, TRUE), t) = ValueAt(attr, t)
<1>1. CASE attr.type \notin LinearTypes \ QuatTypes
  <2>1. \A times, vs : Redundant(attr.type, times, vs, TRUE) = Redundant(attr.type, times, vs, FALSE)
    BY <1>1 DEF Redundant, isHeldType
  <2>2. filterTimeSamples(attr, TRUE) = filterTimeSamples(attr, FALSE)
    BY <2>1 DEF filterTimeSamples
  <2>3. processAttribute(attr, TRUE) = processAttribute(attr, FALSE)
    BY <2>2 DEF processAttribute
  <2> QED BY <2>3, DuplicatesUnseen
<1>2. CASE attr.samples = << >>
  BY <1>2 DEF processAttribute
<1>3. CASE attr.type \in LinearTypes \ QuatTypes /\ attr.samples # << >>
  <2>1. PICK n, times, vs : Placed(attr, n, times, vs)
    BY DEF Placed
  <2>2. n = Cardinality(DOMAIN attr.samples)
    BY <2>1 DEF Placed
  <2>3. n \in Nat /\ n # 0
    <3> SUFFICES ASSUME n = 0 PROVE FALSE
      BY <2>1, PlacedValues
    <3>1. DOMAIN attr.samples = {}
      BY <2>2, FS_EmptySet DEF StoredAttr
    <3>2. attr.samples \in [{} -> {Block} \cup Seq(Seq(Int))]
      BY <3>1 DEF Numbers
    <3>3. attr.samples = << >>
      BY <3>2
    <3> QED BY <1>3, <3>3
  <2>4. Shaped(attr) /\ Interpolated(attr.type) /\ ~isHeldType(attr.type)
    BY <1>3 DEF Uniform, Interpolated, LinearTypes, isHeldType
  <2>5. CASE n = 1
    <3>1. processAttribute(attr, TRUE) = Optimized(attr, {})
      BY <1>3, <2>2, <2>5 DEF processAttribute
    <3>2. TimesAt(times, {}) = {} /\ Steady(n, times, vs, {})
      BY DEF TimesAt, Steady
    <3>3. ValueAt(Optimized(attr, TimesAt(times, {})), t) = ValueAt(attr, t)
      BY <1>3, <2>1, <2>3, <2>4, <3>2, SteadyOptimized
    <3> QED BY <3>1, <3>2, <3>3
  <2>6. CASE n # 1
    <3> DEFINE R == filterInterpolated(times, vs)
    <3>1. processAttribute(attr, TRUE) = Optimized(attr, filterTimeSamples(attr, TRUE))
      BY <1>3, <2>2, <2>6 DEF processAttribute
    <3>2. /\ n > 1 /\ Increasing(n, times) /\ DOMAIN vs = 1..n /\ Len(vs) = n
          /\ times \in [1..n -> DOMAIN attr.samples] /\ \A i \in 1..n : vs[i] = attr.samples[times[i]]
      <4>1. n > 1
        BY <2>3, <2>6
      <4> QED BY <2>1, <4>1, PlacedValues
    <3>3. Even(n, vs)
      <4>1. \A i \in 1..n : times[i] \in DOMAIN attr.samples
        BY <3>2
      <4> QED BY <2>4, <3>2, <4>1, AttributesAssumption DEF Even, Shaped
    <3>4. Steady(n, times, vs, R)
      BY <2>3, <3>2, <3>3, FilteredSteady
    <3>5. filterTimeSamples(attr, TRUE) = TimesAt(times, R)
      <4>1. Redundant(attr.type, times, vs, TRUE) = R
        BY <1>3, <2>4 DEF Redundant
      <4> HIDE DEF R
      <4> QED BY <2>1, <4>1 DEF filterTimeSamples, Placed, TimesAt
    <3> HIDE DEF R
    <3>6. ValueAt(Optimized(attr, TimesAt(times, R)), t) = ValueAt(attr, t)
      BY <1>3, <2>1, <2>3, <2>4, <3>4, SteadyOptimized
    <3> QED BY <3>1, <3>5, <3>6
  <2> QED BY <2>5, <2>6
<1> QED BY <1>1, <1>2, <1>3

\* Every such attribute whose samples have one shape, if it is interpolated.
KeepsShapedValues ==
  \A p \in DOMAIN stage.prims : \A n \in DOMAIN stage.prims[p].attrs : \A t \in Int \ {None} :
    Numbers(stage.prims[p].attrs[n]) /\ Uniform(stage.prims[p].attrs[n])
      => Get(stage'.prims[p], n, t) = Get(stage.prims[p], n, t)

\* Removing interpolated samples leaves every value what it is, at every time: in the steps of
\* OptimizeTimeSamples::execute with the interpolated ones, for any samples of one shape, where
\* every attribute is Removable.
THEOREM InterpolatedKeepValues == Spec => [][last' = "interpolated" => KeepsShapedValues]_vars
<1>1. Stored(stage) /\ [Next]_vars => [last' = "interpolated" => KeepsShapedValues]_vars
  <2> SUFFICES ASSUME Stored(stage), Next, last' = "interpolated" PROVE KeepsShapedValues
    OBVIOUS
  <2>1. RemoveInterpolated
    BY DEF Next, ChangeUnits, RemoveDuplicates, CentrePivots, BoundMeshes, Step
  <2> SUFFICES ASSUME NEW p \in DOMAIN stage.prims, NEW n \in DOMAIN stage.prims[p].attrs,
                      NEW t \in Int, t # None, Numbers(stage.prims[p].attrs[n]),
                      Uniform(stage.prims[p].attrs[n])
               PROVE  Get(stage'.prims[p], n, t) = Get(stage.prims[p], n, t)
    BY DEF KeepsShapedValues
  <2> DEFINE prim == stage.prims[p]
             new == stage'.prims[p]
             attr == prim.attrs[n]
  <2>2. new = IF p \in Resolved(stage) THEN OptimizedPrim(prim, TRUE) ELSE prim
    BY <2>1 DEF RemoveInterpolated, OptimizeTimeSamples, Stored
  <2>3. StoredPrim(prim)
    BY DEF Stored
  <2>4. p \in Resolved(stage) => Removable(attr)
    BY <2>1 DEF RemoveInterpolated, AllRemovable
  <2> HIDE DEF new, prim
  <2>5. StoredAttr(attr) /\ Numbers(attr) /\ Uniform(attr) /\ n \in DOMAIN prim.attrs
    BY <2>3 DEF StoredPrim, prim
  <2>6. CASE p \notin Resolved(stage)
    BY <2>2, <2>6 DEF new, prim
  <2>7. CASE p \in Resolved(stage)
    <3>1. new.attrs = [m \in DOMAIN prim.attrs |-> processAttribute(prim.attrs[m], TRUE)]
      BY <2>2, <2>3, <2>7 DEF OptimizedPrim, StoredPrim
    <3>2. n \in DOMAIN new.attrs /\ new.attrs[n] = processAttribute(attr, TRUE)
      BY <2>5, <3>1
    <3>3. ValueAt(processAttribute(attr, TRUE), t) = ValueAt(attr, t)
      BY <2>4, <2>5, <2>7, InterpolatedUnseen
    <3>4. Get(new, n, t) = Get(prim, n, t)
      BY <2>5, <3>2, <3>3 DEF Get, Has
    <3> QED BY <3>4 DEF new, prim
  <2> QED BY <2>6, <2>7
<1> QED BY <1>1, StageStored, PTL DEF Spec

-----------------------------------------------------------------------------
(* What a stage shows does not change *)

\* Of some places, the last is one of them.
LEMMA MaxOfPlaces ==
  ASSUME NEW n \in Nat, NEW x \in SUBSET (1..n), x # {}
  PROVE  Max(x) \in 1..n
<1>1. IsFiniteSet(1..n) /\ 1..n \subseteq Int
  BY FS_Interval
<1>2. IsFiniteSet(x)
  BY <1>1, FS_Subset
<1>3. \E u \in x : \A v \in x : v <= u
  BY <1>1, <1>2, Latest
<1>4. \E u \in x : \A v \in x : u >= v
  BY <1>1, <1>3
<1> QED BY <1>4 DEF Max

\* LocalTransformation folds the ops of a prim: each set of places to the product of its ops.
OpsStep(order, prim, t, g) ==
  [s \in SUBSET DOMAIN order |->
     IF s = {} THEN Identity
     ELSE AffineTimes(EntryMatrix(prim, order[Max(s)], t), g[s \ {Max(s)}])]
OpsFold(order, prim, t) == CHOOSE g : g = OpsStep(order, prim, t, g)

\* Prims with the same ops, and the same matrix of each, have the same local transformation.
LEMMA LocalSame ==
  ASSUME NEW prim, NEW new, NEW t, new.type = prim.type, new.order = prim.order,
         \A x \in SUBSET DOMAIN prim.order : x # {} =>
            EntryMatrix(new, prim.order[Max(x)], t) = EntryMatrix(prim, prim.order[Max(x)], t)
  PROVE  LocalTransformation(new, t) = LocalTransformation(prim, t)
<1>1. ASSUME NEW any
      PROVE  LocalTransformation(any, t)
               = IF IsXformable(any) THEN OpsFold(any.order, any, t)[DOMAIN any.order] ELSE Identity
  BY DEF LocalTransformation, FoldLeft, MapThenFoldSet, OpsFold, OpsStep
<1>2. OpsFold(new.order, new, t) = OpsFold(prim.order, prim, t)
  <2> DEFINE order == prim.order
  <2>1. \A x \in SUBSET DOMAIN order : x # {} =>
          EntryMatrix(new, order[Max(x)], t) = EntryMatrix(prim, order[Max(x)], t)
    OBVIOUS
  <2> HIDE DEF order
  <2>2. \A g : OpsStep(order, new, t, g) = OpsStep(order, prim, t, g)
    BY <2>1 DEF OpsStep
  <2>3. OpsFold(order, new, t) = OpsFold(order, prim, t)
    BY <2>2 DEF OpsFold
  <2> QED BY <2>3 DEF order
<1>3. IsXformable(new) <=> IsXformable(prim)
  BY DEF IsXformable, IsBoundable, IsLight
<1> QED BY <1>1, <1>2, <1>3

\* World folds the prims on a path in the same way.
WorldStep(above, t, g) ==
  [s \in SUBSET DOMAIN above |->
     IF s = {} THEN Identity ELSE Below(g[s \ {Max(s)}], above[Max(s)], t)]
WorldFold(above, t) == CHOOSE g : g = WorldStep(above, t, g)

\* Stages where each prim on a path has the same local transformation, and resets as before,
\* have the same transform at the end of the path.
LEMMA WorldSame ==
  ASSUME NEW s, NEW r, NEW p, NEW t, Len(p) \in Nat,
         \A i \in 1..Len(p) : LET q == SubSeq(p, 1, i) IN
            LocalTransformation(r.prims[q], t) = LocalTransformation(s.prims[q], t)
              /\ r.prims[q].reset = s.prims[q].reset
  PROVE  World(r, p, t) = World(s, p, t)
<1> DEFINE A == Ancestry(s, p)  B == Ancestry(r, p)
<1>1. ASSUME NEW any
      PROVE  World(any, p, t) = WorldFold(Ancestry(any, p), t)[DOMAIN Ancestry(any, p)]
  BY DEF World, FoldLeft, MapThenFoldSet, WorldFold, WorldStep
<1>2. DOMAIN A = 1..Len(p) /\ DOMAIN B = 1..Len(p)
  BY DEF Ancestry
<1>3. ASSUME NEW i \in 1..Len(p), NEW m PROVE Below(m, B[i], t) = Below(m, A[i], t)
  BY <1>3 DEF Below, Ancestry
<1>4. ASSUME NEW x \in SUBSET (1..Len(p)), x # {} PROVE Max(x) \in 1..Len(p)
  BY <1>4, MaxOfPlaces
<1> HIDE DEF A, B
<1>5. ASSUME NEW x \in SUBSET (1..Len(p)), NEW g
      PROVE  (IF x = {} THEN Identity ELSE Below(g[x \ {Max(x)}], B[Max(x)], t))
               = IF x = {} THEN Identity ELSE Below(g[x \ {Max(x)}], A[Max(x)], t)
  BY <1>3, <1>4
<1>6. WorldFold(B, t) = WorldFold(A, t)
  <2>1. \A g : WorldStep(B, t, g) = WorldStep(A, t, g)
    BY <1>2, <1>5 DEF WorldStep
  <2> QED BY <2>1 DEF WorldFold
<1> QED BY <1>1, <1>2, <1>6 DEF A, B

\* A prim whose values are those of another, but for its extent.
Alike(prim, new) ==
  /\ new.type = prim.type /\ new.spec = prim.spec /\ new.apis = prim.apis
  /\ new.reset = prim.reset /\ new.order = prim.order
  /\ \A n : n # Extent =>
       /\ Has(new, n) <=> Has(prim, n)
       /\ \A t \in Times : Get(new, n, t) = Get(prim, n, t)

\* What such a prim shows is the same.
LEMMA AlikeShown ==
  ASSUME NEW s, NEW r, NEW p, Alike(s.prims[p], r.prims[p]),
         r.metersPerUnit = s.metersPerUnit, r.upAxis = s.upAxis, NEW m, NEW t \in Times
  PROVE  ShownPrim(r, p, m, t) = ShownPrim(s, p, m, t)
<1> DEFINE prim == s.prims[p]  new == r.prims[p]
<1>1. /\ new.type = prim.type /\ new.apis = prim.apis
      /\ \A n : n # Extent =>
           /\ Has(new, n) <=> Has(prim, n)
           /\ Get(new, n, t) = Get(prim, n, t)
  BY DEF Alike
<1>2. Upright(r) = Upright(s) /\ \A v : Metres(r, v) = Metres(s, v)
  BY DEF Upright, Metres
<1>3. \A name : name # "extent" => <<name>> # Extent
  BY DEF Extent
<1> HIDE DEF prim, new
<1>4. \A name : name # "extent" =>
         Rows(new, name, t) = Rows(prim, name, t) /\ Length(new, name, t) = Length(prim, name, t)
  BY <1>1, <1>3 DEF Rows, Length
<1> DEFINE Same(name) == Rows(new, name, t) = Rows(prim, name, t)
           SameLength(name) == Length(new, name, t) = Length(prim, name, t)
<1>a. /\ Same("points") /\ Same("widths") /\ Same("positions") /\ Same("translations")
      /\ Same("centerOfInterest") /\ Same("normals") /\ Same("velocities") /\ Same("velocity")
      /\ Same("angularVelocity")
      /\ SameLength("size") /\ SameLength("radius") /\ SameLength("height") /\ SameLength("width")
  BY <1>4
<1>b. /\ Get(new, <<"clippingRange">>, t) = Get(prim, <<"clippingRange">>, t)
      /\ Get(new, <<"orientations">>, t) = Get(prim, <<"orientations">>, t)
      /\ Get(new, Density, t) = Get(prim, Density, t)
  BY <1>1, <1>3 DEF Density
<1>5. LocalPoints(new, t) = LocalPoints(prim, t)
  BY <1>1, <1>a, <1>b DEF LocalPoints
<1>6. Places(r, p, m, t) = Places(s, p, m, t)
  BY <1>2, <1>5 DEF Places, prim, new
<1>7. Directions(r, p, m, t) = Directions(s, p, m, t)
  BY <1>2, <1>a DEF Directions, prim, new
<1>8. Turns(r, p, m, t) = Turns(s, p, m, t)
  BY <1>2, <1>b DEF Turns, prim, new
<1>9. \A axis, e : LimitName(axis, e) # Extent
  BY DEF LimitName, Extent
<1>10. \A axis : LimitAt(r, new, axis, t) = LimitAt(s, prim, axis, t)
  BY <1>1, <1>9 DEF LimitAt
<1>11. Limits(r, new, t) = Limits(s, prim, t)
  BY <1>1, <1>10 DEF Limits, Limited, Upward
<1>12. Mass(new, t) = Mass(prim, t)
  BY <1>1, <1>a, <1>b DEF Mass
<1> QED BY <1>6, <1>7, <1>8, <1>11, <1>12 DEF ShownPrim, prim, new

\* A prim whose transform order tells of ops.
OpsOnly(prim) ==
  LET order == prim.order
  IN  /\ Len(order) \in Nat /\ DOMAIN order = 1..Len(order)
      /\ \A i \in DOMAIN order : IsXformOp(order[i].op)

\* Its extent does not matter to where it is.
LEMMA AlikeLocal ==
  ASSUME NEW prim, NEW new, Alike(prim, new), OpsOnly(prim), NEW t \in Times
  PROVE  LocalTransformation(new, t) = LocalTransformation(prim, t)
<1>1. new.type = prim.type /\ new.order = prim.order
  BY DEF Alike
<1>2. ASSUME NEW x \in SUBSET DOMAIN prim.order, x # {}
      PROVE  EntryMatrix(new, prim.order[Max(x)], t) = EntryMatrix(prim, prim.order[Max(x)], t)
  <2> DEFINE n == Len(prim.order)  e == prim.order[Max(x)]
  <2>1. n \in Nat /\ x \in SUBSET (1..n) /\ DOMAIN prim.order = 1..n
    BY DEF OpsOnly
  <2> HIDE DEF n
  <2>2. Max(x) \in DOMAIN prim.order
    BY <1>2, <2>1, MaxOfPlaces
  <2>3. IsXformOp(e.op)
    BY <2>2 DEF OpsOnly
  <2>4. e.op # Extent
    BY <2>3 DEF IsXformOp, Extent
  <2>5. Get(new, e.op, t) = Get(prim, e.op, t)
    BY <2>4 DEF Alike
  <2> QED BY <2>5 DEF EntryMatrix
<1> QED BY <1>1, <1>2, LocalSame

\* Stages of prims that are alike, and where they were, show the same.
LEMMA StagesAlike ==
  ASSUME NEW s, NEW r, Rooted(DOMAIN s.prims), DOMAIN r.prims = DOMAIN s.prims,
         r.metersPerUnit = s.metersPerUnit, r.upAxis = s.upAxis,
         \A p \in DOMAIN s.prims : Alike(s.prims[p], r.prims[p]),
         \A p \in DOMAIN s.prims, t \in Times :
           LocalTransformation(r.prims[p], t) = LocalTransformation(s.prims[p], t)
  PROVE  Shown(r) = Shown(s)
<1>1. Drawn(r) = Drawn(s)
  BY DEF Drawn, Alike
<1>2. ASSUME NEW p \in DOMAIN s.prims, NEW t \in Times PROVE World(r, p, t) = World(s, p, t)
  <2>1. Len(p) \in Nat
    BY LenProperties DEF Rooted
  <2>2. ASSUME NEW i \in 1..Len(p)
        PROVE  LET q == SubSeq(p, 1, i) IN
                 LocalTransformation(r.prims[q], t) = LocalTransformation(s.prims[q], t)
                   /\ r.prims[q].reset = s.prims[q].reset
    <3> DEFINE q == SubSeq(p, 1, i)
    <3>1. q \in DOMAIN s.prims
      BY DEF Rooted
    <3> HIDE DEF q
    <3>2. LocalTransformation(r.prims[q], t) = LocalTransformation(s.prims[q], t)
            /\ r.prims[q].reset = s.prims[q].reset
      BY <3>1 DEF Alike
    <3> QED BY <3>2 DEF q
  <2> QED BY <2>1, <2>2, WorldSame
<1>3. ASSUME NEW p \in DOMAIN s.prims, NEW t \in Times
      PROVE  ShownPrim(r, p, World(r, p, t), t) = ShownPrim(s, p, World(s, p, t), t)
  BY <1>2, AlikeShown
<1>4. Drawn(s) \subseteq DOMAIN s.prims
  BY DEF Drawn
<1> QED BY <1>1, <1>3, <1>4 DEF Shown

\* Samples that are values, as what the layers store is.
Valued(attr) == Numbers(attr) /\ Uniform(attr)

\* A prim whose samples have been removed has the same values,
LEMMA OptimizedSame ==
  ASSUME NEW prim, StoredPrim(prim), NEW r \in BOOLEAN,
         \A n \in DOMAIN prim.attrs : Valued(prim.attrs[n]) /\ Removable(prim.attrs[n]),
         NEW n, NEW t \in Int, t # None
  PROVE  Get(OptimizedPrim(prim, r), n, t) = Get(prim, n, t)
<1> DEFINE new == OptimizedPrim(prim, r)
<1>1. new.attrs = [m \in DOMAIN prim.attrs |-> processAttribute(prim.attrs[m], r)]
  BY DEF OptimizedPrim, StoredPrim
<1> HIDE DEF new
<1>2. Has(new, n) <=> Has(prim, n)
  BY <1>1 DEF Has
<1>3. CASE ~Has(prim, n)
  BY <1>2, <1>3 DEF Get, new
<1>4. CASE Has(prim, n)
  <2>1. n \in DOMAIN prim.attrs /\ new.attrs[n] = processAttribute(prim.attrs[n], r)
    BY <1>1, <1>4 DEF Has
  <2> DEFINE attr == prim.attrs[n]
  <2>2. StoredAttr(attr) /\ Numbers(attr) /\ Uniform(attr) /\ Removable(attr)
    BY <2>1 DEF StoredPrim, Valued
  <2> HIDE DEF attr
  <2>3. ValueAt(processAttribute(attr, r), t) = ValueAt(attr, t)
    BY <2>2, DuplicatesUnseen, InterpolatedUnseen
  <2> QED BY <1>2, <1>4, <2>1, <2>3 DEF Get, attr, new
<1> QED BY <1>3, <1>4

\* so it is alike.
LEMMA OptimizedAlike ==
  ASSUME NEW prim, StoredPrim(prim), NEW r \in BOOLEAN,
         \A n \in DOMAIN prim.attrs : Valued(prim.attrs[n]) /\ Removable(prim.attrs[n])
  PROVE  /\ Alike(prim, OptimizedPrim(prim, r))
         /\ \A t \in Times :
              LocalTransformation(OptimizedPrim(prim, r), t) = LocalTransformation(prim, t)
<1> DEFINE new == OptimizedPrim(prim, r)
<1>1. /\ new.type = prim.type /\ new.spec = prim.spec /\ new.apis = prim.apis
      /\ new.reset = prim.reset /\ new.order = prim.order
      /\ new.attrs = [n \in DOMAIN prim.attrs |-> processAttribute(prim.attrs[n], r)]
  BY DEF OptimizedPrim, StoredPrim
<1>2. ASSUME NEW n, NEW t \in Times PROVE Get(new, n, t) = Get(prim, n, t)
  <2>1. t \in Int /\ t # None
    BY AttributesAssumption
  <2> QED BY <2>1, OptimizedSame
<1> HIDE DEF new
<1>3. ASSUME NEW n PROVE Has(new, n) <=> Has(prim, n)
  BY <1>1 DEF Has
<1>5. Alike(prim, new)
  BY <1>1, <1>2, <1>3 DEF Alike
<1>6. ASSUME NEW t \in Times PROVE LocalTransformation(new, t) = LocalTransformation(prim, t)
  <2>1. \A e : EntryMatrix(new, e, t) = EntryMatrix(prim, e, t)
    BY <1>2 DEF EntryMatrix
  <2> QED BY <1>1, <2>1, LocalSame
<1> QED BY <1>5, <1>6 DEF new

\* So is one whose extent has been computed,
LEMMA ExtentAlike ==
  ASSUME NEW prim, StoredPrim(prim)
  PROVE  Alike(prim, WithExtent(prim))
<1> DEFINE new == SetAttr(prim, Extent, ComputedExtent(prim))
<1>1. /\ new.type = prim.type /\ new.spec = prim.spec /\ new.apis = prim.apis
      /\ new.reset = prim.reset /\ new.order = prim.order
      /\ new.attrs = [n \in DOMAIN prim.attrs \cup {Extent} |->
                        IF n = Extent THEN ComputedExtent(prim) ELSE prim.attrs[n]]
  BY DEF SetAttr, StoredPrim
<1> HIDE DEF new
<1>2. Alike(prim, new)
  BY <1>1 DEF Alike, Has, Get
<1> QED BY <1>2 DEF WithExtent, new, Alike

\* The samples that may be removed are numbers of one shape for each attribute.
SamplesValued(s) ==
  \A p \in Resolved(s) : \A n \in DOMAIN s.prims[p].attrs : Valued(s.prims[p].attrs[n])

\* A step that only removes samples, or only computes extents.
WritesNoMore ==
  \/ last' \in {"duplicates", "interpolated"} /\ SamplesValued(stage)
  \/ last' = "computeExtents" /\ (\A p \in DOMAIN stage.prims : OpsOnly(stage.prims[p]))

\* Removing samples changes nothing of what a stage shows, whether interpolated ones go too or
\* not (OptimizeTimeSamples::execute); nor does computing extents (_computeExtents).
THEOREM RemovalShows == Spec => [][WritesNoMore => Shown(stage') = Shown(stage)]_vars
<1>1. ASSUME Stored(stage), NEW r \in BOOLEAN, OptimizeTimeSamples(r), AllRemovable, SamplesValued(stage)
      PROVE  Shown(stage') = Shown(stage)
  <2> DEFINE next == stage'
  <2>1. /\ DOMAIN next.prims = DOMAIN stage.prims
        /\ next.metersPerUnit = stage.metersPerUnit /\ next.upAxis = stage.upAxis
        /\ \A p \in DOMAIN stage.prims :
             next.prims[p] = IF p \in Resolved(stage) THEN OptimizedPrim(stage.prims[p], r)
                             ELSE stage.prims[p]
    BY <1>1 DEF OptimizeTimeSamples, Stored
  <2> HIDE DEF next
  <2>2. ASSUME NEW p \in DOMAIN stage.prims
        PROVE  /\ Alike(stage.prims[p], next.prims[p])
               /\ \A t \in Times :
                    LocalTransformation(next.prims[p], t) = LocalTransformation(stage.prims[p], t)
    <3>1. CASE p \notin Resolved(stage)
      BY <2>1, <3>1 DEF Alike
    <3>2. CASE p \in Resolved(stage)
      <4>1. StoredPrim(stage.prims[p])
        BY <1>1 DEF Stored
      <4>2. \A n \in DOMAIN stage.prims[p].attrs :
               Valued(stage.prims[p].attrs[n]) /\ Removable(stage.prims[p].attrs[n])
        BY <1>1, <3>2 DEF SamplesValued, AllRemovable
      <4>3. /\ Alike(stage.prims[p], OptimizedPrim(stage.prims[p], r))
            /\ \A t \in Times : LocalTransformation(OptimizedPrim(stage.prims[p], r), t)
                                  = LocalTransformation(stage.prims[p], t)
        BY <4>1, <4>2, OptimizedAlike
      <4> QED BY <2>1, <3>2, <4>3
    <3> QED BY <3>1, <3>2
  <2>3. Rooted(DOMAIN stage.prims)
    BY <1>1 DEF Stored
  <2>4. Shown(next) = Shown(stage)
    BY <2>1, <2>2, <2>3, StagesAlike
  <2> QED BY <2>4 DEF next
<1>2. ASSUME Stored(stage), ComputeExtents, \A p \in DOMAIN stage.prims : OpsOnly(stage.prims[p])
      PROVE  Shown(stage') = Shown(stage)
  <2> DEFINE next == stage'
  <2>1. /\ DOMAIN next.prims = DOMAIN stage.prims
        /\ next.metersPerUnit = stage.metersPerUnit /\ next.upAxis = stage.upAxis
        /\ \A p \in DOMAIN stage.prims :
             next.prims[p] = IF p \in Resolved(stage) THEN WithExtent(stage.prims[p])
                             ELSE stage.prims[p]
    BY <1>2 DEF ComputeExtents, WithExtents, Stored
  <2> HIDE DEF next
  <2>2. ASSUME NEW p \in DOMAIN stage.prims
        PROVE  /\ Alike(stage.prims[p], next.prims[p])
               /\ \A t \in Times :
                    LocalTransformation(next.prims[p], t) = LocalTransformation(stage.prims[p], t)
    <3>1. StoredPrim(stage.prims[p]) /\ OpsOnly(stage.prims[p])
      BY <1>2 DEF Stored
    <3>2. Alike(stage.prims[p], next.prims[p])
      <4>1. Alike(stage.prims[p], WithExtent(stage.prims[p]))
        BY <3>1, ExtentAlike
      <4> QED BY <2>1, <4>1 DEF Alike
    <3> QED BY <3>1, <3>2, AlikeLocal
  <2>3. Rooted(DOMAIN stage.prims)
    BY <1>2 DEF Stored
  <2>4. Shown(next) = Shown(stage)
    BY <2>1, <2>2, <2>3, StagesAlike
  <2> QED BY <2>4 DEF next
<1>3. Stored(stage) /\ [Next]_vars => [WritesNoMore => Shown(stage') = Shown(stage)]_vars
  <2> SUFFICES ASSUME Stored(stage), Next, WritesNoMore PROVE Shown(stage') = Shown(stage)
    OBVIOUS
  <2>1. CASE RemoveDuplicates
    <3>1. last' = "duplicates" /\ OptimizeTimeSamples(FALSE) /\ AllRemovable
      BY <2>1 DEF RemoveDuplicates, Step
    <3> QED BY <1>1, <3>1 DEF WritesNoMore
  <2>2. CASE RemoveInterpolated
    <3>1. last' = "interpolated" /\ OptimizeTimeSamples(TRUE) /\ AllRemovable
      BY <2>2 DEF RemoveInterpolated, Step
    <3> QED BY <1>1, <3>1 DEF WritesNoMore
  <2>3. CASE BoundMeshes
    <3>1. last' = "computeExtents" /\ ComputeExtents
      BY <2>3 DEF BoundMeshes, Step
    <3>2. \A p \in DOMAIN stage.prims : OpsOnly(stage.prims[p])
      BY <3>1 DEF WritesNoMore
    <3> QED BY <1>2, <3>1, <3>2
  <2>4. CASE ChangeUnits \/ CentrePivots
    BY <2>4 DEF ChangeUnits, CentrePivots, Step, WritesNoMore
  <2> QED BY <2>1, <2>2, <2>3, <2>4 DEF Next
<1> QED BY <1>3, StageStored, PTL DEF Spec

-----------------------------------------------------------------------------
(* Extents bound what they are of *)

\* Between numbers no larger than others, there are none larger than between those.
LEMMA BetweenOrdered ==
  ASSUME NEW a \in Int, NEW b \in Int, NEW x \in Int, NEW y \in Int, a <= x, b <= y,
         NEW num \in Int, NEW den \in Int, 0 <= num, num <= den, den > 0
  PROVE  a + ((b - a) * num) \div den <= x + ((y - x) * num) \div den
<1> DEFINE m == (b - a) * num  n == (y - x) * num
<1>0. m \in Int /\ n \in Int
  OBVIOUS
<1>1. PICK r \in Int : m = den * (m \div den) + r /\ 0 <= r /\ r < den /\ m \div den \in Int
  <2> HIDE DEF m
  <2> QED BY <1>0, Remainder
<1>2. PICK s \in Int : n = den * (n \div den) + s /\ 0 <= s /\ s < den /\ n \div den \in Int
  <2> HIDE DEF n
  <2> QED BY <1>0, Remainder
<1> DEFINE p == m \div den  q == n \div den  rest == den - num
<1>3. p \in Int /\ q \in Int /\ rest \in Int /\ 0 <= rest
  BY <1>1, <1>2
<1>4. a * rest + b * num <= x * rest + y * num
  <2>1. a * rest <= x * rest /\ b * num <= y * num
    <3> HIDE DEF rest
    <3> QED BY <1>3
  <2>2. a * rest \in Int /\ x * rest \in Int /\ b * num \in Int /\ y * num \in Int
    BY <1>3
  <2> HIDE DEF rest
  <2> QED BY <2>1, <2>2
<1>5. a * rest + b * num = a * den + m /\ x * rest + y * num = x * den + n
  <2>1. a * rest = a * den - a * num /\ x * rest = x * den - x * num
    BY MultiplyOut
  <2>2. m = b * num - a * num /\ n = y * num - x * num
    BY MultiplyOut
  <2>3. /\ a * den \in Int /\ a * num \in Int /\ x * den \in Int /\ x * num \in Int
        /\ b * num \in Int /\ y * num \in Int
    OBVIOUS
  <2> HIDE DEF rest, m, n
  <2> QED BY <2>1, <2>2, <2>3
<1>6. a * den + m = (a + p) * den + r /\ x * den + n = (x + q) * den + s
  <2>1. (a + p) * den = a * den + den * p /\ (x + q) * den = x * den + den * q
    BY <1>3, MultiplyOut
  <2>2. m = den * p + r /\ n = den * q + s
    BY <1>1, <1>2
  <2>3. a * den \in Int /\ x * den \in Int /\ den * p \in Int /\ den * q \in Int
    BY <1>3
  <2> HIDE DEF m, n, p, q
  <2> QED BY <2>1, <2>2, <2>3
<1> DEFINE u == a + p  v == x + q
<1>7. u \in Int /\ v \in Int /\ u * den + r <= v * den + s
  <2>1. u \in Int /\ v \in Int
    BY <1>3
  <2> HIDE DEF m, n, p, q, rest
  <2> QED BY <1>4, <1>5, <1>6, <2>1
<1> HIDE DEF u, v, p, q, m, n, rest
<1>8. ~(u >= v + 1)
  <2> SUFFICES ASSUME u >= v + 1 PROVE FALSE
    OBVIOUS
  <2>1. u * den >= (v + 1) * den
    BY <1>7
  <2>2. (v + 1) * den = v * den + den
    BY <1>7, MultiplyOut
  <2>3. u * den \in Int /\ v * den \in Int
    BY <1>7
  <2> QED BY <1>1, <1>2, <1>7, <2>1, <2>2, <2>3
<1> QED BY <1>7, <1>8 DEF u, v, p, q, m, n

\* k points.
Cloud(k) == [1..k -> [1..3 -> Int]]

\* They are a value, and so is a box.
LEMMA CloudIsValue ==
  ASSUME NEW k \in Nat, NEW v \in Cloud(k)
  PROVE  v \in Seq(Seq(Int)) /\ v # None /\ v # Block
<1>1. \A i \in 1..k : v[i] \in Seq(Int)
  <2>1. [1..3 -> Int] \subseteq Seq(Int)
    BY SeqDef
  <2>2. \A i \in 1..k : v[i] \in [1..3 -> Int]
    BY DEF Cloud
  <2> QED BY <2>1, <2>2
<1>2. v \in Seq(Seq(Int))
  <2>1. DOMAIN v = 1..k /\ v = [i \in 1..k |-> v[i]]
    BY DEF Cloud
  <2>2. v \in [1..k -> Seq(Int)]
    BY <1>1, <2>1
  <2> QED BY <2>2, SeqDef
<1> QED BY <1>2, AttributesAssumption

\* The box of points has them in it.
LEMMA InBoxOf ==
  ASSUME NEW k \in Nat, NEW v \in Cloud(k), k # 0
  PROVE  /\ BoxOf(v) \in Cloud(2)
         /\ \A i \in 1..k : InBox(BoxOf(v), v[i])
<1> DEFINE P(j) == { v[i][j] : i \in DOMAIN v }
<1>1. ASSUME NEW j \in 1..3
      PROVE  /\ Min(P(j)) \in Int /\ Max(P(j)) \in Int
             /\ \A i \in 1..k : Min(P(j)) <= v[i][j] /\ v[i][j] <= Max(P(j))
  <2>1. \A i \in 1..k : v[i][j] \in Int
    BY DEF Cloud
  <2>2. DOMAIN v = 1..k /\ 1 \in 1..k
    BY DEF Cloud
  <2> DEFINE S == P(j)
  <2>3. S \subseteq Int /\ S # {} /\ \A i \in 1..k : v[i][j] \in S
    BY <2>1, <2>2
  <2>4. IsFiniteSet(S)
    <3>1. IsFiniteSet(1..k)
      BY FS_Interval
    <3> DEFINE f == [i \in 1..k |-> v[i][j]]
    <3>2. S = { f[i] : i \in 1..k } /\ DOMAIN f = 1..k
      BY <2>2
    <3> HIDE DEF f
    <3> QED BY <3>1, <3>2, ImageFinite
  <2> HIDE DEF S
  <2>5. \E x \in S : \A y \in S : x <= y
    BY <2>3, <2>4, Earliest
  <2>6. \E x \in S : \A y \in S : x >= y
    <3>1. \E x \in S : \A y \in S : y <= x
      BY <2>3, <2>4, Latest
    <3> QED BY <2>3, <3>1
  <2>7. Min(S) \in S /\ \A y \in S : Min(S) <= y
    BY <2>5 DEF Min
  <2>8. Max(S) \in S /\ \A y \in S : Max(S) >= y
    BY <2>6 DEF Max
  <2>9. Min(S) \in Int /\ Max(S) \in Int /\ \A i \in 1..k : Min(S) <= v[i][j] /\ v[i][j] <= Max(S)
    BY <2>1, <2>3, <2>7, <2>8
  <2> QED BY <2>9 DEF S
<1> DEFINE lowest == [j \in 1..3 |-> Min(P(j))]  highest == [j \in 1..3 |-> Max(P(j))]
<1>2. BoxOf(v) = <<lowest, highest>>
  BY DEF BoxOf
<1>3. /\ lowest \in [1..3 -> Int] /\ highest \in [1..3 -> Int]
      /\ \A j \in 1..3, i \in 1..k : lowest[j] <= v[i][j] /\ v[i][j] <= highest[j]
  BY <1>1
<1> HIDE DEF lowest, highest
<1>4. <<lowest, highest>> \in [1..2 -> [1..3 -> Int]]
  BY <1>3
<1> QED BY <1>2, <1>3, <1>4 DEF Cloud, InBox

\* Points that are as many at every time, if any.
Pointed(attr) ==
  /\ attr.type = "point3f[]"
  /\ \E k \in Nat : attr.samples \in [DOMAIN attr.samples -> Cloud(k)]
  /\ attr.samples = << >> => attr.default \in {None, Block} \cup UNION { Cloud(k) : k \in Nat }

\* The value at the time of a sample is the sample.
LEMMA ValueAtSample ==
  ASSUME NEW attr, StoredAttr(attr), attr.samples # << >>, NEW u \in DOMAIN attr.samples,
         attr.samples[u] # Block
  PROVE  ValueAt(attr, u) = attr.samples[u]
<1> DEFINE T == DOMAIN attr.samples  lo == LowTime(T, u)  hi == HighTime(T, u)
<1>1. u \in Int /\ u # None /\ IsFiniteSet(T) /\ T \subseteq Int /\ T # {}
  BY AttributesAssumption DEF StoredAttr
<1>2. /\ lo \in T /\ hi \in T
      /\ \/ lo = hi /\ u < lo /\ \A v \in T : lo <= v
         \/ lo = hi /\ lo < u /\ \A v \in T : v <= lo
         \/ lo = hi /\ lo = u
         \/ lo < u /\ u < hi /\ \A v \in T : v <= lo \/ hi <= v
  BY <1>1, LowAndHigh
<1>3. ValueAt(attr, u) = Within(attr.samples, attr.type, lo, hi, u)
  BY <1>1, ValueOfSamples
<1> HIDE DEF lo, hi
<1>4. lo = u /\ hi = u
  BY <1>1, <1>2
<1> QED BY <1>3, <1>4 DEF Within

\* At a time within two, a box is about the points that it was about at both.
LEMMA BoxesBetween ==
  ASSUME NEW k \in Nat, k # 0, NEW v \in Cloud(k), NEW w \in Cloud(k),
         NEW num \in Int, NEW den \in Int, 0 <= num, num <= den, den > 0,
         NEW row \in Range(Between(v, w, num, den))
  PROVE  InBox(Between(BoxOf(v), BoxOf(w), num, den), row)
<1> DEFINE A == BoxOf(v)  B == BoxOf(w)
<1>1. A \in Cloud(2) /\ B \in Cloud(2)
      /\ \A i \in 1..k : InBox(A, v[i]) /\ InBox(B, w[i])
  BY InBoxOf
<1> HIDE DEF A, B
<1>2. PICK i \in 1..k : row = Plus(v[i], Over(Minus(w[i], v[i]), num, den))
  BY DEF Between, Range, Cloud
<1>3. ASSUME NEW m, NEW x \in Cloud(m), NEW y \in Cloud(m), NEW h \in 1..m, NEW j \in 1..3
      PROVE  /\ x[h][j] \in Int /\ y[h][j] \in Int
             /\ Plus(x[h], Over(Minus(y[h], x[h]), num, den))[j]
                  = x[h][j] + ((y[h][j] - x[h][j]) * num) \div den
             /\ Between(x, y, num, den)[h] = Plus(x[h], Over(Minus(y[h], x[h]), num, den))
  <2>1. x[h] \in [1..3 -> Int] /\ y[h] \in [1..3 -> Int] /\ DOMAIN x = 1..m
    BY DEF Cloud
  <2> DEFINE a == x[h]  b == y[h]
  <2> HIDE DEF a, b
  <2>2. a \in [1..3 -> Int] /\ b \in [1..3 -> Int]
    BY <2>1 DEF a, b
  <2>3. Minus(b, a) = [l \in 1..3 |-> b[l] - a[l]]
    BY <2>2 DEF Minus
  <2>4. Over(Minus(b, a), num, den) = [l \in 1..3 |-> ((b[l] - a[l]) * num) \div den]
    BY <2>3 DEF Over
  <2>5. Plus(a, Over(Minus(b, a), num, den))[j] = a[j] + ((b[j] - a[j]) * num) \div den
    BY <2>2, <2>4 DEF Plus
  <2> QED BY <2>1, <2>2, <2>5 DEF Between, a, b
<1>4. ASSUME NEW j \in 1..3
      PROVE  Between(A, B, num, den)[1][j] <= row[j] /\ row[j] <= Between(A, B, num, den)[2][j]
  <2>1. /\ A[1][j] <= v[i][j] /\ v[i][j] <= A[2][j] /\ B[1][j] <= w[i][j] /\ w[i][j] <= B[2][j]
    BY <1>1 DEF InBox
  <2>2. /\ A[1][j] \in Int /\ B[1][j] \in Int /\ A[2][j] \in Int /\ B[2][j] \in Int
        /\ v[i][j] \in Int /\ w[i][j] \in Int
        /\ row[j] = v[i][j] + ((w[i][j] - v[i][j]) * num) \div den
        /\ Between(A, B, num, den)[1][j] = A[1][j] + ((B[1][j] - A[1][j]) * num) \div den
        /\ Between(A, B, num, den)[2][j] = A[2][j] + ((B[2][j] - A[2][j]) * num) \div den
    BY <1>1, <1>2, <1>3
  <2> DEFINE a == A[1][j]  b == B[1][j]  c == A[2][j]  d == B[2][j]  x == v[i][j]  y == w[i][j]
  <2>3. /\ a \in Int /\ b \in Int /\ c \in Int /\ d \in Int /\ x \in Int /\ y \in Int
        /\ a <= x /\ x <= c /\ b <= y /\ y <= d
    BY <2>1, <2>2
  <2> HIDE DEF a, b, c, d, x, y
  <2>4. /\ a + ((b - a) * num) \div den <= x + ((y - x) * num) \div den
        /\ x + ((y - x) * num) \div den <= c + ((d - c) * num) \div den
    BY <2>3, BetweenOrdered
  <2> QED BY <2>2, <2>4 DEF a, b, c, d, x, y
<1> QED BY <1>4 DEF InBox, A, B

\* An extent that has been computed bounds the points at every time (_computeExtents): also
\* between the samples, where both are interpolated, the numbers rounded as they were.
LEMMA ExtentBounds ==
  ASSUME NEW prim, StoredPrim(prim), HasExtents(prim), Has(prim, Points) => Pointed(prim.attrs[Points]),
         ExtentTimes(prim) = TimesOf(prim, {Points}), NEW t \in Int
  PROVE  Bounded(WithExtent(prim), t)
<1> DEFINE ext == ComputedExtent(prim)
           new == SetAttr(prim, Extent, ext)
           attr == prim.attrs[Points]
           T == ExtentTimes(prim)
           box == ValueAt(ext, t)
           cloud == Get(prim, Points, t)
<1>1. WithExtent(prim) = new
  BY DEF WithExtent
<1>2. Get(new, Extent, t) = box /\ Get(new, <<"points">>, t) = cloud
  <2>1. new.attrs = [n \in DOMAIN prim.attrs \cup {Extent} |-> IF n = Extent THEN ext
                                                               ELSE prim.attrs[n]]
    BY DEF SetAttr, StoredPrim
  <2>2. Points # Extent /\ Points = <<"points">>
    BY DEF Points, Extent
  <2> HIDE DEF ext, new
  <2> QED BY <2>1, <2>2 DEF Get, Has, box, cloud
<1>3. t # None
  BY AttributesAssumption
<1>4. /\ ext.type = "float3[]"
      /\ ext.default = IF T = {} THEN BoxAt(prim, None) ELSE None
      /\ ext.samples = [u \in { w \in T : BoxAt(prim, w) # None } |-> BoxAt(prim, u)]
  BY DEF ComputedExtent
<1> SUFFICES box # None => \A row \in IF cloud = None THEN {} ELSE Range(cloud) : InBox(box, row)
  BY <1>1, <1>2 DEF Bounded, Rows
<1> HIDE DEF ext, new, box
<1> SUFFICES ASSUME cloud # None, box # None, NEW row \in Range(cloud) PROVE InBox(box, row)
  OBVIOUS
<1>5. Has(prim, Points) /\ Points \in DOMAIN prim.attrs
  BY DEF Get, Has
<1>6. /\ StoredAttr(attr) /\ Pointed(attr) /\ T = DOMAIN attr.samples
      /\ \A u : Get(prim, Points, u) = ValueAt(attr, u)
  BY <1>5 DEF StoredPrim, TimesOf, Get
<1> HIDE DEF attr, T, cloud
<1>7. cloud = ValueAt(attr, t)
  BY <1>6 DEF cloud
<1>8. CASE T = {}
  <2>1. attr.samples = << >> /\ ext.samples = << >>
    <3>1. DOMAIN attr.samples = {}
      BY <1>6, <1>8
    <3>2. PICK k \in Nat : attr.samples \in [{} -> Cloud(k)]
      BY <3>1, <1>6 DEF Pointed
    <3>3. attr.samples = << >>
      BY <3>2
    <3>4. { w \in T : BoxAt(prim, w) # None } = {}
      BY <1>8
    <3>5. ext.samples \in [{} -> Int]
      BY <1>4, <3>4
    <3>6. ext.samples = << >>
      BY <3>5
    <3> QED BY <3>3, <3>6
  <2>2. cloud = (IF attr.default = Block THEN None
                 ELSE attr.default) /\ cloud = Get(prim, Points, None)
    BY <1>6, <1>7, <2>1 DEF ValueAt
  <2>3. ext.default = BoxAt(prim, None) /\ box = IF ext.default = Block THEN None ELSE ext.default
    BY <1>3, <1>4, <1>8, <2>1 DEF ValueAt, box
  <2>4. PICK k \in Nat : cloud \in Cloud(k)
    BY <1>6, <2>1, <2>2 DEF Pointed
  <2>5. cloud # << >> /\ box = BoxOf(cloud)
    <3>1. BoxAt(prim, None) = IF cloud \in {None, << >>} THEN None ELSE BoxOf(cloud)
      BY <2>2 DEF BoxAt
    <3> QED BY <2>3, <3>1
  <2>6. k # 0
    <3> SUFFICES ASSUME k = 0 PROVE FALSE
      OBVIOUS
    <3>1. cloud \in [{} -> [1..3 -> Int]]
      BY <2>4 DEF Cloud
    <3> QED BY <2>5, <3>1
  <2>7. PICK i \in 1..k : row = cloud[i]
    BY <2>4 DEF Cloud, Range
  <2> QED BY <2>4, <2>5, <2>6, <2>7, InBoxOf
<1>9. CASE T # {}
  <2>1. PICK k \in Nat : \A u \in T : attr.samples[u] \in Cloud(k)
    BY <1>6 DEF Pointed
  <2>2. attr.samples # << >>
    <3>1. DOMAIN << >> = {}
      OBVIOUS
    <3> QED BY <1>6, <1>9, <3>1
  <2> DEFINE lo == LowTime(T, t)  hi == HighTime(T, t)
  <2>3. IsFiniteSet(T) /\ T \subseteq Int
    BY <1>6 DEF StoredAttr
  <2>4. lo \in T /\ hi \in T /\ (lo = hi \/ (lo < t /\ t < hi))
    <3>1. /\ lo \in T /\ hi \in T
          /\ \/ lo = hi /\ t < lo /\ \A v \in T : lo <= v
             \/ lo = hi /\ lo < t /\ \A v \in T : v <= lo
             \/ lo = hi /\ lo = t
             \/ lo < t /\ t < hi /\ \A v \in T : v <= lo \/ hi <= v
      BY <1>9, <2>3, LowAndHigh
    <3> HIDE DEF lo, hi
    <3> QED BY <3>1
  <2>5. cloud = Within(attr.samples, "point3f[]", lo, hi, t)
    BY <1>3, <1>6, <1>7, <2>2, ValueOfSamples DEF Pointed
  <2> HIDE DEF lo, hi
  <2> DEFINE v == attr.samples[lo]  w == attr.samples[hi]
  <2>6. v \in Cloud(k) /\ w \in Cloud(k)
    BY <2>1, <2>4
  <2>7. cloud = IF lo # hi THEN Between(v, w, t - lo, hi - lo) ELSE v
    BY <2>5, <2>6, CloudIsValue DEF Within, Interpolated
  <2>8. k # 0
    <3> SUFFICES ASSUME k = 0 PROVE FALSE
      OBVIOUS
    <3>1. DOMAIN v = {}
      BY <2>6 DEF Cloud
    <3>2. DOMAIN cloud = {}
      BY <2>7, <3>1 DEF Between
    <3> QED BY <3>2 DEF Range
  <2>9. ASSUME NEW u \in T PROVE BoxAt(prim, u) = BoxOf(attr.samples[u]) /\ BoxAt(prim, u) # None
    <3>1. attr.samples[u] # Block /\ attr.samples[u] # None /\ attr.samples[u] # << >>
      <4>1. attr.samples[u] \in Cloud(k)
        BY <2>1
      <4>2. DOMAIN attr.samples[u] = 1..k /\ DOMAIN << >> = {}
        BY <4>1 DEF Cloud
      <4>3. 1 \in 1..k
        BY <2>8
      <4> QED BY <4>1, <4>2, <4>3, CloudIsValue
    <3>2. Get(prim, Points, u) = attr.samples[u]
      BY <1>6, <2>2, <3>1, ValueAtSample
    <3>3. BoxAt(prim, u) = BoxOf(attr.samples[u])
      BY <3>1, <3>2 DEF BoxAt
    <3>4. BoxOf(attr.samples[u]) \in Cloud(2)
      BY <2>1, <2>8, InBoxOf
    <3> QED BY <3>3, <3>4, CloudIsValue
  <2>10. DOMAIN ext.samples = T /\ \A u \in T : ext.samples[u] = BoxOf(attr.samples[u])
    BY <1>4, <2>9
  <2>11. ext.samples # << >>
    <3>1. DOMAIN << >> = {}
      OBVIOUS
    <3> QED BY <1>9, <2>10, <3>1
  <2>12. box = Within(ext.samples, "float3[]", lo, hi, t)
    <3>1. ValueAt(ext, t) = Within(ext.samples, ext.type, LowTime(DOMAIN ext.samples, t),
                                   HighTime(DOMAIN ext.samples, t), t)
      BY <1>3, <2>11, ValueOfSamples
    <3> QED BY <1>4, <2>10, <3>1 DEF box, lo, hi
  <2>13. box = IF lo # hi THEN Between(BoxOf(v), BoxOf(w), t - lo, hi - lo) ELSE BoxOf(v)
    <3>1. BoxOf(v) \in Cloud(2) /\ BoxOf(w) \in Cloud(2)
      BY <2>6, <2>8, InBoxOf
    <3>2. BoxOf(v) # Block /\ BoxOf(w) # Block
      BY <3>1, CloudIsValue
    <3>3. ext.samples[lo] = BoxOf(v) /\ ext.samples[hi] = BoxOf(w)
      BY <2>4, <2>10
    <3> QED BY <2>12, <3>2, <3>3 DEF Within, Interpolated
  <2> HIDE DEF v, w
  <2>14. CASE lo = hi
    <3>1. PICK i \in 1..k : row = v[i]
      BY <2>6, <2>7, <2>14 DEF Cloud, Range
    <3> QED BY <2>6, <2>8, <2>13, <2>14, <3>1, InBoxOf
  <2>15. CASE lo # hi
    <3>1. /\ lo \in Int /\ hi \in Int /\ 0 <= t - lo /\ t - lo <= hi - lo /\ hi - lo > 0
          /\ t - lo \in Int /\ hi - lo \in Int
      BY <2>3, <2>4, <2>15
    <3> DEFINE num == t - lo  den == hi - lo
    <3>2. num \in Int /\ den \in Int /\ 0 <= num /\ num <= den /\ den > 0
      BY <3>1
    <3>3. row \in Range(Between(v, w, num, den))
      BY <2>7, <2>15
    <3> HIDE DEF num, den
    <3>4. InBox(Between(BoxOf(v), BoxOf(w), num, den), row)
      BY <2>6, <2>8, <3>2, <3>3, BoxesBetween
    <3> QED BY <2>13, <2>15, <3>4 DEF num, den
  <2> QED BY <2>14, <2>15
<1> QED BY <1>8, <1>9

\* A prim with the values of another but for ops.
SameButOps(prim, new) ==
  /\ new.type = prim.type
  /\ \A n : ~IsXformOp(n) => /\ Has(new, n) <=> Has(prim, n)
                             /\ Has(prim, n) => new.attrs[n] = prim.attrs[n]

\* Writing an op,
LEMMA WrittenSame ==
  ASSUME NEW prim, StoredPrim(prim), NEW kind, NEW suffix, NEW row
  PROVE  /\ StoredPrim(Written(prim, XformOp(kind, suffix), row))
         /\ SameButOps(prim, Written(prim, XformOp(kind, suffix), row))
<1> DEFINE name == XformOp(kind, suffix)
           attr == IF Has(prim, name) THEN [prim.attrs[name] EXCEPT !.default = <<row>>]
                   ELSE Attr("double3", <<row>>)
           new == SetAttr(prim, name, attr)
<1>1. Written(prim, name, row) = new
  BY DEF Written
<1>2. /\ new.type = prim.type
      /\ new.attrs = [n \in DOMAIN prim.attrs \cup {name} |-> IF n = name THEN attr
                                                              ELSE prim.attrs[n]]
  BY DEF SetAttr, StoredPrim
<1>3. IsXformOp(name)
  BY DEF IsXformOp, XformOp
<1> HIDE DEF new, attr, name
<1>4. SameButOps(prim, new)
  BY <1>2, <1>3 DEF SameButOps, Has
<1>5. StoredPrim(Written(prim, XformOp(kind, suffix), row))
  BY StoredWritten
<1> QED BY <1>1, <1>4, <1>5 DEF name

\* and so a pivot, leaves the other values.
LEMMA PivotSame ==
  ASSUME NEW prim, StoredPrim(prim), NEW kind, NEW m, NEW pivot, NEW centre
  PROVE  SameButOps(prim, WithPivot(prim, kind, m, pivot, centre))
<1> DEFINE vectors == XformVectors(kind, m, pivot)
           translation == CorrectedTranslation(prim, vectors.translation, m, pivot, centre)
           placed == Written(prim, Translate, translation)
           moved == Written(placed, TranslatePivot, centre)
           turned == Written(moved, XformOp(kind, ""), vectors.rotation)
           scaled == Written(turned, XformOp("scale", ""), vectors.scale)
           new == WithPivot(prim, kind, m, pivot, centre)
<1>1. \E order : new = [scaled EXCEPT !.order = order]
  BY DEF WithPivot
<1> HIDE DEF new, vectors, translation
<1>2. StoredPrim(placed) /\ SameButOps(prim, placed)
  BY WrittenSame DEF Translate
<1> HIDE DEF placed
<1>3. StoredPrim(moved) /\ SameButOps(placed, moved)
  BY <1>2, WrittenSame DEF TranslatePivot
<1> HIDE DEF moved
<1>4. StoredPrim(turned) /\ SameButOps(moved, turned)
  BY <1>3, WrittenSame
<1> HIDE DEF turned
<1>5. StoredPrim(scaled) /\ SameButOps(turned, scaled)
  BY <1>4, WrittenSame
<1> HIDE DEF scaled
<1>6. new.type = scaled.type /\ new.attrs = scaled.attrs
  BY <1>1, <1>5 DEF StoredPrim
<1>7. SameButOps(prim, moved)
  BY <1>2, <1>3 DEF SameButOps
<1>8. SameButOps(prim, scaled)
  BY <1>4, <1>5, <1>7 DEF SameButOps
<1>9. SameButOps(prim, new)
  BY <1>6, <1>8 DEF SameButOps, Has
<1> QED BY <1>9 DEF new

\* Points that an extent can be computed of at all their times.
Extendable(prim) ==
  /\ HasExtents(prim) /\ ExtentTimes(prim) = TimesOf(prim, {Points})
  /\ Has(prim, Points) => Pointed(prim.attrs[Points])

\* They stay so.
LEMMA SameExtendable ==
  ASSUME NEW prim, NEW new, SameButOps(prim, new), Extendable(prim)
  PROVE  Extendable(new)
<1>1. ~IsXformOp(Points) /\ ~IsXformOp(<<"widths">>)
  BY DEF IsXformOp, Points
<1>2. ASSUME NEW N, \A n \in N : ~IsXformOp(n) PROVE TimesOf(new, N) = TimesOf(prim, N)
  <2>1. N \cap DOMAIN new.attrs = N \cap DOMAIN prim.attrs
    BY <1>2 DEF SameButOps, Has
  <2>2. \A n \in N \cap DOMAIN prim.attrs : new.attrs[n] = prim.attrs[n]
    BY <1>2 DEF SameButOps, Has
  <2> QED BY <2>1, <2>2 DEF TimesOf
<1>3. TimesOf(new, {Points}) = TimesOf(prim, {Points})
  BY <1>1, <1>2
<1>4. new.type = prim.type
  BY DEF SameButOps
<1>5. ExtentTimes(new) = ExtentTimes(prim)
  <2> DEFINE N == {Points} \cup IF prim.type = "Points" THEN {<<"widths">>} ELSE {}
  <2>1. \A n \in N : ~IsXformOp(n)
    BY <1>1
  <2> HIDE DEF N
  <2>2. TimesOf(new, N) = TimesOf(prim, N)
    BY <1>2, <2>1
  <2> QED BY <1>4, <2>2 DEF ExtentTimes, N
<1> QED BY <1>1, <1>3, <1>4, <1>5 DEF Extendable, HasExtents, SameButOps

\* What is bounded after a step, wherever the points are told.
ExtentHolds(p) == \A t \in Times : Bounded(stage'.prims[p], t)

\* The extent of a mesh bounds its points at every time once it has been computed, by itself or
\* when pivots have been written (_computeExtents); and it still does when samples are removed,
\* of it or of the points.
THEOREM ExtentsStay ==
  Spec => [][/\ last' = "computeExtents" =>
                  \A p \in Resolved(stage) : Extendable(stage.prims[p]) => ExtentHolds(p)
             /\ last' = "pivot" =>
                  \A p \in Resolved(stage) :
                    stage.prims[p].type = "Mesh" /\ Extendable(stage.prims[p]) => ExtentHolds(p)
             /\ last' \in {"duplicates", "interpolated"} /\ SamplesValued(stage) =>
                  \A p \in DOMAIN stage.prims : (\A t \in Times : Bounded(stage.prims[p], t)) => ExtentHolds(p)
            ]_vars
<1>0. Times \subseteq Int /\ None \notin Times
  BY AttributesAssumption
<1>1. ASSUME NEW prim, StoredPrim(prim), Extendable(prim), NEW t \in Times
      PROVE  Bounded(WithExtent(prim), t)
  BY <1>0, <1>1, ExtentBounds DEF Extendable
<1>2. ASSUME Stored(stage), BoundMeshes, NEW p \in Resolved(stage), Extendable(stage.prims[p])
      PROVE  ExtentHolds(p)
  <2>1. p \in DOMAIN stage.prims
    BY DEF Resolved
  <2>2. stage'.prims[p] = WithExtent(stage.prims[p]) /\ StoredPrim(stage.prims[p])
    BY <1>2, <2>1 DEF BoundMeshes, ComputeExtents, WithExtents, Stored
  <2> QED BY <1>1, <1>2, <2>2 DEF ExtentHolds
<1>3. ASSUME Stored(stage), CentrePivots, NEW p \in Resolved(stage), Extendable(stage.prims[p]),
             stage.prims[p].type = "Mesh"
      PROVE  ExtentHolds(p)
  <2>1. p \in DOMAIN stage.prims /\ StoredPrim(stage.prims[p])
    BY <1>3 DEF Resolved, Stored
  <2>2. PICK overwrite, applyTo, method : PivotPrims(overwrite, applyTo, method)
    BY <1>3 DEF CentrePivots
  <2> DEFINE pivoted == PivotedPrim(stage, p, overwrite, applyTo, method)
  <2>3. stage'.prims[p] = WithExtent(pivoted)
    BY <1>3, <2>1, <2>2 DEF PivotPrims, WithExtents, Stored
  <2>4. StoredPrim(pivoted) /\ SameButOps(stage.prims[p], pivoted)
    <3>1. \A kind, m, pivot, centre :
             /\ StoredPrim(WithPivot(stage.prims[p], kind, m, pivot, centre))
             /\ SameButOps(stage.prims[p], WithPivot(stage.prims[p], kind, m, pivot, centre))
      BY <2>1, StoredPivot, PivotSame
    <3>2. SameButOps(stage.prims[p], stage.prims[p])
      BY DEF SameButOps
    <3> QED BY <2>1, <3>1, <3>2 DEF PivotedPrim
  <2> HIDE DEF pivoted
  <2>5. Extendable(pivoted)
    BY <1>3, <2>4, SameExtendable
  <2> QED BY <1>1, <2>3, <2>4, <2>5 DEF ExtentHolds
<1>4. ASSUME Stored(stage), NEW r \in BOOLEAN, OptimizeTimeSamples(r), AllRemovable, SamplesValued(stage),
             NEW p \in DOMAIN stage.prims, \A t \in Times : Bounded(stage.prims[p], t)
      PROVE  ExtentHolds(p)
  <2> DEFINE prim == stage.prims[p]  new == stage'.prims[p]
  <2>1. new = IF p \in Resolved(stage) THEN OptimizedPrim(prim, r) ELSE prim
    BY <1>4 DEF OptimizeTimeSamples, Stored
  <2>2. StoredPrim(prim)
    BY <1>4 DEF Stored
  <2>3. p \in Resolved(stage) => \A n \in DOMAIN prim.attrs : Valued(prim.attrs[n]) /\ Removable(prim.attrs[n])
    BY <1>4 DEF AllRemovable, SamplesValued
  <2> HIDE DEF prim, new
  <2>4. ASSUME NEW t \in Times, NEW n PROVE Get(new, n, t) = Get(prim, n, t)
    BY <1>0, <2>1, <2>2, <2>3, OptimizedSame
  <2>5. \A t \in Times : Bounded(prim, t)
    BY <1>4 DEF prim
  <2>6. \A t \in Times : Bounded(new, t)
    BY <2>4, <2>5 DEF Bounded, Rows
  <2> QED BY <2>6 DEF ExtentHolds, new
<1>5. Stored(stage) /\ [Next]_vars =>
        [/\ last' = "computeExtents" =>
              \A p \in Resolved(stage) : Extendable(stage.prims[p]) => ExtentHolds(p)
         /\ last' = "pivot" =>
              \A p \in Resolved(stage) :
                stage.prims[p].type = "Mesh" /\ Extendable(stage.prims[p]) => ExtentHolds(p)
         /\ last' \in {"duplicates", "interpolated"} /\ SamplesValued(stage) =>
              \A p \in DOMAIN stage.prims : (\A t \in Times : Bounded(stage.prims[p], t)) => ExtentHolds(p)
        ]_vars
  <2> SUFFICES ASSUME Stored(stage), Next
      PROVE /\ last' = "computeExtents" =>
                 \A p \in Resolved(stage) : Extendable(stage.prims[p]) => ExtentHolds(p)
            /\ last' = "pivot" =>
                 \A p \in Resolved(stage) :
                   stage.prims[p].type = "Mesh" /\ Extendable(stage.prims[p]) => ExtentHolds(p)
            /\ last' \in {"duplicates", "interpolated"} /\ SamplesValued(stage) =>
                 \A p \in DOMAIN stage.prims : (\A t \in Times : Bounded(stage.prims[p], t)) => ExtentHolds(p)
    OBVIOUS
  <2>1. CASE ChangeUnits
    BY <2>1 DEF ChangeUnits, Step
  <2>2. CASE RemoveDuplicates
    <3>1. last' = "duplicates" /\ OptimizeTimeSamples(FALSE) /\ AllRemovable
      BY <2>2 DEF RemoveDuplicates, Step
    <3> QED BY <1>4, <3>1
  <2>3. CASE RemoveInterpolated
    <3>1. last' = "interpolated" /\ OptimizeTimeSamples(TRUE) /\ AllRemovable
      BY <2>3 DEF RemoveInterpolated, Step
    <3> QED BY <1>4, <3>1
  <2>4. CASE CentrePivots
    <3>1. last' = "pivot"
      BY <2>4 DEF CentrePivots, Step
    <3> QED BY <1>3, <2>4, <3>1
  <2>5. CASE BoundMeshes
    <3>1. last' = "computeExtents"
      BY <2>5 DEF BoundMeshes, Step
    <3> QED BY <1>2, <2>5, <3>1
  <2> QED BY <2>1, <2>2, <2>3, <2>4, <2>5 DEF Next
<1> QED BY <1>5, StageStored, PTL DEF Spec
=============================================================================
