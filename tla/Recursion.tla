----------------------------- MODULE Recursion -----------------------------
(***************************************************************************)
(* Induction over the natural numbers and over finite sets, recursive      *)
(* functions and sums, in a form without operators as parameters: a        *)
(* predicate is given as the set of what satisfies it, and a step of a     *)
(* recursion as a function.                                                *)
(***************************************************************************)
EXTENDS Integers, FiniteSets, FiniteSetsExt, FiniteSetTheorems, WellFoundedInduction, TLAPS

\* WFMin in the form the lemma below cites.
LEMMA MinimalElement ==
  ASSUME NEW R, NEW S, IsWellFoundedOn(R, S), NEW T, T \subseteq S, T # {}
  PROVE  \E x \in T : \A y \in T : ~ (<<y, x>> \in R)
  BY WFMin, Zenon

\* A set of numbers that is not empty has a least one, if R is their order.
LEMMA LeastByOrder ==
  ASSUME NEW R, IsWellFoundedOn(R, Nat), NEW T, T \subseteq Nat, T # {}
  PROVE  (\A m, n \in Nat : m < n => <<m, n>> \in R) =>
            \E n \in T : \A m \in T : n <= m
  <1>1. PICK n \in T : \A m \in T : ~ (<<m, n>> \in R)
    BY MinimalElement, Zenon
  <1>2. HAVE \A k, l \in Nat : k < l => <<k, l>> \in R
  <1>3. ASSUME NEW m \in T PROVE n <= m
    <2>1. n \in Nat /\ m \in Nat
      OBVIOUS
    <2>2. ~ (m < n)
      BY <2>1, <1>1, <1>2
    <2> QED
      BY <2>1, <2>2, SMT
  <1> QED
    BY <1>3

\* A set of natural numbers that is not empty has a least one.
LEMMA LeastNatural ==
  ASSUME NEW T, T \subseteq Nat, T # {}
  PROVE  \E n \in T : \A m \in T : n <= m
  <1> DEFINE R == OpToRel(<, Nat)
  <1>1. IsWellFoundedOn(R, Nat)
    BY NatLessThanWellFounded
  <1>2. \A m, n \in Nat : m < n => <<m, n>> \in R
    BY DEF OpToRel
  <1> HIDE DEF R
  <1> QED
    BY <1>1, <1>2, LeastByOrder

\* Induction over the natural numbers.
THEOREM SetInduction ==
  ASSUME NEW T, 0 \in T, \A n \in Nat : n \in T => n + 1 \in T
  PROVE  Nat \subseteq T
  <1>1. SUFFICES ASSUME Nat \ T # {} PROVE FALSE
    OBVIOUS
  <1>2. PICK n \in Nat \ T : \A m \in Nat \ T : n <= m
    BY <1>1, LeastNatural
  <1> QED
    BY <1>2

\* Induction up to a bound.
THEOREM BoundedInduction ==
  ASSUME NEW N \in Nat, NEW T, 0 \in T,
         \A n \in 0..N : n \in T /\ n < N => n + 1 \in T
  PROVE  0..N \subseteq T
  <1> DEFINE U == {n \in Nat : n <= N => n \in T}
  <1>1. Nat \subseteq U
    <2>1. 0 \in U
      OBVIOUS
    <2>2. \A n \in Nat : n \in U => n + 1 \in U
      OBVIOUS
    <2> HIDE DEF U
    <2> QED
      BY <2>1, <2>2, SetInduction
  <1> QED
    BY <1>1

\* step gives for each k up to N and value at k - 1 the value at k.
IsStep(step, N, D) == step \in [(1..N) \X D -> D]

\* g has the first value base and follows step.
Follows(g, base, step, N, D) ==
  /\ g \in [0..N -> D]
  /\ g[0] = base
  /\ \A k \in 1..N : g[k] = step[<<k, g[k - 1]>>]

\* A function can be defined by its first value and the step from each value to
\* the next.
THEOREM RecursionExists ==
  ASSUME NEW N \in Nat, NEW D, NEW base \in D, NEW step, IsStep(step, N, D)
  PROVE  \E g : Follows(g, base, step, N, D)
  <1> USE DEF IsStep, Follows
  <1> DEFINE Upto(n, g) == /\ g \in [0..n -> D]
                           /\ g[0] = base
                           /\ \A k \in 1..n : g[k] = step[<<k, g[k - 1]>>]
             T == {n \in 0..N : \E g : Upto(n, g)}
  <1>1. 0 \in T
    <2> DEFINE h == [k \in 0..0 |-> base]
    <2>1. Upto(0, h)
      <3>1. h \in [0..0 -> D] /\ h[0] = base
        OBVIOUS
      <3>2. 1..0 = {}
        OBVIOUS
      <3> QED
        BY <3>1, <3>2
    <2> HIDE DEF h, Upto
    <2>2. \E g : Upto(0, g)
      BY <2>1
    <2> QED
      BY <2>2
  <1>2. ASSUME NEW n \in 0..N, n \in T, n < N PROVE n + 1 \in T
    <2>1. PICK g : Upto(n, g)
      BY <1>2
    <2> DEFINE h == [k \in 0..(n + 1) |-> IF k <= n THEN g[k] ELSE step[<<n + 1, g[n]>>]]
    <2>2. g[n] \in D /\ step[<<n + 1, g[n]>>] \in D
      <3>1. g[n] \in D
        BY <2>1
      <3>2. <<n + 1, g[n]>> \in (1..N) \X D
        BY <3>1, <1>2
      <3> QED
        BY <3>1, <3>2
    <2>3. Upto(n + 1, h)
      <3>1. h \in [0..(n + 1) -> D]
        BY <2>1, <2>2
      <3>2. h[0] = base
        BY <2>1
      <3>3. ASSUME NEW k \in 1..(n + 1) PROVE h[k] = step[<<k, h[k - 1]>>]
        <4>1. CASE k <= n
          <5>1. k \in 1..n /\ k \in 0..(n + 1) /\ k - 1 \in 0..(n + 1) /\ k - 1 <= n
            BY <4>1
          <5>2. h[k] = g[k] /\ h[k - 1] = g[k - 1]
            BY <5>1, <4>1
          <5> QED
            BY <5>1, <5>2, <2>1
        <4>2. CASE k = n + 1
          <5>1. k \in 0..(n + 1) /\ ~ (k <= n) /\ k - 1 = n /\ n \in 0..(n + 1) /\ n <= n
            BY <4>2
          <5> QED
            BY <5>1, <4>2
        <4> QED
          BY <4>1, <4>2
      <3> QED
        BY <3>1, <3>2, <3>3
    <2> HIDE DEF h, Upto
    <2>4. \E f : Upto(n + 1, f)
      BY <2>3
    <2> QED
      BY <1>2, <2>4
  <1> HIDE DEF T
  <1>3. 0..N \subseteq T
    BY <1>1, <1>2, BoundedInduction
  <1>4. N \in T
    BY <1>3
  <1> QED
    BY <1>4 DEF T

-----------------------------------------------------------------------------
(* Sums over finite sets *)

SumOver(f, S) == MapThenSumSet(LAMBDA x : f[x], S)

Picked(s) == CHOOSE x \in s : TRUE

\* g is what the fold of MapThenSumSet computes for the subsets of S.
Summing(g, f, S) ==
  g = [s \in SUBSET S |-> IF s = {} THEN 0 ELSE f[Picked(s)] + g[s \ {Picked(s)}]]

LEMMA PickedOf ==
  ASSUME NEW S, IsFiniteSet(S), NEW s \in SUBSET S, s # {}
  PROVE  /\ Picked(s) \in s /\ s \ {Picked(s)} \in SUBSET S
         /\ Cardinality(s) \in Nat /\ Cardinality(s) > 0
         /\ Cardinality(s \ {Picked(s)}) = Cardinality(s) - 1
  <1>1. Picked(s) \in s
    BY DEF Picked
  <1>2. IsFiniteSet(s)
    BY FS_Subset
  <1>3. Cardinality(s) \in Nat /\ Cardinality(s) # 0
    BY <1>2, FS_CardinalityType, FS_EmptySet
  <1>4. Cardinality(s \ {Picked(s)}) = Cardinality(s) - 1
    BY <1>1, <1>2, FS_RemoveElement
  <1> QED
    BY <1>1, <1>3, <1>4

SumsUp(g, f, S) ==
  /\ g[{}] = 0
  /\ \A s \in SUBSET S : s # {} => g[s] = f[Picked(s)] + g[s \ {Picked(s)}]

LEMMA SummingOf ==
  ASSUME NEW S, NEW f, NEW g, Summing(g, f, S)
  PROVE  SumsUp(g, f, S)
  <1>1. \A s \in SUBSET S :
          g[s] = IF s = {} THEN 0 ELSE f[Picked(s)] + g[s \ {Picked(s)}]
    BY DEF Summing
  <1> QED
    BY <1>1 DEF SumsUp

LEMMA SummingExists ==
  ASSUME NEW S, IsFiniteSet(S), NEW f, \A x \in S : f[x] \in Int
  PROVE  \E g : Summing(g, f, S)
  <1> DEFINE N == Cardinality(S)
             D == [SUBSET S -> Int]
             base == [s \in SUBSET S |-> 0]
             Longer(h) == [s \in SUBSET S |->
                           IF s = {} THEN 0 ELSE f[Picked(s)] + h[s \ {Picked(s)}]]
             step == [kh \in (1..N) \X D |-> Longer(kh[2])]
  <1>1. N \in Nat
    BY FS_CardinalityType
  <1>2. ASSUME NEW h \in D PROVE Longer(h) \in D
    <2>1. ASSUME NEW s \in SUBSET S, s # {} PROVE f[Picked(s)] + h[s \ {Picked(s)}] \in Int
      <3>1. Picked(s) \in s /\ s \ {Picked(s)} \in SUBSET S
        BY <2>1, PickedOf
      <3> QED
        BY <3>1
    <2> QED
      BY <2>1
  <1>3. base \in D
    OBVIOUS
  <1>4. IsStep(step, N, D)
    <2>1. \A kh \in (1..N) \X D : Longer(kh[2]) \in D
      <3> HIDE DEF Longer, D
      <3> QED
        BY <1>2
    <2> HIDE DEF Longer, D
    <2> QED
      BY <2>1 DEF IsStep
  <1> HIDE DEF step, base, D, N
  <1>5. PICK G : Follows(G, base, step, N, D)
    BY <1>1, <1>3, <1>4, RecursionExists
  <1>6. /\ G \in [0..N -> D] /\ G[0] = base
        /\ \A k \in 1..N : G[k] = Longer(G[k - 1])
    <2>1. G \in [0..N -> D] /\ G[0] = base /\ \A k \in 1..N : G[k] = step[<<k, G[k - 1]>>]
      BY <1>5 DEF Follows
    <2>2. ASSUME NEW k \in 1..N PROVE G[k] = Longer(G[k - 1])
      <3>1. k - 1 \in 0..N
        BY <1>1
      <3>2. <<k, G[k - 1]>> \in (1..N) \X D
        BY <2>1, <3>1
      <3> HIDE DEF Longer
      <3>3. step[<<k, G[k - 1]>>] = Longer(G[k - 1])
        BY <3>2 DEF step
      <3> QED
        BY <2>1, <3>3
    <2> QED
      BY <2>1, <2>2
  \* The value for a set no longer changes once its elements are counted.
  <1> DEFINE T == {k \in 0..N : \A s \in SUBSET S : Cardinality(s) <= k =>
                                   \A m \in k..N : G[m][s] = G[k][s]}
  <1>7. \A s \in SUBSET S : Cardinality(s) \in 0..N
    <2>1. ASSUME NEW s \in SUBSET S PROVE Cardinality(s) \in 0..N
      BY FS_Subset, FS_CardinalityType DEF N
    <2> QED
      BY <2>1
  <1>8. \A k \in 0..N : G[k][{}] = 0
    <2>1. ASSUME NEW k \in 0..N PROVE G[k][{}] = 0
      <3>1. CASE k = 0
        BY <1>6, <3>1 DEF base
      <3>2. CASE k # 0
        <4>1. k \in 1..N
          BY <1>1, <3>2
        <4> QED
          BY <1>6, <4>1
      <3> QED
        BY <3>1, <3>2
    <2> QED
      BY <2>1
  <1>9. 0 \in T
    <2>1. ASSUME NEW s \in SUBSET S, Cardinality(s) <= 0 PROVE s = {}
      BY <2>1, <1>7, FS_Subset, FS_EmptySet
    <2> QED
      BY <1>1, <1>8, <2>1
  <1>10. ASSUME NEW k \in 0..N, k \in T, k < N PROVE k + 1 \in T
    <2>1. k + 1 \in 0..N /\ k + 1 \in 1..N
      BY <1>1, <1>10
    <2>2. ASSUME NEW s \in SUBSET S, Cardinality(s) <= k + 1, NEW m \in (k + 1)..N, s # {}
          PROVE  G[m][s] = G[k + 1][s]
      <3>1. PICK t : t = s \ {Picked(s)}
        OBVIOUS
      <3>2. t \in SUBSET S /\ Cardinality(t) <= k
        BY <2>2, <3>1, PickedOf
      <3>3. m \in 1..N /\ m - 1 \in k..N /\ k \in 0..N
        BY <1>1
      <3>4. G[m - 1][t] = G[k][t]
        BY <1>10, <3>2, <3>3
      <3>5. G[m] = Longer(G[m - 1]) /\ G[k + 1] = Longer(G[k])
        <4>1. k + 1 - 1 = k
          OBVIOUS
        <4> HIDE DEF Longer
        <4> QED
          BY <1>6, <2>1, <3>3, <4>1
      <3>6. G[m][s] = f[Picked(s)] + G[m - 1][t] /\ G[k + 1][s] = f[Picked(s)] + G[k][t]
        BY <2>2, <3>1, <3>5
      <3> QED
        BY <3>4, <3>6
    <2>3. ASSUME NEW m \in (k + 1)..N PROVE G[m][{}] = G[k + 1][{}]
      <3>1. m \in 0..N
        BY <1>1
      <3> QED
        BY <1>8, <2>1, <3>1
    <2> QED
      BY <2>1, <2>2, <2>3
  <1> HIDE DEF T
  <1>11. 0..N \subseteq T
    BY <1>1, <1>9, <1>10, BoundedInduction
  <1>12. ASSUME NEW s \in SUBSET S, NEW m \in 0..N, Cardinality(s) <= m
         PROVE  G[m][s] = G[N][s]
    <2>1. m \in T /\ N \in m..N
      BY <1>1, <1>11
    <2> QED
      BY <1>12, <2>1 DEF T
  <1> DEFINE g == [s \in SUBSET S |-> G[N][s]]
  <1>13. ASSUME NEW s \in SUBSET S
         PROVE  g[s] = IF s = {} THEN 0 ELSE f[Picked(s)] + g[s \ {Picked(s)}]
    <2>1. CASE s = {}
      BY <1>1, <1>8, <2>1
    <2>2. CASE s # {}
      <3>1. PICK t : t = s \ {Picked(s)}
        OBVIOUS
      <3>2. t \in SUBSET S /\ Cardinality(t) = Cardinality(s) - 1 /\ Cardinality(s) \in 1..N
        BY <2>2, <3>1, <1>1, <1>7, PickedOf
      <3>3. N \in 1..N /\ N - 1 \in 0..N /\ Cardinality(t) <= N - 1
        BY <1>1, <3>2
      <3>4. G[N - 1][t] = G[N][t]
        BY <1>12, <3>2, <3>3
      <3>5. G[N] = Longer(G[N - 1])
        BY <1>6, <3>3
      <3>6. G[N][s] = f[Picked(s)] + G[N - 1][t]
        BY <2>2, <3>1, <3>5
      <3> QED
        BY <2>2, <3>1, <3>2, <3>4, <3>6
    <2> QED
      BY <2>1, <2>2
  <1>14. g = [s \in SUBSET S |-> IF s = {} THEN 0 ELSE f[Picked(s)] + g[s \ {Picked(s)}]]
    <2>1. g = [s \in SUBSET S |-> g[s]]
      OBVIOUS
    <2> HIDE DEF g
    <2> QED
      BY <1>13, <2>1
  <1> HIDE DEF g
  <1> QED
    BY <1>14 DEF Summing

\* Whatever the fold picks first, an element adds its own value.
LEMMA SummingAdds ==
  ASSUME NEW S, IsFiniteSet(S), NEW f, \A x \in S : f[x] \in Int, NEW g, Summing(g, f, S)
  PROVE  /\ \A s \in SUBSET S : g[s] \in Int
         /\ \A s \in SUBSET S : \A x \in S \ s : g[s \cup {x}] = f[x] + g[s]
  <1> DEFINE P(s) == g[s] \in Int /\ \A x \in S \ s : g[s \cup {x}] = f[x] + g[s]
             T == {n \in Nat : \A s \in SUBSET S : Cardinality(s) <= n => P(s)}
  <1>1. /\ g[{}] = 0
        /\ \A s \in SUBSET S : s # {} => g[s] = f[Picked(s)] + g[s \ {Picked(s)}]
    BY SummingOf DEF SumsUp
  <1>2. \A s \in SUBSET S : Cardinality(s) \in Nat /\ IsFiniteSet(s)
    BY FS_Subset, FS_CardinalityType
  <1>3. 0 \in T
    <2>1. ASSUME NEW s \in SUBSET S, Cardinality(s) <= 0 PROVE P(s)
      <3>1. s = {}
        BY <2>1, <1>2, FS_EmptySet
      <3>2. ASSUME NEW x \in S PROVE g[{x}] = f[x]
        <4>1. {x} \in SUBSET S /\ {x} # {} /\ Picked({x}) = x /\ {x} \ {x} = {}
          BY DEF Picked
        <4>2. g[{x}] = f[x] + g[{}]
          BY <1>1, <4>1
        <4>3. f[x] \in Int
          OBVIOUS
        <4> QED
          BY <1>1, <4>2, <4>3
      <3>3. \A x \in S : g[{} \cup {x}] = f[x] + g[{}]
        <4>1. \A x \in S : {} \cup {x} = {x}
          OBVIOUS
        <4>2. \A x \in S : f[x] + 0 = f[x]
          OBVIOUS
        <4> QED
          BY <1>1, <3>2, <4>1, <4>2
      <3>4. P({})
        <4>1. g[{}] \in Int
          BY <1>1
        <4> QED
          BY <3>3, <4>1
      <3> HIDE DEF P
      <3> QED
        BY <3>1, <3>4
    <2> QED
      BY <2>1
  <1>4. ASSUME NEW n \in Nat, n \in T PROVE n + 1 \in T
    <2>1. ASSUME NEW s \in SUBSET S, Cardinality(s) <= n PROVE P(s)
      BY <1>4, <2>1
    <2>2. ASSUME NEW s \in SUBSET S, Cardinality(s) = n + 1 PROVE P(s)
      <3>1. s # {}
        BY <2>2, FS_EmptySet
      <3>2. g[s] \in Int
        <4>1. PICK t : t = s \ {Picked(s)}
          OBVIOUS
        <4>2. t \in SUBSET S /\ Cardinality(t) <= n /\ Picked(s) \in S
          BY <2>2, <3>1, <4>1, PickedOf
        <4>3. g[t] \in Int /\ f[Picked(s)] \in Int
          BY <2>1, <4>2
        <4>4. g[s] = f[Picked(s)] + g[t]
          BY <1>1, <3>1, <4>1
        <4> QED
          BY <4>3, <4>4
      <3>3. ASSUME NEW x \in S \ s PROVE g[s \cup {x}] = f[x] + g[s]
        <4>1. PICK u : u = s \cup {x}
          OBVIOUS
        <4>2. PICK y : y = Picked(u)
          OBVIOUS
        <4>3. u \in SUBSET S /\ u # {} /\ y \in u
          BY <4>1, <4>2 DEF Picked
        <4>4. g[u] = f[y] + g[u \ {y}]
          BY <1>1, <4>2, <4>3
        <4>5. CASE y = x
          <5>1. u \ {y} = s
            BY <4>1, <4>5
          <5> QED
            BY <4>1, <4>4, <4>5, <5>1
        <4>6. CASE y # x
          <5>1. y \in s
            BY <4>1, <4>3, <4>6
          <5>2. PICK t : t = s \ {y}
            OBVIOUS
          <5>3. t \in SUBSET S /\ u \ {y} = t \cup {x} /\ s = t \cup {y} /\ x \in S \ t /\ y \in S \ t
            BY <4>1, <4>6, <5>1, <5>2
          <5>4. Cardinality(t) <= n
            <6>1. Cardinality(t) = Cardinality(s) - 1
              BY <1>2, <5>1, <5>2, FS_RemoveElement
            <6> QED
              BY <2>2, <6>1
          <5>5. g[t] \in Int /\ g[t \cup {x}] = f[x] + g[t] /\ g[t \cup {y}] = f[y] + g[t]
            BY <2>1, <5>3, <5>4
          <5>6. f[x] \in Int /\ f[y] \in Int
            BY <5>1
          <5>7. g[u] = f[y] + (f[x] + g[t]) /\ g[s] = f[y] + g[t]
            BY <4>4, <5>3, <5>5
          <5>8. g[u] = f[x] + g[s]
            BY <5>5, <5>6, <5>7
          <5> QED
            BY <4>1, <5>8
        <4> QED
          BY <4>5, <4>6
      <3> QED
        BY <3>2, <3>3
    <2>3. ASSUME NEW s \in SUBSET S, Cardinality(s) <= n + 1 PROVE P(s)
      <3>1. Cardinality(s) <= n \/ Cardinality(s) = n + 1
        BY <1>2, <2>3
      <3> HIDE DEF P
      <3> QED
        BY <2>1, <2>2, <3>1
    <2> HIDE DEF P
    <2> QED
      BY <2>3
  <1> HIDE DEF T
  <1>5. Nat \subseteq T
    BY <1>3, <1>4, SetInduction
  <1>6. ASSUME NEW s \in SUBSET S PROVE P(s)
    <2>1. Cardinality(s) \in T /\ Cardinality(s) \in Nat
      BY <1>2, <1>5
    <2> HIDE DEF P
    <2> QED
      BY <2>1 DEF T
  <1> QED
    BY <1>6

\* The sum depends only on the values.
LEMMA SummingSame ==
  ASSUME NEW S, IsFiniteSet(S), NEW f, NEW g, Summing(g, f, S),
         NEW R, IsFiniteSet(R), NEW e, NEW h, Summing(h, e, R), R \subseteq S,
         \A x \in R : e[x] = f[x]
  PROVE  h[R] = g[R]
  <1>1. /\ g[{}] = 0 /\ h[{}] = 0
        /\ \A s \in SUBSET R : s # {} =>
             /\ g[s] = f[Picked(s)] + g[s \ {Picked(s)}]
             /\ h[s] = e[Picked(s)] + h[s \ {Picked(s)}]
    <2>1. SumsUp(g, f, S) /\ SumsUp(h, e, R)
      BY SummingOf
    <2> QED
      BY <2>1 DEF SumsUp
  <1> DEFINE T == {n \in Nat : \A s \in SUBSET R : Cardinality(s) <= n => h[s] = g[s]}
  <1>2. \A s \in SUBSET R : Cardinality(s) \in Nat /\ IsFiniteSet(s)
    BY FS_Subset, FS_CardinalityType
  <1>3. 0 \in T
    <2>1. ASSUME NEW s \in SUBSET R, Cardinality(s) <= 0 PROVE h[s] = g[s]
      <3>1. s = {}
        BY <2>1, <1>2, FS_EmptySet
      <3> QED
        BY <1>1, <3>1
    <2> QED
      BY <2>1
  <1>4. ASSUME NEW n \in Nat, n \in T PROVE n + 1 \in T
    <2>1. ASSUME NEW s \in SUBSET R, Cardinality(s) <= n + 1, s # {} PROVE h[s] = g[s]
      <3>1. PICK t : t = s \ {Picked(s)}
        OBVIOUS
      <3>2. t \in SUBSET R /\ Cardinality(t) <= n /\ Picked(s) \in R
        <4>1. Picked(s) \in s /\ t \in SUBSET R /\ Cardinality(t) = Cardinality(s) - 1
          BY <2>1, <3>1, PickedOf
        <4> QED
          BY <1>2, <2>1, <4>1
      <3>3. h[t] = g[t]
        BY <1>4, <3>2
      <3> QED
        BY <1>1, <2>1, <3>1, <3>2, <3>3
    <2>2. ASSUME NEW s \in SUBSET R, Cardinality(s) <= n + 1 PROVE h[s] = g[s]
      BY <1>1, <2>1, <2>2
    <2> QED
      BY <2>2
  <1> HIDE DEF T
  <1>5. Nat \subseteq T
    BY <1>3, <1>4, SetInduction
  <1>6. Cardinality(R) \in T
    BY <1>2, <1>5
  <1>7. Cardinality(R) <= Cardinality(R)
    BY <1>2
  <1> QED
    BY <1>6, <1>7 DEF T

\* What the fold is.
LEMMA SumOverIs ==
  ASSUME NEW S, IsFiniteSet(S), NEW f, \A x \in S : f[x] \in Int
  PROVE  \E g : Summing(g, f, S) /\ SumOver(f, S) = g[S]
  <1> DEFINE g == CHOOSE g : Summing(g, f, S)
  <1>1. Summing(g, f, S)
    BY SummingExists
  <1>2. SumOver(f, S) = g[S]
    BY DEF SumOver, MapThenSumSet, MapThenFoldSet, Summing, Picked
  <1> QED
    BY <1>1, <1>2

\* Induction over the subsets of a finite set.
THEOREM SubsetInduction ==
  ASSUME NEW S, IsFiniteSet(S), NEW T, {} \in T,
         \A s \in SUBSET S : \A x \in S \ s : s \in T => s \cup {x} \in T
  PROVE  S \in T
  <1> DEFINE U == {n \in Nat : \A s \in SUBSET S : Cardinality(s) = n => s \in T}
  <1>1. \A s \in SUBSET S : Cardinality(s) \in Nat /\ IsFiniteSet(s)
    BY FS_Subset, FS_CardinalityType
  <1>2. 0 \in U
    BY <1>1, FS_EmptySet
  <1>3. ASSUME NEW n \in Nat, n \in U PROVE n + 1 \in U
    <2>1. ASSUME NEW s \in SUBSET S, Cardinality(s) = n + 1 PROVE s \in T
      <3>1. s # {}
        BY <1>1, <2>1, FS_EmptySet
      <3>2. PICK x : x \in s
        BY <3>1
      <3>3. PICK t : t = s \ {x}
        OBVIOUS
      <3>4. t \in SUBSET S /\ x \in S \ t /\ s = t \cup {x}
        BY <3>2, <3>3
      <3>5. Cardinality(t) = Cardinality(s) - 1
        BY <1>1, <3>2, <3>3, FS_RemoveElement
      <3>6. t \in T
        BY <1>3, <2>1, <3>4, <3>5
      <3> QED
        BY <3>4, <3>6
    <2> QED
      BY <2>1
  <1> HIDE DEF U
  <1>4. Nat \subseteq U
    BY <1>2, <1>3, SetInduction
  <1>5. Cardinality(S) \in U
    BY <1>1, <1>4
  <1> QED
    BY <1>5 DEF U

\* The sum over nothing, and over one element more.
LEMMA SumOverAdds ==
  ASSUME NEW S, IsFiniteSet(S), NEW f, \A x \in S : f[x] \in Int
  PROVE  /\ SumOver(f, {}) = 0
         /\ \A s \in SUBSET S : SumOver(f, s) \in Int
         /\ \A s \in SUBSET S : \A x \in S \ s : SumOver(f, s \cup {x}) = f[x] + SumOver(f, s)
  <1>1. PICK g : Summing(g, f, S)
    BY SummingExists
  <1>2. ASSUME NEW s \in SUBSET S PROVE SumOver(f, s) = g[s]
    <2>1. IsFiniteSet(s)
      BY FS_Subset
    <2>2. PICK h : Summing(h, f, s) /\ SumOver(f, s) = h[s]
      BY <2>1, SumOverIs
    <2>3. h[s] = g[s]
      BY <1>1, <2>1, <2>2, SummingSame
    <2> QED
      BY <2>2, <2>3
  <1>3. g[{}] = 0
    <2>1. SumsUp(g, f, S)
      BY <1>1, SummingOf
    <2> QED
      BY <2>1 DEF SumsUp
  <1>4. /\ \A s \in SUBSET S : g[s] \in Int
        /\ \A s \in SUBSET S : \A x \in S \ s : g[s \cup {x}] = f[x] + g[s]
    BY <1>1, SummingAdds
  <1>5. \A s \in SUBSET S : \A x \in S \ s : s \cup {x} \in SUBSET S
    OBVIOUS
  <1> QED
    BY <1>2, <1>3, <1>4, <1>5

LEMMA SumOverSame ==
  ASSUME NEW S, IsFiniteSet(S), NEW f, \A x \in S : f[x] \in Int,
         NEW e, \A x \in S : e[x] = f[x]
  PROVE  SumOver(e, S) = SumOver(f, S)
  <1>1. PICK g : Summing(g, f, S) /\ SumOver(f, S) = g[S]
    BY SumOverIs
  <1>2. \A x \in S : e[x] \in Int
    OBVIOUS
  <1>3. PICK h : Summing(h, e, S) /\ SumOver(e, S) = h[S]
    BY <1>2, SumOverIs
  <1>4. h[S] = g[S]
    BY <1>1, <1>3, SummingSame
  <1> QED
    BY <1>1, <1>3, <1>4

\* The sum of the negative values.
LEMMA SumOverNegates ==
  ASSUME NEW S, IsFiniteSet(S), NEW f, \A x \in S : f[x] \in Int,
         NEW e, \A x \in S : e[x] = -f[x]
  PROVE  SumOver(e, S) = -SumOver(f, S)
  <1> DEFINE T == {s \in SUBSET S : SumOver(e, s) = -SumOver(f, s)}
  <1>1. \A x \in S : e[x] \in Int
    OBVIOUS
  <1>2. /\ SumOver(f, {}) = 0
        /\ \A s \in SUBSET S : SumOver(f, s) \in Int
        /\ \A s \in SUBSET S : \A x \in S \ s : SumOver(f, s \cup {x}) = f[x] + SumOver(f, s)
    BY SumOverAdds
  <1>3. /\ SumOver(e, {}) = 0
        /\ \A s \in SUBSET S : SumOver(e, s) \in Int
        /\ \A s \in SUBSET S : \A x \in S \ s : SumOver(e, s \cup {x}) = e[x] + SumOver(e, s)
    BY <1>1, SumOverAdds
  <1>4. {} \in T
    BY <1>2, <1>3
  <1>5. ASSUME NEW s \in SUBSET S, NEW x \in S \ s, s \in T PROVE s \cup {x} \in T
    <2>1. SumOver(f, s \cup {x}) = f[x] + SumOver(f, s) /\ SumOver(e, s \cup {x}) = e[x] + SumOver(e, s)
      BY <1>2, <1>3
    <2>2. SumOver(f, s) \in Int /\ f[x] \in Int /\ e[x] = -f[x] /\ SumOver(e, s) = -SumOver(f, s)
      BY <1>2, <1>5
    <2>3. SumOver(e, s \cup {x}) = -SumOver(f, s \cup {x})
      BY <2>1, <2>2
    <2> QED
      BY <2>3
  <1> HIDE DEF T
  <1>6. S \in T
    BY <1>4, <1>5, SubsetInduction
  <1> QED
    BY <1>6 DEF T

\* The sum over two sets with nothing in common.
LEMMA SumOverParts ==
  ASSUME NEW S, IsFiniteSet(S), NEW f, \A x \in S : f[x] \in Int, NEW R \in SUBSET S
  PROVE  /\ SumOver(f, S) = SumOver(f, R) + SumOver(f, S \ R)
         /\ SumOver(f, S) \in Int /\ SumOver(f, R) \in Int /\ SumOver(f, S \ R) \in Int
  <1> DEFINE T == {s \in SUBSET R : SumOver(f, (S \ R) \cup s) = SumOver(f, s) + SumOver(f, S \ R)}
  <1>1. /\ SumOver(f, {}) = 0
        /\ \A s \in SUBSET S : SumOver(f, s) \in Int
        /\ \A s \in SUBSET S : \A x \in S \ s : SumOver(f, s \cup {x}) = f[x] + SumOver(f, s)
    BY SumOverAdds
  <1>2. S \ R \in SUBSET S /\ S \in SUBSET S
    OBVIOUS
  <1>3. SumOver(f, S) \in Int /\ SumOver(f, R) \in Int /\ SumOver(f, S \ R) \in Int
    BY <1>1, <1>2
  <1>4. {} \in T
    <2>1. (S \ R) \cup {} = S \ R
      OBVIOUS
    <2> QED
      BY <1>1, <1>3, <2>1
  <1>5. ASSUME NEW s \in SUBSET R, NEW x \in R \ s, s \in T PROVE s \cup {x} \in T
    <2>1. PICK u : u = (S \ R) \cup s
      OBVIOUS
    <2>2. /\ u \in SUBSET S /\ s \in SUBSET S /\ x \in S \ u /\ x \in S \ s
          /\ (S \ R) \cup (s \cup {x}) = u \cup {x}
      BY <2>1
    <2>3. /\ SumOver(f, u \cup {x}) = f[x] + SumOver(f, u)
          /\ SumOver(f, s \cup {x}) = f[x] + SumOver(f, s)
          /\ SumOver(f, s) \in Int /\ f[x] \in Int
      BY <1>1, <2>2
    <2>4. SumOver(f, u) = SumOver(f, s) + SumOver(f, S \ R)
      BY <1>5, <2>1
    <2>5. SumOver(f, u \cup {x}) = SumOver(f, s \cup {x}) + SumOver(f, S \ R)
      BY <1>3, <2>3, <2>4
    <2> QED
      BY <2>2, <2>5
  <1> HIDE DEF T
  <1>6. IsFiniteSet(R)
    BY FS_Subset
  <1>7. R \in T
    BY <1>4, <1>5, <1>6, SubsetInduction
  <1>8. (S \ R) \cup R = S
    OBVIOUS
  <1> QED
    BY <1>3, <1>7, <1>8 DEF T

\* A set of natural numbers with a bound that is not empty has a greatest one.
LEMMA GreatestNatural ==
  ASSUME NEW N \in Nat, NEW T, T \subseteq 0..N, T # {}
  PROVE  \E n \in T : \A m \in T : n >= m
<1> DEFINE U == {k \in 0..N : N - k \in T}
<1>1. U \subseteq Nat
  OBVIOUS
<1>2. U # {}
  <2>1. PICK n \in T : TRUE
    OBVIOUS
  <2>2. N - n \in 0..N /\ N - (N - n) = n
    BY <2>1
  <2>3. N - n \in U
    BY <2>1, <2>2
  <2> QED
    BY <2>3
<1>3. \E k \in U : \A l \in U : k <= l
  <2> HIDE DEF U
  <2> QED
    BY <1>1, <1>2, LeastNatural
<1>4. PICK k \in U : \A l \in U : k <= l
  BY <1>3
<1>5. ASSUME NEW m \in T PROVE N - k >= m
  <2>1. m \in 0..N /\ N - m \in 0..N /\ N - (N - m) = m
    OBVIOUS
  <2>2. N - m \in U
    BY <2>1
  <2>3. k <= N - m /\ k \in 0..N
    BY <1>4, <2>2
  <2> QED
    BY <2>1, <2>3
<1> QED
  BY <1>4, <1>5

\* b gives each element of R another element of S, and leaves none out; e is f
\* with the elements renamed.
Renamed(e, f, b, R, S) ==
  /\ IsFiniteSet(R) /\ IsFiniteSet(S)
  /\ \A x \in S : f[x] \in Int
  /\ \A x \in R : b[x] \in S
  /\ \A x, y \in R : b[x] = b[y] => x = y
  /\ \A y \in S : \E x \in R : b[x] = y
  /\ \A x \in R : e[x] = f[b[x]]

\* The order of the terms of a sum and their names do not matter.
LEMMA SumOverOrder ==
  ASSUME NEW e, NEW f, NEW b, NEW R, NEW S, Renamed(e, f, b, R, S)
  PROVE  SumOver(e, R) = SumOver(f, S)
<1>0. /\ IsFiniteSet(R) /\ IsFiniteSet(S)
      /\ \A x \in S : f[x] \in Int
      /\ \A x \in R : b[x] \in S
      /\ \A x, y \in R : b[x] = b[y] => x = y
      /\ \A y \in S : \E x \in R : b[x] = y
      /\ \A x \in R : e[x] = f[b[x]]
  BY DEF Renamed
<1> USE <1>0
<1> DEFINE Image(s) == {b[x] : x \in s}
           T == {s \in SUBSET R : SumOver(e, s) = SumOver(f, Image(s))}
<1>1. \A x \in R : e[x] \in Int
  OBVIOUS
<1>2. /\ SumOver(e, {}) = 0
      /\ \A s \in SUBSET R : \A x \in R \ s : SumOver(e, s \cup {x}) = e[x] + SumOver(e, s)
  BY <1>1, SumOverAdds
<1>3. /\ SumOver(f, {}) = 0
      /\ \A s \in SUBSET S : \A x \in S \ s : SumOver(f, s \cup {x}) = f[x] + SumOver(f, s)
  BY SumOverAdds
<1>4. {} \in T
  <2>1. Image({}) = {}
    OBVIOUS
  <2> HIDE DEF Image
  <2> QED
    BY <1>2, <1>3, <2>1
<1>5. ASSUME NEW s \in SUBSET R, NEW x \in R \ s, s \in T PROVE s \cup {x} \in T
  <2>1. Image(s) \in SUBSET S /\ b[x] \in S \ Image(s)
    OBVIOUS
  <2>2. Image(s \cup {x}) = Image(s) \cup {b[x]}
    OBVIOUS
  <2>3. SumOver(e, s) = SumOver(f, Image(s))
    BY <1>5
  <2> HIDE DEF Image
  <2>4. SumOver(f, Image(s) \cup {b[x]}) = f[b[x]] + SumOver(f, Image(s))
    BY <1>3, <2>1
  <2>5. SumOver(e, s \cup {x}) = SumOver(f, Image(s \cup {x}))
    <3>1. SumOver(e, s \cup {x}) = e[x] + SumOver(e, s) /\ e[x] = f[b[x]]
      BY <1>2
    <3> QED
      BY <2>2, <2>3, <2>4, <3>1
  <2> QED
    BY <2>5
<1>6. R \in T
  <2> HIDE DEF T
  <2> QED
    BY <1>4, <1>5, SubsetInduction
<1>7. Image(R) = S
  OBVIOUS
<1> HIDE DEF Image
<1> QED
  BY <1>6, <1>7

=============================================================================
