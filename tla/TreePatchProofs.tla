--------------------------- MODULE TreePatchProofs ---------------------------
(***************************************************************************)
(* Proofs about TreePatch for any paths, trees, rules, limits and damage   *)
(* of one field.  Three arguments follow one another.  Inductive: each     *)
(* entry that was built is what StepAt gives for those before it, an       *)
(* implementation that ended was stopped by StepAt or by a check of the    *)
(* whole, and what the port has built begins what the reference built.     *)
(* What is accepted is sound: this invariant with the checks that precede  *)
(* acceptance, and with the fact that a walk along a target that           *)
(* validateSymlinkTarget accepts never climbs above the root.  What is     *)
(* created applies: each record stands for an entry of the target, so that *)
(* the records before the cursor give the target's entries.                *)
(***************************************************************************)
EXTENDS TreePatch, WellFoundedInduction, TLAPS

(* Numbers.  Facts about all numbers are proved by their least             *)
(* counterexample.                                                         *)

LEMMA LeastOf ==
  ASSUME NEW T \in SUBSET Nat, T # {}
  PROVE  \E n \in T : \A m \in T : n <= m
<1>1. IsWellFoundedOn(OpToRel(<, Nat), Nat)
  BY NatLessThanWellFounded, Zenon
<1>2. \A m, n \in Nat : <<m, n>> \in OpToRel(<, Nat) <=> m < n
  BY Zenon DEF OpToRel
<1>3. PICK R : IsWellFoundedOn(R, Nat) /\ \A m, n \in Nat : <<m, n>> \in R <=> m < n
  BY <1>1, <1>2, Zenon
<1>4. IsWellFoundedOn(R, Nat)
  BY <1>3, Zenon
<1>5. \A m, n \in Nat : <<m, n>> \in R <=> m < n
  BY <1>3, Zenon
<1>6. PICK n \in T : \A m \in T : ~(<<m, n>> \in R)
  BY <1>4, WFMin, Zenon
<1>7. n \in Nat /\ \A m \in T : m \in Nat /\ ~(m < n)
  BY <1>5, <1>6, Zenon
<1> QED BY <1>7

\* f starts from a, and G[n] is its n-th step.
Iterates(f, a, G, N) == f[0] = a /\ \A n \in 1..N : f[n] = G[n][f[n - 1]]

LEMMA Iteration ==
  ASSUME NEW N \in Nat, NEW a \in Int, NEW G \in [1..N -> [Int -> Int]]
  PROVE  \E f \in [0..N -> Int] : Iterates(f, a, G, N)
<1> DEFINE Upto(m) == \E f \in [0..m -> Int] : Iterates(f, a, G, m)
           T == {m \in Nat : m <= N /\ ~Upto(m)}
<1>1. Upto(0)
  <2> DEFINE f == [k \in 0..0 |-> a]
  <2>1. f \in [0..0 -> Int] /\ f[0] = a /\ 1..0 = {} OBVIOUS
  <2> HIDE DEF f
  <2> QED BY <2>1, Zenon DEF Iterates
<1>2. ASSUME NEW m \in Nat, m < N, Upto(m) PROVE Upto(m + 1)
  <2>1. PICK f \in [0..m -> Int] : f[0] = a /\ \A n \in 1..m : f[n] = G[n][f[n - 1]]
    BY <1>2, Zenon DEF Iterates
  <2> DEFINE g == [k \in 0..(m + 1) |-> IF k = m + 1 THEN G[m + 1][f[m]] ELSE f[k]]
  <2>2. G[m + 1][f[m]] \in Int
    <3>1. m + 1 \in 1..N /\ f[m] \in Int BY <1>2
    <3> QED BY <3>1, Zenon
  <2>3. g \in [0..(m + 1) -> Int]
    BY <2>2
  <2>4. g[0] = a /\ \A n \in 1..(m + 1) : g[n] = G[n][g[n - 1]]
    <3>1. g[0] = f[0] /\ \A k \in 0..m : g[k] = f[k] OBVIOUS
    <3>2. g[m + 1] = G[m + 1][f[m]] OBVIOUS
    <3> HIDE DEF g
    <3>3. ASSUME NEW n \in 1..(m + 1) PROVE g[n] = G[n][g[n - 1]]
      <4>1. CASE n = m + 1
        <5>1. n - 1 = m /\ m \in 0..m BY <4>1
        <5>2. g[n - 1] = f[m] BY <3>1, <5>1, Zenon
        <5> QED BY <3>2, <4>1, <5>2, Zenon
      <4>2. CASE n # m + 1
        <5>1. n \in 1..m /\ n \in 0..m /\ n - 1 \in 0..m BY <4>2
        <5> QED BY <2>1, <3>1, <5>1, Zenon
      <4> QED BY <4>1, <4>2, Zenon
    <3> QED BY <2>1, <3>1, <3>3, Zenon
  <2> HIDE DEF g
  <2> QED BY <2>3, <2>4, Zenon DEF Iterates
<1> HIDE DEF Upto
<1>3. T = {}
  <2> SUFFICES ASSUME T # {} PROVE FALSE
    BY Zenon
  <2>1. PICK m \in T : \A n \in T : m <= n
    BY LeastOf, Zenon
  <2>2. m # 0 BY <1>1, Zenon
  <2>3. m - 1 \in Nat /\ m - 1 < N /\ (m - 1) + 1 = m BY <2>2
  <2>4. Upto(m - 1) BY <2>1, <2>3
  <2>5. Upto((m - 1) + 1) BY <1>2, <2>3, <2>4, Zenon
  <2> QED BY <2>3, <2>5, Zenon
<1>4. N \in Nat /\ N <= N OBVIOUS
<1>5. N \notin T BY <1>3, Zenon
<1>6. Upto(N) BY <1>4, <1>5, Zenon
<1> QED BY <1>6, Zenon DEF Upto

SumStep(s, sum) == [n \in 0..Len(s) |-> IF n = 0 THEN 0 ELSE sum[n - 1] + s[n]]

LEMMA SumsDef ==
  ASSUME NEW s \in Seq(Int)
  PROVE  /\ Sums(s) \in [0..Len(s) -> Int]
         /\ Sums(s)[0] = 0
         /\ \A n \in 1..Len(s) : Sums(s)[n] = Sums(s)[n - 1] + s[n]
<1>0. PICK N \in Nat : N = Len(s) /\ \A n \in 1..N : s[n] \in Int
  OBVIOUS
<1> DEFINE G == [n \in 1..N |-> [x \in Int |-> x + s[n]]]
<1>1. \A n \in 1..N : \A x \in Int : G[n][x] = x + s[n]
  BY Zenon
<1>g. G \in [1..N -> [Int -> Int]]
  BY <1>0
<1> HIDE DEF G
<1>2. PICK f \in [0..N -> Int] : Iterates(f, 0, G, N)
  <2>1. 0 \in Int OBVIOUS
  <2> QED BY <1>g, <2>1, Iteration, Zenon
<1>3. f[0] = 0 /\ \A n \in 1..N : f[n] = G[n][f[n - 1]]
  BY <1>2, Zenon DEF Iterates
<1>4. f = SumStep(s, f)
  <2>1. \A n \in 0..N : f[n] = IF n = 0 THEN 0 ELSE f[n - 1] + s[n]
    <3>1. ASSUME NEW n \in 1..N PROVE f[n] = f[n - 1] + s[n]
      <4>1. f[n - 1] \in Int OBVIOUS
      <4> QED BY <1>1, <1>3, <4>1, Zenon
    <3> QED BY <1>3, <3>1
  <2>2. f = [n \in 0..N |-> f[n]] BY Zenon
  <2> QED BY <1>0, <2>1, <2>2, Zenon DEF SumStep
<1>5. Sums(s) = CHOOSE sum : sum = SumStep(s, sum)
  BY Zenon DEF Sums, SumStep
<1>6. Sums(s) = SumStep(s, Sums(s))
  BY <1>4, <1>5, Zenon
<1>7. /\ Sums(s)[0] = 0 /\ \A n \in 1..N : Sums(s)[n] = Sums(s)[n - 1] + s[n]
      /\ Sums(s) = [n \in 0..N |-> Sums(s)[n]]
  BY <1>0, <1>6 DEF SumStep
<1> DEFINE T == {n \in Nat : n <= N /\ Sums(s)[n] \notin Int}
<1>8. T = {}
  <2> SUFFICES ASSUME T # {} PROVE FALSE
    BY Zenon
  <2>1. PICK n \in T : \A m \in T : n <= m
    BY LeastOf, Zenon
  <2>2. n # 0 BY <1>7
  <2>3. n \in 1..N /\ Sums(s)[n - 1] \in Int BY <2>1, <2>2
  <2>4. s[n] \in Int BY <1>0, <2>3, Zenon
  <2>5. Sums(s)[n] = Sums(s)[n - 1] + s[n] BY <1>7, <2>3, Zenon
  <2>6. Sums(s)[n] \in Int BY <2>3, <2>4, <2>5
  <2> QED BY <2>6, Zenon
<1>9. \A n \in 0..N : Sums(s)[n] \in Int BY <1>8
<1> QED BY <1>0, <1>7, <1>9, Zenon

\* Equal beginnings have equal sums.
LEMMA SumsAgree ==
  ASSUME NEW s \in Seq(Int), NEW t \in Seq(Int), NEW k \in Nat, k <= Len(s), k <= Len(t),
         \A n \in 1..k : s[n] = t[n]
  PROVE  \A n \in 0..k : Sums(s)[n] = Sums(t)[n]
<1> DEFINE T == {n \in Nat : n <= k /\ Sums(s)[n] # Sums(t)[n]}
<1> SUFFICES ASSUME T # {} PROVE FALSE
  OBVIOUS
<1>1. PICK n \in T : \A m \in T : n <= m
  BY LeastOf, Zenon
<1>2. n # 0 BY SumsDef, Zenon
<1>3. Sums(s)[n - 1] = Sums(t)[n - 1] BY <1>1, <1>2
<1>4. /\ n \in 1..Len(s) /\ n \in 1..Len(t) /\ n \in 1..k
  BY <1>2
<1>5. Sums(s)[n] = Sums(s)[n - 1] + s[n] BY <1>4, SumsDef, Zenon
<1>6. Sums(t)[n] = Sums(t)[n - 1] + t[n] BY <1>4, SumsDef, Zenon
<1> QED BY <1>3, <1>4, <1>5, <1>6, Zenon

\* The recursion of Depth has a solution: a parent is smaller.
DepthStep(f) == [p \in Paths |-> IF Parent[p] = 0 THEN 0 ELSE 1 + f[Parent[p]]]

DepthUpto(n, f) ==
    f = [p \in {q \in Paths : q <= n} |-> IF Parent[p] = 0 THEN 0 ELSE 1 + f[Parent[p]]]

LEMMA DepthDef == Depth \in [Paths -> Nat]
<1>DepthsExist. \A n \in Nat : \E f \in [{q \in Paths : q <= n} -> Nat] : DepthUpto(n, f)
  <2> DEFINE Below(n) == {q \in Paths : q <= n}
             T == {n \in Nat : ~\E f \in [Below(n) -> Nat] : DepthUpto(n, f)}
  <2> SUFFICES ASSUME T # {} PROVE FALSE
    BY Zenon
  <2>1. PICK n \in T : \A m \in T : n <= m
    BY LeastOf, Zenon
  <2>2. n # 0
    <3>1. Below(0) = {} BY TreePatchAssumption
    <3>2. [q \in Below(0) |-> 0] \in [Below(0) -> Nat] BY Zenon
    <3>3. DepthUpto(0, [q \in Below(0) |-> 0]) BY <3>1, Zenon DEF DepthUpto
    <3> QED BY <3>2, <3>3, Zenon
  <2>3. n - 1 \in Nat /\ n - 1 \notin T BY <2>1, <2>2
  <2>4. PICK f \in [Below(n - 1) -> Nat] : DepthUpto(n - 1, f)
    BY <2>3, Zenon
  <2> DEFINE d(p) == IF Parent[p] = 0 THEN 0 ELSE 1 + f[Parent[p]]
             g == [p \in Below(n) |-> d(p)]
  <2>5. ASSUME NEW p \in Below(n), Parent[p] # 0 PROVE Parent[p] \in Below(n - 1)
    <3>1. Parent[p] \in Paths /\ Parent[p] < p BY <2>5, TreePatchAssumption, Zenon
    <3>2. Parent[p] \in Nat /\ p \in Nat BY <3>1, TreePatchAssumption, Zenon
    <3> QED BY <3>1, <3>2
  <2>6. g \in [Below(n) -> Nat]
    <3>1. \A p \in Below(n) : d(p) \in Nat BY <2>4, <2>5
    <3> QED BY <3>1, Zenon
  <2>7. \A p \in Below(n - 1) : p \in Below(n) /\ g[p] = f[p]
    <3>1. \A p \in Below(n - 1) : p \in Below(n) BY <2>3, TreePatchAssumption
    <3>2. \A p \in Below(n - 1) : f[p] = d(p) BY <2>4, Zenon DEF DepthUpto
    <3> QED BY <3>1, <3>2, Zenon
  <2>8. DepthUpto(n, g)
    <3>1. \A p \in Below(n) : Parent[p] # 0 => g[Parent[p]] = f[Parent[p]]
      BY <2>5, <2>7, Zenon
    <3>2. \A p \in Below(n) : d(p) = IF Parent[p] = 0 THEN 0 ELSE 1 + g[Parent[p]]
      BY <3>1, Zenon
    <3> QED BY <3>2, Zenon DEF DepthUpto
  <2> QED BY <2>6, <2>8, Zenon
<1>DepthsAgree. ASSUME NEW m \in Nat, NEW n \in Nat,
                       NEW f \in [{q \in Paths : q <= m} -> Nat], NEW g \in [{q \in Paths : q <= n} -> Nat],
                       DepthUpto(m, f), DepthUpto(n, g)
                PROVE  \A p \in Paths : p <= m /\ p <= n => f[p] = g[p]
  <2> USE <1>DepthsAgree
  <2> DEFINE T == {p \in Nat : p \in Paths /\ p <= m /\ p <= n /\ f[p] # g[p]}
  <2>0. Paths \subseteq Nat BY TreePatchAssumption, Zenon
  <2> SUFFICES ASSUME T # {} PROVE FALSE
    BY <2>0, Zenon
  <2>1. PICK p \in T : \A q \in T : p <= q
    BY LeastOf, Zenon
  <2>2. /\ f[p] = IF Parent[p] = 0 THEN 0 ELSE 1 + f[Parent[p]]
        /\ g[p] = IF Parent[p] = 0 THEN 0 ELSE 1 + g[Parent[p]]
    BY Zenon DEF DepthUpto
  <2>3. Parent[p] # 0 BY <2>2, Zenon
  <2>4. Parent[p] \in Paths /\ Parent[p] < p /\ Parent[p] \in Nat BY <2>3, TreePatchAssumption, Zenon
  <2>5. f[Parent[p]] = g[Parent[p]] BY <2>1, <2>4
  <2> QED BY <2>2, <2>5, Zenon
<1> DEFINE Below(n) == {q \in Paths : q <= n}
           upto == [n \in Nat |-> CHOOSE f \in [Below(n) -> Nat] : DepthUpto(n, f)]
           d == [p \in Paths |-> upto[p][p]]
<1>0. Paths \subseteq Nat BY TreePatchAssumption, Zenon
<1>1. \A n \in Nat : upto[n] \in [Below(n) -> Nat] /\ DepthUpto(n, upto[n])
  BY <1>DepthsExist, Zenon
<1> HIDE DEF upto
<1>2. ASSUME NEW p \in Paths, Parent[p] # 0
      PROVE  /\ Parent[p] \in Paths /\ Parent[p] < p
             /\ upto[p][Parent[p]] = upto[Parent[p]][Parent[p]]
  <2>1. Parent[p] \in Paths /\ Parent[p] < p /\ p \in Nat /\ Parent[p] \in Nat
    BY <1>2, TreePatchAssumption, Zenon
  <2>2. \A q \in Paths : q <= p /\ q <= Parent[p] => upto[p][q] = upto[Parent[p]][q]
    BY <1>1, <2>1, <1>DepthsAgree, Zenon
  <2> QED BY <2>1, <2>2
<1>3. ASSUME NEW p \in Paths PROVE d[p] = IF Parent[p] = 0 THEN 0 ELSE 1 + d[Parent[p]]
  <2>0. p \in Nat /\ p \in Below(p) BY <1>0
  <2>1. DepthUpto(p, upto[p]) BY <1>1, <2>0, Zenon
  <2>2. upto[p][p] = IF Parent[p] = 0 THEN 0 ELSE 1 + upto[p][Parent[p]]
    BY <2>0, <2>1, Zenon DEF DepthUpto
  <2> QED BY <1>2, <2>2, Zenon
<1>4. d = DepthStep(d) BY <1>3, Zenon DEF DepthStep
<1>5. Depth = CHOOSE f : f = DepthStep(f) BY Zenon DEF Depth, DepthStep
<1>6. Depth = DepthStep(Depth) BY <1>4, <1>5, Zenon
<1>7. Depth = [p \in Paths |-> Depth[p]] BY <1>6, Zenon DEF DepthStep
<1> DEFINE T == {p \in Nat : p \in Paths /\ Depth[p] \notin Nat}
<1>8. T = {}
  <2> SUFFICES ASSUME T # {} PROVE FALSE
    BY Zenon
  <2>1. PICK p \in T : \A q \in T : p <= q
    BY LeastOf, Zenon
  <2>2. Depth[p] = IF Parent[p] = 0 THEN 0 ELSE 1 + Depth[Parent[p]] BY <1>6, Zenon DEF DepthStep
  <2>3. Parent[p] # 0 BY <2>2
  <2>4. Parent[p] \in Paths /\ Parent[p] < p /\ Parent[p] \in Nat BY <2>3, TreePatchAssumption, Zenon
  <2>5. Depth[Parent[p]] \in Nat BY <2>1, <2>4
  <2> QED BY <2>2, <2>5
<1>9. \A p \in Paths : Depth[p] \in Nat BY <1>0, <1>8, Zenon
<1> QED BY <1>7, <1>9, Zenon

-----------------------------------------------------------------------------
(* A symlink that validateSymlinkTarget accepts stays inside.              *)

DepthAlong(path, components, f) ==
    [n \in 0..Len(components) |->
        IF n = 0 THEN Depth[path]
        ELSE IF f[n - 1] < 0 THEN f[n - 1]
        ELSE IF components[n] = 2 THEN f[n - 1] - 1 ELSE f[n - 1] + 1]

\* The step that a component makes.
Goes(data, n) == IF data[n] = 2 THEN -1 ELSE 1

\* The depth after each component, up to the one that leaves the root.
Walks(f, top, data, N) ==
    f[0] = top /\ \A n \in 1..N : f[n] = IF f[n - 1] < 0 THEN f[n - 1] ELSE f[n - 1] + Goes(data, n)

Adds(sum, data, N) == sum[0] = 0 /\ \A n \in 1..N : sum[n] = sum[n - 1] + Goes(data, n)

LEMMA ValidTargetStaysInside ==
  \A e : e.path \in Paths /\ e.data \in Seq(Nat) /\ TargetIsValid(e.path, e.data) => StaysInside(e)
<1>ValidTargetWalk.
    ASSUME NEW path \in Paths, NEW components \in Seq(Nat), TargetIsValid(path, components)
    PROVE  \E f \in [0..Len(components) -> Int] :
              f = DepthAlong(path, components, f) /\ f[Len(components)] >= 0
  <2> USE <1>ValidTargetWalk
  <2>0. PICK N \in Nat : N = Len(components)
    OBVIOUS
  <2>d. Depth[path] \in Int BY DepthDef
  <2> DEFINE next(n, x) == IF x < 0 THEN x ELSE IF components[n] = 2 THEN x - 1 ELSE x + 1
             G == [n \in 1..N |-> [x \in Int |-> next(n, x)]]
  <2>1. \A n \in 1..N : \A x \in Int : G[n][x] = next(n, x)
    BY Zenon
  <2>g. G \in [1..N -> [Int -> Int]]
    OBVIOUS
  <2> HIDE DEF G
  <2>2. PICK f \in [0..N -> Int] : Iterates(f, Depth[path], G, N)
    BY <2>g, <2>d, Iteration, Zenon
  <2>3. f[0] = Depth[path] /\ \A n \in 1..N : f[n] = G[n][f[n - 1]]
    BY <2>2, Zenon DEF Iterates
  <2>4. f = DepthAlong(path, components, f)
    <3>1. \A n \in 0..N : f[n] = IF n = 0 THEN Depth[path] ELSE next(n, f[n - 1])
      <4>1. ASSUME NEW n \in 1..N PROVE f[n] = next(n, f[n - 1])
        <5>1. f[n - 1] \in Int OBVIOUS
        <5> QED BY <2>1, <2>3, <5>1, Zenon
      <4> QED BY <2>3, <4>1
    <3>2. f = [n \in 0..N |-> f[n]] BY Zenon
    <3> QED BY <2>0, <3>1, <3>2, Zenon DEF DepthAlong
  <2> DEFINE c == CHOOSE g : g = DepthAlong(path, components, g)
  <2>5. c[Len(components)] >= 0
    BY Zenon DEF TargetIsValid, DepthAlong
  <2>6. c = DepthAlong(path, components, c)
    BY <2>4, Zenon
  <2> HIDE DEF c
  <2>7. /\ c[0] = Depth[path] /\ \A n \in 1..N : c[n] = next(n, c[n - 1])
        /\ c = [n \in 0..N |-> c[n]]
    BY <2>0, <2>6 DEF DepthAlong
  <2> DEFINE T == {n \in Nat : n <= N /\ c[n] \notin Int}
  <2>8. T = {}
    <3> SUFFICES ASSUME T # {} PROVE FALSE
      BY Zenon
    <3>1. PICK n \in T : \A m \in T : n <= m
      BY LeastOf, Zenon
    <3>2. n # 0 BY <2>d, <2>7, Zenon
    <3>3. n \in 1..N /\ c[n - 1] \in Int BY <3>1, <3>2
    <3>4. c[n] = next(n, c[n - 1]) BY <2>7, <3>3, Zenon
    <3>5. c[n] \in Int BY <3>3, <3>4
    <3> QED BY <3>5, Zenon
  <2>9. \A n \in 0..N : c[n] \in Int BY <2>8
  <2>10. c \in [0..N -> Int] BY <2>7, <2>9, Zenon
  <2> QED BY <2>0, <2>5, <2>6, <2>10, Zenon
<1>SameSum. ASSUME NEW x, NEW y \in Nat, NEW z \in Int, NEW u \in Int, x = y + z
            PROVE  x + u = y + (z + u)
BY <1>SameSum
\* A walk that does not end below the root is nowhere below it, and is the sum of its steps.
<1>WalkIsSum. ASSUME NEW N \in Nat, NEW top \in Nat, NEW data, NEW f \in [0..N -> Int], NEW sum \in [0..N -> Int],
                     Walks(f, top, data, N), Adds(sum, data, N), f[N] >= 0
              PROVE  \A n \in 0..N : top + sum[n] >= 0
  <2> USE <1>WalkIsSum
  <2>1. ASSUME NEW k \in 0..N, f[k] < 0 PROVE FALSE
    <3> DEFINE T == {n \in Nat : k <= n /\ n <= N /\ ~(f[n] < 0)}
    <3>1. N \in T OBVIOUS
    <3>2. PICK n \in T : \A m \in T : n <= m
      BY <3>1, LeastOf, Zenon
    <3>3. n # k BY <2>1, Zenon
    <3>4. n - 1 \in Nat /\ k <= n - 1 /\ n - 1 <= N /\ n \in 1..N BY <3>2, <3>3
    <3>5. f[n - 1] < 0 BY <3>2, <3>4
    <3>6. f[n] = f[n - 1] BY <3>4, <3>5, Zenon DEF Walks
    <3> QED BY <3>5, <3>6, Zenon
  <2> DEFINE T == {n \in Nat : n <= N /\ f[n] # top + sum[n]}
  <2>2. T = {}
    <3> SUFFICES ASSUME T # {} PROVE FALSE
      BY Zenon
    <3>1. PICK n \in T : \A m \in T : n <= m
      BY LeastOf, Zenon
    <3>2. n # 0 BY DEF Walks, Adds
    <3>3. n \in 1..N /\ n - 1 \in 0..N BY <3>2
    <3>4. f[n - 1] = top + sum[n - 1] BY <3>1, <3>3
    <3>5. ~(f[n - 1] < 0) BY <2>1, <3>3, Zenon
    <3>6. f[n] = f[n - 1] + Goes(data, n) BY <3>3, <3>5, Zenon DEF Walks
    <3>7. sum[n] = sum[n - 1] + Goes(data, n) BY <3>3, Zenon DEF Adds
    <3>8. f[n - 1] \in Int /\ sum[n - 1] \in Int /\ Goes(data, n) \in Int BY <3>3 DEF Goes
    <3>10. f[n - 1] + Goes(data, n) = top + (sum[n - 1] + Goes(data, n))
      BY <3>4, <3>8, <1>SameSum, Zenon
    <3>11. f[n] = top + sum[n] BY <3>6, <3>7, <3>10, Zenon
    <3> QED BY <3>11, Zenon
  <2>3. ASSUME NEW n \in 0..N PROVE top + sum[n] >= 0
    <3>1. f[n] = top + sum[n]
      <4>1. n \in Nat /\ n <= N OBVIOUS
      <4>2. n \notin T BY <2>2, Zenon
      <4> QED BY <4>1, <4>2, Zenon
    <3>2. ~(f[n] < 0) BY <2>1, Zenon
    <3> QED BY <3>1, <3>2
  <2> QED BY <2>3, Zenon
<1> SUFFICES ASSUME NEW e, e.path \in Paths, e.data \in Seq(Nat), TargetIsValid(e.path, e.data)
             PROVE  StaysInside(e)
  BY Zenon
<1> DEFINE steps == [n \in DOMAIN e.data |-> IF e.data[n] = 2 THEN -1 ELSE 1]
<1>0. PICK N \in Nat : N = Len(e.data) /\ DOMAIN e.data = 1..N
  OBVIOUS
<1>1. steps \in Seq(Int) /\ Len(steps) = N /\ \A n \in 1..N : steps[n] = IF e.data[n] = 2 THEN -1 ELSE 1
  BY <1>0
<1> HIDE DEF steps
<1>2. /\ Sums(steps) \in [0..N -> Int] /\ Sums(steps)[0] = 0
      /\ \A n \in 1..N : Sums(steps)[n] = Sums(steps)[n - 1] + steps[n]
  BY <1>1, SumsDef, Zenon
<1>3. PICK f \in [0..N -> Int] : f = DepthAlong(e.path, e.data, f) /\ f[N] >= 0
  BY <1>0, <1>ValidTargetWalk, Zenon
<1>4. Walks(f, Depth[e.path], e.data, N)
  <2>1. f = [n \in 0..N |-> IF n = 0 THEN Depth[e.path]
                           ELSE IF f[n - 1] < 0 THEN f[n - 1]
                           ELSE IF e.data[n] = 2 THEN f[n - 1] - 1 ELSE f[n - 1] + 1]
    BY <1>0, <1>3, Zenon DEF DepthAlong
  <2>2. ASSUME NEW n \in 1..N
        PROVE  f[n] = IF f[n - 1] < 0 THEN f[n - 1] ELSE f[n - 1] + Goes(e.data, n)
    <3>1. n \in 0..N /\ n # 0 /\ f[n - 1] \in Int OBVIOUS
    <3>2. f[n] = IF f[n - 1] < 0 THEN f[n - 1]
                 ELSE IF e.data[n] = 2 THEN f[n - 1] - 1 ELSE f[n - 1] + 1
      BY <2>1, <3>1, Zenon
    <3> QED BY <3>1, <3>2, Zenon DEF Goes
  <2>3. f[0] = Depth[e.path]
    <3>1. 0 \in 0..N OBVIOUS
    <3> QED BY <2>1, <3>1, Zenon
  <2> QED BY <2>2, <2>3, Zenon DEF Walks
<1>5. Depth[e.path] \in Nat BY DepthDef, Zenon
<1>6. Adds(Sums(steps), e.data, N)
  BY <1>1, <1>2, Zenon DEF Adds, Goes
<1>7. \A n \in 0..N : Depth[e.path] + Sums(steps)[n] >= 0
  BY <1>2, <1>3, <1>4, <1>5, <1>6, <1>WalkIsSum, Zenon
<1> QED BY <1>0, <1>7, Zenon DEF StaysInside, steps

-----------------------------------------------------------------------------
(* Decoding: the first check that fails names the error.                   *)

LEMMA FirstOfIs ==
  ASSUME NEW c, NEW n \in Nat, DOMAIN c = 1..n
  PROVE  \/ FirstOf(c) = "" /\ \A k \in 1..n : ~c[k][1]
         \/ \E k \in 1..n : c[k][1] /\ FirstOf(c) = c[k][2]
<1> DEFINE holds == {k \in DOMAIN c : c[k][1]}
           first == CHOOSE k \in holds : \A j \in holds : k <= j
<1>1. FirstOf(c) = IF holds = {} THEN "" ELSE c[first][2]
  BY Zenon DEF FirstOf
<1>2. CASE holds = {}
  <2>1. \A k \in 1..n : ~c[k][1] BY <1>2, Zenon
  <2> QED BY <1>1, <1>2, <2>1, Zenon
<1>3. CASE holds # {}
  <2>1. holds \in SUBSET Nat OBVIOUS
  <2>2. \E k \in holds : \A j \in holds : k <= j BY <1>3, <2>1, LeastOf, Zenon
  <2>3. first \in holds BY <2>2, Zenon
  <2>4. first \in 1..n /\ c[first][1] BY <2>3, Zenon
  <2>5. FirstOf(c) = c[first][2] BY <1>1, <1>3, Zenon
  <2> QED BY <2>4, <2>5, Zenon
<1> QED BY <1>2, <1>3, Zenon

\* The names of the errors are not empty, so that "" means that no check failed.
LEMMA FirstOfNamed ==
  ASSUME NEW c, NEW n \in Nat, DOMAIN c = 1..n, NEW Names, "" \notin Names,
         \A k \in 1..n : c[k][2] \in Names
  PROVE  /\ FirstOf(c) = "" <=> \A k \in 1..n : ~c[k][1]
         /\ FirstOf(c) # "" => FirstOf(c) \in Names
<1>1. CASE FirstOf(c) = "" /\ \A k \in 1..n : ~c[k][1] BY <1>1, Zenon
<1>2. CASE \E k \in 1..n : c[k][1] /\ FirstOf(c) = c[k][2]
  <2>1. PICK k \in 1..n : c[k][1] /\ FirstOf(c) = c[k][2] BY <1>2, Zenon
  <2>2. FirstOf(c) \in Names BY <2>1, Zenon
  <2>3. FirstOf(c) # "" BY <2>2, Zenon
  <2> QED BY <2>1, <2>2, <2>3, Zenon
<1> QED BY <1>1, <1>2, FirstOfIs, Zenon

\* The errors of decoding.
Refusals == {"LimitExceeded", "UnexpectedEndOfInput", "InvalidMagic", "UnsupportedVersion",
             "PatchHashMismatch", "ReaderTooOld", "UnsupportedFlags", "InvalidRule",
             "InvalidOperation", "InvalidPath", "OmittedMetadataPresent", "InvalidPayload",
             "InvalidHardlinkRelation", "BadMetadata", "InvalidSparseExtent", "Misread", "Filter",
             "TrailingData", "InvalidSnapshot"}

LEMMA EmptyIsNoRefusal == "" \notin Refusals /\ "none" \notin Refusals
  BY Zenon DEF Refusals

LEMMA PrefixErrorIs ==
  ASSUME NEW p
  PROVE  /\ PrefixError(p) # "" => PrefixError(p) \in Refusals
         /\ PrefixError(p) = "" <=>
               /\ ~(HeaderLength + BodyBytes(p) > Limits.patch)
               /\ p.seal # "short" /\ p.seal # "magic" /\ p.version = 2 /\ p.seal # "bad"
               /\ ~(p.needed > 2) /\ ~p.unknown
               /\ ~(p.ruleCount > Limits.rules \/ p.entryCount > Limits.entries)
               /\ ~(\/ p.ruleCount > BodyBytes(p) \div MinRule
                    \/ p.entryCount > (BodyBytes(p) - p.ruleCount * MinRule) \div MinEntry)
<1> DEFINE c1 == HeaderLength + BodyBytes(p) > Limits.patch
           c8 == p.ruleCount > Limits.rules \/ p.entryCount > Limits.entries
           c9 == \/ p.ruleCount > BodyBytes(p) \div MinRule
                 \/ p.entryCount > (BodyBytes(p) - p.ruleCount * MinRule) \div MinEntry
           c == <<<<c1, "LimitExceeded">>,
                  <<p.seal = "short", "UnexpectedEndOfInput">>,
                  <<p.seal = "magic", "InvalidMagic">>,
                  <<p.version # 2, "UnsupportedVersion">>,
                  <<p.seal = "bad", "PatchHashMismatch">>,
                  <<p.needed > 2, "ReaderTooOld">>,
                  <<p.unknown, "UnsupportedFlags">>,
                  <<c8, "LimitExceeded">>,
                  <<c9, "UnexpectedEndOfInput">>>>
<1>1. PrefixError(p) = FirstOf(c) BY Zenon DEF PrefixError
<1> HIDE DEF c1, c8, c9
<1>2. DOMAIN c = 1..9 OBVIOUS
<1>3. /\ (c[1][1] <=> c1) /\ (c[2][1] <=> p.seal = "short")
      /\ (c[3][1] <=> p.seal = "magic") /\ (c[4][1] <=> p.version # 2)
      /\ (c[5][1] <=> p.seal = "bad") /\ (c[6][1] <=> p.needed > 2)
      /\ (c[7][1] <=> p.unknown) /\ (c[8][1] <=> c8) /\ (c[9][1] <=> c9)
  BY Zenon
<1>4. {c[1][2], c[2][2], c[3][2], c[4][2], c[5][2], c[6][2], c[7][2], c[8][2], c[9][2]} \subseteq Refusals
  BY Zenon DEF Refusals
<1> HIDE DEF c
<1>5. \A k \in 1..9 : k \in {1, 2, 3, 4, 5, 6, 7, 8, 9} OBVIOUS
<1>6. \A k \in 1..9 : c[k][2] \in Refusals BY <1>4, <1>5, Zenon
<1>7. /\ FirstOf(c) = "" <=> \A k \in 1..9 : ~c[k][1]
      /\ FirstOf(c) # "" => FirstOf(c) \in Refusals
  BY <1>2, <1>6, EmptyIsNoRefusal, FirstOfNamed, Zenon
<1>8. {1, 2, 3, 4, 5, 6, 7, 8, 9} \subseteq 1..9 OBVIOUS
<1>9. (\A k \in 1..9 : ~c[k][1]) <=>
         /\ ~c[1][1] /\ ~c[2][1] /\ ~c[3][1] /\ ~c[4][1] /\ ~c[5][1] /\ ~c[6][1]
         /\ ~c[7][1] /\ ~c[8][1] /\ ~c[9][1]
  BY <1>5, <1>8, Zenon
<1> QED BY <1>1, <1>3, <1>7, <1>9, Zenon DEF c1, c8, c9

LEMMA RuleErrorIs ==
  ASSUME NEW p, NEW i
  PROVE  /\ RuleError(p, i) # "" => RuleError(p, i) \in Refusals
         /\ RuleError(p, i) = "" <=>
               /\ ~(p.rules[i].action \notin {1, 2} \/ p.rules[i].reserved # 0)
               /\ ~(p.rules[i].pattern > Limits.pattern)
               /\ ~(p.rules[i].pattern = 0)
               /\ ~(IsCut(p, i))
<1> DEFINE c1 == p.rules[i].action \notin {1, 2} \/ p.rules[i].reserved # 0
           c2 == p.rules[i].pattern > Limits.pattern
           c3 == p.rules[i].pattern = 0
           c4 == IsCut(p, i)
           c == <<<<c1, "InvalidRule">>,
                  <<c2, "LimitExceeded">>,
                  <<c3, "InvalidRule">>,
                  <<c4, "UnexpectedEndOfInput">>>>
<1>1. RuleError(p, i) = FirstOf(c) BY Zenon DEF RuleError
<1> HIDE DEF c1, c2, c3, c4
<1>2. DOMAIN c = 1..4 OBVIOUS
<1>3. (c[1][1] <=> c1) /\ (c[2][1] <=> c2) /\ (c[3][1] <=> c3) /\ (c[4][1] <=> c4)
  BY Zenon
<1>4. {c[1][2], c[2][2], c[3][2], c[4][2]} \subseteq Refusals
  BY Zenon DEF Refusals
<1> HIDE DEF c
<1>5. \A k \in 1..4 : k \in {1, 2, 3, 4} OBVIOUS
<1>6. \A k \in 1..4 : c[k][2] \in Refusals BY <1>4, <1>5, Zenon
<1>7. /\ FirstOf(c) = "" <=> \A k \in 1..4 : ~c[k][1]
      /\ FirstOf(c) # "" => FirstOf(c) \in Refusals
  BY <1>2, <1>6, EmptyIsNoRefusal, FirstOfNamed, Zenon
<1>8. {1, 2, 3, 4} \subseteq 1..4 OBVIOUS
<1>9. (\A k \in 1..4 : ~c[k][1]) <=>
         ~c[1][1] /\ ~c[2][1] /\ ~c[3][1] /\ ~c[4][1]
  BY <1>5, <1>8, Zenon
<1> QED BY <1>1, <1>3, <1>7, <1>9, Zenon DEF c1, c2, c3, c4

LEMMA EntryErrorIs ==
  ASSUME NEW p, NEW i
  PROVE  /\ EntryError(p, i) # "" => EntryError(p, i) \in Refusals
         /\ EntryError(p, i) = "" <=>
               /\ ~(p.entries[i].op = "unknown")
               /\ ~(p.entries[i].reserved # 0)
               /\ ~(p.entries[i].path = 0)
               /\ ~(IsCut(p, Len(p.rules) + i))
               /\ ~(HasOmitted(p.entries[i].meta, p.omit))
               /\ ~(p.entries[i].op \in {"directory", "copy"} /\ ~NoPayload(p.entries[i]))
               /\ ~(p.entries[i].op = "symlink" /\ PayloadBytes(p.entries[i]) > Limits.symlink)
               /\ (p.entries[i].meta.link # 0 <=> p.entries[i].op = "hardlink")
               /\ ~(p.entries[i].meta.link # 0 /\ (p.entries[i].ref # p.entries[i].meta.link \/ p.entries[i].bytes # <<>>))
<1> DEFINE c1 == p.entries[i].op = "unknown"
           c2 == p.entries[i].reserved # 0
           c3 == p.entries[i].path = 0
           c4 == IsCut(p, Len(p.rules) + i)
           c5 == HasOmitted(p.entries[i].meta, p.omit)
           c6 == p.entries[i].op \in {"directory", "copy"} /\ ~NoPayload(p.entries[i])
           c7 == p.entries[i].op = "symlink" /\ PayloadBytes(p.entries[i]) > Limits.symlink
           c8 == (p.entries[i].meta.link # 0) # (p.entries[i].op = "hardlink")
           c9 == p.entries[i].meta.link # 0 /\ (p.entries[i].ref # p.entries[i].meta.link \/ p.entries[i].bytes # <<>>)
           c == <<<<c1, "InvalidOperation">>,
                  <<c2, "UnsupportedFlags">>,
                  <<c3, "InvalidPath">>,
                  <<c4, "UnexpectedEndOfInput">>,
                  <<c5, "OmittedMetadataPresent">>,
                  <<c6, "InvalidPayload">>,
                  <<c7, "LimitExceeded">>,
                  <<c8, "InvalidHardlinkRelation">>,
                  <<c9, "InvalidHardlinkRelation">>>>
<1>1. EntryError(p, i) = FirstOf(c) BY Zenon DEF EntryError
<1> HIDE DEF c1, c2, c3, c4, c5, c6, c7, c8, c9
<1>2. DOMAIN c = 1..9 OBVIOUS
<1>3. (c[1][1] <=> c1) /\ (c[2][1] <=> c2) /\ (c[3][1] <=> c3) /\ (c[4][1] <=> c4)
      /\ (c[5][1] <=> c5) /\ (c[6][1] <=> c6) /\ (c[7][1] <=> c7) /\ (c[8][1] <=> c8) /\ (c[9][1] <=> c9)
  BY Zenon
<1>4. {c[1][2], c[2][2], c[3][2], c[4][2], c[5][2], c[6][2], c[7][2], c[8][2], c[9][2]} \subseteq Refusals
  BY Zenon DEF Refusals
<1> HIDE DEF c
<1>5. \A k \in 1..9 : k \in {1, 2, 3, 4, 5, 6, 7, 8, 9} OBVIOUS
<1>6. \A k \in 1..9 : c[k][2] \in Refusals BY <1>4, <1>5, Zenon
<1>7. /\ FirstOf(c) = "" <=> \A k \in 1..9 : ~c[k][1]
      /\ FirstOf(c) # "" => FirstOf(c) \in Refusals
  BY <1>2, <1>6, EmptyIsNoRefusal, FirstOfNamed, Zenon
<1>8. {1, 2, 3, 4, 5, 6, 7, 8, 9} \subseteq 1..9 OBVIOUS
<1>9. (\A k \in 1..9 : ~c[k][1]) <=>
         ~c[1][1] /\ ~c[2][1] /\ ~c[3][1] /\ ~c[4][1] /\ ~c[5][1] /\ ~c[6][1] /\ ~c[7][1] /\ ~c[8][1] /\ ~c[9][1]
  BY <1>5, <1>8, Zenon
<1>10. ~c8 <=> (p.entries[i].meta.link # 0 <=> p.entries[i].op = "hardlink") BY Zenon DEF c8
<1> QED BY <1>1, <1>3, <1>7, <1>9, <1>10, Zenon DEF c1, c2, c3, c4, c5, c6, c7, c9

LEMMA RootErrorIs ==
  ASSUME NEW p, p.rooted
  PROVE  /\ RootError(p) # "" => RootError(p) \in Refusals
         /\ RootError(p) = "" <=>
               /\ ~(IsCut(p, Len(p.rules) + Len(p.entries) + 1))
               /\ ~(HasOmitted(p.root, p.omit))
               /\ ~(p.root = NoMeta)
               /\ ~(p.root.hole)
               /\ ~(p.root.link # 0)
<1> DEFINE c1 == IsCut(p, Len(p.rules) + Len(p.entries) + 1)
           c2 == HasOmitted(p.root, p.omit)
           c3 == p.root = NoMeta
           c4 == p.root.hole
           c5 == p.root.link # 0
           c == <<<<c1, "UnexpectedEndOfInput">>,
                  <<c2, "OmittedMetadataPresent">>,
                  <<c3, "BadMetadata">>,
                  <<c4, "InvalidSparseExtent">>,
                  <<c5, "InvalidHardlinkRelation">>>>
<1>1. RootError(p) = FirstOf(c) BY Zenon DEF RootError
<1> HIDE DEF c1, c2, c3, c4, c5
<1>2. DOMAIN c = 1..5 OBVIOUS
<1>3. (c[1][1] <=> c1) /\ (c[2][1] <=> c2) /\ (c[3][1] <=> c3) /\ (c[4][1] <=> c4) /\ (c[5][1] <=> c5)
  BY Zenon
<1>4. {c[1][2], c[2][2], c[3][2], c[4][2], c[5][2]} \subseteq Refusals
  BY Zenon DEF Refusals
<1> HIDE DEF c
<1>5. \A k \in 1..5 : k \in {1, 2, 3, 4, 5} OBVIOUS
<1>6. \A k \in 1..5 : c[k][2] \in Refusals BY <1>4, <1>5, Zenon
<1>7. /\ FirstOf(c) = "" <=> \A k \in 1..5 : ~c[k][1]
      /\ FirstOf(c) # "" => FirstOf(c) \in Refusals
  BY <1>2, <1>6, EmptyIsNoRefusal, FirstOfNamed, Zenon
<1>8. {1, 2, 3, 4, 5} \subseteq 1..5 OBVIOUS
<1>9. (\A k \in 1..5 : ~c[k][1]) <=>
         ~c[1][1] /\ ~c[2][1] /\ ~c[3][1] /\ ~c[4][1] /\ ~c[5][1]
  BY <1>5, <1>8, Zenon
<1> QED BY <1>1, <1>3, <1>7, <1>9, Zenon DEF c1, c2, c3, c4, c5

-----------------------------------------------------------------------------
(* What a patch is made of.                                                *)

Delta == [from : Seq(Nat), to : Seq(Nat), sound : BOOLEAN]

Operations == {"directory", "symlink", "copy", "raw", "delta", "hardlink", "unknown"}

Record ==
    [op : Operations, reserved : Nat, mode : Nat, path : Paths \cup {0}, bytes : Seq(Nat), ref : Paths \cup {0},
     delta : SUBSET Delta, meta : Meta]

Written ==
    [seal : {"good", "bad", "short", "magic"}, version : Nat, needed : Nat, unknown : BOOLEAN,
     ruleCount : Nat, entryCount : Nat, rules : Seq(Rule), omit : SUBSET Families,
     source : Snapshot, target : Snapshot, rooted : BOOLEAN, root : Meta, entries : Seq(Record),
     extra : Nat, cut : BOOLEAN]

Answers == Refusals \cup {""}

\* None of the checks failed.
Clear(s) == \A k \in DOMAIN s : s[k] = ""

\* The body is read in order, and a body that is read has no other count than
\* that of its records.
LEMMA BodyErrorIs ==
  \A p \in Written :
        /\ BodyError(p) # "" => BodyError(p) \in Refusals
        /\ BodyError(p) = "" <=>
              /\ \A i \in DOMAIN p.rules : RuleError(p, i) = ""
              /\ p.ruleCount = Len(p.rules) /\ \A r \in Range(p.rules) : r.compiles
              /\ p.entryCount = Len(p.entries)
              /\ \A i \in 1..Len(p.entries) : EntryError(p, i) = ""
              /\ RootError(p) = "" /\ ~(p.extra > 0)
              /\ ValidSnapshot([i \in 1..Len(p.entries) |-> View(p.entries[i])])
<1>ClearBoth. ASSUME NEW s \in Seq(Answers), NEW t \in Seq(Answers)
              PROVE  Clear(s \o t) <=> Clear(s) /\ Clear(t)
  <2> USE <1>ClearBoth
  <2> DEFINE x == ""
  <2>1. PICK m \in Nat : m = Len(s) /\ DOMAIN s = 1..m OBVIOUS
  <2>2. PICK n \in Nat : n = Len(t) /\ DOMAIN t = 1..n OBVIOUS
  <2>3. DOMAIN (s \o t) = 1..(m + n) BY <2>1, <2>2
  <2>4. \A k \in 1..m : (s \o t)[k] = s[k] BY <2>1, <2>2
  <2>5. \A k \in 1..n : (s \o t)[m + k] = t[k] BY <2>1, <2>2
  <2>6. ASSUME \A k \in 1..(m + n) : (s \o t)[k] = x
        PROVE  (\A k \in 1..m : s[k] = x) /\ (\A k \in 1..n : t[k] = x)
    <3>1. \A k \in 1..m : k \in 1..(m + n) OBVIOUS
    <3>2. \A k \in 1..n : m + k \in 1..(m + n) OBVIOUS
    <3> QED BY <2>4, <2>5, <2>6, <3>1, <3>2, Zenon
  <2>7. ASSUME \A k \in 1..m : s[k] = x, \A k \in 1..n : t[k] = x, NEW k \in 1..(m + n)
        PROVE  (s \o t)[k] = x
    <3>1. CASE k \in 1..m BY <2>4, <2>7, <3>1, Zenon
    <3>2. CASE k \notin 1..m
      <4>1. k - m \in 1..n /\ m + (k - m) = k BY <3>2
      <4>2. (s \o t)[m + (k - m)] = t[k - m] BY <2>5, <4>1, Zenon
      <4> QED BY <2>7, <4>1, <4>2, Zenon
    <3> QED BY <3>1, <3>2, Zenon
  <2> QED BY <2>1, <2>2, <2>3, <2>6, <2>7, Zenon DEF Clear
<1>FirstAnswer. ASSUME NEW f \in Seq(Answers)
                PROVE  LET first == FirstOf([k \in DOMAIN f |-> <<f[k] # "", f[k]>>])
                       IN  /\ first = "" <=> \A k \in DOMAIN f : f[k] = ""
                           /\ first # "" => first \in Refusals
  <2> USE <1>FirstAnswer
  <2> DEFINE c == [k \in DOMAIN f |-> <<f[k] # "", f[k]>>]
  <2>1. PICK n \in Nat : DOMAIN f = 1..n /\ \A k \in 1..n : f[k] \in Answers OBVIOUS
  <2>2. DOMAIN c = 1..n BY <2>1, Zenon
  <2>3. \A k \in 1..n : (c[k][1] <=> f[k] # "") /\ c[k][2] = f[k] BY <2>1, Zenon
  <2> HIDE DEF c
  <2>4. CASE FirstOf(c) = "" /\ \A k \in 1..n : ~c[k][1]
    <3>1. \A k \in 1..n : f[k] = "" BY <2>3, <2>4, Zenon
    <3> QED BY <2>1, <2>4, <3>1, Zenon DEF c
  <2>5. CASE \E k \in 1..n : c[k][1] /\ FirstOf(c) = c[k][2]
    <3>1. PICK k \in 1..n : c[k][1] /\ FirstOf(c) = c[k][2] BY <2>5, Zenon
    <3>2. FirstOf(c) = f[k] /\ f[k] # "" BY <2>3, <3>1, Zenon
    <3>3. f[k] \in Refusals BY <2>1, <3>2, Zenon DEF Answers
    <3> QED BY <2>1, <3>2, <3>3, Zenon DEF c
  <2> QED BY <2>2, <2>4, <2>5, FirstOfIs, Zenon
<1>AnswersAre. ASSUME NEW p, NEW i
               PROVE  RuleError(p, i) \in Answers /\ EntryError(p, i) \in Answers /\ RootError(p) \in Answers
  <2>1. RuleError(p, i) \in Answers BY RuleErrorIs, Zenon DEF Answers
  <2>2. EntryError(p, i) \in Answers BY EntryErrorIs, Zenon DEF Answers
  <2>3. CASE p.rooted BY <2>1, <2>2, <2>3, RootErrorIs, Zenon DEF Answers
  <2>4. CASE ~p.rooted BY <2>1, <2>2, <2>4, Zenon DEF Answers, RootError
  <2> QED BY <2>3, <2>4, Zenon
<1> SUFFICES ASSUME NEW p \in Written
             PROVE  /\ BodyError(p) # "" => BodyError(p) \in Refusals
                    /\ BodyError(p) = "" <=>
                          /\ \A i \in DOMAIN p.rules : RuleError(p, i) = ""
                          /\ p.ruleCount = Len(p.rules) /\ \A r \in Range(p.rules) : r.compiles
                          /\ p.entryCount = Len(p.entries)
                          /\ \A i \in 1..Len(p.entries) : EntryError(p, i) = ""
                          /\ RootError(p) = "" /\ ~(p.extra > 0)
                          /\ ValidSnapshot([i \in 1..Len(p.entries) |-> View(p.entries[i])])
  BY Zenon
<1> DEFINE n == Len(p.entries)
           read == IF p.entryCount < n THEN p.entryCount ELSE n
           short == p.entryCount < n /\ ~p.rooted
           counted == IF p.ruleCount # Len(p.rules) THEN "Misread" ELSE ""
           compiled == IF \A r \in Range(p.rules) : r.compiles THEN "" ELSE "Filter"
           many == IF p.entryCount # n /\ ~short THEN "Misread" ELSE ""
           rest == IF short \/ p.extra > 0 THEN "TrailingData" ELSE ""
           A == [i \in DOMAIN p.rules |-> RuleError(p, i)]
           B == <<counted, compiled>>
           C == [i \in 1..read |-> EntryError(p, i)]
           D == <<many, RootError(p), rest>>
           found == A \o B \o C \o D
           first == FirstOf([k \in DOMAIN found |-> <<found[k] # "", found[k]>>])
           valid == ValidSnapshot([i \in 1..n |-> View(p.entries[i])])
<1>1. BodyError(p) = IF first # "" THEN first ELSE IF valid THEN "" ELSE "InvalidSnapshot"
  BY Zenon DEF BodyError
<1>2. p.entryCount \in Nat /\ n \in Nat /\ p.extra \in Nat /\ p.rules \in Seq(Rule)
  BY DEF Written
<1>3. read \in Nat BY <1>2, Zenon
<1>4. /\ counted \in Answers /\ compiled \in Answers /\ many \in Answers /\ rest \in Answers
  BY Zenon DEF Answers, Refusals
<1> HIDE DEF counted, compiled, many, rest, read, valid, short
<1>5. A \in Seq(Answers) /\ DOMAIN A = DOMAIN p.rules BY <1>2, <1>AnswersAre
<1>6. B \in Seq(Answers) /\ DOMAIN B = 1..2 BY <1>4
<1>7. C \in Seq(Answers) /\ DOMAIN C = 1..read BY <1>3, <1>AnswersAre
<1>8. D \in Seq(Answers) /\ DOMAIN D = 1..3 BY <1>4, <1>AnswersAre
<1>9. \A x : (\A k \in DOMAIN A : A[k] = x) <=> (\A i \in DOMAIN p.rules : RuleError(p, i) = x)
  BY <1>5, Zenon
<1>10. \A x : (\A k \in DOMAIN C : C[k] = x) <=> (\A i \in 1..read : EntryError(p, i) = x)
  BY <1>7, Zenon
<1>11. \A x : (\A k \in DOMAIN B : B[k] = x) <=> (counted = x /\ compiled = x)
  <2>1. B[1] = counted /\ B[2] = compiled BY Zenon
  <2>2. \A k \in 1..2 : k = 1 \/ k = 2 OBVIOUS
  <2>3. 1 \in 1..2 /\ 2 \in 1..2 OBVIOUS
  <2> QED BY <1>6, <2>1, <2>2, <2>3, Zenon
<1>12. \A x : (\A k \in DOMAIN D : D[k] = x) <=> (many = x /\ RootError(p) = x /\ rest = x)
  <2>1. D[1] = many /\ D[2] = RootError(p) /\ D[3] = rest BY Zenon
  <2>2. \A k \in 1..3 : k = 1 \/ k = 2 \/ k = 3 OBVIOUS
  <2>3. 1 \in 1..3 /\ 2 \in 1..3 /\ 3 \in 1..3 OBVIOUS
  <2> QED BY <1>8, <2>1, <2>2, <2>3, Zenon
<1> HIDE DEF A, B, C, D
<1>13. A \o B \in Seq(Answers) /\ A \o B \o C \in Seq(Answers) /\ found \in Seq(Answers)
  BY <1>5, <1>6, <1>7, <1>8
<1>14. Clear(found) <=> Clear(A) /\ Clear(B) /\ Clear(C) /\ Clear(D)
  <2>1. Clear((A \o B \o C) \o D) <=> Clear(A \o B \o C) /\ Clear(D)
    BY <1>8, <1>13, <1>ClearBoth, Zenon
  <2>2. Clear((A \o B) \o C) <=> Clear(A \o B) /\ Clear(C)
    BY <1>7, <1>13, <1>ClearBoth, Zenon
  <2>3. Clear(A \o B) <=> Clear(A) /\ Clear(B)
    BY <1>5, <1>6, <1>ClearBoth, Zenon
  <2> QED BY <2>1, <2>2, <2>3, Zenon
<1> HIDE DEF found
<1>15. /\ first = "" <=> \A k \in DOMAIN found : found[k] = ""
       /\ first # "" => first \in Refusals
  BY <1>13, <1>FirstAnswer, Zenon
<1> HIDE DEF first
<1>16. first = "" <=>
          /\ \A i \in DOMAIN p.rules : RuleError(p, i) = ""
          /\ counted = "" /\ compiled = ""
          /\ \A i \in 1..read : EntryError(p, i) = ""
          /\ many = "" /\ RootError(p) = "" /\ rest = ""
  BY <1>9, <1>10, <1>11, <1>12, <1>14, <1>15, Zenon DEF Clear
<1>17. /\ counted = "" <=> p.ruleCount = Len(p.rules)
       /\ compiled = "" <=> \A r \in Range(p.rules) : r.compiles
  BY Zenon DEF counted, compiled
<1>18. many = "" /\ rest = "" <=> p.entryCount = n /\ ~(p.extra > 0)
  BY <1>2 DEF many, rest, short
<1>19. p.entryCount = n => read = n BY <1>2, Zenon DEF read
<1>20. "InvalidSnapshot" \in Refusals /\ "" \notin Refusals BY Zenon DEF Refusals
<1>21. BodyError(p) # "" => BodyError(p) \in Refusals BY <1>1, <1>15, <1>20, Zenon
<1>22. BodyError(p) = "" <=> first = "" /\ valid BY <1>1, <1>20, Zenon
<1>23. first = "" <=>
          /\ \A i \in DOMAIN p.rules : RuleError(p, i) = ""
          /\ p.ruleCount = Len(p.rules) /\ \A r \in Range(p.rules) : r.compiles
          /\ p.entryCount = n
          /\ \A i \in 1..n : EntryError(p, i) = ""
          /\ RootError(p) = "" /\ ~(p.extra > 0)
  BY <1>16, <1>17, <1>18, <1>19, Zenon
<1> QED BY <1>21, <1>22, <1>23, Zenon DEF valid
-----------------------------------------------------------------------------
(* Types.                                                                  *)

LEMMA TheOne == \A x : The({x}) = x
  BY Zenon DEF The

LEMMA TheMember == ASSUME NEW S, S # {} PROVE The(S) \in S
  BY Zenon DEF The

LEMMA FoundType ==
  ASSUME NEW S, NEW entries \in Seq(S), NEW path
  PROVE  Find(entries, path) \subseteq S
  BY DEF Find, Range

LEMMA MaskType ==
  \A s \in Snapshot : \A o : Mask(s, o) \in Snapshot
<1>MaskedType. ASSUME NEW m \in Meta, NEW o PROVE Masked(m, o) \in Meta
  BY <1>MaskedType, Zenon DEF Meta, Masked
<1> SUFFICES ASSUME NEW s \in Snapshot, NEW o PROVE Mask(s, o) \in Snapshot
  BY Zenon
<1>1. s.entries \in Seq(Entry) /\ s.root \in Meta BY Zenon DEF Snapshot
<1>2. ASSUME NEW e \in Entry PROVE [e EXCEPT !.meta = Masked(e.meta, o)] \in Entry
  <2>1. Masked(e.meta, o) \in Meta BY <1>MaskedType, Zenon DEF Entry
  <2> QED BY <2>1, Zenon DEF Entry
<1>3. PICK n \in Nat : n = Len(s.entries) /\ \A i \in 1..n : s.entries[i] \in Entry BY <1>1
<1>4. [i \in 1..n |-> [s.entries[i] EXCEPT !.meta = Masked(s.entries[i].meta, o)]] \in Seq(Entry)
  BY <1>2, <1>3
<1>5. Masked(s.root, o) \in Meta BY <1>1, <1>MaskedType, Zenon
<1> QED BY <1>3, <1>4, <1>5, Zenon DEF Mask, Snapshot

LEMMA CreatePatchType ==
  \A s \in Snapshot : \A t \in Snapshot : \A o \in SUBSET Families :
        /\ CreatePatch(s, t, o) \in Written
        /\ ~CreatePatch(s, t, o).rooted => CreatePatch(s, t, o).root = NoMeta
<1>EncodedType. ASSUME NEW e \in Entry, NEW op \in Operations, NEW bytes \in Seq(Nat), NEW ref \in Paths \cup {0},
                       NEW delta \in SUBSET Delta
                PROVE  Encoded(e, op, bytes, ref, delta) \in Record
  <2> USE <1>EncodedType
  <2>1. e.mode \in Nat /\ e.path \in Paths \cup {0} /\ e.meta \in Meta BY Zenon DEF Entry
  <2> QED BY <2>1, Zenon DEF Encoded, Record
<1>EncodeEntryType.
    ASSUME NEW e \in Entry, NEW entries \in Seq(Entry)
    PROVE  EncodeEntry(e, entries) \in Record
  <2> USE <1>EncodeEntryType
  <2> DEFINE old == Find(entries, e.path)
  <2>1. old \subseteq Entry BY FoundType, Zenon
  <2>2. e.data \in Seq(Nat) /\ e.meta.link \in Paths \cup {0}
      /\ <<>> \in Seq(Nat) /\ 0 \in Paths \cup {0} /\ {} \in SUBSET Delta
    BY DEF Entry, Meta
  <2>3. ASSUME old # {} PROVE {[from |-> The(old).data, to |-> e.data, sound |-> TRUE]} \in SUBSET Delta
    <3>1. The(old) \in Entry BY <2>1, <2>3, TheMember, Zenon
    <3>2. The(old).data \in Seq(Nat) BY <3>1, Zenon DEF Entry
    <3> QED BY <2>2, <3>2 DEF Delta
  <2>4. {"directory", "symlink", "hardlink", "copy", "delta", "raw"} \subseteq Operations
    BY Zenon DEF Operations
  <2>5. /\ Encoded(e, "directory", <<>>, 0, {}) \in Record
        /\ Encoded(e, "symlink", e.data, 0, {}) \in Record
        /\ Encoded(e, "hardlink", <<>>, e.meta.link, {}) \in Record
        /\ Encoded(e, "copy", <<>>, 0, {}) \in Record
        /\ Encoded(e, "raw", e.data, 0, {}) \in Record
    BY <2>2, <2>4, <1>EncodedType, Zenon
  <2>6. old # {} => Encoded(e, "delta", <<>>, 0, {[from |-> The(old).data, to |-> e.data,
                                                     sound |-> TRUE]}) \in Record
    BY <2>2, <2>3, <2>4, <1>EncodedType, Zenon
  <2> HIDE DEF old
  <2> QED BY <2>5, <2>6, Zenon DEF EncodeEntry, old
<1> SUFFICES ASSUME NEW s \in Snapshot, NEW t \in Snapshot, NEW o \in SUBSET Families
             PROVE  /\ CreatePatch(s, t, o) \in Written
                    /\ ~CreatePatch(s, t, o).rooted => CreatePatch(s, t, o).root = NoMeta
  BY Zenon
<1> DEFINE from == Mask(s, o)
           to == Mask(t, o)
           entries == [i \in 1..Len(to.entries) |-> EncodeEntry(to.entries[i], from.entries)]
<1>1. from \in Snapshot /\ to \in Snapshot BY MaskType, Zenon
<1> HIDE DEF from, to
<1>2. from.entries \in Seq(Entry) /\ to.entries \in Seq(Entry) /\ to.root \in Meta BY <1>1, Zenon DEF Snapshot
<1>3. PICK n \in Nat : n = Len(to.entries) /\ \A i \in 1..n : to.entries[i] \in Entry BY <1>2
<1>4. entries \in Seq(Record)
  <2>1. \A i \in 1..n : EncodeEntry(to.entries[i], from.entries) \in Record
    BY <1>2, <1>3, <1>EncodeEntryType, Zenon
  <2> QED BY <1>3, <2>1
<1> HIDE DEF entries
<1>5. Len(Rules) \in Nat /\ Rules \in Seq(Rule) BY TreePatchAssumption
<1>6. CreatePatch(s, t, o) =
        [seal |-> "good", version |-> 2, needed |-> 2, unknown |-> FALSE,
         ruleCount |-> Len(Rules), entryCount |-> Len(to.entries), rules |-> Rules,
         omit |-> o, source |-> from, target |-> to, rooted |-> to.root # NoMeta, root |-> to.root,
         entries |-> entries, extra |-> 0, cut |-> FALSE]
  BY Zenon DEF CreatePatch, from, to, entries
<1>7. \A b \in BOOLEAN :
        [seal |-> "good", version |-> 2, needed |-> 2, unknown |-> FALSE,
         ruleCount |-> Len(Rules), entryCount |-> Len(to.entries), rules |-> Rules,
         omit |-> o, source |-> from, target |-> to, rooted |-> b, root |-> to.root,
         entries |-> entries, extra |-> 0, cut |-> FALSE] \in Written
  BY <1>1, <1>2, <1>3, <1>4, <1>5, Zenon DEF Written
<1>8. (to.root # NoMeta) \in BOOLEAN BY Zenon
<1>9. CreatePatch(s, t, o) \in Written BY <1>6, <1>7, <1>8, Zenon
<1>10. CreatePatch(s, t, o).root = to.root BY <1>6
<1>11. CreatePatch(s, t, o).rooted <=> to.root # NoMeta
  <2> DEFINE b == to.root # NoMeta
  <2> HIDE DEF b
  <2>1. CreatePatch(s, t, o).rooted = b BY <1>6 DEF b
  <2> QED BY <2>1, Zenon DEF b
<1> QED BY <1>9, <1>10, <1>11, Zenon

\* A patch without root metadata has none.
Sealed(p) == p \in Written /\ (p.rooted \/ p.root = NoMeta)

-----------------------------------------------------------------------------
(* Expanding.                                                              *)

Kinds == {"file", "dir", "symlink"}

Built == [path : Paths \cup {0}, kind : Kinds, mode : Nat, data : Seq(Nat), meta : Meta]

Faults == {"none", "File", "WrongSource", "InvalidHardlinkRelation", "MissingSourceEntry", "SourceKindMismatch",
           "LimitExceeded"}

Outcomes == [data : Seq(Nat), error : Faults]

\* The sums of sizes do not fall.
LEMMA SumsOfNat ==
  ASSUME NEW s \in Seq(Nat)
  PROVE  Sums(s) \in [0..Len(s) -> Nat]
<1>1. PICK N \in Nat : N = Len(s) /\ \A n \in 1..N : s[n] \in Nat OBVIOUS
<1>2. s \in Seq(Int) OBVIOUS
<1>3. /\ Sums(s) \in [0..N -> Int] /\ Sums(s)[0] = 0
      /\ \A n \in 1..N : Sums(s)[n] = Sums(s)[n - 1] + s[n]
  BY <1>1, <1>2, SumsDef, Zenon
<1> DEFINE T == {n \in Nat : n <= N /\ Sums(s)[n] \notin Nat}
<1>4. T = {}
  <2> SUFFICES ASSUME T # {} PROVE FALSE
    BY Zenon
  <2>1. PICK n \in T : \A m \in T : n <= m
    BY LeastOf, Zenon
  <2>2. n # 0 BY <1>3, Zenon
  <2>3. n \in 1..N /\ Sums(s)[n - 1] \in Nat BY <2>1, <2>2
  <2>4. Sums(s)[n] = Sums(s)[n - 1] + s[n] /\ s[n] \in Nat BY <1>1, <1>3, <2>3, Zenon
  <2> QED BY <2>3, <2>4
<1>5. \A n \in 0..N : Sums(s)[n] \in Nat BY <1>4
<1> QED BY <1>1, <1>3, <1>5, Zenon

Sizes(b) == [i \in DOMAIN b |-> Len(b[i].data)]

LEMMA SizesType ==
  ASSUME NEW b \in Seq(Built)
  PROVE  /\ Sizes(b) \in Seq(Nat) /\ Len(Sizes(b)) = Len(b)
         /\ \A i \in 1..Len(b) : Sizes(b)[i] = Len(b[i].data)
<1>1. PICK n \in Nat : n = Len(b) /\ DOMAIN b = 1..n /\ \A i \in 1..n : b[i] \in Built OBVIOUS
<1>2. \A i \in 1..n : Len(b[i].data) \in Nat BY <1>1 DEF Built
<1>3. Sizes(b) = [i \in 1..n |-> Len(b[i].data)] BY <1>1, Zenon DEF Sizes
<1> QED BY <1>1, <1>2, <1>3

LEMMA OutputSizeIs ==
  ASSUME NEW b \in Seq(Built)
  PROVE  OutputSize(b) = Sums(Sizes(b))[Len(b)] /\ OutputSize(b) \in Nat
<1>1. OutputSize(b) = Sums(Sizes(b))[Len(Sizes(b))] BY Zenon DEF OutputSize, Total, Sizes
<1>2. Sizes(b) \in Seq(Nat) /\ Len(Sizes(b)) = Len(b) BY SizesType, Zenon
<1>3. Sums(Sizes(b)) \in [0..Len(b) -> Nat] BY <1>2, SumsOfNat, Zenon
<1>4. Len(b) \in 0..Len(b)
  <2>1. Len(b) \in Nat OBVIOUS
  <2> QED BY <2>1
<1> QED BY <1>1, <1>2, <1>3, <1>4, Zenon

\* The contents of an entry, from source g, when b has been built.
LinkedIn(b, e) ==
    LET c == Find(b, e.ref)
    IN  IF c # {} /\ The(c).kind = "file" /\ The(c).meta.link = 0 THEN Ok(The(c).data)
        ELSE Bad("InvalidHardlinkRelation")

SourceIn(g, e) ==
    LET old == Find(g.entries, e.path)
    IN  IF old = {} THEN Bad("MissingSourceEntry")
        ELSE IF The(old).kind # "file" THEN Bad("SourceKindMismatch") ELSE Ok(The(old).data)

ContentsIn(g, b, e) ==
    CASE e.op = "directory" -> Ok(<<>>)
      [] e.op \in {"symlink", "raw"} -> Ok(Payload(e))
      [] e.op = "hardlink" -> LinkedIn(b, e)
      [] e.op = "copy" -> SourceIn(g, e)
      [] e.op = "delta" /\ SourceIn(g, e).error # "none" -> SourceIn(g, e)
      [] OTHER -> FilePatchResult(SourceIn(g, e).data, e)

LEMMA OkType == \A d \in Seq(Nat) : Ok(d) \in Outcomes /\ Ok(d).error = "none" /\ Ok(d).data = d
  BY Zenon DEF Ok, Outcomes, Faults

LEMMA BadType == \A e \in Faults : Bad(e) \in Outcomes /\ Bad(e).error = e /\ Bad(e).data = <<>>
  BY DEF Bad, Outcomes, Faults

BuiltFrom(e, data) ==
    [path |-> e.path, kind |-> KindOf(e.op), mode |-> e.mode, data |-> data, meta |-> e.meta]

-----------------------------------------------------------------------------
(* The invariant.                                                          *)

PatchInv == patch = {} \/ (patch = {The(patch)} /\ Sealed(The(patch)))

RequestInv ==
    /\ source \in Snapshot /\ target \in Snapshot /\ given \in Snapshot
    /\ omit \in SUBSET Families /\ maxOutput \in Nat
    /\ PatchInv

TypeInv ==
    /\ RequestInv
    /\ pc \in [Impls -> {"decode", "body", "verify", "expand", "done"}]
    /\ out \in [Impls -> Seq(Built)] /\ used \in [Impls -> Nat] /\ peak \in [Impls -> Nat]
    /\ DOMAIN error = Impls

\* The patch is read, and is for this source.
Opens(p, g) ==
    PrefixError(p) = "" /\ BodyError(p) = "" /\ Mask(g, p.omit) = p.source

\* How far each implementation has come.
Progress(i) ==
    /\ pc[i] \in {"body", "verify", "expand"} => patch # {} /\ PrefixError(The(patch)) = ""
    /\ pc[i] \in {"verify", "expand"} => BodyError(The(patch)) = ""
    /\ pc[i] = "expand" => Opens(The(patch), given)
    /\ pc[i] \in {"decode", "body", "verify"} => out[i] = <<>>

\* What was built has the records' fields.
Copies(b, entries) ==
    Len(b) <= Len(entries) /\ \A k \in 1..Len(b) : b[k] = BuiltFrom(entries[k], b[k].data)

Amount(i) ==
    /\ used[i] = OutputSize(out[i]) /\ used[i] <= maxOutput
    /\ out[i] # <<>> => patch # {} /\ Copies(out[i], The(patch).entries)

\* What is built next after b.
StepAt(p, g, m, b) == LimitedTo(ContentsIn(g, b, p.entries[Len(b) + 1]), m - OutputSize(b))

Verdict(p, b) ==
    LET r == [entries |-> b, root |-> p.root]
    IN  IF ~Valid(r) THEN "InvalidTarget" ELSE IF r # p.target THEN "TargetHashMismatch" ELSE "none"

\* How an implementation stopped.
Refused(p, g, b, e) ==
    \/ b = <<>> /\ PrefixError(p) # "" /\ e = PrefixError(p)
    \/ b = <<>> /\ PrefixError(p) = "" /\ BodyError(p) # "" /\ e = BodyError(p)
    \/ b = <<>> /\ PrefixError(p) = "" /\ BodyError(p) = "" /\ Mask(g, p.omit) # p.source /\ e = "SourceHashMismatch"

Stopped(p, g, m, b, e) ==
    \/ Refused(p, g, b, e)
    \/ Opens(p, g) /\ Len(b) < Len(p.entries) /\ StepAt(p, g, m, b).error # "none" /\ e = StepAt(p, g, m, b).error
    \/ Opens(p, g) /\ Len(b) = Len(p.entries) /\ e = Verdict(p, b)

Ended(i) ==
    pc[i] = "done" =>
        IF patch = {} THEN error[i] = "LimitExceeded" /\ out[i] = <<>>
        ELSE \/ Stopped(The(patch), given, maxOutput, out[i], error[i])
             \/ /\ i = "rust" /\ Opens(The(patch), given) /\ Len(out[i]) < Len(The(patch).entries)
                /\ StepAt(The(patch), given, maxOutput, out[i]).error = "File" /\ error[i] = "LimitExceeded"

\* Each entry was built from those before it.
Traces(p, g, m, b) ==
    \A k \in 1..Len(b) : LET s == StepAt(p, g, m, SubSeq(b, 1, k - 1))
                        IN  s.error = "none" /\ b[k] = BuiltFrom(p.entries[k], s.data)

IsPrefix(b, c) == Len(b) <= Len(c) /\ \A k \in 1..Len(b) : b[k] = c[k]

\* The port runs second, and builds what applyPatchRoot built.
PortInv ==
    /\ pc["rust"] # "decode" => pc["zig"] = "done"
    /\ patch # {} => Traces(The(patch), given, maxOutput, out["zig"])
    /\ IsPrefix(out["rust"], out["zig"])

Inv ==
    /\ \A i \in Impls : Progress(i) /\ Amount(i) /\ Ended(i)
    /\ PortInv

LEMMA SealedPatch ==
  ASSUME PatchInv, patch # {}
  PROVE  /\ patch = {The(patch)} /\ Sealed(The(patch)) /\ The(patch) \in Written
         /\ The(patch).entries \in Seq(Record)
<1>1. patch = {The(patch)} /\ Sealed(The(patch)) BY Zenon DEF PatchInv
<1>2. The(patch) \in Written BY <1>1, Zenon DEF Sealed
<1>3. The(patch).entries \in Seq(Record) BY <1>2, Zenon DEF Written
<1> QED BY <1>1, <1>2, <1>3, Zenon

\* One step of expanding.
Builds(i, z) ==
    /\ z.error = "none" /\ z.data \in Seq(Nat) /\ Len(z.data) <= maxOutput - OutputSize(out[i])
    /\ out' = [out EXCEPT ![i] = Append(out[i], BuiltFrom(The(patch).entries[Len(out[i]) + 1], z.data))]
    /\ used' = [used EXCEPT ![i] = used[i] + Len(z.data)]
    /\ UNCHANGED <<pc, error>>

Stops(i, z, f) ==
    /\ z.error # "none" /\ (f = z.error \/ (i = "rust" /\ f = "LimitExceeded" /\ z.error = "File"))
    /\ pc' = [pc EXCEPT ![i] = "done"] /\ error' = [error EXCEPT ![i] = f]
    /\ UNCHANGED <<out, used>>

LEMMA ExpandStep ==
  \A i \in Impls : TypeInv /\ Amount(i) /\ Expand(i) =>
        LET z == StepAt(The(patch), given, maxOutput, out[i])
        IN  /\ patch # {} /\ pc[i] = "expand" /\ (i = "rust" => pc["zig"] = "done")
            /\ Len(out[i]) < Len(The(patch).entries)
            /\ The(patch).entries[Len(out[i]) + 1] \in Record
            /\ \E n \in Nat : /\ peak' = [peak EXCEPT ![i] = n]
                              /\ (i = "rust" /\ peak[i] <= maxOutput => n <= maxOutput)
            /\ Builds(i, z) \/ \E f : Stops(i, z, f)
            /\ UNCHANGED request
<1>SourceIs. ASSUME NEW e PROVE SourceFile(e) = SourceIn(given, e)
  BY Zenon DEF SourceFile, SourceIn
<1>ContentsAre. ASSUME NEW i, NEW e PROVE ZigContents(i, e) = ContentsIn(given, out[i], e)
  BY <1>SourceIs, Zenon DEF ZigContents, ContentsIn, LinkedFile, LinkedIn
<1>SourceFileType.
    ASSUME NEW e, given \in Snapshot
    PROVE  /\ SourceFile(e) \in Outcomes
           /\ SourceFile(e).error \in {"none", "MissingSourceEntry", "SourceKindMismatch"}
  <2> USE <1>SourceFileType
  <2> DEFINE old == Find(given.entries, e.path)
  <2>1. old \subseteq Entry BY FoundType, Zenon DEF Snapshot
  <2>2. old # {} => The(old).data \in Seq(Nat) BY <2>1, TheMember, Zenon DEF Entry
  <2>3. {"MissingSourceEntry", "SourceKindMismatch"} \subseteq Faults BY Zenon DEF Faults
  <2>4. SourceFile(e) = IF old = {} THEN Bad("MissingSourceEntry")
                        ELSE IF The(old).kind # "file" THEN Bad("SourceKindMismatch") ELSE Ok(The(old).data)
    BY Zenon DEF SourceFile
  <2> HIDE DEF old
  <2> QED BY <2>2, <2>3, <2>4, OkType, BadType, Zenon
<1>FilePatchResultType.
    ASSUME NEW old, NEW e \in Record
    PROVE  /\ FilePatchResult(old, e) \in Outcomes
           /\ FilePatchResult(old, e).error \in {"none", "File", "WrongSource"}
  <2> USE <1>FilePatchResultType
  <2>1. e.delta \subseteq Delta BY Zenon DEF Record
  <2>2. e.delta # {} => The(e.delta).to \in Seq(Nat) BY <2>1, TheMember, Zenon DEF Delta
  <2>3. {"File", "WrongSource"} \subseteq Faults BY Zenon DEF Faults
  <2>4. FilePatchResult(old, e) =
          IF e.delta = {} THEN Bad("File")
          ELSE IF old # The(e.delta).from THEN Bad("WrongSource")
          ELSE IF ~The(e.delta).sound THEN Bad("File") ELSE Ok(The(e.delta).to)
    BY Zenon DEF FilePatchResult
  <2> QED BY <2>2, <2>3, <2>4, OkType, BadType
<1>PayloadType. ASSUME NEW e \in Record PROVE Payload(e) \in Seq(Nat)
  <2> USE <1>PayloadType
  <2>1. <<9, 0>> \in Seq(Nat) /\ <<9>> \in Seq(Nat) OBVIOUS
  <2>2. e.bytes \in Seq(Nat) BY Zenon DEF Record
  <2> QED BY <2>1, <2>2, Zenon DEF Payload
<1>LinkedType. ASSUME NEW b \in Seq(Built), NEW e PROVE LinkedIn(b, e) \in Outcomes
  <2> USE <1>LinkedType
  <2> DEFINE c == Find(b, e.ref)
  <2>1. c \subseteq Built BY FoundType, Zenon
  <2>2. c # {} => The(c).data \in Seq(Nat) BY <2>1, TheMember, Zenon DEF Built
  <2>3. "InvalidHardlinkRelation" \in Faults BY Zenon DEF Faults
  <2>4. LinkedIn(b, e) =
          IF c # {} /\ The(c).kind = "file" /\ The(c).meta.link = 0 THEN Ok(The(c).data)
          ELSE Bad("InvalidHardlinkRelation")
    BY Zenon DEF LinkedIn
  <2> HIDE DEF c
  <2> QED BY <2>2, <2>3, <2>4, OkType, BadType, Zenon
<1>ContentsType.
    ASSUME NEW b \in Seq(Built), NEW e \in Record, given \in Snapshot
    PROVE  ContentsIn(given, b, e) \in Outcomes
  <2> USE <1>ContentsType
  <2>0. <<>> \in Seq(Nat) OBVIOUS
  <2>1. /\ Ok(<<>>) \in Outcomes /\ Ok(Payload(e)) \in Outcomes BY <2>0, <1>PayloadType, OkType, Zenon
  <2>2. LinkedIn(b, e) \in Outcomes BY <1>LinkedType, Zenon
  <2>3. SourceFile(e) \in Outcomes BY <1>SourceFileType, Zenon
  <2>4. FilePatchResult(SourceFile(e).data, e) \in Outcomes BY <1>FilePatchResultType, Zenon
  <2> QED BY <2>1, <2>2, <2>3, <2>4, <1>SourceIs, Zenon DEF ContentsIn
<1>LimitedToType.
    ASSUME NEW c \in Outcomes, NEW room \in Nat
    PROVE  /\ LimitedTo(c, room) \in Outcomes
           /\ LimitedTo(c, room).error = "none" => c.error = "none" /\ LimitedTo(c, room) = c /\ Len(c.data) <= room
  <2> USE <1>LimitedToType
  <2>1. "LimitExceeded" \in Faults /\ "LimitExceeded" # "none" BY Zenon DEF Faults
  <2>2. Bad("LimitExceeded") \in Outcomes /\ Bad("LimitExceeded").error = "LimitExceeded" BY <2>1, BadType, Zenon
  <2>3. Len(c.data) \in Nat BY DEF Outcomes
  <2>4. CASE c.error = "none" /\ Len(c.data) > room
    BY <2>1, <2>2, <2>4, Zenon DEF LimitedTo
  <2>5. CASE ~(c.error = "none" /\ Len(c.data) > room)
    BY <2>3, <2>5 DEF LimitedTo
  <2> QED BY <2>4, <2>5, Zenon
\* The port's step: what applyPatchRoot gives, but for a file patch over the budget
\* that would not have decoded.
<1>RustStep. ASSUME NEW b \in Seq(Built), b = out["rust"], NEW e \in Record, NEW room \in Nat, given \in Snapshot
             PROVE  LET z == LimitedTo(ContentsIn(given, b, e), room)
                        r == LimitedTo(RustContents("rust", e, room), room)
                    IN  r = z \/ (r = Bad("LimitExceeded") /\ z = Bad("File"))
  <2> USE <1>RustStep
  <2> DEFINE over == /\ e.op = "delta" /\ SourceFile(e).error = "none" /\ e.delta # {}
                     /\ Len(The(e.delta).to) > room
             d == The(e.delta)
  <2>1. ZigContents("rust", e) = ContentsIn(given, b, e) BY <1>ContentsAre, Zenon
  <2>2. CASE ~over
    <3>1. RustContents("rust", e, room) = ContentsIn(given, b, e) BY <2>1, <2>2, Zenon DEF RustContents
    <3> QED BY <3>1, Zenon
  <2>3. CASE over
    <3>1. ContentsIn(given, b, e) = FilePatchResult(SourceFile(e).data, e)
      <4>1. e.op = "delta" /\ SourceFile(e).error = "none" BY <2>3, Zenon
      <4> QED BY <4>1, <1>SourceIs, Zenon DEF ContentsIn
    <3>2. {"WrongSource", "LimitExceeded", "File"} \subseteq Faults BY Zenon DEF Faults
    <3>3. \A x \in {"WrongSource", "LimitExceeded", "File"} : LimitedTo(Bad(x), room) = Bad(x)
      <4>1. \A x \in {"WrongSource", "LimitExceeded", "File"} : Bad(x).error # "none" BY <3>2, BadType, Zenon
      <4> QED BY <4>1, Zenon DEF LimitedTo
    <3>4. RustContents("rust", e, room) = IF SourceFile(e).data # d.from THEN Bad("WrongSource")
                                          ELSE Bad("LimitExceeded")
      BY <2>3, Zenon DEF RustContents
    <3>5. FilePatchResult(SourceFile(e).data, e) =
             IF SourceFile(e).data # d.from THEN Bad("WrongSource")
             ELSE IF ~d.sound THEN Bad("File") ELSE Ok(d.to)
      BY <2>3, Zenon DEF FilePatchResult
    <3>6. LimitedTo(Ok(d.to), room) = Bad("LimitExceeded")
      <4>1. e.delta \subseteq Delta BY Zenon DEF Record
      <4>2. d.to \in Seq(Nat) BY <2>3, <4>1, TheMember, Zenon DEF Delta
      <4>3. Ok(d.to).error = "none" /\ Ok(d.to).data = d.to BY <4>2, OkType, Zenon
      <4>4. Len(d.to) > room BY <2>3, Zenon
      <4> HIDE DEF d
      <4> QED BY <4>3, <4>4, Zenon DEF LimitedTo
    <3> HIDE DEF d
    <3>7. CASE SourceFile(e).data # d.from BY <3>1, <3>3, <3>4, <3>5, <3>7, Zenon
    <3>8. CASE SourceFile(e).data = d.from
      <4>1. RustContents("rust", e, room) = Bad("LimitExceeded") BY <3>4, <3>8, Zenon
      <4>2. LimitedTo(RustContents("rust", e, room), room) = Bad("LimitExceeded") BY <3>3, <4>1, Zenon
      <4>3. CASE d.sound
        <5>1. ContentsIn(given, b, e) = Ok(d.to) BY <3>1, <3>5, <3>8, <4>3, Zenon
        <5> QED BY <3>6, <4>2, <5>1, Zenon
      <4>4. CASE ~d.sound
        <5>1. ContentsIn(given, b, e) = Bad("File") BY <3>1, <3>5, <3>8, <4>4, Zenon
        <5>2. LimitedTo(ContentsIn(given, b, e), room) = Bad("File") BY <3>3, <5>1, Zenon
        <5> QED BY <4>2, <5>2, Zenon
      <4> QED BY <4>3, <4>4, Zenon
    <3> QED BY <3>7, <3>8, Zenon
  <2> QED BY <2>2, <2>3, Zenon
<1>RustContentsType.
    ASSUME NEW b \in Seq(Built), b = out["rust"], NEW e \in Record, NEW room, given \in Snapshot
    PROVE  RustContents("rust", e, room) \in Outcomes
  <2> USE <1>RustContentsType
  <2>1. ZigContents("rust", e) \in Outcomes BY <1>ContentsAre, <1>ContentsType, Zenon
  <2>2. {"WrongSource", "LimitExceeded"} \subseteq Faults BY Zenon DEF Faults
  <2>3. Bad("WrongSource") \in Outcomes /\ Bad("LimitExceeded") \in Outcomes BY <2>2, BadType, Zenon
  <2> QED BY <2>1, <2>3, Zenon DEF RustContents
<1>DeltaBufferType.
    ASSUME NEW e \in Record, NEW c
    PROVE  /\ DeltaBuffer(e, c) \in Nat
           /\ DeltaBuffer(e, c) # 0 => /\ e.delta # {} /\ c.error \in {"none", "File"}
                                       /\ DeltaBuffer(e, c) = Len(The(e.delta).to)
  <2> USE <1>DeltaBufferType
  <2>1. e.delta \subseteq Delta BY Zenon DEF Record
  <2>2. e.delta # {} => Len(The(e.delta).to) \in Nat BY <2>1, TheMember DEF Delta
  <2> QED BY <2>2, Zenon DEF DeltaBuffer
\* The port gives a file patch a buffer only when what it holds is within the room.
<1>RustBuffer. ASSUME NEW b \in Seq(Built), b = out["rust"], NEW e \in Record, NEW room \in Nat, given \in Snapshot
               PROVE  LET x == RustExpands("rust", e, room) IN x.bytes \in Nat /\ x.bytes <= room
  <2> USE <1>RustBuffer
  <2> DEFINE c == RustContents("rust", e, room)
             owned == \E d \in Find(The(patch).entries, e.ref) : d.op = "delta"
  <2>1. c \in Outcomes BY <1>RustContentsType, Zenon
  <2>2. Len(c.data) \in Nat BY <2>1 DEF Outcomes
  <2>3. RustExpands("rust", e, room).bytes =
           CASE e.op = "delta" -> DeltaBuffer(e, c)
             [] e.op = "hardlink" /\ owned /\ Len(c.data) <= room -> Len(c.data)
             [] OTHER -> 0
    BY Zenon DEF RustExpands
  <2>4. CASE e.op = "delta"
    <3>1. RustExpands("rust", e, room).bytes = DeltaBuffer(e, c) BY <2>3, <2>4, Zenon
    <3>2. DeltaBuffer(e, c) \in Nat BY <1>DeltaBufferType, Zenon
    <3>3. ASSUME DeltaBuffer(e, c) # 0, DeltaBuffer(e, c) > room PROVE FALSE
      <4>1. e.delta # {} /\ c.error \in {"none", "File"} /\ Len(The(e.delta).to) > room
        BY <3>3, <1>DeltaBufferType, Zenon
      <4>2. CASE SourceFile(e).error = "none"
        <5>1. c = IF SourceFile(e).data # The(e.delta).from THEN Bad("WrongSource") ELSE Bad("LimitExceeded")
          BY <2>4, <4>1, <4>2, Zenon DEF RustContents
        <5>2. {"WrongSource", "LimitExceeded"} \subseteq Faults BY Zenon DEF Faults
        <5>3. c.error \in {"WrongSource", "LimitExceeded"} BY <5>1, <5>2, BadType, Zenon
        <5> QED BY <4>1, <5>3, Zenon
      <4>3. CASE SourceFile(e).error # "none"
        <5>1. c = ZigContents("rust", e) BY <4>3, Zenon DEF RustContents
        <5>2. ZigContents("rust", e) = SourceFile(e) BY <2>4, <4>3, Zenon DEF ZigContents
        <5>3. c.error \in {"none", "MissingSourceEntry", "SourceKindMismatch"} BY <5>1, <5>2, <1>SourceFileType, Zenon
        <5>4. c.error # "none" BY <4>3, <5>1, <5>2, Zenon
        <5> HIDE DEF c
        <5> QED BY <4>1, <5>3, <5>4, Zenon
      <4> QED BY <4>2, <4>3, Zenon
    <3> HIDE DEF c
    <3> QED BY <3>1, <3>2, <3>3
  <2> HIDE DEF c, owned
  <2>5. CASE e.op # "delta" /\ e.op = "hardlink" /\ owned /\ Len(c.data) <= room
    <3>1. RustExpands("rust", e, room).bytes = Len(c.data) BY <2>3, <2>5, Zenon
    <3> QED BY <2>2, <2>5, <3>1, Zenon
  <2>6. CASE e.op # "delta" /\ ~(e.op = "hardlink" /\ owned /\ Len(c.data) <= room)
    <3>1. RustExpands("rust", e, room).bytes = 0 BY <2>3, <2>6, Zenon
    <3> QED BY <3>1
  <2> QED BY <2>4, <2>5, <2>6, Zenon
<1>ZigBuffer. ASSUME NEW b \in Seq(Built), b = out["zig"], NEW e \in Record, NEW room, given \in Snapshot
              PROVE  ZigExpands("zig", e, room).bytes \in Nat
  <2> USE <1>ZigBuffer
  <2> DEFINE c == ZigContents("zig", e)
  <2>1. c \in Outcomes BY <1>ContentsAre, <1>ContentsType, Zenon
  <2>2. Len(c.data) \in Nat BY <2>1 DEF Outcomes
  <2>3. DeltaBuffer(e, c) \in Nat BY <1>DeltaBufferType, Zenon
  <2>4. ZigExpands("zig", e, room).bytes =
           CASE e.op = "hardlink" -> 0 [] e.op = "delta" -> DeltaBuffer(e, c) [] OTHER -> Len(c.data)
    BY Zenon DEF ZigExpands
  <2> HIDE DEF c
  <2> QED BY <2>2, <2>3, <2>4
<1>ExpandsIs. ASSUME NEW i \in Impls, NEW b \in Seq(Built), b = out[i], NEW e \in Record, NEW room \in Nat,
                     given \in Snapshot
              PROVE  LET x == Expands(i, e, room)
                         z == LimitedTo(ContentsIn(given, b, e), room)
                     IN  /\ x.bytes \in Nat /\ (i = "rust" => x.bytes <= room)
                         /\ x.result \in Outcomes
                         /\ x.result = z \/ (i = "rust" /\ x.result.error = "LimitExceeded" /\ z.error = "File")
                         /\ x.result.error = "none" => x.result = z /\ Len(x.result.data) <= room
  <2> USE <1>ExpandsIs
  <2> DEFINE x == Expands(i, e, room)
             z == LimitedTo(ContentsIn(given, b, e), room)
  <2>1. ContentsIn(given, b, e) \in Outcomes BY <1>ContentsType, Zenon
  <2>2. z \in Outcomes /\ (z.error = "none" => Len(z.data) <= room) BY <2>1, <1>LimitedToType, Zenon
  <2>3. CASE i = "zig"
    <3>1. x = ZigExpands("zig", e, room) BY <2>3, Zenon DEF Expands
    <3>2. x.result = z
      <4>1. ZigContents("zig", e) = ContentsIn(given, b, e) BY <2>3, <1>ContentsAre, Zenon
      <4>2. ZigExpands("zig", e, room).result = LimitedTo(ZigContents("zig", e), room) BY Zenon DEF ZigExpands
      <4> QED BY <3>1, <4>1, <4>2, Zenon
    <3>3. x.bytes \in Nat BY <2>3, <3>1, <1>ZigBuffer, Zenon
    <3>4. i # "rust" BY <2>3, Zenon
    <3> HIDE DEF x, z
    <3>5. /\ x.bytes \in Nat /\ (i = "rust" => x.bytes <= room)
          /\ x.result \in Outcomes
          /\ x.result = z \/ (i = "rust" /\ x.result.error = "LimitExceeded" /\ z.error = "File")
          /\ x.result.error = "none" => x.result = z /\ Len(x.result.data) <= room
      BY <2>2, <3>2, <3>3, <3>4, Zenon
    <3> QED BY <3>5, Zenon DEF x, z
  <2>4. CASE i = "rust"
    <3> DEFINE r == LimitedTo(RustContents("rust", e, room), room)
    <3>1. x = RustExpands("rust", e, room) BY <2>4, Zenon DEF Expands
    <3>2. x.result = r
      <4>2. RustExpands("rust", e, room).result = r BY Zenon DEF RustExpands
      <4> QED BY <3>1, <4>2, Zenon
    <3>3. x.bytes \in Nat /\ x.bytes <= room BY <2>4, <3>1, <1>RustBuffer, Zenon
    <3>4. RustContents("rust", e, room) \in Outcomes BY <2>4, <1>RustContentsType, Zenon
    <3>5. r \in Outcomes /\ (r.error = "none" => Len(r.data) <= room) BY <3>4, <1>LimitedToType, Zenon
    <3>6. r = z \/ (r = Bad("LimitExceeded") /\ z = Bad("File")) BY <2>4, <1>RustStep, Zenon
    <3>7. {"LimitExceeded", "File"} \subseteq Faults BY Zenon DEF Faults
    <3>8. r = z \/ (r.error = "LimitExceeded" /\ z.error = "File")
      BY <3>6, <3>7, BadType, Zenon
    <3> HIDE DEF x, z, r
    <3>9. r.error = "none" => r = z BY <3>8, Zenon
    <3>10. /\ x.bytes \in Nat /\ (i = "rust" => x.bytes <= room)
           /\ x.result \in Outcomes
           /\ x.result = z \/ (i = "rust" /\ x.result.error = "LimitExceeded" /\ z.error = "File")
           /\ x.result.error = "none" => x.result = z /\ Len(x.result.data) <= room
      BY <2>4, <3>2, <3>3, <3>5, <3>8, <3>9, Zenon
    <3> QED BY <3>10, Zenon DEF x, z
  <2> QED BY <2>3, <2>4, Zenon DEF Impls
<1> SUFFICES ASSUME TypeInv, NEW i \in Impls, Amount(i), Expand(i)
             PROVE  LET z == StepAt(The(patch), given, maxOutput, out[i])
                    IN  /\ patch # {} /\ pc[i] = "expand" /\ (i = "rust" => pc["zig"] = "done")
                        /\ Len(out[i]) < Len(The(patch).entries)
                        /\ The(patch).entries[Len(out[i]) + 1] \in Record
                        /\ \E n \in Nat : /\ peak' = [peak EXCEPT ![i] = n]
                                          /\ (i = "rust" /\ peak[i] <= maxOutput => n <= maxOutput)
                        /\ Builds(i, z) \/ \E f : Stops(i, z, f)
                        /\ UNCHANGED request
  BY Zenon
<1> DEFINE p == The(patch)
           b == out[i]
           e == p.entries[Len(b) + 1]
           room == maxOutput - used[i]
           x == Expands(i, e, room)
           z == StepAt(p, given, maxOutput, b)
<1>1. /\ patch # {} /\ pc[i] = "expand" /\ (i = "rust" => pc["zig"] = "done")
      /\ Len(b) < Len(p.entries)
      /\ UNCHANGED request
  BY Zenon DEF Expand, Runs
<1>2. p.entries \in Seq(Record) BY <1>1, SealedPatch, Zenon DEF TypeInv, RequestInv
<1>3. b \in Seq(Built) /\ given \in Snapshot /\ maxOutput \in Nat /\ used[i] \in Nat /\ peak[i] \in Nat
  BY Zenon DEF TypeInv, RequestInv
<1>4. used[i] = OutputSize(b) /\ used[i] <= maxOutput BY Zenon DEF Amount
<1>5. e \in Record
  <2>1. Len(b) \in Nat /\ Len(p.entries) \in Nat BY <1>2, <1>3
  <2>2. Len(b) + 1 \in 1..Len(p.entries) BY <1>1, <2>1
  <2> QED BY <1>2, <2>2
<1>6. room \in Nat BY <1>3, <1>4
<1>7. z = LimitedTo(ContentsIn(given, b, e), room) BY <1>4, Zenon DEF StepAt
<1>8. /\ x.bytes \in Nat /\ (i = "rust" => x.bytes <= room)
      /\ x.result \in Outcomes
      /\ x.result = z \/ (i = "rust" /\ x.result.error = "LimitExceeded" /\ z.error = "File")
      /\ x.result.error = "none" => x.result = z /\ Len(x.result.data) <= room
  <2> DEFINE w == LimitedTo(ContentsIn(given, b, e), room)
  <2>1. /\ x.bytes \in Nat /\ (i = "rust" => x.bytes <= room)
        /\ x.result \in Outcomes
        /\ x.result = w \/ (i = "rust" /\ x.result.error = "LimitExceeded" /\ w.error = "File")
        /\ x.result.error = "none" => x.result = w /\ Len(x.result.data) <= room
    BY <1>3, <1>5, <1>6, <1>ExpandsIs, ZenonT(30)
  <2>2. z = w BY <1>7, Zenon
  <2> HIDE DEF x, w, z
  <2> QED BY <2>1, <2>2, Zenon
<1>9. /\ peak' = [peak EXCEPT ![i] = IF used[i] + x.bytes > @ THEN used[i] + x.bytes ELSE @]
      /\ \/ /\ x.result.error = "none"
            /\ out' = [out EXCEPT ![i] = Append(@,
                  [path |-> e.path, kind |-> KindOf(e.op), mode |-> e.mode,
                   data |-> x.result.data, meta |-> e.meta])]
            /\ used' = [used EXCEPT ![i] = @ + Len(x.result.data)]
            /\ UNCHANGED <<pc, error>>
         \/ /\ x.result.error # "none"
            /\ Fail(i, x.result.error)
            /\ UNCHANGED <<out, used>>
  BY Zenon DEF Expand
<1> HIDE DEF x, z
<1>10. \E n \in Nat : peak' = [peak EXCEPT ![i] = n] /\ (i = "rust" /\ peak[i] <= maxOutput => n <= maxOutput)
  <2> DEFINE n == IF used[i] + x.bytes > peak[i] THEN used[i] + x.bytes ELSE peak[i]
  <2>1. n \in Nat BY <1>3, <1>8
  <2>2. i = "rust" /\ peak[i] <= maxOutput => n <= maxOutput BY <1>3, <1>4, <1>8, SMTT(30)
  <2>3. peak' = [peak EXCEPT ![i] = n] BY <1>9, Zenon
  <2> QED BY <2>1, <2>2, <2>3, Zenon
<1>11. CASE x.result.error = "none"
  <2>1. x.result = z /\ Len(z.data) <= room /\ z.data \in Seq(Nat) BY <1>8, <1>11, Zenon DEF Outcomes
  <2>2. out' = [out EXCEPT ![i] = Append(b, BuiltFrom(e, z.data))]
    BY <1>9, <1>11, <2>1, Zenon DEF BuiltFrom
  <2>3. used' = [used EXCEPT ![i] = used[i] + Len(z.data)] /\ UNCHANGED <<pc, error>>
    BY <1>9, <1>11, <2>1, Zenon
  <2>4. Builds(i, z) BY <1>4, <1>11, <2>1, <2>2, <2>3, Zenon DEF Builds
  <2> QED BY <1>1, <1>5, <1>10, <2>4, Zenon DEF z
<1>12. CASE x.result.error # "none"
  <2>1. z.error # "none" /\ (x.result.error = z.error
                              \/ (i = "rust" /\ x.result.error = "LimitExceeded" /\ z.error = "File"))
    BY <1>8, <1>12, Zenon
  <2>2. Stops(i, z, x.result.error) BY <1>9, <1>12, <2>1, Zenon DEF Stops, Fail, Goto
  <2> QED BY <1>1, <1>5, <1>10, <2>2, Zenon DEF z
<1> QED BY <1>11, <1>12, Zenon

LEMMA InitType == ASSUME Init PROVE TypeInv
<1>1. source \in Snapshot /\ target \in Snapshot /\ given \in Snapshot BY TreePatchAssumption, Zenon DEF Init
<1>2. omit \in SUBSET Families /\ maxOutput \in Nat BY TreePatchAssumption, Zenon DEF Init
<1>3. PatchInv BY Zenon DEF Init, PatchInv
<1>4. pc \in [Impls -> {"decode", "body", "verify", "expand", "done"}] BY Zenon DEF Init
<1>5. out \in [Impls -> Seq(Built)]
  <2>1. <<>> \in Seq(Built) OBVIOUS
  <2> QED BY <2>1, Zenon DEF Init
<1>6. used \in [Impls -> Nat] /\ peak \in [Impls -> Nat] /\ DOMAIN error = Impls BY Zenon DEF Init
<1> QED BY <1>1, <1>2, <1>3, <1>4, <1>5, <1>6, Zenon DEF TypeInv, RequestInv

LEMMA InitInv ==
  Init => Inv
<1>OutputSizeEmpty. OutputSize(<<>>) = 0
  <2> DEFINE s == [i \in DOMAIN <<>> |-> Len(<<>>[i].data)]
  <2>1. s \in Seq(Int) /\ Len(s) = 0 OBVIOUS
  <2> HIDE DEF s
  <2>2. Sums(s)[0] = 0 BY <2>1, SumsDef, Zenon
  <2> QED BY <2>1, <2>2, Zenon DEF OutputSize, Total, s
<1> SUFFICES ASSUME Init PROVE Inv
  BY Zenon
<1>1. /\ patch = {} /\ maxOutput \in Nat
      /\ \A i \in Impls : pc[i] = "decode" /\ out[i] = <<>> /\ used[i] = 0
  BY TreePatchAssumption, Zenon DEF Init
<1>2. ASSUME NEW i \in Impls PROVE Progress(i) /\ Amount(i) /\ Ended(i)
  <2>1. Progress(i) BY <1>1, Zenon DEF Progress
  <2>2. Amount(i) BY <1>1, <1>OutputSizeEmpty DEF Amount
  <2>3. Ended(i) BY <1>1, Zenon DEF Ended
  <2> QED BY <2>1, <2>2, <2>3, Zenon
<1>3. PortInv
  <2>1. "rust" \in Impls /\ "zig" \in Impls BY Zenon DEF Impls
  <2>2. IsPrefix(out["rust"], out["zig"]) BY <1>1, <2>1 DEF IsPrefix
  <2> QED BY <1>1, <2>1, <2>2, Zenon DEF PortInv
<1> QED BY <1>2, <1>3, Zenon DEF Inv

LEMMA RequestKept == ASSUME RequestInv, UNCHANGED request PROVE RequestInv'
  BY Zenon DEF RequestInv, PatchInv, request

\* The state of one implementation.
Local(i) == Progress(i) /\ Amount(i) /\ Ended(i)

LEMMA Framed ==
  ASSUME NEW j, Local(j), UNCHANGED request, pc'[j] = pc[j], out'[j] = out[j], used'[j] = used[j],
         error'[j] = error[j]
  PROVE  Local(j)'
<1>1. /\ patch' = patch /\ given' = given /\ maxOutput' = maxOutput BY Zenon DEF request
<1>2. Progress(j)' BY <1>1, Zenon DEF Local, Progress
<1>3. Amount(j)' BY <1>1, Zenon DEF Local, Amount
<1>4. Ended(j)' BY <1>1, Zenon DEF Local, Ended
<1> QED BY <1>2, <1>3, <1>4, Zenon DEF Local

\* The steps that build nothing.
Judges(i, label, f) ==
    /\ pc' = [pc EXCEPT ![i] = label]
    /\ IF label = "done" THEN error' = [error EXCEPT ![i] = f] ELSE error' = error
    /\ UNCHANGED <<out, used, peak>> /\ UNCHANGED request

LEMMA InvParts == Inv <=> (\A i \in Impls : Local(i)) /\ PortInv
  BY Zenon DEF Inv, Local

LEMMA JudgesInv ==
  \A i \in Impls : \A label \in {"decode", "body", "verify", "expand", "done"} : \A f :
      /\ TypeInv
      /\ Inv
      /\ Judges(i, label, f)
      /\ pc[i] # "done"
      /\ i = "rust" => pc["zig"] = "done"
      /\ (pc[i] = "expand" /\ label = "done") \/ out[i] = <<>>
      /\ label = "done" => /\ patch # {} /\ Stopped(The(patch), given, maxOutput, out[i], f)
      /\ label \in {"body", "verify", "expand"} => patch # {} /\ PrefixError(The(patch)) = ""
      /\ label \in {"verify", "expand"} => BodyError(The(patch)) = ""
      /\ label = "expand" => Opens(The(patch), given)
    => TypeInv' /\ Inv'
<1>JudgesType. ASSUME TypeInv, NEW i \in Impls, NEW label \in {"decode", "body", "verify", "expand", "done"}, NEW f,
                      Judges(i, label, f)
               PROVE  /\ TypeInv'
                      /\ pc'[i] = label /\ out'[i] = out[i] /\ used'[i] = used[i] /\ (label = "done" => error'[i] = f)
                      /\ \A j \in Impls : j # i => pc'[j] = pc[j] /\ out'[j] = out[j]
                                              /\ used'[j] = used[j] /\ error'[j] = error[j]
  <2> USE <1>JudgesType
  <2>1. RequestInv' BY RequestKept, Zenon DEF TypeInv, Judges
  <2>2. /\ pc' \in [Impls -> {"decode", "body", "verify", "expand", "done"}]
        /\ out' \in [Impls -> Seq(Built)] /\ used' \in [Impls -> Nat] /\ peak' \in [Impls -> Nat]
        /\ DOMAIN error' = Impls
    BY Zenon DEF TypeInv, Judges
  <2>3. pc'[i] = label /\ (label = "done" => error'[i] = f) BY Zenon DEF TypeInv, Judges
  <2>4. \A j \in Impls : j # i => pc'[j] = pc[j] /\ error'[j] = error[j] BY Zenon DEF TypeInv, Judges
  <2>5. out' = out /\ used' = used BY Zenon DEF Judges
  <2> QED BY <2>1, <2>2, <2>3, <2>4, <2>5, Zenon DEF TypeInv
\* A step that builds nothing keeps what the port has to do with applyPatchRoot.
<1>JudgesPort.
    ASSUME TypeInv, PortInv, NEW i \in Impls, NEW label \in {"decode", "body", "verify", "expand", "done"}, NEW f,
           Judges(i, label, f), pc[i] # "done", i = "rust" => pc["zig"] = "done"
    PROVE  PortInv'
  <2> USE <1>JudgesPort
  <2>1. /\ pc'[i] = label /\ \A j \in Impls : j # i => pc'[j] = pc[j] BY <1>JudgesType, Zenon
  <2>2. "zig" \in Impls /\ "rust" \in Impls /\ "zig" # "rust" BY Zenon DEF Impls
  <2>3. pc'["rust"] # "decode" => pc'["zig"] = "done"
    <3>1. CASE i = "zig"
      <4>1. pc["rust"] = "decode" BY <3>1, Zenon DEF PortInv
      <4> QED BY <2>1, <2>2, <3>1, <4>1, Zenon
    <3>2. CASE i = "rust" BY <2>1, <2>2, <3>2, Zenon
    <3> QED BY <3>1, <3>2, Zenon DEF Impls
  <2>4. patch' = patch /\ given' = given /\ maxOutput' = maxOutput /\ out' = out
    BY Zenon DEF Judges, request
  <2> QED BY <2>3, <2>4, Zenon DEF PortInv
<1> SUFFICES ASSUME TypeInv, Inv, NEW i \in Impls, NEW label \in {"decode", "body", "verify", "expand", "done"}, NEW f,
                    Judges(i, label, f), pc[i] # "done", i = "rust" => pc["zig"] = "done",
                    (pc[i] = "expand" /\ label = "done") \/ out[i] = <<>>,
                    label = "done" => /\ patch # {}
                                      /\ Stopped(The(patch), given, maxOutput, out[i], f),
                    label \in {"body", "verify", "expand"} => patch # {} /\ PrefixError(The(patch)) = "",
                    label \in {"verify", "expand"} => BodyError(The(patch)) = "",
                    label = "expand" => Opens(The(patch), given)
             PROVE  TypeInv' /\ Inv'
  BY Zenon
<1>1. Local(i) /\ PortInv /\ \A j \in Impls : Local(j) BY InvParts, Zenon
<1>2. /\ TypeInv'
      /\ pc'[i] = label /\ out'[i] = out[i] /\ used'[i] = used[i] /\ (label = "done" => error'[i] = f)
      /\ \A j \in Impls : j # i => pc'[j] = pc[j] /\ out'[j] = out[j] /\ used'[j] = used[j] /\ error'[j] = error[j]
  BY <1>JudgesType, Zenon
<1>3. patch' = patch /\ given' = given /\ maxOutput' = maxOutput /\ UNCHANGED request
  BY Zenon DEF Judges, request
<1>4. \A j \in Impls : j # i => Local(j)' BY <1>1, <1>2, <1>3, Framed, Zenon
<1>5. Progress(i)' BY <1>2, <1>3, Zenon DEF Progress
<1>6. Amount(i)' BY <1>1, <1>2, <1>3, Zenon DEF Local, Amount
<1>7. Ended(i)' BY <1>2, <1>3, Zenon DEF Ended
<1>8. PortInv' BY <1>1, <1>JudgesPort, Zenon
<1>9. Local(i)' BY <1>5, <1>6, <1>7, Zenon DEF Local
<1>10. \A j \in Impls : Local(j)' BY <1>4, <1>9, Zenon
<1> QED BY <1>2, <1>8, <1>10, Zenon DEF Inv, Local

LEMMA DecodePrefixInv ==
  \A i \in Impls : TypeInv /\ Inv /\ DecodePrefix(i) => TypeInv' /\ Inv'
<1>DecodePrefixStep.
    ASSUME NEW i, DecodePrefix(i)
    PROVE  /\ patch # {} /\ pc[i] = "decode" /\ (i = "rust" => pc["zig"] = "done")
           /\ IF PrefixError(The(patch)) = "" THEN Judges(i, "body", "")
              ELSE Judges(i, "done", PrefixError(The(patch)))
  <2> USE <1>DecodePrefixStep
  <2>1. patch # {} /\ pc[i] = "decode" /\ (i = "rust" => pc["zig"] = "done") BY Zenon DEF DecodePrefix, Runs
  <2>2. UNCHANGED <<out, used, peak>> /\ UNCHANGED request BY Zenon DEF DecodePrefix
  <2>3. CASE PrefixError(The(patch)) = ""
    <3>1. pc' = [pc EXCEPT ![i] = "body"] /\ error' = error BY <2>3, Zenon DEF DecodePrefix, Goto
    <3>2. Judges(i, "body", "") BY <2>2, <3>1, Zenon DEF Judges
    <3> QED BY <2>1, <2>3, <3>2, Zenon
  <2>4. CASE PrefixError(The(patch)) # ""
    <3>1. pc' = [pc EXCEPT ![i] = "done"] /\ error' = [error EXCEPT ![i] = PrefixError(The(patch))]
      BY <2>4, Zenon DEF DecodePrefix, Goto, Fail
    <3>2. Judges(i, "done", PrefixError(The(patch))) BY <2>2, <3>1, Zenon DEF Judges
    <3> QED BY <2>1, <2>4, <3>2, Zenon
  <2> QED BY <2>3, <2>4, Zenon
<1> SUFFICES ASSUME TypeInv, Inv, NEW i \in Impls, DecodePrefix(i) PROVE TypeInv' /\ Inv'
  BY Zenon
<1> DEFINE p == The(patch)
<1>1. /\ patch # {} /\ pc[i] = "decode" /\ (i = "rust" => pc["zig"] = "done")
      /\ IF PrefixError(p) = "" THEN Judges(i, "body", "") ELSE Judges(i, "done", PrefixError(p))
  BY <1>DecodePrefixStep, Zenon
<1>2. Progress(i) BY InvParts, Zenon DEF Local
<1>3. out[i] = <<>> BY <1>1, <1>2, Zenon DEF Progress
<1>4. CASE PrefixError(p) = "" BY <1>1, <1>3, <1>4, JudgesInv, Zenon
<1>5. CASE PrefixError(p) # ""
  <2>1. Stopped(p, given, maxOutput, out[i], PrefixError(p)) BY <1>3, <1>5, Zenon DEF Stopped, Refused
  <2>2. Judges(i, "done", PrefixError(p)) BY <1>1, <1>5, Zenon
  <2> QED BY <1>1, <1>3, <2>1, <2>2, JudgesInv, Zenon
<1> QED BY <1>4, <1>5, Zenon

LEMMA DecodeBodyInv ==
  \A i \in Impls : TypeInv /\ Inv /\ DecodeBody(i) => TypeInv' /\ Inv'
<1>DecodeBodyStep.
    ASSUME NEW i, DecodeBody(i)
    PROVE  /\ patch # {} /\ pc[i] = "body" /\ (i = "rust" => pc["zig"] = "done")
           /\ IF BodyError(The(patch)) = "" THEN Judges(i, "verify", "")
              ELSE Judges(i, "done", BodyError(The(patch)))
  <2> USE <1>DecodeBodyStep
  <2>1. patch # {} /\ pc[i] = "body" /\ (i = "rust" => pc["zig"] = "done") BY Zenon DEF DecodeBody, Runs
  <2>2. UNCHANGED <<out, used, peak>> /\ UNCHANGED request BY Zenon DEF DecodeBody
  <2>3. CASE BodyError(The(patch)) = ""
    <3>1. pc' = [pc EXCEPT ![i] = "verify"] /\ error' = error BY <2>3, Zenon DEF DecodeBody, Goto
    <3>2. Judges(i, "verify", "") BY <2>2, <3>1, Zenon DEF Judges
    <3> QED BY <2>1, <2>3, <3>2, Zenon
  <2>4. CASE BodyError(The(patch)) # ""
    <3>1. pc' = [pc EXCEPT ![i] = "done"] /\ error' = [error EXCEPT ![i] = BodyError(The(patch))]
      BY <2>4, Zenon DEF DecodeBody, Goto, Fail
    <3>2. Judges(i, "done", BodyError(The(patch))) BY <2>2, <3>1, Zenon DEF Judges
    <3> QED BY <2>1, <2>4, <3>2, Zenon
  <2> QED BY <2>3, <2>4, Zenon
<1> SUFFICES ASSUME TypeInv, Inv, NEW i \in Impls, DecodeBody(i) PROVE TypeInv' /\ Inv'
  BY Zenon
<1> DEFINE p == The(patch)
<1>1. /\ patch # {} /\ pc[i] = "body" /\ (i = "rust" => pc["zig"] = "done")
      /\ IF BodyError(p) = "" THEN Judges(i, "verify", "") ELSE Judges(i, "done", BodyError(p))
  BY <1>DecodeBodyStep, Zenon
<1>2. Progress(i) BY InvParts, Zenon DEF Local
<1>3. out[i] = <<>> /\ PrefixError(p) = "" BY <1>1, <1>2, Zenon DEF Progress
<1>4. CASE BodyError(p) = "" BY <1>1, <1>3, <1>4, JudgesInv, Zenon
<1>5. CASE BodyError(p) # ""
  <2>1. Stopped(p, given, maxOutput, out[i], BodyError(p)) BY <1>3, <1>5, Zenon DEF Stopped, Refused
  <2>2. Judges(i, "done", BodyError(p)) BY <1>1, <1>5, Zenon
  <2> QED BY <1>1, <1>3, <2>1, <2>2, JudgesInv, Zenon
<1> QED BY <1>4, <1>5, Zenon

LEMMA VerifyInv ==
  \A i \in Impls : TypeInv /\ Inv /\ Verify(i) => TypeInv' /\ Inv'
<1>VerifyStep. ASSUME NEW i, Verify(i)
               PROVE  /\ patch # {} /\ pc[i] = "verify" /\ (i = "rust" => pc["zig"] = "done")
                      /\ IF Mask(given, The(patch).omit) = The(patch).source THEN Judges(i, "expand", "")
                         ELSE Judges(i, "done", "SourceHashMismatch")
  <2> USE <1>VerifyStep
  <2>1. patch # {} /\ pc[i] = "verify" /\ (i = "rust" => pc["zig"] = "done") BY Zenon DEF Verify, Runs
  <2>2. UNCHANGED <<out, used, peak>> /\ UNCHANGED request BY Zenon DEF Verify
  <2>3. CASE Mask(given, The(patch).omit) = The(patch).source
    <3>1. pc' = [pc EXCEPT ![i] = "expand"] /\ error' = error BY <2>3, Zenon DEF Verify, Goto
    <3>2. Judges(i, "expand", "") BY <2>2, <3>1, Zenon DEF Judges
    <3> QED BY <2>1, <2>3, <3>2, Zenon
  <2>4. CASE Mask(given, The(patch).omit) # The(patch).source
    <3>1. pc' = [pc EXCEPT ![i] = "done"] /\ error' = [error EXCEPT ![i] = "SourceHashMismatch"]
      BY <2>4, Zenon DEF Verify, Goto, Fail
    <3>2. Judges(i, "done", "SourceHashMismatch") BY <2>2, <3>1, Zenon DEF Judges
    <3> QED BY <2>1, <2>4, <3>2, Zenon
  <2> QED BY <2>3, <2>4, Zenon
<1> SUFFICES ASSUME TypeInv, Inv, NEW i \in Impls, Verify(i) PROVE TypeInv' /\ Inv'
  BY Zenon
<1> DEFINE p == The(patch)
           same == Mask(given, p.omit) = p.source
<1>1. /\ patch # {} /\ pc[i] = "verify" /\ (i = "rust" => pc["zig"] = "done")
      /\ IF same THEN Judges(i, "expand", "") ELSE Judges(i, "done", "SourceHashMismatch")
  BY <1>VerifyStep, Zenon
<1>2. Progress(i) BY InvParts, Zenon DEF Local
<1>3. out[i] = <<>> /\ PrefixError(p) = "" /\ BodyError(p) = "" BY <1>1, <1>2, Zenon DEF Progress
<1>4. CASE same
  <2>1. Opens(p, given) BY <1>3, <1>4, Zenon DEF Opens
  <2>2. Judges(i, "expand", "") BY <1>1, <1>4, Zenon
  <2> QED BY <1>1, <1>3, <2>1, <2>2, JudgesInv, Zenon
<1>5. CASE ~same
  <2>1. Stopped(p, given, maxOutput, out[i], "SourceHashMismatch") BY <1>3, <1>5, Zenon DEF Stopped, Refused
  <2>2. Judges(i, "done", "SourceHashMismatch") BY <1>1, <1>5, Zenon
  <2> QED BY <1>1, <1>3, <2>1, <2>2, JudgesInv, Zenon
<1> QED BY <1>4, <1>5, Zenon

LEMMA FinishInv ==
  \A i \in Impls : TypeInv /\ Inv /\ Finish(i) => TypeInv' /\ Inv'
<1>FinishStep. ASSUME NEW i, Finish(i)
               PROVE  /\ patch # {} /\ pc[i] = "expand" /\ (i = "rust" => pc["zig"] = "done")
                      /\ Len(out[i]) = Len(The(patch).entries)
                      /\ Judges(i, "done", Verdict(The(patch), out[i]))
  <2> USE <1>FinishStep
  <2>1. /\ patch # {} /\ pc[i] = "expand" /\ (i = "rust" => pc["zig"] = "done")
        /\ Len(out[i]) = Len(The(patch).entries)
    BY Zenon DEF Finish, Runs
  <2>2. UNCHANGED <<out, used, peak>> /\ UNCHANGED request BY Zenon DEF Finish
  <2>3. Fail(i, Verdict(The(patch), out[i])) BY Zenon DEF Finish, Verdict, Result
  <2>4. Judges(i, "done", Verdict(The(patch), out[i])) BY <2>2, <2>3, Zenon DEF Judges, Fail, Goto
  <2> QED BY <2>1, <2>4, Zenon
<1> SUFFICES ASSUME TypeInv, Inv, NEW i \in Impls, Finish(i) PROVE TypeInv' /\ Inv'
  BY Zenon
<1> DEFINE p == The(patch)
<1>1. /\ patch # {} /\ pc[i] = "expand" /\ (i = "rust" => pc["zig"] = "done")
      /\ Len(out[i]) = Len(p.entries) /\ Judges(i, "done", Verdict(p, out[i]))
  BY <1>FinishStep, Zenon
<1>2. Progress(i) BY InvParts, Zenon DEF Local
<1>3. Opens(p, given) BY <1>1, <1>2, Zenon DEF Progress
<1>4. Stopped(p, given, maxOutput, out[i], Verdict(p, out[i])) BY <1>1, <1>3, Zenon DEF Stopped
<1> QED BY <1>1, <1>4, JudgesInv, Zenon

LEMMA CreateInv == ASSUME TypeInv, Inv, Create PROVE TypeInv' /\ Inv'
<1> DEFINE p == CreatePatch(source, target, omit)
<1>1. /\ patch = {} /\ pc["zig"] = "decode" /\ UNCHANGED <<source, target, omit, given, maxOutput, out, used, peak>>
      /\ \/ IsWritten(p) /\ patch' = {p} /\ UNCHANGED <<pc, error>>
         \/ /\ pc' = [i \in Impls |-> "done"] /\ error' = [i \in Impls |-> "LimitExceeded"]
            /\ UNCHANGED patch
  BY Zenon DEF Create
<1>2. "zig" \in Impls /\ "rust" \in Impls /\ \A i \in Impls : i = "zig" \/ i = "rust" BY Zenon DEF Impls
<1>3. pc["rust"] = "decode" BY <1>1, InvParts, Zenon DEF PortInv
<1>4. \A i \in Impls : pc[i] = "decode" BY <1>1, <1>2, <1>3, Zenon
<1>5. \A i \in Impls : Local(i) BY InvParts, Zenon
<1>6. \A i \in Impls : out[i] = <<>> BY <1>4, <1>5, Zenon DEF Local, Progress
<1>7. CASE patch' = {p} /\ UNCHANGED <<pc, error>>
  <2>1. source \in Snapshot /\ target \in Snapshot /\ omit \in SUBSET Families BY Zenon DEF TypeInv, RequestInv
  <2>2. Sealed(p) BY <2>1, CreatePatchType, Zenon DEF Sealed
  <2>3. The(patch') = p BY <1>7, TheOne, Zenon
  <2> HIDE DEF p
  <2>4. PatchInv' BY <1>7, <2>2, <2>3, Zenon DEF PatchInv
  <2>5. TypeInv' BY <1>1, <1>7, <2>4, Zenon DEF TypeInv, RequestInv
  <2>6. ASSUME NEW i \in Impls PROVE Local(i)'
    <3>1. Progress(i)' BY <1>1, <1>4, <1>6, <1>7, ZenonT(30) DEF Progress
    <3>2. Amount(i)' BY <1>1, <1>5, <1>6, Zenon DEF Local, Amount
    <3>3. Ended(i)' BY <1>4, <1>7, Zenon DEF Ended
    <3> QED BY <3>1, <3>2, <3>3, Zenon DEF Local
  <2>7. PortInv'
    <3>1. Traces(The(patch'), given', maxOutput', out'["zig"])
      <4>1. out'["zig"] = <<>> BY <1>1, <1>2, <1>6, Zenon
      <4> QED BY <4>1 DEF Traces
    <3>2. IsPrefix(out'["rust"], out'["zig"]) BY <1>1, <1>2, <1>6 DEF IsPrefix
    <3> QED BY <1>3, <1>7, <3>1, <3>2, Zenon DEF PortInv
  <2> QED BY <2>5, <2>6, <2>7, Zenon DEF Inv, Local
<1>8. CASE /\ pc' = [i \in Impls |-> "done"] /\ error' = [i \in Impls |-> "LimitExceeded"]
           /\ UNCHANGED patch
  <2>1. PatchInv' BY <1>8, Zenon DEF PatchInv, TypeInv, RequestInv
  <2>2. TypeInv' BY <1>1, <1>8, <2>1, Zenon DEF TypeInv, RequestInv
  <2>3. ASSUME NEW i \in Impls PROVE Local(i)'
    <3>0. pc'[i] = "done" /\ error'[i] = "LimitExceeded" BY <1>8, Zenon
    <3>1. Progress(i)' BY <3>0, Zenon DEF Progress
    <3>2. Amount(i)' BY <1>1, <1>5, <1>6, Zenon DEF Local, Amount
    <3>3. Ended(i)' BY <1>1, <1>6, <1>8, <3>0, Zenon DEF Ended
    <3> QED BY <3>1, <3>2, <3>3, Zenon DEF Local
  <2>4. PortInv'
    <3>1. IsPrefix(out'["rust"], out'["zig"]) BY <1>1, <1>2, <1>6 DEF IsPrefix
    <3>2. pc'["zig"] = "done" BY <1>2, <1>8, Zenon
    <3> QED BY <1>1, <1>8, <3>1, <3>2, Zenon DEF PortInv
  <2> QED BY <2>2, <2>3, <2>4, Zenon DEF Inv, Local
<1> QED BY <1>1, <1>7, <1>8, Zenon

LEMMA ResealInv ==
  TypeInv /\ Inv /\ Reseal => TypeInv' /\ Inv'
<1>EditsType. \A p : \A x \in Edits(p) : Sealed(p) => Sealed(x)
  <2>EntryEditsType. ASSUME NEW e \in Record PROVE EntryEdits(e) \subseteq Record
    <3> USE <2>EntryEditsType
    <3>1. \A o \in {"directory", "symlink", "copy", "raw", "delta", "hardlink", "unknown"} :
             [e EXCEPT !.op = o] \in Record
      BY Zenon DEF Record, Operations
    <3>2. \A m \in {6, 7, 8} : [e EXCEPT !.mode = m] \in Record BY DEF Record
    <3>3. \A p \in Paths \cup {0} : [e EXCEPT !.path = p] \in Record BY Zenon DEF Record
    <3>4. \A b \in {<<>>, <<0>>, <<2, 1>>, <<1, 2, 2>>} : [e EXCEPT !.bytes = b] \in Record
      <4>1. <<>> \in Seq(Nat) /\ <<0>> \in Seq(Nat) OBVIOUS
      <4>2. <<2, 1>> \in Seq(Nat) /\ <<1, 2, 2>> \in Seq(Nat) OBVIOUS
      <4>3. \A b \in Seq(Nat) : [e EXCEPT !.bytes = b] \in Record BY Zenon DEF Record
      <4> QED BY <4>1, <4>2, <4>3, Zenon
    <3>5. [e EXCEPT !.reserved = 1] \in Record BY Zenon DEF Record
    <3>6. <<1, 1, 1>> \in Seq(Nat) OBVIOUS
    <3>7. \A D \in SUBSET Delta : [e EXCEPT !.delta = D] \in Record BY Zenon DEF Record
    <3>8. e.delta \in SUBSET Delta BY Zenon DEF Record
    <3>9. /\ {[d EXCEPT !.from = <<1, 1, 1>>] : d \in e.delta} \in SUBSET Delta
          /\ {[d EXCEPT !.sound = FALSE] : d \in e.delta} \in SUBSET Delta
          /\ {[d EXCEPT !.to = <<1, 1, 1>>] : d \in e.delta} \in SUBSET Delta
      BY <3>6, <3>8, Zenon DEF Delta
    <3>10. \A m \in Meta : [e EXCEPT !.meta = m] \in Record BY Zenon DEF Record
    <3>11. e.meta \in Meta BY Zenon DEF Record
    <3>12. [e EXCEPT !.meta.attr = ~@] \in Record
      <4>1. [e.meta EXCEPT !.attr = ~@] \in Meta BY <3>11, Zenon DEF Meta
      <4> QED BY <4>1, Zenon DEF Record
    <3>13. [e EXCEPT !.meta.hole = ~@] \in Record
      <4>1. [e.meta EXCEPT !.hole = ~@] \in Meta BY <3>11, Zenon DEF Meta
      <4> QED BY <4>1, Zenon DEF Record
    <3>14. ASSUME NEW p \in Paths \cup {0}
           PROVE  [e EXCEPT !.meta.link = p] \in Record /\ [e EXCEPT !.meta.link = p, !.ref = p] \in Record
      <4>1. p \in Nat BY TreePatchAssumption
      <4>2. [e.meta EXCEPT !.link = p] \in Meta BY <3>11, <4>1, Zenon DEF Meta
      <4> QED BY <4>1, <4>2, Zenon DEF Record
    <3>15. ASSUME NEW x \in EntryEdits(e) PROVE x \in Record
      <4>1. \/ \E o \in {"directory", "symlink", "copy", "raw", "delta", "hardlink", "unknown"} :
                  x = [e EXCEPT !.op = o]
            \/ \E m \in {6, 7, 8} : x = [e EXCEPT !.mode = m]
            \/ \E p \in Paths \cup {0} : x = [e EXCEPT !.path = p]
            \/ \E b \in {<<>>, <<0>>, <<2, 1>>, <<1, 2, 2>>} : x = [e EXCEPT !.bytes = b]
            \/ x = [e EXCEPT !.reserved = 1]
            \/ x = [e EXCEPT !.delta = {[d EXCEPT !.from = <<1, 1, 1>>] : d \in e.delta}]
            \/ x = [e EXCEPT !.delta = {[d EXCEPT !.sound = FALSE] : d \in e.delta}]
            \/ x = [e EXCEPT !.delta = {[d EXCEPT !.to = <<1, 1, 1>>] : d \in e.delta}]
            \/ x = [e EXCEPT !.meta.attr = ~@] \/ x = [e EXCEPT !.meta.hole = ~@]
            \/ \E p \in Paths \cup {0} : x = [e EXCEPT !.meta.link = p]
            \/ \E p \in Paths \cup {0} : x = [e EXCEPT !.meta.link = p, !.ref = p]
        BY <3>15, Zenon DEF EntryEdits
      <4> QED BY <3>1, <3>2, <3>3, <3>4, <3>5, <3>7, <3>9, <3>12, <3>13, <3>14, <4>1, Zenon
    <3> QED BY <3>15, Zenon
  <2>FieldEdits. ASSUME NEW p \in Written
                 PROVE  /\ \A v \in Seq(Record) : [p EXCEPT !.entries = v] \in Written
                        /\ \A v \in SUBSET Families : [p EXCEPT !.omit = v] \in Written
                        /\ \A v \in {"good", "bad", "short", "magic"} : [p EXCEPT !.seal = v] \in Written
                        /\ \A v \in Nat : /\ [p EXCEPT !.version = v] \in Written /\ [p EXCEPT !.needed = v] \in Written
                                          /\ [p EXCEPT !.extra = v] \in Written /\ [p EXCEPT !.ruleCount = v] \in Written
                                          /\ [p EXCEPT !.entryCount = v] \in Written
                        /\ \A v \in Seq(Rule) : [p EXCEPT !.rules = v] \in Written
    <3> USE <2>FieldEdits
    <3>1. \A v \in Seq(Record) : [p EXCEPT !.entries = v] \in Written BY Zenon DEF Written
    <3>2. \A v \in SUBSET Families : [p EXCEPT !.omit = v] \in Written BY Zenon DEF Written
    <3>3. \A v \in {"good", "bad", "short", "magic"} : [p EXCEPT !.seal = v] \in Written BY Zenon DEF Written
    <3>4. \A v \in Nat : [p EXCEPT !.version = v] \in Written BY Zenon DEF Written
    <3>5. \A v \in Nat : [p EXCEPT !.needed = v] \in Written BY Zenon DEF Written
    <3>6. \A v \in Nat : [p EXCEPT !.extra = v] \in Written BY Zenon DEF Written
    <3>7. \A v \in Nat : [p EXCEPT !.ruleCount = v] \in Written BY Zenon DEF Written
    <3>8. \A v \in Nat : [p EXCEPT !.entryCount = v] \in Written BY Zenon DEF Written
    <3>9. \A v \in Seq(Rule) : [p EXCEPT !.rules = v] \in Written BY Zenon DEF Written
    <3> QED BY <3>1, <3>2, <3>3, <3>4, <3>5, <3>6, <3>7, <3>8, <3>9, Zenon
  <2>FlagEdits. ASSUME NEW p \in Written
                PROVE  /\ [p EXCEPT !.unknown = TRUE] \in Written /\ [p EXCEPT !.cut = TRUE] \in Written
                       /\ \A r \in Meta : [p EXCEPT !.rooted = TRUE, !.root = r] \in Written
    <3> USE <2>FlagEdits
    <3>1. [p EXCEPT !.unknown = TRUE] \in Written BY Zenon DEF Written
    <3>2. [p EXCEPT !.cut = TRUE] \in Written BY Zenon DEF Written
    <3>3. \A r \in Meta : [p EXCEPT !.rooted = TRUE, !.root = r] \in Written BY Zenon DEF Written
    <3> QED BY <3>1, <3>2, <3>3, Zenon
  <2>EditedEntries.
      ASSUME NEW entries \in Seq(Record)
      PROVE  /\ \A i \in 1..Len(entries) : \A e \in EntryEdits(entries[i]) : [entries EXCEPT ![i] = e] \in Seq(Record)
             /\ \A i \in 1..Len(entries) :
                   SubSeq(entries, 1, i - 1) \o SubSeq(entries, i + 1, Len(entries)) \in Seq(Record)
             /\ [i \in DOMAIN entries |-> entries[Len(entries) + 1 - i]] \in Seq(Record)
    <3> USE <2>EditedEntries
    <3>1. PICK n \in Nat : n = Len(entries) /\ DOMAIN entries = 1..n /\ \A i \in 1..n : entries[i] \in Record
      OBVIOUS
    <3>2. ASSUME NEW i \in 1..n, NEW e \in EntryEdits(entries[i]) PROVE [entries EXCEPT ![i] = e] \in Seq(Record)
      <4>1. e \in Record BY <3>1, <2>EntryEditsType, Zenon
      <4> QED BY <3>1, <4>1
    <3>3. ASSUME NEW i \in 1..n
          PROVE  SubSeq(entries, 1, i - 1) \o SubSeq(entries, i + 1, n) \in Seq(Record)
      <4>1. SubSeq(entries, 1, i - 1) \in Seq(Record)
        <5>1. i - 1 \in Nat /\ \A k \in 1..(i - 1) : entries[k] \in Record BY <3>1
        <5> QED BY <3>1, <5>1
      <4>2. SubSeq(entries, i + 1, n) \in Seq(Record)
        <5>1. \A k \in (i + 1)..n : entries[k] \in Record BY <3>1
        <5> QED BY <3>1, <5>1
      <4> QED BY <4>1, <4>2
    <3>4. [i \in DOMAIN entries |-> entries[n + 1 - i]] \in Seq(Record)
      <4>1. \A i \in 1..n : n + 1 - i \in 1..n OBVIOUS
      <4>2. [i \in 1..n |-> entries[n + 1 - i]] \in Seq(Record) BY <3>1, <4>1
      <4> QED BY <3>1, <4>2, Zenon
    <3> QED BY <3>1, <3>2, <3>3, <3>4, Zenon
  <2>EditedRules. ASSUME NEW rules \in Seq(Rule), NEW i \in DOMAIN rules
                  PROVE  /\ [rules EXCEPT ![i].action = 3] \in Seq(Rule)
                         /\ [rules EXCEPT ![i].reserved = 1] \in Seq(Rule)
                         /\ [rules EXCEPT ![i].pattern = 0] \in Seq(Rule)
                         /\ [rules EXCEPT ![i].pattern = Limits.pattern + 1] \in Seq(Rule)
                         /\ [rules EXCEPT ![i].compiles = FALSE] \in Seq(Rule)
    <3> USE <2>EditedRules
    <3>1. PICK n \in Nat : n = Len(rules) /\ DOMAIN rules = 1..n /\ \A k \in 1..n : rules[k] \in Rule
      OBVIOUS
    <3>2. \A r \in Rule : [rules EXCEPT ![i] = r] \in Seq(Rule) BY <3>1
    <3>3. rules[i] \in Rule BY <3>1, Zenon
    <3>4. Limits.pattern + 1 \in Nat BY TreePatchAssumption
    <3>5. [rules[i] EXCEPT !.action = 3] \in Rule /\ [rules[i] EXCEPT !.reserved = 1] \in Rule
      BY <3>3, Zenon DEF Rule
    <3>6. [rules[i] EXCEPT !.pattern = 0] \in Rule /\ [rules[i] EXCEPT !.pattern = Limits.pattern + 1] \in Rule
      BY <3>3, <3>4, Zenon DEF Rule
    <3>7. [rules[i] EXCEPT !.compiles = FALSE] \in Rule BY <3>3, Zenon DEF Rule
    <3> QED BY <3>2, <3>5, <3>6, <3>7, Zenon
  <2>EditedRoot. RootEdits \subseteq Meta
    <3>1. NoMeta \in Meta BY Zenon DEF NoMeta, Meta
    <3>2. [NoMeta EXCEPT !.attr = TRUE] \in Meta BY <3>1, Zenon DEF Meta
    <3>3. [NoMeta EXCEPT !.hole = TRUE] \in Meta BY <3>1, Zenon DEF Meta
    <3>4. \A p \in Paths : [NoMeta EXCEPT !.link = p] \in Meta BY <3>1, Zenon DEF Meta
    <3> QED BY <3>1, <3>2, <3>3, <3>4, Zenon DEF RootEdits
  <2> SUFFICES ASSUME NEW p, Sealed(p), NEW x \in Edits(p) PROVE Sealed(x)
    BY Zenon
  <2>1. /\ p \in Written /\ p.entries \in Seq(Record) /\ p.rules \in Seq(Rule)
        /\ p.omit \in SUBSET Families
    BY Zenon DEF Sealed, Written
  <2>2. /\ Limits.patch \in Nat /\ Limits.rules \in Nat /\ Limits.entries \in Nat
        /\ 0..(Limits.rules + 1) \subseteq Nat /\ 0..(Limits.entries + 1) \subseteq Nat
    BY TreePatchAssumption
  <2>3. ASSUME NEW i \in 1..Len(p.entries), NEW e \in EntryEdits(p.entries[i]),
               x = [p EXCEPT !.entries = [@ EXCEPT ![i] = e]]
        PROVE  \E v \in Seq(Record) : x = [p EXCEPT !.entries = v]
    BY <2>1, <2>3, <2>EditedEntries, Zenon
  <2>4. ASSUME NEW i \in DOMAIN p.rules,
               \/ x = [p EXCEPT !.rules[i].action = 3] \/ x = [p EXCEPT !.rules[i].reserved = 1]
               \/ x = [p EXCEPT !.rules[i].pattern = 0] \/ x = [p EXCEPT !.rules[i].pattern = Limits.pattern + 1]
               \/ x = [p EXCEPT !.rules[i].compiles = FALSE]
        PROVE  \E v \in Seq(Rule) : x = [p EXCEPT !.rules = v]
    BY <2>1, <2>4, <2>EditedRules, Zenon
  <2>5. ASSUME \/ \E i \in 1..Len(p.entries) :
                     x = [p EXCEPT !.entries = SubSeq(@, 1, i - 1) \o SubSeq(@, i + 1, Len(@))]
               \/ x = [p EXCEPT !.entries = [i \in DOMAIN @ |-> @[Len(@) + 1 - i]]]
        PROVE  \E v \in Seq(Record) : x = [p EXCEPT !.entries = v]
    BY <2>1, <2>5, <2>EditedEntries, Zenon
  <2>6. \/ \E i \in 1..Len(p.entries) : \E e \in EntryEdits(p.entries[i]) :
              x = [p EXCEPT !.entries = [@ EXCEPT ![i] = e]]
        \/ \E i \in 1..Len(p.entries) :
              x = [p EXCEPT !.entries = SubSeq(@, 1, i - 1) \o SubSeq(@, i + 1, Len(@))]
        \/ x = [p EXCEPT !.entries = [i \in DOMAIN @ |-> @[Len(@) + 1 - i]]]
        \/ \E o \in SUBSET Families : x = [p EXCEPT !.omit = o]
        \/ \E r \in RootEdits :
              x = [p EXCEPT !.rooted = TRUE, !.root = r]
        \/ \E v \in {"bad", "short", "magic"} : x = [p EXCEPT !.seal = v]
        \/ x = [p EXCEPT !.version = 3] \/ x = [p EXCEPT !.needed = 3] \/ x = [p EXCEPT !.needed = 1]
        \/ x = [p EXCEPT !.unknown = TRUE] \/ x = [p EXCEPT !.cut = TRUE]
        \/ x = [p EXCEPT !.extra = 1] \/ x = [p EXCEPT !.extra = Limits.patch]
        \/ \E n \in 0..(Limits.rules + 1) : x = [p EXCEPT !.ruleCount = n]
        \/ \E n \in 0..(Limits.entries + 1) : x = [p EXCEPT !.entryCount = n]
        \/ \E i \in DOMAIN p.rules :
              \/ x = [p EXCEPT !.rules[i].action = 3] \/ x = [p EXCEPT !.rules[i].reserved = 1]
              \/ x = [p EXCEPT !.rules[i].pattern = 0] \/ x = [p EXCEPT !.rules[i].pattern = Limits.pattern + 1]
              \/ x = [p EXCEPT !.rules[i].compiles = FALSE]
    <3>1. x \in RecordEdits(p) => \E i \in 1..Len(p.entries) : \E e \in EntryEdits(p.entries[i]) :
              x = [p EXCEPT !.entries = [@ EXCEPT ![i] = e]]
      BY Zenon DEF RecordEdits
    <3>2. x \in RuleEdits(p) => \E i \in DOMAIN p.rules :
              \/ x = [p EXCEPT !.rules[i].action = 3] \/ x = [p EXCEPT !.rules[i].reserved = 1]
              \/ x = [p EXCEPT !.rules[i].pattern = 0] \/ x = [p EXCEPT !.rules[i].pattern = Limits.pattern + 1]
              \/ x = [p EXCEPT !.rules[i].compiles = FALSE]
      BY Zenon DEF RuleEdits
    <3> QED BY <3>1, <3>2, Zenon DEF Edits
  <2>7. \/ \E v \in Seq(Record) : x = [p EXCEPT !.entries = v]
        \/ \E v \in SUBSET Families : x = [p EXCEPT !.omit = v]
        \/ \E v \in Meta : x = [p EXCEPT !.rooted = TRUE, !.root = v]
        \/ \E v \in {"good", "bad", "short", "magic"} : x = [p EXCEPT !.seal = v]
        \/ \E v \in Nat : \/ x = [p EXCEPT !.version = v] \/ x = [p EXCEPT !.needed = v]
                          \/ x = [p EXCEPT !.extra = v] \/ x = [p EXCEPT !.ruleCount = v]
                          \/ x = [p EXCEPT !.entryCount = v]
        \/ x = [p EXCEPT !.unknown = TRUE] \/ x = [p EXCEPT !.cut = TRUE]
        \/ \E v \in Seq(Rule) : x = [p EXCEPT !.rules = v]
    <3>1. 1 \in Nat /\ 3 \in Nat BY Zenon
    <3> QED BY <2>2, <2>3, <2>4, <2>5, <2>6, <3>1, <2>EditedRoot, Zenon
  <2>8. x \in Written
    <3>1. CASE \/ \E v \in Seq(Record) : x = [p EXCEPT !.entries = v]
               \/ \E v \in SUBSET Families : x = [p EXCEPT !.omit = v]
               \/ \E v \in {"good", "bad", "short", "magic"} : x = [p EXCEPT !.seal = v]
               \/ \E v \in Seq(Rule) : x = [p EXCEPT !.rules = v]
      BY <2>1, <3>1, <2>FieldEdits, Zenon
    <3>2. CASE \E v \in Nat : \/ x = [p EXCEPT !.version = v] \/ x = [p EXCEPT !.needed = v]
                             \/ x = [p EXCEPT !.extra = v] \/ x = [p EXCEPT !.ruleCount = v]
                             \/ x = [p EXCEPT !.entryCount = v]
      BY <2>1, <3>2, <2>FieldEdits, Zenon
    <3>3. CASE \/ \E v \in Meta : x = [p EXCEPT !.rooted = TRUE, !.root = v]
               \/ x = [p EXCEPT !.unknown = TRUE] \/ x = [p EXCEPT !.cut = TRUE]
      BY <2>1, <3>3, <2>FlagEdits, Zenon
    <3> QED BY <2>7, <3>1, <3>2, <3>3, Zenon
  <2>9. ASSUME NEW v \in Meta, x = [p EXCEPT !.rooted = TRUE, !.root = v] PROVE x.rooted
    BY <2>1, <2>9, Zenon DEF Written
  <2>10. ASSUME \/ \E v : x = [p EXCEPT !.entries = v]
                \/ \E v : x = [p EXCEPT !.omit = v]
                \/ \E v : x = [p EXCEPT !.seal = v]
                \/ \E v : \/ x = [p EXCEPT !.version = v] \/ x = [p EXCEPT !.needed = v]
                         \/ x = [p EXCEPT !.extra = v] \/ x = [p EXCEPT !.ruleCount = v]
                         \/ x = [p EXCEPT !.entryCount = v]
                \/ x = [p EXCEPT !.unknown = TRUE] \/ x = [p EXCEPT !.cut = TRUE]
                \/ \E v : x = [p EXCEPT !.rules = v]
         PROVE  x.rooted = p.rooted /\ x.root = p.root
    BY <2>1, <2>10, Zenon DEF Written
  <2> QED BY <2>7, <2>8, <2>9, <2>10, Zenon DEF Sealed
<1> SUFFICES ASSUME TypeInv, Inv, Reseal PROVE TypeInv' /\ Inv'
  BY Zenon
<1>1. /\ patch # {} /\ pc["zig"] = "decode"
      /\ UNCHANGED <<source, target, omit, given, maxOutput, pc, out, used, peak, error>>
      /\ \E p \in Edits(The(patch)) : patch' = {p}
  BY Zenon DEF Reseal
<1>2. "zig" \in Impls /\ "rust" \in Impls /\ \A i \in Impls : i = "zig" \/ i = "rust" BY Zenon DEF Impls
<1>3. pc["rust"] = "decode" BY <1>1, InvParts, Zenon DEF PortInv
<1>4. \A i \in Impls : pc[i] = "decode" BY <1>1, <1>2, <1>3, Zenon
<1>5. \A i \in Impls : Local(i) BY InvParts, Zenon
<1>6. \A i \in Impls : out[i] = <<>> BY <1>4, <1>5, Zenon DEF Local, Progress
<1>7. PICK p \in Edits(The(patch)) : patch' = {p} BY <1>1, Zenon
<1>8. Sealed(p)
  <2>1. Sealed(The(patch)) BY <1>1, SealedPatch, Zenon DEF TypeInv, RequestInv
  <2> QED BY <2>1, <1>EditsType, Zenon
<1>9. The(patch') = p BY <1>7, TheOne, Zenon
<1>10. PatchInv' BY <1>7, <1>8, <1>9, Zenon DEF PatchInv
<1>11. TypeInv' BY <1>1, <1>10, Zenon DEF TypeInv, RequestInv
<1>12. ASSUME NEW i \in Impls PROVE Local(i)'
  <2>1. Progress(i)' BY <1>1, <1>4, <1>6, ZenonT(30) DEF Progress
  <2>2. Amount(i)' BY <1>1, <1>5, <1>6, Zenon DEF Local, Amount
  <2>3. Ended(i)' BY <1>1, <1>4, Zenon DEF Ended
  <2> QED BY <2>1, <2>2, <2>3, Zenon DEF Local
<1>13. PortInv'
  <2>1. Traces(The(patch'), given', maxOutput', out'["zig"])
    <3>1. out'["zig"] = <<>> BY <1>1, <1>2, <1>6, Zenon
    <3> QED BY <3>1 DEF Traces
  <2>2. IsPrefix(out'["rust"], out'["zig"]) BY <1>1, <1>2, <1>6 DEF IsPrefix
  <2> QED BY <1>1, <1>3, <2>1, <2>2, Zenon DEF PortInv
<1> QED BY <1>11, <1>12, <1>13, Zenon DEF Inv, Local

\* A prefix of a sequence, and the sequence itself.
LEMMA PrefixIs ==
  ASSUME NEW b \in Seq(Built), NEW c \in Seq(Built), IsPrefix(b, c)
  PROVE  /\ SubSeq(c, 1, Len(b)) = b
         /\ Len(b) = Len(c) => b = c
<1>1. PICK m \in Nat : m = Len(b) /\ DOMAIN b = 1..m OBVIOUS
<1>2. PICK n \in Nat : n = Len(c) /\ DOMAIN c = 1..n OBVIOUS
<1>3. m <= n /\ \A k \in 1..m : b[k] = c[k] BY <1>1, <1>2, Zenon DEF IsPrefix
<1>4. b = [k \in 1..m |-> b[k]] BY <1>1
<1>5. SubSeq(c, 1, m) = [k \in 1..m |-> c[k]] BY <1>2, <1>3
<1>6. c = [k \in 1..n |-> c[k]] BY <1>2
<1>7. SubSeq(c, 1, m) = b BY <1>3, <1>4, <1>5, Zenon
<1>8. m = n => b = c BY <1>3, <1>4, <1>6, Zenon
<1> QED BY <1>1, <1>2, <1>7, <1>8, Zenon

\* The port has built b, applyPatchRoot that and more: c.
Behind(p, g, m, b, c) ==
    b \in Seq(Built) /\ c \in Seq(Built) /\ IsPrefix(b, c) /\ Traces(p, g, m, c) /\ Len(b) < Len(c)

Follows(p, g, m, b, c) ==
    /\ StepAt(p, g, m, b).error = "none"
    /\ c[Len(b) + 1] = BuiltFrom(p.entries[Len(b) + 1], StepAt(p, g, m, b).data)

\* Where applyPatchRoot has stopped after what the port has built, the port builds
\* what it built.
LEMMA PortFollows ==
  ASSUME NEW p, NEW g, NEW m, NEW b, NEW c, Behind(p, g, m, b, c)
  PROVE  Follows(p, g, m, b, c)
<1>0. b \in Seq(Built) /\ c \in Seq(Built) /\ IsPrefix(b, c) /\ Traces(p, g, m, c) /\ Len(b) < Len(c)
  BY Zenon DEF Behind
<1>1. SubSeq(c, 1, Len(b)) = b BY <1>0, PrefixIs, Zenon
<1>2. Len(b) + 1 \in 1..Len(c) /\ (Len(b) + 1) - 1 = Len(b)
  <2>1. Len(b) \in Nat /\ Len(c) \in Nat BY <1>0
  <2> QED BY <1>0, <2>1
<1>3. SubSeq(c, 1, (Len(b) + 1) - 1) = b BY <1>1, <1>2, Zenon
<1> DEFINE k == Len(b) + 1
           s == StepAt(p, g, m, SubSeq(c, 1, k - 1))
<1>4. s.error = "none" /\ c[k] = BuiltFrom(p.entries[k], s.data) BY <1>0, <1>2, Zenon DEF Traces
<1> QED BY <1>3, <1>4, Zenon DEF Follows

LEMMA ExpandInv ==
  \A i \in Impls : TypeInv /\ Inv /\ Expand(i) => TypeInv' /\ Inv'
<1>OutputSizeAppend.
    ASSUME NEW b \in Seq(Built), NEW x \in Built
    PROVE  OutputSize(Append(b, x)) = OutputSize(b) + Len(x.data)
  <2> USE <1>OutputSizeAppend
  <2> DEFINE c == Append(b, x)
  <2>1. PICK n \in Nat : n = Len(b) OBVIOUS
  <2>2. c \in Seq(Built) /\ Len(c) = n + 1 /\ c[n + 1] = x /\ \A i \in 1..n : c[i] = b[i] BY <2>1
  <2> HIDE DEF c
  <2>3. /\ Sizes(b) \in Seq(Nat) /\ Len(Sizes(b)) = n /\ \A i \in 1..n : Sizes(b)[i] = Len(b[i].data)
    BY <2>1, SizesType, Zenon
  <2>4. /\ Sizes(c) \in Seq(Nat) /\ Len(Sizes(c)) = n + 1 /\ \A i \in 1..(n + 1) : Sizes(c)[i] = Len(c[i].data)
    BY <2>2, SizesType, Zenon
  <2>5. \A i \in 1..n : Sizes(b)[i] = Sizes(c)[i]
    <3>1. \A i \in 1..n : i \in 1..(n + 1) OBVIOUS
    <3> QED BY <2>2, <2>3, <2>4, <3>1, Zenon
  <2>6. Sizes(b) \in Seq(Int) /\ Sizes(c) \in Seq(Int) BY <2>3, <2>4
  <2>7. \A i \in 0..n : Sums(Sizes(b))[i] = Sums(Sizes(c))[i] BY <2>3, <2>4, <2>5, <2>6, SumsAgree
  <2>8. n + 1 \in 1..(n + 1) /\ (n + 1) - 1 = n /\ n \in 0..n OBVIOUS
  <2>9. Sums(Sizes(c))[n + 1] = Sums(Sizes(c))[n] + Sizes(c)[n + 1] BY <2>4, <2>6, <2>8, SumsDef, Zenon
  <2>10. OutputSize(c) = Sums(Sizes(c))[n + 1] /\ OutputSize(b) = Sums(Sizes(b))[n] BY <2>1, <2>2, OutputSizeIs, Zenon
  <2> QED BY <2>2, <2>4, <2>7, <2>8, <2>9, <2>10, Zenon DEF c
<1>BuiltFromType.
    ASSUME NEW e \in Record, NEW data \in Seq(Nat)
    PROVE  BuiltFrom(e, data) \in Built /\ BuiltFrom(e, data).data = data
  <2> USE <1>BuiltFromType
  <2>1. KindOf(e.op) \in Kinds BY Zenon DEF KindOf, Kinds
  <2>2. e.mode \in Nat /\ e.path \in Paths \cup {0} /\ e.meta \in Meta BY Zenon DEF Record
  <2> QED BY <2>1, <2>2, Zenon DEF BuiltFrom, Built
<1>AppendIs. ASSUME NEW b \in Seq(Built), NEW x \in Built
             PROVE  /\ Append(b, x) \in Seq(Built) /\ Len(Append(b, x)) = Len(b) + 1 /\ Append(b, x)[Len(b) + 1] = x
                    /\ \A k \in 1..Len(b) : Append(b, x)[k] = b[k]
                    /\ \A k \in 1..(Len(b) + 1) : SubSeq(Append(b, x), 1, k - 1) = SubSeq(b, 1, k - 1)
  <2> USE <1>AppendIs
  <2>1. PICK n \in Nat : n = Len(b) /\ \A k \in 1..n : b[k] \in Built OBVIOUS
  <2>2. Append(b, x) \in Seq(Built) /\ Len(Append(b, x)) = n + 1 /\ Append(b, x)[n + 1] = x BY <2>1
  <2>3. \A k \in 1..n : Append(b, x)[k] = b[k] BY <2>1
  <2>4. ASSUME NEW k \in 1..(n + 1) PROVE SubSeq(Append(b, x), 1, k - 1) = SubSeq(b, 1, k - 1)
    <3>1. k - 1 \in Nat /\ k - 1 <= n OBVIOUS
    <3>2. SubSeq(b, 1, k - 1) = [j \in 1..(k - 1) |-> b[j]] BY <2>1, <3>1
    <3>3. SubSeq(Append(b, x), 1, k - 1) = [j \in 1..(k - 1) |-> Append(b, x)[j]] BY <2>2, <3>1
    <3>4. \A j \in 1..(k - 1) : Append(b, x)[j] = b[j]
      <4>1. \A j \in 1..(k - 1) : j \in 1..n BY <3>1
      <4> QED BY <2>3, <4>1, Zenon
    <3> QED BY <3>2, <3>3, <3>4, Zenon
  <2> QED BY <2>1, <2>2, <2>3, <2>4, Zenon
<1>SelfPrefix. ASSUME NEW b \in Seq(Built) PROVE SubSeq(b, 1, Len(b)) = b
  <2> USE <1>SelfPrefix
  <2>1. IsPrefix(b, b)
    <3>1. Len(b) \in Nat OBVIOUS
    <3> QED BY <3>1 DEF IsPrefix
  <2> QED BY <2>1, PrefixIs, Zenon
<1>TracesAppend.
    ASSUME NEW p, NEW g, NEW m, NEW b \in Seq(Built), Traces(p, g, m, b), NEW x \in Built,
           StepAt(p, g, m, b).error = "none", x = BuiltFrom(p.entries[Len(b) + 1], StepAt(p, g, m, b).data)
    PROVE  Traces(p, g, m, Append(b, x))
  <2> USE <1>TracesAppend
  <2> DEFINE c == Append(b, x)
             Good(q, k) == StepAt(p, g, m, q).error = "none" /\ c[k] = BuiltFrom(p.entries[k], StepAt(p, g, m, q).data)
  <2>1. PICK n \in Nat : n = Len(b) BY SMTT(30)
  <2>2. /\ Len(c) = n + 1 /\ c[n + 1] = x /\ \A k \in 1..n : c[k] = b[k]
        /\ \A k \in 1..(n + 1) : SubSeq(c, 1, k - 1) = SubSeq(b, 1, k - 1)
    BY <2>1, <1>AppendIs, Zenon
  <2>3. ASSUME NEW k \in 1..(n + 1) PROVE Good(SubSeq(c, 1, k - 1), k)
    <3>1. SubSeq(c, 1, k - 1) = SubSeq(b, 1, k - 1) BY <2>2, Zenon
    <3>2. CASE k \in 1..n
      <4>1. c[k] = b[k] BY <2>2, <3>2, Zenon
      <4>2. Good(SubSeq(b, 1, k - 1), k) BY <2>1, <3>2, <4>1, Zenon DEF Traces
      <4> QED BY <3>1, <4>2, Zenon
    <3>3. CASE k = n + 1
      <4>1. SubSeq(b, 1, k - 1) = b
        <5>1. k - 1 = n BY <3>3
        <5> QED BY <2>1, <5>1, <1>SelfPrefix, Zenon
      <4>2. Good(b, k) BY <2>1, <2>2, <3>3, Zenon
      <4> QED BY <3>1, <4>1, <4>2, Zenon
    <3>4. k \in 1..n \/ k = n + 1 OBVIOUS
    <3> QED BY <3>2, <3>3, <3>4, Zenon
  <2>4. \A k \in 1..Len(c) : Good(SubSeq(c, 1, k - 1), k) BY <2>2, <2>3, Zenon
  <2> QED BY <2>4, Zenon DEF Traces
\* What the port builds next, applyPatchRoot has built.
<1>PortBuilds.
    ASSUME NEW p, NEW g, NEW m, NEW b \in Seq(Built), NEW c \in Seq(Built), IsPrefix(b, c), Traces(p, g, m, c),
           NEW e, Stopped(p, g, m, c, e), Opens(p, g), Len(b) < Len(p.entries), p.entries \in Seq(Record),
           StepAt(p, g, m, b).error = "none"
    PROVE  Len(b) < Len(c)
  <2> USE <1>PortBuilds
  <2>1. Len(b) \in Nat /\ Len(c) \in Nat /\ Len(b) <= Len(c) BY DEF IsPrefix
  <2>2. ~Refused(p, g, c, e) BY Zenon DEF Refused, Opens
  <2>3. CASE Len(b) = Len(c)
    <3>1. b = c BY <2>3, PrefixIs, Zenon
    <3>2. StepAt(p, g, m, c).error = "none" BY <3>1, Zenon
    <3>3. Len(c) # Len(p.entries)
      <4>1. Len(p.entries) \in Nat OBVIOUS
      <4> QED BY <2>1, <2>3, <4>1
    <3> QED BY <2>2, <3>2, <3>3, Zenon DEF Stopped
  <2> QED BY <2>1, <2>3, SMTT(30)
<1>ExpandType. ASSUME TypeInv, Inv, NEW i \in Impls, Expand(i)
               PROVE  TypeInv'
  <2> USE <1>ExpandType
  <2> DEFINE z == StepAt(The(patch), given, maxOutput, out[i])
             e == The(patch).entries[Len(out[i]) + 1]
  <2>1. Amount(i) BY InvParts, Zenon DEF Local
  <2>2. /\ e \in Record
        /\ \E n \in Nat : peak' = [peak EXCEPT ![i] = n]
        /\ Builds(i, z) \/ \E f : Stops(i, z, f)
        /\ UNCHANGED request
    BY <2>1, ExpandStep, Zenon
  <2> HIDE DEF z, e
  <2>3. RequestInv' BY <2>2, RequestKept, Zenon DEF TypeInv
  <2>4. peak' \in [Impls -> Nat] BY <2>2, Zenon DEF TypeInv
  <2>5. CASE Builds(i, z)
    <3>1. BuiltFrom(e, z.data) \in Built BY <2>2, <2>5, <1>BuiltFromType, Zenon DEF Builds
    <3>2. out[i] \in Seq(Built) BY Zenon DEF TypeInv
    <3>3. Append(out[i], BuiltFrom(e, z.data)) \in Seq(Built) BY <3>1, <3>2, <1>AppendIs, Zenon
    <3>4. out' = [out EXCEPT ![i] = Append(out[i], BuiltFrom(e, z.data))] BY <2>5, Zenon DEF Builds, e
    <3>5. out' \in [Impls -> Seq(Built)] BY <3>3, <3>4, Zenon DEF TypeInv
    <3>6. used' \in [Impls -> Nat]
      <4>1. Len(z.data) \in Nat BY <2>5 DEF Builds
      <4> QED BY <2>5, <4>1 DEF Builds, TypeInv
    <3>7. pc' = pc /\ error' = error BY <2>5, Zenon DEF Builds
    <3> QED BY <2>3, <2>4, <3>5, <3>6, <3>7, Zenon DEF TypeInv
  <2>6. ASSUME NEW f, Stops(i, z, f) PROVE TypeInv'
    <3>1. /\ pc' \in [Impls -> {"decode", "body", "verify", "expand", "done"}] /\ DOMAIN error' = Impls
      BY <2>6, Zenon DEF Stops, TypeInv
    <3>2. out' = out /\ used' = used BY <2>6, Zenon DEF Stops
    <3> QED BY <2>3, <2>4, <3>1, <3>2, Zenon DEF TypeInv
  <2> QED BY <2>2, <2>5, <2>6, Zenon
<1>StopsInv. ASSUME TypeInv, Inv, NEW i \in Impls, Expand(i), NEW f,
                    Stops(i, StepAt(The(patch), given, maxOutput, out[i]), f)
             PROVE  Inv'
  <2> USE <1>StopsInv
  <2> DEFINE p == The(patch)
             z == StepAt(p, given, maxOutput, out[i])
  <2>0. Local(i) /\ PortInv /\ \A j \in Impls : Local(j) BY InvParts, Zenon
  <2>1. /\ patch # {} /\ pc[i] = "expand" /\ (i = "rust" => pc["zig"] = "done")
        /\ Len(out[i]) < Len(p.entries) /\ UNCHANGED request
    BY <2>0, ExpandStep, Zenon DEF Local
  <2> HIDE DEF z
  <2>2. /\ z.error # "none" /\ (f = z.error \/ (i = "rust" /\ f = "LimitExceeded" /\ z.error = "File"))
        /\ pc' = [pc EXCEPT ![i] = "done"] /\ error' = [error EXCEPT ![i] = f]
        /\ out' = out /\ used' = used
    BY Zenon DEF Stops, z
  <2>3. patch' = patch /\ given' = given /\ maxOutput' = maxOutput BY <2>1, Zenon DEF request
  <2>4. pc'[i] = "done" /\ error'[i] = f BY <2>2, Zenon DEF TypeInv
  <2>5. \A j \in Impls : j # i => pc'[j] = pc[j] /\ error'[j] = error[j] BY <2>2, Zenon DEF TypeInv
  <2>6. \A j \in Impls : j # i => Local(j)' BY <2>0, <2>1, <2>2, <2>5, Framed, Zenon
  <2>7. Opens(p, given) BY <2>0, <2>1, Zenon DEF Local, Progress
  <2>8. Progress(i)' BY <2>4, Zenon DEF Progress
  <2>9. Amount(i)' BY <2>0, <2>2, <2>3, Zenon DEF Local, Amount
  <2>10. Ended(i)'
    <3>1. CASE f = z.error
      <4>1. Stopped(p, given, maxOutput, out[i], f) BY <2>1, <2>2, <2>7, <3>1, Zenon DEF Stopped, z
      <4> QED BY <2>1, <2>2, <2>3, <2>4, <4>1, Zenon DEF Ended
    <3>2. CASE i = "rust" /\ f = "LimitExceeded" /\ z.error = "File"
      BY <2>1, <2>2, <2>3, <2>4, <2>7, <3>2, Zenon DEF Ended, z
    <3> QED BY <2>2, <3>1, <3>2, Zenon
  <2>11. Local(i)' BY <2>8, <2>9, <2>10, Zenon DEF Local
  <2>12. PortInv'
    <3>1. "zig" \in Impls /\ "rust" \in Impls /\ "zig" # "rust" BY Zenon DEF Impls
    <3>2. pc'["zig"] = "done"
      <4>1. CASE i = "zig" BY <2>4, <4>1, Zenon
      <4>2. CASE i = "rust" BY <2>1, <2>5, <3>1, <4>2, Zenon
      <4> QED BY <4>1, <4>2, Zenon DEF Impls
    <3> QED BY <2>0, <2>2, <2>3, <3>2, Zenon DEF PortInv
  <2>13. \A j \in Impls : Local(j)' BY <2>6, <2>11, Zenon
  <2> QED BY <2>12, <2>13, Zenon DEF Inv, Local
<1>PrefixGrows. ASSUME NEW b \in Seq(Built), NEW c \in Seq(Built), NEW x \in Built, IsPrefix(b, c)
                PROVE  /\ IsPrefix(b, Append(c, x))
                       /\ Len(b) < Len(c) /\ c[Len(b) + 1] = x => IsPrefix(Append(b, x), c)
  <2> USE <1>PrefixGrows
  <2>1. PICK m \in Nat : m = Len(b) OBVIOUS
  <2>2. PICK n \in Nat : n = Len(c) OBVIOUS
  <2>3. m <= n /\ \A k \in 1..m : b[k] = c[k] BY <2>1, <2>2, Zenon DEF IsPrefix
  <2>4. Len(Append(b, x)) = m + 1 /\ Append(b, x)[m + 1] = x /\ \A k \in 1..m : Append(b, x)[k] = b[k]
    BY <2>1, <1>AppendIs, Zenon
  <2>5. Len(Append(c, x)) = n + 1 /\ \A k \in 1..n : Append(c, x)[k] = c[k] BY <2>2, <1>AppendIs, Zenon
  <2>6. \A k \in 1..m : k \in 1..n BY <2>3
  <2>7. \A k \in 1..m : b[k] = Append(c, x)[k] BY <2>3, <2>5, <2>6, Zenon
  <2>8. IsPrefix(b, Append(c, x))
    <3>1. m <= n + 1 BY <2>3
    <3> QED BY <2>1, <2>5, <2>7, <3>1, Zenon DEF IsPrefix
  <2>9. ASSUME m < n, c[m + 1] = x PROVE IsPrefix(Append(b, x), c)
    <3>1. \A k \in 1..(m + 1) : k \in 1..m \/ k = m + 1 OBVIOUS
    <3>2. \A k \in 1..(m + 1) : Append(b, x)[k] = c[k] BY <2>3, <2>4, <2>9, <3>1, Zenon
    <3>3. m + 1 <= n BY <2>9
    <3> QED BY <2>2, <2>4, <3>2, <3>3, Zenon DEF IsPrefix
  <2> QED BY <2>1, <2>2, <2>8, <2>9, Zenon
<1>CopiesGrow. ASSUME NEW b \in Seq(Built), NEW entries \in Seq(Record), NEW d \in Seq(Nat), Copies(b, entries),
                      Len(b) < Len(entries)
               PROVE  Copies(Append(b, BuiltFrom(entries[Len(b) + 1], d)), entries)
  <2> USE <1>CopiesGrow
  <2> DEFINE x == BuiltFrom(entries[Len(b) + 1], d)
             c == Append(b, x)
  <2>1. PICK m \in Nat : m = Len(b) OBVIOUS
  <2>2. PICK n \in Nat : n = Len(entries) OBVIOUS
  <2>3. m < n /\ \A k \in 1..m : b[k] = BuiltFrom(entries[k], b[k].data) BY <2>1, <2>2, Zenon DEF Copies
  <2>4. entries[m + 1] \in Record
    <3>1. m + 1 \in 1..n BY <2>3
    <3> QED BY <2>2, <3>1
  <2>5. x \in Built /\ x.data = d /\ x = BuiltFrom(entries[m + 1], d) BY <2>1, <2>4, <1>BuiltFromType, Zenon
  <2> HIDE DEF x
  <2>6. Len(c) = m + 1 /\ c[m + 1] = x /\ \A k \in 1..m : c[k] = b[k] BY <2>1, <2>5, <1>AppendIs, Zenon
  <2> HIDE DEF c
  <2>7. \A k \in 1..(m + 1) : k \in 1..m \/ k = m + 1 OBVIOUS
  <2>8. \A k \in 1..(m + 1) : c[k] = BuiltFrom(entries[k], c[k].data) BY <2>3, <2>5, <2>6, <2>7, Zenon
  <2>9. m + 1 <= n BY <2>3
  <2>10. Copies(c, entries) BY <2>2, <2>6, <2>8, <2>9, Zenon DEF Copies
  <2> QED BY <2>10, Zenon DEF c, x
<1>BuildsInv. ASSUME TypeInv, Inv, NEW i \in Impls, Expand(i), TypeInv',
                     Builds(i, StepAt(The(patch), given, maxOutput, out[i]))
              PROVE  Inv'
  <2> USE <1>BuildsInv
  <2> DEFINE p == The(patch)
             b == out[i]
             z == StepAt(p, given, maxOutput, b)
             e == p.entries[Len(b) + 1]
             x == BuiltFrom(e, z.data)
  <2>0. Local(i) /\ PortInv /\ \A j \in Impls : Local(j) BY InvParts, Zenon
  <2>1. /\ patch # {} /\ pc[i] = "expand" /\ (i = "rust" => pc["zig"] = "done")
        /\ Len(b) < Len(p.entries) /\ e \in Record /\ UNCHANGED request
    BY <2>0, ExpandStep, Zenon DEF Local
  <2>2. /\ z.error = "none" /\ z.data \in Seq(Nat) /\ Len(z.data) <= maxOutput - OutputSize(b)
        /\ out' = [out EXCEPT ![i] = Append(b, x)]
        /\ used' = [used EXCEPT ![i] = used[i] + Len(z.data)]
        /\ pc' = pc /\ error' = error
    BY Zenon DEF Builds
  <2> HIDE DEF z
  <2>3. patch' = patch /\ given' = given /\ maxOutput' = maxOutput BY <2>1, Zenon DEF request
  <2>4. x \in Built /\ x.data = z.data BY <2>1, <2>2, <1>BuiltFromType, ZenonT(30)
  <2>5. b \in Seq(Built) /\ p.entries \in Seq(Record) /\ maxOutput \in Nat /\ used[i] \in Nat
    BY <2>1, SealedPatch, Zenon DEF TypeInv, RequestInv
  <2> HIDE DEF x
  <2>6. out'[i] = Append(b, x) /\ used'[i] = used[i] + Len(z.data) BY <2>2, Zenon DEF TypeInv
  <2>7. \A j \in Impls : j # i => out'[j] = out[j] /\ used'[j] = used[j] BY <2>2, Zenon DEF TypeInv
  <2>8. \A j \in Impls : j # i => Local(j)' BY <2>0, <2>1, <2>2, <2>7, Framed, Zenon
  <2>9. Progress(i)' BY <2>0, <2>1, <2>2, <2>3, Zenon DEF Local, Progress
  <2>10. Amount(i)'
    <3>1. used[i] = OutputSize(b) /\ used[i] <= maxOutput BY <2>0, Zenon DEF Local, Amount
    <3>2. OutputSize(Append(b, x)) = OutputSize(b) + Len(z.data) BY <2>4, <2>5, <1>OutputSizeAppend, Zenon
    <3>3. Len(z.data) \in Nat BY <2>2, SMTT(30)
    <3>4. used'[i] = OutputSize(out'[i]) BY <2>6, <3>1, <3>2, Zenon
    <3>5. used'[i] <= maxOutput' BY <2>2, <2>3, <2>5, <2>6, <3>1, <3>3, SMTT(30)
    <3>6. Copies(b, p.entries)
      <4>1. CASE b = <<>> BY <2>5, <4>1 DEF Copies
      <4>2. CASE b # <<>> BY <2>0, <4>2, ZenonT(30) DEF Local, Amount
      <4> QED BY <4>1, <4>2, Zenon
    <3>7. Copies(Append(b, x), p.entries) BY <2>1, <2>2, <2>5, <3>6, <1>CopiesGrow, Zenon DEF x
    <3> QED BY <2>1, <2>3, <2>6, <3>4, <3>5, <3>7, Zenon DEF Amount
  <2>11. Ended(i)' BY <2>1, <2>2, Zenon DEF Ended
  <2>12. Local(i)' BY <2>9, <2>10, <2>11, Zenon DEF Local
  <2>13. "zig" \in Impls /\ "rust" \in Impls /\ "zig" # "rust" BY Zenon DEF Impls
  <2>14. out["zig"] \in Seq(Built) /\ out["rust"] \in Seq(Built) BY <2>13, Zenon DEF TypeInv
  <2>15. /\ Traces(p, given, maxOutput, out["zig"]) /\ IsPrefix(out["rust"], out["zig"])
         /\ (pc["rust"] # "decode" => pc["zig"] = "done")
    BY <2>0, <2>1, Zenon DEF PortInv
  <2>16. ASSUME i = "zig" PROVE PortInv'
    <3>1. Traces(p, given, maxOutput, Append(b, x))
      BY <2>2, <2>4, <2>5, <2>15, <2>16, <1>TracesAppend, Zenon DEF x, z
    <3>2. IsPrefix(out["rust"], Append(b, x)) BY <2>4, <2>14, <2>15, <2>16, <1>PrefixGrows, Zenon
    <3>3. out'["zig"] = Append(b, x) /\ out'["rust"] = out["rust"] BY <2>6, <2>7, <2>13, <2>16, Zenon
    <3> QED BY <2>2, <2>3, <2>15, <3>1, <3>2, <3>3, Zenon DEF PortInv
  <2>17. ASSUME i = "rust" PROVE PortInv'
    <3>1. Opens(p, given) BY <2>0, <2>1, Zenon DEF Local, Progress
    <3>2. \E f : Stopped(p, given, maxOutput, out["zig"], f)
      BY <2>0, <2>1, <2>13, <2>17, Zenon DEF Local, Ended
    <3>3. b = out["rust"] BY <2>17, Zenon
    <3>4. Len(b) < Len(out["zig"])
      BY <2>1, <2>2, <2>5, <2>14, <2>15, <3>1, <3>2, <3>3, <1>PortBuilds, Zenon DEF z
    <3>5. out["zig"][Len(b) + 1] = x
      <4>1. IsPrefix(b, out["zig"]) BY <2>15, <3>3, Zenon
      <4>2. Behind(p, given, maxOutput, b, out["zig"]) BY <2>5, <2>14, <2>15, <3>4, <4>1, Zenon DEF Behind
      <4>3. Follows(p, given, maxOutput, b, out["zig"]) BY <4>2, PortFollows, Zenon
      <4> QED BY <4>3, Zenon DEF Follows, x, z
    <3>6. IsPrefix(Append(b, x), out["zig"]) BY <2>4, <2>5, <2>14, <2>15, <3>3, <3>4, <3>5, <1>PrefixGrows, Zenon
    <3>7. out'["rust"] = Append(b, x) /\ out'["zig"] = out["zig"] BY <2>6, <2>7, <2>13, <2>17, Zenon
    <3> QED BY <2>2, <2>3, <2>15, <3>6, <3>7, Zenon DEF PortInv
  <2>18. PortInv' BY <2>16, <2>17, Zenon DEF Impls
  <2>19. \A j \in Impls : Local(j)' BY <2>8, <2>12, Zenon
  <2> QED BY <2>18, <2>19, Zenon DEF Inv, Local
<1> SUFFICES ASSUME TypeInv, Inv, NEW i \in Impls, Expand(i) PROVE TypeInv' /\ Inv'
  BY Zenon
<1> DEFINE z == StepAt(The(patch), given, maxOutput, out[i])
<1>1. Amount(i) BY InvParts, Zenon DEF Local
<1>2. Builds(i, z) \/ \E f : Stops(i, z, f) BY <1>1, ExpandStep, Zenon
<1>3. TypeInv' BY <1>ExpandType, Zenon
<1>4. CASE Builds(i, z) BY <1>3, <1>4, <1>BuildsInv, Zenon
<1>5. ASSUME NEW f, Stops(i, z, f) PROVE Inv' BY <1>5, <1>StopsInv, Zenon
<1> QED BY <1>2, <1>3, <1>4, <1>5, Zenon

LEMMA Stutters == ASSUME TypeInv, Inv, UNCHANGED vars PROVE TypeInv' /\ Inv'
<1>1. /\ UNCHANGED request /\ UNCHANGED <<source, target, omit, patch, given, maxOutput, pc, out, used, peak, error>>
  BY Zenon DEF vars, request
<1>2. RequestInv' BY <1>1, RequestKept, Zenon DEF TypeInv
<1>3. TypeInv' BY <1>1, <1>2, Zenon DEF TypeInv
<1>4. \A j \in Impls : Local(j)' BY <1>1, InvParts, Framed, Zenon
<1>5. PortInv' BY <1>1, InvParts, Zenon DEF PortInv
<1> QED BY <1>3, <1>4, <1>5, Zenon DEF Inv, Local

\* Inductive: every handler keeps the types, how far each implementation has come
\* and what the port has to do with applyPatchRoot.
THEOREM Inductive == Spec => [](TypeInv /\ Inv)
<1>1. Init => TypeInv /\ Inv BY InitType, InitInv, Zenon
<1>2. TypeInv /\ Inv /\ [Next]_vars => (TypeInv /\ Inv)'
  <2> SUFFICES ASSUME TypeInv, Inv, [Next]_vars PROVE TypeInv' /\ Inv'
    BY Zenon
  <2>1. CASE Create BY <2>1, CreateInv, Zenon
  <2>2. CASE Reseal BY <2>2, ResealInv, Zenon
  <2>3. ASSUME NEW i \in Impls, DecodePrefix(i) PROVE TypeInv' /\ Inv' BY <2>3, DecodePrefixInv, Zenon
  <2>4. ASSUME NEW i \in Impls, DecodeBody(i) PROVE TypeInv' /\ Inv' BY <2>4, DecodeBodyInv, Zenon
  <2>5. ASSUME NEW i \in Impls, Verify(i) PROVE TypeInv' /\ Inv' BY <2>5, VerifyInv, Zenon
  <2>6. ASSUME NEW i \in Impls, Expand(i) PROVE TypeInv' /\ Inv' BY <2>6, ExpandInv, Zenon
  <2>7. ASSUME NEW i \in Impls, Finish(i) PROVE TypeInv' /\ Inv' BY <2>7, FinishInv, Zenon
  <2>8. CASE UNCHANGED vars BY <2>8, Stutters, Zenon
  <2> QED BY <2>1, <2>2, <2>3, <2>4, <2>5, <2>6, <2>7, <2>8, Zenon DEF Next, Terminated
<1> QED BY <1>1, <1>2, PTL DEF Spec

-----------------------------------------------------------------------------
(* The port.                                                               *)

LEMMA InvAgrees ==
  TypeInv /\ Inv => PortAgrees
<1>RefusedOnce. ASSUME NEW p, NEW g, NEW b, NEW c, NEW e, NEW f, Refused(p, g, b, e), Refused(p, g, c, f)
                PROVE  e = f /\ b = c
  BY <1>RefusedOnce, Zenon DEF Refused
<1> SUFFICES ASSUME TypeInv, Inv PROVE PortAgrees
  BY Zenon
<1> SUFFICES ASSUME pc["rust"] = "done"
             PROVE  \/ error["zig"] = error["rust"] /\ out["zig"] = out["rust"]
                    \/ error["rust"] = "LimitExceeded" /\ error["zig"] = "File"
  BY Zenon DEF PortAgrees
<1> DEFINE p == The(patch)
           b == out["rust"]
           c == out["zig"]
<1>1. "zig" \in Impls /\ "rust" \in Impls /\ "zig" # "rust" BY Zenon DEF Impls
<1>2. Local("zig") /\ Local("rust") /\ PortInv BY <1>1, InvParts, Zenon
<1>3. pc["zig"] = "done" BY <1>2, Zenon DEF PortInv
<1>4. CASE patch = {} BY <1>2, <1>3, <1>4, Zenon DEF Local, Ended
<1>5. CASE patch # {}
  <2>1. b \in Seq(Built) /\ c \in Seq(Built) BY <1>1, Zenon DEF TypeInv
  <2>2. Traces(p, given, maxOutput, c) /\ IsPrefix(b, c) BY <1>2, <1>5, Zenon DEF PortInv
  <2>3. Stopped(p, given, maxOutput, c, error["zig"]) BY <1>1, <1>2, <1>3, <1>5, Zenon DEF Local, Ended
  <2>4. p.entries \in Seq(Record) BY <1>5, SealedPatch, Zenon DEF TypeInv, RequestInv
  <2>5. Len(b) \in Nat /\ Len(c) \in Nat /\ Len(p.entries) \in Nat /\ Len(b) <= Len(c)
    BY <2>1, <2>2, <2>4 DEF IsPrefix
  <2>6. Len(c) <= Len(p.entries)
    <3>1. CASE c = <<>> BY <2>5, <3>1
    <3>2. CASE c # <<>> BY <1>2, <3>2, Zenon DEF Local, Amount, Copies
    <3> QED BY <3>1, <3>2, Zenon
  <2>7. Opens(p, given) => ~Refused(p, given, b, error["rust"]) /\ ~Refused(p, given, c, error["zig"])
    BY Zenon DEF Refused, Opens
  <2>8. ASSUME StepAt(p, given, maxOutput, b).error # "none", Opens(p, given), Len(b) < Len(p.entries)
        PROVE  b = c /\ error["zig"] = StepAt(p, given, maxOutput, b).error
    <3>1. ~(Len(b) < Len(c))
      <4>1. ~Follows(p, given, maxOutput, b, c) BY <2>8, Zenon DEF Follows
      <4>2. ~Behind(p, given, maxOutput, b, c) BY <4>1, PortFollows, Zenon
      <4> QED BY <2>1, <2>2, <4>2, Zenon DEF Behind
    <3>2. b = c BY <2>1, <2>2, <2>5, <3>1, PrefixIs
    <3>3. Len(c) # Len(p.entries) BY <2>5, <2>8, <3>2
    <3> QED BY <2>3, <2>7, <2>8, <3>2, <3>3, Zenon DEF Stopped
  <2>9. CASE Refused(p, given, b, error["rust"])
    <3>1. ~Opens(p, given) BY <2>7, <2>9, Zenon
    <3>2. Refused(p, given, c, error["zig"]) BY <2>3, <3>1, Zenon DEF Stopped
    <3> QED BY <2>9, <3>2, <1>RefusedOnce, Zenon
  <2>10. CASE /\ Opens(p, given) /\ Len(b) < Len(p.entries) /\ StepAt(p, given, maxOutput, b).error # "none"
              /\ error["rust"] = StepAt(p, given, maxOutput, b).error
    BY <2>8, <2>10, Zenon
  <2>11. CASE Opens(p, given) /\ Len(b) = Len(p.entries) /\ error["rust"] = Verdict(p, b)
    <3>1. Len(b) = Len(c) BY <2>5, <2>6, <2>11
    <3>2. b = c BY <2>1, <2>2, <3>1, PrefixIs, Zenon
    <3>3. ~(Len(c) < Len(p.entries)) BY <2>5, <2>11, <3>1
    <3> QED BY <2>3, <2>7, <2>11, <3>2, <3>3, Zenon DEF Stopped
  <2>12. CASE /\ Opens(p, given) /\ Len(b) < Len(p.entries)
              /\ StepAt(p, given, maxOutput, b).error = "File" /\ error["rust"] = "LimitExceeded"
    <3>1. StepAt(p, given, maxOutput, b).error # "none" BY <2>12, Zenon
    <3> QED BY <2>8, <2>12, <3>1, Zenon
  <2> QED BY <1>2, <1>5, <2>9, <2>10, <2>11, <2>12, Zenon DEF Local, Ended, Stopped
<1> QED BY <1>4, <1>5, Zenon

\* apply in Rust gives what applyPatchRoot gives, for every tree and limit.
THEOREM PortsAgree == Spec => []PortAgrees
<1>1. TypeInv /\ Inv => PortAgrees BY InvAgrees, Zenon
<1> QED BY <1>1, Inductive, PTL

LEMMA PeakKept ==
  ASSUME TypeInv, Inv, PortWithinLimit, [Next]_vars
  PROVE  PortWithinLimit'
<1>1. "zig" \in Impls /\ "rust" \in Impls /\ "zig" # "rust" BY Zenon DEF Impls
<1>2. peak \in [Impls -> Nat] BY Zenon DEF TypeInv
<1>3. ASSUME peak' = peak, maxOutput' = maxOutput PROVE PortWithinLimit'
  BY <1>3, Zenon DEF PortWithinLimit
<1>4. CASE Create BY <1>3, <1>4, Zenon DEF Create
<1>5. CASE Reseal BY <1>3, <1>5, Zenon DEF Reseal
<1>6. ASSUME NEW i \in Impls, DecodePrefix(i) \/ DecodeBody(i) \/ Verify(i) \/ Finish(i) PROVE PortWithinLimit'
  <2>1. peak' = peak /\ maxOutput' = maxOutput BY <1>6, Zenon DEF DecodePrefix, DecodeBody, Verify, Finish, request
  <2> QED BY <1>3, <2>1, Zenon
<1>7. ASSUME NEW i \in Impls, Expand(i) PROVE PortWithinLimit'
  <2>1. Amount(i) BY InvParts, Zenon DEF Local
  <2>2. UNCHANGED request /\ \E n \in Nat : /\ peak' = [peak EXCEPT ![i] = n]
                                           /\ (i = "rust" /\ peak[i] <= maxOutput => n <= maxOutput)
    BY <1>7, <2>1, ExpandStep, Zenon
  <2>3. PICK n \in Nat : /\ peak' = [peak EXCEPT ![i] = n]
                         /\ (i = "rust" /\ peak[i] <= maxOutput => n <= maxOutput)
    BY <2>2, Zenon
  <2>4. maxOutput' = maxOutput BY <2>2, Zenon DEF request
  <2>5. CASE i = "rust" BY <1>2, <2>3, <2>4, <2>5, Zenon DEF PortWithinLimit
  <2>6. CASE i = "zig" BY <1>1, <1>2, <2>3, <2>4, <2>6, Zenon DEF PortWithinLimit
  <2> QED BY <2>5, <2>6, Zenon DEF Impls
<1>8. CASE UNCHANGED vars BY <1>3, <1>8, Zenon DEF vars
<1> QED BY <1>4, <1>5, <1>6, <1>7, <1>8, Zenon DEF Next, Terminated

\* The port never holds more than the output limit while it expands.
THEOREM PortStaysWithinLimit == Spec => []PortWithinLimit
<1>1. Init => PortWithinLimit
  <2> SUFFICES ASSUME Init PROVE peak["rust"] <= maxOutput
    BY Zenon DEF PortWithinLimit
  <2>1. peak["rust"] = 0 /\ maxOutput \in Nat BY TreePatchAssumption, Zenon DEF Init, Impls
  <2> QED BY <2>1
<1>2. TypeInv /\ Inv /\ PortWithinLimit /\ [Next]_vars => PortWithinLimit' BY PeakKept, Zenon
<1> QED BY <1>1, <1>2, Inductive, PTL DEF Spec

-----------------------------------------------------------------------------
(* What is accepted.                                                       *)

LEMMA PathBytesType == ASSUME NEW p \in Paths \cup {0} PROVE PathBytes(p) \in Nat /\ (p # 0 => PathBytes(p) >= 1)
<1>1. CASE p = 0 BY <1>1, Zenon DEF PathBytes
<1>2. CASE p # 0
  <2>1. Depth[p] \in Nat BY <1>2, DepthDef, Zenon
  <2> QED BY <1>2, <2>1 DEF PathBytes
<1> QED BY <1>1, <1>2, Zenon

LEMMA PayloadBytesType == ASSUME NEW e \in Record PROVE PayloadBytes(e) \in Nat
<1>1. e.delta \subseteq Delta /\ e.ref \in Paths \cup {0} /\ e.bytes \in Seq(Nat) BY Zenon DEF Record
<1>2. CASE e.delta # {}
  <2>1. The(e.delta).to \in Seq(Nat) BY <1>1, <1>2, TheMember, Zenon DEF Delta
  <2>2. Len(The(e.delta).to) \in Nat BY <2>1
  <2> QED BY <1>2, <2>2 DEF PayloadBytes
<1>3. CASE e.delta = {} /\ e.ref # 0
  <2>1. PathBytes(e.ref) \in Nat BY <1>1, PathBytesType, Zenon
  <2> QED BY <1>3, <2>1, Zenon DEF PayloadBytes
<1>4. CASE e.delta = {} /\ e.ref = 0
  <2>1. Len(e.bytes) \in Nat /\ (e.bytes # <<>> => Len(e.bytes) >= 1) BY <1>1
  <2> QED BY <1>4, <2>1 DEF PayloadBytes
<1> QED BY <1>2, <1>3, <1>4, Zenon

LEMMA MetaBytesType == ASSUME NEW m \in Meta PROVE MetaBytes(m) \in Nat /\ MetaBytes(m) >= 20
<1>1. m.link \in Paths \cup {0} BY Zenon DEF Meta
<1>2. PathBytes(m.link) \in Nat BY <1>1, PathBytesType, Zenon
<1>3. (IF m.attr THEN 12 ELSE 0) \in Nat /\ (IF m.hole THEN 16 ELSE 0) \in Nat BY Zenon
<1>4. (IF m.link = 0 THEN 0 ELSE 4 + PathBytes(m.link)) \in Nat BY <1>2
<1> QED BY <1>3, <1>4 DEF MetaBytes

LEMMA TotalOfNat == ASSUME NEW s \in Seq(Nat) PROVE Total(s) \in Nat
<1>1. Sums(s) \in [0..Len(s) -> Nat] BY SumsOfNat, Zenon
<1>2. Len(s) \in 0..Len(s)
  <2>1. Len(s) \in Nat BY SMTT(30)
  <2> QED BY <2>1
<1> QED BY <1>1, <1>2, Zenon DEF Total

RuleSizes(p) == [i \in DOMAIN p.rules |-> 8 + p.rules[i].pattern]
EntrySizes(p) ==
    [i \in DOMAIN p.entries |->
        LET e == p.entries[i] IN 16 + PathBytes(e.path) + PayloadBytes(e) + 4 + MetaBytes(e.meta)]

LEMMA RecordSizes ==
  ASSUME NEW p \in Written
  PROVE  /\ RuleSizes(p) \in Seq(Nat) /\ Len(RuleSizes(p)) = Len(p.rules)
         /\ EntrySizes(p) \in Seq(Nat) /\ Len(EntrySizes(p)) = Len(p.entries)
         /\ \A i \in 1..Len(p.rules) : RuleSizes(p)[i] = 8 + p.rules[i].pattern
         /\ \A i \in 1..Len(p.entries) : p.entries[i].path # 0 => EntrySizes(p)[i] >= MinEntry
<1>1. p.rules \in Seq(Rule) /\ p.entries \in Seq(Record) BY Zenon DEF Written
<1>2. PICK m \in Nat : m = Len(p.rules) /\ DOMAIN p.rules = 1..m /\ \A i \in 1..m : p.rules[i] \in Rule BY <1>1
<1>3. PICK n \in Nat : n = Len(p.entries) /\ DOMAIN p.entries = 1..n /\ \A i \in 1..n : p.entries[i] \in Record
  BY <1>1
<1>4. \A i \in 1..m : 8 + p.rules[i].pattern \in Nat BY <1>2 DEF Rule
<1> DEFINE size(e) == 16 + PathBytes(e.path) + PayloadBytes(e) + 4 + MetaBytes(e.meta)
<1>5. ASSUME NEW e \in Record PROVE size(e) \in Nat /\ (e.path # 0 => size(e) >= 41)
  <2>1. e.path \in Paths \cup {0} /\ e.meta \in Meta BY Zenon DEF Record
  <2>2. PathBytes(e.path) \in Nat /\ (e.path # 0 => PathBytes(e.path) >= 1) BY <2>1, PathBytesType, Zenon
  <2>3. PayloadBytes(e) \in Nat BY PayloadBytesType, Zenon
  <2>4. MetaBytes(e.meta) \in Nat /\ MetaBytes(e.meta) >= 20 BY <2>1, MetaBytesType, Zenon
  <2> QED BY <2>2, <2>3, <2>4
<1>6. RuleSizes(p) = [i \in 1..m |-> 8 + p.rules[i].pattern] BY <1>2, Zenon DEF RuleSizes
<1>7. EntrySizes(p) = [i \in 1..n |-> size(p.entries[i])] BY <1>3, Zenon DEF EntrySizes
<1> HIDE DEF size
<1>8. RuleSizes(p) \in Seq(Nat) /\ Len(RuleSizes(p)) = m /\ \A i \in 1..m : RuleSizes(p)[i] = 8 + p.rules[i].pattern
  BY <1>4, <1>6
<1>9. EntrySizes(p) \in Seq(Nat) /\ Len(EntrySizes(p)) = n /\ \A i \in 1..n : EntrySizes(p)[i] = size(p.entries[i])
  BY <1>3, <1>5, <1>7
<1>10. \A i \in 1..n : p.entries[i].path # 0 => EntrySizes(p)[i] >= 41 BY <1>3, <1>5, <1>9, Zenon
<1> QED BY <1>2, <1>3, <1>8, <1>9, <1>10, Zenon DEF MinEntry

LEMMA BodyBytesIs ==
  ASSUME NEW p \in Written
  PROVE  /\ BodyBytes(p) \in Int
         /\ ~p.cut => BodyBytes(p) >= Total(RuleSizes(p)) + Total(EntrySizes(p))
<1> DEFINE R == Total(RuleSizes(p))
           E == Total(EntrySizes(p))
           top == IF p.rooted THEN 4 + MetaBytes(p.root) ELSE 0
           cut == IF p.cut THEN 1 ELSE 0
<1>1. R \in Nat /\ E \in Nat BY RecordSizes, TotalOfNat, Zenon
<1>2. p.root \in Meta /\ p.extra \in Nat BY Zenon DEF Written
<1>3. top \in Nat BY <1>2, MetaBytesType
<1>4. cut \in Nat /\ (~p.cut => cut = 0) BY Zenon
<1>5. BodyBytes(p) = R + E + top + p.extra - cut BY Zenon DEF BodyBytes, RuleSizes, EntrySizes
<1> HIDE DEF R, E, top, cut
<1>6. BodyBytes(p) \in Int /\ (cut = 0 => BodyBytes(p) >= R + E) BY <1>1, <1>2, <1>3, <1>4, <1>5
<1> QED BY <1>4, <1>6, Zenon DEF R, E

LEMMA Divides ==
  /\ \A a \in Int, q \in Nat : ~(q > a \div 41) <=> 41 * q <= a
  /\ \A a \in Int, q \in Nat : ~(q > a \div 9) <=> 9 * q <= a
OBVIOUS

LEMMA Multiples ==
  /\ \A B \in Int, r \in Nat : B - r * 9 \in Int /\ B = (B - r * 9) + 9 * r /\ 9 * r \in Nat
  /\ \A n \in Nat : 41 * n \in Nat
OBVIOUS

LEMMA InvSound ==
  TypeInv /\ Inv => AcceptedIsSound
<1>Within. \A D \in Int, a \in Nat, c \in Nat : \A B : B = D + a /\ c <= D => a + c <= B
OBVIOUS
\* No more is reserved for than the body could hold.
<1>CountsFit. ASSUME NEW p \in Written, PrefixError(p) = ""
              PROVE  MinRule * p.ruleCount + MinEntry * p.entryCount <= BodyBytes(p)
  <2> USE <1>CountsFit
  <2>1. ~(p.entryCount > (BodyBytes(p) - p.ruleCount * MinRule) \div MinEntry) BY PrefixErrorIs, Zenon
  <2>2. BodyBytes(p) \in Int BY BodyBytesIs, Zenon
  <2>3. p.ruleCount \in Nat /\ p.entryCount \in Nat BY Zenon DEF Written
  <2>4. ASSUME NEW B \in Int, NEW r \in Nat, NEW n \in Nat, ~(n > (B - r * 9) \div 41) PROVE 9 * r + 41 * n <= B
    <3>1. PICK D \in Int : D = B - r * 9 /\ B = D + 9 * r /\ 9 * r \in Nat BY Multiples, Zenon
    <3>2. ~(n > D \div 41) BY <2>4, <3>1, Zenon
    <3>3. 41 * n <= D BY <3>2, Divides, Zenon
    <3>4. PICK a \in Nat : a = 9 * r BY <3>1, Zenon
    <3>5. PICK c \in Nat : c = 41 * n BY Multiples, Zenon
    <3>6. B = D + a /\ c <= D BY <3>1, <3>3, <3>4, <3>5, Zenon
    <3>7. a + c <= B BY <3>6, <1>Within, Zenon
    <3> QED BY <3>4, <3>5, <3>7, Zenon
  <2> QED BY <2>1, <2>2, <2>3, <2>4, Zenon DEF MinRule, MinEntry
<1>MaskedSame. ASSUME NEW m \in Meta, NEW o, ~HasOmitted(m, o) PROVE Masked(m, o) = m
  <2> USE <1>MaskedSame
  <2>1. m.attr \in BOOLEAN /\ m.hole \in BOOLEAN BY Zenon DEF Meta
  <2>2. m = [attr |-> m.attr, hole |-> m.hole, link |-> m.link] BY Zenon DEF Meta
  <2>3. (m.attr /\ "attr" \notin o) = m.attr BY <2>1, Zenon DEF HasOmitted
  <2>4. (m.hole /\ "sparse" \notin o) = m.hole BY <2>1, Zenon DEF HasOmitted
  <2>5. (IF "hardlink" \in o THEN 0 ELSE m.link) = m.link BY Zenon DEF HasOmitted
  <2> QED BY <2>2, <2>3, <2>4, <2>5, Zenon DEF Masked
\* A snapshot without the omitted families is its own mask.
<1>MaskSame. ASSUME NEW b \in Seq(Built), NEW r \in Meta, NEW o, ~HasOmitted(r, o),
                    \A k \in 1..Len(b) : ~HasOmitted(b[k].meta, o)
             PROVE  Mask([entries |-> b, root |-> r], o) = [entries |-> b, root |-> r]
  <2> USE <1>MaskSame
  <2>1. PICK n \in Nat : n = Len(b) /\ DOMAIN b = 1..n /\ \A k \in 1..n : b[k] \in Built OBVIOUS
  <2>2. Masked(r, o) = r BY <1>MaskedSame, Zenon
  <2>3. ASSUME NEW k \in 1..n PROVE [b[k] EXCEPT !.meta = Masked(b[k].meta, o)] = b[k]
    <3>1. b[k] \in Built BY <2>1, Zenon
    <3>2. b[k].meta \in Meta BY <3>1, Zenon DEF Built
    <3>3. Masked(b[k].meta, o) = b[k].meta BY <2>1, <3>2, <1>MaskedSame, Zenon
    <3> QED BY <3>1, <3>3, Zenon DEF Built
  <2>4. [k \in 1..n |-> [b[k] EXCEPT !.meta = Masked(b[k].meta, o)]] = b
    <3>1. b = [k \in 1..n |-> b[k]] BY <2>1
    <3> QED BY <2>3, <3>1, Zenon
  <2>5. /\ [entries |-> b, root |-> r].entries = b /\ [entries |-> b, root |-> r].root = r BY Zenon
  <2> QED BY <2>1, <2>2, <2>4, <2>5, Zenon DEF Mask
<1>NoneOmitted. \A o : ~HasOmitted(NoMeta, o)
  BY Zenon DEF HasOmitted, NoMeta
\* An accepted result passed every check, to the end.
<1>AcceptedIs. ASSUME TypeInv, Inv, NEW i \in Impls, Accepted(i)
               PROVE  /\ patch # {} /\ Opens(The(patch), given) /\ Len(out[i]) = Len(The(patch).entries)
                      /\ Valid(Result(i)) /\ Result(i) = The(patch).target
  <2> USE <1>AcceptedIs
  <2> DEFINE p == The(patch)
  <2>1. pc[i] = "done" /\ error[i] = "none" BY Zenon DEF Accepted
  <2>2. Ended(i) BY InvParts, Zenon DEF Local
  <2>3. patch # {} BY <2>1, <2>2, Zenon DEF Ended
  <2>4. p \in Written BY <2>3, SealedPatch, Zenon DEF TypeInv, RequestInv
  <2>5. PrefixError(p) # "" => PrefixError(p) # "none" BY PrefixErrorIs, EmptyIsNoRefusal, Zenon
  <2>6. BodyError(p) # "" => BodyError(p) # "none" BY <2>4, BodyErrorIs, EmptyIsNoRefusal, Zenon
  <2>7. "SourceHashMismatch" # "none" /\ "LimitExceeded" # "none" 
        /\ "InvalidTarget" # "none" /\ "TargetHashMismatch" # "none"
    BY Zenon
  <2>8. ~Refused(p, given, out[i], "none") BY <2>5, <2>6, <2>7, Zenon DEF Refused
  <2>9. Stopped(p, given, maxOutput, out[i], "none") BY <2>1, <2>2, <2>3, <2>7, Zenon DEF Ended
  <2>10. Opens(p, given) /\ Len(out[i]) = Len(p.entries) /\ "none" = Verdict(p, out[i])
    BY <2>8, <2>9, Zenon DEF Stopped
  <2>11. Valid(Result(i)) /\ Result(i) = p.target BY <2>7, <2>10, Zenon DEF Verdict, Result
  <2> QED BY <2>3, <2>10, <2>11, Zenon
<1> SUFFICES ASSUME TypeInv, Inv PROVE AcceptedIsSound
  BY Zenon
<1> DEFINE p == The(patch)
<1>1. ASSUME NEW i \in Impls, pc[i] = "body"
      PROVE  MinRule * p.ruleCount + MinEntry * p.entryCount <= BodyBytes(p)
  <2>1. patch # {} /\ PrefixError(p) = "" BY <1>1, InvParts, Zenon DEF Local, Progress
  <2>2. p \in Written BY <2>1, SealedPatch, Zenon DEF TypeInv, RequestInv
  <2> QED BY <2>1, <2>2, <1>CountsFit, Zenon
<1>2. ASSUME NEW i \in Impls, Accepted(i)
      PROVE  /\ Valid(Result(i))
             /\ OutputSize(out[i]) <= maxOutput
             /\ Mask(Result(i), p.omit) = Result(i)
             /\ \A e \in Range(out[i]) : e.kind = "symlink" => StaysInside(e)
  <2> DEFINE b == out[i]
  <2>1. patch # {} /\ Opens(p, given) /\ Len(b) = Len(p.entries) /\ Valid(Result(i)) BY <1>2, <1>AcceptedIs, Zenon
  <2>2. Sealed(p) /\ p \in Written /\ p.entries \in Seq(Record) BY <2>1, SealedPatch, Zenon DEF TypeInv, RequestInv
  <2>3. b \in Seq(Built) BY Zenon DEF TypeInv
  <2>4. Amount(i) BY InvParts, Zenon DEF Local
  <2>5. OutputSize(b) <= maxOutput BY <2>4, Zenon DEF Amount
  <2>6. PICK n \in Nat : n = Len(b) /\ DOMAIN b = 1..n /\ \A k \in 1..n : b[k] \in Built BY <2>3
  <2>7. (\A k \in 1..n : EntryError(p, k) = "") /\ RootError(p) = ""
    BY <2>1, <2>2, <2>6, BodyErrorIs, Zenon DEF Opens
  <2>8. \A k \in 1..n : ~HasOmitted(p.entries[k].meta, p.omit) /\ p.entries[k].path # 0 BY <2>7, EntryErrorIs, Zenon
  <2>9. \A k \in 1..n : b[k].meta = p.entries[k].meta /\ b[k].path = p.entries[k].path
    <3>1. CASE b = <<>>
      <4>1. 1..n = {} BY <2>6, <3>1, SMTT(30)
      <4> QED BY <4>1, Zenon
    <3>2. CASE b # <<>>
      <4>1. \A k \in 1..n : b[k] = BuiltFrom(p.entries[k], b[k].data) BY <2>4, <2>6, <3>2, Zenon DEF Amount, Copies
      <4>2. \A x, d : BuiltFrom(x, d).meta = x.meta /\ BuiltFrom(x, d).path = x.path BY Zenon DEF BuiltFrom
      <4> QED BY <4>1, <4>2, SMTT(30)
    <3> QED BY <3>1, <3>2, Zenon
  <2>10. p.root \in Meta /\ ~HasOmitted(p.root, p.omit)
    <3>1. p.root \in Meta BY <2>2, Zenon DEF Written
    <3>2. CASE p.rooted BY <2>7, <3>1, <3>2, RootErrorIs, Zenon
    <3>3. CASE ~p.rooted BY <2>2, <3>1, <3>3, <1>NoneOmitted, Zenon DEF Sealed
    <3> QED BY <3>2, <3>3, Zenon
  <2>11. \A k \in 1..Len(b) : ~HasOmitted(b[k].meta, p.omit) BY <2>6, <2>8, <2>9, ZenonT(30)
  <2>12. Mask([entries |-> b, root |-> p.root], p.omit) = [entries |-> b, root |-> p.root]
    BY <2>3, <2>10, <2>11, <1>MaskSame, Zenon
  <2>13. ASSUME NEW e \in Range(b), e.kind = "symlink" PROVE StaysInside(e)
    <3>1. PICK k \in 1..n : e = b[k] BY <2>6, Zenon DEF Range
    <3>2. Result(i).entries = b BY Zenon DEF Result
    <3>3. EntryIsValid(b, k) BY <2>1, <2>6, <3>2, Zenon DEF Valid, ValidSnapshot
    <3>4. TargetIsValid(e.path, e.data) BY <2>13, <3>1, <3>3, ZenonT(30) DEF EntryIsValid
    <3>5. e \in Built /\ e.path # 0 BY <2>6, <2>8, <2>9, <3>1, Zenon
    <3>6. e.path \in Paths /\ e.data \in Seq(Nat) BY <3>5, Zenon DEF Built
    <3> QED BY <3>4, <3>6, ValidTargetStaysInside, Zenon
  <2> QED BY <2>1, <2>5, <2>12, <2>13, Zenon DEF Result
<1> QED BY <1>1, <1>2, Zenon DEF AcceptedIsSound

\* Whatever was rewritten in a patch, for every tree and limit: no more is reserved for
\* than the body could hold, and what is accepted is sound.
THEOREM AcceptedAreSound == Spec => []AcceptedIsSound
<1>1. TypeInv /\ Inv => AcceptedIsSound BY InvSound, Zenon
<1> QED BY <1>1, Inductive, PTL

-----------------------------------------------------------------------------
(* What createPatch writes is read and gives the target.                   *)

\* w grows no faster than the sums of s.
Slower(w, s, N) == w[0] = 0 /\ \A n \in 1..N : w[n] <= w[n - 1] + s[n]

-----------------------------------------------------------------------------
(* Masking.                                                                *)

LEMMA MaskIs ==
  ASSUME NEW s \in Snapshot, NEW o
  PROVE  /\ Mask(s, o).entries \in Seq(Entry) /\ Len(Mask(s, o).entries) = Len(s.entries)
         /\ \A i \in 1..Len(s.entries) :
               LET e == s.entries[i]
                   m == Mask(s, o).entries[i]
               IN  /\ m.path = e.path /\ m.kind = e.kind /\ m.mode = e.mode /\ m.data = e.data
                   /\ m.meta = Masked(e.meta, o)
         /\ Mask(s, o).root = Masked(s.root, o)
<1> DEFINE t == [i \in 1..Len(s.entries) |-> [s.entries[i] EXCEPT !.meta = Masked(s.entries[i].meta, o)]]
<1>1. Mask(s, o) \in Snapshot BY MaskType, Zenon
<1>2. Mask(s, o).entries = t /\ Mask(s, o).root = Masked(s.root, o) BY Zenon DEF Mask
<1>3. t \in Seq(Entry) BY <1>1, <1>2, Zenon DEF Snapshot
<1>4. PICK n \in Nat : n = Len(s.entries) /\ \A i \in 1..n : s.entries[i] \in Entry BY DEF Snapshot
<1>5. Len(t) = n BY <1>4
<1>6. ASSUME NEW i \in 1..n
      PROVE  /\ t[i].path = s.entries[i].path /\ t[i].kind = s.entries[i].kind /\ t[i].mode = s.entries[i].mode
             /\ t[i].data = s.entries[i].data /\ t[i].meta = Masked(s.entries[i].meta, o)
  <2>1. t[i] = [s.entries[i] EXCEPT !.meta = Masked(s.entries[i].meta, o)] BY <1>4, Zenon
  <2>2. s.entries[i] \in Entry BY <1>4, Zenon
  <2> QED BY <2>1, <2>2, Zenon DEF Entry
<1> HIDE DEF t
<1> QED BY <1>2, <1>3, <1>4, <1>5, <1>6, Zenon

\* v has the paths, kinds and modes of t, and its directories and symlinks.
Alike(v, t) ==
    /\ Len(v) = Len(t)
    /\ \A i \in 1..Len(t) :
          /\ v[i].path = t[i].path /\ v[i].kind = t[i].kind /\ v[i].mode = t[i].mode
          /\ t[i].kind # "file" => v[i].data = t[i].data

LEMMA AlikeValid ==
  ASSUME NEW n \in Nat, NEW t, NEW v, Len(t) = n, Alike(v, t), ValidSnapshot(t)
  PROVE  ValidSnapshot(v)
<1>1. ASSUME NEW i \in 1..n PROVE EntryIsValid(v, i)
  <2>1. EntryIsValid(t, i) BY Zenon DEF ValidSnapshot
  <2>2. /\ v[i].path = t[i].path /\ v[i].kind = t[i].kind /\ v[i].mode = t[i].mode
        /\ (t[i].kind # "file" => v[i].data = t[i].data)
    BY Zenon DEF Alike
  <2>3. \A j \in 1..(i - 1) : v[j].path = t[j].path /\ v[j].kind = t[j].kind
    <3>1. \A j \in 1..(i - 1) : j \in 1..n OBVIOUS
    <3> QED BY <3>1, Zenon DEF Alike
  <2>4. i > 1 => v[i - 1].path = t[i - 1].path
    <3>1. i > 1 => i - 1 \in 1..(i - 1) OBVIOUS
    <3> QED BY <2>3, <3>1, Zenon
  <2>5. ParentIsDirectory(v, i)
    <3>1. ParentIsDirectory(t, i) BY <2>1, Zenon DEF EntryIsValid
    <3> QED BY <2>2, <2>3, <3>1, Zenon DEF ParentIsDirectory
  <2>6. "dir" # "file" /\ "symlink" # "file" BY Zenon
  <2> QED BY <2>1, <2>2, <2>4, <2>5, <2>6, Zenon DEF EntryIsValid
<1> QED BY <1>1, Zenon DEF ValidSnapshot, Alike

-----------------------------------------------------------------------------
(* The record that createPatch writes for an entry.                        *)

\* What e has in a valid snapshot.
Sound(e) == (e.kind = "dir" => e.data = <<>>) /\ (e.meta.link # 0 => e.kind = "file")

\* r stands for e when F are the source's entries.
StandsFor(r, e, F) ==
    /\ r.reserved = 0 /\ r.path = e.path /\ r.mode = e.mode /\ r.meta = e.meta
    /\ \/ r.op = "directory" /\ e.kind = "dir" /\ NoPayload(r)
       \/ r.op = "symlink" /\ e.kind = "symlink" /\ r.delta = {} /\ r.ref = 0 /\ r.bytes = e.data
       \/ /\ r.op = "hardlink" /\ e.kind = "file" /\ e.meta.link # 0
          /\ r.delta = {} /\ r.ref = e.meta.link /\ r.bytes = <<>>
       \/ /\ r.op = "copy" /\ e.kind = "file" /\ e.meta.link = 0 /\ NoPayload(r)
          /\ \E x \in Find(F, e.path) : x.kind = "file" /\ x.data = e.data
       \/ /\ r.op = "delta" /\ e.kind = "file" /\ e.meta.link = 0
          /\ \E x \in Find(F, e.path) :
                x.kind = "file" /\ r.delta = {[from |-> x.data, to |-> e.data, sound |-> TRUE]}
       \/ /\ r.op = "raw" /\ e.kind = "file" /\ e.meta.link = 0
          /\ r.delta = {} /\ r.ref = 0 /\ r.bytes = e.data

\* r is e's record with operation op.
Carries(r, e, op, bytes, ref, delta) ==
    /\ r.op = op /\ r.reserved = 0 /\ r.path = e.path /\ r.mode = e.mode /\ r.meta = e.meta
    /\ r.bytes = bytes /\ r.ref = ref /\ r.delta = delta

LEMMA EncodeEntryIs ==
  \A e \in Entry : \A F : Sound(e) => StandsFor(EncodeEntry(e, F), e, F)
<1>EncodedFields.
    ASSUME NEW e, NEW op, NEW bytes, NEW ref, NEW delta
    PROVE  Carries(Encoded(e, op, bytes, ref, delta), e, op, bytes, ref, delta)
  BY Zenon DEF Encoded, Carries
<1> SUFFICES ASSUME NEW e \in Entry, Sound(e), NEW F
             PROVE  StandsFor(EncodeEntry(e, F), e, F)
  BY Zenon
<1> DEFINE old == Find(F, e.path)
           r == EncodeEntry(e, F)
           d == {[from |-> The(old).data, to |-> e.data, sound |-> TRUE]}
<1>1. e.kind \in {"file", "dir", "symlink"} BY Zenon DEF Entry
<1>2. r = CASE e.kind = "dir" -> Encoded(e, "directory", <<>>, 0, {})
            [] e.kind = "symlink" -> Encoded(e, "symlink", e.data, 0, {})
            [] e.kind = "file" /\ e.meta.link # 0 -> Encoded(e, "hardlink", <<>>, e.meta.link, {})
            [] e.kind = "file" /\ e.meta.link = 0 /\ old # {} /\ The(old).kind = "file" ->
                  IF The(old).data = e.data THEN Encoded(e, "copy", <<>>, 0, {})
                  ELSE Encoded(e, "delta", <<>>, 0, d)
            [] OTHER -> Encoded(e, "raw", e.data, 0, {})
  BY Zenon DEF EncodeEntry
<1>3. old # {} => The(old) \in old BY TheMember, Zenon
<1> HIDE DEF r, d, old
<1>4. CASE e.kind = "dir"
  <2>1. Carries(r, e, "directory", <<>>, 0, {}) BY <1>2, <1>4, <1>EncodedFields, Zenon
  <2> QED BY <1>4, <2>1, Zenon DEF StandsFor, Carries, NoPayload, r
<1>5. CASE e.kind = "symlink"
  <2>1. Carries(r, e, "symlink", e.data, 0, {}) BY <1>2, <1>5, <1>EncodedFields, Zenon
  <2> QED BY <1>5, <2>1, Zenon DEF StandsFor, Carries, r
<1>6. CASE e.kind = "file" /\ e.meta.link # 0
  <2>1. Carries(r, e, "hardlink", <<>>, e.meta.link, {}) BY <1>2, <1>6, <1>EncodedFields, Zenon
  <2> QED BY <1>6, <2>1, Zenon DEF StandsFor, Carries, r
<1>7. CASE e.kind = "file" /\ e.meta.link = 0 /\ old # {} /\ The(old).kind = "file" /\ The(old).data = e.data
  <2>1. Carries(r, e, "copy", <<>>, 0, {}) BY <1>2, <1>7, <1>EncodedFields, Zenon
  <2> QED BY <1>3, <1>7, <2>1, Zenon DEF StandsFor, Carries, NoPayload, r, old
<1>8. CASE e.kind = "file" /\ e.meta.link = 0 /\ old # {} /\ The(old).kind = "file" /\ The(old).data # e.data
  <2>1. Carries(r, e, "delta", <<>>, 0, d) BY <1>2, <1>8, <1>EncodedFields, Zenon
  <2>2. /\ r.op = "delta" /\ r.reserved = 0 /\ r.path = e.path /\ r.mode = e.mode /\ r.meta = e.meta
        /\ r.delta = d
    BY <2>1, Zenon DEF Carries
  <2>3. \E x \in Find(F, e.path) : x.kind = "file" /\ r.delta = {[from |-> x.data, to |-> e.data, sound |-> TRUE]}
    BY <1>3, <1>8, <2>2, Zenon DEF d, old
  <2> QED BY <1>8, <2>2, <2>3, Zenon DEF StandsFor, r
<1>9. CASE e.kind = "file" /\ e.meta.link = 0 /\ ~(old # {} /\ The(old).kind = "file")
  <2>1. Carries(r, e, "raw", e.data, 0, {}) BY <1>2, <1>9, <1>EncodedFields, Zenon
  <2> QED BY <1>9, <2>1, Zenon DEF StandsFor, Carries, r
<1> QED BY <1>1, <1>4, <1>5, <1>6, <1>7, <1>8, <1>9, Zenon

\* The record passes the checks of its own.
LEMMA StandsClear ==
  ASSUME NEW r, NEW e, NEW F, StandsFor(r, e, F), Sound(e)
  PROVE  /\ r.op # "unknown" /\ (r.op \in {"directory", "copy"} => NoPayload(r))
         /\ (e.meta.link # 0 <=> r.op = "hardlink")
         /\ (e.meta.link # 0 => r.ref = e.meta.link /\ r.bytes = <<>>)
         /\ KindOf(r.op) = e.kind
         /\ (e.kind # "file" => View(r).data = e.data)
         /\ View(r).path = e.path /\ View(r).kind = e.kind /\ View(r).mode = e.mode
<1>1. View(r).path = r.path /\ View(r).kind = KindOf(r.op) /\ View(r).mode = r.mode
      /\ View(r).data = IF r.op = "directory" THEN <<>> ELSE Payload(r)
  BY Zenon DEF View
<1>2. r.path = e.path /\ r.mode = e.mode BY Zenon DEF StandsFor
<1>3. CASE r.op = "directory" /\ e.kind = "dir" /\ NoPayload(r)
  BY <1>1, <1>2, <1>3, Zenon DEF KindOf, Sound
<1>4. CASE r.op = "symlink" /\ e.kind = "symlink" /\ r.delta = {} /\ r.ref = 0 /\ r.bytes = e.data
  BY <1>1, <1>2, <1>4, Zenon DEF KindOf, Sound, Payload
<1>5. CASE r.op = "hardlink" /\ e.kind = "file" /\ e.meta.link # 0 /\ r.ref = e.meta.link /\ r.bytes = <<>>
  BY <1>1, <1>2, <1>5, Zenon DEF KindOf
<1>6. CASE r.op = "copy" /\ e.kind = "file" /\ e.meta.link = 0 /\ NoPayload(r)
  BY <1>1, <1>2, <1>6, Zenon DEF KindOf
<1>7. CASE r.op \in {"delta", "raw"} /\ e.kind = "file" /\ e.meta.link = 0
  BY <1>1, <1>2, <1>7, Zenon DEF KindOf
<1> QED BY <1>3, <1>4, <1>5, <1>6, <1>7, ZenonT(30) DEF StandsFor

\* The fields of what createPatch writes.
Holds(p, s, t, o) ==
    LET to == Mask(t, o)
    IN  /\ p.seal = "good" /\ p.version = 2 /\ p.needed = 2 /\ ~p.unknown
        /\ p.ruleCount = Len(Rules) /\ p.entryCount = Len(to.entries) /\ p.rules = Rules
        /\ p.omit = o /\ p.source = Mask(s, o) /\ p.target = to /\ p.root = to.root
        /\ (p.rooted <=> to.root # NoMeta)
        /\ p.entries = [i \in 1..Len(to.entries) |-> EncodeEntry(to.entries[i], Mask(s, o).entries)]
        /\ p.extra = 0 /\ ~p.cut

LEMMA CreatedIs ==
  ASSUME NEW s, NEW t, NEW o
  PROVE  Holds(CreatePatch(s, t, o), s, t, o)
<1> DEFINE p == CreatePatch(s, t, o)
           to == Mask(t, o)
           b == to.root # NoMeta
           entries == [i \in 1..Len(to.entries) |-> EncodeEntry(to.entries[i], Mask(s, o).entries)]
<1>1. p = [seal |-> "good", version |-> 2, needed |-> 2, unknown |-> FALSE,
           ruleCount |-> Len(Rules), entryCount |-> Len(to.entries), rules |-> Rules,
           omit |-> o, source |-> Mask(s, o), target |-> to, rooted |-> b, root |-> to.root,
           entries |-> entries, extra |-> 0, cut |-> FALSE]
  BY ZenonT(30) DEF CreatePatch
<1> HIDE DEF p, to, b, entries
<1>2. /\ p.seal = "good" /\ p.version = 2 /\ p.needed = 2 /\ p.unknown = FALSE
      /\ p.ruleCount = Len(Rules) /\ p.entryCount = Len(to.entries) /\ p.rules = Rules
      /\ p.omit = o /\ p.source = Mask(s, o) /\ p.target = to /\ p.root = to.root
      /\ p.rooted = b /\ p.entries = entries /\ p.extra = 0 /\ p.cut = FALSE
  BY <1>1, Zenon
<1> QED BY <1>2, Zenon DEF Holds, p, to, b, entries

\* A masked tree from which or to which a patch is made.
LEMMA TreeIs ==
  \A s \in Sources \cup Targets : \A o :
        /\ s \in Snapshot /\ Valid(Mask(s, o)) /\ Mask(s, o) \in Snapshot
        /\ Mask(s, o).entries \in Seq(Entry) /\ ValidSnapshot(Mask(s, o).entries)
        /\ \A i \in 1..Len(Mask(s, o).entries) : Sound(Mask(s, o).entries[i])
<1>MaskValid. ASSUME NEW s \in Snapshot, NEW o, Valid(s) PROVE Valid(Mask(s, o))
  <2> USE <1>MaskValid
  <2> DEFINE t == s.entries
             v == Mask(s, o).entries
  <2>1. PICK n \in Nat : n = Len(t) /\ \A i \in 1..n : t[i] \in Entry BY DEF Snapshot
  <2>2. /\ v \in Seq(Entry) /\ Len(v) = n
        /\ \A i \in 1..n : /\ v[i].path = t[i].path /\ v[i].kind = t[i].kind /\ v[i].mode = t[i].mode
                           /\ v[i].data = t[i].data /\ v[i].meta = Masked(t[i].meta, o)
        /\ Mask(s, o).root = Masked(s.root, o)
    BY <2>1, MaskIs, Zenon
  <2>3. \A m : /\ (Masked(m, o).hole => m.hole) /\ (Masked(m, o).link # 0 => Masked(m, o).link = m.link)
               /\ (m.link = 0 => Masked(m, o).link = 0)
    BY Zenon DEF Masked
  <2>4. ValidSnapshot(t) /\ ValidRelations(t) /\ ValidRoot(s.root) BY Zenon DEF Valid
  <2> HIDE DEF t, v
  <2>5. ValidSnapshot(v)
    <3>1. Alike(v, t) BY <2>1, <2>2, Zenon DEF Alike
    <3> QED BY <2>1, <2>4, <3>1, AlikeValid, Zenon
  <2>6. ASSUME NEW i \in 1..n PROVE HoleHolds(v[i])
    <3>1. HoleHolds(t[i]) BY <2>1, <2>4, Zenon DEF ValidRelations
    <3> QED BY <2>2, <2>3, <3>1, Zenon DEF HoleHolds
  <2>7. ASSUME NEW i \in 1..n PROVE LinkHolds(v, i)
    <3> SUFFICES ASSUME v[i].meta.link # 0
                 PROVE  /\ v[i].kind = "file"
                        /\ \E j \in 1..(i - 1) :
                              /\ v[j].path = v[i].meta.link /\ v[j].kind = "file"
                              /\ v[j].meta = [v[i].meta EXCEPT !.link = 0]
                              /\ v[j].mode = v[i].mode /\ v[j].data = v[i].data
      BY Zenon DEF LinkHolds
    <3>1. v[i].meta = Masked(t[i].meta, o) BY <2>2, Zenon
    <3>2. v[i].meta.link = t[i].meta.link /\ t[i].meta.link # 0 BY <2>3, <3>1, Zenon
    <3>3. LinkHolds(t, i) BY <2>1, <2>4, Zenon DEF ValidRelations
    <3>4. t[i].kind = "file" BY <3>2, <3>3, Zenon DEF LinkHolds
    <3>5. PICK j \in 1..(i - 1) :
             /\ t[j].path = t[i].meta.link /\ t[j].kind = "file"
             /\ t[j].meta = [t[i].meta EXCEPT !.link = 0]
             /\ t[j].mode = t[i].mode /\ t[j].data = t[i].data
      BY <3>2, <3>3, Zenon DEF LinkHolds
    <3>6. j \in 1..n OBVIOUS
    <3>7. v[j].meta = Masked(t[j].meta, o) BY <2>2, <3>6, Zenon
    <3>8. Masked([t[i].meta EXCEPT !.link = 0], o) = [Masked(t[i].meta, o) EXCEPT !.link = 0]
      <4>1. t[i].meta \in Meta BY <2>1, Zenon DEF Entry
      <4>2. ASSUME NEW m \in Meta PROVE Masked([m EXCEPT !.link = 0], o) = [Masked(m, o) EXCEPT !.link = 0]
        <5> DEFINE w == [m EXCEPT !.link = 0]
        <5>1. w.attr = m.attr /\ w.hole = m.hole /\ w.link = 0 BY Zenon DEF Meta
        <5> HIDE DEF w
        <5>2. Masked(w, o) = [attr |-> (m.attr /\ "attr" \notin o), hole |-> (m.hole /\ "sparse" \notin o), link |-> 0]
          BY <5>1, Zenon DEF Masked
        <5>3. \A x, y, z : [[attr |-> x, hole |-> y, link |-> z] EXCEPT !.link = 0] = [attr |-> x, hole |-> y, link |-> 0]
          OBVIOUS
        <5>4. Masked(m, o) = [attr |-> (m.attr /\ "attr" \notin o), hole |-> (m.hole /\ "sparse" \notin o),
                              link |-> (IF "hardlink" \in o THEN 0 ELSE m.link)]
          BY Zenon DEF Masked
        <5>5. [Masked(m, o) EXCEPT !.link = 0]
                 = [attr |-> (m.attr /\ "attr" \notin o), hole |-> (m.hole /\ "sparse" \notin o), link |-> 0]
          BY <5>4
        <5> QED BY <5>2, <5>5, Zenon DEF w
      <4> QED BY <4>1, <4>2, Zenon
    <3>9. v[j].meta = [v[i].meta EXCEPT !.link = 0] BY <3>1, <3>5, <3>7, <3>8, Zenon
    <3> QED BY <2>2, <3>2, <3>4, <3>5, <3>6, <3>9, Zenon
  <2>8. ValidRoot(Mask(s, o).root) BY <2>2, <2>3, <2>4, Zenon DEF ValidRoot
  <2> QED BY <2>2, <2>5, <2>6, <2>7, <2>8, Zenon DEF Valid, ValidRelations, v
<1> SUFFICES ASSUME NEW s \in Sources \cup Targets, NEW o
             PROVE  /\ s \in Snapshot /\ Valid(Mask(s, o)) /\ Mask(s, o) \in Snapshot
                    /\ Mask(s, o).entries \in Seq(Entry) /\ ValidSnapshot(Mask(s, o).entries)
                    /\ \A i \in 1..Len(Mask(s, o).entries) : Sound(Mask(s, o).entries[i])
  BY Zenon
<1>1. s \in Snapshot /\ Valid(s) BY TreePatchAssumption, CreatedFromAssumption, Zenon
<1>2. Valid(Mask(s, o)) /\ Mask(s, o) \in Snapshot BY <1>1, <1>MaskValid, MaskType, Zenon
<1>3. Mask(s, o).entries \in Seq(Entry) BY <1>2, Zenon DEF Snapshot
<1>4. ValidSnapshot(Mask(s, o).entries) /\ ValidRelations(Mask(s, o).entries) BY <1>2, Zenon DEF Valid
<1>5. \A i \in 1..Len(Mask(s, o).entries) : Sound(Mask(s, o).entries[i])
  BY <1>4, Zenon DEF ValidSnapshot, EntryIsValid, ValidRelations, LinkHolds, Sound
<1> QED BY <1>1, <1>2, <1>3, <1>4, <1>5, Zenon

\* What was written is read.
LEMMA CreatedOpens ==
  \A s \in Sources : \A t \in Targets : \A o \in SUBSET Families : \A p :
      /\ p = CreatePatch(s, t, o)
      /\ IsWritten(p)
    => PrefixError(p) = "" /\ BodyError(p) = ""
<1>NumbersOf. ASSUME NEW s \in Seq(Nat) PROVE \A n \in 1..Len(s) : s[n] \in Nat
BY <1>NumbersOf
<1>TotalAtLeast.
    ASSUME NEW s \in Seq(Nat), NEW N \in Nat, N = Len(s), NEW w \in [Nat -> Nat], Slower(w, s, N)
    PROVE  w[N] <= Total(s)
  <2> USE <1>TotalAtLeast
  <2>1. \A n \in 1..N : s[n] \in Nat BY <1>NumbersOf, Zenon
  <2>2. s \in Seq(Int) OBVIOUS
  <2>3. /\ Sums(s) \in [0..N -> Nat] /\ Sums(s)[0] = 0
        /\ \A n \in 1..N : Sums(s)[n] = Sums(s)[n - 1] + s[n]
    BY <2>2, SumsDef, SumsOfNat, Zenon
  <2> DEFINE T == {n \in Nat : n <= N /\ ~(w[n] <= Sums(s)[n])}
  <2>4. T = {}
    <3> SUFFICES ASSUME T # {} PROVE FALSE
      BY Zenon
    <3>1. PICK n \in T : \A k \in T : n <= k
      BY LeastOf, Zenon
    <3>2. n # 0 BY <2>3 DEF Slower
    <3>3. n \in 1..N /\ n - 1 \in 0..N /\ n - 1 \in Nat /\ ~(w[n] <= Sums(s)[n]) BY <3>1, <3>2
    <3>4. n - 1 \notin T
      <4>1. ~(n <= n - 1) BY <3>3
      <4> QED BY <3>1, <4>1, Zenon
    <3>5. w[n - 1] <= Sums(s)[n - 1] BY <3>3, <3>4
    <3>6. Sums(s)[n] = Sums(s)[n - 1] + s[n] /\ s[n] \in Nat BY <2>1, <2>3, <3>3, Zenon
    <3>7. w[n] <= w[n - 1] + s[n] BY <3>3, Zenon DEF Slower
    <3>8. w[n] \in Nat /\ w[n - 1] \in Nat /\ Sums(s)[n - 1] \in Nat BY <2>3, <3>3, Zenon
    <3>9. PICK a \in Nat, b \in Nat, c \in Nat, d \in Nat : a = w[n - 1] /\ b = Sums(s)[n - 1] /\ c = s[n] /\ d = w[n]
      BY <3>6, <3>8, Zenon
    <3>10. a <= b /\ d <= a + c /\ ~(d <= b + c) BY <3>3, <3>5, <3>6, <3>7, <3>9, Zenon
    <3> QED BY <3>10
  <2>5. w[N] <= Sums(s)[N]
    <3>1. N \notin T BY <2>4, Zenon
    <3> QED BY <3>1
  <2> QED BY <2>5, Zenon DEF Total
\* The body holds the smallest records.
<1>BodyHolds. ASSUME NEW p \in Written, ~p.cut,
                     \A i \in 1..Len(p.rules) : p.rules[i].pattern >= 1,
                     \A i \in 1..Len(p.entries) : p.entries[i].path # 0
              PROVE  9 * Len(p.rules) + 41 * Len(p.entries) <= BodyBytes(p)
  <2> USE <1>BodyHolds
  <2>1. PICK r \in Nat : r = Len(p.rules) BY DEF Written
  <2>2. PICK n \in Nat : n = Len(p.entries) BY SMTT(30) DEF Written
  <2>3. /\ RuleSizes(p) \in Seq(Nat) /\ Len(RuleSizes(p)) = r
        /\ EntrySizes(p) \in Seq(Nat) /\ Len(EntrySizes(p)) = n
        /\ \A i \in 1..r : RuleSizes(p)[i] = 8 + p.rules[i].pattern
        /\ \A i \in 1..n : EntrySizes(p)[i] >= 41
    BY <2>1, <2>2, RecordSizes, Zenon DEF MinEntry
  <2>4. 9 * r <= Total(RuleSizes(p))
    <3> DEFINE w == [k \in Nat |-> 9 * k]
               s == RuleSizes(p)
    <3>1. w \in [Nat -> Nat] /\ w[0] = 0 /\ \A k \in Nat : w[k] = 9 * k OBVIOUS
    <3>2. \A k \in 1..r : s[k] \in Nat /\ s[k] >= 9
      <4>1. \A k \in 1..r : p.rules[k] \in Rule /\ p.rules[k].pattern >= 1 BY <2>1 DEF Written
      <4>2. \A k \in 1..r : p.rules[k].pattern \in Nat BY <4>1, Zenon DEF Rule
      <4>3. ASSUME NEW k \in 1..r PROVE s[k] \in Nat /\ s[k] >= 9
        <5>1. PICK x \in Nat : x = p.rules[k].pattern /\ x >= 1 BY <4>1, <4>2, Zenon
        <5>2. s[k] = 8 + x BY <2>3, <5>1, Zenon
        <5> QED BY <5>1, <5>2
      <4> QED BY <4>3, Zenon
    <3> HIDE DEF w, s
    <3>3. ASSUME NEW k \in 1..r PROVE w[k] <= w[k - 1] + s[k]
      <4>1. k \in Nat /\ k - 1 \in Nat OBVIOUS
      <4>2. w[k] = 9 * k /\ w[k - 1] = 9 * (k - 1) BY <3>1, <4>1, Zenon
      <4>3. PICK x \in Nat : x = s[k] /\ x >= 9 BY <3>2, Zenon
      <4> QED BY <4>2, <4>3
    <3>4. Slower(w, s, r) BY <3>1, <3>3, Zenon DEF Slower
    <3>5. w[r] <= Total(s) BY <2>3, <3>1, <3>4, <1>TotalAtLeast, Zenon DEF s
    <3> QED BY <3>1, <3>5, Zenon DEF s
  <2>5. 41 * n <= Total(EntrySizes(p))
    <3> DEFINE w == [k \in Nat |-> 41 * k]
               s == EntrySizes(p)
    <3>1. w \in [Nat -> Nat] /\ w[0] = 0 /\ \A k \in Nat : w[k] = 41 * k BY SMTT(30)
    <3>2. \A k \in 1..n : s[k] \in Nat /\ s[k] >= 41 BY <2>3
    <3> HIDE DEF w, s
    <3>3. ASSUME NEW k \in 1..n PROVE w[k] <= w[k - 1] + s[k]
      <4>1. k \in Nat /\ k - 1 \in Nat OBVIOUS
      <4>2. w[k] = 41 * k /\ w[k - 1] = 41 * (k - 1) BY <3>1, <4>1, Zenon
      <4>3. PICK x \in Nat : x = s[k] /\ x >= 41 BY <3>2, Zenon
      <4> QED BY <4>2, <4>3
    <3>4. Slower(w, s, n) BY <3>1, <3>3, Zenon DEF Slower
    <3>5. w[n] <= Total(s) BY <2>3, <3>1, <3>4, <1>TotalAtLeast, ZenonT(30) DEF s
    <3> QED BY <3>1, <3>5, Zenon DEF s
  <2>6. /\ BodyBytes(p) \in Int /\ BodyBytes(p) >= Total(RuleSizes(p)) + Total(EntrySizes(p))
        /\ Total(RuleSizes(p)) \in Nat /\ Total(EntrySizes(p)) \in Nat
    BY <2>3, BodyBytesIs, TotalOfNat, Zenon
  <2>7. PICK a \in Nat : a = 9 * r OBVIOUS
  <2>8. PICK c \in Nat : c = 41 * n BY SMTT(30)
  <2>9. a + c <= BodyBytes(p) BY <2>4, <2>5, <2>6, <2>7, <2>8
  <2> QED BY <2>1, <2>2, <2>7, <2>8, <2>9, Zenon
<1>CountsPossible.
    ASSUME NEW B \in Int, NEW r \in Nat, NEW n \in Nat, 9 * r + 41 * n <= B
    PROVE  ~(r > B \div 9) /\ ~(n > (B - r * 9) \div 41)
  <2> USE <1>CountsPossible
  <2>1. PICK D \in Int : D = B - r * 9 /\ B = D + 9 * r /\ 9 * r \in Nat BY Multiples, Zenon
  <2>2. PICK a \in Nat : a = 9 * r BY <2>1, Zenon
  <2>3. PICK c \in Nat : c = 41 * n BY Multiples, Zenon
  <2>4. a + c <= B /\ B = D + a BY <2>1, <2>2, <2>3, Zenon
  <2>5. a <= B /\ c <= D BY <2>4
  <2>6. ~(r > B \div 9) BY <2>2, <2>5, Divides, Zenon
  <2>7. ~(n > D \div 41) BY <2>3, <2>5, Divides, Zenon
  <2> QED BY <2>1, <2>6, <2>7, Zenon
<1>MaskedOmits. ASSUME NEW m \in Meta, NEW o PROVE ~HasOmitted(Masked(m, o), o)
  <2> USE <1>MaskedOmits
  <2>1. /\ Masked(m, o).attr = (m.attr /\ "attr" \notin o) /\ Masked(m, o).hole = (m.hole /\ "sparse" \notin o)
        /\ Masked(m, o).link = IF "hardlink" \in o THEN 0 ELSE m.link
    BY Zenon DEF Masked
  <2> QED BY <2>1, ZenonT(30) DEF HasOmitted
<1> SUFFICES ASSUME NEW s \in Sources, NEW t \in Targets, NEW o \in SUBSET Families, NEW p,
                    p = CreatePatch(s, t, o), IsWritten(p)
             PROVE  PrefixError(p) = "" /\ BodyError(p) = ""
  BY Zenon
<1> DEFINE T == Mask(t, o).entries
           F == Mask(s, o).entries
<1>0. s \in Snapshot /\ t \in Snapshot BY TreeIs, Zenon
<1>1. p \in Written BY <1>0, CreatePatchType, Zenon
<1>2. /\ p.seal = "good" /\ p.version = 2 /\ p.needed = 2 /\ ~p.unknown
      /\ p.ruleCount = Len(Rules) /\ p.entryCount = Len(T) /\ p.rules = Rules
      /\ p.omit = o /\ p.root = Mask(t, o).root
      /\ (p.rooted <=> Mask(t, o).root # NoMeta)
      /\ p.entries = [i \in 1..Len(T) |-> EncodeEntry(T[i], F)]
      /\ p.extra = 0 /\ ~p.cut
  <2>1. Holds(p, s, t, o) BY CreatedIs, Zenon
  <2> QED BY <2>1, Zenon DEF Holds
<1>3. /\ T \in Seq(Entry) /\ F \in Seq(Entry) /\ Valid(Mask(t, o)) /\ ValidSnapshot(T)
      /\ \A i \in 1..Len(T) : Sound(T[i])
  BY TreeIs, Zenon
<1>4. \A i \in 1..Len(t.entries) : T[i].meta = Masked(t.entries[i].meta, o)
  BY <1>0, MaskIs, Zenon
<1>5. Len(T) = Len(t.entries) /\ Mask(t, o).root = Masked(t.root, o) BY <1>0, MaskIs, Zenon
<1> HIDE DEF T, F
<1>6. PICK n \in Nat : n = Len(T) /\ \A i \in 1..n : T[i] \in Entry BY <1>3, SMTT(30)
<1>7. PICK m \in Nat : m = Len(Rules) /\ \A i \in 1..m : Rules[i] \in Rule /\ Rules[i] \in Range(Rules)
  <2>1. Rules \in Seq(Rule) BY TreePatchAssumption, Zenon
  <2> QED BY <2>1 DEF Range
<1>8. Len(p.entries) = n /\ DOMAIN p.entries = 1..n BY <1>2, <1>6
<1>9. \A i \in 1..n : StandsFor(p.entries[i], T[i], F)
  <2>1. \A i \in 1..n : p.entries[i] = EncodeEntry(T[i], F) BY <1>2, <1>6, Zenon
  <2>2. \A i \in 1..n : StandsFor(EncodeEntry(T[i], F), T[i], F) BY <1>3, <1>6, EncodeEntryIs, Zenon
  <2> QED BY <2>1, <2>2, Zenon
<1>10. \A i \in 1..n : T[i].meta \in Meta /\ ~HasOmitted(T[i].meta, o)
  <2>1. \A i \in 1..n : t.entries[i] \in Entry BY <1>0, <1>5, <1>6, SMTT(30) DEF Snapshot
  <2>2. \A i \in 1..n : t.entries[i].meta \in Meta BY <2>1, Zenon DEF Entry
  <2>3. \A i \in 1..n : ~HasOmitted(Masked(t.entries[i].meta, o), o) BY <2>2, <1>MaskedOmits, Zenon
  <2>4. \A i \in 1..n : T[i].meta \in Meta BY <1>6, Zenon DEF Entry
  <2> QED BY <1>4, <1>5, <1>6, <2>3, <2>4, ZenonT(30)
<1>11. /\ Len(p.rules) <= Limits.rules /\ Len(p.entries) <= Limits.entries
       /\ \A r \in Range(p.rules) : r.pattern \in 1..Limits.pattern
       /\ \A e \in Range(p.entries) : e.op = "symlink" => PayloadBytes(e) <= Limits.symlink
       /\ HeaderLength + BodyBytes(p) <= Limits.patch
  BY Zenon DEF IsWritten
<1>12. Limits.pattern \in Nat /\ Limits.symlink \in Nat /\ Limits.rules \in Nat
       /\ Limits.entries \in Nat /\ Limits.patch \in Nat
  BY TreePatchAssumption, Zenon
<1>13. \A i \in 1..m : Rules[i].pattern \in 1..Limits.pattern BY <1>2, <1>7, <1>11, Zenon
<1>14. \A i \in 1..n : p.entries[i].path # 0
  <2>1. \A i \in 1..n : T[i].path # 0 BY <1>6, TreePatchAssumption, Zenon DEF Entry
  <2> QED BY <1>9, <2>1, ZenonT(30) DEF StandsFor
<1>15. PrefixError(p) = ""
  <2>1. \A i \in 1..m : Rules[i].pattern >= 1 BY <1>12, <1>13
  <2>2. 9 * Len(p.rules) + 41 * Len(p.entries) <= BodyBytes(p)
    BY <1>1, <1>2, <1>7, <1>8, <1>14, <2>1, <1>BodyHolds, Zenon
  <2>3. BodyBytes(p) \in Int BY <1>1, BodyBytesIs, Zenon
  <2>4. ~(m > BodyBytes(p) \div 9) /\ ~(n > (BodyBytes(p) - m * 9) \div 41)
    BY <1>2, <1>7, <1>8, <2>2, <2>3, <1>CountsPossible, Zenon
  <2>5. ~(p.ruleCount > BodyBytes(p) \div MinRule) /\ ~(p.entryCount > (BodyBytes(p) - p.ruleCount * MinRule) \div MinEntry)
    BY <1>2, <1>6, <1>7, <2>4, ZenonT(30) DEF MinRule, MinEntry
  <2>6. ~(HeaderLength + BodyBytes(p) > Limits.patch) BY <1>11, <1>12, <2>3 DEF HeaderLength
  <2>7. ~(p.ruleCount > Limits.rules \/ p.entryCount > Limits.entries)
    <3>1. p.ruleCount = m /\ p.entryCount = n /\ p.rules = Rules BY <1>2, <1>6, <1>7, Zenon
    <3>2. m <= Limits.rules /\ n <= Limits.entries BY <1>7, <1>8, <1>11, <3>1, Zenon
    <3>3. ~(m > Limits.rules) /\ ~(n > Limits.entries) BY <1>12, <3>2
    <3> QED BY <3>1, <3>3, Zenon
  <2>8. p.seal # "short" /\ p.seal # "magic" /\ p.seal # "bad" /\ ~(p.needed > 2)
    <3>1. p.seal = "good" /\ p.needed = 2 BY <1>2, Zenon
    <3> QED BY <3>1
  <2> QED BY <1>2, <2>5, <2>6, <2>7, <2>8, PrefixErrorIs, ZenonT(30)
<1>16. \A x : ~IsCut(p, x) BY <1>2, Zenon DEF IsCut
<1>17. ASSUME NEW i \in DOMAIN p.rules PROVE RuleError(p, i) = ""
  <2>1. i \in 1..m /\ p.rules[i] = Rules[i]
    <3>1. p.rules = Rules BY <1>2, Zenon
    <3>2. Rules \in Seq(Rule) BY TreePatchAssumption, Zenon
    <3>3. DOMAIN Rules = 1..Len(Rules) BY <3>2
    <3> QED BY <1>7, <3>1, <3>3, Zenon
  <2>2. Rules[i].action \in {1, 2} /\ Rules[i].reserved = 0 BY <1>7, <2>1, CreatedFromAssumption, ZenonT(30)
  <2>3. ~(Rules[i].pattern > Limits.pattern) /\ ~(Rules[i].pattern = 0) BY <1>12, <1>13, <2>1
  <2> QED BY <1>16, <2>1, <2>2, <2>3, RuleErrorIs, Zenon
<1>18. ASSUME NEW i \in 1..n PROVE EntryError(p, i) = ""
  <2> DEFINE r == p.entries[i]
             e == T[i]
  <2>1. StandsFor(r, e, F) /\ Sound(e) BY <1>3, <1>6, <1>9, Zenon
  <2>2. /\ r.op # "unknown" /\ (r.op \in {"directory", "copy"} => NoPayload(r))
        /\ (e.meta.link # 0 <=> r.op = "hardlink")
        /\ (e.meta.link # 0 => r.ref = e.meta.link /\ r.bytes = <<>>)
    BY <2>1, StandsClear, ZenonT(30)
  <2>3. r.reserved = 0 /\ r.meta = e.meta BY <2>1, Zenon DEF StandsFor
  <2>4. r.op = "symlink" => ~(PayloadBytes(r) > Limits.symlink)
    <3>1. r \in Range(p.entries) BY <1>8, Zenon DEF Range
    <3>2. r \in Record BY <1>1, <1>8 DEF Written
    <3>3. PayloadBytes(r) \in Nat BY <3>2, PayloadBytesType, Zenon
    <3> QED BY <1>11, <1>12, <3>1, <3>3, SMTT(30)
  <2>5. ~HasOmitted(r.meta, p.omit) BY <1>2, <1>10, <2>3, Zenon
  <2>6. (r.meta.link # 0) <=> (r.op = "hardlink") BY <2>2, <2>3, Zenon
  <2>7. ~(r.meta.link # 0 /\ (r.ref # r.meta.link \/ r.bytes # <<>>)) BY <2>2, <2>3, Zenon
  <2>8. ~(r.op = "unknown") /\ ~(r.reserved # 0) /\ ~(r.path = 0) /\ ~IsCut(p, Len(p.rules) + i)
    BY <1>14, <1>16, <2>2, <2>3, Zenon
  <2>9. ~(r.op \in {"directory", "copy"} /\ ~NoPayload(r)) BY <2>2, Zenon
  <2>10. ~(r.op = "symlink" /\ PayloadBytes(r) > Limits.symlink) BY <2>4, Zenon
  <2> QED BY <2>5, <2>6, <2>7, <2>8, <2>9, <2>10, EntryErrorIs, Zenon
<1>19. RootError(p) = ""
  <2>1. CASE ~p.rooted BY <2>1, Zenon DEF RootError
  <2>2. CASE p.rooted
    <3>1. t.root \in Meta BY <1>0, Zenon DEF Snapshot
    <3>2. ~HasOmitted(p.root, p.omit) BY <1>2, <1>5, <3>1, <1>MaskedOmits, Zenon
    <3>3. ~p.root.hole /\ p.root.link = 0 BY <1>2, <1>3, Zenon DEF Valid, ValidRoot
    <3>4. p.root # NoMeta BY <1>2, <2>2, Zenon
    <3> QED BY <1>16, <2>2, <3>2, <3>3, <3>4, RootErrorIs, Zenon
  <2> QED BY <2>1, <2>2, Zenon
<1>20. ValidSnapshot([i \in 1..Len(p.entries) |-> View(p.entries[i])])
  <2> DEFINE v == [i \in 1..n |-> View(p.entries[i])]
  <2>1. Len(v) = n /\ \A i \in 1..n : v[i] = View(p.entries[i]) OBVIOUS
  <2> HIDE DEF v
  <2>2. ASSUME NEW i \in 1..n
        PROVE  /\ v[i].path = T[i].path /\ v[i].kind = T[i].kind /\ v[i].mode = T[i].mode
               /\ (T[i].kind # "file" => v[i].data = T[i].data)
    <3>1. StandsFor(p.entries[i], T[i], F) /\ Sound(T[i]) BY <1>3, <1>6, <1>9, ZenonT(30)
    <3>2. v[i] = View(p.entries[i]) BY <2>1, Zenon
    <3>3. /\ View(p.entries[i]).path = T[i].path /\ View(p.entries[i]).kind = T[i].kind
          /\ View(p.entries[i]).mode = T[i].mode /\ (T[i].kind # "file" => View(p.entries[i]).data = T[i].data)
      BY <3>1, StandsClear, Zenon
    <3> QED BY <3>2, <3>3, Zenon
  <2>3. Alike(v, T) BY <1>6, <2>1, <2>2, Zenon DEF Alike
  <2>4. ValidSnapshot(v) BY <1>3, <1>6, <2>3, AlikeValid, Zenon
  <2> QED BY <1>8, <2>4, ZenonT(30) DEF v
<1>21. \A r \in Range(p.rules) : r.compiles BY <1>2, CreatedFromAssumption, ZenonT(30)
<1>22. ~(p.extra > 0) BY <1>2
<1>23. /\ p.ruleCount = Len(p.rules) /\ p.entryCount = Len(p.entries)
       /\ \A i \in 1..Len(p.entries) : EntryError(p, i) = ""
  BY <1>2, <1>6, <1>8, <1>18, Zenon
<1>24. BodyError(p) = "" BY <1>1, <1>17, <1>19, <1>20, <1>21, <1>22, <1>23, BodyErrorIs, Zenon
<1> QED BY <1>15, <1>24, Zenon

-----------------------------------------------------------------------------
(* Expanding what createPatch wrote.                                       *)

Tree(T) == T \in Seq(Entry) /\ ValidSnapshot(T) /\ ValidRelations(T)

\* b is what comes before entry k of T.
Before(b, T, k) == k \in 1..Len(T) /\ DOMAIN b = 1..(k - 1) /\ \A j \in 1..(k - 1) : b[j] = T[j]

\* F are the files of source g, in the families that are kept.
Keeps(g, o, F) == g \in Snapshot /\ Mask(g, o).entries = F /\ F \in Seq(Entry) /\ ValidSnapshot(F)

\* r is the record of entry k of T, whose turn it is.
Comes(r, T, k, b, g, o, F) ==
    Tree(T) /\ Before(b, T, k) /\ Keeps(g, o, F) /\ StandsFor(r, T[k], F) /\ Sound(T[k])

Gives(r, e, g, b) == ContentsIn(g, b, r) = Ok(e.data) /\ BuiltFrom(r, e.data) = e

\* After the entries before it, a record gives the entry that it stands for.
LEMMA GivesEntry == \A T, k, b, g, o, F, r : Comes(r, T, k, b, g, o, F) => Gives(r, T[k], g, b)
\* A path names one entry.
<1>PathsDiffer.
    ASSUME NEW t \in Seq(Entry), ValidSnapshot(t), NEW j \in 1..Len(t), NEW k \in 1..Len(t), t[j].path = t[k].path
    PROVE  j = k
  <2> USE <1>PathsDiffer
  <2>1. PICK N \in Nat : N = Len(t) /\ \A i \in 1..N : t[i] \in Entry OBVIOUS
  <2>2. \A i \in 1..N : t[i].path \in Nat BY <2>1, TreePatchAssumption, Zenon DEF Entry
  <2>3. \A i \in 2..N : t[i - 1].path < t[i].path
    <3>1. \A i \in 1..N : i > 1 => t[i - 1].path < t[i].path
      BY <2>1, Zenon DEF ValidSnapshot, EntryIsValid
    <3> QED BY <3>1
  <2>4. ASSUME NEW i \in 1..N, NEW h \in 1..N, i < h PROVE t[i].path < t[h].path
    <3> DEFINE T == {x \in Nat : i < x /\ x <= N /\ ~(t[i].path < t[x].path)}
    <3>1. T = {}
      <4> SUFFICES ASSUME T # {} PROVE FALSE
        BY Zenon
      <4>1. PICK x \in T : \A y \in T : x <= y
        BY LeastOf, Zenon
      <4>2. x \in 2..N /\ x \in 1..N /\ x - 1 \in 1..N BY <4>1
      <4>3. x - 1 = i \/ t[i].path < t[x - 1].path BY <4>1, <4>2
      <4>4. t[x - 1].path < t[x].path BY <2>3, <4>2, Zenon
      <4>5. ~(t[i].path < t[x].path) BY <4>1, Zenon
      <4>6. t[i].path \in Nat /\ t[x].path \in Nat /\ t[x - 1].path \in Nat BY <2>2, <4>2, Zenon
      <4> HIDE DEF T
      <4>7. CASE x - 1 = i BY <4>4, <4>5, <4>7, Zenon
      <4>8. CASE t[i].path < t[x - 1].path BY <4>4, <4>5, <4>6, <4>8, SMTT(30)
      <4> QED BY <4>3, <4>7, <4>8, Zenon
    <3> QED BY <2>4, <3>1
  <2> QED BY <2>1, <2>2, <2>4
\* The file that was found in the masked source is in the source that is given.
<1>SourceHas. ASSUME NEW g, NEW o, NEW F, Keeps(g, o, F), NEW r, NEW x \in Find(F, r.path), x.kind = "file"
              PROVE  SourceIn(g, r) = Ok(x.data)
  <2> USE <1>SourceHas
  <2>0. g \in Snapshot /\ Mask(g, o).entries = F /\ F \in Seq(Entry) /\ ValidSnapshot(F) BY Zenon DEF Keeps
  <2>1. PICK n \in Nat : n = Len(F) /\ DOMAIN F = 1..n BY <2>0
  <2>2. /\ Len(F) = Len(g.entries) /\ DOMAIN g.entries = 1..n
        /\ \A i \in 1..n : /\ F[i].path = g.entries[i].path /\ F[i].kind = g.entries[i].kind
                           /\ F[i].data = g.entries[i].data
    <3>1. Len(F) = Len(g.entries) BY <2>0, MaskIs, ZenonT(30)
    <3>2. DOMAIN g.entries = 1..n BY <2>0, <2>1, <3>1 DEF Snapshot
    <3>3. \A i \in 1..Len(g.entries) : /\ F[i].path = g.entries[i].path /\ F[i].kind = g.entries[i].kind
                                       /\ F[i].data = g.entries[i].data
      BY <2>0, MaskIs, ZenonT(30)
    <3> QED BY <2>1, <3>1, <3>2, <3>3, Zenon
  <2>3. PICK h \in 1..n : x = F[h] /\ x.path = r.path BY <2>1, Zenon DEF Find, Range
  <2> DEFINE old == Find(g.entries, r.path)
  <2>4. g.entries[h] \in old BY <2>2, <2>3, Zenon DEF Find, Range
  <2>5. The(old) \in old BY <2>4, TheMember, Zenon
  <2>6. PICK q \in 1..n : The(old) = g.entries[q] /\ g.entries[q].path = r.path BY <2>2, <2>5, ZenonT(30) DEF Find, Range
  <2>7. F[q].path = F[h].path BY <2>2, <2>3, <2>6, Zenon
  <2>8. q = h BY <2>0, <2>1, <2>7, <1>PathsDiffer, Zenon
  <2>9. old # {} /\ The(old).kind = "file" /\ The(old).data = x.data BY <2>2, <2>3, <2>4, <2>6, <2>8, Zenon
  <2> QED BY <2>9, Zenon DEF SourceIn
\* The file that a link names was built before it.
<1>LinkHas. ASSUME NEW T \in Seq(Entry), ValidSnapshot(T), ValidRelations(T), NEW k \in 1..Len(T), T[k].meta.link # 0,
                   NEW b, DOMAIN b = 1..(k - 1), \A j \in 1..(k - 1) : b[j] = T[j],
                   NEW r, r.ref = T[k].meta.link
            PROVE  LinkedIn(b, r) = Ok(T[k].data)
  <2> USE <1>LinkHas
  <2>1. PICK n \in Nat : n = Len(T) /\ \A i \in 1..n : T[i] \in Entry OBVIOUS
  <2>2. LinkHolds(T, k) BY Zenon DEF ValidRelations
  <2>3. PICK j \in 1..(k - 1) :
           /\ T[j].path = T[k].meta.link /\ T[j].kind = "file"
           /\ T[j].meta = [T[k].meta EXCEPT !.link = 0]
           /\ T[j].mode = T[k].mode /\ T[j].data = T[k].data
    BY <2>2, Zenon DEF LinkHolds
  <2>4. T[j].meta.link = 0
    <3>1. T[k].meta \in Meta BY <2>1, Zenon DEF Entry
    <3>2. [T[k].meta EXCEPT !.link = 0].link = 0 BY <3>1, Zenon DEF Meta
    <3> QED BY <2>3, <3>2, Zenon
  <2> DEFINE c == Find(b, r.ref)
  <2>5. b[j] \in c BY <2>3, Zenon DEF Find, Range
  <2>6. The(c) \in c BY <2>5, TheMember, Zenon
  <2>7. PICK q \in 1..(k - 1) : The(c) = b[q] /\ b[q].path = r.ref BY <2>6, Zenon DEF Find, Range
  <2>8. T[q].path = T[j].path /\ The(c) = T[q] BY <2>3, <2>7, Zenon
  <2>9. q \in 1..Len(T) /\ j \in 1..Len(T) BY <2>1, SMTT(30)
  <2>10. q = j BY <2>8, <2>9, <1>PathsDiffer, Zenon
  <2>11. c # {} /\ The(c).kind = "file" /\ The(c).meta.link = 0 /\ The(c).data = T[k].data
    BY <2>3, <2>4, <2>5, <2>8, <2>10, Zenon
  <2> QED BY <2>11, ZenonT(30) DEF LinkedIn
<1> SUFFICES ASSUME NEW T, Tree(T), NEW k, NEW b, Before(b, T, k), NEW g, NEW o, NEW F, Keeps(g, o, F),
                    NEW r, StandsFor(r, T[k], F), Sound(T[k])
             PROVE  ContentsIn(g, b, r) = Ok(T[k].data) /\ BuiltFrom(r, T[k].data) = T[k]
  BY Zenon DEF Comes, Gives
<1>0. /\ T \in Seq(Entry) /\ ValidSnapshot(T) /\ ValidRelations(T) /\ k \in 1..Len(T)
      /\ DOMAIN b = 1..(k - 1) /\ (\A j \in 1..(k - 1) : b[j] = T[j])
      /\ g \in Snapshot /\ Mask(g, o).entries = F /\ F \in Seq(Entry) /\ ValidSnapshot(F)
  BY Zenon DEF Tree, Before, Keeps
<1> DEFINE e == T[k]
<1>1. e \in Entry
  <2>1. T \in Seq(Entry) /\ k \in 1..Len(T) BY <1>0, Zenon
  <2> QED BY <2>1
<1>2. r.path = e.path /\ r.mode = e.mode /\ r.meta = e.meta BY Zenon DEF StandsFor
<1>3. KindOf(r.op) = e.kind BY StandsClear, Zenon
<1>4. BuiltFrom(r, e.data) = e BY <1>1, <1>2, <1>3, Zenon DEF BuiltFrom, Entry
<1>5. CASE r.op = "directory" /\ e.kind = "dir"
  <2>1. ContentsIn(g, b, r) = Ok(<<>>) BY <1>5, Zenon DEF ContentsIn
  <2>2. e.data = <<>> BY <1>5, Zenon DEF Sound
  <2> QED BY <1>4, <2>1, <2>2, Zenon
<1>6. CASE r.op \in {"symlink", "raw"} /\ r.delta = {} /\ r.ref = 0 /\ r.bytes = e.data
  <2>1. ContentsIn(g, b, r) = Ok(Payload(r)) BY <1>6, Zenon DEF ContentsIn
  <2>2. Payload(r) = e.data BY <1>6, Zenon DEF Payload
  <2> QED BY <1>4, <2>1, <2>2, Zenon
<1>7. CASE r.op = "hardlink" /\ e.meta.link # 0 /\ r.ref = e.meta.link
  <2>1. ContentsIn(g, b, r) = LinkedIn(b, r) BY <1>7, Zenon DEF ContentsIn
  <2>2. LinkedIn(b, r) = Ok(e.data) BY <1>0, <1>7, <1>LinkHas, ZenonT(30)
  <2> QED BY <1>4, <2>1, <2>2, Zenon
<1>8. CASE r.op = "copy" /\ \E x \in Find(F, e.path) : x.kind = "file" /\ x.data = e.data
  <2>1. ContentsIn(g, b, r) = SourceIn(g, r) BY <1>8, Zenon DEF ContentsIn
  <2>2. PICK x \in Find(F, r.path) : x.kind = "file" /\ x.data = e.data BY <1>2, <1>8, Zenon
  <2>3. SourceIn(g, r) = Ok(x.data) BY <2>2, <1>SourceHas, Zenon
  <2> QED BY <1>4, <2>1, <2>2, <2>3, Zenon
<1>9. CASE /\ r.op = "delta"
           /\ \E x \in Find(F, e.path) :
                 x.kind = "file" /\ r.delta = {[from |-> x.data, to |-> e.data, sound |-> TRUE]}
  <2>1. PICK x \in Find(F, r.path) :
           x.kind = "file" /\ r.delta = {[from |-> x.data, to |-> e.data, sound |-> TRUE]}
    BY <1>2, <1>9, Zenon
  <2>2. SourceIn(g, r) = Ok(x.data) BY <2>1, <1>SourceHas, Zenon
  <2>3. x.data \in Seq(Nat)
    <3>1. Find(F, r.path) \subseteq Entry BY <1>0, FoundType, Zenon
    <3>2. x \in Entry BY <3>1, Zenon
    <3> QED BY <3>2, Zenon DEF Entry
  <2>4. SourceIn(g, r).error = "none" /\ SourceIn(g, r).data = x.data BY <2>2, <2>3, OkType, Zenon
  <2>5. ContentsIn(g, b, r) = FilePatchResult(x.data, r) BY <1>9, <2>4, Zenon DEF ContentsIn
  <2> DEFINE d == [from |-> x.data, to |-> e.data, sound |-> TRUE]
  <2>6. d.from = x.data /\ d.to = e.data /\ d.sound BY Zenon
  <2> HIDE DEF d
  <2>7. The(r.delta) = d /\ r.delta # {} BY <2>1, TheOne, Zenon DEF d
  <2>8. FilePatchResult(x.data, r) = Ok(e.data) BY <2>6, <2>7, Zenon DEF FilePatchResult
  <2> QED BY <1>4, <2>5, <2>8, Zenon
<1> QED BY <1>5, <1>6, <1>7, <1>8, <1>9, Zenon DEF StandsFor

\* b begins T.
Begins(b, T) == Len(b) <= Len(T) /\ \A k \in 1..Len(b) : b[k] = T[k]

\* p was made for a target that is T in the families that are kept, from a source
\* that is g in these.
MadeFor(p, o, g, T) ==
    \E s \in Sources, t \in Targets :
        /\ o \in SUBSET Families /\ p = CreatePatch(s, t, o) /\ g \in Snapshot /\ Mask(g, o) = Mask(s, o)
        /\ T = Mask(t, o).entries

\* The next entry of T is built after b, unless there is no room for it.
NextIs(p, g, m, b, T) ==
    /\ StepAt(p, g, m, b) = LimitedTo(Ok(T[Len(b) + 1].data), m - OutputSize(b))
    /\ BuiltFrom(p.entries[Len(b) + 1], T[Len(b) + 1].data) = T[Len(b) + 1]

\* The step after a beginning of the target.
LEMMA CreatedStep ==
  ASSUME NEW p, NEW o, NEW g, NEW T, MadeFor(p, o, g, T), NEW m, NEW b \in Seq(Built), Begins(b, T), Len(b) < Len(T)
  PROVE  NextIs(p, g, m, b, T)
<1>0. PICK s \in Sources, t \in Targets :
         /\ o \in SUBSET Families /\ p = CreatePatch(s, t, o) /\ g \in Snapshot /\ Mask(g, o) = Mask(s, o)
         /\ T = Mask(t, o).entries
  BY Zenon DEF MadeFor
<1> DEFINE F == Mask(s, o).entries
<1>1. /\ T \in Seq(Entry) /\ ValidSnapshot(T) /\ Valid(Mask(t, o)) /\ \A i \in 1..Len(T) : Sound(T[i])
  BY <1>0, TreeIs, Zenon
<1>2. F \in Seq(Entry) /\ ValidSnapshot(F) BY TreeIs, Zenon
<1>3. ValidRelations(T) BY <1>0, <1>1, Zenon DEF Valid
<1>4. p.entries = [i \in 1..Len(T) |-> EncodeEntry(T[i], F)]
  <2>1. Holds(p, s, t, o) BY <1>0, CreatedIs, Zenon
  <2> QED BY <1>0, <2>1, Zenon DEF Holds
<1>5. Keeps(g, o, F) BY <1>0, <1>2, Zenon DEF Keeps
<1> HIDE DEF F
<1>6. PICK k \in Nat : k = Len(b) + 1 /\ k \in 1..Len(T) /\ k - 1 = Len(b) /\ DOMAIN b = 1..(k - 1) BY <1>1
<1>7. \A j \in 1..(k - 1) : b[j] = T[j] BY <1>6, Zenon DEF Begins
<1>8. T[k] \in Entry /\ Sound(T[k]) BY <1>1, <1>6, SMTT(30)
<1>9. p.entries[k] = EncodeEntry(T[k], F) BY <1>4, <1>6, Zenon
<1>10. StandsFor(p.entries[k], T[k], F) BY <1>8, <1>9, EncodeEntryIs, Zenon
<1>11. ContentsIn(g, b, p.entries[k]) = Ok(T[k].data) /\ BuiltFrom(p.entries[k], T[k].data) = T[k]
  <2>1. Tree(T) BY <1>1, <1>3, Zenon DEF Tree
  <2>2. Before(b, T, k) BY <1>6, <1>7, Zenon DEF Before
  <2>3. Sound(T[k]) BY <1>8, Zenon
  <2>4. Comes(p.entries[k], T, k, b, g, o, F) BY <1>5, <1>10, <2>1, <2>2, <2>3, Zenon DEF Comes
  <2>5. Gives(p.entries[k], T[k], g, b) BY <2>4, GivesEntry, Zenon
  <2> QED BY <2>5, Zenon DEF Gives
<1> QED BY <1>6, <1>11, Zenon DEF StepAt, NextIs

LEMMA EntriesAreBuilt == Seq(Entry) \subseteq Seq(Built)
<1>1. Entry \subseteq Built BY Zenon DEF Entry, Built, Kinds
<1>2. ASSUME NEW x \in Seq(Entry) PROVE x \in Seq(Built) BY <1>1
<1> QED BY <1>2, Zenon

\* The sizes along the way to the target.
LEMMA SizesOnTheWay ==
  \A T \in Seq(Entry) : \A b \in Seq(Built) : Begins(b, T) =>
        /\ OutputSize(b) \in Nat /\ OutputSize(T) \in Nat /\ OutputSize(b) <= OutputSize(T)
        /\ Len(b) < Len(T) => OutputSize(b) + Len(T[Len(b) + 1].data) <= OutputSize(T)
<1>SumsGrow. ASSUME NEW s \in Seq(Nat), NEW j \in Nat, NEW k \in Nat, j <= k, k <= Len(s)
             PROVE  Sums(s)[j] <= Sums(s)[k]
  <2> USE <1>SumsGrow
  <2>1. PICK N \in Nat : N = Len(s) /\ \A n \in 1..N : s[n] \in Nat OBVIOUS
  <2>2. s \in Seq(Int) OBVIOUS
  <2>3. /\ Sums(s) \in [0..N -> Nat]
        /\ \A n \in 1..N : Sums(s)[n] = Sums(s)[n - 1] + s[n]
    BY <2>1, <2>2, SumsDef, SumsOfNat, ZenonT(30)
  <2> DEFINE T == {n \in Nat : j <= n /\ n <= N /\ ~(Sums(s)[j] <= Sums(s)[n])}
  <2>4. T = {}
    <3> SUFFICES ASSUME T # {} PROVE FALSE
      BY Zenon
    <3>1. PICK n \in T : \A m \in T : n <= m
      BY LeastOf, Zenon
    <3>2. n # j BY <2>3
    <3>3. n \in 1..N /\ n - 1 \in 0..N /\ j \in 0..N /\ Sums(s)[j] <= Sums(s)[n - 1] BY <3>1, <3>2
    <3>4. Sums(s)[n] = Sums(s)[n - 1] + s[n] /\ s[n] \in Nat BY <2>1, <2>3, <3>3, Zenon
    <3> QED BY <2>3, <3>3, <3>4
  <2> QED BY <2>1, <2>4, Zenon
<1> SUFFICES ASSUME NEW T \in Seq(Entry), NEW b \in Seq(Built), Begins(b, T)
             PROVE  /\ OutputSize(b) \in Nat /\ OutputSize(T) \in Nat /\ OutputSize(b) <= OutputSize(T)
                    /\ Len(b) < Len(T) => OutputSize(b) + Len(T[Len(b) + 1].data) <= OutputSize(T)
  BY Zenon
<1>1. T \in Seq(Built) BY EntriesAreBuilt, Zenon
<1>2. PICK N \in Nat : N = Len(T) OBVIOUS
<1>3. PICK k \in Nat : k = Len(b) /\ k <= N BY <1>2 DEF Begins
<1>4. /\ Sizes(b) \in Seq(Nat) /\ Len(Sizes(b)) = k /\ \A i \in 1..k : Sizes(b)[i] = Len(b[i].data)
  BY <1>3, SizesType, Zenon
<1>5. /\ Sizes(T) \in Seq(Nat) /\ Len(Sizes(T)) = N /\ \A i \in 1..N : Sizes(T)[i] = Len(T[i].data)
  BY <1>1, <1>2, SizesType, Zenon
<1>6. Sizes(b) \in Seq(Int) /\ Sizes(T) \in Seq(Int) BY <1>4, <1>5
<1>7. \A i \in 1..k : Sizes(b)[i] = Sizes(T)[i]
  <2>1. \A i \in 1..k : i \in 1..N /\ b[i] = T[i] BY <1>3 DEF Begins
  <2> QED BY <1>4, <1>5, <2>1, Zenon
<1>8. k <= Len(Sizes(b)) /\ k <= Len(Sizes(T)) BY <1>3, <1>4, <1>5
<1>9. \A i \in 0..k : Sums(Sizes(b))[i] = Sums(Sizes(T))[i] BY <1>6, <1>7, <1>8, SumsAgree, Zenon
<1>10. /\ OutputSize(b) = Sums(Sizes(T))[k] /\ OutputSize(T) = Sums(Sizes(T))[N]
       /\ OutputSize(b) \in Nat /\ OutputSize(T) \in Nat
  <2>1. k \in 0..k OBVIOUS
  <2> QED BY <1>1, <1>2, <1>3, <1>9, <2>1, OutputSizeIs, Zenon
<1>11. Sums(Sizes(T))[k] <= Sums(Sizes(T))[N] BY <1>3, <1>5, <1>SumsGrow
<1>12. ASSUME k < N PROVE OutputSize(b) + Len(T[k + 1].data) <= OutputSize(T)
  <2>1. k + 1 \in 1..N /\ k + 1 \in Nat /\ k + 1 <= N /\ (k + 1) - 1 = k BY <1>12
  <2>2. Sums(Sizes(T))[k + 1] = Sums(Sizes(T))[k] + Sizes(T)[k + 1] BY <1>5, <1>6, <2>1, SumsDef, Zenon
  <2>3. Sums(Sizes(T))[k + 1] <= Sums(Sizes(T))[N] BY <1>5, <2>1, <1>SumsGrow
  <2>4. Sizes(T)[k + 1] = Len(T[k + 1].data) BY <1>5, <2>1, Zenon
  <2> QED BY <1>10, <2>2, <2>3, <2>4, Zenon
<1> QED BY <1>2, <1>3, <1>10, <1>11, <1>12, Zenon

\* Until another program changes it, the patch is the one that was asked for.
Made ==
    /\ source \in Sources /\ target \in Targets
    /\ patch # {} /\ ~edited =>
          The(patch) = CreatePatch(source, target, omit) /\ IsWritten(The(patch))

LEMMA MadeKept == ASSUME Made, [Next]_vars PROVE Made'
<1>1. CASE UNCHANGED request
  BY <1>1, Zenon DEF Made, request
<1>2. CASE Create
  <2> DEFINE p == CreatePatch(source, target, omit)
  <2>1. /\ patch = {} /\ UNCHANGED <<source, target, omit, edited>>
        /\ (IsWritten(p) /\ patch' = {p}) \/ patch' = patch
    BY <1>2, Zenon DEF Create
  <2> HIDE DEF p
  <2>2. CASE patch' = patch BY <2>1, <2>2, Zenon DEF Made
  <2>3. CASE IsWritten(p) /\ patch' = {p}
    <3>1. The(patch') = p BY <2>3, TheOne, Zenon
    <3>2. source' = source /\ target' = target /\ omit' = omit BY <2>1, Zenon
    <3> QED BY <2>3, <3>1, <3>2, Zenon DEF Made, p
  <2> QED BY <2>1, <2>2, <2>3, Zenon
<1>3. CASE Reseal
  <2>1. /\ patch # {} /\ ~edited /\ UNCHANGED <<source, target, omit>>
        /\ \E p \in Edits(The(patch)) : patch' = {p} /\ edited' = (p # The(patch))
    BY <1>3, Zenon DEF Reseal
  <2>2. PICK p : patch' = {p} /\ edited' = (p # The(patch)) BY <2>1, Zenon
  <2>3. The(patch') = p BY <2>2, TheOne, Zenon
  <2>4. source' = source /\ target' = target /\ omit' = omit BY <2>1, Zenon
  <2>5. ~edited' => The(patch') = The(patch) BY <2>2, <2>3, Zenon
  <2>6. The(patch) = CreatePatch(source, target, omit) /\ IsWritten(The(patch)) BY <2>1, Zenon DEF Made
  <2>7. ~edited' => The(patch') = CreatePatch(source', target', omit') /\ IsWritten(The(patch'))
    BY <2>4, <2>5, <2>6, Zenon
  <2> QED BY <2>4, <2>7, Zenon DEF Made
<1>4. ASSUME NEW i \in Impls, DecodePrefix(i) \/ DecodeBody(i) \/ Verify(i) \/ Expand(i) \/ Finish(i)
      PROVE  UNCHANGED request
  BY <1>4, Zenon DEF DecodePrefix, DecodeBody, Verify, Expand, Finish
<1>5. UNCHANGED vars => UNCHANGED request BY Zenon DEF vars, request
<1> QED BY <1>1, <1>2, <1>3, <1>4, <1>5, Zenon DEF Next, Terminated

\* What each implementation has built is a beginning of the target.
LEMMA BuildsTarget ==
  \A i \in Impls : \A T : TypeInv /\ Inv /\ patch # {} /\ MadeFor(The(patch), omit, given, T) =>
        Begins(out[i], T) /\ Len(The(patch).entries) = Len(T) /\ T \in Seq(Entry)
\* What is expanded from it is the target.
<1>CreatedTraces.
    ASSUME NEW p, NEW o, NEW g, NEW T, MadeFor(p, o, g, T), NEW m, NEW c \in Seq(Built), Len(c) <= Len(T), Traces(p, g, m, c)
    PROVE  Begins(c, T)
  <2> USE <1>CreatedTraces
  <2>1. PICK N \in Nat : N = Len(c) /\ DOMAIN c = 1..N OBVIOUS
  <2>2. T \in Seq(Entry) BY TreeIs, Zenon DEF MadeFor
  <2>3. PICK L \in Nat : L = Len(T) /\ \A k \in 1..L : T[k] \in Entry BY <2>2
  <2> DEFINE S == {k \in Nat : k \in 1..N /\ c[k] # T[k]}
  <2>4. S = {}
    <3> SUFFICES ASSUME S # {} PROVE FALSE
      BY Zenon
    <3>1. PICK k \in S : \A j \in S : k <= j
      BY LeastOf, ZenonT(30)
    <3>2. k \in 1..N /\ c[k] # T[k] /\ k - 1 \in Nat /\ k - 1 < L /\ k \in 1..L BY <2>1, <2>3, <3>1
    <3>3. \A j \in 1..(k - 1) : c[j] = T[j]
      <4>1. \A j \in 1..(k - 1) : j \in Nat /\ j \in 1..N /\ ~(k <= j) BY <3>2, SMTT(30)
      <4> QED BY <3>1, <4>1, ZenonT(30)
    <3> DEFINE b == SubSeq(c, 1, k - 1)
    <3>4. b \in Seq(Built) /\ Len(b) = k - 1 /\ \A j \in 1..(k - 1) : b[j] = c[j] BY <2>1, <3>2
    <3> HIDE DEF b, S
    <3>5. Begins(b, T)
      <4>1. k - 1 <= L BY <3>2, SMTT(30)
      <4> QED BY <2>3, <3>3, <3>4, <4>1, Zenon DEF Begins
    <3>6. Len(b) < Len(T) /\ Len(b) + 1 = k BY <2>3, <3>2, <3>4
    <3>7. /\ StepAt(p, g, m, b) = LimitedTo(Ok(T[Len(b) + 1].data), m - OutputSize(b))
          /\ BuiltFrom(p.entries[Len(b) + 1], T[Len(b) + 1].data) = T[Len(b) + 1]
      <4>1. b \in Seq(Built) BY <3>4, Zenon
      <4>2. Len(b) < Len(T) BY <3>6, Zenon
      <4>3. NextIs(p, g, m, b, T) BY <3>5, <4>1, <4>2, CreatedStep, Zenon
      <4> QED BY <4>3, Zenon DEF NextIs
    <3>8. /\ StepAt(p, g, m, b) = LimitedTo(Ok(T[k].data), m - OutputSize(b))
          /\ BuiltFrom(p.entries[k], T[k].data) = T[k]
      BY <3>6, <3>7, Zenon
    <3>9. StepAt(p, g, m, b).error = "none" /\ c[k] = BuiltFrom(p.entries[k], StepAt(p, g, m, b).data)
      BY <2>1, <3>2, ZenonT(30) DEF Traces, b
    <3>10. T[k].data \in Seq(Nat)
      <4>1. T[k] \in Entry BY <2>3, <3>2, Zenon
      <4> QED BY <4>1, Zenon DEF Entry
    <3>11. StepAt(p, g, m, b) = Ok(T[k].data)
      <4>1. "LimitExceeded" \in Faults /\ "LimitExceeded" # "none" BY Zenon DEF Faults
      <4>2. Bad("LimitExceeded").error # "none" BY <4>1, BadType, Zenon
      <4> QED BY <3>8, <3>9, <4>2, Zenon DEF LimitedTo
    <3>12. StepAt(p, g, m, b).data = T[k].data BY <3>10, <3>11, OkType, Zenon
    <3> QED BY <3>2, <3>8, <3>9, <3>12, ZenonT(30)
  <2>5. \A k \in 1..N : c[k] = T[k] BY <2>4
  <2> QED BY <2>1, <2>5, Zenon DEF Begins
<1> SUFFICES ASSUME TypeInv, Inv, NEW i \in Impls, patch # {}, NEW T, MadeFor(The(patch), omit, given, T)
             PROVE  Begins(out[i], T) /\ Len(The(patch).entries) = Len(T) /\ T \in Seq(Entry)
  BY Zenon
<1> DEFINE p == The(patch)
           c == out["zig"]
<1>1. "zig" \in Impls /\ "rust" \in Impls /\ (i = "zig" \/ i = "rust") BY Zenon DEF Impls
<1>2. Local("zig") /\ PortInv BY <1>1, InvParts, Zenon
<1>3. c \in Seq(Built) /\ out["rust"] \in Seq(Built) BY <1>1, Zenon DEF TypeInv
<1>4. Traces(p, given, maxOutput, c) /\ IsPrefix(out["rust"], c) BY <1>2, Zenon DEF PortInv
<1>5. T \in Seq(Entry) /\ Len(p.entries) = Len(T)
  <2>1. PICK s \in Sources, t \in Targets : p = CreatePatch(s, t, omit) /\ T = Mask(t, omit).entries BY Zenon DEF MadeFor
  <2>2. T \in Seq(Entry) BY <2>1, TreeIs, Zenon
  <2>3. p.entries = [k \in 1..Len(T) |-> EncodeEntry(T[k], Mask(s, omit).entries)]
    <3>1. Holds(p, s, t, omit) BY <2>1, CreatedIs, Zenon
    <3> QED BY <2>1, <3>1, Zenon DEF Holds
  <2> QED BY <2>2, <2>3
<1>6. Len(c) <= Len(T)
  <2>1. Len(T) \in Nat BY <1>5
  <2>2. CASE c = <<>> BY <2>1, <2>2, SMTT(30)
  <2>3. CASE c # <<>> BY <1>2, <1>5, <2>3, Zenon DEF Local, Amount, Copies
  <2> QED BY <2>2, <2>3, Zenon
<1> HIDE DEF p, c
<1>7. Begins(c, T) BY <1>3, <1>4, <1>6, <1>CreatedTraces, Zenon DEF p
<1>8. Begins(out["rust"], T)
  <2> DEFINE b == out["rust"]
  <2>1. PICK k \in Nat : k = Len(b) BY <1>3
  <2>2. PICK n \in Nat : n = Len(c) BY <1>3, SMTT(30)
  <2>3. k <= n /\ \A j \in 1..k : b[j] = c[j] BY <1>4, <2>1, <2>2, Zenon DEF IsPrefix
  <2>4. n <= Len(T) /\ \A j \in 1..n : c[j] = T[j] BY <1>7, <2>2, Zenon DEF Begins
  <2>5. Len(T) \in Nat BY <1>5
  <2>6. \A j \in 1..k : j \in 1..n BY <2>3
  <2> HIDE DEF b
  <2>7. \A j \in 1..k : b[j] = T[j] BY <2>3, <2>4, <2>6, Zenon
  <2>8. k <= Len(T) BY <2>3, <2>4, <2>5
  <2> QED BY <2>1, <2>7, <2>8, Zenon DEF Begins, b
<1> QED BY <1>1, <1>5, <1>7, <1>8, Zenon DEF p, c

LEMMA TargetSize ==
  ASSUME NEW t \in Snapshot, NEW o
  PROVE  OutputSize(t.entries) = OutputSize(Mask(t, o).entries)
<1> DEFINE T == Mask(t, o).entries
<1>1. PICK n \in Nat : n = Len(t.entries) /\ DOMAIN t.entries = 1..n BY DEF Snapshot
<1>2. T \in Seq(Entry) /\ Len(T) = n BY <1>1, MaskIs, Zenon
<1>3. DOMAIN T = 1..n BY <1>2
<1>4. \A k \in 1..n : T[k].data = t.entries[k].data BY <1>1, MaskIs, Zenon
<1> HIDE DEF T
<1>5. Sizes(T) = Sizes(t.entries) BY <1>1, <1>3, <1>4, Zenon DEF Sizes
<1> QED BY <1>5, Zenon DEF OutputSize, Sizes, T

LEMMA InvApplies == ASSUME TypeInv, Inv, Made PROVE CreatedApplies
<1> SUFFICES ASSUME NEW i \in Impls, pc[i] = "done", patch # {}, ~edited, Mask(given, omit) = Mask(source, omit)
             PROVE  IF OutputSize(target.entries) <= maxOutput
                    THEN error[i] = "none" /\ Result(i) = Mask(target, omit)
                    ELSE error[i] = "LimitExceeded"
  BY Zenon DEF CreatedApplies
<1> DEFINE p == The(patch)
           b == out[i]
           T == Mask(target, omit).entries
<1>1. source \in Sources /\ target \in Targets /\ p = CreatePatch(source, target, omit) /\ IsWritten(p)
  BY Zenon DEF Made
<1>2. /\ given \in Snapshot /\ target \in Snapshot /\ omit \in SUBSET Families /\ maxOutput \in Nat
      /\ b \in Seq(Built)
  BY Zenon DEF TypeInv, RequestInv
<1>3. p.omit = omit /\ p.source = Mask(source, omit) /\ p.target = Mask(target, omit) /\ p.root = Mask(target, omit).root
  <2>1. Holds(p, source, target, omit) BY <1>1, CreatedIs, Zenon
  <2> QED BY <2>1, Zenon DEF Holds
<1>4. Opens(p, given) BY <1>1, <1>2, <1>3, CreatedOpens, Zenon DEF Opens
<1>5. MadeFor(p, omit, given, T) BY <1>1, <1>2, Zenon DEF MadeFor
<1>6. Begins(b, T) /\ Len(p.entries) = Len(T) /\ T \in Seq(Entry) BY <1>5, BuildsTarget, Zenon
<1>7. Valid(Mask(target, omit)) /\ Mask(target, omit) \in Snapshot BY <1>1, TreeIs, Zenon
<1>8. OutputSize(target.entries) = OutputSize(T) BY <1>2, TargetSize, Zenon
<1>9. /\ OutputSize(b) \in Nat /\ OutputSize(T) \in Nat /\ OutputSize(b) <= OutputSize(T)
      /\ Len(b) < Len(T) => OutputSize(b) + Len(T[Len(b) + 1].data) <= OutputSize(T)
  BY <1>2, <1>6, SizesOnTheWay, Zenon
<1>10. Ended(i) /\ Amount(i) BY InvParts, Zenon DEF Local
<1>11. OutputSize(b) <= maxOutput BY <1>10, Zenon DEF Amount
<1>12. ~Refused(p, given, b, error[i]) BY <1>4, Zenon DEF Refused, Opens
<1> HIDE DEF p, b, T
<1>13. ASSUME Len(b) < Len(T), StepAt(p, given, maxOutput, b).error # "none"
       PROVE  StepAt(p, given, maxOutput, b).error = "LimitExceeded" /\ ~(OutputSize(T) <= maxOutput)
  <2> DEFINE d == T[Len(b) + 1].data
             room == maxOutput - OutputSize(b)
  <2>1. StepAt(p, given, maxOutput, b) = LimitedTo(Ok(d), room)
    <3>1. NextIs(p, given, maxOutput, b, T) BY <1>2, <1>5, <1>6, <1>13, CreatedStep, Zenon
    <3> QED BY <3>1, Zenon DEF NextIs
  <2>2. d \in Seq(Nat)
    <3>1. Len(b) + 1 \in 1..Len(T)
      <4>1. Len(b) \in Nat /\ Len(T) \in Nat BY <1>2, <1>6
      <4> QED BY <1>13, <4>1
    <3>2. T[Len(b) + 1] \in Entry BY <1>6, <3>1
    <3> QED BY <3>2, Zenon DEF Entry
  <2>3. OutputSize(b) + Len(d) <= OutputSize(T) BY <1>9, <1>13, Zenon
  <2> HIDE DEF d
  <2>4. Ok(d).error = "none" /\ Ok(d).data = d BY <2>2, OkType, Zenon
  <2>5. Len(d) > room /\ LimitedTo(Ok(d), room) = Bad("LimitExceeded") BY <1>13, <2>1, <2>4, Zenon DEF LimitedTo
  <2>6. "LimitExceeded" \in Faults BY Zenon DEF Faults
  <2>7. Bad("LimitExceeded").error = "LimitExceeded" BY <2>6, BadType, Zenon
  <2>8. Len(d) \in Nat BY <2>2
  <2> QED BY <1>2, <1>9, <2>1, <2>3, <2>5, <2>7, <2>8
<1>14. CASE /\ Len(b) < Len(p.entries) /\ StepAt(p, given, maxOutput, b).error # "none"
            /\ error[i] = StepAt(p, given, maxOutput, b).error
  BY <1>6, <1>8, <1>13, <1>14, Zenon
<1>15. CASE Len(b) < Len(p.entries) /\ StepAt(p, given, maxOutput, b).error = "File"
  <2>1. "File" # "none" /\ "File" # "LimitExceeded" BY Zenon
  <2> QED BY <1>6, <1>13, <1>15, <2>1, Zenon
<1>16. CASE Len(b) = Len(p.entries) /\ error[i] = Verdict(p, b)
  <2>1. b = T
    <3>1. T \in Seq(Built) BY <1>6, EntriesAreBuilt, Zenon
    <3>2. IsPrefix(b, T) BY <1>6, Zenon DEF Begins, IsPrefix
    <3> QED BY <1>2, <1>6, <1>16, <3>1, <3>2, PrefixIs, Zenon
  <2>2. [entries |-> b, root |-> p.root] = Mask(target, omit)
    BY <1>3, <1>7, <2>1, Zenon DEF Snapshot, T
  <2>3. Verdict(p, b) = "none" BY <1>3, <1>7, <2>2, Zenon DEF Verdict
  <2>4. Result(i) = Mask(target, omit) BY <2>2, Zenon DEF Result, p, b
  <2>5. OutputSize(target.entries) <= maxOutput BY <1>8, <1>11, <2>1, Zenon
  <2> QED BY <1>16, <2>3, <2>4, <2>5, ZenonT(30)
<1> QED BY <1>10, <1>12, <1>14, <1>15, <1>16, Zenon DEF Ended, Stopped, p, b

\* For every tree, omission mask, filter, source and limit: a patch that was written is
\* read, and applied to a source that equals its own in the families that it keeps
\* it gives the target in these, unless the output limit forbids it.
THEOREM CreatedAlwaysApplies == Spec => []CreatedApplies
<1>1. Init => Made BY Zenon DEF Init, Made
<1>2. Made /\ [Next]_vars => Made' BY MadeKept, Zenon
<1>3. TypeInv /\ Inv /\ Made => CreatedApplies BY InvApplies, Zenon
<1>4. Spec => []Made BY <1>1, <1>2, PTL DEF Spec
<1> QED BY <1>3, <1>4, Inductive, PTL

=============================================================================
