---------------------------- MODULE OrderLemmas ----------------------------
(***************************************************************************)
(* Finite sets of numbers in their order: what the services' models need   *)
(* to know of "the first that", "the next one" and "the n-th".             *)
(***************************************************************************)
EXTENDS Integers, FiniteSets, FiniteSetTheorems, WellFoundedInduction, TLAPS

(* Numbers have a smallest one.                                            *)
LEMMA Minimum ==
  ASSUME NEW S \in SUBSET Nat, S # {}
  PROVE  \E x \in S : \A y \in S : x <= y
<1>1. IsWellFoundedOn(OpToRel(<, Nat), Nat)
  BY NatLessThanWellFounded
<1>2. PICK x \in S : \A y \in S : ~ (<<y, x>> \in OpToRel(<, Nat))
  BY <1>1, WFMin
<1>3. \A y \in S : x \in Nat /\ y \in Nat /\ ~(y < x)
  BY <1>2 DEF OpToRel
<1>4. \A y \in S : x <= y
  BY <1>3
<1> QED BY <1>4

----------------------------------------------------------------------------
(* How many of S come before x.                                            *)
Below(S, x) == {y \in S : y < x}
Rank(S, x) == Cardinality(Below(S, x))

LEMMA RankInSet ==
  ASSUME NEW S \in SUBSET Nat, IsFiniteSet(S), NEW x \in S
  PROVE  /\ IsFiniteSet(Below(S, x)) /\ Rank(S, x) \in Nat
         /\ Cardinality(Below(S, x) \cup {x}) = Rank(S, x) + 1
         /\ Rank(S, x) < Cardinality(S)
<1>1. Below(S, x) \subseteq S /\ x \notin Below(S, x) /\ Below(S, x) \cup {x} \subseteq S
  BY DEF Below
<1>2. IsFiniteSet(Below(S, x)) /\ Rank(S, x) \in Nat
  BY <1>1, FS_Subset, FS_CardinalityType DEF Rank
<1>3. Cardinality(Below(S, x) \cup {x}) = Rank(S, x) + 1
  BY <1>1, <1>2, FS_AddElement DEF Rank
<1>4. Cardinality(Below(S, x) \cup {x}) <= Cardinality(S) /\ Cardinality(S) \in Nat
  BY <1>1, FS_Subset, FS_CardinalityType
<1> QED BY <1>2, <1>3, <1>4

LEMMA RankGrows ==
  ASSUME NEW S \in SUBSET Nat, IsFiniteSet(S), NEW x \in S, NEW y \in S, x < y
  PROVE  Rank(S, x) < Rank(S, y)
<1>0. \A z \in S : z < x => z < y
  <2>1. \A z \in S : z \in Nat
    OBVIOUS
  <2> QED BY <2>1
<1>1. Below(S, x) \cup {x} \subseteq Below(S, y)
  BY <1>0 DEF Below
<1>2. Cardinality(Below(S, x) \cup {x}) <= Rank(S, y)
  BY <1>1, RankInSet, FS_Subset DEF Rank
<1>3. Rank(S, x) \in Nat /\ Rank(S, y) \in Nat
      /\ Cardinality(Below(S, x) \cup {x}) = Rank(S, x) + 1
  BY RankInSet
<1> QED BY <1>2, <1>3

LEMMA RankUnique ==
  ASSUME NEW S \in SUBSET Nat, IsFiniteSet(S), NEW x \in S, NEW y \in S, Rank(S, x) = Rank(S, y)
  PROVE  x = y
<1>1. Rank(S, x) \in Nat /\ Rank(S, y) \in Nat
  BY RankInSet
<1>2. x \in Nat /\ y \in Nat
  OBVIOUS
<1> QED BY <1>1, <1>2, RankGrows

(* The next of S after x, if x is not the last.                            *)
LEMMA NextRank ==
  ASSUME NEW S \in SUBSET Nat, IsFiniteSet(S), NEW x \in S, Rank(S, x) + 1 < Cardinality(S)
  PROVE  \E z \in S : Rank(S, z) = Rank(S, x) + 1
<1> DEFINE U == {y \in S : x < y}
<1>1. U # {}
  <2>1. SUFFICES ASSUME U = {} PROVE FALSE
    OBVIOUS
  <2>2. \A y \in S : y \in Nat /\ (y < x \/ y = x)
    BY <2>1
  <2>3. S = Below(S, x) \cup {x}
    BY <2>2 DEF Below
  <2> QED BY <2>3, RankInSet
<1>2. PICK z \in U : \A y \in U : z <= y
  BY <1>1, Minimum
<1>3. Below(S, z) = Below(S, x) \cup {x}
  <2>1. \A y \in S : y \in Nat
    OBVIOUS
  <2>2. \A y \in S : y < z <=> y < x \/ y = x
    BY <1>2, <2>1
  <2> QED BY <2>2 DEF Below
<1>4. Rank(S, z) = Rank(S, x) + 1
  BY <1>3, RankInSet DEF Rank
<1> QED BY <1>4

(* Every place in the order is taken.                                      *)
LEMMA RankTaken ==
  ASSUME NEW S \in SUBSET Nat, IsFiniteSet(S), NEW n \in Nat, n < Cardinality(S)
  PROVE  \E x \in S : Rank(S, x) = n
<1> DEFINE T == {k \in Nat : k < Cardinality(S) /\ \A x \in S : Rank(S, x) # k}
<1> SUFFICES ASSUME T # {} PROVE FALSE
  OBVIOUS
<1>0. Cardinality(S) \in Nat
  BY FS_CardinalityType
<1>1. PICK k \in T : \A j \in T : k <= j
  BY Minimum
<1>2. CASE k = 0
  <2>1. S # {}
    BY <1>1, <1>2, FS_EmptySet
  <2>2. PICK x \in S : \A y \in S : x <= y
    BY <2>1, Minimum
  <2>3. \A y \in S : x \in Nat /\ y \in Nat /\ ~(y < x)
    BY <2>2
  <2>5. Below(S, x) = {}
    BY <2>3 DEF Below
  <2>4. Rank(S, x) = 0
    BY <2>5, FS_EmptySet DEF Rank
  <2> QED BY <1>1, <1>2, <2>4
<1>3. CASE k # 0
  <2>1. k - 1 \in Nat /\ k - 1 < Cardinality(S) /\ ~(k <= k - 1)
    BY <1>0, <1>1, <1>3
  <2>2. k - 1 \notin T
    BY <1>1, <2>1
  <2>3. PICK x \in S : Rank(S, x) = k - 1
    BY <2>1, <2>2
  <2>4. Rank(S, x) + 1 = k /\ k < Cardinality(S)
    BY <1>1, <2>3
  <2> QED BY <1>1, <2>4, NextRank
<1> QED BY <1>2, <1>3

----------------------------------------------------------------------------
NthOf(S, i) == CHOOSE p \in S : Rank(S, p) = i - 1

(* NthOf() names every member of a set of numbers, in their order.           *)
LEMMA NthIs ==
  ASSUME NEW S \in SUBSET Nat, IsFiniteSet(S), NEW i \in 1..Cardinality(S)
  PROVE  NthOf(S, i) \in S /\ Rank(S, NthOf(S, i)) = i - 1
<1>1. i - 1 \in Nat /\ i - 1 < Cardinality(S)
  BY FS_CardinalityType
<1>2. \E p \in S : Rank(S, p) = i - 1
  BY <1>1, RankTaken
<1> QED BY <1>2 DEF NthOf

LEMMA NthAscends ==
  ASSUME NEW S \in SUBSET Nat, IsFiniteSet(S),
         NEW i \in 1..Cardinality(S), NEW k \in 1..Cardinality(S), i < k
  PROVE  NthOf(S, i) < NthOf(S, k)
<1>1. PICK p \in S : p = NthOf(S, i) /\ Rank(S, p) = i - 1
  BY NthIs
<1>2. PICK q \in S : q = NthOf(S, k) /\ Rank(S, q) = k - 1
  BY NthIs
<1>3. p \in Nat /\ q \in Nat /\ ~(k - 1 < i - 1) /\ k - 1 # i - 1
  BY FS_CardinalityType
<1>4. ~(q < p) /\ p # q
  BY <1>1, <1>2, <1>3, RankGrows
<1> QED BY <1>1, <1>2, <1>3, <1>4

LEMMA NthReaches ==
  ASSUME NEW S \in SUBSET Nat, IsFiniteSet(S), NEW p \in S
  PROVE  /\ Rank(S, p) + 1 \in 1..Cardinality(S)
         /\ NthOf(S, Rank(S, p) + 1) = p
<1>1. PICK r \in Nat : r = Rank(S, p) /\ r < Cardinality(S) /\ Cardinality(S) \in Nat
  BY RankInSet, FS_CardinalityType
<1>2. r + 1 \in 1..Cardinality(S) /\ (r + 1) - 1 = r
  BY <1>1
<1>3. NthOf(S, r + 1) \in S /\ Rank(S, NthOf(S, r + 1)) = r
  BY <1>2, NthIs
<1>4. NthOf(S, r + 1) = p
  BY <1>1, <1>3, RankUnique
<1> QED BY <1>1, <1>2, <1>4

----------------------------------------------------------------------------
(* A function that is a step further at each number stays in a set that no *)
(* step leaves.                                                            *)
LEMMA StepsStay ==
  ASSUME NEW N \in Nat, NEW S, NEW f, f[0] \in S,
         \A k \in 1..N : f[k - 1] \in S => f[k] \in S
  PROVE  \A k \in 0..N : f[k] \in S
<1> DEFINE Bad == {k \in 0..N : f[k] \notin S}
<1> SUFFICES ASSUME Bad # {} PROVE FALSE
  OBVIOUS
<1>1. Bad \in SUBSET Nat
  OBVIOUS
<1>2. PICK k \in Bad : \A j \in Bad : k <= j
  BY <1>1, Minimum
<1>3. k # 0 /\ k \in 1..N /\ k - 1 \in 0..N /\ ~(k <= k - 1)
  BY <1>2
<1>4. f[k - 1] \in S
  BY <1>2, <1>3
<1> QED BY <1>2, <1>3, <1>4

(* There is such a function, whatever the steps are.                       *)
Runs(N, S, a, step) ==
    {f \in [0..N -> S] : f[0] = a /\ \A k \in 1..N : f[k] = step[k][f[k - 1]]}

LEMMA RunsExist ==
  ASSUME NEW N \in Nat, NEW S, NEW a \in S, NEW step \in [1..N -> [S -> S]]
  PROVE  Runs(N, S, a, step) # {}
<1> DEFINE Short(m) == {f \in [0..m -> S] : f[0] = a /\ \A k \in 1..m : f[k] = step[k][f[k - 1]]}
           Bad == {m \in 0..N : Short(m) = {}}
<1>0. Runs(N, S, a, step) = Short(N)
  BY DEF Runs
<1> SUFFICES ASSUME Bad # {} PROVE FALSE
  <2>1. N \in 0..N
    OBVIOUS
  <2> HIDE DEF Short
  <2> QED BY <1>0, <2>1
<1>1. Bad \in SUBSET Nat
  OBVIOUS
<1>2. PICK m \in Bad : \A j \in Bad : m <= j
  BY <1>1, Minimum
<1>3. m # 0
  <2> DEFINE f == [k \in 0..0 |-> a]
  <2>1. f \in [0..0 -> S] /\ f[0] = a /\ \A k \in 1..0 : FALSE
    OBVIOUS
  <2>2. f \in Short(0)
    BY <2>1
  <2> QED BY <1>2, <2>2
<1>4. m \in 1..N /\ m - 1 \in 0..N /\ ~(m <= m - 1)
  BY <1>2, <1>3
<1>5. PICK f : f \in Short(m - 1)
  <2> HIDE DEF Short
  <2> QED BY <1>2, <1>4
<1> DEFINE g == [k \in 0..m |-> IF k = m THEN step[m][f[m - 1]] ELSE f[k]]
<1>6. \A k \in 0..(m - 1) : f[k] \in S /\ k \in 0..m /\ k # m /\ g[k] = f[k]
  BY <1>4, <1>5
<1>7. m - 1 \in 0..(m - 1) /\ 0 \in 0..(m - 1) /\ m \in 0..m
  BY <1>4
<1>8. step[m][f[m - 1]] \in S
  BY <1>4, <1>6, <1>7
<1>9. g \in [0..m -> S]
  <2>1. \A k \in 0..m : k = m \/ k \in 0..(m - 1)
    BY <1>4
  <2> QED BY <1>6, <1>8, <2>1
<1>10. g[0] = a
  BY <1>5, <1>6, <1>7
<1>11. \A k \in 1..m : g[k] = step[k][g[k - 1]]
  <2> SUFFICES ASSUME NEW k \in 1..m PROVE g[k] = step[k][g[k - 1]]
    OBVIOUS
  <2>1. k - 1 \in 0..(m - 1) /\ g[k - 1] = f[k - 1]
    BY <1>4, <1>6
  <2>2. CASE k = m
    BY <1>7, <2>1, <2>2
  <2>3. CASE k # m
    <3>1. k \in 1..(m - 1) /\ k \in 0..(m - 1)
      BY <1>4, <2>3
    <3> QED BY <1>5, <1>6, <2>1, <3>1
  <2> QED BY <2>2, <2>3
<1>12. g \in Short(m)
  BY <1>9, <1>10, <1>11
<1> QED BY <1>2, <1>12
=============================================================================
