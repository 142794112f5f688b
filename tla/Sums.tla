-------------------------------- MODULE Sums --------------------------------
(***************************************************************************)
(* What SumFunction of the community modules computes, for every finite    *)
(* domain.  The proofs go by a least counterexample: NatLessThanWellFounded *)
(* and FS_StrictSubsetOrderingWellFounded with WFMin.                      *)
(***************************************************************************)
EXTENDS Integers, Functions, FiniteSetsExt, FiniteSetTheorems,
        WellFoundedInduction, TLAPS

LEMMA LeastNatural ==
  ASSUME NEW N \in SUBSET Nat, N # {}
  PROVE  \E n \in N : \A m \in N : n <= m
<1>1. PICK n \in N : \A m \in N : ~ (<<m, n>> \in OpToRel(<, Nat))
  <2>1. IsWellFoundedOn(OpToRel(<, Nat), Nat)
    BY NatLessThanWellFounded
  <2> DEFINE R == OpToRel(<, Nat)
  <2> HIDE DEF R
  <2>2. IsWellFoundedOn(R, Nat)
    BY <2>1 DEF R
  <2>3. \E n \in N : \A m \in N : ~ (<<m, n>> \in R)
    BY <2>2, WFMin, Zenon
  <2>4. QED
    BY <2>3 DEF R
<1>2. ASSUME NEW m \in N
      PROVE  n <= m
  <2>1. OpToRel(<, Nat) = {ss \in Nat \X Nat : ss[1] < ss[2]}
    BY Zenon DEF OpToRel
  <2>2. <<m, n>> \notin {ss \in Nat \X Nat : ss[1] < ss[2]}
    BY <1>1, <2>1, Zenon
  <2>3. QED
    BY <2>2
<1>3. QED
  BY <1>2

(* A family of finite sets has one that contains no other.                 *)
LEMMA LeastSubset ==
  ASSUME NEW S, IsFiniteSet(S), NEW F \in SUBSET (SUBSET S), F # {}
  PROVE  \E s \in F : \A x \in s : s \ {x} \notin F
<1> DEFINE Sizes == {Cardinality(s) : s \in F}
<1>1. Sizes \in SUBSET Nat /\ Sizes # {}
  BY FS_Subset, FS_CardinalityType
<1>2. PICK n \in Sizes : \A m \in Sizes : n <= m
  <2> HIDE DEF Sizes
  <2> QED
    BY <1>1, LeastNatural
<1>3. PICK s \in F : Cardinality(s) = n
  OBVIOUS
<1>4. ASSUME NEW x \in s, s \ {x} \in F
      PROVE  FALSE
  <2>1. /\ IsFiniteSet(s) /\ Cardinality(s) \in Nat
    BY FS_Subset, FS_CardinalityType
  <2>2. Cardinality(s \ {x}) = Cardinality(s) - 1
    BY <2>1, FS_RemoveElement
  <2>3. Cardinality(s) <= Cardinality(s \ {x})
    BY <1>2, <1>3, <1>4
  <2>4. QED
    BY <2>1, <2>2, <2>3
<1>5. QED
  BY <1>4

-----------------------------------------------------------------------------
Chosen(s) == CHOOSE x \in s : TRUE

(* it sums f over each set of D, one element after the other.              *)
Adds(it, f, D) ==
  it = [s \in D |-> IF s = {} THEN 0 ELSE f[Chosen(s)] + it[s \ {Chosen(s)}]]

Totals(it, f, S) == Adds(it, f, SUBSET S)

SmallSubsets(S, n) == {s \in SUBSET S : Cardinality(s) <= n}

LEMMA ChosenOfSet ==
  ASSUME NEW s, s # {}
  PROVE  Chosen(s) \in s
BY DEF Chosen

LEMMA AddsExists ==
  ASSUME NEW S, IsFiniteSet(S), NEW f
  PROVE  \E it : Totals(it, f, S)
<1> DEFINE Bad == {n \in Nat : ~ \E it : Adds(it, f, SmallSubsets(S, n))}
<1>0. \A s \in SUBSET S : /\ IsFiniteSet(s) /\ Cardinality(s) \in Nat
                          /\ Cardinality(s) <= Cardinality(S)
                          /\ Cardinality(s) = 0 <=> s = {}
  BY FS_Subset, FS_CardinalityType, FS_EmptySet
<1>1. Bad = {}
  <2> SUFFICES ASSUME Bad # {}
               PROVE  FALSE
    OBVIOUS
  <2>1. PICK n \in Bad : \A m \in Bad : n <= m
    <3>1. Bad \in SUBSET Nat
      OBVIOUS
    <3> HIDE DEF Bad
    <3>2. QED
      BY <3>1, LeastNatural
  <2>2. n # 0
    <3>1. SmallSubsets(S, 0) = {{}}
      BY <1>0 DEF SmallSubsets
    <3>2. Adds([s \in {{}} |-> 0], f, {{}})
      BY DEF Adds
    <3>3. QED
      BY <3>1, <3>2
  <2>3. PICK it : Adds(it, f, SmallSubsets(S, n - 1))
    <3>1. n - 1 \in Nat /\ ~(n <= n - 1)
      BY <2>2
    <3>2. QED
      BY <2>1, <3>1
  <2> DEFINE next == [s \in SmallSubsets(S, n) |->
                        IF s = {} THEN 0 ELSE f[Chosen(s)] + it[s \ {Chosen(s)}]]
  <2>4. ASSUME NEW s \in SmallSubsets(S, n), s # {}
        PROVE  next[s \ {Chosen(s)}] = it[s \ {Chosen(s)}]
    <3> DEFINE r == s \ {Chosen(s)}
    <3>1. Cardinality(r) = Cardinality(s) - 1 /\ r \in SUBSET S
      BY <1>0, <2>4, ChosenOfSet, FS_RemoveElement DEF SmallSubsets
    <3>2. r \in SmallSubsets(S, n - 1) /\ r \in SmallSubsets(S, n)
      BY <1>0, <3>1 DEF SmallSubsets
    <3> HIDE DEF r
    <3>3. next[r] = IF r = {} THEN 0 ELSE f[Chosen(r)] + it[r \ {Chosen(r)}]
      BY <3>2
    <3>4. it[r] = IF r = {} THEN 0 ELSE f[Chosen(r)] + it[r \ {Chosen(r)}]
      BY <2>3, <3>2 DEF Adds
    <3>5. QED
      BY <3>3, <3>4 DEF r
  <2>5. Adds(next, f, SmallSubsets(S, n))
    <3>1. ASSUME NEW s \in SmallSubsets(S, n)
          PROVE  (IF s = {} THEN 0 ELSE f[Chosen(s)] + it[s \ {Chosen(s)}]) =
                 (IF s = {} THEN 0 ELSE f[Chosen(s)] + next[s \ {Chosen(s)}])
      BY <2>4
    <3>2. next = [s \in SmallSubsets(S, n) |->
                    IF s = {} THEN 0 ELSE f[Chosen(s)] + next[s \ {Chosen(s)}]]
      BY <3>1, Zenon
    <3>3. QED
      BY <3>2, Zenon DEF Adds
  <2>6. QED
    BY <2>5
<1>2. Cardinality(S) \in Nat
  BY FS_CardinalityType
<1>3. SmallSubsets(S, Cardinality(S)) = SUBSET S
  BY <1>0 DEF SmallSubsets
<1>4. \E it : Adds(it, f, SmallSubsets(S, Cardinality(S)))
  BY <1>1, <1>2
<1>5. QED
  BY <1>3, <1>4, Zenon DEF Totals

LEMMA SumAdds ==
  ASSUME NEW f, IsFiniteSet(DOMAIN f)
  PROVE  \E it : Totals(it, f, DOMAIN f) /\ SumFunction(f) = it[DOMAIN f]
<1> DEFINE it == CHOOSE it : Totals(it, f, DOMAIN f)
<1>1. SumFunction(f) = it[DOMAIN f]
  BY Zenon
  DEF SumFunction, SumFunctionOnSet, FoldFunctionOnSet, MapThenFoldSet, Totals, Adds, Chosen
<1>2. Totals(it, f, DOMAIN f)
  BY AddsExists
<1>3. QED
  BY <1>1, <1>2

LEMMA AddsStep ==
  ASSUME NEW S, NEW f, NEW it, Totals(it, f, S), NEW s \in SUBSET S
  PROVE  /\ s = {} => it[s] = 0
         /\ s # {} => /\ Chosen(s) \in s /\ s \ {Chosen(s)} \in SUBSET S
                      /\ it[s] = f[Chosen(s)] + it[s \ {Chosen(s)}]
BY ChosenOfSet DEF Totals, Adds

LEMMA AddsNothing ==
  ASSUME NEW S, NEW f, NEW it, Totals(it, f, S)
  PROVE  it[{}] = 0
<1>1. {} \in SUBSET S
  OBVIOUS
<1>2. QED
  BY <1>1, AddsStep

(* Each partial sum is a number.                                           *)
LEMMA AddsType ==
  ASSUME NEW S, IsFiniteSet(S), NEW f \in [S -> Nat],
         NEW it, Totals(it, f, S), NEW t \in SUBSET S
  PROVE  it[t] \in Nat
<1> DEFINE Bad == {s \in SUBSET S : it[s] \notin Nat}
<1> SUFFICES ASSUME Bad # {}
             PROVE  FALSE
  OBVIOUS
<1>1. PICK s \in Bad : \A x \in s : s \ {x} \notin Bad
  <2>1. Bad \in SUBSET (SUBSET S)
    OBVIOUS
  <2> HIDE DEF Bad
  <2>2. QED
    BY <2>1, LeastSubset
<1>2. s # {} /\ Chosen(s) \in s /\ it[s] = f[Chosen(s)] + it[s \ {Chosen(s)}]
  BY AddsStep
<1>3. it[s \ {Chosen(s)}] \in Nat /\ f[Chosen(s)] \in Nat
  BY <1>1, <1>2
<1>4. QED
  BY <1>2, <1>3

LEMMA SumType ==
  ASSUME NEW S, IsFiniteSet(S), NEW f \in [S -> Nat]
  PROVE  SumFunction(f) \in Nat
<1>1. DOMAIN f = S
  OBVIOUS
<1>2. PICK it : Totals(it, f, S) /\ SumFunction(f) = it[S]
  BY <1>1, SumAdds
<1>3. QED
  BY <1>2, AddsType

LEMMA SumOfZeros ==
  ASSUME NEW S, IsFiniteSet(S), NEW f \in [S -> Nat], \A x \in S : f[x] = 0
  PROVE  SumFunction(f) = 0
<1>1. DOMAIN f = S
  OBVIOUS
<1>2. PICK it : Totals(it, f, S) /\ SumFunction(f) = it[S]
  BY <1>1, SumAdds
<1> DEFINE Bad == {s \in SUBSET S : it[s] # 0}
<1>3. ASSUME Bad # {}
      PROVE  FALSE
  <2>1. PICK s \in Bad : \A x \in s : s \ {x} \notin Bad
    <3>1. Bad \in SUBSET (SUBSET S)
      OBVIOUS
    <3> HIDE DEF Bad
    <3>2. QED
      BY <1>3, <3>1, LeastSubset
  <2>2. it[s] # 0 /\ s \in SUBSET S
    OBVIOUS
  <2>3. s # {} /\ Chosen(s) \in s /\ it[s] = f[Chosen(s)] + it[s \ {Chosen(s)}]
    BY <1>2, <2>2, AddsStep
  <2>4. QED
    BY <2>1, <2>3
<1>4. QED
  BY <1>2, <1>3

(* One value changed changes the sum by the same amount.                   *)
LEMMA SumChanges ==
  ASSUME NEW S, IsFiniteSet(S), NEW f \in [S -> Nat], NEW g \in [S -> Nat],
         NEW x \in S, \A y \in S \ {x} : g[y] = f[y]
  PROVE  SumFunction(g) = SumFunction(f) + (g[x] - f[x])
<1>1. DOMAIN f = S /\ DOMAIN g = S
  OBVIOUS
<1>2. PICK itf : Totals(itf, f, S) /\ SumFunction(f) = itf[S]
  BY <1>1, SumAdds
<1>3. PICK itg : Totals(itg, g, S) /\ SumFunction(g) = itg[S]
  BY <1>1, SumAdds
<1> DEFINE Moved(s) == IF x \in s THEN g[x] - f[x] ELSE 0
           Bad == {s \in SUBSET S : itg[s] # itf[s] + Moved(s)}
<1>4. ASSUME Bad # {}
      PROVE  FALSE
  <2>1. PICK s \in Bad : \A y \in s : s \ {y} \notin Bad
    <3>1. Bad \in SUBSET (SUBSET S)
      OBVIOUS
    <3> HIDE DEF Bad
    <3>2. QED
      BY <1>4, <3>1, LeastSubset
  <2> DEFINE y == Chosen(s)
             r == s \ {y}
  <2>2. s # {}
    <3> SUFFICES ASSUME s = {}
                 PROVE  FALSE
      OBVIOUS
    <3>1. itg[{}] = 0 /\ itf[{}] = 0
      BY <1>2, <1>3, AddsNothing
    <3>2. QED
      BY <3>1
  <2>3. /\ y \in s /\ r \in SUBSET S
        /\ itf[s] = f[y] + itf[r] /\ itg[s] = g[y] + itg[r]
    <3>1. s \in SUBSET S
      OBVIOUS
    <3> HIDE DEF Bad
    <3>2. y \in s /\ r \in SUBSET S /\ itf[s] = f[y] + itf[r]
      BY <1>2, <2>2, <3>1, AddsStep
    <3>3. itg[s] = g[y] + itg[r]
      BY <1>3, <2>2, <3>1, AddsStep
    <3>4. QED
      BY <3>2, <3>3
  <2>4. itg[r] = itf[r] + Moved(r)
    BY <2>1, <2>3
  <2>5. itf[r] \in Nat /\ itf[s] \in Nat
    BY <1>2, <2>3, AddsType
  <2>6. itg[s] # itf[s] + Moved(s)
    OBVIOUS
  <2> HIDE DEF y
  <2>7. CASE y = x
    <3>1. Moved(r) = 0 /\ Moved(s) = g[x] - f[x]
      BY <2>3, <2>7
    <3>2. QED
      BY <2>3, <2>4, <2>5, <2>6, <2>7, <3>1
  <2>8. CASE y # x
    <3>1. Moved(r) = Moved(s) /\ g[y] = f[y] /\ f[y] \in Nat
      BY <2>3, <2>8
    <3>2. Moved(s) \in Int
      OBVIOUS
    <3>3. QED
      BY <2>3, <2>4, <2>5, <2>6, <3>1, <3>2
  <2>9. QED
    BY <2>7, <2>8
<1>5. itg[S] = itf[S] + Moved(S)
  BY <1>4
<1>6. QED
  BY <1>2, <1>3, <1>5

(* The sum of smaller values is smaller.                                   *)
LEMMA SumShrinks ==
  ASSUME NEW S, IsFiniteSet(S), NEW f \in [S -> Nat], NEW g \in [S -> Nat],
         \A x \in S : g[x] <= f[x]
  PROVE  SumFunction(g) <= SumFunction(f)
<1>1. DOMAIN f = S /\ DOMAIN g = S
  OBVIOUS
<1>2. PICK itf : Totals(itf, f, S) /\ SumFunction(f) = itf[S]
  BY <1>1, SumAdds
<1>3. PICK itg : Totals(itg, g, S) /\ SumFunction(g) = itg[S]
  BY <1>1, SumAdds
<1> DEFINE Bad == {s \in SUBSET S : ~(itg[s] <= itf[s])}
<1>4. ASSUME Bad # {}
      PROVE  FALSE
  <2>1. PICK s \in Bad : \A y \in s : s \ {y} \notin Bad
    <3>1. Bad \in SUBSET (SUBSET S)
      OBVIOUS
    <3> HIDE DEF Bad
    <3>2. QED
      BY <1>4, <3>1, LeastSubset
  <2>2. s \in SUBSET S /\ ~(itg[s] <= itf[s])
    OBVIOUS
  <2>3. s # {}
    <3> SUFFICES ASSUME s = {}
                 PROVE  FALSE
      OBVIOUS
    <3>1. itg[{}] = 0 /\ itf[{}] = 0
      BY <1>2, <1>3, AddsNothing
    <3>2. QED
      BY <2>2, <3>1
  <2> DEFINE y == Chosen(s)
             r == s \ {y}
  <2>4. /\ y \in s /\ r \in SUBSET S
        /\ itf[s] = f[y] + itf[r] /\ itg[s] = g[y] + itg[r]
    <3> HIDE DEF Bad
    <3>1. y \in s /\ r \in SUBSET S /\ itf[s] = f[y] + itf[r]
      BY <1>2, <2>2, <2>3, AddsStep
    <3>2. itg[s] = g[y] + itg[r]
      BY <1>3, <2>2, <2>3, AddsStep
    <3>3. QED
      BY <3>1, <3>2
  <2>5. itg[r] <= itf[r]
    BY <2>1, <2>4
  <2>6. itf[r] \in Nat /\ itg[r] \in Nat
    BY <1>2, <1>3, <2>4, AddsType
  <2>7. g[y] <= f[y] /\ g[y] \in Nat /\ f[y] \in Nat
    BY <2>2, <2>4
  <2> HIDE DEF y, r
  <2>8. QED
    BY <2>2, <2>4, <2>5, <2>6, <2>7
<1>5. QED
  BY <1>2, <1>3, <1>4


-------------------------------------------------------------------------------
(* The fold of a step over 1..n, the last index first removed, as FoldLeft *)
(* computes it: "it" gives for each set of indices what the fold returns.  *)
FoldsOn(it, base, step, D) ==
  it = [s \in D |-> IF s = {} THEN base ELSE step[<<it[s \ {Max(s)}], Max(s)>>]]

LEMMA MaxIsLast ==
  ASSUME NEW n \in Nat, NEW s \in SUBSET (1..n), s # {}
  PROVE  Max(s) \in s
<1> DEFINE Above == {u \in Nat : \A x \in s : u >= x}
<1>1. PICK u \in Above : \A v \in Above : u <= v
  <2>1. n \in Above /\ Above \in SUBSET Nat
    OBVIOUS
  <2> HIDE DEF Above
  <2>2. QED
    BY <2>1, LeastNatural
<1>2. u \in s
  <2>1. SUFFICES ASSUME u \notin s
                 PROVE  FALSE
    OBVIOUS
  <2>2. \A x \in s : x \in Nat /\ x >= 1 /\ u >= x /\ x # u
    BY <2>1
  <2>3. u - 1 \in Nat /\ \A x \in s : u - 1 >= x
    <3>1. PICK x \in s : TRUE
      OBVIOUS
    <3>2. u \in Nat /\ u > 1 - 1
      BY <2>2, <3>1
    <3>3. u - 1 \in Nat
      BY <3>2
    <3>4. ASSUME NEW y \in s
          PROVE  u - 1 >= y
      BY <2>2, <3>2
    <3>5. QED
      BY <3>3, <3>4
  <2>4. QED
    BY <1>1, <2>3
<1>3. \E x \in s : \A y \in s : x >= y
  BY <1>2
<1>4. QED
  BY <1>3, Zenon DEF Max

LEMMA FoldExists ==
  ASSUME NEW n \in Nat, NEW base, NEW step
  PROVE  \E it : FoldsOn(it, base, step, SUBSET (1..n))
<1> DEFINE S == 1..n
           Bad == {m \in Nat : ~ \E it : FoldsOn(it, base, step, SmallSubsets(S, m))}
<1>0. /\ IsFiniteSet(S)
      /\ \A s \in SUBSET S : /\ IsFiniteSet(s) /\ Cardinality(s) \in Nat
                             /\ Cardinality(s) <= Cardinality(S)
                             /\ Cardinality(s) = 0 <=> s = {}
  <2>1. IsFiniteSet(S)
    BY FS_Interval
  <2> HIDE DEF S
  <2>2. QED
    BY <2>1, FS_Subset, FS_CardinalityType, FS_EmptySet
<1>1. Bad = {}
  <2> SUFFICES ASSUME Bad # {}
               PROVE  FALSE
    OBVIOUS
  <2>1. PICK m \in Bad : \A k \in Bad : m <= k
    <3>1. Bad \in SUBSET Nat
      OBVIOUS
    <3> HIDE DEF Bad
    <3>2. QED
      BY <3>1, LeastNatural
  <2>2. m # 0
    <3>1. SmallSubsets(S, 0) = {{}}
      BY <1>0 DEF SmallSubsets
    <3>2. FoldsOn([s \in {{}} |-> base], base, step, {{}})
      BY DEF FoldsOn
    <3>3. QED
      BY <3>1, <3>2
  <2>3. PICK it : FoldsOn(it, base, step, SmallSubsets(S, m - 1))
    <3>1. m - 1 \in Nat /\ ~(m <= m - 1)
      BY <2>2
    <3>2. QED
      BY <2>1, <3>1
  <2> DEFINE next == [s \in SmallSubsets(S, m) |->
                        IF s = {} THEN base ELSE step[<<it[s \ {Max(s)}], Max(s)>>]]
  <2>4. ASSUME NEW s \in SmallSubsets(S, m), s # {}
        PROVE  next[s \ {Max(s)}] = it[s \ {Max(s)}]
    <3> DEFINE r == s \ {Max(s)}
    <3>0. Max(s) \in s
      BY <2>4, MaxIsLast DEF SmallSubsets
    <3>1. Cardinality(r) = Cardinality(s) - 1 /\ r \in SUBSET S
      BY <1>0, <2>4, <3>0, FS_RemoveElement DEF SmallSubsets
    <3>2. r \in SmallSubsets(S, m - 1) /\ r \in SmallSubsets(S, m)
      BY <1>0, <3>1 DEF SmallSubsets
    <3> HIDE DEF r
    <3>3. next[r] = IF r = {} THEN base ELSE step[<<it[r \ {Max(r)}], Max(r)>>]
      BY <3>2
    <3>4. it[r] = IF r = {} THEN base ELSE step[<<it[r \ {Max(r)}], Max(r)>>]
      BY <2>3, <3>2 DEF FoldsOn
    <3>5. QED
      BY <3>3, <3>4 DEF r
  <2>5. FoldsOn(next, base, step, SmallSubsets(S, m))
    <3>1. ASSUME NEW s \in SmallSubsets(S, m)
          PROVE  (IF s = {} THEN base ELSE step[<<it[s \ {Max(s)}], Max(s)>>]) =
                 (IF s = {} THEN base ELSE step[<<next[s \ {Max(s)}], Max(s)>>])
      BY <2>4
    <3>2. next = [s \in SmallSubsets(S, m) |->
                    IF s = {} THEN base ELSE step[<<next[s \ {Max(s)}], Max(s)>>]]
      BY <3>1, Zenon
    <3>3. QED
      BY <3>2, Zenon DEF FoldsOn
  <2>6. QED
    BY <2>5
<1>2. Cardinality(S) \in Nat
  BY <1>0, FS_CardinalityType
<1>3. SmallSubsets(S, Cardinality(S)) = SUBSET S
  BY <1>0 DEF SmallSubsets
<1>4. \E it : FoldsOn(it, base, step, SmallSubsets(S, Cardinality(S)))
  BY <1>1, <1>2
<1>5. QED
  BY <1>3, <1>4

LEMMA FoldTypes ==
  ASSUME NEW n \in Nat, NEW T, NEW base \in T, NEW step \in [T \X (1..n) -> T],
         NEW it, FoldsOn(it, base, step, SUBSET (1..n)), NEW t \in SUBSET (1..n)
  PROVE  it[t] \in T
<1> DEFINE Bad == {s \in SUBSET (1..n) : it[s] \notin T}
<1> SUFFICES ASSUME Bad # {}
             PROVE  FALSE
  OBVIOUS
<1>1. PICK s \in Bad : \A x \in s : s \ {x} \notin Bad
  <2>1. Bad \in SUBSET (SUBSET (1..n)) /\ IsFiniteSet(1..n)
    BY FS_Interval
  <2> HIDE DEF Bad
  <2>2. QED
    BY <2>1, LeastSubset
<1>2. it[s] = IF s = {} THEN base ELSE step[<<it[s \ {Max(s)}], Max(s)>>]
  BY DEF FoldsOn
<1>3. s # {} /\ Max(s) \in s /\ Max(s) \in 1..n
  BY <1>2, MaxIsLast
<1>4. it[s \ {Max(s)}] \in T
  BY <1>1, <1>3
<1>5. QED
  BY <1>2, <1>3, <1>4

===============================================================================
