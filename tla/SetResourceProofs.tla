------------------------- MODULE SetResourceProofs --------------------------
(***************************************************************************)
(* Proofs about the table of resources and about the way a function gets   *)
(* and loses its key tables.                                               *)
(***************************************************************************)
EXTENDS SetResource, TLAPS, FiniteSetTheorems, WellFoundedInduction

-----------------------------------------------------------------------------
(* The first n members of a set of resources *)

LEMMA ResourcesFinite ==
    /\ IsFiniteSet(Resources) /\ Cardinality(Resources) = NR
    /\ Resources \subseteq Nat
<1>1. NR \in Nat /\ NR > 0
  BY TableAssumption
<1>2. IsFiniteSet(0..(NR-1)) /\ Cardinality(0..(NR-1)) = NR
  <2>1. 0 \in Int /\ NR - 1 \in Int
    BY <1>1
  <2>2. IsFiniteSet(0..(NR-1))
            /\ Cardinality(0..(NR-1)) = IF 0 > NR - 1 THEN 0 ELSE NR - 1 - 0 + 1
    BY <2>1, FS_Interval
  <2> QED BY <1>1, <2>2
<1> QED BY <1>1, <1>2 DEF Resources

LEMMA SubsetsFinite ==
    ASSUME NEW S, S \subseteq Resources
    PROVE  /\ IsFiniteSet(S) /\ Cardinality(S) \in Nat /\ Cardinality(S) <= NR
<1>1. IsFiniteSet(S) /\ Cardinality(S) <= NR
  BY ResourcesFinite, FS_Subset
<1> QED BY <1>1, FS_CardinalityType

(* A set of resources that is not empty has a first member.                *)
LEMMA FirstMember ==
    ASSUME NEW S, S \subseteq Nat, S # {}
    PROVE  \E m \in S : \A q \in S : m <= q
<1> DEFINE R == OpToRel(<, Nat)
<1>1. PICK x \in S : \A y \in S : ~(<<y, x>> \in R)
  BY WFMin, NatLessThanWellFounded
<1>2. \A y \in S : ~(y < x)
  BY <1>1, S \subseteq Nat DEF OpToRel
<1> QED BY <1>2, S \subseteq Nat

Below(S, r) == {q \in S : q < r}

(* A larger member has more below it.                                      *)
LEMMA BelowGrows ==
    ASSUME NEW S, S \subseteq Resources, NEW q \in S, NEW r \in S, q < r
    PROVE  Cardinality(Below(S, q)) < Cardinality(Below(S, r))
<1>1. S \subseteq Nat
  BY ResourcesFinite
<1>2. Below(S, r) \subseteq Resources /\ Below(S, q) \subseteq Below(S, r)
      /\ q \in Below(S, r) /\ q \notin Below(S, q)
  <2>1. q \in Nat /\ r \in Nat
    BY <1>1
  <2>2. \A x \in S : x < q => x < r
    BY <2>1, <1>1, q < r
  <2>3. ~(q < q)
    BY <2>1
  <2> QED BY <2>2, <2>3, q < r DEF Below
<1>3. IsFiniteSet(Below(S, r)) /\ Cardinality(Below(S, r)) \in Nat
  BY <1>2, SubsetsFinite
<1>4. Cardinality(Below(S, q)) <= Cardinality(Below(S, r))
      /\ Cardinality(Below(S, q)) # Cardinality(Below(S, r))
  BY <1>2, <1>3, FS_Subset
<1>5. Cardinality(Below(S, q)) \in Nat
  BY <1>2, <1>3, FS_Subset, FS_CardinalityType
<1> QED BY <1>3, <1>4, <1>5

(* One more: the first n + 1 members are the first n and the one that is   *)
(* next.                                                                   *)
LEMMA FirstNext ==
    ASSUME NEW S, S \subseteq Resources, NEW n \in Nat,
           Cardinality(First(S, n)) = n, n < Cardinality(S)
    PROVE  Cardinality(First(S, n + 1)) = n + 1
<1>0. S \subseteq Nat /\ IsFiniteSet(S) /\ First(S, n) \subseteq S
  BY ResourcesFinite, SubsetsFinite DEF First
<1>1. S \ First(S, n) # {}
  <2>1. First(S, n) # S
    BY SubsetsFinite
  <2> QED BY <2>1, <1>0
<1>2. PICK m \in S \ First(S, n) : \A q \in S \ First(S, n) : m <= q
  <2>1. S \ First(S, n) \subseteq Nat
    BY <1>0
  <2> QED BY <1>1, <2>1, FirstMember
<1>3. \A r \in S : Cardinality(Below(S, r)) \in Nat
  <2> TAKE r \in S
  <2>1. Below(S, r) \subseteq Resources
    BY DEF Below
  <2> QED BY <2>1, SubsetsFinite
<1>4. \A k : First(S, k) = {r \in S : Cardinality(Below(S, r)) < k}
  BY DEF First, Below
<1>5. Below(S, m) = First(S, n)
  <2>1. ASSUME NEW q \in S, q < m PROVE q \in First(S, n)
    BY <1>0, <1>2, <2>1
  <2>2. ASSUME NEW q \in First(S, n) PROVE q < m
    <3>0. q \in S /\ q \in Nat /\ m \in Nat /\ q # m
      BY <1>0, <1>2
    <3>1. CASE m < q
      <4>1. Cardinality(Below(S, m)) < Cardinality(Below(S, q))
        BY <3>0, <3>1, <1>2, BelowGrows
      <4>2. Cardinality(Below(S, q)) < n
        BY <1>4
      <4>3. Cardinality(Below(S, m)) < n
        BY <4>1, <4>2, <3>0, <1>2, <1>3
      <4> QED BY <4>3, <1>2, <1>4
    <3> QED BY <3>0, <3>1
  <2> QED BY <2>1, <2>2, <1>0 DEF Below
<1>6. First(S, n + 1) = First(S, n) \cup {m}
  <2>1. First(S, n) \subseteq First(S, n + 1)
    <3> SUFFICES ASSUME NEW r \in First(S, n) PROVE r \in First(S, n + 1)
      OBVIOUS
    <3>1. r \in S /\ Cardinality(Below(S, r)) < n
      BY <1>4
    <3> QED BY <3>1, <1>3, <1>4
  <2>2. m \in First(S, n + 1)
    <3>1. Cardinality(Below(S, m)) = n
      BY <1>5
    <3> QED BY <3>1, <1>2, <1>4
  <2>3. ASSUME NEW r \in First(S, n + 1), r \notin First(S, n) PROVE r = m
    <3>1. r \in S /\ Cardinality(Below(S, r)) < n + 1
      BY <1>4
    <3>2. ~(m < r)
      <4> SUFFICES ASSUME m < r PROVE FALSE
        OBVIOUS
      <4>1. Cardinality(Below(S, m)) < Cardinality(Below(S, r))
        BY <3>1, <1>2, BelowGrows
      <4> QED BY <4>1, <1>5, <3>1, <1>3
    <3>3. m <= r
      BY <1>2, <3>1, <2>3
    <3> QED BY <3>2, <3>3, <1>0, <1>2, <3>1
  <2> QED BY <2>1, <2>2, <2>3
<1> QED
  <2>1. IsFiniteSet(First(S, n))
    BY <1>0, FS_Subset
  <2> QED BY <2>1, <1>2, <1>6, FS_AddElement

(* First(S, n) has n members, if S has as many, and is S otherwise.        *)
LEMMA FirstCount ==
    ASSUME NEW S, S \subseteq Resources, NEW n \in Nat
    PROVE  /\ First(S, n) \subseteq S
           /\ n <= Cardinality(S) => Cardinality(First(S, n)) = n
           /\ n >= Cardinality(S) => First(S, n) = S
<1>1. First(S, n) \subseteq S
  BY DEF First
<1>2. \A r \in S : Cardinality(Below(S, r)) \in Nat
  <2> TAKE r \in S
  <2>1. Below(S, r) \subseteq Resources
    BY DEF Below
  <2> QED BY <2>1, SubsetsFinite
<1>3. Cardinality(S) \in Nat /\ IsFiniteSet(S)
  BY SubsetsFinite
<1>4. ASSUME n <= Cardinality(S) PROVE Cardinality(First(S, n)) = n
  <2> DEFINE Bad == {k \in Nat : k <= Cardinality(S) /\ Cardinality(First(S, k)) # k}
  <2>1. Bad = {}
    <3> SUFFICES ASSUME Bad # {} PROVE FALSE
      OBVIOUS
    <3>1. PICK m \in Bad : \A q \in Bad : m <= q
      <4>1. Bad \subseteq Nat
        OBVIOUS
      <4> HIDE DEF Bad
      <4> QED BY <4>1, FirstMember
    <3>2. m \in Nat /\ m <= Cardinality(S) /\ Cardinality(First(S, m)) # m
      BY <3>1
    <3>3. CASE m = 0
      <4>1. First(S, 0) = {r \in S : Cardinality(Below(S, r)) < 0}
        BY DEF First, Below
      <4>2. First(S, 0) = {}
        BY <4>1, <1>2
      <4> QED BY <4>2, <3>2, <3>3, FS_EmptySet
    <3>4. CASE m # 0
      <4>1. m - 1 \in Nat /\ m - 1 < Cardinality(S) /\ ~(m <= m - 1) /\ m - 1 + 1 = m
        BY <3>2, <3>4, <1>3
      <4>2. m - 1 \notin Bad
        BY <3>1, <4>1
      <4>3. Cardinality(First(S, m - 1)) = m - 1
        BY <4>1, <4>2, <1>3
      <4>4. Cardinality(First(S, m - 1 + 1)) = m - 1 + 1
        BY <4>1, <4>3, FirstNext
      <4> QED BY <4>1, <4>4, <3>2
    <3> QED BY <3>3, <3>4
  <2> QED BY <2>1, <1>4
<1>5. ASSUME n >= Cardinality(S) PROVE First(S, n) = S
  <2> SUFFICES ASSUME NEW r \in S PROVE r \in First(S, n)
    BY <1>1
  <2>1. Below(S, r) \subseteq S /\ r \notin Below(S, r)
    <3>1. r \in Nat
      BY ResourcesFinite
    <3> QED BY <3>1 DEF Below
  <2>2. Cardinality(Below(S, r)) <= Cardinality(S) /\ Cardinality(Below(S, r)) # Cardinality(S)
    BY <2>1, <1>3, FS_Subset
  <2>3. Cardinality(Below(S, r)) < n
    BY <2>2, <1>2, <1>3, <1>5
  <2> QED BY <2>3 DEF First, Below
<1> QED BY <1>1, <1>4, <1>5

-----------------------------------------------------------------------------
(* What the functions are charged with, as a set: the i-th resource of f   *)
Claims(cnt) == {p \in Functions \X (1..NR) : p[2] <= cnt[p[1]]}

Tables == [Resources -> Functions \cup {NoOne}]
Held(table, f) == {r \in Resources : table[r] = f}
CountOf(table) == [f \in Functions |-> Cardinality(Held(table, f))]

(* Where a resource stands among those of its owner *)
Claim(table) == [r \in Resources \ Held(table, NoOne) |->
                   <<table[r], Cardinality(Below(Held(table, table[r]), r)) + 1>>]

LEMMA HeldFinite ==
    ASSUME NEW table, NEW f
    PROVE  /\ Held(table, f) \subseteq Resources /\ IsFiniteSet(Held(table, f))
           /\ Cardinality(Held(table, f)) \in 0..NR
           /\ \A r : Cardinality(Below(Held(table, f), r)) \in Nat
<1>1. Held(table, f) \subseteq Resources
  BY DEF Held
<1>2. \A r : Below(Held(table, f), r) \subseteq Resources
  BY <1>1 DEF Below
<1>3. NR \in Nat
  BY TableAssumption
<1> QED BY <1>1, <1>2, <1>3, SubsetsFinite

(* Every resource that is owned is one of its owner's claims, each of them *)
(* once.                                                                   *)
LEMMA ClaimIsBijection ==
    ASSUME NEW table \in Tables
    PROVE  Claim(table) \in Bijection(Resources \ Held(table, NoOne), Claims(CountOf(table)))
<1> DEFINE H == Resources \ Held(table, NoOne)
           C == Claims(CountOf(table))
           g == Claim(table)
<1>0. NR \in Nat /\ NoOne \notin Functions
  BY TableAssumption
<1>1. ASSUME NEW r \in H PROVE /\ table[r] \in Functions /\ r \in Held(table, table[r])
                               /\ r \in Resources
  BY DEF Tables, Held
<1>2. ASSUME NEW r \in H
      PROVE  /\ g[r] = <<table[r], Cardinality(Below(Held(table, table[r]), r)) + 1>>
             /\ g[r] \in C
  <2>1. g[r] = <<table[r], Cardinality(Below(Held(table, table[r]), r)) + 1>>
    BY DEF Claim
  <2>2. /\ Below(Held(table, table[r]), r) \subseteq Held(table, table[r])
        /\ r \notin Below(Held(table, table[r]), r)
    <3>1. r \in Nat
      BY <1>1, ResourcesFinite
    <3> QED BY <3>1 DEF Below
  <2>3. Cardinality(Below(Held(table, table[r]), r)) <= Cardinality(Held(table, table[r]))
        /\ Cardinality(Below(Held(table, table[r]), r)) # Cardinality(Held(table, table[r]))
    BY <2>2, <1>1, HeldFinite, FS_Subset
  <2>4. /\ Cardinality(Below(Held(table, table[r]), r)) + 1 \in 1..NR
        /\ Cardinality(Below(Held(table, table[r]), r)) + 1 <= Cardinality(Held(table, table[r]))
    BY <2>3, <1>0, HeldFinite
  <2>5. CountOf(table)[table[r]] = Cardinality(Held(table, table[r]))
    BY <1>1 DEF CountOf
  <2> QED BY <1>1, <2>1, <2>4, <2>5 DEF Claims
<1>3. g \in [H -> C]
  <2>1. g = [r \in H |-> g[r]]
    BY DEF Claim
  <2> QED BY <2>1, <1>2
<1>4. ASSUME NEW q \in H, NEW r \in H, g[q] = g[r] PROVE q = r
  <2>1. table[q] = table[r]
        /\ Cardinality(Below(Held(table, table[q]), q)) + 1
             = Cardinality(Below(Held(table, table[r]), r)) + 1
    BY <1>2, <1>4
  <2>2. Cardinality(Below(Held(table, table[r]), q)) = Cardinality(Below(Held(table, table[r]), r))
    BY <2>1, HeldFinite
  <2>3. q \in Held(table, table[r]) /\ r \in Held(table, table[r])
    BY <2>1, <1>1
  <2>4. ~(q < r) /\ ~(r < q)
    <3>1. Held(table, table[r]) \subseteq Resources
              /\ Cardinality(Below(Held(table, table[r]), q)) \in Nat
      BY HeldFinite
    <3>2. q < r => Cardinality(Below(Held(table, table[r]), q)) < Cardinality(Below(Held(table, table[r]), r))
      BY <2>3, <3>1, BelowGrows
    <3>3. r < q => Cardinality(Below(Held(table, table[r]), r)) < Cardinality(Below(Held(table, table[r]), q))
      BY <2>3, <3>1, BelowGrows
    <3> QED BY <3>1, <3>2, <3>3, <2>2
  <2>5. q \in Nat /\ r \in Nat
    BY <1>1, ResourcesFinite
  <2> QED BY <2>4, <2>5
<1>5. ASSUME NEW c \in C PROVE \E r \in H : g[r] = c
  <2> DEFINE f == c[1]
             i == c[2]
             S == Held(table, f)
  <2>1. f \in Functions /\ i \in Nat /\ i >= 1 /\ i <= Cardinality(S) /\ c = <<f, i>>
    <3>1. CountOf(table)[f] = Cardinality(S) /\ c \in Functions \X (1..NR)
      BY DEF CountOf, Claims
    <3> QED BY <3>1, <1>0 DEF Claims
  <2>2. S \subseteq Resources /\ IsFiniteSet(S) /\ Cardinality(S) \in Nat
        /\ \A r : Cardinality(Below(S, r)) \in Nat
    BY HeldFinite
  <2> HIDE DEF S, f, i
  <2>3. i - 1 \in Nat /\ i - 1 <= Cardinality(S)
    BY <2>1, <2>2
  <2>4. Cardinality(First(S, i)) = i /\ Cardinality(First(S, i - 1)) = i - 1
    BY <2>1, <2>2, <2>3, FirstCount
  <2>5. First(S, i) \subseteq S /\ First(S, i - 1) \subseteq S
    BY DEF First
  <2>6. PICK r \in First(S, i) : r \notin First(S, i - 1)
    <3> SUFFICES ASSUME First(S, i) \subseteq First(S, i - 1) PROVE FALSE
      OBVIOUS
    <3>1. First(S, i - 1) \subseteq Resources
      BY <2>2, <2>5
    <3>2. IsFiniteSet(First(S, i - 1))
      BY <3>1, SubsetsFinite
    <3>3. Cardinality(First(S, i)) <= Cardinality(First(S, i - 1))
      BY <3>2, FS_Subset
    <3> QED BY <3>3, <2>1, <2>4
  <2>7. r \in S /\ Cardinality(Below(S, r)) < i /\ ~(Cardinality(Below(S, r)) < i - 1)
    BY <2>5, <2>6 DEF First, Below
  <2>8. Cardinality(Below(S, r)) + 1 = i
    BY <2>1, <2>2, <2>7
  <2>9. r \in H /\ table[r] = f
    BY <2>7, <2>1, <1>0 DEF S, Held
  <2>10. g[r] = c
    BY <2>1, <2>8, <2>9, <1>2 DEF S
  <2> QED BY <2>9, <2>10
<1> HIDE DEF H, C, g
<1>6. g \in Bijection(H, C)
  BY <1>3, <1>4, <1>5 DEF Bijection, Injection, Surjection, IsInjective
<1> QED BY <1>6 DEF H, C, g

(* Claims and free resources of a table are all there is.                  *)
LEMMA ClaimsOfTable ==
    ASSUME NEW table \in Tables
    PROVE  /\ IsFiniteSet(Claims(CountOf(table)))
           /\ Cardinality(Claims(CountOf(table))) \in Nat
           /\ Cardinality(Claims(CountOf(table))) + Cardinality(Held(table, NoOne)) = NR
<1> DEFINE H == Resources \ Held(table, NoOne)
           C == Claims(CountOf(table))
<1>1. /\ IsFiniteSet(H)
      /\ Cardinality(H) = NR - Cardinality(Resources \cap Held(table, NoOne))
  BY ResourcesFinite, FS_Difference
<1>2. Resources \cap Held(table, NoOne) = Held(table, NoOne)
  BY DEF Held
<1>3. ExistsBijection(H, C)
  BY ClaimIsBijection DEF ExistsBijection
<1> HIDE DEF H, C
<1>4. IsFiniteSet(C) /\ Cardinality(C) = Cardinality(H)
  BY <1>1, <1>3, FS_Bijection
<1>5. Cardinality(C) \in Nat
  BY <1>4, FS_CardinalityType
<1>6. Cardinality(Held(table, NoOne)) \in 0..NR /\ NR \in Nat
  BY HeldFinite, TableAssumption
<1>7. Cardinality(C) = NR - Cardinality(Held(table, NoOne))
  BY <1>1, <1>2, <1>4
<1>8. Cardinality(C) + Cardinality(Held(table, NoOne)) = NR
  BY <1>5, <1>6, <1>7
<1> QED BY <1>4, <1>5, <1>8 DEF C

(* A change of one count changes the claims by as much.                    *)
LEMMA ClaimsChange ==
    ASSUME NEW cnt \in [Functions -> 0..NR], IsFiniteSet(Claims(cnt)),
           NEW f \in Functions, NEW n \in 0..NR
    PROVE  LET new == [cnt EXCEPT ![f] = n]
           IN  /\ IsFiniteSet(Claims(new))
               /\ Cardinality(Claims(new)) = Cardinality(Claims(cnt)) - cnt[f] + n
<1> DEFINE Rest(c) == {p \in Claims(c) : p[1] # f}
           Own(k) == {f} \X (1..k)
           new == [cnt EXCEPT ![f] = n]
<1>0. NR \in Nat
  BY TableAssumption
<1>1. ASSUME NEW c \in [Functions -> 0..NR]
      PROVE  Claims(c) = Rest(c) \cup Own(c[f]) /\ Rest(c) \cap Own(c[f]) = {}
  <2>1. c[f] \in 0..NR
    OBVIOUS
  <2>2. \A p \in Claims(c) : p[1] = f => p \in Own(c[f])
    BY <1>0, <2>1 DEF Claims
  <2>3. Own(c[f]) \subseteq Claims(c)
    BY <1>0, <2>1 DEF Claims
  <2>4. \A p \in Own(c[f]) : p[1] = f
    OBVIOUS
  <2> QED BY <2>2, <2>3, <2>4
<1>2. ASSUME NEW k \in 0..NR PROVE IsFiniteSet(Own(k)) /\ Cardinality(Own(k)) = k
  <2>1. IsFiniteSet(1..k) /\ Cardinality(1..k) = k
    <3>1. 1 \in Int /\ k \in Int /\ k >= 0
      BY <1>0
    <3>2. IsFiniteSet(1..k) /\ Cardinality(1..k) = IF 1 > k THEN 0 ELSE k - 1 + 1
      BY <3>1, FS_Interval
    <3> QED BY <3>1, <3>2
  <2>2. IsFiniteSet({f}) /\ Cardinality({f}) = 1
    BY FS_Singleton
  <2>3. IsFiniteSet(Own(k)) /\ Cardinality(Own(k)) = Cardinality({f}) * Cardinality(1..k)
    BY <2>1, <2>2, FS_Product
  <2> QED BY <2>1, <2>2, <2>3, <1>0
<1>3. ASSUME NEW c \in [Functions -> 0..NR], IsFiniteSet(Rest(c))
      PROVE  /\ IsFiniteSet(Claims(c))
             /\ Cardinality(Claims(c)) = Cardinality(Rest(c)) + c[f]
  <2>1. IsFiniteSet(Own(c[f])) /\ Cardinality(Own(c[f])) = c[f] /\ c[f] \in 0..NR
    BY <1>2
  <2>2. Claims(c) = Rest(c) \cup Own(c[f]) /\ Rest(c) \cap Own(c[f]) = {}
    BY <1>1
  <2>3. Cardinality(Rest(c)) \in Nat
    BY <1>3, FS_CardinalityType
  <2> HIDE DEF Rest, Own
  <2>4. /\ IsFiniteSet(Rest(c) \cup Own(c[f]))
        /\ Cardinality(Rest(c) \cup Own(c[f]))
             = Cardinality(Rest(c)) + Cardinality(Own(c[f])) - Cardinality({})
    BY <1>3, <2>1, <2>2, FS_Union
  <2> QED BY <2>1, <2>2, <2>3, <2>4, <1>0, FS_EmptySet
<1>4. new \in [Functions -> 0..NR] /\ new[f] = n
  OBVIOUS
<1>5. Rest(new) = Rest(cnt)
  <2>1. \A p \in Functions \X (1..NR) : p[1] # f => new[p[1]] = cnt[p[1]]
    OBVIOUS
  <2> QED BY <2>1 DEF Claims
<1>6. IsFiniteSet(Rest(cnt)) /\ Cardinality(Rest(cnt)) \in Nat
  <2>1. Rest(cnt) \subseteq Claims(cnt)
    OBVIOUS
  <2> QED BY <2>1, FS_Subset, FS_CardinalityType
<1> HIDE DEF Rest, Own, new
<1>7. /\ IsFiniteSet(Claims(new)) /\ Cardinality(Claims(new)) = Cardinality(Rest(cnt)) + n
      /\ Cardinality(Claims(cnt)) = Cardinality(Rest(cnt)) + cnt[f]
  BY <1>3, <1>4, <1>5, <1>6
<1>8. cnt[f] \in 0..NR
  OBVIOUS
<1> QED BY <1>0, <1>6, <1>7, <1>8 DEF new

-----------------------------------------------------------------------------
(* The table of resources *)

(* What makes the counts of the table inductive: a function owns no more   *)
(* than it is charged with, and what is charged and what is free add up,   *)
(* also when the table was thrown away after it had been counted.          *)
Charged ==
    /\ \A f \in Functions : Cardinality(Owned(f)) <= res_cnt[f]
    /\ IsFiniteSet(Claims(res_cnt))
    /\ free_resource_cnt + Cardinality(Claims(res_cnt)) = NR

TableInv == TableTypeOK /\ Charged /\ CountsExact

LEMMA OwnedIsHeld == \A f : Owned(f) = Held(owner, f)
  BY DEF Owned, Held

(* A function that owns no more than it is charged with takes nothing from *)
(* what is counted as free.                                                *)
LEMMA ChargedCovers == TableTypeOK /\ Charged => NeverOverdrawn
<1> SUFFICES ASSUME TableTypeOK, Charged PROVE NeverOverdrawn
  OBVIOUS
<1>1. owner \in Tables
  BY DEF TableTypeOK, Tables
<1>2. Claims(CountOf(owner)) \subseteq Claims(res_cnt)
  <2> SUFFICES ASSUME NEW p \in Claims(CountOf(owner)) PROVE p \in Claims(res_cnt)
    OBVIOUS
  <2>1. p \in Functions \X (1..NR) /\ p[2] <= CountOf(owner)[p[1]]
    BY DEF Claims
  <2>2. p[1] \in Functions /\ p[2] \in Nat
    BY <2>1, TableAssumption
  <2>3. CountOf(owner)[p[1]] = Cardinality(Owned(p[1]))
    BY <2>2, OwnedIsHeld DEF CountOf
  <2>4. Cardinality(Owned(p[1])) \in Nat
    BY OwnedIsHeld, HeldFinite
  <2>5. Cardinality(Owned(p[1])) <= res_cnt[p[1]] /\ res_cnt[p[1]] \in Nat
    BY <2>2, TableAssumption DEF Charged, TableTypeOK
  <2>6. p[2] <= res_cnt[p[1]]
    BY <2>1, <2>2, <2>3, <2>4, <2>5
  <2> QED BY <2>1, <2>6 DEF Claims
<1>3. Cardinality(Claims(CountOf(owner))) <= Cardinality(Claims(res_cnt))
  BY <1>2, FS_Subset DEF Charged
<1>4. Cardinality(Claims(CountOf(owner))) \in Nat
      /\ Cardinality(Claims(CountOf(owner))) + Cardinality(Free) = NR
  BY <1>1, ClaimsOfTable, OwnedIsHeld DEF Free
<1>5. Cardinality(Claims(res_cnt)) \in Nat /\ Cardinality(Free) \in Nat
  BY FS_CardinalityType, HeldFinite, OwnedIsHeld DEF Charged, Free
<1>6. free_resource_cnt \in Nat /\ NR \in Nat
  BY TableAssumption DEF TableTypeOK
<1>7. free_resource_cnt + Cardinality(Claims(res_cnt)) = NR
  BY DEF Charged
<1>8. free_resource_cnt <= Cardinality(Free)
  BY <1>3, <1>4, <1>5, <1>6, <1>7
<1> QED BY <1>8 DEF NeverOverdrawn, Charged

(* The counts of an empty table.                                           *)
LEMMA EmptyTable ==
    /\ Empty \in Tables
    /\ \A f \in Functions : Held(Empty, f) = {} /\ Cardinality(Held(Empty, f)) = 0
    /\ Held(Empty, NoOne) = Resources /\ Cardinality(Held(Empty, NoOne)) = NR
    /\ CountOf(Empty) = [f \in Functions |-> 0]
<1>1. Empty \in Tables
  BY DEF Empty, Tables
<1>2. \A f \in Functions : Held(Empty, f) = {}
  BY TableAssumption DEF Held, Empty
<1>3. Held(Empty, NoOne) = Resources
  BY DEF Held, Empty
<1>4. Cardinality({}) = 0
  BY FS_EmptySet
<1>5. CountOf(Empty) = [f \in Functions |-> 0]
  BY <1>2, <1>4 DEF CountOf
<1> QED BY <1>1, <1>2, <1>3, <1>4, <1>5, ResourcesFinite

LEMMA EmptyInv ==
    ASSUME owner = Empty, crc \in Tables, res_cnt = [f \in Functions |-> 0],
           free_resource_cnt = NR, stale \in BOOLEAN
    PROVE  TableInv
<1>0. NR \in Nat
  BY TableAssumption
<1>1. TableTypeOK
  BY <1>0, EmptyTable DEF TableTypeOK, Tables
<1>2. /\ \A f \in Functions : Cardinality(Owned(f)) = 0 /\ res_cnt[f] = 0
      /\ Cardinality(Free) = NR
  BY EmptyTable, OwnedIsHeld DEF Free
<1>3. IsFiniteSet(Claims(res_cnt)) /\ Cardinality(Claims(res_cnt)) + NR = NR
      /\ Cardinality(Claims(res_cnt)) \in Nat
  BY EmptyTable, ClaimsOfTable
<1>4. Charged
  BY <1>0, <1>2, <1>3 DEF Charged
<1>5. CountsExact
  BY <1>2 DEF CountsExact
<1> QED BY <1>1, <1>4, <1>5 DEF TableInv

LEMMA ResetKeeps == TableInv /\ ResetTable => TableInv'
<1> SUFFICES ASSUME TableInv, ResetTable PROVE TableInv'
  OBVIOUS
<1>1. (owner = Empty /\ crc \in Tables /\ res_cnt = [f \in Functions |-> 0]
         /\ free_resource_cnt = NR /\ stale \in BOOLEAN => TableInv)'
  BY EmptyInv, PTL
<1>2. Empty' = Empty /\ Tables' = Tables
  BY DEF Empty, Tables, Resources
<1>3. crc \in Tables
  BY DEF TableInv, TableTypeOK, Tables
<1> QED BY <1>1, <1>2, <1>3 DEF ResetTable

LEMMA NewKeeps ==
    ASSUME TableInv, NEW table \in Tables, New(table)
    PROVE  TableInv'
<1>0. NR \in Nat
  BY TableAssumption
<1>1. res_cnt' = CountOf(table) /\ free_resource_cnt' = Cardinality(Held(table, NoOne))
  BY DEF New, CountOf, Held
<1>2. /\ owner' \in {table, Empty} /\ crc' = owner' /\ stale' \in BOOLEAN
      /\ ~stale' => owner' = table
  BY DEF New
<1>3. \A f \in Functions : res_cnt'[f] = Cardinality(Held(table, f))
  BY <1>1 DEF CountOf
<1>4. TableTypeOK'
  <2>1. owner' \in Tables
    BY <1>2, EmptyTable
  <2>2. \A f : Cardinality(Held(table, f)) \in 0..NR
    BY HeldFinite
  <2>3. res_cnt' \in [Functions -> 0..NR]
    BY <1>1, <2>2 DEF CountOf
  <2> QED BY <1>1, <1>2, <2>1, <2>2, <2>3 DEF TableTypeOK, Tables
<1>5. \A f : Owned(f)' = Held(owner', f)
  BY DEF Owned, Held
<1>6. \A f \in Functions : Cardinality(Held(owner', f)) <= Cardinality(Held(table, f))
  <2> TAKE f \in Functions
  <2>1. Cardinality(Held(table, f)) \in Nat
    BY HeldFinite, <1>0
  <2>2. CASE owner' = table
    BY <2>1, <2>2
  <2>3. CASE owner' = Empty
    BY <2>1, <2>3, EmptyTable
  <2> QED BY <1>2, <2>2, <2>3
<1>7. Charged'
  <2>1. IsFiniteSet(Claims(CountOf(table))) /\ Cardinality(Claims(CountOf(table))) \in Nat
        /\ Cardinality(Claims(CountOf(table))) + Cardinality(Held(table, NoOne)) = NR
    BY ClaimsOfTable
  <2>2. Cardinality(Held(table, NoOne)) \in Nat
    BY HeldFinite, <1>0
  <2>3. /\ IsFiniteSet(Claims(res_cnt'))
        /\ free_resource_cnt' + Cardinality(Claims(res_cnt')) = NR
    BY <1>1, <2>1, <2>2
  <2>4. Claims(res_cnt)' = Claims(res_cnt')
    BY DEF Claims
  <2>5. \A f \in Functions : Cardinality(Owned(f))' <= res_cnt'[f]
    BY <1>3, <1>5, <1>6
  <2> QED BY <2>3, <2>4, <2>5 DEF Charged
<1>8. CountsExact'
  <2> SUFFICES ASSUME ~stale'
               PROVE  /\ free_resource_cnt' = Cardinality(Free)'
                      /\ \A f \in Functions : res_cnt'[f] = Cardinality(Owned(f))'
    BY DEF CountsExact
  <2>1. owner' = table
    BY <1>2
  <2> QED BY <2>1, <1>1, <1>3, <1>5 DEF Free
<1> QED BY <1>4, <1>7, <1>8 DEF TableInv

(* What set_res_cnt has written of a change after k entries is a table.    *)
LEMMA WrittenType ==
    ASSUME TableTypeOK, NEW f \in Functions, NEW n, NEW k
    PROVE  Written(f, n, k) \in Tables
  BY DEF Written, Tables, TableTypeOK

(* The entries of S go to x *)
Given(new, table, S, x) == new = [r \in Resources |-> IF r \in S THEN x ELSE table[r]]

(* A change of d entries between a function and the free ones, where       *)
(* exactly d or, of a function that owns less, all of them change.         *)
LEMMA MoreHeld ==
    ASSUME NEW table \in Tables, NEW f \in Functions, NEW S, S \subseteq Held(table, NoOne),
           NEW new, Given(new, table, S, f)
    PROVE  /\ Cardinality(Held(new, f)) = Cardinality(Held(table, f)) + Cardinality(S)
           /\ Cardinality(Held(new, NoOne)) = Cardinality(Held(table, NoOne)) - Cardinality(S)
           /\ \A g \in Functions \ {f} : Held(new, g) = Held(table, g)
<1>0. NoOne \notin Functions /\ S \subseteq Resources
  BY TableAssumption DEF Held
<1>1. Held(new, f) = Held(table, f) \cup S /\ Held(table, f) \cap S = {}
  BY <1>0 DEF Held, Given
<1>2. Held(new, NoOne) = Held(table, NoOne) \ S /\ Held(table, NoOne) \cap S = S
  BY <1>0 DEF Held, Given
<1>3. \A g \in Functions \ {f} : Held(new, g) = Held(table, g)
  BY <1>0 DEF Held, Given
<1>4. IsFiniteSet(S) /\ Cardinality(S) \in Nat
  BY <1>0, SubsetsFinite
<1>5. \A g : IsFiniteSet(Held(table, g)) /\ Cardinality(Held(table, g)) \in Nat
  BY HeldFinite, TableAssumption
<1>6. Cardinality(Held(table, f) \cup S)
        = Cardinality(Held(table, f)) + Cardinality(S) - Cardinality({})
  BY <1>1, <1>4, <1>5, FS_Union
<1>7. Cardinality(Held(table, NoOne) \ S) = Cardinality(Held(table, NoOne)) - Cardinality(S)
  BY <1>2, <1>5, FS_Difference
<1>8. Cardinality(Held(new, f)) = Cardinality(Held(table, f)) + Cardinality(S)
  BY <1>1, <1>4, <1>5, <1>6, FS_EmptySet
<1> QED BY <1>2, <1>3, <1>7, <1>8

LEMMA LessHeld ==
    ASSUME NEW table \in Tables, NEW f \in Functions, NEW S, S \subseteq Held(table, f),
           NEW new, Given(new, table, S, NoOne)
    PROVE  /\ Cardinality(Held(new, f)) = Cardinality(Held(table, f)) - Cardinality(S)
           /\ Cardinality(Held(new, NoOne)) = Cardinality(Held(table, NoOne)) + Cardinality(S)
           /\ \A g \in Functions \ {f} : Held(new, g) = Held(table, g)
<1>0. NoOne \notin Functions /\ S \subseteq Resources
  BY TableAssumption DEF Held
<1>1. Held(new, NoOne) = Held(table, NoOne) \cup S /\ Held(table, NoOne) \cap S = {}
  BY <1>0 DEF Held, Given
<1>2. Held(new, f) = Held(table, f) \ S /\ Held(table, f) \cap S = S
  BY <1>0 DEF Held, Given
<1>3. \A g \in Functions \ {f} : Held(new, g) = Held(table, g)
  BY <1>0 DEF Held, Given
<1>4. IsFiniteSet(S) /\ Cardinality(S) \in Nat
  BY <1>0, SubsetsFinite
<1>5. \A g : IsFiniteSet(Held(table, g)) /\ Cardinality(Held(table, g)) \in Nat
  BY HeldFinite, TableAssumption
<1>6. Cardinality(Held(table, NoOne) \cup S)
        = Cardinality(Held(table, NoOne)) + Cardinality(S) - Cardinality({})
  BY <1>1, <1>4, <1>5, FS_Union
<1>7. Cardinality(Held(table, f) \ S) = Cardinality(Held(table, f)) - Cardinality(S)
  BY <1>2, <1>5, FS_Difference
<1>8. Cardinality(Held(new, NoOne)) = Cardinality(Held(table, NoOne)) + Cardinality(S)
  <2>1. Cardinality({}) = 0
    BY FS_EmptySet
  <2>2. Cardinality(Held(table, NoOne)) \in Nat
    BY <1>5
  <2> QED BY <1>1, <1>4, <1>6, <2>1, <2>2
<1> QED BY <1>2, <1>3, <1>7, <1>8

(* The table that set_res_cnt leaves.                                      *)
LEMMA WrittenCounts ==
    ASSUME TableInv, NEW f \in Functions, NEW n \in 0..NR, Possible(f, n)
    PROVE  LET new == Written(f, n, NR)
           IN  /\ new \in Tables
               /\ \A g \in Functions \ {f} : Held(new, g) = Held(owner, g)
               /\ Cardinality(Held(new, f)) <= n
               /\ ~stale => /\ Cardinality(Held(new, f)) = n
                            /\ Cardinality(Held(new, NoOne)) = free_resource_cnt + res_cnt[f] - n
<1> DEFINE new == Written(f, n, NR)
           c == res_cnt[f]
           H == Cardinality(Held(owner, f))
           F == Cardinality(Held(owner, NoOne))
<1>0. owner \in Tables /\ NR \in Nat /\ c \in 0..NR /\ n \in Nat /\ free_resource_cnt \in 0..NR
  BY TableAssumption DEF TableInv, TableTypeOK, Tables
<1>1. new \in Tables
  BY WrittenType DEF TableInv
<1>2. H \in Nat /\ F \in Nat /\ H <= c /\ free_resource_cnt <= F
  BY <1>0, HeldFinite, ChargedCovers, OwnedIsHeld DEF TableInv, NeverOverdrawn, Free
<1>3. ~stale => H = c /\ F = free_resource_cnt
  BY OwnedIsHeld DEF TableInv, CountsExact, Free
<1>4. Owned(f) = Held(owner, f) /\ Free = Held(owner, NoOne)
  BY OwnedIsHeld DEF Free
<1>5. CASE n > c
  <2> DEFINE S == First(Held(owner, NoOne), n - c)
  <2>1. (IF NR < n - c THEN NR ELSE n - c) = n - c /\ n - c \in Nat /\ ~(n < c)
    BY <1>0, <1>5
  <2>2. Given(new, owner, S, f)
    BY <1>4, <1>5, <2>1 DEF Written, Given
  <2>3. n - c <= F
    BY <1>0, <1>2 DEF Possible
  <2>4. S \subseteq Held(owner, NoOne) /\ Cardinality(S) = n - c
    BY <2>1, <2>3, FirstCount, HeldFinite
  <2> HIDE DEF S, new
  <2>5. /\ Cardinality(Held(new, f)) = H + Cardinality(S)
        /\ Cardinality(Held(new, NoOne)) = F - Cardinality(S)
        /\ \A g \in Functions \ {f} : Held(new, g) = Held(owner, g)
    BY <2>2, <2>4, <1>0, MoreHeld
  <2> HIDE DEF new, H, F, c
  <2> QED BY <1>0, <1>1, <1>2, <1>3, <2>1, <2>4, <2>5 DEF new, c
<1>6. CASE n < c
  <2> DEFINE S == First(Held(owner, f), c - n)
  <2>1. (IF NR < c - n THEN NR ELSE c - n) = c - n /\ c - n \in Nat /\ ~(n > c)
    BY <1>0, <1>6
  <2>2. Given(new, owner, S, NoOne)
    BY <1>4, <1>6, <2>1 DEF Written, Given
  <2>3. /\ S \subseteq Held(owner, f)
        /\ c - n <= H => Cardinality(S) = c - n
        /\ c - n >= H => S = Held(owner, f)
    BY <2>1, FirstCount, HeldFinite
  <2> HIDE DEF S, new
  <2>4. /\ Cardinality(Held(new, f)) = H - Cardinality(S)
        /\ Cardinality(Held(new, NoOne)) = F + Cardinality(S)
        /\ \A g \in Functions \ {f} : Held(new, g) = Held(owner, g)
    BY <2>2, <2>3, <1>0, LessHeld
  <2>5. Cardinality(S) = IF c - n <= H THEN c - n ELSE H
    BY <1>0, <1>2, <2>1, <2>3
  <2> HIDE DEF new, H, F, c
  <2> QED BY <1>0, <1>1, <1>2, <1>3, <2>1, <2>4, <2>5 DEF new, c
<1>7. CASE n = c
  <2>1. ~(n > c) /\ ~(n < c)
    BY <1>0, <1>7
  <2>2. new = owner
    BY <2>1, <1>0 DEF Written, Tables
  <2> QED BY <1>0, <1>1, <1>2, <1>3, <1>7, <2>2
<1> QED BY <1>0, <1>5, <1>6, <1>7

LEMMA SetResCntKeeps ==
    ASSUME TableInv, NEW f \in Functions, NEW n \in 0..NR, SetResCnt(f, n)
    PROVE  TableInv'
<1> DEFINE C == Cardinality(Claims(res_cnt))
<1>0. NR \in Nat /\ res_cnt \in [Functions -> 0..NR] /\ free_resource_cnt \in 0..NR
      /\ crc \in Tables /\ stale \in BOOLEAN /\ n \in Nat
  BY TableAssumption DEF TableInv, TableTypeOK, Tables
<1>1. /\ owner' = Written(f, n, NR) /\ Possible(f, n)
      /\ free_resource_cnt' = free_resource_cnt + res_cnt[f] - n
      /\ res_cnt' = [res_cnt EXCEPT ![f] = n]
      /\ crc' \in {owner', crc} /\ stale' = stale
  BY DEF SetResCnt
<1>2. /\ owner' \in Tables
      /\ \A g \in Functions \ {f} : Held(owner', g) = Held(owner, g)
      /\ Cardinality(Held(owner', f)) <= n
      /\ ~stale => /\ Cardinality(Held(owner', f)) = n
                   /\ Cardinality(Held(owner', NoOne)) = free_resource_cnt + res_cnt[f] - n
  BY <1>1, WrittenCounts
<1>3. \A g : Owned(g)' = Held(owner', g)
  BY DEF Owned, Held
<1>4. res_cnt' \in [Functions -> 0..NR] /\ res_cnt'[f] = n
      /\ \A g \in Functions \ {f} : res_cnt'[g] = res_cnt[g]
  BY <1>0, <1>1
<1>5. Charged'
  <2>1. IsFiniteSet(Claims(res_cnt)) /\ free_resource_cnt + C = NR
    BY DEF TableInv, Charged
  <2>2. C \in Nat
    BY <2>1, FS_CardinalityType
  <2>3. IsFiniteSet(Claims(res_cnt')) /\ Cardinality(Claims(res_cnt')) = C - res_cnt[f] + n
    BY <1>0, <1>1, <2>1, ClaimsChange
  <2>4. Claims(res_cnt)' = Claims(res_cnt')
    BY DEF Claims
  <2>5. res_cnt[f] \in 0..NR
    BY <1>0
  <2> HIDE DEF C
  <2>6. free_resource_cnt' + Cardinality(Claims(res_cnt')) = NR
    <3> DEFINE K == Cardinality(Claims(res_cnt'))
               old == res_cnt[f]
    <3>1. K = C - old + n /\ free_resource_cnt' = free_resource_cnt + old - n
      BY <1>1, <2>3
    <3>2. free_resource_cnt \in Int /\ old \in Int /\ n \in Int /\ C \in Int
      BY <1>0, <2>2, <2>5
    <3>3. free_resource_cnt + C = NR
      BY <2>1
    <3> HIDE DEF K, old
    <3>4. free_resource_cnt' + K = NR
      BY <3>1, <3>2, <3>3
    <3> QED BY <3>4 DEF K
  <2>7. \A g \in Functions : Cardinality(Owned(g))' <= res_cnt'[g]
    <3> SUFFICES ASSUME NEW g \in Functions PROVE Cardinality(Owned(g)') <= res_cnt'[g]
      OBVIOUS
    <3>1. CASE g = f
      BY <3>1, <1>2, <1>3, <1>4
    <3>2. CASE g # f
      <4>1. Cardinality(Owned(g)) <= res_cnt[g]
        BY DEF TableInv, Charged
      <4> QED BY <3>2, <4>1, <1>2, <1>3, <1>4, OwnedIsHeld
    <3> QED BY <3>1, <3>2
  <2> QED BY <2>3, <2>4, <2>6, <2>7 DEF Charged
<1>6. TableTypeOK'
  <2>1. crc' \in Tables
    BY <1>0, <1>1, <1>2
  <2>2. free_resource_cnt' \in 0..NR
    <3>1. free_resource_cnt' \in Int /\ free_resource_cnt' >= 0
      <4>1. res_cnt[f] \in 0..NR
        BY <1>0
      <4> QED BY <1>0, <1>1, <4>1 DEF Possible
    <3>2. Cardinality(Claims(res_cnt)') \in Nat /\ IsFiniteSet(Claims(res_cnt)')
          /\ free_resource_cnt' + Cardinality(Claims(res_cnt)') = NR
      <4>1. IsFiniteSet(Claims(res_cnt)')
            /\ free_resource_cnt' + Cardinality(Claims(res_cnt)') = NR
        BY <1>5 DEF Charged
      <4> QED BY <4>1, FS_CardinalityType
    <3> QED BY <1>0, <3>1, <3>2
  <2> QED BY <1>0, <1>1, <1>2, <1>4, <2>1, <2>2 DEF TableTypeOK, Tables
<1>7. CountsExact'
  <2> SUFFICES ASSUME ~stale'
               PROVE  /\ free_resource_cnt' = Cardinality(Free')
                      /\ \A g \in Functions : res_cnt'[g] = Cardinality(Owned(g)')
    BY DEF CountsExact
  <2>1. ~stale
    BY <1>1
  <2>2. free_resource_cnt' = Cardinality(Free')
    BY <2>1, <1>1, <1>2, <1>3 DEF Free
  <2> SUFFICES ASSUME NEW g \in Functions PROVE res_cnt'[g] = Cardinality(Owned(g)')
    BY <2>2
  <2>3. CASE g = f
    BY <2>1, <2>3, <1>2, <1>3, <1>4
  <2>4. CASE g # f
    <3>1. res_cnt[g] = Cardinality(Owned(g))
      BY <2>1 DEF TableInv, CountsExact
    <3> QED BY <2>4, <3>1, <1>2, <1>3, <1>4, OwnedIsHeld
  <2> QED BY <2>3, <2>4
<1> QED BY <1>5, <1>6, <1>7 DEF TableInv

LEMMA TableStep == TableInv /\ [TableNext]_tableVars => TableInv'
<1> SUFFICES ASSUME TableInv, [TableNext]_tableVars PROVE TableInv'
  OBVIOUS
<1>1. ASSUME NEW f \in Functions, NEW n \in 0..NR, SetResCnt(f, n) PROVE TableInv'
  BY <1>1, SetResCntKeeps
<1>2. CASE ResetTable
  BY <1>2, ResetKeeps
<1>3. CASE WarmBoot
  <2>1. owner \in Tables
    BY DEF TableInv, TableTypeOK, Tables
  <2> QED BY <1>3, <2>1, NewKeeps DEF WarmBoot
<1>4. ASSUME NEW f \in Functions, NEW n \in 0..NR, NEW k \in 0..NR, TornBoot(f, n, k)
      PROVE  TableInv'
  <2>1. Written(f, n, k) \in Tables
    BY WrittenType DEF TableInv
  <2> QED BY <1>4, <2>1, NewKeeps DEF TornBoot
<1>5. CASE UNCHANGED tableVars
  <2>1. owner' = owner /\ res_cnt' = res_cnt /\ free_resource_cnt' = free_resource_cnt
        /\ crc' = crc /\ stale' = stale
    BY <1>5 DEF tableVars
  <2> QED BY <2>1 DEF TableInv, TableTypeOK, Charged, CountsExact, Owned, Free, Claims
<1> QED BY <1>1, <1>2, <1>3, <1>4, <1>5 DEF TableNext

LEMMA TableBegins == TableInit => TableInv
<1> SUFFICES ASSUME TableInit PROVE TableInv
  OBVIOUS
<1>1. owner = Empty /\ crc \in Tables /\ res_cnt = [f \in Functions |-> 0]
      /\ free_resource_cnt = NR /\ stale \in BOOLEAN
  BY EmptyTable DEF TableInit
<1> QED BY <1>1, EmptyInv

(* Through allocation, release, resets and warm boots, with the table half *)
(* written or not, the counts that set_res_cnt decides by are those of the *)
(* table, except after a boot that threw the table away.                   *)
THEOREM CountsAreExact == TableSpec => []CountsExact
<1>1. TableInv => CountsExact
  BY DEF TableInv
<1> QED BY <1>1, TableBegins, TableStep, PTL DEF TableSpec

(* Even then the firmware never gives away a resource it does not have, or *)
(* charges a function with less than it owns.                              *)
THEOREM NothingOverdrawn == TableSpec => []NeverOverdrawn
<1>1. TableInv => NeverOverdrawn
  BY ChargedCovers DEF TableInv
<1> QED BY <1>1, TableBegins, TableStep, PTL DEF TableSpec
-----------------------------------------------------------------------------
(* SetResource.  Of the types only what the arguments need. *)

ShapeOK ==
    /\ cmd \in [Cmds -> [st : {"Idle", "WaitIpcChannel", "WaitIpcResponse"},
                         f : Functions \cup {NoOne}]]
    /\ cntrl \in [st : {"Idle", "WaitIpcChannel", "WaitIpcResponse"}, f : Functions \cup {NoOne}]
    /\ waiters \in Seq(Cmds \cup {"Cntrl"})
    /\ chan \in Cmds \cup {"Cntrl", NoOne}
    /\ req \in [op : {"None", "SetRes", "Enable", "Disable"},
                f : Functions \cup {NoOne}, mask : SUBSET Resources]
    /\ mask \in [Functions -> SUBSET Resources]
    /\ ident \in [Functions -> [id : Nat, key : Nat, valid : BOOLEAN]]
    /\ init \in [st : {"None", "WaitForPIDK", "GeneratingPartitionKey", "WaitForPct",
                       "WaitForSign", "WaitForVerify"},
                 f : Functions \cup {NoOne}, km : Nat]
    /\ keysOf \in [Resources -> [f : Functions \cup {NoOne}, t : Nat]]
    /\ tenancy \in [Functions -> Nat]

Busy(f) == \E c \in Cmds : cmd[c].f = f
Waits(c) == \E i \in 1..Len(waiters) : waiters[i] = c

(* Who holds the channel and who waits for it, as the states say *)
QueueOK ==
    /\ \A i, j \in 1..Len(waiters) : waiters[i] = waiters[j] => i = j
    /\ \A c \in Cmds : /\ Waits(c) <=> cmd[c].st = "WaitIpcChannel"
                       /\ chan = c <=> cmd[c].st = "WaitIpcResponse"
                       /\ cmd[c].f = NoOne <=> cmd[c].st = "Idle"
    /\ Waits("Cntrl") <=> cntrl.st = "WaitIpcChannel"
    /\ chan = "Cntrl" <=> cntrl.st = "WaitIpcResponse"
    /\ cntrl.f \in Functions <=> cntrl.st = "WaitIpcResponse"

(* What is under way on the HSM core belongs to the channel's holder, and  *)
(* there is at most one of a request, a response and an initialisation.    *)
TalkOK ==
    /\ chan = NoOne => req = NoMsg /\ rsp = NoRsp /\ init = NoInit
    /\ req # NoMsg => rsp = NoRsp /\ init = NoInit
    /\ rsp # NoRsp => init = NoInit
    /\ req.op = "None" <=> req = NoMsg
    /\ req.op = "SetRes" => chan \in Cmds /\ req.f = cmd[chan].f
    /\ req.op \in {"Enable", "Disable"} => chan = "Cntrl" /\ req.f = cntrl.f
    /\ init.st = "None" <=> init = NoInit
    /\ init # NoInit => chan \in Cmds /\ init.f = cmd[chan].f

(* A reset of the physical function finds no command under way *)
ResetAlone == flr # "None" => \A c \in Cmds : cmd[c] = Idle

(* The identity an initialisation is making is that of the tenancy *)
MakingOK ==
    init.st \notin {"None", "WaitForPIDK"} =>
        /\ init.km = tenancy[init.f] /\ ident[init.f].id = tenancy[init.f]

ChannelInv == ShapeOK /\ QueueOK /\ TalkOK /\ ResetAlone
IdentityInv == ChannelInv /\ MakingOK /\ IdentityCurrent

(* The HSM core has not yet seen what the last command of f changed *)
Unseen(c) == Waits(c) \/ (chan = c /\ req # NoMsg)
Pending(f) == \E c \in Cmds : cmd[c].f = f /\ Unseen(c)

(* c is seen by the HSM core before d *)
Before(c, d) ==
    \/ chan = c /\ req # NoMsg /\ Waits(d)
    \/ \E i, j \in 1..Len(waiters) : i < j /\ waiters[i] = c /\ waiters[j] = d

OneEach == \A c, d \in Cmds : c # d /\ cmd[c] # Idle => cmd[c].f # cmd[d].f
MaskCarried == req.op = "SetRes" => req.mask = Owned(req.f)

(* A partition has more than its function owns only until a release of     *)
(* everything reaches it                                                   *)
Within == \A f \in Functions : mask[f] \subseteq Owned(f)
                                 \/ (Pending(f) /\ Owned(f) = {})

(* A table that its next owner has and its last has not given up yet: the  *)
(* release is before the allocation                                        *)
ReleaseFirst ==
    \A f, g \in Functions : \A r \in Resources :
        f # g /\ r \in mask[f] /\ owner[r] = g =>
            \E c, d \in Cmds : cmd[c].f = f /\ cmd[d].f = g /\ Before(c, d)

KeysOwned == \A r \in Resources : keysOf[r] # NoKeys => keysOf[r].f \in Functions

Settled(f) == mask[f] = Owned(f) /\ (mask[f] # {} => ident[f].valid)
AllSettled ==
    /\ flr = "Admin" => \A f \in Functions : mask[f] = {}
    /\ flr # "Admin" => \A f \in Functions \ failed : ~Busy(f) => Settled(f)
    /\ chan \in Cmds /\ rsp = "Success" => Settled(cmd[chan].f)
    /\ init # NoInit => mask[init.f] = Owned(init.f)

TablesInv == /\ OneEach /\ MaskCarried /\ Within /\ ReleaseFirst
             /\ MasksApart /\ KeysOwned /\ TablesClean /\ AllSettled

LEMMA Appended ==
    ASSUME NEW S, NEW q \in Seq(S), NEW x \in S
    PROVE  /\ Append(q, x) \in Seq(S)
           /\ Len(Append(q, x)) = Len(q) + 1
           /\ \A i \in 1..Len(q) : Append(q, x)[i] = q[i]
           /\ Append(q, x)[Len(q) + 1] = x
  OBVIOUS

LEMMA Tailed ==
    ASSUME NEW S, NEW q \in Seq(S), q # <<>>
    PROVE  /\ Tail(q) \in Seq(S) /\ Len(q) > 0
           /\ Len(Tail(q)) = Len(q) - 1
           /\ \A i \in 1..Len(Tail(q)) : Tail(q)[i] = q[i + 1]
           /\ Head(q) = q[1]
  OBVIOUS

(* Who waits, after somebody has joined the queue *)
LEMMA Joined ==
    ASSUME NEW x, waiters \in Seq(Cmds \cup {"Cntrl"}), x \in Cmds \cup {"Cntrl"},
           waiters' = Append(waiters, x)
    PROVE  /\ \A c : Waits(c)' <=> Waits(c) \/ c = x
           /\ ~Waits(x) /\ (\A i, j \in 1..Len(waiters) : waiters[i] = waiters[j] => i = j)
              => \A i, j \in 1..Len(waiters') : waiters'[i] = waiters'[j] => i = j
<1> DEFINE n == Len(waiters)
<1>1. /\ Len(waiters') = n + 1 /\ n \in Nat
      /\ \A i \in 1..n : waiters'[i] = waiters[i]
      /\ waiters'[n + 1] = x
  BY Appended
<1> HIDE DEF n
<1>2. \A i \in 1..Len(waiters') : i \in 1..n \/ i = n + 1
  BY <1>1
<1>3. n + 1 \in 1..Len(waiters') /\ 1..n \subseteq 1..Len(waiters')
  BY <1>1
<1>4. \A c : Waits(c)' <=> Waits(c) \/ c = x
  BY <1>1, <1>2, <1>3 DEF Waits, n
<1> QED BY <1>1, <1>2, <1>4 DEF Waits, n

(* Who waits, after the first has left the queue *)
LEMMA Left ==
    ASSUME waiters \in Seq(Cmds \cup {"Cntrl"}), waiters # <<>>, waiters' = Tail(waiters),
           \A i, j \in 1..Len(waiters) : waiters[i] = waiters[j] => i = j
    PROVE  /\ \A c : Waits(c)' <=> Waits(c) /\ c # Head(waiters)
           /\ Waits(Head(waiters))
           /\ \A i, j \in 1..Len(waiters') : waiters'[i] = waiters'[j] => i = j
<1> DEFINE n == Len(waiters)
<1>1. /\ Len(waiters') = n - 1 /\ n \in Nat /\ n > 0
      /\ \A i \in 1..Len(waiters') : waiters'[i] = waiters[i + 1]
      /\ Head(waiters) = waiters[1]
  BY Tailed
<1> HIDE DEF n
<1>2. \A i \in 1..Len(waiters') : i + 1 \in 1..n /\ i + 1 # 1
  BY <1>1
<1>3. \A i \in 1..n : i # 1 => i - 1 \in 1..Len(waiters') /\ (i - 1) + 1 = i
  BY <1>1
<1>4. 1 \in 1..n
  BY <1>1
<1>5. ASSUME NEW c PROVE Waits(c)' <=> Waits(c) /\ c # Head(waiters)
  <2>1. Waits(c)' => Waits(c) /\ c # Head(waiters)
    BY <1>1, <1>2, <1>4 DEF Waits, n
  <2>2. ASSUME Waits(c), c # Head(waiters) PROVE Waits(c)'
    <3>1. PICK i \in 1..n : waiters[i] = c
      BY <2>2 DEF Waits, n
    <3>2. i # 1
      BY <2>2, <3>1, <1>1
    <3>3. i - 1 \in 1..Len(waiters') /\ waiters'[i - 1] = c
      BY <1>1, <1>3, <3>1, <3>2
    <3> QED BY <3>3 DEF Waits
  <2> QED BY <2>1, <2>2
<1>6. Waits(Head(waiters))
  BY <1>1, <1>4 DEF Waits, n
<1>7. ASSUME NEW i \in 1..Len(waiters'), NEW j \in 1..Len(waiters'), waiters'[i] = waiters'[j]
      PROVE  i = j
  <2>1. waiters[i + 1] = waiters[j + 1] /\ i + 1 \in 1..n /\ j + 1 \in 1..n
    BY <1>1, <1>2, <1>7
  <2>2. i + 1 = j + 1
    BY <2>1 DEF n
  <2> QED BY <2>2
<1> QED BY <1>5, <1>6, <1>7

LEMMA ChannelBegins == Init => ChannelInv
<1> SUFFICES ASSUME Init PROVE ChannelInv
  OBVIOUS
<1>1. ShapeOK
  BY SetResAssumption DEF Init, ShapeOK, Idle, NoMsg, NoInit, NoIdent, NoKeys
<1>2. \A c : ~Waits(c)
  BY DEF Init, Waits
<1>3. QueueOK
  BY <1>2, SetResAssumption, TableAssumption DEF Init, QueueOK, Idle
<1> QED BY <1>1, <1>3 DEF Init, ChannelInv, TalkOK, ResetAlone, NoMsg, NoInit, NoRsp

(* Whose partition the HSM core is working on *)
LEMMA Worked ==
    ASSUME ChannelInv
    PROVE  /\ req.op = "SetRes" => /\ chan \in Cmds /\ cmd[chan].st = "WaitIpcResponse"
                                   /\ req.f = cmd[chan].f /\ req.f \in Functions
                                   /\ flr = "None"
           /\ req.op \in {"Enable", "Disable"} => req.f \in Functions
           /\ init.st # "None" => /\ chan \in Cmds /\ cmd[chan].st = "WaitIpcResponse"
                                  /\ init.f = cmd[chan].f /\ init.f \in Functions
                                  /\ req = NoMsg /\ rsp = NoRsp /\ flr = "None"
<1>1. ASSUME chan \in Cmds
      PROVE  cmd[chan].st = "WaitIpcResponse" /\ cmd[chan].f \in Functions /\ flr = "None"
  BY <1>1 DEF ChannelInv, ShapeOK, QueueOK, ResetAlone, Idle
<1> QED BY <1>1 DEF ChannelInv, ShapeOK, QueueOK, TalkOK

LEMMA StartsChannel ==
    ASSUME ChannelInv, NEW c \in Cmds, NEW f \in Functions, NEW n \in 0..NR,
           OnStart(c, f, n)
    PROVE  ChannelInv'
<1>1. /\ cmd[c] = Idle /\ flr = "None" /\ flr' = flr
      /\ UNCHANGED <<cntrl, rsp, mask, ident, init, keysOf, tenancy>>
  BY DEF OnStart, hsmVars
<1>2. f # NoOne /\ c # "Cntrl" /\ NoOne \notin Cmds /\ NoOne # "Cntrl"
  BY TableAssumption, SetResAssumption
<1>3. CASE UNCHANGED <<cmd, chan, waiters, req>>
  BY SMTT(30), <1>1, <1>3 DEF ChannelInv, ShapeOK, QueueOK, TalkOK, ResetAlone, Waits
<1>4. CASE /\ Available /\ chan' = c /\ req' = SetResMsg(f, owner')
           /\ cmd' = [cmd EXCEPT ![c] = [st |-> "WaitIpcResponse", f |-> f]]
           /\ waiters' = waiters
  <2>1. chan = NoOne /\ waiters = <<>>
    BY <1>4 DEF Available
  <2>2. ShapeOK'
    BY <1>1, <1>4 DEF ChannelInv, ShapeOK, SetResMsg
  <2>3. QueueOK'
    <3>1. \A d : Waits(d)' <=> Waits(d)
      BY <1>4 DEF Waits
    <3>2. /\ cmd'[c] = [st |-> "WaitIpcResponse", f |-> f]
          /\ \A d \in Cmds \ {c} : cmd'[d] = cmd[d]
      BY <1>4 DEF ChannelInv, ShapeOK
    <3> QED BY <1>1, <1>2, <1>4, <2>1, <3>1, <3>2 DEF ChannelInv, QueueOK, Idle
  <2>4. TalkOK'
    BY <1>1, <1>2, <1>4, <2>1 DEF ChannelInv, ShapeOK, TalkOK, SetResMsg, NoMsg
  <2> QED BY <1>1, <2>2, <2>3, <2>4 DEF ChannelInv, ResetAlone
<1>5. CASE /\ waiters' = Append(waiters, c)
           /\ cmd' = [cmd EXCEPT ![c] = [st |-> "WaitIpcChannel", f |-> f]]
           /\ UNCHANGED <<chan, req>>
  <2>1. ~Waits(c) /\ waiters \in Seq(Cmds \cup {"Cntrl"})
    BY <1>1 DEF ChannelInv, ShapeOK, QueueOK, Idle
  <2>2. /\ \A d : Waits(d)' <=> Waits(d) \/ d = c
        /\ (\A i, j \in 1..Len(waiters) : waiters[i] = waiters[j] => i = j)
           => \A i, j \in 1..Len(waiters') : waiters'[i] = waiters'[j] => i = j
    BY <1>5, <2>1, Joined
  <2>3. ShapeOK'
    <3>1. waiters' \in Seq(Cmds \cup {"Cntrl"})
      BY <1>5, <2>1, Appended
    <3>2. cmd' = [cmd EXCEPT ![c] = [st |-> "WaitIpcChannel", f |-> f]] /\ UNCHANGED <<chan, req>>
      BY <1>5
    <3> QED BY SMTT(30), <1>1, <3>1, <3>2 DEF ChannelInv, ShapeOK
  <2>4. QueueOK'
    <3>1. /\ cmd'[c] = [st |-> "WaitIpcChannel", f |-> f]
          /\ \A d \in Cmds \ {c} : cmd'[d] = cmd[d]
      BY <1>5 DEF ChannelInv, ShapeOK
    <3>2. \A d \in Cmds : /\ Waits(d) <=> cmd[d].st = "WaitIpcChannel"
                          /\ chan = d <=> cmd[d].st = "WaitIpcResponse"
                          /\ cmd[d].f = NoOne <=> cmd[d].st = "Idle"
      BY DEF ChannelInv, QueueOK
    <3>3. ASSUME NEW d \in Cmds
          PROVE  /\ Waits(d)' <=> cmd'[d].st = "WaitIpcChannel"
                 /\ chan' = d <=> cmd'[d].st = "WaitIpcResponse"
                 /\ cmd'[d].f = NoOne <=> cmd'[d].st = "Idle"
      <4>1. CASE d = c
        <5>1. chan # c
          BY <1>1, <3>2 DEF Idle
        <5> QED BY <1>2, <1>5, <2>2, <3>1, <4>1, <5>1
      <4>2. CASE d # c
        BY <1>5, <2>2, <3>1, <3>2, <4>2
      <4> QED BY <4>1, <4>2
    <3>4. (Waits("Cntrl")' <=> Waits("Cntrl")) /\ cntrl' = cntrl /\ chan' = chan
      BY <1>1, <1>2, <1>5, <2>2
    <3> QED BY <2>2, <3>3, <3>4 DEF ChannelInv, QueueOK
  <2>5. TalkOK'
    BY <1>1, <1>2, <1>5 DEF ChannelInv, ShapeOK, QueueOK, TalkOK, Idle
  <2> QED BY <1>1, <2>3, <2>4, <2>5 DEF ChannelInv, ResetAlone
<1> QED BY <1>3, <1>4, <1>5 DEF OnStart, SendOrWait

LEMMA GrantChannel ==
    ASSUME ChannelInv, NEW c \in Cmds, OnIpcChannelReady(c)
    PROVE  ChannelInv'
<1>1. /\ chan = NoOne /\ waiters # <<>> /\ Head(waiters) = c /\ waiters' = Tail(waiters)
      /\ UNCHANGED <<cntrl, flr, rsp, mask, ident, init, keysOf, tenancy>>
  BY DEF OnIpcChannelReady, Granted, hsmVars
<1>2. c # "Cntrl" /\ NoOne \notin Cmds /\ NoOne # "Cntrl" /\ NoOne \notin Functions
  BY TableAssumption, SetResAssumption
<1>3. waiters \in Seq(Cmds \cup {"Cntrl"})
      /\ \A i, j \in 1..Len(waiters) : waiters[i] = waiters[j] => i = j
  BY DEF ChannelInv, ShapeOK, QueueOK
<1>4. /\ \A d : Waits(d)' <=> Waits(d) /\ d # c
      /\ Waits(c)
      /\ \A i, j \in 1..Len(waiters') : waiters'[i] = waiters'[j] => i = j
  BY <1>1, <1>3, Left
<1>5. cmd[c].st = "WaitIpcChannel" /\ cmd[c].f \in Functions /\ flr = "None"
  BY <1>4 DEF ChannelInv, ShapeOK, QueueOK, ResetAlone, Idle
<1>6. CASE /\ chan' = c /\ req' = SetResMsg(cmd[c].f, owner)
           /\ cmd' = [cmd EXCEPT ![c].st = "WaitIpcResponse"]
  <2>1. ShapeOK'
    BY <1>1, <1>3, <1>5, <1>6, Tailed DEF ChannelInv, ShapeOK, SetResMsg
  <2>2. QueueOK'
    <3>1. /\ cmd'[c].st = "WaitIpcResponse" /\ cmd'[c].f = cmd[c].f
          /\ \A d \in Cmds \ {c} : cmd'[d] = cmd[d]
      BY <1>6 DEF ChannelInv, ShapeOK
    <3> QED BY <1>1, <1>2, <1>4, <1>5, <1>6, <3>1 DEF ChannelInv, QueueOK
  <2>3. TalkOK'
    BY <1>1, <1>2, <1>5, <1>6 DEF ChannelInv, ShapeOK, TalkOK, SetResMsg, NoMsg
  <2> QED BY <1>1, <1>5, <2>1, <2>2, <2>3 DEF ChannelInv, ResetAlone
<1>7. CASE cmd' = [cmd EXCEPT ![c] = Idle] /\ UNCHANGED <<chan, req>>
  <2>1. ShapeOK'
    BY <1>1, <1>3, <1>7, Tailed DEF ChannelInv, ShapeOK, Idle
  <2>2. QueueOK'
    <3>1. /\ cmd'[c].st = "Idle" /\ cmd'[c].f = NoOne
          /\ \A d \in Cmds \ {c} : cmd'[d] = cmd[d]
      BY <1>7 DEF ChannelInv, ShapeOK, Idle
    <3> QED BY <1>1, <1>2, <1>4, <1>5, <1>7, <3>1 DEF ChannelInv, QueueOK
  <2>3. TalkOK'
    BY <1>1, <1>2, <1>7 DEF ChannelInv, TalkOK
  <2> QED BY <1>1, <1>5, <2>1, <2>2, <2>3 DEF ChannelInv, ResetAlone
<1> QED BY <1>6, <1>7 DEF OnIpcChannelReady

LEMMA ResponseChannel ==
    ASSUME ChannelInv, NEW c \in Cmds, OnIpcResponse(c)
    PROVE  ChannelInv'
<1>1. /\ chan = c /\ rsp # NoRsp /\ cmd' = [cmd EXCEPT ![c] = Idle]
      /\ chan' = NoOne /\ rsp' = NoRsp
      /\ UNCHANGED <<cntrl, waiters, flr, req, mask, ident, init, keysOf, tenancy>>
  BY DEF OnIpcResponse, hsmVars
<1>2. c # "Cntrl" /\ c # NoOne /\ NoOne # "Cntrl" /\ NoOne \notin Functions /\ NoOne \notin Cmds
  BY TableAssumption, SetResAssumption
<1>3. \A d : Waits(d)' <=> Waits(d)
  BY <1>1 DEF Waits
<1>4. ShapeOK'
  BY <1>1 DEF ChannelInv, ShapeOK, Idle
<1>5. QueueOK'
  BY <1>1, <1>2, <1>3 DEF ChannelInv, ShapeOK, QueueOK, Idle
<1>6. req = NoMsg /\ init = NoInit
  BY <1>1 DEF ChannelInv, TalkOK
<1>7. TalkOK'
  BY <1>1, <1>6 DEF TalkOK, NoMsg, NoInit
<1>8. ResetAlone'
  BY <1>1 DEF ChannelInv, ShapeOK, ResetAlone
<1> QED BY <1>4, <1>5, <1>7, <1>8 DEF ChannelInv

LEMMA CntrlChannel ==
    ASSUME ChannelInv, (\E f \in Functions : CntrlBegin(f)) \/ CntrlChannelReady \/ CntrlEnd
    PROVE  ChannelInv'
<1>1. UNCHANGED <<cmd, flr, mask, ident, init, keysOf, tenancy>>
  BY DEF CntrlBegin, CntrlChannelReady, CntrlEnd, hsmVars
<1>2. NoOne # "Cntrl" /\ NoOne \notin Functions /\ NoOne \notin Cmds /\ "Cntrl" \notin Cmds
  BY TableAssumption, SetResAssumption
<1>3. waiters \in Seq(Cmds \cup {"Cntrl"})
      /\ \A i, j \in 1..Len(waiters) : waiters[i] = waiters[j] => i = j
  BY DEF ChannelInv, ShapeOK, QueueOK
<1>4. ResetAlone'
  BY <1>1 DEF ChannelInv, ResetAlone
<1>5. ASSUME NEW f \in Functions, CntrlSend(f), chan = NoOne, rsp' = rsp
      PROVE  TalkOK'
  BY <1>1, <1>2, <1>5 DEF ChannelInv, TalkOK, CntrlSend, NoMsg
<1>6. ASSUME NEW f \in Functions, CntrlBegin(f) PROVE ChannelInv'
  <2>1. cntrl = Idle /\ rsp' = rsp
    BY <1>6 DEF CntrlBegin
  <2>2. CASE Available /\ CntrlSend(f) /\ waiters' = waiters
    <3>1. \A d : Waits(d)' <=> Waits(d)
      BY <2>2 DEF Waits
    <3>2. ShapeOK'
      BY <1>1, <1>3, <2>2 DEF ChannelInv, ShapeOK, CntrlSend
    <3>3. QueueOK'
      BY SMTT(30), <1>1, <1>2, <2>1, <2>2, <3>1 DEF ChannelInv, ShapeOK, QueueOK, CntrlSend, Available, Idle
    <3> QED BY <1>4, <1>5, <2>1, <2>2, <3>2, <3>3 DEF ChannelInv, Available
  <2>3. CASE /\ cntrl' = [st |-> "WaitIpcChannel", f |-> NoOne]
             /\ waiters' = Append(waiters, "Cntrl")
             /\ UNCHANGED <<chan, req>>
    <3>1. ~Waits("Cntrl") /\ chan # "Cntrl"
      BY <2>1 DEF ChannelInv, QueueOK, Idle
    <3>2. /\ \A d : Waits(d)' <=> Waits(d) \/ d = "Cntrl"
          /\ \A i, j \in 1..Len(waiters') : waiters'[i] = waiters'[j] => i = j
      BY <1>3, <2>3, <3>1, Joined
    <3>3. ShapeOK'
      <4>1. waiters' \in Seq(Cmds \cup {"Cntrl"})
        BY <1>3, <2>3, Appended
      <4> QED BY <1>1, <2>3, <4>1 DEF ChannelInv, ShapeOK
    <3>4. QueueOK'
      BY <1>1, <1>2, <2>1, <2>3, <3>1, <3>2 DEF ChannelInv, ShapeOK, QueueOK, Idle
    <3>5. TalkOK'
      BY <1>1, <2>1, <2>3, <3>1 DEF ChannelInv, TalkOK
    <3> QED BY <1>4, <3>3, <3>4, <3>5 DEF ChannelInv
  <2> QED BY <1>6, <2>2, <2>3 DEF CntrlBegin
<1>7. CASE CntrlChannelReady
  <2>1. /\ chan = NoOne /\ waiters # <<>> /\ Head(waiters) = "Cntrl" /\ waiters' = Tail(waiters)
        /\ rsp' = rsp
    BY <1>7 DEF CntrlChannelReady, Granted
  <2>2. /\ \A d : Waits(d)' <=> Waits(d) /\ d # "Cntrl"
        /\ Waits("Cntrl")
        /\ \A i, j \in 1..Len(waiters') : waiters'[i] = waiters'[j] => i = j
    BY <1>3, <2>1, Left
  <2>3. waiters' \in Seq(Cmds \cup {"Cntrl"})
    BY <1>3, <2>1, Tailed
  <2>4. ASSUME NEW f \in Functions, CntrlSend(f) PROVE ChannelInv'
    <3>1. ShapeOK'
      BY <1>1, <2>3, <2>4 DEF ChannelInv, ShapeOK, CntrlSend
    <3>2. QueueOK'
      BY <1>1, <1>2, <2>1, <2>2, <2>4 DEF ChannelInv, ShapeOK, QueueOK, CntrlSend
    <3> QED BY <1>4, <1>5, <2>1, <2>4, <3>1, <3>2 DEF ChannelInv
  <2>5. CASE cntrl' = Idle /\ UNCHANGED <<chan, req>>
    <3>1. ShapeOK'
      BY <1>1, <2>3, <2>5 DEF ChannelInv, ShapeOK, Idle
    <3>2. QueueOK'
      BY <1>1, <1>2, <2>1, <2>2, <2>5 DEF ChannelInv, ShapeOK, QueueOK, Idle
    <3>3. TalkOK'
      BY <1>1, <2>1, <2>5 DEF ChannelInv, TalkOK, NoMsg
    <3> QED BY <1>4, <3>1, <3>2, <3>3 DEF ChannelInv
  <2> QED BY <1>7, <2>4, <2>5 DEF CntrlChannelReady, Changing
<1>8. CASE CntrlEnd
  <2>1. /\ chan = "Cntrl" /\ rsp # NoRsp /\ cntrl' = Idle /\ chan' = NoOne /\ rsp' = NoRsp
        /\ UNCHANGED <<waiters, req>>
    BY <1>8 DEF CntrlEnd
  <2>2. \A d : Waits(d)' <=> Waits(d)
    BY <2>1 DEF Waits
  <2>3. ShapeOK'
    BY <1>1, <2>1 DEF ChannelInv, ShapeOK, Idle
  <2>4. QueueOK'
    BY SMTT(30), <1>1, <1>2, <2>1, <2>2 DEF ChannelInv, ShapeOK, QueueOK, Idle
  <2>5. TalkOK'
    BY <1>1, <2>1 DEF ChannelInv, TalkOK, NoMsg, NoInit
  <2> QED BY <1>4, <2>3, <2>4, <2>5 DEF ChannelInv
<1> QED BY <1>6, <1>7, <1>8

(* What begin_generate_partition_identifiers leaves *)
LEMMA Generates ==
    ASSUME IdentityInv, NEW f \in Functions, BeginGenerate(f), tenancy' = tenancy
    PROVE  /\ ident' \in [Functions -> [id : Nat, key : Nat, valid : BOOLEAN]]
           /\ IdentityCurrent' /\ MakingOK'
           /\ \/ init' = NoInit
              \/ /\ init' = InitState("GeneratingPartitionKey", f, tenancy[f])
                 /\ rsp' = rsp
<1>1. /\ ident \in [Functions -> [id : Nat, key : Nat, valid : BOOLEAN]]
      /\ tenancy \in [Functions -> Nat] /\ IdentityCurrent
  BY DEF IdentityInv, ChannelInv, ShapeOK
<1>2. CASE ident' = ident /\ init' = NoInit
  BY <1>1, <1>2 DEF IdentityCurrent, MakingOK, NoInit
<1>3. CASE /\ ~ident[f].valid /\ ident' = [ident EXCEPT ![f].id = tenancy[f]]
           /\ \/ init' = InitState("GeneratingPartitionKey", f, tenancy[f]) /\ rsp' = rsp
              \/ init' = NoInit
  <2>1. /\ ident' \in [Functions -> [id : Nat, key : Nat, valid : BOOLEAN]]
        /\ ident'[f].id = tenancy[f] /\ ~ident'[f].valid
        /\ \A g \in Functions \ {f} : ident'[g] = ident[g]
    BY <1>1, <1>3
  <2>2. IdentityCurrent'
    BY <1>1, <2>1 DEF IdentityCurrent
  <2>3. MakingOK'
    BY <1>3, <2>1 DEF MakingOK, InitState, NoInit
  <2> QED BY <1>3, <2>1, <2>2, <2>3
<1> QED BY <1>2, <1>3 DEF BeginGenerate, Respond

(* A reset while no identity is being made *)
LEMMA Resets ==
    ASSUME IdentityInv, NEW F \in SUBSET Functions, Reset(F), init = NoInit, init' = init
    PROVE  /\ ident' \in [Functions -> [id : Nat, key : Nat, valid : BOOLEAN]]
           /\ mask' \in [Functions -> SUBSET Resources]
           /\ tenancy' \in [Functions -> Nat]
           /\ keysOf' \in [Resources -> [f : Functions \cup {NoOne}, t : Nat]]
           /\ IdentityCurrent' /\ MakingOK'
<1>1. /\ ident \in [Functions -> [id : Nat, key : Nat, valid : BOOLEAN]]
      /\ mask \in [Functions -> SUBSET Resources]
      /\ keysOf \in [Resources -> [f : Functions \cup {NoOne}, t : Nat]]
      /\ tenancy \in [Functions -> Nat] /\ IdentityCurrent
  BY DEF IdentityInv, ChannelInv, ShapeOK
<1>2. /\ ident' \in [Functions -> [id : Nat, key : Nat, valid : BOOLEAN]]
      /\ \A g \in Functions : g \in F => ~ident'[g].valid
      /\ \A g \in Functions : g \notin F => ident'[g] = ident[g] /\ tenancy'[g] = tenancy[g]
  BY <1>1 DEF Reset, NoIdent
<1>3. mask' \in [Functions -> SUBSET Resources] /\ tenancy' \in [Functions -> Nat]
  BY <1>1 DEF Reset
<1>4. keysOf' \in [Resources -> [f : Functions \cup {NoOne}, t : Nat]]
  BY <1>1 DEF Reset, Cleared, NoKeys
<1>5. IdentityCurrent'
  BY <1>1, <1>2 DEF IdentityCurrent
<1> QED BY <1>2, <1>3, <1>4, <1>5 DEF MakingOK, NoInit

LEMMA SetResIdentity == ASSUME IdentityInv, HandleSetRes PROVE IdentityInv'
<1> DEFINE f == req.f
<1>1. /\ req.op = "SetRes" /\ req' = NoMsg
      /\ UNCHANGED <<cmd, cntrl, chan, waiters, flr, keysOf, tenancy>>
  BY DEF HandleSetRes, adminVars
<1>2. chan \in Cmds /\ cmd[chan].st = "WaitIpcResponse" /\ f = cmd[chan].f /\ f \in Functions
      /\ rsp = NoRsp /\ init = NoInit /\ req.mask \in SUBSET Resources
  BY <1>1, Worked DEF IdentityInv, ChannelInv, TalkOK, ShapeOK, NoMsg
<1>3. chan # NoOne
  BY <1>2, SetResAssumption
<1>4. QueueOK' /\ ResetAlone'
  BY <1>1 DEF IdentityInv, ChannelInv, QueueOK, Waits, ResetAlone
<1>5. mask' \in [Functions -> SUBSET Resources]
  BY <1>2 DEF HandleSetRes, IdentityInv, ChannelInv, ShapeOK
<1>6. /\ ident' \in [Functions -> [id : Nat, key : Nat, valid : BOOLEAN]]
      /\ IdentityCurrent' /\ MakingOK'
      /\ \/ init' = NoInit
         \/ \E st \in {"WaitForPIDK", "GeneratingPartitionKey"}, km \in Nat :
                init' = InitState(st, f, km) /\ rsp' = rsp
  <2>1. CASE BeginGenerate(f)
    <3>1. tenancy[f] \in Nat
      BY <1>2 DEF IdentityInv, ChannelInv, ShapeOK
    <3> HIDE DEF f
    <3> QED BY <1>1, <1>2, <2>1, <3>1, Generates
  <2>2. CASE init' = InitState("WaitForPIDK", f, 0) /\ UNCHANGED <<ident, rsp>>
    BY <1>1, <2>2 DEF IdentityInv, ChannelInv, ShapeOK, IdentityCurrent, MakingOK, InitState
  <2>3. CASE UNCHANGED <<init, ident>>
    BY <1>1, <1>2, <2>3 DEF IdentityInv, ChannelInv, ShapeOK, IdentityCurrent, MakingOK, NoInit
  <2> QED BY <2>1, <2>2, <2>3 DEF HandleSetRes
<1> HIDE DEF f
<1>7. init' = NoInit \/ (init'.f = f /\ init'.st # "None" /\ rsp' = rsp)
  BY <1>6 DEF InitState
<1>8. ShapeOK'
  <2>1. init' \in [st : {"None", "WaitForPIDK", "GeneratingPartitionKey", "WaitForPct",
                         "WaitForSign", "WaitForVerify"},
                   f : Functions \cup {NoOne}, km : Nat]
    BY <1>2, <1>6 DEF InitState, NoInit
  <2>2. req' \in [op : {"None", "SetRes", "Enable", "Disable"},
                 f : Functions \cup {NoOne}, mask : SUBSET Resources]
    BY <1>1 DEF NoMsg
  <2> QED BY <1>1, <1>5, <1>6, <2>1, <2>2 DEF IdentityInv, ChannelInv, ShapeOK
<1>9. TalkOK'
  BY <1>1, <1>2, <1>3, <1>7 DEF TalkOK, NoMsg, NoInit
<1> QED BY <1>4, <1>6, <1>8, <1>9 DEF IdentityInv, ChannelInv

LEMMA ZeroIdentity == ASSUME IdentityInv, HandleSetResZero PROVE IdentityInv'
<1>1. /\ req.op = "SetRes" /\ req' = NoMsg /\ rsp' = "Success" /\ Reset({req.f})
      /\ UNCHANGED <<cmd, cntrl, chan, waiters, flr, init>>
  BY DEF HandleSetResZero, adminVars
<1>2. chan \in Cmds /\ req.f \in Functions /\ init = NoInit /\ chan # NoOne
  BY <1>1, Worked, SetResAssumption DEF IdentityInv, ChannelInv, TalkOK, NoMsg
<1>3. QueueOK' /\ ResetAlone'
  BY <1>1 DEF IdentityInv, ChannelInv, QueueOK, Waits, ResetAlone
<1>4. /\ ident' \in [Functions -> [id : Nat, key : Nat, valid : BOOLEAN]]
      /\ mask' \in [Functions -> SUBSET Resources]
      /\ tenancy' \in [Functions -> Nat]
      /\ keysOf' \in [Resources -> [f : Functions \cup {NoOne}, t : Nat]]
      /\ IdentityCurrent' /\ MakingOK'
  BY <1>1, <1>2, Resets
<1>5. ShapeOK'
  BY <1>1, <1>4 DEF IdentityInv, ChannelInv, ShapeOK, NoMsg
<1>6. TalkOK'
  BY <1>1, <1>2 DEF TalkOK, NoMsg, NoInit, NoRsp
<1> QED BY <1>3, <1>4, <1>5, <1>6 DEF IdentityInv, ChannelInv

LEMMA EnableIdentity == ASSUME IdentityInv, HandlePfnEnable PROVE IdentityInv'
<1>1. /\ req.op \in {"Enable", "Disable"} /\ req' = NoMsg /\ rsp' \in {"Enabled", "Disabled"}
      /\ keysOf' \in {keysOf, Cleared({req.f})}
      /\ UNCHANGED <<cmd, cntrl, chan, waiters, flr, init, mask, ident, tenancy>>
  BY DEF HandlePfnEnable, adminVars
<1>2. chan = "Cntrl" /\ init = NoInit /\ chan # NoOne
  BY <1>1, SetResAssumption DEF IdentityInv, ChannelInv, TalkOK, NoMsg
<1>3. QueueOK' /\ ResetAlone' /\ IdentityCurrent' /\ MakingOK'
  BY <1>1 DEF IdentityInv, ChannelInv, QueueOK, Waits, ResetAlone, IdentityCurrent, MakingOK
<1>4. keysOf' \in [Resources -> [f : Functions \cup {NoOne}, t : Nat]]
  BY <1>1 DEF IdentityInv, ChannelInv, ShapeOK, Cleared, NoKeys
<1>5. ShapeOK'
  BY <1>1, <1>4 DEF IdentityInv, ChannelInv, ShapeOK, NoMsg
<1>6. TalkOK'
  BY <1>1, <1>2 DEF TalkOK, NoMsg, NoInit, NoRsp
<1> QED BY <1>3, <1>5, <1>6 DEF IdentityInv, ChannelInv

(* The steps of HsmPartInitFsm *)
LEMMA InitIdentity ==
    ASSUME IdentityInv,
           PkaReadyForPIDK \/ KeyGenerated \/ PkaReadyForPct \/ Signed \/ Verified
    PROVE  IdentityInv'
<1>1. /\ init.st # "None"
      /\ UNCHANGED <<cmd, cntrl, chan, waiters, flr, req, mask, keysOf, tenancy>>
  BY DEF PkaReadyForPIDK, KeyGenerated, PkaReadyForPct, Signed, Verified, initFrame, adminVars
<1>2. /\ chan \in Cmds /\ init.f = cmd[chan].f /\ init.f \in Functions /\ init.km \in Nat
      /\ req = NoMsg /\ rsp = NoRsp /\ chan # NoOne
  BY <1>1, Worked, SetResAssumption DEF IdentityInv, ChannelInv, ShapeOK
<1>3. QueueOK' /\ ResetAlone'
  BY <1>1 DEF IdentityInv, ChannelInv, QueueOK, Waits, ResetAlone
<1> DEFINE Made ==
      /\ ident' \in [Functions -> [id : Nat, key : Nat, valid : BOOLEAN]]
      /\ IdentityCurrent' /\ MakingOK'
      /\ \/ init' = NoInit
         \/ /\ init'.st # "None" /\ init'.f = init.f /\ rsp' = rsp
            /\ init' \in [st : {"None", "WaitForPIDK", "GeneratingPartitionKey", "WaitForPct",
                                "WaitForSign", "WaitForVerify"},
                          f : Functions \cup {NoOne}, km : Nat]
<1>4. Made
  <2>0. /\ ident \in [Functions -> [id : Nat, key : Nat, valid : BOOLEAN]]
        /\ IdentityCurrent /\ MakingOK
        /\ init \in [st : {"None", "WaitForPIDK", "GeneratingPartitionKey", "WaitForPct",
                           "WaitForSign", "WaitForVerify"},
                     f : Functions \cup {NoOne}, km : Nat]
    BY DEF IdentityInv, ChannelInv, ShapeOK
  <2>1. CASE PkaReadyForPIDK
    <3>1. BeginGenerate(init.f)
      BY <2>1 DEF PkaReadyForPIDK
    <3>2. tenancy[init.f] \in Nat
      BY <1>2 DEF IdentityInv, ChannelInv, ShapeOK
    <3>3. /\ ident' \in [Functions -> [id : Nat, key : Nat, valid : BOOLEAN]]
          /\ IdentityCurrent' /\ MakingOK'
          /\ \/ init' = NoInit
             \/ /\ init' = InitState("GeneratingPartitionKey", init.f, tenancy[init.f])
                /\ rsp' = rsp
      BY <1>1, <1>2, <3>1, Generates
    <3> QED BY <1>2, <3>2, <3>3 DEF InitState
  <2>2. ASSUME ident' = ident, init.st \notin {"None", "WaitForPIDK"},
               \/ init' = NoInit
               \/ /\ rsp' = rsp
                  /\ \E st \in {"WaitForPct", "WaitForSign", "WaitForVerify"} :
                        init' = InitState(st, init.f, init.km)
        PROVE  Made
    <3>1. IdentityCurrent'
      BY <1>1, <2>0, <2>2 DEF IdentityCurrent
    <3>2. MakingOK'
      BY <1>1, <2>0, <2>2 DEF MakingOK, InitState, NoInit
    <3> QED BY <1>2, <2>0, <2>2, <3>1, <3>2 DEF InitState
  <2>3. CASE KeyGenerated
    BY <2>2, <2>3 DEF KeyGenerated, BeginPct, EndSilently, Respond
  <2>4. CASE PkaReadyForPct
    BY <2>2, <2>4 DEF PkaReadyForPct, BeginPct, EndSilently, Respond
  <2>5. CASE Signed
    <3>1. [init EXCEPT !.st = "WaitForVerify"] = InitState("WaitForVerify", init.f, init.km)
      BY <2>0 DEF InitState
    <3> QED BY <2>2, <2>5, <3>1 DEF Signed, EndSilently
  <2>6. CASE Verified
    <3>1. CASE ident' = ident
      BY <2>2, <2>6, <3>1 DEF Verified, EndSilently, Respond
    <3>2. CASE ident' = [ident EXCEPT ![init.f].key = init.km, ![init.f].valid = TRUE]
      <4>1. /\ ident' \in [Functions -> [id : Nat, key : Nat, valid : BOOLEAN]]
            /\ ident'[init.f].key = init.km /\ ident'[init.f].id = ident[init.f].id
            /\ \A g \in Functions \ {init.f} : ident'[g] = ident[g]
        BY <1>2, <2>0, <3>2
      <4>2. init.km = tenancy[init.f] /\ ident[init.f].id = tenancy[init.f] /\ init' = NoInit
        BY <2>0, <2>6 DEF MakingOK, Verified, EndSilently, Respond
      <4>3. IdentityCurrent'
        BY <1>1, <2>0, <4>1, <4>2 DEF IdentityCurrent
      <4> QED BY <4>1, <4>2, <4>3 DEF MakingOK, NoInit
    <3> QED BY <2>6, <3>1, <3>2 DEF Verified
  <2> QED BY <2>1, <2>3, <2>4, <2>5, <2>6
<1>5. ShapeOK'
  <2>1. init' \in [st : {"None", "WaitForPIDK", "GeneratingPartitionKey", "WaitForPct",
                         "WaitForSign", "WaitForVerify"},
                   f : Functions \cup {NoOne}, km : Nat]
    BY <1>4 DEF NoInit
  <2> QED BY <1>1, <1>4, <2>1 DEF IdentityInv, ChannelInv, ShapeOK
<1>6. TalkOK'
  BY <1>1, <1>2, <1>4 DEF TalkOK, NoMsg, NoInit
<1> QED BY <1>3, <1>4, <1>5, <1>6 DEF IdentityInv, ChannelInv

LEMMA StoreIdentity ==
    ASSUME IdentityInv, NEW f \in Functions, NEW r \in Resources, StoreKey(f, r)
    PROVE  IdentityInv'
<1>1. UNCHANGED <<cmd, cntrl, chan, waiters, flr, req, rsp, mask, ident, init, tenancy>>
      /\ keysOf' = [keysOf EXCEPT ![r] = [f |-> f, t |-> tenancy[f]]]
  BY DEF StoreKey, adminVars
<1>2. keysOf' \in [Resources -> [f : Functions \cup {NoOne}, t : Nat]]
  BY <1>1 DEF IdentityInv, ChannelInv, ShapeOK
<1>3. ShapeOK'
  BY SMTT(30), <1>1, <1>2 DEF IdentityInv, ChannelInv, ShapeOK
<1> QED BY <1>1, <1>3 DEF IdentityInv, ChannelInv, QueueOK, Waits, TalkOK, ResetAlone,
                          IdentityCurrent, MakingOK

LEMMA FlrIdentity ==
    ASSUME IdentityInv, "flr" \notin Liberties, OnPcieFlr \/ OnFlr \/ CompleteFlr
    PROVE  IdentityInv'
<1>1. UNCHANGED <<cmd, cntrl, chan, waiters, req, rsp, init>>
  BY DEF OnPcieFlr, OnFlr, CompleteFlr, adminVars, hsmVars
<1>2. QueueOK' /\ TalkOK'
  BY <1>1 DEF IdentityInv, ChannelInv, QueueOK, Waits, TalkOK
<1>3. CASE OnPcieFlr
  <2>1. UNCHANGED <<mask, ident, keysOf, tenancy>> /\ Quiet
    BY <1>3 DEF OnPcieFlr, hsmVars
  <2> QED BY SMTT(30), <1>1, <1>2, <2>1 DEF IdentityInv, ChannelInv, ShapeOK, ResetAlone, Quiet,
                                  IdentityCurrent, MakingOK
<1>4. CASE OnFlr
  <2>1. flr = "Hsm" /\ Reset(Functions)
    BY <1>4 DEF OnFlr
  <2>2. init = NoInit
    <3>1. ChannelInv
      BY DEF IdentityInv
    <3> QED BY <2>1, <3>1, Worked DEF ChannelInv, TalkOK
  <2>3. /\ ident' \in [Functions -> [id : Nat, key : Nat, valid : BOOLEAN]]
        /\ mask' \in [Functions -> SUBSET Resources]
        /\ tenancy' \in [Functions -> Nat]
        /\ keysOf' \in [Resources -> [f : Functions \cup {NoOne}, t : Nat]]
        /\ IdentityCurrent' /\ MakingOK'
    BY <1>1, <2>1, <2>2, Resets
  <2>4. ShapeOK'
    <3>1. ShapeOK
      BY DEF IdentityInv, ChannelInv
    <3>2. UNCHANGED <<cmd, cntrl, waiters, chan, req, init>>
      BY <1>1
    <3>3. /\ cmd' \in [Cmds -> [st : {"Idle", "WaitIpcChannel", "WaitIpcResponse"},
                                f : Functions \cup {NoOne}]]
          /\ cntrl' \in [st : {"Idle", "WaitIpcChannel", "WaitIpcResponse"}, f : Functions \cup {NoOne}]
          /\ waiters' \in Seq(Cmds \cup {"Cntrl"})
          /\ chan' \in Cmds \cup {"Cntrl", NoOne}
      BY <3>1, <3>2 DEF ShapeOK
    <3> QED BY <2>3, <3>1, <3>2, <3>3 DEF ShapeOK
  <2>5. ResetAlone'
    BY <1>1, <2>1 DEF IdentityInv, ChannelInv, ResetAlone
  <2> QED BY <1>2, <2>3, <2>4, <2>5 DEF IdentityInv, ChannelInv
<1>5. CASE CompleteFlr
  <2>1. UNCHANGED <<mask, ident, keysOf, tenancy>> /\ flr' = "None"
    BY <1>5 DEF CompleteFlr, hsmVars
  <2> QED BY SMTT(30), <1>1, <1>2, <2>1 DEF IdentityInv, ChannelInv, ShapeOK, ResetAlone,
                                  IdentityCurrent, MakingOK
<1> QED BY <1>3, <1>4, <1>5

LEMMA IdentityStep ==
    IdentityInv /\ "flr" \notin Liberties /\ [Next]_vars => IdentityInv'
<1> SUFFICES ASSUME IdentityInv, "flr" \notin Liberties, [Next]_vars PROVE IdentityInv'
  OBVIOUS
<1>0. ChannelInv
  BY DEF IdentityInv
<1>1. ASSUME ChannelInv', UNCHANGED hsmVars PROVE IdentityInv'
  BY <1>1 DEF IdentityInv, MakingOK, IdentityCurrent, hsmVars
<1>2. ASSUME NEW c \in Cmds, NEW f \in Functions, NEW n \in 0..NR, OnStart(c, f, n)
      PROVE  IdentityInv'
  BY <1>0, <1>1, <1>2, StartsChannel DEF OnStart
<1>3. ASSUME NEW c \in Cmds, OnIpcChannelReady(c) PROVE IdentityInv'
  BY <1>0, <1>1, <1>3, GrantChannel DEF OnIpcChannelReady
<1>4. ASSUME NEW c \in Cmds, OnIpcResponse(c) PROVE IdentityInv'
  BY <1>0, <1>1, <1>4, ResponseChannel DEF OnIpcResponse
<1>5. ASSUME (\E f \in Functions : CntrlBegin(f)) \/ CntrlChannelReady \/ CntrlEnd
      PROVE  IdentityInv'
  <2>1. UNCHANGED hsmVars
    BY <1>5 DEF CntrlBegin, CntrlChannelReady, CntrlEnd
  <2> QED BY <1>0, <1>1, <1>5, <2>1, CntrlChannel
<1>6. ASSUME UNCHANGED <<cmd, cntrl, chan, waiters, flr, req, rsp, hsmVars>> PROVE IdentityInv'
  BY SMTT(30), <1>6 DEF IdentityInv, ChannelInv, ShapeOK, QueueOK, Waits, TalkOK, ResetAlone,
              IdentityCurrent, MakingOK, hsmVars
<1>7. ASSUME NEW f \in Functions, HostSwitch(f) PROVE IdentityInv'
  BY <1>6, <1>7 DEF HostSwitch
<1>8. CASE UNCHANGED vars
  BY <1>6, <1>8 DEF vars, adminVars
<1> QED BY <1>2, <1>3, <1>4, <1>5, <1>7, <1>8, SetResIdentity, ZeroIdentity, EnableIdentity,
           InitIdentity, StoreIdentity, FlrIdentity DEF Next

LEMMA IdentityBegins == Init => IdentityInv
  BY ChannelBegins DEF Init, IdentityInv, IdentityCurrent, MakingOK, NoInit, NoIdent

(* An identity that is valid has the id and the key that were generated    *)
(* together in the partition's present tenancy (HsmPartInitFsm against     *)
(* Partition::reset), whatever the host does with counts and with several  *)
(* commands at once, as long as it resets the physical function only when  *)
(* nothing is in progress.                                                 *)
THEOREM IdentityIsCurrent ==
    ASSUME "flr" \notin Liberties
    PROVE  Spec => []IdentityCurrent
<1>1. Init => IdentityInv
  BY IdentityBegins
<1>2. IdentityInv /\ [Next]_vars => IdentityInv'
  BY IdentityStep
<1>3. IdentityInv => IdentityCurrent
  BY DEF IdentityInv
<1> QED BY <1>1, <1>2, <1>3, PTL DEF Spec

-----------------------------------------------------------------------------
(* The tables: order of release and allocation *)

(* What set_res_cnt does to a function that gives up everything, to one    *)
(* that gets more, and to the others                                       *)
LEMMA Moves ==
    ASSUME TableInv, NEW f \in Functions, NEW n \in 0..NR, SetResCnt(f, n)
    PROVE  /\ \A g \in Functions \ {f} : Owned(g)' = Owned(g)
           /\ n = 0 => Owned(f)' = {}
           /\ n > res_cnt[f] => /\ Owned(f) \subseteq Owned(f)'
                                /\ \A r \in Owned(f)' \ Owned(f) : owner[r] = NoOne
<1>1. owner' = Written(f, n, NR) /\ Possible(f, n)
  BY DEF SetResCnt
<1>2. /\ \A g \in Functions \ {f} : Held(owner', g) = Held(owner, g)
      /\ Cardinality(Held(owner', f)) <= n
  BY <1>1, WrittenCounts
<1>3. \A g : Owned(g)' = Held(owner', g) /\ Owned(g) = Held(owner, g)
  BY DEF Owned, Held
<1>4. ASSUME n = 0 PROVE Owned(f)' = {}
  <2>1. IsFiniteSet(Held(owner', f)) /\ Cardinality(Held(owner', f)) \in Nat
    BY HeldFinite, FS_CardinalityType
  <2>2. Cardinality(Held(owner', f)) = 0
    BY <1>2, <1>4, <2>1
  <2> QED BY <1>3, <2>1, <2>2, FS_EmptySet
<1>5. ASSUME n > res_cnt[f]
      PROVE  /\ Owned(f) \subseteq Owned(f)'
             /\ \A r \in Owned(f)' \ Owned(f) : owner[r] = NoOne
  <2>0. res_cnt[f] \in Nat /\ n \in Nat
    BY TableAssumption DEF TableInv, TableTypeOK
  <2>1. ~(n < res_cnt[f])
    BY <1>5, <2>0
  <2>2. \A k : First(Free, k) \subseteq Free
    BY DEF First
  <2>3. \A r \in Resources : owner'[r] = owner[r] \/ (owner'[r] = f /\ r \in Free)
    BY <1>1, <1>5, <2>1, <2>2 DEF Written
  <2>4. NoOne # f
    BY TableAssumption
  <2> QED BY <2>3, <2>4 DEF Owned, Free
<1> QED BY <1>2, <1>3, <1>4, <1>5

LEMMA BeforeMeans ==
    ASSUME NEW c, NEW d, Before(c, d) PROVE Unseen(c) /\ Waits(d)
  BY DEF Before, Unseen, Waits

LEMMA BeforeJoins ==
    ASSUME NEW x, waiters \in Seq(Cmds \cup {"Cntrl"}), x \in Cmds \cup {"Cntrl"},
           waiters' = Append(waiters, x), UNCHANGED <<chan, req>>
    PROVE  /\ \A c, d : Before(c, d) => Before(c, d)'
           /\ \A c : Unseen(c) => Unseen(c)' /\ Before(c, x)'
<1> DEFINE n == Len(waiters)
<1>1. /\ Len(waiters') = n + 1 /\ n \in Nat
      /\ \A i \in 1..n : waiters'[i] = waiters[i]
      /\ waiters'[n + 1] = x
  BY Appended
<1>2. \A c : Waits(c)' <=> Waits(c) \/ c = x
  BY Joined
<1> HIDE DEF n
<1>3. /\ 1..n \subseteq 1..Len(waiters') /\ n + 1 \in 1..Len(waiters')
      /\ \A i \in 1..n : i < n + 1
  BY <1>1
<1>4. ASSUME NEW c, NEW d, Before(c, d) PROVE Before(c, d)'
  BY <1>1, <1>2, <1>3, <1>4 DEF Before, n
<1>5. ASSUME NEW c, Unseen(c) PROVE Unseen(c)' /\ Before(c, x)'
  <2>1. CASE chan = c /\ req # NoMsg
    BY <1>2, <2>1 DEF Unseen, Before
  <2>2. CASE Waits(c)
    <3>1. PICK i \in 1..n : waiters[i] = c
      BY <2>2 DEF Waits, n
    <3> QED BY <1>1, <1>2, <1>3, <2>2, <3>1 DEF Before, Unseen
  <2> QED BY <1>5, <2>1, <2>2 DEF Unseen
<1> QED BY <1>4, <1>5

LEMMA BeforeLeaves ==
    ASSUME waiters \in Seq(Cmds \cup {"Cntrl"}), waiters # <<>>, waiters' = Tail(waiters),
           \A i, j \in 1..Len(waiters) : waiters[i] = waiters[j] => i = j,
           chan = NoOne, NEW c, c # NoOne,
           c # Head(waiters) \/ (chan' = c /\ req' # NoMsg)
    PROVE  /\ \A d : Before(c, d) => Before(c, d)'
           /\ Unseen(c) => Unseen(c)'
<1> DEFINE n == Len(waiters)
<1>1. /\ Len(waiters') = n - 1 /\ n \in Nat /\ n > 0
      /\ \A i \in 1..Len(waiters') : waiters'[i] = waiters[i + 1]
      /\ Head(waiters) = waiters[1]
  BY Tailed
<1>2. \A d : Waits(d)' <=> Waits(d) /\ d # Head(waiters)
  BY Left
<1> HIDE DEF n
<1>3. \A i \in 1..n : i # 1 => i - 1 \in 1..Len(waiters') /\ (i - 1) + 1 = i
  BY <1>1
<1>4. ASSUME NEW d, Before(c, d) PROVE Before(c, d)'
  <2>1. PICK i, j \in 1..n : i < j /\ waiters[i] = c /\ waiters[j] = d
    BY <1>4 DEF Before, n
  <2>2. j # 1 /\ j - 1 \in 1..Len(waiters') /\ waiters'[j - 1] = d
    BY <1>1, <1>3, <2>1
  <2>3. CASE i = 1
    <3>1. chan' = c /\ req' # NoMsg
      BY <1>1, <2>1, <2>3
    <3>2. Waits(d)'
      BY <2>2 DEF Waits
    <3> QED BY <3>1, <3>2 DEF Before
  <2>4. CASE i # 1
    <3>1. i - 1 \in 1..Len(waiters') /\ waiters'[i - 1] = c /\ i - 1 < j - 1
      BY <1>1, <1>3, <2>1, <2>4
    <3> QED BY <2>2, <3>1 DEF Before
  <2> QED BY <2>3, <2>4
<1>5. Unseen(c) => Unseen(c)'
  BY <1>2 DEF Unseen
<1> QED BY <1>4, <1>5

LEMMA OrderKept ==
    ASSUME Within, ReleaseFirst, UNCHANGED <<owner, mask>>,
           \A c \in Cmds : Unseen(c) => Unseen(c)' /\ cmd'[c].f = cmd[c].f,
           \A c, d \in Cmds : Before(c, d) => Before(c, d)' /\ cmd'[d].f = cmd[d].f
    PROVE  Within' /\ ReleaseFirst'
<1>1. \A f \in Functions : Owned(f)' = Owned(f) /\ (Pending(f) => Pending(f)')
  BY DEF Owned, Pending
<1>2. Within'
  BY <1>1 DEF Within
<1>3. ReleaseFirst'
  <2> SUFFICES ASSUME NEW f \in Functions, NEW g \in Functions, NEW r \in Resources,
                      f # g, r \in mask[f], owner[r] = g
               PROVE  \E c, d \in Cmds : cmd'[c].f = f /\ cmd'[d].f = g /\ Before(c, d)'
    BY DEF ReleaseFirst
  <2>1. PICK c, d \in Cmds : cmd[c].f = f /\ cmd[d].f = g /\ Before(c, d)
    BY DEF ReleaseFirst
  <2>2. cmd'[c].f = f /\ cmd'[d].f = g /\ Before(c, d)'
    BY <2>1, BeforeMeans
  <2> QED BY <2>2
<1> QED BY <1>2, <1>3

SetResInv == TableInv /\ IdentityInv /\ TablesInv

LEMMA GrantTables ==
    ASSUME SetResInv, "busy" \notin Faults, NEW c \in Cmds, OnIpcChannelReady(c)
    PROVE  TablesInv'
<1>1. /\ chan = NoOne /\ waiters # <<>> /\ Head(waiters) = c /\ waiters' = Tail(waiters)
      /\ chan' = c /\ req' = SetResMsg(cmd[c].f, owner)
      /\ cmd' = [cmd EXCEPT ![c].st = "WaitIpcResponse"]
      /\ UNCHANGED <<owner, flr, rsp, mask, ident, init, keysOf, tenancy, failed>>
  BY DEF OnIpcChannelReady, Granted, hsmVars, tableVars
<1>2. /\ waiters \in Seq(Cmds \cup {"Cntrl"})
      /\ \A i, j \in 1..Len(waiters) : waiters[i] = waiters[j] => i = j
      /\ cmd \in [Cmds -> [st : {"Idle", "WaitIpcChannel", "WaitIpcResponse"},
                           f : Functions \cup {NoOne}]]
      /\ rsp = NoRsp /\ init = NoInit
  BY <1>1 DEF SetResInv, IdentityInv, ChannelInv, ShapeOK, QueueOK, TalkOK
<1>3. /\ \A d \in Cmds : cmd'[d].f = cmd[d].f
      /\ \A d \in Cmds : cmd'[d] # Idle => cmd[d] # Idle
  <2>1. Waits(c)
    BY <1>1, <1>2, Left
  <2>2. cmd[c].st = "WaitIpcChannel"
    BY <2>1 DEF SetResInv, IdentityInv, ChannelInv, QueueOK
  <2> QED BY <1>1, <1>2, <2>2 DEF Idle
<1>4. req' # NoMsg
  BY <1>1 DEF SetResMsg, NoMsg
<1>5. NoOne \notin Cmds
  BY SetResAssumption
<1>6. \A d \in Cmds : /\ Unseen(d) => Unseen(d)'
                      /\ \A e \in Cmds : Before(d, e) => Before(d, e)'
  BY <1>1, <1>2, <1>4, <1>5, BeforeLeaves
<1>7. Within' /\ ReleaseFirst'
  BY <1>1, <1>3, <1>6, OrderKept DEF SetResInv, TablesInv
<1>8. OneEach'
  BY <1>3 DEF SetResInv, TablesInv, OneEach
<1>9. MaskCarried'
  BY <1>1 DEF MaskCarried, SetResMsg, Owned
<1>10. AllSettled'
  BY <1>1, <1>2, <1>3 DEF SetResInv, TablesInv, AllSettled, Settled, Owned, Busy, NoRsp
<1> QED BY <1>1, <1>7, <1>8, <1>9, <1>10
        DEF SetResInv, TablesInv, MasksApart, KeysOwned, TablesClean

LEMMA ResponseTables ==
    ASSUME SetResInv, NEW c \in Cmds, OnIpcResponse(c)
    PROVE  TablesInv'
<1>1. /\ chan = c /\ rsp # NoRsp /\ cmd' = [cmd EXCEPT ![c] = Idle]
      /\ chan' = NoOne /\ rsp' = NoRsp
      /\ failed' = IF rsp = "Success" THEN failed \ {cmd[c].f} ELSE failed \cup {cmd[c].f}
      /\ UNCHANGED <<owner, waiters, flr, req, mask, ident, init, keysOf, tenancy>>
  BY DEF OnIpcResponse, hsmVars, tableVars
<1>2. /\ req = NoMsg /\ init = NoInit
      /\ cmd \in [Cmds -> [st : {"Idle", "WaitIpcChannel", "WaitIpcResponse"},
                           f : Functions \cup {NoOne}]]
      /\ ~Waits(c) /\ flr = "None"
  BY <1>1 DEF SetResInv, IdentityInv, ChannelInv, ShapeOK, QueueOK, TalkOK, ResetAlone, Idle
<1>3. cmd'[c] = Idle /\ \A d \in Cmds \ {c} : cmd'[d] = cmd[d]
  BY <1>1, <1>2
<1>4. \A d : Waits(d)' <=> Waits(d)
  BY <1>1 DEF Waits
<1>5. \A d \in Cmds : Unseen(d) => Unseen(d)' /\ cmd'[d].f = cmd[d].f
  BY <1>2, <1>3, <1>4 DEF Unseen
<1>6. \A d, e \in Cmds : Before(d, e) => Before(d, e)' /\ cmd'[e].f = cmd[e].f
  <2>1. \A d, e \in Cmds : Before(d, e) => Before(d, e)'
    BY <1>1, <1>2 DEF Before
  <2>2. \A d, e \in Cmds : Before(d, e) => e # c
    BY <1>2, BeforeMeans
  <2> QED BY <1>3, <2>1, <2>2
<1>7. Within' /\ ReleaseFirst'
  BY <1>1, <1>5, <1>6, OrderKept DEF SetResInv, TablesInv
<1>8. OneEach'
  <2>1. NoOne = Idle.f
    BY DEF Idle
  <2>2. \A d \in Cmds : cmd[d] # Idle => cmd[d].f # NoOne
    BY <1>2, TableAssumption DEF SetResInv, IdentityInv, ChannelInv, QueueOK, Idle
  <2> QED BY <1>3, <2>1, <2>2 DEF SetResInv, TablesInv, OneEach
<1>9. MaskCarried'
  BY <1>1, <1>2 DEF MaskCarried, NoMsg
<1>10. AllSettled'
  <2>1. ASSUME NEW f \in Functions \ failed', ~Busy(f)' PROVE Settled(f)
    <3>1. CASE f = cmd[c].f
      <4>1. rsp = "Success"
        BY <1>1, <2>1, <3>1
      <4> QED BY <1>1, <3>1, <4>1 DEF SetResInv, TablesInv, AllSettled
    <3>2. CASE f # cmd[c].f
      <4>1. ~Busy(f) /\ f \notin failed
        BY <1>1, <1>3, <2>1, <3>2 DEF Busy
      <4> QED BY <1>2, <4>1 DEF SetResInv, TablesInv, AllSettled
    <3> QED BY <3>1, <3>2
  <2>2. \A f : Settled(f)' <=> Settled(f)
    BY <1>1 DEF Settled, Owned
  <2> QED BY <1>1, <1>2, <2>1, <2>2 DEF AllSettled, NoRsp
<1> QED BY <1>1, <1>7, <1>8, <1>9, <1>10
        DEF SetResInv, TablesInv, MasksApart, KeysOwned, TablesClean

LEMMA CntrlTables ==
    ASSUME SetResInv, (\E f \in Functions : CntrlBegin(f)) \/ CntrlChannelReady \/ CntrlEnd
    PROVE  TablesInv'
<1>1. UNCHANGED <<owner, cmd, flr, mask, ident, init, keysOf, tenancy, failed>>
  BY DEF CntrlBegin, CntrlChannelReady, CntrlEnd, hsmVars, tableVars
<1>2. "Cntrl" \notin Cmds /\ NoOne \notin Cmds
  BY SetResAssumption
<1>3. /\ waiters \in Seq(Cmds \cup {"Cntrl"})
      /\ \A i, j \in 1..Len(waiters) : waiters[i] = waiters[j] => i = j
  BY DEF SetResInv, IdentityInv, ChannelInv, ShapeOK, QueueOK
<1> DEFINE Order == /\ \A c \in Cmds : Unseen(c) => Unseen(c)'
                    /\ \A c, d \in Cmds : Before(c, d) => Before(c, d)'
<1>4. ASSUME Order, req' = req \/ req'.op # "SetRes", chan' = chan \/ chan' \notin Cmds,
             rsp' = rsp \/ chan' \notin Cmds
      PROVE  TablesInv'
  <2>1. Within' /\ ReleaseFirst'
    BY <1>1, <1>4, OrderKept DEF SetResInv, TablesInv
  <2>2. MaskCarried'
    BY <1>1, <1>4 DEF SetResInv, TablesInv, MaskCarried, Owned
  <2>3. AllSettled'
    BY <1>1, <1>4 DEF SetResInv, TablesInv, AllSettled, Settled, Owned, Busy
  <2> QED BY <1>1, <2>1, <2>2, <2>3
          DEF SetResInv, TablesInv, OneEach, MasksApart, KeysOwned, TablesClean
<1> HIDE DEF Order
<1>5. ASSUME NEW f \in Functions, CntrlBegin(f) PROVE TablesInv'
  <2>0. rsp' = rsp
    BY <1>5 DEF CntrlBegin
  <2>1. CASE Available /\ CntrlSend(f) /\ waiters' = waiters
    <3>1. \A c \in Cmds : ~Unseen(c)
      BY <1>2, <2>1 DEF Unseen, Waits, Available
    <3>2. Order
      BY <3>1, BeforeMeans DEF Order
    <3>3. chan' = "Cntrl" /\ req'.op # "SetRes"
      BY <2>1 DEF CntrlSend
    <3> QED BY <1>2, <1>4, <2>0, <3>2, <3>3
  <2>2. CASE waiters' = Append(waiters, "Cntrl") /\ UNCHANGED <<chan, req>>
    <3>1. Order
      BY <1>3, <2>2, BeforeJoins DEF Order
    <3> QED BY <1>4, <2>0, <2>2, <3>1
  <2> QED BY <1>5, <2>1, <2>2 DEF CntrlBegin
<1>6. CASE CntrlChannelReady
  <2>1. /\ chan = NoOne /\ waiters # <<>> /\ Head(waiters) = "Cntrl" /\ waiters' = Tail(waiters)
        /\ rsp' = rsp
    BY <1>6 DEF CntrlChannelReady, Granted
  <2>2. Order
    BY <1>2, <1>3, <2>1, BeforeLeaves DEF Order
  <2>3. (chan' = "Cntrl" /\ req'.op # "SetRes") \/ UNCHANGED <<chan, req>>
    BY <1>6 DEF CntrlChannelReady, CntrlSend
  <2> QED BY <1>2, <1>4, <2>1, <2>2, <2>3
<1>7. CASE CntrlEnd
  <2>1. chan = "Cntrl" /\ rsp # NoRsp /\ chan' = NoOne /\ UNCHANGED <<waiters, req>>
    BY <1>7 DEF CntrlEnd
  <2>2. Order
    BY <1>2, <2>1 DEF Order, Unseen, Before, Waits
  <2> QED BY <1>2, <1>4, <2>1, <2>2
<1> QED BY <1>5, <1>6, <1>7

(* handle_pfn_enable takes keys away and changes no mask *)
LEMMA EnableTables == ASSUME SetResInv, HandlePfnEnable PROVE TablesInv'
<1>1. /\ req.op \in {"Enable", "Disable"} /\ req' = NoMsg
      /\ keysOf' \in {keysOf, Cleared({req.f})}
      /\ UNCHANGED <<owner, cmd, chan, waiters, flr, init, mask, ident, tenancy, failed>>
  BY DEF HandlePfnEnable, adminVars, tableVars
<1>2. chan = "Cntrl" /\ "Cntrl" \notin Cmds
  BY <1>1, SetResAssumption DEF SetResInv, IdentityInv, ChannelInv, TalkOK
<1>3. Within' /\ ReleaseFirst'
  <2>1. \A c \in Cmds : Unseen(c) => Unseen(c)'
    BY <1>1, <1>2 DEF Unseen, Waits
  <2>2. \A c, d \in Cmds : Before(c, d) => Before(c, d)'
    BY <1>1, <1>2 DEF Before, Waits
  <2> QED BY <1>1, <2>1, <2>2, OrderKept DEF SetResInv, TablesInv
<1>4. KeysOwned' /\ TablesClean'
  <2>1. \A r \in Resources : keysOf'[r] = keysOf[r] \/ keysOf'[r] = NoKeys
    BY <1>1 DEF Cleared
  <2> QED BY <1>1, <2>1 DEF SetResInv, TablesInv, KeysOwned, TablesClean
<1>5. AllSettled'
  BY <1>1, <1>2 DEF SetResInv, TablesInv, AllSettled, Settled, Owned, Busy
<1> QED BY <1>1, <1>3, <1>4, <1>5
        DEF SetResInv, TablesInv, OneEach, MaskCarried, MasksApart, NoMsg

(* The steps of HsmPartInitFsm answer Success with a valid identity only *)
LEMMA InitTables ==
    ASSUME SetResInv,
           PkaReadyForPIDK \/ KeyGenerated \/ PkaReadyForPct \/ Signed \/ Verified
    PROVE  TablesInv'
<1>1. /\ init.st # "None"
      /\ UNCHANGED <<owner, cmd, chan, waiters, flr, req, mask, keysOf, tenancy, failed>>
  BY DEF PkaReadyForPIDK, KeyGenerated, PkaReadyForPct, Signed, Verified, initFrame, adminVars,
         tableVars
<1>2. /\ chan \in Cmds /\ init.f = cmd[chan].f /\ init.f \in Functions
      /\ rsp = NoRsp /\ init # NoInit /\ flr = "None"
      /\ ident \in [Functions -> [id : Nat, key : Nat, valid : BOOLEAN]]
  <2>1. ChannelInv
    BY DEF SetResInv, IdentityInv
  <2> QED BY <1>1, <2>1, Worked DEF ChannelInv, ShapeOK, NoInit
<1>3. Within' /\ ReleaseFirst'
  <2>1. \A c, d : (Unseen(c)' <=> Unseen(c)) /\ (Before(c, d)' <=> Before(c, d))
    BY <1>1 DEF Unseen, Before, Waits
  <2> QED BY <1>1, <2>1, OrderKept DEF SetResInv, TablesInv
<1>4. /\ \A g \in Functions \ {init.f} : ident'[g] = ident[g]
      /\ init' = NoInit \/ init'.f = init.f
      /\ rsp' = "Success" => ident'[init.f].valid
  <2>1. CASE PkaReadyForPIDK
    BY <1>2, <2>1 DEF PkaReadyForPIDK, BeginGenerate, Respond, InitState, NoRsp
  <2>2. CASE KeyGenerated
    BY <1>2, <2>2 DEF KeyGenerated, BeginPct, EndSilently, Respond, InitState, NoRsp
  <2>3. CASE PkaReadyForPct
    BY <1>2, <2>3 DEF PkaReadyForPct, BeginPct, EndSilently, Respond, InitState, NoRsp
  <2>4. CASE Signed
    <3>1. init \in [st : {"None", "WaitForPIDK", "GeneratingPartitionKey", "WaitForPct",
                          "WaitForSign", "WaitForVerify"},
                    f : Functions \cup {NoOne}, km : Nat]
      BY DEF SetResInv, IdentityInv, ChannelInv, ShapeOK
    <3> QED BY <1>2, <2>4, <3>1 DEF Signed, EndSilently, NoRsp
  <2>5. CASE Verified
    BY <1>2, <2>5 DEF Verified, EndSilently, Respond, NoRsp
  <2> QED BY <2>1, <2>2, <2>3, <2>4, <2>5
<1>5. mask[init.f] = Owned(init.f) /\ \A f : Owned(f)' = Owned(f)
  BY <1>1, <1>2 DEF SetResInv, TablesInv, AllSettled, Owned
<1>6. AllSettled'
  <2>1. \A f \in Functions : Busy(f)' <=> Busy(f)
    BY <1>1 DEF Busy
  <2>2. PICK g \in Functions : g = init.f
    BY <1>2
  <2>3. Busy(g) /\ cmd'[chan'].f = g
    BY <1>1, <1>2, <2>2 DEF Busy
  <2>4. \A f \in Functions \ failed : ~Busy(f) => Settled(f)'
    BY <1>1, <1>2, <1>4, <1>5, <2>2, <2>3 DEF SetResInv, TablesInv, AllSettled, Settled
  <2>5. rsp' = "Success" => Settled(g)'
    BY <1>1, <1>4, <1>5, <2>2 DEF Settled
  <2>6. (init # NoInit => mask[init.f] = Owned(init.f))'
    BY <1>1, <1>4, <1>5, <2>2 DEF Owned
  <2>7. (chan \in Cmds /\ rsp = "Success" => Settled(cmd[chan].f))'
    BY <1>1, <2>3, <2>5 DEF Settled, Owned
  <2> QED BY <1>1, <1>2, <2>1, <2>4, <2>6, <2>7 DEF AllSettled
<1> QED BY <1>1, <1>3, <1>6
        DEF SetResInv, TablesInv, OneEach, MaskCarried, Owned, MasksApart, KeysOwned, TablesClean

LEMMA StoreTables ==
    ASSUME SetResInv, NEW f \in Functions, NEW r \in Resources, StoreKey(f, r)
    PROVE  TablesInv'
<1>1. /\ r \in mask[f] /\ keysOf' = [keysOf EXCEPT ![r] = [f |-> f, t |-> tenancy[f]]]
      /\ UNCHANGED <<owner, cmd, chan, waiters, flr, req, rsp, mask, ident, init, tenancy, failed>>
  BY DEF StoreKey, adminVars, tableVars
<1>2. /\ keysOf'[r].f = f /\ keysOf'[r].t = tenancy[f]
      /\ \A q \in Resources \ {r} : keysOf'[q] = keysOf[q]
  BY <1>1 DEF SetResInv, IdentityInv, ChannelInv, ShapeOK
<1>3. KeysOwned' /\ TablesClean'
  BY <1>1, <1>2 DEF SetResInv, TablesInv, KeysOwned, TablesClean
<1>4. Within' /\ ReleaseFirst'
  <2>1. \A c, d : (Unseen(c)' <=> Unseen(c)) /\ (Before(c, d)' <=> Before(c, d))
    BY <1>1 DEF Unseen, Before, Waits
  <2> QED BY <1>1, <2>1, OrderKept DEF SetResInv, TablesInv
<1> QED BY <1>1, <1>3, <1>4
        DEF SetResInv, TablesInv, OneEach, MaskCarried, Owned, MasksApart, AllSettled, Settled, Busy

LEMMA OnlyOthers ==
    ASSUME SetResInv,
           UNCHANGED <<owner, cmd, chan, waiters, req, rsp, mask, ident, init, keysOf, tenancy, failed>>,
           flr' = flr \/ (flr # "Admin" /\ flr' # "Admin")
    PROVE  TablesInv'
<1>1. Within' /\ ReleaseFirst'
  <2>1. \A c, d : (Unseen(c)' <=> Unseen(c)) /\ (Before(c, d)' <=> Before(c, d))
    BY DEF Unseen, Before, Waits
  <2> QED BY <2>1, OrderKept DEF SetResInv, TablesInv
<1> QED BY <1>1
        DEF SetResInv, TablesInv, OneEach, MaskCarried, Owned, MasksApart, KeysOwned, TablesClean,
            AllSettled, Settled, Busy

(* Once the masks are empty there is no order to keep *)
LEMMA NothingMasked ==
    ASSUME \A f \in Functions : mask[f] = {}
    PROVE  Within /\ ReleaseFirst /\ MasksApart
  BY DEF Within, ReleaseFirst, MasksApart

LEMMA FlrTables ==
    ASSUME SetResInv, Liberties = {}, OnPcieFlr \/ OnFlr \/ CompleteFlr
    PROVE  TablesInv'
<1>1. CASE OnPcieFlr
  BY <1>1, OnlyOthers DEF OnPcieFlr, tableVars, adminVars, hsmVars
<1>2. ASSUME flr # "None" PROVE \A c \in Cmds : cmd[c] = Idle
  BY <1>2 DEF SetResInv, IdentityInv, ChannelInv, ResetAlone
<1>3. ASSUME flr # "None" PROVE chan \notin Cmds /\ req.op # "SetRes" /\ init = NoInit
  <2>1. ChannelInv
    BY DEF SetResInv, IdentityInv
  <2> QED BY <1>2, <1>3, <2>1, Worked DEF ChannelInv, QueueOK, TalkOK, Idle
<1>4. CASE OnFlr
  <2>1. /\ flr = "Hsm" /\ flr' = "Admin" /\ Reset(Functions)
        /\ UNCHANGED <<owner, cmd, chan, waiters, req, rsp, init, failed>>
    BY <1>4 DEF OnFlr, tableVars, adminVars
  <2>2. (\A f \in Functions : mask[f] = {})'
    BY <2>1 DEF Reset
  <2>3. \A r \in Resources : keysOf'[r] = NoKeys
    BY <2>1 DEF SetResInv, TablesInv, TablesClean, KeysOwned, Reset, Cleared
  <2>4. (Within /\ ReleaseFirst /\ MasksApart)'
    BY <2>2, NothingMasked, PTL
  <2>5. AllSettled'
    BY <1>3, <2>1, <2>2 DEF AllSettled
  <2> QED BY <1>3, <2>1, <2>3, <2>4, <2>5
          DEF SetResInv, TablesInv, OneEach, MaskCarried, KeysOwned, TablesClean
<1>5. CASE CompleteFlr
  <2>1. /\ flr = "Admin" /\ flr' = "None" /\ ResetTable
        /\ UNCHANGED <<cmd, chan, waiters, req, rsp, mask, ident, init, keysOf, tenancy>>
    BY <1>5 DEF CompleteFlr, hsmVars
  <2>2. (\A f \in Functions : mask[f] = {})'
    BY <2>1 DEF SetResInv, TablesInv, AllSettled
  <2>3. (Within /\ ReleaseFirst /\ MasksApart)'
    BY <2>2, NothingMasked, PTL
  <2>4. \A f \in Functions : Owned(f)' = {}
    BY <2>1, TableAssumption DEF ResetTable, Empty, Owned
  <2>5. AllSettled'
    BY <1>3, <2>1, <2>2, <2>4 DEF AllSettled, Settled
  <2> QED BY <1>3, <2>1, <2>3, <2>5
          DEF SetResInv, TablesInv, OneEach, MaskCarried, KeysOwned, TablesClean
<1> QED BY <1>1, <1>4, <1>5

(* handle_set_resource with resources: what the partition gets nobody else *)
(* has, and it includes what the partition had                             *)
LEMMA SetResTables == ASSUME SetResInv, HandleSetRes PROVE TablesInv'
<1>0. ChannelInv
  BY DEF SetResInv, IdentityInv
<1>1. /\ req.op = "SetRes" /\ req.mask # {} /\ req' = NoMsg
      /\ UNCHANGED <<owner, cmd, chan, waiters, flr, keysOf, tenancy, failed>>
  BY DEF HandleSetRes, adminVars, tableVars
<1>2. PICK f \in Functions : f = req.f
  BY <1>0, <1>1, Worked
<1>3. /\ chan \in Cmds /\ cmd[chan].st = "WaitIpcResponse" /\ cmd[chan].f = f
      /\ rsp = NoRsp /\ init = NoInit /\ req # NoMsg /\ flr = "None"
      /\ ~Waits(chan)
  BY <1>0, <1>1, <1>2, Worked DEF ChannelInv, QueueOK, TalkOK, NoMsg
<1>4. req.mask = Owned(f) /\ Owned(f) # {} /\ mask[f] \subseteq Owned(f)
  BY <1>1, <1>2 DEF SetResInv, TablesInv, MaskCarried, Within
<1>5. /\ mask'[f] = Owned(f) \/ (mask'[f] = mask[f] /\ rsp' = "InvalidField" /\ init' = init)
      /\ \A g \in Functions \ {f} : mask'[g] = mask[g]
  BY <1>2, <1>4 DEF HandleSetRes, SetResInv, IdentityInv, ChannelInv, ShapeOK
<1>6. \A g : Owned(g)' = Owned(g)
  BY <1>1 DEF Owned
<1>7. \A c \in Cmds \ {chan} : Unseen(c) => Unseen(c)'
  BY <1>1 DEF Unseen, Waits
<1>8. \A c \in Cmds \ {chan} : \A d : Before(c, d) => Before(c, d)'
  BY <1>1 DEF Before
<1>9. Within'
  <2> SUFFICES ASSUME NEW g \in Functions
               PROVE  mask'[g] \subseteq Owned(g) \/ (Pending(g)' /\ Owned(g) = {})
    BY <1>6 DEF Within
  <2>1. CASE g = f
    BY <1>4, <1>5, <2>1
  <2>2. CASE g # f
    <3>1. Pending(g) => Pending(g)'
      BY <1>1, <1>3, <1>7, <2>2 DEF Pending
    <3> QED BY <1>5, <2>2, <3>1 DEF SetResInv, TablesInv, Within
  <2> QED BY <2>1, <2>2
<1>10. \A g, h \in Functions : \A r \in Resources :
         g # h /\ g # f /\ r \in mask[g] /\ owner[r] = h =>
           \E c, d \in Cmds : c # chan /\ d # chan /\ cmd[c].f = g /\ cmd[d].f = h /\ Before(c, d)
  <2> SUFFICES ASSUME NEW g \in Functions, NEW h \in Functions, NEW r \in Resources,
                      g # h, g # f, r \in mask[g], owner[r] = h
               PROVE  \E c, d \in Cmds : c # chan /\ d # chan
                                         /\ cmd[c].f = g /\ cmd[d].f = h /\ Before(c, d)
    OBVIOUS
  <2>1. PICK c, d \in Cmds : cmd[c].f = g /\ cmd[d].f = h /\ Before(c, d)
    BY DEF SetResInv, TablesInv, ReleaseFirst
  <2>2. c # chan /\ d # chan
    BY <1>3, <2>1, BeforeMeans
  <2> QED BY <2>1, <2>2
<1>11. ReleaseFirst'
  <2> SUFFICES ASSUME NEW g \in Functions, NEW h \in Functions, NEW r \in Resources,
                      g # h, r \in mask'[g], owner[r] = h
               PROVE  \E c, d \in Cmds : cmd[c].f = g /\ cmd[d].f = h /\ Before(c, d)'
    BY <1>1 DEF ReleaseFirst
  <2>1. g # f
    BY <1>4, <1>5 DEF Owned
  <2> QED BY <1>5, <1>8, <1>10, <2>1
<1>12. MasksApart'
  <2>1. ASSUME NEW g \in Functions \ {f} PROVE mask[g] \cap Owned(f) = {}
    <3> SUFFICES ASSUME NEW r \in mask[g], r \in Owned(f) PROVE FALSE
      OBVIOUS
    <3>1. PICK c, d \in Cmds : d # chan /\ cmd[d].f = f /\ Before(c, d)
      BY <1>10, <2>1 DEF Owned
    <3>2. cmd[d] # Idle
      BY <1>0, <3>1, TableAssumption DEF Idle
    <3> QED BY <1>3, <3>1, <3>2 DEF SetResInv, TablesInv, OneEach
  <2>2. mask'[f] \subseteq Owned(f)
    BY <1>4, <1>5
  <2>3. \A g, h \in Functions : g # h => mask[g] \cap mask[h] = {}
    BY DEF SetResInv, TablesInv, MasksApart
  <2> SUFFICES ASSUME NEW g \in Functions, NEW h \in Functions, g # h
               PROVE  mask'[g] \cap mask'[h] = {}
    BY DEF MasksApart
  <2>4. CASE g = f
    BY <1>5, <2>1, <2>2, <2>4
  <2>5. CASE h = f
    BY <1>5, <2>1, <2>2, <2>5
  <2>6. CASE g # f /\ h # f
    BY <1>5, <2>3, <2>6
  <2> QED BY <2>4, <2>5, <2>6
<1>13. KeysOwned' /\ TablesClean'
  <2>1. \A g \in Functions : mask[g] \subseteq mask'[g]
    BY <1>4, <1>5
  <2> QED BY <1>1, <2>1 DEF SetResInv, TablesInv, KeysOwned, TablesClean
<1>14. /\ \A g \in Functions \ {f} : ident'[g] = ident[g]
       /\ init' # NoInit => init'.f = f /\ mask'[f] = Owned(f)
       /\ rsp' = "Success" => mask'[f] = Owned(f) /\ ident'[f].valid
  <2>0. /\ ident \in [Functions -> [id : Nat, key : Nat, valid : BOOLEAN]]
        /\ mask \in [Functions -> SUBSET Resources]
    BY <1>0 DEF ChannelInv, ShapeOK
  <2>1. CASE mask' = [mask EXCEPT ![f] = req.mask] /\ BeginGenerate(f)
    BY <1>3, <1>4, <2>0, <2>1 DEF BeginGenerate, Respond, InitState, NoRsp
  <2>2. CASE /\ mask' = [mask EXCEPT ![f] = req.mask]
             /\ init' = InitState("WaitForPIDK", f, 0) /\ UNCHANGED <<ident, rsp>>
    BY <1>3, <1>4, <2>0, <2>2 DEF InitState, NoRsp
  <2>3. CASE rsp' = "InvalidField" /\ UNCHANGED <<mask, init, ident>>
    BY <1>3, <2>3
  <2> QED BY <1>2, <2>1, <2>2, <2>3 DEF HandleSetRes
<1>15. AllSettled'
  <2>1. Busy(f) /\ cmd'[chan'].f = f /\ \A g : Busy(g)' <=> Busy(g)
    BY <1>1, <1>3 DEF Busy
  <2>2. \A g \in Functions \ failed : ~Busy(g) => Settled(g)'
    BY <1>3, <1>5, <1>6, <1>14, <2>1 DEF SetResInv, TablesInv, AllSettled, Settled
  <2>3. (chan \in Cmds /\ rsp = "Success" => Settled(cmd[chan].f))'
    BY <1>6, <1>14, <2>1 DEF Settled, Owned
  <2>4. (init # NoInit => mask[init.f] = Owned(init.f))'
    BY <1>6, <1>14 DEF Owned
  <2> QED BY <1>1, <1>3, <2>1, <2>2, <2>3, <2>4 DEF AllSettled
<1> QED BY <1>1, <1>9, <1>11, <1>12, <1>13, <1>15
        DEF SetResInv, TablesInv, OneEach, MaskCarried, NoMsg

(* handle_set_resource without resources: a partition whose function owns  *)
(* nothing is reset                                                        *)
LEMMA ZeroTables == ASSUME SetResInv, HandleSetResZero PROVE TablesInv'
<1>0. ChannelInv
  BY DEF SetResInv, IdentityInv
<1>1. /\ req.op = "SetRes" /\ req.mask = {} /\ req' = NoMsg /\ rsp' = "Success" /\ Reset({req.f})
      /\ UNCHANGED <<owner, cmd, chan, waiters, flr, init, failed>>
  BY DEF HandleSetResZero, adminVars, tableVars
<1>2. PICK f \in Functions : f = req.f
  BY <1>0, <1>1, Worked
<1>3. /\ chan \in Cmds /\ cmd[chan].st = "WaitIpcResponse" /\ cmd[chan].f = f
      /\ init = NoInit /\ flr = "None" /\ ~Waits(chan)
  BY <1>0, <1>1, <1>2, Worked DEF ChannelInv, QueueOK, TalkOK, NoMsg
<1>4. Owned(f) = {} /\ \A g : Owned(g)' = Owned(g)
  BY <1>1, <1>2 DEF SetResInv, TablesInv, MaskCarried, Owned
<1>5. /\ mask'[f] = {}
      /\ \A g \in Functions \ {f} : mask'[g] = mask[g] /\ ident'[g] = ident[g] /\ tenancy'[g] = tenancy[g]
      /\ keysOf' = [r \in Resources |-> IF r \in mask[f] THEN NoKeys ELSE keysOf[r]]
  BY <1>1, <1>2 DEF Reset, Cleared
<1>6. \A c \in Cmds \ {chan} : /\ Unseen(c) => Unseen(c)'
                               /\ \A d : Before(c, d) => Before(c, d)'
  BY <1>1 DEF Unseen, Waits, Before
<1>7. Within'
  <2> SUFFICES ASSUME NEW g \in Functions
               PROVE  mask'[g] \subseteq Owned(g) \/ (Pending(g)' /\ Owned(g) = {})
    BY <1>4 DEF Within
  <2>1. CASE g = f
    BY <1>5, <2>1
  <2>2. CASE g # f
    <3>1. Pending(g) => Pending(g)'
      BY <1>1, <1>3, <1>6, <2>2 DEF Pending
    <3> QED BY <1>5, <2>2, <3>1 DEF SetResInv, TablesInv, Within
  <2> QED BY <2>1, <2>2
<1>8. ReleaseFirst'
  <2> SUFFICES ASSUME NEW g \in Functions, NEW h \in Functions, NEW r \in Resources,
                      g # h, r \in mask'[g], owner[r] = h
               PROVE  \E c, d \in Cmds : cmd[c].f = g /\ cmd[d].f = h /\ Before(c, d)'
    BY <1>1 DEF ReleaseFirst
  <2>1. g # f /\ r \in mask[g]
    BY <1>5
  <2>2. PICK c, d \in Cmds : cmd[c].f = g /\ cmd[d].f = h /\ Before(c, d)
    BY <2>1 DEF SetResInv, TablesInv, ReleaseFirst
  <2> QED BY <1>3, <1>6, <2>1, <2>2
<1>9. MasksApart'
  <2>1. \A g \in Functions : mask'[g] \subseteq mask[g]
    BY <1>5
  <2> QED BY <2>1 DEF SetResInv, TablesInv, MasksApart
<1>10. KeysOwned' /\ TablesClean'
  <2> SUFFICES ASSUME NEW r \in Resources, keysOf'[r] # NoKeys
               PROVE  /\ keysOf'[r].f \in Functions /\ r \in mask'[keysOf'[r].f]
                      /\ tenancy'[keysOf'[r].f] = keysOf'[r].t
    BY DEF KeysOwned, TablesClean
  <2>1. keysOf'[r] = keysOf[r] /\ r \notin mask[f]
    BY <1>5
  <2>2. keysOf[r].f \in Functions /\ r \in mask[keysOf[r].f] /\ tenancy[keysOf[r].f] = keysOf[r].t
    BY <2>1 DEF SetResInv, TablesInv, KeysOwned, TablesClean
  <2> QED BY <1>5, <2>1, <2>2
<1>11. AllSettled'
  <2>1. Busy(f) /\ cmd'[chan'].f = f /\ \A g : Busy(g)' <=> Busy(g)
    BY <1>1, <1>3 DEF Busy
  <2>2. \A g \in Functions \ failed : ~Busy(g) => Settled(g)'
    BY <1>3, <1>4, <1>5, <2>1 DEF SetResInv, TablesInv, AllSettled, Settled
  <2>3. (chan \in Cmds /\ rsp = "Success" => Settled(cmd[chan].f))'
    BY <1>4, <1>5, <2>1 DEF Settled, Owned
  <2> QED BY <1>1, <1>3, <2>1, <2>2, <2>3 DEF AllSettled
<1> QED BY <1>1, <1>7, <1>8, <1>9, <1>10, <1>11
        DEF SetResInv, TablesInv, OneEach, MaskCarried, NoMsg

(* on_start: what is freed is still in a mask only while its release is on *)
(* the way, and whoever gets it comes after                                *)
LEMMA StartTables ==
    ASSUME SetResInv, Liberties = {}, "busy" \notin Faults,
           NEW c \in Cmds, NEW f \in Functions, NEW n \in 0..NR, OnStart(c, f, n)
    PROVE  TablesInv'
<1>0. ChannelInv /\ TableInv
  BY DEF SetResInv, IdentityInv
<1>1. /\ cmd[c] = Idle /\ flr = "None"
      /\ n = 0 \/ n >= res_cnt[f]
      /\ \A d \in Cmds : cmd[d].f # f
      /\ UNCHANGED <<flr, rsp, mask, ident, init, keysOf, tenancy, failed>>
  BY DEF OnStart, SendOrWait, hsmVars
<1>2. f # NoOne /\ NoOne \notin Cmds /\ NoOne \notin Functions
  BY TableAssumption, SetResAssumption
<1>3. CASE UNCHANGED <<tableVars, cmd, chan, waiters, req>>
  BY <1>1, <1>3, OnlyOthers DEF tableVars
<1>4. CASE n # res_cnt[f] /\ SetResCnt(f, n) /\ SendOrWait(c, f)
  <2>1. n = 0 \/ n > res_cnt[f]
    <3>1. res_cnt[f] \in Int /\ n \in Int
      BY <1>0, TableAssumption DEF TableInv, TableTypeOK
    <3> QED BY <1>1, <1>4, <3>1
  <2>2. /\ \A g \in Functions \ {f} : Owned(g)' = Owned(g)
        /\ n = 0 => Owned(f)' = {}
        /\ n > res_cnt[f] => /\ Owned(f) \subseteq Owned(f)'
                             /\ \A r \in Owned(f)' \ Owned(f) : owner[r] = NoOne
    BY <1>0, <1>4, Moves
  <2>3. /\ waiters \in Seq(Cmds \cup {"Cntrl"})
        /\ cmd \in [Cmds -> [st : {"Idle", "WaitIpcChannel", "WaitIpcResponse"},
                             f : Functions \cup {NoOne}]]
    BY <1>0 DEF ChannelInv, ShapeOK
  <2>4. cmd[c].f = NoOne /\ cmd'[c].f = f /\ \A d \in Cmds \ {c} : cmd'[d] = cmd[d]
    BY <1>1, <1>4, <2>3 DEF SendOrWait, Idle
  <2>5. /\ \A d \in Cmds : Unseen(d) => Unseen(d)' /\ Before(d, c)'
        /\ \A d, e \in Cmds : Before(d, e) => Before(d, e)'
        /\ Unseen(c)'
    <3>1. CASE Available /\ chan' = c /\ req' = SetResMsg(f, owner')
      <4>1. \A d \in Cmds : ~Unseen(d)
        BY <1>2, <3>1 DEF Available, Unseen, Waits
      <4>2. req' # NoMsg
        BY <3>1 DEF SetResMsg, NoMsg
      <4> QED BY <3>1, <4>1, <4>2, BeforeMeans DEF Unseen
    <3>2. CASE waiters' = Append(waiters, c) /\ UNCHANGED <<chan, req>>
      <4>1. Waits(c)'
        BY <2>3, <3>2, Joined
      <4> QED BY <2>3, <3>2, <4>1, BeforeJoins DEF Unseen
    <3> QED BY <1>4, <3>1, <3>2 DEF SendOrWait
  <2>6. \A d \in Cmds : cmd[d].f \in Functions => d # c /\ cmd'[d].f = cmd[d].f
    BY <1>2, <2>4
  <2>7. mask[f] \subseteq Owned(f)
    BY <1>1 DEF SetResInv, TablesInv, Within, Pending
  <2>8. Within'
    <3> SUFFICES ASSUME NEW g \in Functions
                 PROVE  mask[g] \subseteq Owned(g)' \/ (Pending(g)' /\ Owned(g)' = {})
      BY <1>1 DEF Within
    <3>1. CASE g = f
      BY <2>1, <2>2, <2>4, <2>5, <2>7, <3>1 DEF Pending
    <3>2. CASE g # f
      <4>1. Pending(g) => Pending(g)'
        BY <2>5, <2>6 DEF Pending
      <4> QED BY <2>2, <3>2, <4>1 DEF SetResInv, TablesInv, Within
    <3> QED BY <3>1, <3>2
  <2>9. ReleaseFirst'
    <3> SUFFICES ASSUME NEW g \in Functions, NEW h \in Functions, NEW r \in Resources,
                        g # h, r \in mask[g], owner'[r] = h
                 PROVE  \E d, e \in Cmds : cmd'[d].f = g /\ cmd'[e].f = h /\ Before(d, e)'
      BY <1>1 DEF ReleaseFirst
    <3>1. r \in Owned(h)'
      BY DEF Owned
    <3>2. CASE r \in Owned(h)
      <4>1. PICK d, e \in Cmds : cmd[d].f = g /\ cmd[e].f = h /\ Before(d, e)
        BY <3>2 DEF SetResInv, TablesInv, ReleaseFirst, Owned
      <4> QED BY <2>5, <2>6, <4>1
    <3>3. CASE r \notin Owned(h)
      <4>1. h = f /\ owner[r] = NoOne
        BY <2>1, <2>2, <3>1, <3>3
      <4>2. Pending(g)
        BY <1>2, <4>1 DEF SetResInv, TablesInv, Within, Owned
      <4>3. PICK d \in Cmds : cmd[d].f = g /\ Unseen(d)
        BY <4>2 DEF Pending
      <4> QED BY <2>4, <2>5, <2>6, <4>1, <4>3
    <3> QED BY <3>2, <3>3
  <2>10. OneEach'
    BY <1>1, <2>4 DEF SetResInv, TablesInv, OneEach
  <2>11. MaskCarried'
    <3>1. CASE req' = SetResMsg(f, owner')
      BY <3>1 DEF MaskCarried, SetResMsg, Owned
    <3>2. CASE req' = req
      <4>1. req.op = "SetRes" => req.f \in Functions \ {f} /\ req.mask = Owned(req.f)
        BY <1>0, <1>1, Worked DEF SetResInv, TablesInv, MaskCarried
      <4>2. req.op = "SetRes" => req.mask = {r \in Resources : owner'[r] = req.f}
        BY <2>2, <4>1 DEF Owned
      <4> QED BY <3>2, <4>2 DEF MaskCarried, Owned
    <3> QED BY <1>4, <3>1, <3>2 DEF SendOrWait
  <2>12. AllSettled'
    <3>1. \A g \in Functions \ failed : ~Busy(g)' => g # f /\ ~Busy(g)
      BY <2>4, <2>6 DEF Busy
    <3>2. \A g \in Functions \ {f} : Settled(g) => Settled(g)'
      BY <1>1, <2>2 DEF Settled
    <3>3. \A g \in Functions \ failed : ~Busy(g)' => Settled(g)'
      BY <1>1, <3>1, <3>2 DEF SetResInv, TablesInv, AllSettled
    <3>4. ASSUME chan = NoOne PROVE rsp' = NoRsp /\ init' = NoInit
      BY <1>0, <1>1, <3>4 DEF ChannelInv, TalkOK
    <3>5. ASSUME chan # NoOne PROVE chan' = chan
      BY <1>4, <3>5 DEF SendOrWait, Available
    <3>6. chan \in Cmds => cmd[chan].f \in Functions \ {f} /\ chan # c
      BY <1>0, <1>1, <2>3, <2>4 DEF ChannelInv, QueueOK, Idle
    <3>7. (chan \in Cmds /\ rsp = "Success" => Settled(cmd[chan].f))'
      <4> SUFFICES ASSUME chan' \in Cmds, rsp' = "Success" PROVE Settled(cmd[chan].f)'
        OBVIOUS
      <4>1. chan' = chan /\ chan \in Cmds
        BY <1>2, <3>4, <3>5 DEF NoRsp
      <4>2. PICK g \in Functions \ {f} : g = cmd[chan].f
        BY <3>6, <4>1
      <4>3. cmd'[chan'].f = g /\ Settled(g)
        BY <1>1, <2>4, <3>6, <4>1, <4>2 DEF SetResInv, TablesInv, AllSettled
      <4> QED BY <3>2, <4>3 DEF Settled, Owned
    <3>8. (init # NoInit => mask[init.f] = Owned(init.f))'
      <4> SUFFICES ASSUME init # NoInit PROVE (mask[init.f] = Owned(init.f))'
        BY <1>1
      <4>1. PICK g \in Functions \ {f} : g = init.f
        <5>1. init.st # "None"
          BY <1>0 DEF ChannelInv, TalkOK
        <5> QED BY <1>0, <1>1, <5>1, Worked
      <4>2. mask[g] = Owned(g)
        BY <4>1 DEF SetResInv, TablesInv, AllSettled
      <4> QED BY <1>1, <2>2, <4>1, <4>2 DEF Owned
    <3> QED BY <1>1, <3>3, <3>7, <3>8 DEF AllSettled
  <2> QED BY <1>1, <2>8, <2>9, <2>10, <2>11, <2>12
          DEF SetResInv, TablesInv, MasksApart, KeysOwned, TablesClean
<1> QED BY <1>3, <1>4 DEF OnStart

LEMMA TablesBegin == Init => TablesInv
<1> SUFFICES ASSUME Init PROVE TablesInv
  OBVIOUS
<1>1. \A f \in Functions : mask[f] = {}
  BY DEF Init
<1>2. Within /\ ReleaseFirst /\ MasksApart
  BY <1>1, NothingMasked
<1>3. \A f \in Functions : Owned(f) = {}
  BY TableAssumption DEF Init, TableInit, Empty, Owned
<1>4. AllSettled
  BY <1>1, <1>3, SetResAssumption DEF Init, AllSettled, Settled
<1> QED BY <1>2, <1>4 DEF Init, TablesInv, OneEach, MaskCarried, NoMsg, KeysOwned, TablesClean

LEMMA CountsStep ==
    ASSUME TableInv, [Next]_vars PROVE TableInv'
<1>1. ASSUME UNCHANGED tableVars PROVE TableInv'
  BY <1>1, TableStep
<1>2. ASSUME NEW c \in Cmds, NEW f \in Functions, NEW n \in 0..NR, OnStart(c, f, n)
      PROVE  TableInv'
  BY <1>1, <1>2, SetResCntKeeps DEF OnStart
<1>3. CASE CompleteFlr
  BY <1>3, ResetKeeps DEF CompleteFlr
<1>4. ASSUME NEW c \in Cmds, OnIpcChannelReady(c) \/ OnIpcResponse(c) PROVE TableInv'
  BY <1>1, <1>4 DEF OnIpcChannelReady, OnIpcResponse
<1>5. ASSUME NEW f \in Functions, HostSwitch(f) \/ CntrlBegin(f) PROVE TableInv'
  BY <1>1, <1>5 DEF HostSwitch, CntrlBegin
<1>6. CASE CntrlChannelReady \/ CntrlEnd \/ HandleSetRes \/ HandleSetResZero \/ HandlePfnEnable
  BY <1>1, <1>6 DEF CntrlChannelReady, CntrlEnd, HandleSetRes, HandleSetResZero, HandlePfnEnable
<1>7. CASE PkaReadyForPIDK \/ KeyGenerated \/ PkaReadyForPct \/ Signed \/ Verified
  BY <1>1, <1>7 DEF PkaReadyForPIDK, KeyGenerated, PkaReadyForPct, Signed, Verified, initFrame
<1>8. ASSUME NEW f \in Functions, NEW r \in Resources, StoreKey(f, r) PROVE TableInv'
  BY <1>1, <1>8 DEF StoreKey
<1>9. CASE OnPcieFlr \/ OnFlr
  BY <1>1, <1>9 DEF OnPcieFlr, OnFlr
<1>10. CASE UNCHANGED vars
  BY <1>1, <1>10 DEF vars
<1> QED BY <1>2, <1>3, <1>4, <1>5, <1>6, <1>7, <1>8, <1>9, <1>10 DEF Next

LEMMA SetResStep ==
    SetResInv /\ Liberties = {} /\ "busy" \notin Faults /\ [Next]_vars => SetResInv'
<1> SUFFICES ASSUME SetResInv, Liberties = {}, "busy" \notin Faults, [Next]_vars PROVE SetResInv'
  OBVIOUS
<1>1. TableInv' /\ IdentityInv'
  BY CountsStep, IdentityStep DEF SetResInv
<1>2. TablesInv'
  <2>1. ASSUME NEW f \in Functions, HostSwitch(f) PROVE TablesInv'
    BY <2>1, OnlyOthers DEF HostSwitch, tableVars, hsmVars
  <2>2. CASE UNCHANGED vars
    BY <2>2, OnlyOthers DEF vars, tableVars, adminVars, hsmVars
  <2> QED BY <2>1, <2>2, StartTables, GrantTables, ResponseTables, CntrlTables, SetResTables,
             ZeroTables, EnableTables, InitTables, StoreTables, FlrTables DEF Next
<1> QED BY <1>1, <1>2 DEF SetResInv

LEMMA SetResBegins == Init => SetResInv
  BY TableBegins, IdentityBegins, TablesBegin DEF Init, SetResInv

LEMMA SetResHolds == ASSUME Liberties = {}, "busy" \notin Faults PROVE Spec => []SetResInv
<1>1. SetResInv /\ [Next]_vars => SetResInv'
  BY SetResStep
<1> QED BY <1>1, SetResBegins, PTL DEF Spec

(* A host that sends one command of a function at a time, gives up         *)
(* all of its tables or none, and resets the physical function when it is  *)
(* quiet: no key table is ever in the masks of two partitions, though the  *)
(* admin core gives a table on (set_res_cnt) before the HSM core has taken *)
(* it from its last owner (handle_set_resource).  For any number of        *)
(* functions, tables and commands, and whatever fails on the HSM core, as  *)
(* long as the channel takes the requests it is given.                     *)
THEOREM MasksStayApart ==
    ASSUME Liberties = {}, "busy" \notin Faults
    PROVE  Spec => []MasksApart
<1>1. SetResInv => MasksApart
  BY DEF SetResInv, TablesInv
<1> QED BY <1>1, SetResHolds, PTL

(* Under the same host a table comes to a new owner empty: the keys in it  *)
(* are those of the partition that has it, of its present tenancy.         *)
THEOREM TablesComeClean ==
    ASSUME Liberties = {}, "busy" \notin Faults
    PROVE  Spec => []TablesClean
<1>1. SetResInv => TablesClean
  BY DEF SetResInv, TablesInv
<1> QED BY <1>1, SetResHolds, PTL

(* Under the same host, when nothing is in progress, the two cores agree   *)
(* on the tables of every function whose last SetRes succeeded, and such a *)
(* function has its identity if it has tables.                             *)
THEOREM BothCoresAgree ==
    ASSUME Liberties = {}, "busy" \notin Faults
    PROVE  Spec => []CoresAgree
<1>1. SetResInv => CoresAgree
  <2> SUFFICES ASSUME SetResInv, Quiet, flr = "None", NEW f \in Functions \ failed
               PROVE  mask[f] = Owned(f) /\ (mask[f] # {} => ident[f].valid)
    BY DEF CoresAgree
  <2>1. ~Busy(f)
    BY TableAssumption DEF Quiet, Busy, Idle
  <2> QED BY <2>1 DEF SetResInv, TablesInv, AllSettled, Settled
<1> QED BY <1>1, SetResHolds, PTL

=============================================================================
