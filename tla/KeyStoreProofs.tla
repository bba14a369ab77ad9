--------------------------- MODULE KeyStoreProofs ---------------------------
(***************************************************************************)
(* The key vault, for every number and shape of tables and every set of    *)
(* key sizes: the bitmap, the memory and the entries agree, keys never     *)
(* share a block, freed memory is wiped, and the tables implement KeyMap.  *)
(***************************************************************************)
EXTENDS KeyStore, TLAPS, WellFoundedInduction, FiniteSetTheorems

(* Every key has a run of at least one block inside its table; a variable  *)
(* length read back from memory is such a length.                          *)
Sized ==
    \A k \in Live : /\ storage_size(k) \in Nat \ {0}
                    /\ entry[k].off + storage_size(k) <= NB

(* What is inductive *)
IInv == TypeOK /\ Sized /\ NoOverlap /\ UsedExact /\ FreeIsZero /\ OutsideClean

-----------------------------------------------------------------------------
(* A set of numbers that is not empty has a least member.                  *)
LEMMA LeastIn ==
    ASSUME NEW S, S \subseteq Nat, S # {}
    PROVE  Least(S) \in S /\ \A y \in S : Least(S) <= y
<1> DEFINE R == OpToRel(<, Nat)
<1>1. PICK x \in S : \A y \in S : ~(<<y, x>> \in R)
  BY WFMin, NatLessThanWellFounded
<1>2. \A y \in S : x <= y
  <2>1. \A y \in S : ~(y < x)
    BY <1>1, S \subseteq Nat DEF OpToRel
  <2> QED BY <2>1, S \subseteq Nat
<1> QED BY <1>2 DEF Least

LEMMA FreeValues == FreeEntry \in Entries /\ Zero \in Words /\ FreeEntry.kind = FreeKind
<1>1. (CHOOSE a \in Apps : TRUE) \in Apps
  BY NameAssumption
<1>2. 0 \in Blocks
  BY ShapeAssumption DEF Blocks
<1> QED BY <1>1, <1>2 DEF FreeEntry, Entries, Zero, Words

(* Where a key lies *)
LEMMA Lies ==
    ASSUME IInv, NEW k \in Live
    PROVE  /\ k \in KeyNumbers /\ k[1] \in Tables
           /\ entry[k].off \in Run(k)
           /\ Run(k) \subseteq Blocks /\ Run(k) \subseteq used[k[1]]
<1>1. k \in KeyNumbers /\ k[1] \in Tables /\ entry[k].off \in Blocks
  BY DEF IInv, TypeOK, Live, KeyNumbers, Entries
<1>2. /\ storage_size(k) \in Nat \ {0}
      /\ entry[k].off + storage_size(k) <= NB
  BY DEF IInv, Sized
<1>3. Run(k) \subseteq Blocks /\ entry[k].off \in Run(k)
  BY <1>1, <1>2, ShapeAssumption DEF Run, Blocks
<1>4. Run(k) \subseteq used[k[1]]
  BY <1>1 DEF IInv, UsedExact, Runs
<1> QED BY <1>1, <1>3, <1>4

(* A key whose entry and memory a step leaves alone stays as it is *)
LEMMA Keep ==
    ASSUME IInv, NEW k \in Live,
           entry'[k].off = entry[k].off, entry'[k].kind = entry[k].kind,
           \A b \in Run(k) : mem'[k[1]][b] = mem[k[1]][b]
    PROVE  /\ ~is_empty(k)' /\ storage_size(k)' = storage_size(k)
           /\ Run(k)' = Run(k) /\ Blob(k)' = Blob(k)
<1>1. entry[k].off \in Run(k)
  BY Lies
<1>2. ~is_empty(k)'
  BY DEF Live, is_empty
<1>3. storage_size(k)' = storage_size(k)
  BY <1>1 DEF storage_size
<1>4. Run(k)' = Run(k)
  BY <1>3 DEF Run
<1>5. \A j \in 0..(storage_size(k) - 1) : entry[k].off + j \in Run(k)
  <2>1. entry[k].off \in Nat /\ storage_size(k) \in Nat
    BY ShapeAssumption DEF IInv, TypeOK, Sized, Live, Entries, Blocks
  <2> QED BY <2>1 DEF Run
<1>6. Blob(k)' = Blob(k)
  BY <1>3, <1>5 DEF Blob
<1> QED BY <1>2, <1>3, <1>4, <1>6

-----------------------------------------------------------------------------
(* What an import does: one free number gets a key of n free blocks *)
Added(t, i, off, n, app, session, id, kind, blob) ==
    /\ is_empty(<<t, i>>) /\ n \in Nat \ {0} /\ off + n <= NB
    /\ (off .. (off + n - 1)) \cap used[t] = {}
    /\ ~session /\ id # 0 => ~TagExists(app, id)
    /\ kind.var => n \in VarSizes
    /\ ~kind.var => n = kind.size /\ n \in FixedSizes
    /\ entry' = [entry EXCEPT ![<<t, i>>] =
             [off |-> off, kind |-> kind, app |-> app,
              session |-> session, id |-> id, disabled |-> FALSE]]
    /\ used' = [used EXCEPT ![t] = @ \cup (off .. (off + n - 1))]
    /\ mem' = [mem EXCEPT ![t] = [b \in Blocks |->
           IF b \in off .. (off + n - 1)
             THEN [blob |-> blob, at |-> b - off,
                   len |-> IF kind.var THEN n ELSE 0]
             ELSE mem[t][b]]]
    /\ UNCHANGED <<mask, inUse>>

LEMMA AddFacts ==
    ASSUME IInv, NEW n, NEW app \in Apps, NEW session \in BOOLEAN, NEW id \in Ids,
           NEW kind \in Kinds, NEW blob \in Blobs,
           Add(n, app, session, id, kind, blob)
    PROVE  \E t \in mask, i \in Slots, off \in Blocks :
             Added(t, i, off, n, app, session, id, kind, blob)
<1> DEFINE able == {t \in mask : TableAnswer(t, n) = "Ok"}
           t == Least(able)
           i == Least(FreeSlots(t))
           off == start_at(t, n)
<1>1. t \in mask /\ FreeSlots(t) # {} /\ Fits(t, n) # {}
  <2>0. able # {}
    BY Zenon DEF Add
  <2>1. able \subseteq Nat
    <3>1. able \subseteq mask
      OBVIOUS
    <3>2. mask \subseteq Nat
      BY ShapeAssumption DEF IInv, TypeOK, Tables
    <3> QED BY <3>1, <3>2
  <2>2. t \in able
    BY <2>0, <2>1, LeastIn
  <2> QED BY <2>2 DEF TableAnswer
<1>2. i \in Slots /\ is_empty(<<t, i>>)
  <2>1. FreeSlots(t) \subseteq Nat
    BY DEF FreeSlots, Slots
  <2>2. i \in FreeSlots(t)
    BY <1>1, <2>1, LeastIn
  <2> QED BY <2>2 DEF FreeSlots
<1>3. off \in Blocks /\ off + n <= NB /\ (off .. (off + n - 1)) \cap used[t] = {}
  <2>1. Fits(t, n) \subseteq Nat
    BY DEF Fits, Blocks
  <2>2. off \in Fits(t, n)
    BY <1>1, <2>1, LeastIn DEF start_at
  <2> QED BY <2>2 DEF Fits
<1>4. /\ n \in Nat \ {0}
      /\ kind.var => n \in VarSizes
      /\ ~kind.var => n = kind.size /\ n \in FixedSizes
  BY ShapeAssumption DEF Add, Kinds
<1>5. ~session /\ id # 0 => ~TagExists(app, id)
  BY DEF Add
<1>6. /\ Place(t, n, app, session, id, kind, blob)
      /\ UNCHANGED <<mask, inUse>>
  BY DEF Add
<1> HIDE DEF t, i, off
<1> QED
  <2> USE DEF i, off
  <2>1. /\ entry' = [entry EXCEPT ![<<t, i>>] =
                      [off |-> off, kind |-> kind, app |-> app,
                       session |-> session, id |-> id, disabled |-> FALSE]]
        /\ used' = [used EXCEPT ![t] = @ \cup (off .. (off + n - 1))]
        /\ mem' = [mem EXCEPT ![t] = [b \in Blocks |->
                    IF b \in off .. (off + n - 1)
                      THEN [blob |-> blob, at |-> b - off,
                            len |-> IF kind.var THEN n ELSE 0]
                      ELSE mem[t][b]]]
    BY <1>6 DEF Place
  <2> HIDE DEF i, off
  <2>2. Added(t, i, off, n, app, session, id, kind, blob)
    BY <1>2, <1>3, <1>4, <1>5, <1>6, <2>1 DEF Added
  <2> QED BY <1>1, <1>2, <1>3, <2>2

LEMMA AddInv ==
    ASSUME IInv, NEW n, NEW app \in Apps, NEW session \in BOOLEAN, NEW id \in Ids,
           NEW kind \in Kinds, NEW blob \in Blobs,
           Add(n, app, session, id, kind, blob)
    PROVE  IInv'
<1>0. PICK t \in mask, i \in Slots, off \in Blocks :
             Added(t, i, off, n, app, session, id, kind, blob)
  BY AddFacts
<1> USE DEF Added
<1> DEFINE nk == <<t, i>>
           new == off .. (off + n - 1)
<1>1. nk \in KeyNumbers /\ nk[1] = t /\ t \in Tables
  BY DEF KeyNumbers, IInv, TypeOK
<1>2. new \subseteq Blocks /\ off \in new
  BY <1>0, ShapeAssumption DEF Blocks
<1>3. entry'[nk] = [off |-> off, kind |-> kind, app |-> app, session |-> session,
                    id |-> id, disabled |-> FALSE]
  BY <1>0, <1>1 DEF IInv, TypeOK
<1>4. \A b \in new : mem'[t][b] = [blob |-> blob, at |-> b - off,
                                  len |-> IF kind.var THEN n ELSE 0]
  BY <1>0, <1>1, <1>2 DEF IInv, TypeOK
<1>5. ~is_empty(nk)' /\ storage_size(nk)' = n /\ Run(nk)' = new
  <2>1. kind # FreeKind
    BY <1>0, ShapeAssumption DEF Kinds, FreeKind
  <2>2. storage_size(nk)' = n
    <3>1. mem'[nk[1]][entry'[nk].off].len = IF kind.var THEN n ELSE 0
      <4>1. mem'[t][off] = [blob |-> blob, at |-> off - off,
                            len |-> IF kind.var THEN n ELSE 0]
        BY <1>2, <1>4
      <4>2. mem'[t][off].len = IF kind.var THEN n ELSE 0
        BY <4>1
      <4>3. entry'[nk].off = off /\ nk[1] = t
        BY <1>3
      <4> QED BY <4>2, <4>3
    <3>2. entry'[nk].kind = kind
      BY <1>3
    <3> QED BY <1>0, <3>1, <3>2 DEF storage_size
  <2> QED BY <1>3, <2>1, <2>2 DEF is_empty, Run
<1>6. ASSUME NEW k \in Live
      PROVE  /\ k # nk /\ entry'[k] = entry[k]
             /\ ~is_empty(k)' /\ storage_size(k)' = storage_size(k)
             /\ Run(k)' = Run(k)
  <2>1. k # nk /\ entry'[k] = entry[k]
    BY <1>0 DEF Live, IInv, TypeOK
  <2>2. \A b \in Run(k) : mem'[k[1]][b] = mem[k[1]][b]
    BY <1>0, <1>1, Lies DEF IInv, TypeOK
  <2> QED BY <2>1, <2>2, Keep
<1>7. Live' = Live \cup {nk}
  <2>1. ASSUME NEW k \in KeyNumbers, k # nk PROVE is_empty(k)' <=> is_empty(k)
    BY <1>0, <2>1 DEF is_empty, IInv, TypeOK
  <2> QED BY <1>1, <1>5, <2>1 DEF Live
<1> HIDE DEF nk
<1>8. TypeOK'
  <2>1. entry' \in [KeyNumbers -> Entries]
    BY <1>0 DEF IInv, TypeOK, Entries
  <2>2. used' \in [Tables -> SUBSET Blocks]
    BY <1>0, <1>2 DEF IInv, TypeOK
  <2>3. mem' \in [Tables -> [Blocks -> Words]]
    <3>1. ASSUME NEW b \in new
          PROVE  [blob |-> blob, at |-> b - off, len |-> IF kind.var THEN n ELSE 0] \in Words
      BY <1>0 DEF Words, Blocks
    <3> QED BY <1>0, <3>1 DEF IInv, TypeOK
  <2> QED BY <1>0, <2>1, <2>2, <2>3 DEF IInv, TypeOK
<1>9. Sized'
  BY <1>0, <1>3, <1>5, <1>6, <1>7 DEF Sized, IInv
<1>10. NoOverlap'
  <2> SUFFICES ASSUME NEW k \in Live', NEW l \in Live', k[1] = l[1], k # l
               PROVE  Run(k)' \cap Run(l)' = {}
    BY DEF NoOverlap
  <2>1. CASE k \in Live /\ l \in Live
    BY <2>1, <1>6 DEF IInv, NoOverlap
  <2>2. CASE k = nk /\ l \in Live
    BY <2>2, <1>0, <1>1, <1>5, <1>6, Lies
  <2>3. CASE k \in Live /\ l = nk
    BY <2>3, <1>0, <1>1, <1>5, <1>6, Lies
  <2> QED BY <1>7, <2>1, <2>2, <2>3
<1>11. UsedExact'
  <2> SUFFICES ASSUME NEW u \in Tables PROVE used'[u] = Runs(u, Live)'
    BY DEF UsedExact
  <2>1. used[u] = Runs(u, Live)
    BY DEF IInv, UsedExact
  <2>2. Runs(u, Live)' = Runs(u, Live) \cup (IF u = t THEN new ELSE {})
    <3>1. \A b : b \in Runs(u, Live)' <=> \E k \in Live' : k[1] = u /\ b \in Run(k)'
      BY DEF Runs
    <3>2. \A b : b \in Runs(u, Live) <=> \E k \in Live : k[1] = u /\ b \in Run(k)
      BY DEF Runs
    <3>3. \A b : b \in Runs(u, Live)' <=> b \in Runs(u, Live) \/ (u = t /\ b \in new)
      <4> TAKE b
      <4>1. ASSUME NEW k \in Live', k[1] = u, b \in Run(k)'
            PROVE  b \in Runs(u, Live) \/ (u = t /\ b \in new)
        <5>1. CASE k \in Live
          BY <4>1, <5>1, <1>6, <3>2
        <5>2. CASE k = nk
          BY <4>1, <5>2, <1>1, <1>5
        <5> QED BY <5>1, <5>2, <1>7
      <4>2. ASSUME b \in Runs(u, Live) PROVE b \in Runs(u, Live)'
        <5>1. PICK k \in Live : k[1] = u /\ b \in Run(k)
          BY <4>2, <3>2
        <5>2. k \in Live' /\ b \in Run(k)'
          BY <5>1, <1>6, <1>7
        <5> QED BY <5>1, <5>2, <3>1
      <4>3. ASSUME u = t, b \in new PROVE b \in Runs(u, Live)'
        BY <4>3, <1>1, <1>5, <1>7, <3>1
      <4> QED BY <4>1, <4>2, <4>3, <3>1
    <3> QED BY <3>3
  <2> QED BY <1>0, <2>1, <2>2 DEF IInv, TypeOK
<1>12. FreeIsZero'
  BY <1>0 DEF FreeIsZero, IInv, TypeOK
<1>13. OutsideClean'
  BY <1>0, <1>1, <1>7 DEF OutsideClean, IInv
<1> QED BY <1>8, <1>9, <1>10, <1>11, <1>12, <1>13 DEF IInv

-----------------------------------------------------------------------------
(* What a removal leaves *)
LEMMA RemoveFacts ==
    ASSUME IInv, NEW V \in SUBSET Live, Remove(V)
    PROVE  /\ Live' = Live \ (V \ inUse)
           /\ \A k \in Live' :
                 /\ Run(k)' = Run(k) /\ Blob(k)' = Blob(k)
                 /\ storage_size(k)' = storage_size(k)
                 /\ entry'[k] = IF k \in V THEN [entry[k] EXCEPT !.disabled = TRUE]
                                           ELSE entry[k]
<1> DEFINE gone == V \ inUse
<1>1. V \subseteq KeyNumbers /\ Live \subseteq KeyNumbers
  BY DEF Live
<1>2. \A k \in KeyNumbers :
        entry'[k] = IF k \in gone THEN FreeEntry
                    ELSE IF k \in V THEN [entry[k] EXCEPT !.disabled = TRUE]
                    ELSE entry[k]
  BY DEF Remove
<1>3. ASSUME NEW k \in KeyNumbers PROVE is_empty(k)' <=> (is_empty(k) \/ k \in gone)
  <2>1. CASE k \in gone
    BY <1>2, <2>1, FreeValues DEF is_empty
  <2>2. CASE k \notin gone
    <3>1. entry'[k].kind = entry[k].kind
      BY <1>2, <2>2 DEF IInv, TypeOK, Entries
    <3> QED BY <2>2, <3>1 DEF is_empty
  <2> QED BY <2>1, <2>2
<1>4. Live' = Live \ gone
  BY <1>3 DEF Live
<1>5. ASSUME NEW k \in Live, k \notin gone
      PROVE  /\ Run(k)' = Run(k) /\ Blob(k)' = Blob(k)
             /\ storage_size(k)' = storage_size(k)
             /\ entry'[k] = IF k \in V THEN [entry[k] EXCEPT !.disabled = TRUE]
                                       ELSE entry[k]
  <2>1. /\ entry'[k].off = entry[k].off /\ entry'[k].kind = entry[k].kind
        /\ entry'[k] = IF k \in V THEN [entry[k] EXCEPT !.disabled = TRUE] ELSE entry[k]
    BY <1>1, <1>2, <1>5 DEF IInv, TypeOK, Entries
  <2>2. \A b \in Run(k) : b \notin Runs(k[1], gone)
    BY <1>1, <1>5 DEF Runs, IInv, NoOverlap
  <2>3. \A b \in Run(k) : mem'[k[1]][b] = mem[k[1]][b]
    BY <2>2, Lies DEF Remove, Wiped
  <2> QED BY <2>1, <2>3, Keep
<1> QED BY <1>4, <1>5

LEMMA RemoveInv ==
    ASSUME IInv, NEW V \in SUBSET Live, Remove(V), UNCHANGED <<mask, inUse>>
    PROVE  IInv'
<1> DEFINE gone == V \ inUse
<1>1. /\ Live' = Live \ gone
      /\ \A k \in Live' : /\ Run(k)' = Run(k)
                          /\ storage_size(k)' = storage_size(k)
                          /\ entry'[k].off = entry[k].off
  <2>1. \A k \in Live : entry[k] \in Entries
    BY DEF IInv, TypeOK, Live
  <2>2. /\ Live' = Live \ gone
        /\ \A k \in Live' : /\ Run(k)' = Run(k)
                            /\ storage_size(k)' = storage_size(k)
    BY RemoveFacts, Zenon
  <2>3. ASSUME NEW k \in Live' PROVE entry'[k].off = entry[k].off
    <3>1. \/ entry'[k] = [entry[k] EXCEPT !.disabled = TRUE]
          \/ entry'[k] = entry[k]
      BY RemoveFacts
    <3> QED BY <2>1, <2>2, <3>1 DEF Entries
  <2> QED BY <2>2, <2>3
<1>2. TypeOK'
  <2>1. entry' \in [KeyNumbers -> Entries]
    BY FreeValues DEF Remove, IInv, TypeOK, Entries
  <2>2. used' \in [Tables -> SUBSET Blocks]
    BY DEF Remove, Freed, IInv, TypeOK
  <2>3. mem' \in [Tables -> [Blocks -> Words]]
    BY FreeValues DEF Remove, Wiped, IInv, TypeOK
  <2> QED BY <2>1, <2>2, <2>3 DEF IInv, TypeOK
<1>3. Sized'
  BY <1>1 DEF Sized, IInv
<1>4. NoOverlap'
  BY <1>1 DEF NoOverlap, IInv
<1>5. UsedExact'
  <2> SUFFICES ASSUME NEW u \in Tables PROVE used'[u] = Runs(u, Live)'
    BY DEF UsedExact
  <2>1. used[u] = Runs(u, Live) /\ used'[u] = used[u] \ Runs(u, gone)
    BY DEF IInv, UsedExact, Remove, Freed
  <2>2. Runs(u, Live)' = Runs(u, Live \ gone)
    BY <1>1 DEF Runs
  <2>3. \A k, l \in Live : k[1] = u /\ l[1] = u /\ k # l => Run(k) \cap Run(l) = {}
    BY DEF IInv, NoOverlap
  <2>4. Runs(u, Live \ gone) = Runs(u, Live) \ Runs(u, gone)
    BY <2>3 DEF Runs
  <2> QED BY <2>1, <2>2, <2>4
<1>6. FreeIsZero'
  <2> SUFFICES ASSUME NEW u \in Tables, NEW b \in Blocks, b \notin used'[u]
               PROVE  mem'[u][b] = Zero
    BY DEF FreeIsZero
  <2>1. b \notin used[u] \/ b \in Runs(u, gone)
    BY DEF Remove, Freed
  <2>2. mem'[u][b] = IF b \in Runs(u, gone) THEN Zero ELSE mem[u][b]
    BY DEF Remove, Wiped
  <2> QED BY <2>1, <2>2 DEF IInv, FreeIsZero
<1>7. OutsideClean'
  BY <1>1 DEF OutsideClean, IInv
<1> QED BY <1>2, <1>3, <1>4, <1>5, <1>6, <1>7 DEF IInv

-----------------------------------------------------------------------------
(* What clearing leaves: nothing, for every key is in an owned table *)
LEMMA NukeFacts ==
    ASSUME IInv, Nuke
    PROVE  /\ Live' = {}
           /\ \A t \in Tables : used'[t] = {}
           /\ \A t \in Tables : \A b \in Blocks : mem'[t][b] = Zero
<1>1. ASSUME NEW k \in KeyNumbers PROVE is_empty(k)'
  <2>1. CASE k[1] \in mask
    BY <2>1, FreeValues DEF Nuke, is_empty
  <2>2. CASE k[1] \notin mask
    BY <2>2 DEF Nuke, is_empty, IInv, OutsideClean, Live
  <2> QED BY <2>1, <2>2
<1>2. ASSUME NEW t \in Tables, t \notin mask PROVE used[t] = {}
  <2>1. \A k \in Live : k[1] # t
    BY <1>2 DEF IInv, OutsideClean
  <2> QED BY <2>1 DEF IInv, UsedExact, Runs
<1>3. \A t \in Tables : used'[t] = {}
  BY <1>2 DEF Nuke
<1>4. \A t \in Tables : \A b \in Blocks : mem'[t][b] = Zero
  BY <1>2 DEF Nuke, IInv, FreeIsZero
<1> QED BY <1>1, <1>3, <1>4 DEF Live

LEMMA NukeInv ==
    ASSUME IInv, Nuke, mask' \in SUBSET Tables, UNCHANGED inUse
    PROVE  IInv'
<1>1. TypeOK'
  <2>1. entry' \in [KeyNumbers -> Entries]
    BY FreeValues DEF Nuke, IInv, TypeOK
  <2>2. used' \in [Tables -> SUBSET Blocks]
    BY DEF Nuke, IInv, TypeOK
  <2>3. mem' \in [Tables -> [Blocks -> Words]]
    BY FreeValues DEF Nuke, IInv, TypeOK
  <2> QED BY <2>1, <2>2, <2>3 DEF IInv, TypeOK
<1>2. Sized' /\ NoOverlap' /\ OutsideClean'
  BY NukeFacts DEF Sized, NoOverlap, OutsideClean
<1>3. UsedExact' /\ FreeIsZero'
  BY NukeFacts DEF UsedExact, Runs, FreeIsZero
<1> QED BY <1>1, <1>2, <1>3 DEF IInv

LEMMA SwitchInv ==
    ASSUME IInv, NEW k \in KeyNumbers, NEW off \in BOOLEAN, Switch(k, off)
    PROVE  IInv'
<1>1. \A l \in KeyNumbers : /\ entry'[l].off = entry[l].off
                            /\ entry'[l].kind = entry[l].kind
  BY DEF Switch, IInv, TypeOK, Entries
<1>2. TypeOK'
  BY DEF Switch, IInv, TypeOK, Entries
<1>3. Live' = Live
  BY <1>1 DEF Live, is_empty
<1>4. \A l \in Live : /\ Run(l)' = Run(l) /\ storage_size(l)' = storage_size(l)
                      /\ entry'[l].off = entry[l].off
  BY <1>1, Keep DEF Switch, Live
<1>5. Sized' /\ NoOverlap' /\ OutsideClean'
  BY <1>3, <1>4 DEF Switch, IInv, Sized, NoOverlap, OutsideClean
<1>6. UsedExact' /\ FreeIsZero'
  BY <1>3, <1>4 DEF Switch, IInv, UsedExact, Runs, FreeIsZero
<1> QED BY <1>2, <1>5, <1>6 DEF IInv

(* A step that leaves the tables alone and takes none away *)
LEMMA TablesKept ==
    ASSUME IInv, UNCHANGED <<entry, used, mem>>, mask \subseteq mask',
           mask' \in SUBSET Tables, inUse' \in SUBSET KeyNumbers
    PROVE  IInv'
BY DEF IInv, TypeOK, Sized, NoOverlap, UsedExact, FreeIsZero, OutsideClean,
       Live, Run, Runs, storage_size, is_empty

LEMMA Inductive == IInv /\ [Next]_vars => IInv'
<1> SUFFICES ASSUME IInv, [Next]_vars PROVE IInv'
  OBVIOUS
<1>1. ASSUME NEW n \in FixedSizes \cup VarSizes, NEW app \in Apps,
             NEW session \in BOOLEAN, NEW id \in Ids, NEW kind \in Kinds,
             NEW blob \in Blobs, Add(n, app, session, id, kind, blob)
      PROVE  IInv'
  BY <1>1, AddInv
<1>2. ASSUME NEW k \in KeyNumbers, NEW off \in BOOLEAN, Switch(k, off) PROVE IInv'
  BY <1>2, SwitchInv
<1>3. ASSUME NEW k \in KeyNumbers, NEW app \in Apps, NEW session \in Ids,
             Delete(k, app, session)
      PROVE  IInv'
  BY <1>3, RemoveInv DEF Delete, Reachable, Live
<1>4. ASSUME NEW session \in Ids, DeleteSession(session) PROVE IInv'
  BY <1>4, RemoveInv DEF DeleteSession, SessionKeys, Reachable, Live
<1>5. ASSUME NEW app \in Apps, DeleteApp(app) PROVE IInv'
  BY <1>5, RemoveInv DEF DeleteApp, AppKeys, Reachable, Live
<1>6. ASSUME Clear \/ Reset PROVE IInv'
  BY <1>6, NukeInv DEF Clear, Reset, IInv, TypeOK
<1>7. ASSUME NEW m \in SUBSET Tables, SetMask(m) PROVE IInv'
  BY <1>7, TablesKept DEF SetMask, IInv, TypeOK
<1>8. ASSUME NEW k \in KeyNumbers, Use(k) \/ Release(k) PROVE IInv'
  BY <1>8, TablesKept DEF Use, Release, IInv, TypeOK
<1>9. ASSUME UNCHANGED vars PROVE IInv'
  BY <1>9, TablesKept DEF vars, IInv, TypeOK
<1> QED BY <1>1, <1>2, <1>3, <1>4, <1>5, <1>6, <1>7, <1>8, <1>9 DEF Next

LEMMA Initially == Init => IInv
<1> SUFFICES ASSUME Init PROVE IInv
  OBVIOUS
<1>1. Live = {}
  BY FreeValues DEF Init, Live, is_empty
<1>2. TypeOK
  BY FreeValues DEF Init, TypeOK
<1> QED BY <1>1, <1>2 DEF Init, IInv, Sized, NoOverlap, UsedExact, Runs, FreeIsZero,
                          OutsideClean

LEMMA Always == Spec => []IInv
BY Initially, Inductive, PTL DEF Spec

(* For every shape of the tables the vault's variables keep their types:   *)
(* no run leaves its table, no bit outside the bitmap is set.              *)
THEOREM StoreTypes == Spec => []TypeOK
BY Always, PTL DEF IInv

(* Two keys never share a block.                                           *)
THEOREM KeysApart == Spec => []NoOverlap
BY Always, PTL DEF IInv

(* The bitmap is exactly what the keys occupy.                             *)
THEOREM BitmapExact == Spec => []UsedExact
BY Always, PTL DEF IInv

(* Memory that no key occupies is wiped.                                   *)
THEOREM FreedIsWiped == Spec => []FreeIsZero
BY Always, PTL DEF IInv

(* A table that changes hands has no key in it.                            *)
THEOREM HandedOverEmpty == Spec => []OutsideClean
BY Always, PTL DEF IInv

-----------------------------------------------------------------------------
(* The refinement of KeyMap *)

Mapped == [k \in KeyNumbers |-> IF is_empty(k) THEN NoKey ELSE View(k)]

(* A key that is there is not taken for a free number *)
LEMMA AbstractLive ==
    ASSUME IInv
    PROVE  /\ \A k \in Live : Mapped[k] = View(k)
           /\ \A k \in KeyNumbers \ Live : Mapped[k] = NoKey
           /\ {k \in KeyNumbers : Mapped[k] # NoKey} = Live
<1>1. ASSUME NEW k \in Live PROVE View(k) # NoKey
  <2>1. 0 \in DOMAIN View(k).data
    BY DEF View, Blob, IInv, Sized
  <2>2. 0 \notin DOMAIN NoKey.data
    BY DEF NoKey
  <2> QED BY <2>1, <2>2
<1>2. \A k \in Live : k \in KeyNumbers /\ ~is_empty(k)
  BY DEF Live
<1>3. \A k \in KeyNumbers : k \notin Live => is_empty(k)
  BY DEF Live
<1> QED BY <1>1, <1>2, <1>3 DEF Mapped

LEMMA MappedFields ==
    ASSUME IInv, NEW k \in Live
    PROVE  /\ Mapped[k].app = entry[k].app /\ Mapped[k].session = entry[k].session
           /\ Mapped[k].id = entry[k].id /\ Mapped[k].disabled = entry[k].disabled
<1>1. Mapped[k] = View(k)
  BY AbstractLive
<1>2. /\ View(k).app = entry[k].app /\ View(k).session = entry[k].session
      /\ View(k).id = entry[k].id /\ View(k).disabled = entry[k].disabled
  BY DEF View
<1> QED BY <1>1, <1>2

LEMMA SameView ==
    ASSUME NEW k, entry'[k] = entry[k], Blob(k)' = Blob(k)
    PROVE  View(k)' = View(k)
BY DEF View

LEMMA StoreStep ==
    ASSUME IInv, NEW n, NEW app \in Apps, NEW session \in BOOLEAN, NEW id \in Ids,
           NEW kind \in Kinds, NEW blob \in Blobs,
           Add(n, app, session, id, kind, blob)
    PROVE  \E k \in KeyNumbers, key \in AllKeys : Abstract!Store(k, key)
<1>0. PICK t \in mask, i \in Slots, off \in Blocks :
             Added(t, i, off, n, app, session, id, kind, blob)
  BY AddFacts
<1> DEFINE nk == <<t, i>>
           key == [app |-> app, session |-> session, id |-> id, disabled |-> FALSE,
                   data |-> Data(n, kind.var, blob)]
<1>1. nk \in KeyNumbers /\ nk[1] = t /\ t \in Tables /\ nk \notin Live
  BY <1>0 DEF Added, KeyNumbers, IInv, TypeOK, Live
<1>2. entry'[nk] = [off |-> off, kind |-> kind, app |-> app, session |-> session,
                    id |-> id, disabled |-> FALSE]
  BY <1>0, <1>1 DEF Added, IInv, TypeOK
<1>3. n \in Nat \ {0} /\ off \in Nat /\ \A j \in 0..(n-1) : off + j \in Blocks
  BY <1>0, ShapeAssumption DEF Added, Blocks
<1>4. ASSUME NEW j \in 0..(n-1)
      PROVE  mem'[t][off + j] = [blob |-> blob, at |-> j,
                                 len |-> IF kind.var THEN n ELSE 0]
  <2>1. off + j \in Blocks /\ off + j \in off .. (off + n - 1) /\ (off + j) - off = j
    BY <1>3
  <2> QED BY <1>0, <1>1, <2>1 DEF Added, IInv, TypeOK
<1>5. storage_size(nk)' = n
  <2>1. mem'[t][off].len = IF kind.var THEN n ELSE 0
    <3>1. 0 \in 0..(n-1) /\ off + 0 = off
      BY <1>3
    <3>2. mem'[t][off] = [blob |-> blob, at |-> 0, len |-> IF kind.var THEN n ELSE 0]
      BY <1>4, <3>1
    <3> QED BY <3>2
  <2>2. entry'[nk].kind = kind /\ entry'[nk].off = off
    BY <1>2
  <2> QED BY <1>0, <1>1, <2>1, <2>2 DEF storage_size, Added
<1>6. Blob(nk)' = Data(n, kind.var, blob)
  <2>1. \A j \in 0..(n-1) : mem'[nk[1]][entry'[nk].off + j] = mem'[t][off + j]
    BY <1>1, <1>2
  <2> QED BY <1>4, <1>5, <2>1 DEF Blob, Data
<1>7. View(nk)' = key /\ ~is_empty(nk)'
  <2>1. kind # FreeKind
    BY <1>0, ShapeAssumption DEF Added, Kinds, FreeKind
  <2>2. ~is_empty(nk)'
    BY <1>2, <2>1 DEF is_empty
  <2>3. /\ entry'[nk].app = app /\ entry'[nk].session = session
        /\ entry'[nk].id = id /\ entry'[nk].disabled = FALSE
    BY <1>2
  <2>4. View(nk)' = key
    BY <1>6, <2>3, Zenon DEF View
  <2> QED BY <2>2, <2>4
<1>8. ASSUME NEW k \in KeyNumbers, k # nk PROVE Mapped'[k] = Mapped[k]
  <2>1. entry'[k] = entry[k]
    BY <1>0, <1>8 DEF Added, IInv, TypeOK
  <2>2. CASE k \notin Live
    BY <2>1, <2>2 DEF Mapped, Live, is_empty
  <2>3. CASE k \in Live
    <3>1. \A b \in Run(k) : mem'[k[1]][b] = mem[k[1]][b]
      BY <1>0, <1>1, <2>3, Lies DEF Added, IInv, TypeOK
    <3>2. ~is_empty(k)' /\ Blob(k)' = Blob(k)
      BY <2>1, <2>3, <3>1, Keep
    <3>3. View(k)' = View(k)
      BY <2>1, <3>2, SameView
    <3> QED BY <2>3, <3>2, <3>3 DEF Mapped, Live
  <2> QED BY <2>2, <2>3
<1>9. key \in AllKeys
  <2>1. Data(n, kind.var, blob) \in AllData
    <3>1. CASE kind.var = TRUE
      <4>1. n \in VarSizes
        BY <1>0, <3>1 DEF Added
      <4>2. Data(n, kind.var, blob) = Data(n, TRUE, blob)
        BY <3>1, Zenon
      <4>3. Data(n, TRUE, blob) \in {Data(n, TRUE, b) : b \in Blobs}
        OBVIOUS
      <4>4. {Data(n, TRUE, b) : b \in Blobs} \in {{Data(x, TRUE, b) : b \in Blobs} : x \in VarSizes}
        BY <4>1
      <4>5. Data(n, TRUE, blob) \in UNION {{Data(x, TRUE, b) : b \in Blobs} : x \in VarSizes}
        BY <4>3, <4>4, Zenon
      <4> QED BY <4>2, <4>5, Zenon DEF AllData
    <3>2. CASE kind.var = FALSE
      <4>1. n \in FixedSizes
        BY <1>0, <3>2 DEF Added
      <4>2. Data(n, kind.var, blob) = Data(n, FALSE, blob)
        BY <3>2, Zenon
      <4>3. Data(n, FALSE, blob) \in {Data(n, FALSE, b) : b \in Blobs}
        OBVIOUS
      <4>4. {Data(n, FALSE, b) : b \in Blobs} \in {{Data(x, FALSE, b) : b \in Blobs} : x \in FixedSizes}
        BY <4>1
      <4>5. Data(n, FALSE, blob) \in UNION {{Data(x, FALSE, b) : b \in Blobs} : x \in FixedSizes}
        BY <4>3, <4>4, Zenon
      <4> QED BY <4>2, <4>5, Zenon DEF AllData
    <3>3. kind.var \in BOOLEAN
      <4>1. kind = [var |-> TRUE, size |-> 0]
              \/ \E x \in FixedSizes : kind = [var |-> FALSE, size |-> x]
        BY Zenon DEF Kinds
      <4>2. kind.var = TRUE \/ kind.var = FALSE
        BY <4>1
      <4> QED BY <4>2, Zenon
    <3> QED BY <3>1, <3>2, <3>3, Zenon
  <2>2. FALSE \in BOOLEAN
    OBVIOUS
  <2> QED BY <2>1, <2>2 DEF AllKeys
<1> HIDE DEF nk
<1>10. Mapped' = [Mapped EXCEPT ![nk] = key]
  <2>1. Mapped'[nk] = key
    BY <1>1, <1>7 DEF Mapped
  <2>2. DOMAIN Mapped' = KeyNumbers /\ DOMAIN Mapped = KeyNumbers
    BY DEF Mapped
  <2> HIDE DEF key
  <2>3. \A k \in KeyNumbers : Mapped'[k] = IF k = nk THEN key ELSE Mapped[k]
    BY <1>8, <2>1
  <2>4. Mapped' = [k \in KeyNumbers |-> Mapped'[k]]
    BY DEF Mapped
  <2>5. [Mapped EXCEPT ![nk] = key] =
          [k \in KeyNumbers |-> IF k = nk THEN key ELSE Mapped[k]]
    BY <2>2
  <2> QED BY <2>3, <2>4, <2>5
<1>11. ASSUME ~session, id # 0 PROVE ~Abstract!Named(key)
  <2> SUFFICES ASSUME NEW k \in Live,
                      /\ ~Mapped[k].session /\ ~Mapped[k].disabled
                      /\ Mapped[k].app = app /\ Mapped[k].id = id
               PROVE  FALSE
    BY AbstractLive DEF Abstract!Named, Abstract!Live, Mapped
  <2>1. ~entry[k].session /\ ~entry[k].disabled /\ entry[k].app = app /\ entry[k].id = id
    BY MappedFields
  <2>2. Reachable(k) /\ k \in KeyNumbers
    BY DEF IInv, OutsideClean, Live, Reachable
  <2> QED BY <1>0, <1>11, <2>1, <2>2 DEF Added, TagExists
<1>12. Abstract!Store(nk, key)
  <2>1. nk \notin Abstract!Live
    BY <1>1, AbstractLive DEF Abstract!Live, Mapped
  <2>2. UNCHANGED inUse
    BY <1>0 DEF Added
  <2> QED BY <1>10, <1>11, <2>1, <2>2 DEF Abstract!Store, Mapped
<1> QED BY <1>1, <1>9, <1>12

LEMMA DropStep ==
    ASSUME IInv, NEW V \in SUBSET Live, Remove(V), UNCHANGED inUse
    PROVE  Abstract!Drop(V)
<1>0. Live \subseteq KeyNumbers
  BY DEF Live
<1>1. ASSUME NEW k \in KeyNumbers
      PROVE  Mapped'[k] = IF k \in V \ inUse THEN NoKey
                          ELSE IF k \in V THEN Abstract!Switched(Mapped[k], TRUE)
                          ELSE Mapped[k]
  <2>1. Live' = Live \ (V \ inUse)
    BY RemoveFacts
  <2>2. CASE k \notin Live'
    <3>1. Mapped'[k] = NoKey
      BY <2>2 DEF Mapped, Live
    <3>2. k \in V \ inUse \/ (k \notin V /\ Mapped[k] = NoKey)
      BY <2>1, <2>2, AbstractLive
    <3> QED BY <3>1, <3>2
  <2>3. CASE k \in Live'
    <3>1. Mapped'[k] = View(k)' /\ Mapped[k] = View(k) /\ k \in Live /\ k \notin V \ inUse
      BY <2>1, <2>3, AbstractLive DEF Mapped, Live
    <3>2. /\ Blob(k)' = Blob(k)
          /\ entry'[k] = IF k \in V THEN [entry[k] EXCEPT !.disabled = TRUE] ELSE entry[k]
      BY <2>3, RemoveFacts
    <3>3. CASE k \in V
      <4>1. entry[k] \in Entries
        BY DEF IInv, TypeOK
      <4>2. entry'[k] = [entry[k] EXCEPT !.disabled = TRUE]
        BY <3>2, <3>3
      <4>3. /\ entry'[k].app = entry[k].app /\ entry'[k].session = entry[k].session
            /\ entry'[k].id = entry[k].id /\ entry'[k].disabled = TRUE
        BY <4>1, <4>2 DEF Entries
      <4>4. View(k)' = [app |-> entry[k].app, session |-> entry[k].session,
                        id |-> entry[k].id, disabled |-> TRUE, data |-> Blob(k)]
        BY <3>2, <4>3, Zenon DEF View
      <4>5. /\ View(k).app = entry[k].app /\ View(k).session = entry[k].session
            /\ View(k).id = entry[k].id /\ View(k).data = Blob(k)
        BY DEF View
      <4>6. View(k)' = Abstract!Switched(View(k), TRUE)
        BY <4>4, <4>5, Zenon DEF Abstract!Switched
      <4> QED BY <3>1, <3>3, <4>6
    <3>4. CASE k \notin V
      BY <3>1, <3>2, <3>4, SameView
    <3> QED BY <3>3, <3>4
  <2> QED BY <2>2, <2>3
<1>2. Mapped' = [k \in KeyNumbers |-> Mapped'[k]]
  BY DEF Mapped
<1>3. Mapped' = [k \in KeyNumbers |->
                   IF k \in V \ inUse THEN NoKey
                   ELSE IF k \in V THEN Abstract!Switched(Mapped[k], TRUE)
                   ELSE Mapped[k]]
  BY <1>1, <1>2
<1> QED BY <1>3 DEF Abstract!Drop, Mapped

LEMMA SwitchStep ==
    ASSUME IInv, NEW k \in KeyNumbers, NEW off \in BOOLEAN, Switch(k, off)
    PROVE  Abstract!Switch(k, off)
<1>1. k \in Live /\ entry[k] \in Entries
  BY DEF Switch, Reachable, Live, IInv, TypeOK
<1>2. \A l \in KeyNumbers : /\ entry'[l].off = entry[l].off
                            /\ entry'[l].kind = entry[l].kind
                            /\ l # k => entry'[l] = entry[l]
  BY DEF Switch, IInv, TypeOK, Entries
<1>3. \A l \in Live : ~is_empty(l)' /\ Blob(l)' = Blob(l)
  BY <1>2, Keep DEF Switch, Live
<1>4. View(k)' = Abstract!Switched(View(k), off)
  <2>1. /\ entry'[k].app = entry[k].app /\ entry'[k].session = entry[k].session
        /\ entry'[k].id = entry[k].id /\ entry'[k].disabled = off
    BY <1>1 DEF Switch, IInv, TypeOK, Entries
  <2>2. View(k)' = [app |-> entry[k].app, session |-> entry[k].session,
                    id |-> entry[k].id, disabled |-> off, data |-> Blob(k)]
    BY <1>1, <1>3, <2>1, Zenon DEF View
  <2>3. /\ View(k).app = entry[k].app /\ View(k).session = entry[k].session
        /\ View(k).id = entry[k].id /\ View(k).data = Blob(k)
    BY DEF View
  <2> QED BY <2>2, <2>3, Zenon DEF Abstract!Switched
<1>5. \A l \in KeyNumbers : l # k => Mapped'[l] = Mapped[l]
  <2> SUFFICES ASSUME NEW l \in KeyNumbers, l # k PROVE Mapped'[l] = Mapped[l]
    OBVIOUS
  <2>1. CASE l \in Live
    BY <1>2, <1>3, <2>1, SameView DEF Mapped, Live
  <2>2. CASE l \notin Live
    BY <1>2, <2>2 DEF Mapped, Live, is_empty
  <2> QED BY <2>1, <2>2
<1>6. Mapped'[k] = Abstract!Switched(Mapped[k], off)
  BY <1>1, <1>3, <1>4, AbstractLive DEF Mapped
<1>7. Mapped' = [Mapped EXCEPT ![k] = Abstract!Switched(Mapped[k], off)]
  <2>1. DOMAIN Mapped = KeyNumbers /\ Mapped' = [l \in KeyNumbers |-> Mapped'[l]]
    BY DEF Mapped
  <2> QED BY <1>5, <1>6, <2>1
<1>8. k \in Abstract!Live
  BY <1>1, AbstractLive DEF Abstract!Live, Mapped
<1>9. UNCHANGED inUse
  BY DEF Switch
<1> QED BY <1>7, <1>8, <1>9 DEF Abstract!Switch, Mapped

LEMMA ClearStep ==
    ASSUME IInv, Nuke, UNCHANGED inUse
    PROVE  Abstract!Clear
<1>1. \A k \in KeyNumbers : is_empty(k)'
  BY NukeFacts DEF Live
<1>2. Mapped' = [k \in KeyNumbers |-> NoKey]
  BY <1>1 DEF Mapped
<1> QED BY <1>2 DEF Abstract!Clear, Mapped

(* Every step of the tables is a step of the map or leaves it alone *)
LEMMA RefinesStep == IInv /\ [Next]_vars => [Abstract!Next]_(Abstract!vars)
<1> SUFFICES ASSUME IInv, [Next]_vars PROVE [Abstract!Next]_(Abstract!vars)
  OBVIOUS
<1>0. Abstract!Live = Live /\ Live \subseteq KeyNumbers
  BY AbstractLive DEF Abstract!Live, Mapped, Live
<1>1. ASSUME NEW n \in FixedSizes \cup VarSizes, NEW app \in Apps,
             NEW session \in BOOLEAN, NEW id \in Ids, NEW kind \in Kinds,
             NEW blob \in Blobs, Add(n, app, session, id, kind, blob)
      PROVE  Abstract!Next
  BY <1>1, StoreStep, Zenon DEF Abstract!Next
<1>2. ASSUME NEW k \in KeyNumbers, NEW off \in BOOLEAN, Switch(k, off)
      PROVE  Abstract!Next
  BY <1>2, SwitchStep, Zenon DEF Abstract!Next
<1>3. ASSUME NEW k \in KeyNumbers, NEW app \in Apps, NEW session \in Ids,
             Delete(k, app, session)
      PROVE  Abstract!Next
  <2>1. k \in Live /\ Remove({k}) /\ UNCHANGED inUse
    BY <1>3 DEF Delete, Reachable, Live
  <2>2. Abstract!Drop({k})
    BY <2>1, DropStep
  <2> QED BY <1>0, <2>1, <2>2, Zenon DEF Abstract!DropOne, Abstract!Next
<1>4. ASSUME NEW V \in SUBSET Live, V = {}, Remove(V), UNCHANGED inUse
      PROVE  UNCHANGED Abstract!vars
  <2>1. Abstract!Drop({})
    BY <1>4, DropStep
  <2>2. Mapped' = [k \in KeyNumbers |-> Mapped[k]] /\ UNCHANGED inUse
    BY <2>1 DEF Abstract!Drop, Mapped
  <2>3. Mapped = [k \in KeyNumbers |-> Mapped[k]]
    BY DEF Mapped
  <2> QED BY <2>2, <2>3 DEF Abstract!vars, Mapped
<1>5. ASSUME NEW session \in Ids, DeleteSession(session)
      PROVE  Abstract!Next \/ UNCHANGED Abstract!vars
  <2> DEFINE V == SessionKeys(session)
  <2>1. V \in SUBSET Live /\ Remove(V) /\ UNCHANGED inUse
    BY <1>5 DEF DeleteSession, SessionKeys, Reachable, Live
  <2>2. \A k \in Live : /\ Mapped[k].session = entry[k].session
                        /\ Mapped[k].id = entry[k].id
    BY MappedFields
  <2>3. V = {k \in Live : entry[k].session /\ entry[k].id = session}
    BY DEF SessionKeys, Reachable, Live, IInv, OutsideClean
  <2>4. V = {k \in Abstract!Live : Mapped[k].session /\ Mapped[k].id = session}
    BY <1>0, <2>2, <2>3
  <2>5. CASE V = {}
    BY <1>4, <2>1, <2>5
  <2>6. ASSUME NEW k \in V PROVE Abstract!Next
    <3>1. k \in Abstract!Live /\ Mapped[k].id = session
      BY <2>4
    <3>2. Abstract!Drop(V)
      BY <2>1, DropStep
    <3>3. Abstract!DropSession(Mapped[k].id)
      BY <2>4, <3>1, <3>2 DEF Abstract!DropSession, Mapped
    <3> QED BY <3>1, <3>3 DEF Abstract!Next, Mapped
  <2> QED BY <2>5, <2>6
<1>6. ASSUME NEW app \in Apps, DeleteApp(app)
      PROVE  Abstract!Next \/ UNCHANGED Abstract!vars
  <2> DEFINE V == AppKeys(app)
  <2>1. V \in SUBSET Live /\ Remove(V) /\ UNCHANGED inUse
    BY <1>6 DEF DeleteApp, AppKeys, Reachable, Live
  <2>2. \A k \in Live : Mapped[k].app = entry[k].app
    BY MappedFields
  <2>3. V = {k \in Live : entry[k].app = app}
    BY DEF AppKeys, Reachable, Live, IInv, OutsideClean
  <2>4. V = {k \in Abstract!Live : Mapped[k].app = app}
    BY <1>0, <2>2, <2>3
  <2>5. CASE V = {}
    BY <1>4, <2>1, <2>5
  <2>6. ASSUME NEW k \in V PROVE Abstract!Next
    <3>1. k \in Abstract!Live /\ Mapped[k].app = app
      BY <2>4
    <3>2. Abstract!Drop(V)
      BY <2>1, DropStep
    <3>3. Abstract!DropApp(Mapped[k].app)
      BY <2>4, <3>1, <3>2 DEF Abstract!DropApp, Mapped
    <3> QED BY <3>1, <3>3 DEF Abstract!Next, Mapped
  <2> QED BY <2>5, <2>6
<1>7. ASSUME Clear \/ Reset PROVE Abstract!Next
  BY <1>7, ClearStep DEF Clear, Reset, Abstract!Next
<1>8. ASSUME UNCHANGED <<entry, mem, inUse>> PROVE UNCHANGED Abstract!vars
  BY <1>8 DEF Abstract!vars, View, Blob, storage_size, is_empty
<1>9. ASSUME NEW k \in KeyNumbers, Use(k) \/ Release(k) PROVE Abstract!Next
  <2>1. UNCHANGED Mapped
    BY <1>9 DEF Use, Release, Mapped, View, Blob, storage_size, is_empty
  <2>2. CASE Use(k)
    <3>1. k \in Live /\ ~entry[k].disabled /\ inUse' = inUse \cup {k}
      BY <2>2 DEF Use, Reachable, Live
    <3>2. ~Mapped[k].disabled
      BY <3>1, MappedFields
    <3> QED BY <1>0, <2>1, <3>1, <3>2 DEF Abstract!Use, Abstract!Next, Mapped
  <2>3. CASE Release(k)
    BY <2>1, <2>3 DEF Release, Abstract!Release, Abstract!Next, Mapped
  <2> QED BY <1>9, <2>2, <2>3
<1>10. ASSUME NEW m \in SUBSET Tables, SetMask(m) PROVE UNCHANGED Abstract!vars
  BY <1>8, <1>10 DEF SetMask
<1>11. ASSUME UNCHANGED vars PROVE UNCHANGED Abstract!vars
  BY <1>8, <1>11 DEF vars
<1> QED BY <1>1, <1>2, <1>3, <1>5, <1>6, <1>7, <1>9, <1>10, <1>11 DEF Next

LEMMA RefinesInit == Init => Abstract!Init
BY FreeValues DEF Init, Abstract!Init, is_empty

(* For every shape of the tables the vault implements the map of KeyMap:   *)
(* a key reads back as it was stored until it is removed, and no operation *)
(* on one key changes another.                                             *)
THEOREM ImplementsMap == Spec => Refines
<1>1. Spec => [][Abstract!Next]_(Abstract!vars)
  BY Always, RefinesStep, PTL DEF Spec
<1> QED BY <1>1, RefinesInit, PTL DEF Spec, Refines, Abstract!Spec


-----------------------------------------------------------------------------
(***************************************************************************)
(* The scan of add_entry.  What it computes is shown block by block.       *)
(***************************************************************************)

(* What holds of 0, and of m + 1 whenever it holds of m, holds up to N.    *)
LEMMA UpTo ==
    ASSUME NEW N \in Nat, NEW S,
           0 \in S, \A m \in 0..(N-1) : m \in S => m + 1 \in S
    PROVE  0..N \subseteq S
<1> DEFINE bad == (0..N) \ S
<1> SUFFICES ASSUME bad # {} PROVE FALSE
  OBVIOUS
<1>1. PICK m : m = Least(bad)
  OBVIOUS
<1>2. m \in bad /\ \A y \in bad : m <= y
  BY <1>1, LeastIn, bad \subseteq Nat
<1>3. m # 0 /\ m - 1 \in 0..(N-1)
  BY <1>2
<1>4. m - 1 \in S
  BY <1>2, <1>3
<1>5. (m - 1) + 1 \in S
  BY <1>3, <1>4
<1> QED BY <1>2, <1>3, <1>5

Fresh == [total |-> 0, run |-> 0, start |-> 0, found |-> FALSE]

(* What the scan makes of block i *)
ScanStep(p, i, t, n) ==
    IF p.found THEN p
    ELSE IF i \in used[t] THEN [p EXCEPT !.run = 0, !.start = 0]
    ELSE [total |-> p.total + 1, run |-> p.run + 1,
          start |-> IF p.run = 0 THEN i ELSE p.start,
          found |-> n = p.run + 1]

Scanning(f, m, t, n) ==
    f = [i \in -1..(m-1) |-> IF i = -1 THEN Fresh ELSE ScanStep(f[i-1], i, t, n)]

LEMMA ScanChoice ==
    ASSUME NEW t, NEW n
    PROVE  Scan(t, n) = (CHOOSE f : Scanning(f, NB, t, n))[NB-1]
BY DEF Scan, Scanning, Fresh, ScanStep

(* The recursion has a solution *)
LEMMA ScanExists ==
    ASSUME NEW t, NEW n
    PROVE  \E f : Scanning(f, NB, t, n)
<1> DEFINE S == {m \in 0..NB : \E f : Scanning(f, m, t, n)}
<1>0. NB \in Nat
  BY ShapeAssumption
<1>1. 0 \in S
  <2> DEFINE f == [i \in -1..(0-1) |-> Fresh]
  <2>1. Scanning(f, 0, t, n)
    BY DEF Scanning
  <2> QED BY <1>0, <2>1
<1>2. ASSUME NEW m \in 0..(NB-1), m \in S PROVE m + 1 \in S
  <2>1. PICK f : Scanning(f, m, t, n)
    BY <1>2
  <2> DEFINE g == [i \in -1..((m+1)-1) |-> IF i = m THEN ScanStep(f[m-1], m, t, n) ELSE f[i]]
  <2>2. \A i \in -1..(m-1) : g[i] = f[i]
    BY <1>0
  <2>3. \A i \in -1..(m-1) : f[i] = IF i = -1 THEN Fresh ELSE ScanStep(f[i-1], i, t, n)
    BY <2>1 DEF Scanning
  <2>4. \A i \in -1..((m+1)-1) : g[i] = IF i = -1 THEN Fresh ELSE ScanStep(g[i-1], i, t, n)
    <3> SUFFICES ASSUME NEW i \in -1..((m+1)-1)
                 PROVE  g[i] = IF i = -1 THEN Fresh ELSE ScanStep(g[i-1], i, t, n)
      OBVIOUS
    <3>1. CASE i = m
      <4>1. g[i-1] = f[m-1]
        BY <1>0, <2>2, <3>1
      <4>2. g[i] = ScanStep(f[m-1], m, t, n)
        BY <3>1
      <4> QED BY <1>0, <3>1, <4>1, <4>2
    <3>2. CASE i # m
      <4>1. i \in -1..(m-1) /\ (i # -1 => i-1 \in -1..(m-1))
        BY <1>0, <3>2
      <4> HIDE DEF g
      <4> QED BY <2>2, <2>3, <4>1
    <3> QED BY <3>1, <3>2
  <2>5. Scanning(g, m+1, t, n)
    <3>1. g = [i \in -1..((m+1)-1) |-> g[i]]
      OBVIOUS
    <3> HIDE DEF g
    <3> QED BY <2>4, <3>1 DEF Scanning
  <2>6. m + 1 \in 0..NB
    BY <1>0
  <2> HIDE DEF g
  <2> QED BY <2>5, <2>6
<1>3. NB \in 0..NB
  BY <1>0
<1>4. 0..NB \subseteq S
  <2> HIDE DEF S
  <2> QED BY <1>0, <1>1, <1>2, UpTo
<1> QED BY <1>3, <1>4

(* What the scan knows when the blocks below m are behind it; U is the     *)
(* blocks that are used.                                                   *)
Empty(s, n, U) == s .. (s + n - 1) \cap U = {}

Searching(p, m, n, U) ==
    /\ p.total = Cardinality((0..(m-1)) \ U)
    /\ p.run <= m /\ p.run < n
    /\ (p.run # m => (m - p.run) - 1 \in U)
    /\ \A b \in (m - p.run)..(m-1) : b \notin U
    /\ (p.run # 0 => p.start = m - p.run)
    /\ \A s \in Nat : s + n <= m => ~Empty(s, n, U)

Settled(p, m, n, U) ==
    /\ p.start + n <= m
    /\ Empty(p.start, n, U)
    /\ \A s \in Nat : s < p.start => ~Empty(s, n, U)

Knows(p, m, n, U) ==
    /\ p \in [total : Nat, run : Nat, start : Nat, found : BOOLEAN]
    /\ p.found => Settled(p, m, n, U)
    /\ ~p.found => Searching(p, m, n, U)

LEMMA ScanStepKnows ==
    ASSUME NEW p, NEW m \in Nat, NEW n \in Nat \ {0}, NEW t,
           Knows(p, m, n, used[t])
    PROVE  Knows(ScanStep(p, m, t, n), m + 1, n, used[t])
<1> DEFINE q == ScanStep(p, m, t, n)
<1>1. PICK U : U = used[t]
  OBVIOUS
<1>2. p \in [total : Nat, run : Nat, start : Nat, found : BOOLEAN] /\ Knows(p, m, n, U)
  BY <1>1 DEF Knows
<1>3. CASE p.found
  <2>1. q = p
    BY <1>3 DEF ScanStep
  <2> QED BY <1>1, <1>2, <1>3, <2>1 DEF Knows, Settled
<1>4. CASE ~p.found /\ m \in U
  <2>1. q = [total |-> p.total, run |-> 0, start |-> 0, found |-> FALSE]
    BY <1>1, <1>2, <1>4 DEF ScanStep
  <2>2. Searching(p, m, n, U)
    BY <1>2, <1>4 DEF Knows
  <2>3. (0..((m+1)-1)) \ U = (0..(m-1)) \ U
    BY <1>4
  <2>4. \A s \in Nat : s + n <= m + 1 => ~Empty(s, n, U)
    <3> SUFFICES ASSUME NEW s \in Nat, s + n <= m + 1 PROVE ~Empty(s, n, U)
      OBVIOUS
    <3>1. CASE s + n <= m
      BY <2>2, <3>1 DEF Searching
    <3>2. CASE s + n = m + 1
      <4>1. m \in s..(s + n - 1)
        BY <3>2
      <4> QED BY <1>4, <4>1 DEF Empty
    <3> QED BY <3>1, <3>2
  <2> HIDE DEF q
  <2>5. Searching(q, m + 1, n, U)
    <3>1. q.total = p.total /\ q.run = 0 /\ q.run # m + 1 /\ (m + 1 - q.run) - 1 = m
      BY <2>1
    <3>2. p.total = Cardinality((0..((m+1)-1)) \ U)
      BY <2>2, <2>3 DEF Searching
    <3> QED BY <1>4, <2>4, <3>1, <3>2 DEF Searching
  <2>6. q \in [total : Nat, run : Nat, start : Nat, found : BOOLEAN] /\ ~q.found
    BY <1>2, <2>1
  <2>7. Knows(q, m + 1, n, U)
    BY <2>5, <2>6 DEF Knows
  <2> QED BY <1>1, <2>7 DEF q
<1>5. CASE ~p.found /\ m \notin U
  <2>1. q = [total |-> p.total + 1, run |-> p.run + 1,
             start |-> IF p.run = 0 THEN m ELSE p.start, found |-> n = p.run + 1]
    BY <1>1, <1>2, <1>5 DEF ScanStep
  <2>2. Searching(p, m, n, U)
    BY <1>2, <1>5 DEF Knows
  <2>3. q.start = m - p.run
    BY <1>2, <2>1, <2>2 DEF Searching
  <2>4. Cardinality((0..((m+1)-1)) \ U) = Cardinality((0..(m-1)) \ U) + 1
    <3> DEFINE F == (0..(m-1)) \ U
    <3>1. (0..((m+1)-1)) \ U = F \cup {m} /\ m \notin F
      BY <1>5
    <3>2. IsFiniteSet(F)
      <4>1. IsFiniteSet(0..(m-1))
        BY FS_Interval
      <4> QED BY <4>1, FS_Subset
    <3> HIDE DEF F
    <3>3. Cardinality(F \cup {m}) = Cardinality(F) + 1
      BY <3>1, <3>2, FS_AddElement
    <3> QED BY <3>1, <3>3 DEF F
  <2>5. \A b \in ((m + 1) - q.run)..((m + 1) - 1) : b \notin U
    BY <1>2, <1>5, <2>1, <2>2 DEF Searching
  <2>6. q \in [total : Nat, run : Nat, start : Nat, found : BOOLEAN]
    BY <1>2, <2>1, <2>2, <2>3 DEF Searching
  <2>7. CASE n = p.run + 1
    <3>1. q.start + n = m + 1
      BY <1>2, <2>3, <2>7
    <3>2. q.start .. (q.start + n - 1) = ((m + 1) - q.run)..((m + 1) - 1)
      BY <1>2, <2>1, <2>3, <2>7
    <3>3. Empty(q.start, n, U)
      BY <2>5, <3>2 DEF Empty
    <3>4. \A s \in Nat : s < q.start => ~Empty(s, n, U)
      BY <1>2, <2>2, <2>6, <3>1 DEF Searching
    <3> HIDE DEF q
    <3>5. Settled(q, m + 1, n, U)
      BY <3>1, <3>3, <3>4, <2>6 DEF Settled
    <3>6. q.found
      BY <2>1, <2>7
    <3>7. Knows(q, m + 1, n, U)
      BY <2>6, <3>5, <3>6 DEF Knows
    <3> QED BY <1>1, <3>7 DEF q
  <2>8. CASE n # p.run + 1
    <3>1. q.run < n /\ q.run <= m + 1
      BY <1>2, <2>1, <2>2, <2>8 DEF Searching
    <3>2. q.run # m + 1 => ((m + 1) - q.run) - 1 \in U
      BY <1>2, <2>1, <2>2 DEF Searching
    <3>3. \A s \in Nat : s + n <= m + 1 => ~Empty(s, n, U)
      <4> SUFFICES ASSUME NEW s \in Nat, s + n <= m + 1 PROVE ~Empty(s, n, U)
        OBVIOUS
      <4>1. CASE s + n <= m
        BY <2>2, <4>1 DEF Searching
      <4>2. CASE s + n = m + 1
        <5>1. p.run # m
          BY <1>2, <2>1, <3>1, <4>2
        <5>2. (m - p.run) - 1 \in U
          BY <2>2, <5>1 DEF Searching
        <5>3. (m - p.run) - 1 \in s..(s + n - 1)
          BY <1>2, <2>1, <3>1, <4>2
        <5> QED BY <5>2, <5>3 DEF Empty
      <4> QED BY <4>1, <4>2
    <3>4. q.total = Cardinality((0..((m+1)-1)) \ U)
      BY <2>1, <2>2, <2>4 DEF Searching
    <3>5. q.run # 0 => q.start = (m + 1) - q.run
      BY <1>2, <2>1, <2>3
    <3>6. Searching(q, m + 1, n, U)
      <4> HIDE DEF q
      <4> QED BY <2>5, <3>1, <3>2, <3>3, <3>4, <3>5 DEF Searching
    <3> HIDE DEF q
    <3>7. ~q.found
      BY <2>1, <2>8
    <3>8. Knows(q, m + 1, n, U)
      BY <2>6, <3>6, <3>7 DEF Knows
    <3> QED BY <1>1, <3>8 DEF q
  <2> QED BY <2>7, <2>8
<1> QED BY <1>1, <1>3, <1>4, <1>5

LEMMA ScanKnows ==
    ASSUME NEW t, NEW n \in Nat \ {0}
    PROVE  Knows(Scan(t, n), NB, n, used[t])
<1>0. NB \in Nat \ {0}
  BY ShapeAssumption
<1>1. PICK f : f = CHOOSE g : Scanning(g, NB, t, n)
  OBVIOUS
<1>2. Scanning(f, NB, t, n)
  BY <1>1, ScanExists
<1>3. \A i \in -1..(NB-1) : f[i] = IF i = -1 THEN Fresh ELSE ScanStep(f[i-1], i, t, n)
  BY <1>2 DEF Scanning
<1> DEFINE S == {m \in 0..NB : Knows(f[m-1], m, n, used[t])}
<1>4. 0 \in S
  <2>1. f[0-1] = Fresh
    BY <1>0, <1>3
  <2>2. Cardinality((0..(0-1)) \ used[t]) = 0
    <3>1. (0..(0-1)) \ used[t] = {}
      OBVIOUS
    <3> QED BY <3>1, FS_EmptySet
  <2>3. Searching(Fresh, 0, n, used[t])
    BY <2>2 DEF Searching, Fresh
  <2>4. Knows(Fresh, 0, n, used[t])
    BY <2>3 DEF Knows, Fresh
  <2> QED BY <1>0, <2>1, <2>4
<1>5. ASSUME NEW m \in 0..(NB-1), m \in S PROVE m + 1 \in S
  <2>1. f[m] = ScanStep(f[m-1], m, t, n)
    BY <1>0, <1>3
  <2>2. Knows(f[m-1], m, n, used[t])
    BY <1>5
  <2>3. Knows(f[m], m + 1, n, used[t])
    BY <2>1, <2>2, ScanStepKnows
  <2>4. m + 1 \in 0..NB /\ (m + 1) - 1 = m
    BY <1>0
  <2> QED BY <2>3, <2>4
<1>6. 0..NB \subseteq S
  <2> HIDE DEF S
  <2> QED BY <1>0, <1>4, <1>5, UpTo
<1>7. NB \in S
  BY <1>0, <1>6
<1> QED BY <1>1, <1>7, ScanChoice

(* The scan and what it is to find agree in every state of the right type  *)
LEMMA ScanRight == TypeOK => ScanAgrees
<1> SUFFICES ASSUME TypeOK, NEW t \in Tables, NEW n \in FixedSizes \cup VarSizes
             PROVE  /\ Scan(t, n).found = (Fits(t, n) # {})
                    /\ Scan(t, n).found => Scan(t, n).start = start_at(t, n)
                    /\ ~Scan(t, n).found => Scan(t, n).total = NB - Cardinality(used[t])
  BY DEF ScanAgrees
<1>1. n \in Nat \ {0} /\ NB \in Nat \ {0}
  BY ShapeAssumption
<1>2. PICK s : s = Scan(t, n)
  OBVIOUS
<1>3. Knows(s, NB, n, used[t])
  BY <1>1, <1>2, ScanKnows
<1>4. s.found \in BOOLEAN /\ s.start \in Nat
  BY <1>3 DEF Knows
<1>5. \A b : b \in Fits(t, n) <=> b \in Nat /\ b + n <= NB /\ Empty(b, n, used[t])
  BY <1>1 DEF Fits, Blocks, Empty
<1>6. CASE s.found
  <2>1. Settled(s, NB, n, used[t])
    BY <1>3, <1>6 DEF Knows
  <2>2. s.start \in Fits(t, n) /\ \A b \in Fits(t, n) : s.start <= b
    BY <1>1, <1>4, <1>5, <2>1 DEF Settled
  <2>3. Fits(t, n) \subseteq Nat
    BY <1>5
  <2>4. /\ start_at(t, n) \in Fits(t, n)
        /\ \A y \in Fits(t, n) : start_at(t, n) <= y
    BY <2>2, <2>3, LeastIn DEF start_at
  <2>5. s.start = start_at(t, n)
    BY <2>2, <2>3, <2>4
  <2> QED BY <1>2, <1>4, <1>6, <2>2, <2>5
<1>7. CASE ~s.found
  <2>1. Searching(s, NB, n, used[t])
    BY <1>3, <1>7 DEF Knows
  <2>2. Fits(t, n) = {}
    BY <1>5, <2>1 DEF Searching
  <2>3. used[t] \subseteq Blocks
    BY DEF TypeOK
  <2>4. IsFiniteSet(Blocks) /\ Cardinality(Blocks) = NB
    BY <1>1, FS_Interval DEF Blocks
  <2>5. Cardinality(Blocks \ used[t]) = NB - Cardinality(used[t])
    <3>1. Blocks \cap used[t] = used[t]
      BY <2>3
    <3>2. IsFiniteSet(used[t])
      BY <2>3, <2>4, FS_Subset
    <3>3. Cardinality(Blocks \ used[t]) = Cardinality(Blocks) - Cardinality(Blocks \cap used[t])
      BY <2>4, FS_Difference
    <3> QED BY <2>4, <3>1, <3>3
  <2>6. s.total = NB - Cardinality(used[t])
    BY <2>1, <2>5 DEF Searching, Blocks
  <2> QED BY <1>2, <1>4, <1>7, <2>2, <2>6
<1> QED BY <1>6, <1>7

(* The scan of add_entry breaks off at the first run of free blocks that   *)
(* holds the key, whenever there is one, and when there is none it has     *)
(* counted every free block: what tells DefragNeeded from NotEnoughSpace.  *)
THEOREM ScanFindsTheFirstFit == Spec => []ScanAgrees
BY StoreTypes, ScanRight, PTL
=============================================================================
