--------------------------- MODULE ResourceTable ----------------------------
(***************************************************************************)
(* The admin core's table of resources (a key table, an HSM queue and two  *)
(* fast-path queues each) and the functions that own them: the table and   *)
(* its CRC survive a warm boot, the counts are memory of the firmware and  *)
(* are computed again.                                                     *)
(***************************************************************************)
EXTENDS Integers, FiniteSets

CONSTANTS Functions, NR, NoOne,
          Torn     \* a warm boot may come while the table is being written

ASSUME TableAssumption == NR \in Nat \ {0} /\ NoOne \notin Functions
                              /\ Torn \in BOOLEAN

Resources == 0..(NR-1)

VARIABLES
    owner,              \* Resource::pfn
    res_cnt,            \* FunctionImpl::res_cnt
    free_resource_cnt,
    crc,                \* the table the stored CRC was computed from
    stale               \* history: the counts are those of a table that the
                        \* last boot has thrown away

tableVars == <<owner, res_cnt, free_resource_cnt, crc, stale>>

Owned(f) == {r \in Resources : owner[r] = f}
Free == Owned(NoOne)
Empty == [r \in Resources |-> NoOne]

TableInit ==
    /\ owner = Empty /\ crc = Empty
    /\ res_cnt = [f \in Functions |-> 0]
    /\ free_resource_cnt = NR /\ stale = FALSE

(* filter(..).take(n) *)
First(S, n) == {r \in S : Cardinality({q \in S : q < r}) < n}

(* The table with the first k entries written of what set_res_cnt(f, n) does *)
Written(f, n, k) ==
    LET grow == First(Free, IF k < n - res_cnt[f] THEN k ELSE n - res_cnt[f])
        shrink == First(Owned(f), IF k < res_cnt[f] - n THEN k ELSE res_cnt[f] - n)
    IN [r \in Resources |->
          IF n > res_cnt[f] /\ r \in grow THEN f
          ELSE IF n < res_cnt[f] /\ r \in shrink THEN NoOne ELSE owner[r]]

(* A count that is more than what is free is refused *)
Possible(f, n) == n <= res_cnt[f] + free_resource_cnt

(* set_res_cnt *)
SetResCnt(f, n) ==
    /\ Possible(f, n)
    /\ owner' = Written(f, n, NR)
    /\ free_resource_cnt' = free_resource_cnt + res_cnt[f] - n
    /\ res_cnt' = [res_cnt EXCEPT ![f] = n]
    /\ crc' = IF n # res_cnt[f] THEN owner' ELSE crc
    /\ UNCHANGED stale

(* Mutant: the count of free resources survives the reset *)
ResetNoCount ==
    /\ owner' = Empty
    /\ res_cnt' = [f \in Functions |-> 0]
    /\ stale' = FALSE /\ UNCHANGED <<free_resource_cnt, crc>>

(* reset; the CRC stays that of the table before *)
ResetTable ==
    /\ owner' = Empty
    /\ res_cnt' = [f \in Functions |-> 0]
    /\ free_resource_cnt' = NR
    /\ stale' = FALSE /\ UNCHANGED crc

(* Mutant: everything is taken to be free after a boot *)
NewAllFree(table) ==
    /\ res_cnt' = [f \in Functions |-> Cardinality({r \in Resources : table[r] = f})]
    /\ free_resource_cnt' = NR
    /\ owner' = IF table = crc THEN table ELSE Empty
    /\ crc' = owner' /\ stale' = (table \notin {crc, Empty})

(* FunctionMgrImpl::new over the table a warm boot finds: the counts are   *)
(* taken first, a table that does not have the CRC is emptied after that.  *)
New(table) ==
    /\ res_cnt' = [f \in Functions |-> Cardinality({r \in Resources : table[r] = f})]
    /\ free_resource_cnt' = Cardinality({r \in Resources : table[r] = NoOne})
    /\ owner' = IF table = crc THEN table ELSE Empty
    /\ crc' = owner' /\ stale' = (table \notin {crc, Empty})

WarmBoot == New(owner)

TornBoot(f, n, k) ==
    /\ Torn /\ Possible(f, n)
    /\ New(Written(f, n, k))

TableNext ==
    \/ \E f \in Functions, n \in 0..NR : SetResCnt(f, n)
    \/ ResetTable
    \/ WarmBoot
    \/ \E f \in Functions, n \in 0..NR, k \in 0..NR : TornBoot(f, n, k)

TableSpec == TableInit /\ [][TableNext]_tableVars

-----------------------------------------------------------------------------
TableTypeOK ==
    /\ owner \in [Resources -> Functions \cup {NoOne}]
    /\ crc \in [Resources -> Functions \cup {NoOne}]
    /\ res_cnt \in [Functions -> 0..NR]
    /\ free_resource_cnt \in 0..NR /\ stale \in BOOLEAN

(* The counts are those of the table, through allocation, release, resets  *)
(* and warm boots: what set_res_cnt refuses or grants is decided by the    *)
(* counts alone.  The exception is a boot that threw the table away, until *)
(* the next reset.                                                         *)
CountsExact ==
    ~stale => /\ free_resource_cnt = Cardinality(Free)
              /\ \A f \in Functions : res_cnt[f] = Cardinality(Owned(f))

(* Whatever a warm boot finds, the firmware never believes more to be free *)
(* than is: a count it grants is covered by entries of the table that      *)
(* nobody owns, and a function never owns more than it is charged with.    *)
NeverOverdrawn ==
    /\ free_resource_cnt <= Cardinality(Free)
    /\ \A f \in Functions : Cardinality(Owned(f)) <= res_cnt[f]
=============================================================================
