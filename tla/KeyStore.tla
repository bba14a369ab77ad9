------------------------------ MODULE KeyStore ------------------------------
(***************************************************************************)
(* The key vault of a partition: tables with a list of entries, a bitmap   *)
(* of used blocks and the memory the bitmap is about.  A key occupies a    *)
(* run of blocks; its entry has the run's start, and its length follows    *)
(* from the kind of key, except that a variable-length key's length is     *)
(* read back from the attributes stored in the run's first block.          *)
(*                                                                         *)
(* Tables, entries and blocks are numbered from 0; a key number is a pair  *)
(* of a table and an entry.                                                *)
(***************************************************************************)
EXTENDS Integers, FiniteSets

CONSTANTS NT, NS, NB,   \* tables, entries and blocks of a table
          FixedSizes,   \* storage sizes of the kinds of fixed length, in blocks
          VarSizes,     \* storage sizes a variable-length key may have
          Apps,         \* AppVaultId
          Ids,          \* session ids and key tags share a field; 0 is no tag
          Blobs, NoBlob,
          MaxUse        \* engines

ASSUME ShapeAssumption ==
    /\ NT \in Nat \ {0} /\ NS \in Nat \ {0} /\ NB \in Nat \ {0}
    /\ FixedSizes \subseteq Nat \ {0} /\ VarSizes \subseteq Nat \ {0}
ASSUME NameAssumption == Ids \subseteq Nat /\ Apps # {} /\ NoBlob \notin Blobs

Tables == 0..(NT-1)
Slots == 0..(NS-1)
Blocks == 0..(NB-1)
KeyNumbers == Tables \X Slots

Kinds == {[var |-> FALSE, size |-> n] : n \in FixedSizes}
             \cup {[var |-> TRUE, size |-> 0]}
FreeKind == [var |-> FALSE, size |-> 0]

VARIABLES
    entry,  \* PhysicalTable::entry_list
    used,   \* used_block_tracking_memory
    mem,    \* key_data_memory
    mask,   \* tables the partition owns
    inUse   \* key numbers in the contexts of the PKA engines

vars == <<entry, used, mem, mask, inUse>>

Zero == [blob |-> NoBlob, at |-> 0, len |-> 0]
FreeEntry == [off |-> 0, kind |-> FreeKind, app |-> CHOOSE a \in Apps : TRUE,
              session |-> FALSE, id |-> 0, disabled |-> FALSE]

Init ==
    /\ entry = [k \in KeyNumbers |-> FreeEntry]
    /\ used = [t \in Tables |-> {}]
    /\ mem = [t \in Tables |-> [b \in Blocks |-> Zero]]
    /\ mask = {} /\ inUse = {}

is_empty(k) == entry[k].kind = FreeKind

Live == {k \in KeyNumbers : ~is_empty(k)}

(* get_entry with allow_disabled: the table is the partition's, the entry *)
(* is not empty                                                           *)
Reachable(k) == k[1] \in mask /\ ~is_empty(k)

(* Mutant: the variable length is taken for the smallest one *)
storage_size_fixed(k) ==
    IF entry[k].kind.var THEN 1 ELSE entry[k].kind.size

storage_size(k) ==
    IF entry[k].kind.var THEN mem[k[1]][entry[k].off].len ELSE entry[k].kind.size

Run(k) == entry[k].off .. (entry[k].off + storage_size(k) - 1)

(* get_entry_blob, with the attributes in front *)
Blob(k) == [j \in 0..(storage_size(k) - 1) |-> mem[k[1]][entry[k].off + j]]

-----------------------------------------------------------------------------
(* add_entry *)

(* Starts of runs of n free blocks *)
Fits(t, n) == {s \in Blocks : s + n <= NB /\ s .. (s + n - 1) \cap used[t] = {}}

(* Mutant: a used block does not end the run of free ones *)
ScanNoReset(t, n) ==
    LET f[i \in -1..(NB-1)] ==
          IF i = -1 THEN [total |-> 0, run |-> 0, start |-> 0, found |-> FALSE]
          ELSE LET p == f[i-1] IN
               IF p.found THEN p
               ELSE IF i \in used[t] THEN p
               ELSE [total |-> p.total + 1, run |-> p.run + 1,
                     start |-> IF p.run = 0 THEN i ELSE p.start,
                     found |-> n = p.run + 1]
    IN f[NB-1]

(* The scan of add_entry up to block i: blocks free in all, the current run *)
(* of free blocks and its start, and whether the scan has broken off.       *)
Scan(t, n) ==
    LET f[i \in -1..(NB-1)] ==
          IF i = -1 THEN [total |-> 0, run |-> 0, start |-> 0, found |-> FALSE]
          ELSE LET p == f[i-1] IN
               IF p.found THEN p
               ELSE IF i \in used[t] THEN [p EXCEPT !.run = 0, !.start = 0]
               ELSE [total |-> p.total + 1, run |-> p.run + 1,
                     start |-> IF p.run = 0 THEN i ELSE p.start,
                     found |-> n = p.run + 1]
    IN f[NB-1]

FreeSlots(t) == {i \in Slots : is_empty(<<t, i>>)}

(* What a table answers to a key of n blocks *)
TableAnswer(t, n) ==
    IF FreeSlots(t) = {} THEN "NotEnoughSpace"
    ELSE IF Fits(t, n) # {} THEN "Ok"
    ELSE IF n > NB - Cardinality(used[t]) THEN "NotEnoughSpace"
    ELSE "DefragNeeded"

(* get_entry_index_by_tag: entries that are disabled are passed over *)
TagExists(app, tag) ==
    \E k \in KeyNumbers : /\ Reachable(k) /\ ~entry[k].disabled
                          /\ entry[k].app = app
                          /\ ~entry[k].session /\ entry[k].id = tag /\ tag # 0

Least(S) == CHOOSE x \in S : \A y \in S : x <= y

start_at(t, n) == Least(Fits(t, n))

Place(t, n, app, session, id, kind, blob) ==
    LET i == Least(FreeSlots(t))
        off == start_at(t, n)
    IN /\ entry' = [entry EXCEPT ![<<t, i>>] =
                      [off |-> off, kind |-> kind, app |-> app,
                       session |-> session, id |-> id, disabled |-> FALSE]]
       /\ used' = [used EXCEPT ![t] = @ \cup (off .. (off + n - 1))]
       /\ mem' = [mem EXCEPT ![t] = [b \in Blocks |->
                    IF b \in off .. (off + n - 1)
                      THEN [blob |-> blob, at |-> b - off,
                            len |-> IF kind.var THEN n ELSE 0]
                      ELSE @[b]]]

(* Import of a key: the tag must be new to the application, and the first  *)
(* table that can takes it.  A session-only key has no tag.  Refusals of   *)
(* this and the other calls leave the store as it is.                      *)
Add(n, app, session, id, kind, blob) ==
    LET able == {t \in mask : TableAnswer(t, n) = "Ok"} IN
    /\ n \in IF kind.var THEN VarSizes ELSE {kind.size}
    /\ ~session /\ id # 0 => ~TagExists(app, id)
    /\ able # {}
    /\ Place(Least(able), n, app, session, id, kind, blob)
    /\ UNCHANGED <<mask, inUse>>

-----------------------------------------------------------------------------
(* enable_entry, disable_entry *)
Switch(k, off) ==
    /\ Reachable(k)
    /\ entry' = [entry EXCEPT ![k].disabled = off]
    /\ UNCHANGED <<used, mem, mask, inUse>>

(* The blocks of the keys in a table that go *)
Runs(t, gone) == UNION {Run(k) : k \in {g \in gone : g[1] = t}}

(* Mutant: the memory of a removed key is not wiped *)
NotWiped(t, gone) == mem[t]

Wiped(t, gone) ==
    [b \in Blocks |-> IF b \in Runs(t, gone) THEN Zero ELSE mem[t][b]]

Freed(t, gone) == used[t] \ Runs(t, gone)

(* remove_entry for each victim: a key an engine works with is disabled and *)
(* kept; the others lose entry, memory and blocks.                          *)
Remove(victims) ==
    LET gone == victims \ inUse
    IN /\ entry' = [k \in KeyNumbers |->
                      IF k \in gone THEN FreeEntry
                      ELSE IF k \in victims THEN [entry[k] EXCEPT !.disabled = TRUE]
                      ELSE entry[k]]
       /\ used' = [t \in Tables |-> Freed(t, gone)]
       /\ mem' = [t \in Tables |-> Wiped(t, gone)]

(* delete_key: the key is the application's and, if session-only, the *)
(* session's                                                          *)
Delete(k, app, session) ==
    /\ Reachable(k)
    /\ entry[k].app = app
    /\ entry[k].session => entry[k].id = session
    /\ Remove({k})
    /\ UNCHANGED <<mask, inUse>>

SessionKeys(session) ==
    {k \in KeyNumbers : /\ Reachable(k)
                        /\ entry[k].session /\ entry[k].id = session}

(* delete_all_session_keys, delete_all_app_keys *)
DeleteSession(session) ==
    /\ Remove(SessionKeys(session))
    /\ UNCHANGED <<mask, inUse>>

AppKeys(app) == {k \in KeyNumbers : Reachable(k) /\ entry[k].app = app}

DeleteApp(app) ==
    /\ Remove(AppKeys(app))
    /\ UNCHANGED <<mask, inUse>>

-----------------------------------------------------------------------------
(* nuke: the tables of the partition, engines or not *)
Nuke ==
    /\ entry' = [k \in KeyNumbers |-> IF k[1] \in mask THEN FreeEntry ELSE entry[k]]
    /\ used' = [t \in Tables |-> IF t \in mask THEN {} ELSE used[t]]
    /\ mem' = [t \in Tables |->
                 IF t \in mask THEN [b \in Blocks |-> Zero] ELSE mem[t]]

(* disable and migrate clear the vault; reset also gives the tables back, *)
(* and only after that: once the mask is empty nothing is reached         *)
Clear == Nuke /\ UNCHANGED <<mask, inUse>>

(* Mutant: the tables are given back before they are cleared *)
ResetLate ==
    /\ mask' = {}
    /\ UNCHANGED <<entry, used, mem, inUse>>

Reset == Nuke /\ mask' = {} /\ UNCHANGED inUse

(* set_resource_mask: the partition gets more tables; a mask that loses some *)
(* is SetResource's subject                                                  *)
SetMask(m) ==
    /\ mask \subseteq m /\ mask' = m
    /\ UNCHANGED <<entry, used, mem, inUse>>

(* An engine starts and stops working with a key that could be opened *)
Use(k) ==
    /\ Reachable(k) /\ ~entry[k].disabled
    /\ Cardinality(inUse) < MaxUse
    /\ inUse' = inUse \cup {k}
    /\ UNCHANGED <<entry, used, mem, mask>>
Release(k) ==
    /\ k \in inUse /\ inUse' = inUse \ {k}
    /\ UNCHANGED <<entry, used, mem, mask>>

Next ==
    \/ \E n \in FixedSizes \cup VarSizes, app \in Apps, session \in BOOLEAN,
          id \in Ids, kind \in Kinds, blob \in Blobs :
            Add(n, app, session, id, kind, blob)
    \/ \E k \in KeyNumbers, off \in BOOLEAN : Switch(k, off)
    \/ \E k \in KeyNumbers, app \in Apps, session \in Ids : Delete(k, app, session)
    \/ \E session \in Ids : DeleteSession(session)
    \/ \E app \in Apps : DeleteApp(app)
    \/ Clear \/ Reset
    \/ \E m \in SUBSET Tables : SetMask(m)
    \/ \E k \in KeyNumbers : Use(k) \/ Release(k)

Spec == Init /\ [][Next]_vars

-----------------------------------------------------------------------------
Words == [blob : Blobs \cup {NoBlob}, at : Nat, len : Nat]
Entries == [off : Blocks, kind : Kinds \cup {FreeKind}, app : Apps,
            session : BOOLEAN, id : Ids \cup {0}, disabled : BOOLEAN]

TypeOK ==
    /\ entry \in [KeyNumbers -> Entries]
    /\ used \in [Tables -> SUBSET Blocks]
    /\ mem \in [Tables -> [Blocks -> Words]]
    /\ mask \in SUBSET Tables /\ inUse \in SUBSET KeyNumbers

(* Two keys of a table never share a block, however keys of different      *)
(* lengths were added and removed: neither is written or wiped with the    *)
(* other.                                                                  *)
NoOverlap ==
    \A k, l \in Live : k[1] = l[1] /\ k # l => Run(k) \cap Run(l) = {}

(* The bitmap is exactly what the entries occupy: no block is lost to the  *)
(* store for ever, none is offered that a key still holds, though the      *)
(* length of a variable-length key is taken from the memory itself.        *)
UsedExact == \A t \in Tables : used[t] = Runs(t, Live)

(* Blocks that no key occupies hold nothing of the keys that were there.   *)
FreeIsZero == \A t \in Tables : \A b \in Blocks \ used[t] : mem[t][b] = Zero

(* A table the partition does not own is empty, so that the next owner     *)
(* starts with a clean one.                                                *)
OutsideClean == \A k \in Live : k[1] \in mask

(* The scan of add_entry, with its counters, finds the first run that fits *)
(* whenever there is one, and otherwise has counted every free block, which *)
(* is what it tells DefragNeeded from NotEnoughSpace by.                   *)
ScanAgrees ==
    \A t \in Tables, n \in FixedSizes \cup VarSizes :
        LET s == Scan(t, n) IN
        /\ s.found = (Fits(t, n) # {})
        /\ s.found => s.start = start_at(t, n)
        /\ ~s.found => s.total = NB - Cardinality(used[t])

(* A tag names one key of an application that can be opened.               *)
TagUnique ==
    \A k, l \in Live :
        /\ ~entry[k].session /\ ~entry[l].session /\ entry[k].id # 0
        /\ entry[k].id = entry[l].id /\ entry[k].app = entry[l].app
        /\ ~entry[k].disabled /\ ~entry[l].disabled
        => k = l

(* What the vault looks like to a session that opens keys by number        *)
View(k) == [app |-> entry[k].app, session |-> entry[k].session, id |-> entry[k].id,
            disabled |-> entry[k].disabled, data |-> Blob(k)]

NoKey == [app |-> 0, session |-> FALSE, id |-> 0, disabled |-> FALSE, data |-> <<>>]

(* The bytes of a key as add_entry lays them out *)
Data(n, var, blob) ==
    [j \in 0..(n-1) |-> [blob |-> blob, at |-> j, len |-> IF var THEN n ELSE 0]]

AllData == (UNION {{Data(n, FALSE, b) : b \in Blobs} : n \in FixedSizes})
               \cup (UNION {{Data(n, TRUE, b) : b \in Blobs} : n \in VarSizes})
AllKeys == [app : Apps, session : BOOLEAN, id : Ids, disabled : BOOLEAN, data : AllData]

(* The tables implement a map from key numbers to keys: every key reads    *)
(* back as it was stored until it is removed, and no operation on one key  *)
(* changes another.                                                        *)
Abstract == INSTANCE KeyMap WITH
    Numbers <- KeyNumbers, Keys <- AllKeys, busy <- inUse,
    keys <- [k \in KeyNumbers |-> IF is_empty(k) THEN NoKey ELSE View(k)]
Refines == Abstract!Spec
=============================================================================
