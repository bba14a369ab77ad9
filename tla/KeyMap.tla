------------------------------- MODULE KeyMap -------------------------------
(***************************************************************************)
(* What the key vault promises the sessions: a map from key numbers to     *)
(* keys.  A key is what its owner stored, whole and unchanged, until it is *)
(* removed; no operation touches a key it was not asked about.             *)
(***************************************************************************)
EXTENDS Naturals

CONSTANTS Numbers,   \* key numbers
          Keys,      \* records [app, session, id, disabled, data]
          NoKey      \* what a free number holds

VARIABLES
    keys,  \* [Numbers -> Keys \cup {NoKey}]
    busy   \* numbers of the keys an engine works with

vars == <<keys, busy>>

Init == keys = [k \in Numbers |-> NoKey] /\ busy = {}

Live == {k \in Numbers : keys[k] # NoKey}

(* A tag names at most one key that its application can open *)
Named(key) ==
    \E k \in Live : /\ ~keys[k].session /\ ~keys[k].disabled
                    /\ keys[k].app = key.app /\ keys[k].id = key.id

Store(k, key) ==
    /\ k \notin Live /\ ~key.disabled
    /\ ~key.session /\ key.id # 0 => ~Named(key)
    /\ keys' = [keys EXCEPT ![k] = key]
    /\ UNCHANGED busy

Switched(key, off) ==
    [app |-> key.app, session |-> key.session, id |-> key.id,
     disabled |-> off, data |-> key.data]

Switch(k, off) ==
    /\ k \in Live
    /\ keys' = [keys EXCEPT ![k] = Switched(@, off)]
    /\ UNCHANGED busy

(* A key an engine works with is not removed, only disabled *)
Drop(victims) ==
    /\ keys' = [k \in Numbers |->
                  IF k \in victims \ busy THEN NoKey
                  ELSE IF k \in victims THEN Switched(keys[k], TRUE)
                  ELSE keys[k]]
    /\ UNCHANGED busy

DropOne == \E k \in Live : Drop({k})
DropSession(s) == Drop({k \in Live : keys[k].session /\ keys[k].id = s})
DropApp(a) == Drop({k \in Live : keys[k].app = a})

Clear == keys' = [k \in Numbers |-> NoKey] /\ UNCHANGED busy

Use(k) == /\ k \in Live /\ ~keys[k].disabled
          /\ busy' = busy \cup {k} /\ UNCHANGED keys
Release(k) == busy' = busy \ {k} /\ UNCHANGED keys

Next ==
    \/ \E k \in Numbers, key \in Keys : Store(k, key)
    \/ \E k \in Numbers, off \in BOOLEAN : Switch(k, off)
    \/ DropOne \/ Clear
    \/ \E k \in Live : DropSession(keys[k].id)
    \/ \E k \in Live : DropApp(keys[k].app)
    \/ \E k \in Numbers : Use(k) \/ Release(k)

Spec == Init /\ [][Next]_vars
=============================================================================
