---------------------------- MODULE SimplexPipe ----------------------------
(***************************************************************************)
(* The simplex pipe between two cores: a ring of messages in shared memory *)
(* with a consumer index ci that only the receiver writes and a producer   *)
(* index pi that only the sender writes.  Every access to shared memory is *)
(* a step of its own, so that the two cores interleave inside their calls; *)
(* the dmb of send keeps the message ahead of the index.                   *)
(*                                                                         *)
(* Behaviours start when both cores have constructed their SimplexPipe     *)
(* (each sets both indices to 0).                                          *)
(***************************************************************************)
EXTENDS Integers, Sequences

CONSTANTS N,     \* slots of the ring
          Msgs,  \* messages
          NoMsg  \* recv's and peek's None, and what no slot holds yet

ASSUME SizeAssumption == N \in Nat /\ N > 1
ASSUME MsgAssumption == NoMsg \notin Msgs

VARIABLES
    queue, ci, pi,   \* SimplexPipeConfig, shared
    spc, msg,        \* the sender: where it is in send, and send's argument
    answer,          \* the sender's last result
    budget,          \* sends the sender's last empty_slot_count still promises
    rpc, held,       \* the receiver: where it is, and recv's local message
    got              \* the receiver's last result

vars == <<queue, ci, pi, spc, msg, answer, budget, rpc, held, got>>

Init ==
    /\ queue = [k \in 0..(N-1) |-> NoMsg] /\ ci = 0 /\ pi = 0
    /\ spc = "idle" /\ msg = NoMsg /\ answer = "none" /\ budget = 0
    /\ rpc = "idle" /\ held = NoMsg /\ got = NoMsg

-----------------------------------------------------------------------------
next_index(k) == IF k + 1 = N THEN 0 ELSE k + 1

is_empty == pi = ci

(* Mutant: the slot that tells full from empty is not kept free *)
is_full_never == FALSE

is_full == next_index(pi) = ci

empty_slot_count == IF pi >= ci THEN N - (pi - ci) - 1 ELSE ci - pi - 1

-----------------------------------------------------------------------------
(* The sender *)

SendBegin(m) ==
    /\ spc = "idle"
    /\ \/ is_full /\ answer' = "PipeFull" /\ UNCHANGED <<spc, msg>>
       \/ ~is_full /\ spc' = "write" /\ msg' = m /\ UNCHANGED answer
    /\ UNCHANGED <<queue, ci, pi, budget, rpc, held, got>>

(* Mutant: the message goes to the slot after the one that is published *)
SendWriteAhead ==
    /\ spc = "write" /\ spc' = "publish"
    /\ queue' = [queue EXCEPT ![next_index(pi)] = msg]
    /\ UNCHANGED <<ci, pi, msg, answer, budget, rpc, held, got>>

SendWrite ==
    /\ spc = "write" /\ spc' = "publish"
    /\ queue' = [queue EXCEPT ![pi] = msg]
    /\ UNCHANGED <<ci, pi, msg, answer, budget, rpc, held, got>>

SendPublish ==
    /\ spc = "publish" /\ spc' = "idle"
    /\ pi' = next_index(pi) /\ answer' = "Ok"
    /\ budget' = IF budget > 0 THEN budget - 1 ELSE 0
    /\ UNCHANGED <<queue, ci, msg, rpc, held, got>>

(* fill_aes_gcm_iv_queue asks how many messages it may send *)
Count ==
    /\ spc = "idle"
    /\ budget' = empty_slot_count
    /\ UNCHANGED <<queue, ci, pi, spc, msg, answer, rpc, held, got>>

-----------------------------------------------------------------------------
(* The receiver: recv and peek *)

RecvBegin(next) ==
    /\ rpc = "idle"
    /\ \/ is_empty /\ got' = NoMsg /\ UNCHANGED rpc
       \/ ~is_empty /\ rpc' = next /\ UNCHANGED got
    /\ UNCHANGED <<queue, ci, pi, spc, msg, answer, budget, held>>

RecvRead ==
    /\ rpc = "read" /\ rpc' = "advance"
    /\ held' = queue[ci]
    /\ UNCHANGED <<queue, ci, pi, spc, msg, answer, budget, got>>

RecvAdvance ==
    /\ rpc = "advance" /\ rpc' = "idle"
    /\ ci' = next_index(ci) /\ got' = held
    /\ UNCHANGED <<queue, pi, spc, msg, answer, budget, held>>

Peek ==
    /\ rpc = "peek" /\ rpc' = "idle"
    /\ got' = queue[ci]
    /\ UNCHANGED <<queue, ci, pi, spc, msg, answer, budget, held>>

-----------------------------------------------------------------------------
Next ==
    \/ \E m \in Msgs : SendBegin(m)
    \/ SendWrite \/ SendPublish \/ Count
    \/ \E next \in {"read", "peek"} : RecvBegin(next)
    \/ RecvRead \/ RecvAdvance \/ Peek

Spec == Init /\ [][Next]_vars

-----------------------------------------------------------------------------
(* The messages from ci up to, but not including, pi *)
Used == IF pi >= ci THEN pi - ci ELSE N - ci + pi
Nth(k) == IF ci + k <= N THEN ci + k - 1 ELSE ci + k - 1 - N
Contents == [k \in 1..Used |-> queue[Nth(k)]]

(* Both indices stay inside the ring, a message is held where a call needs  *)
(* one, and every other variable has its type.                              *)
TypeOK ==
    /\ queue \in [0..(N-1) -> Msgs \cup {NoMsg}]
    /\ ci \in 0..(N-1) /\ pi \in 0..(N-1)
    /\ spc \in {"idle", "write", "publish"} /\ msg \in Msgs \cup {NoMsg}
    /\ answer \in {"none", "Ok", "PipeFull"} /\ budget \in 0..(N-1)
    /\ rpc \in {"idle", "read", "advance", "peek"}
    /\ held \in Msgs \cup {NoMsg} /\ got \in Msgs \cup {NoMsg}

(* What send found at its first access (not full) and recv at its (not      *)
(* empty) still holds at their later ones, though the other core has moved  *)
(* its index since: the slot being written is never the slot being read.    *)
NoRace ==
    /\ spc # "idle" => ~is_full
    /\ rpc # "idle" => ~is_empty

(* What empty_slot_count told the sender stays true while the receiver goes *)
(* on: so many sends succeed, and fill_aes_gcm_iv_queue never breaks off.   *)
RoomHolds == budget <= N - 1 - Used

(* Seen from its two ends the ring is a first-in first-out queue of N - 1   *)
(* messages: nothing is lost, duplicated, overtaken or read half-written,   *)
(* and PipeFull and None are said of a full and an empty pipe only.         *)
Abstract == INSTANCE Fifo WITH Cap <- N - 1, contents <- Contents
Refines == Abstract!Spec
=============================================================================
