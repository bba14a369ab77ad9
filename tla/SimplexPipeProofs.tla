------------------------- MODULE SimplexPipeProofs -------------------------
(***************************************************************************)
(* Proofs about SimplexPipe, for every ring of two or more slots and every *)
(* set of messages: the two cores do not disturb one another, and the ring *)
(* implements Fifo.                                                        *)
(***************************************************************************)
EXTENDS SimplexPipe, SequenceTheorems, TLAPS

(* A call has what it will publish or return *)
SenderReady ==
    /\ spc # "idle" => msg \in Msgs
    /\ spc = "publish" => queue[pi] = msg
ReceiverReady == rpc = "advance" => held = queue[ci]

IInv == TypeOK /\ NoRace /\ RoomHolds /\ SenderReady /\ ReceiverReady

USE SizeAssumption, MsgAssumption

(* The indices and the fill level are integers in range *)
LEMMA UsedRange ==
    ASSUME TypeOK
    PROVE  /\ Used \in 0..(N-1)
           /\ Used = 0 <=> is_empty
           /\ Used = N - 1 <=> is_full
           /\ empty_slot_count = N - 1 - Used
           /\ \A k \in 1..Used : Nth(k) \in 0..(N-1) /\ Nth(k) # pi
           /\ \A k \in 0..(N-1) : next_index(k) \in 0..(N-1)
  BY DEF TypeOK, Used, is_empty, is_full, next_index, empty_slot_count, Nth

(* The producer index moves *)
LEMMA Publishes ==
    ASSUME TypeOK, ~is_full, pi' = next_index(pi), ci' = ci
    PROVE  /\ Used' = Used + 1 /\ Nth(Used + 1) = pi /\ ~is_empty'
           /\ \A k \in 1..N : Nth(k)' = Nth(k)
  BY DEF TypeOK, Used, is_empty, is_full, next_index, Nth

(* The consumer index moves *)
LEMMA Advances ==
    ASSUME TypeOK, ~is_empty, ci' = next_index(ci), pi' = pi
    PROVE  /\ Used' = Used - 1 /\ Nth(1) = ci /\ ~is_full'
           /\ \A k \in 1..(Used - 1) : Nth(k)' = Nth(k + 1)
  BY DEF TypeOK, Used, is_empty, is_full, next_index, Nth

(* What Append and Tail are, element by element *)
LEMMA Appended ==
    ASSUME NEW S, NEW s \in Seq(S), NEW e \in S
    PROVE  Append(s, e) = [k \in 1..(Len(s) + 1) |-> IF k = Len(s) + 1 THEN e ELSE s[k]]
  <1>1. Append(s, e) \in [1..(Len(s) + 1) -> S]
    BY AppendProperties, LenProperties
  <1>2. \A k \in 1..(Len(s) + 1) : Append(s, e)[k] = IF k = Len(s) + 1 THEN e ELSE s[k]
    BY AppendProperties, LenProperties
  <1> QED BY <1>1, <1>2

LEMMA Dropped ==
    ASSUME NEW S, NEW s \in Seq(S), s # <<>>
    PROVE  Tail(s) = [k \in 1..(Len(s) - 1) |-> s[k + 1]]
  <1>1. Tail(s) \in [1..(Len(s) - 1) -> S]
    BY HeadTailProperties, LenProperties
  <1>2. \A k \in 1..(Len(s) - 1) : Tail(s)[k] = s[k + 1]
    BY HeadTailProperties
  <1> QED BY <1>1, <1>2

(* Every step keeps the invariant *)
LEMMA InvStep ==
    ASSUME IInv, [Next]_vars
    PROVE  IInv'
  <1> USE DEF IInv
  <1> DEFINE Rest == UNCHANGED <<queue, ci, pi>> => Used' = Used /\ (is_full' <=> is_full)
                                                    /\ (is_empty' <=> is_empty)
  <1>0. Rest
    BY DEF Used, is_full, is_empty, next_index
  <1>1. CASE UNCHANGED vars
    BY <1>1, <1>0 DEF vars, TypeOK, NoRace, RoomHolds, SenderReady, ReceiverReady
  <1>2. ASSUME NEW m \in Msgs, SendBegin(m) PROVE IInv'
    BY <1>2, <1>0 DEF SendBegin, TypeOK, NoRace, RoomHolds, SenderReady, ReceiverReady
  <1>3. CASE SendWrite
    <2>1. TypeOK'
      BY <1>3 DEF SendWrite, TypeOK
    <2>2. NoRace' /\ RoomHolds'
      BY <1>3 DEF SendWrite, NoRace, RoomHolds, Used, is_full, is_empty, next_index
    <2>3. SenderReady'
      BY <1>3 DEF SendWrite, SenderReady, TypeOK
    <2>4. ReceiverReady'
      BY <1>3 DEF SendWrite, ReceiverReady, NoRace, is_empty, TypeOK
    <2> QED BY <2>1, <2>2, <2>3, <2>4
  <1>4. CASE SendPublish
    <2>1. /\ ~is_full /\ pi' = next_index(pi) /\ ci' = ci
          /\ Used' = Used + 1 /\ ~is_empty' /\ Used \in 0..(N-1) /\ Used # N - 1
          /\ pi' \in 0..(N-1)
      BY <1>4, Publishes, UsedRange DEF SendPublish, NoRace, TypeOK
    <2>2. TypeOK'
      BY <1>4, <2>1 DEF SendPublish, TypeOK
    <2>3. NoRace'
      BY <1>4, <2>1 DEF SendPublish, NoRace
    <2>4. RoomHolds'
      BY <1>4, <2>1 DEF SendPublish, RoomHolds, TypeOK
    <2>5. SenderReady' /\ ReceiverReady'
      BY <1>4 DEF SendPublish, SenderReady, ReceiverReady
    <2> QED BY <2>2, <2>3, <2>4, <2>5
  <1>5. CASE Count
    <2>1. budget' = N - 1 - Used /\ Used \in 0..(N-1)
      BY <1>5, UsedRange DEF Count
    <2> QED BY <1>5, <1>0, <2>1 DEF Count, TypeOK, NoRace, RoomHolds, SenderReady, ReceiverReady
  <1>6. ASSUME NEW next \in {"read", "peek"}, RecvBegin(next) PROVE IInv'
    BY <1>6, <1>0 DEF RecvBegin, TypeOK, NoRace, RoomHolds, SenderReady, ReceiverReady
  <1>7. CASE RecvRead
    BY <1>7, <1>0 DEF RecvRead, TypeOK, NoRace, RoomHolds, SenderReady, ReceiverReady
  <1>8. CASE RecvAdvance
    <2>1. /\ ~is_empty /\ ci' = next_index(ci) /\ pi' = pi
          /\ Used' = Used - 1 /\ ~is_full' /\ Used \in 0..(N-1) /\ ci' \in 0..(N-1)
      BY <1>8, Advances, UsedRange DEF RecvAdvance, NoRace, TypeOK
    <2>2. TypeOK'
      BY <1>8, <2>1 DEF RecvAdvance, TypeOK
    <2>3. NoRace'
      BY <1>8, <2>1 DEF RecvAdvance, NoRace
    <2>4. RoomHolds'
      BY <1>8, <2>1 DEF RecvAdvance, RoomHolds, TypeOK
    <2>5. SenderReady' /\ ReceiverReady'
      BY <1>8 DEF RecvAdvance, SenderReady, ReceiverReady
    <2> QED BY <2>2, <2>3, <2>4, <2>5
  <1>9. CASE Peek
    BY <1>9, <1>0 DEF Peek, TypeOK, NoRace, RoomHolds, SenderReady, ReceiverReady
  <1> QED BY <1>1, <1>2, <1>3, <1>4, <1>5, <1>6, <1>7, <1>8, <1>9 DEF Next

LEMMA Invariance == Spec => []IInv
  <1>1. Init => IInv
    BY DEF Init, IInv, TypeOK, NoRace, RoomHolds, SenderReady, ReceiverReady, Used
  <1> QED BY <1>1, InvStep, PTL DEF Spec

(* Both indices stay in the ring, whatever the two cores interleave. *)
THEOREM PipeTypes == Spec => []TypeOK
  <1>1. IInv => TypeOK
    BY DEF IInv
  <1> QED BY <1>1, Invariance, PTL

(* send never writes the slot recv or peek reads, in any ring. *)
THEOREM NeverRaces == Spec => []NoRace
  <1>1. IInv => NoRace
    BY DEF IInv
  <1> QED BY <1>1, Invariance, PTL

(* The sends empty_slot_count promises all succeed. *)
THEOREM RoomKept == Spec => []RoomHolds
  <1>1. IInv => RoomHolds
    BY DEF IInv
  <1> QED BY <1>1, Invariance, PTL

-----------------------------------------------------------------------------
(* Contents is a sequence of Used messages *)
LEMMA ContentsSeq ==
    ASSUME TypeOK
    PROVE  /\ Contents \in Seq(Msgs \cup {NoMsg}) /\ Len(Contents) = Used
           /\ Used \in 0..(N-1)
           /\ \A k \in 1..Used : Contents[k] = queue[Nth(k)]
  <1>1. Used \in 0..(N-1) /\ \A k \in 1..Used : queue[Nth(k)] \in Msgs \cup {NoMsg}
    BY UsedRange DEF TypeOK
  <1> HIDE DEF Used, Nth
  <1> QED BY <1>1 DEF Contents

(* Steps that leave the ring alone leave the contents alone *)
LEMMA SameContents ==
    ASSUME UNCHANGED <<queue, ci, pi>>
    PROVE  Contents' = Contents
  BY DEF Contents, Used, Nth

(* Every step of the two cores is a step of the queue, or none *)
LEMMA FifoStep ==
    ASSUME IInv, IInv', [Next]_vars
    PROVE  [Abstract!Next]_(Abstract!vars)
  <1> USE DEF IInv
  <1>0. /\ Contents \in Seq(Msgs \cup {NoMsg}) /\ Len(Contents) = Used /\ Used \in 0..(N-1)
        /\ \A k \in 1..Used : Contents[k] = queue[Nth(k)]
    BY ContentsSeq
  <1>1. CASE UNCHANGED vars
    BY <1>1, SameContents DEF vars, Abstract!vars
  <1>2. ASSUME NEW m \in Msgs, SendBegin(m) PROVE [Abstract!Next]_(Abstract!vars)
    <2>1. Contents' = Contents
      BY <1>2, SameContents DEF SendBegin
    <2>2. CASE is_full /\ answer' = "PipeFull"
      <3>1. Len(Contents) = N - 1
        BY <1>0, <2>2, UsedRange
      <3> QED BY <1>2, <2>1, <2>2, <3>1 DEF SendBegin, Abstract!Next, Abstract!Refuse
    <2>3. CASE answer' = answer
      BY <1>2, <2>1, <2>3 DEF SendBegin, Abstract!vars
    <2> QED BY <1>2, <2>2, <2>3 DEF SendBegin
  <1>3. CASE SendWrite
    <2>1. Used' = Used /\ \A k \in 1..Used : Nth(k)' = Nth(k)
      BY <1>3 DEF SendWrite, Used, Nth
    <2>2. \A k \in 1..Used : queue'[Nth(k)] = queue[Nth(k)]
      BY <1>3, UsedRange DEF SendWrite, TypeOK
    <2>3. Contents' = Contents
      BY <2>1, <2>2 DEF Contents
    <2> QED BY <1>3, <2>3 DEF SendWrite, Abstract!vars
  <1>4. CASE SendPublish
    <2>1. ~is_full /\ queue' = queue /\ msg \in Msgs /\ queue[pi] = msg
      BY <1>4 DEF SendPublish, NoRace, SenderReady
    <2>2. /\ Used' = Used + 1 /\ Nth(Used + 1) = pi /\ Used # N - 1
          /\ \A k \in 1..N : Nth(k)' = Nth(k)
      BY <1>4, <2>1, Publishes, UsedRange DEF SendPublish
    <2>3. \A k \in 1..(Used + 1) : k \in 1..N /\ (k \in 1..Used \/ k = Used + 1)
      BY <1>0
    <2>4. Contents' = [k \in 1..(Used + 1) |-> queue[Nth(k)]]
      BY <2>1, <2>2, <2>3 DEF Contents
    <2>5. Append(Contents, msg) = [k \in 1..(Used + 1) |-> IF k = Used + 1 THEN msg ELSE Contents[k]]
      BY <1>0, <2>1, Appended
    <2>6. \A k \in 1..(Used + 1) : queue[Nth(k)] = IF k = Used + 1 THEN msg ELSE Contents[k]
      BY <1>0, <2>1, <2>2, <2>3
    <2>7. Contents' = Append(Contents, msg)
      BY <2>4, <2>5, <2>6
    <2>8. Len(Contents) < N - 1
      BY <1>0, <2>2
    <2> QED BY <1>4, <2>1, <2>7, <2>8 DEF SendPublish, Abstract!Next, Abstract!Put
  <1>5. CASE Count
    BY <1>5, SameContents DEF Count, Abstract!vars
  <1>6. ASSUME NEW next \in {"read", "peek"}, RecvBegin(next)
        PROVE  [Abstract!Next]_(Abstract!vars)
    <2>1. Contents' = Contents
      BY <1>6, SameContents DEF RecvBegin
    <2>2. CASE is_empty /\ got' = NoMsg
      <3>1. Contents = <<>>
        BY <1>0, <2>2, UsedRange
      <3> QED BY <1>6, <2>1, <2>2, <3>1 DEF RecvBegin, Abstract!Next, Abstract!Miss
    <2>3. CASE got' = got
      BY <1>6, <2>1, <2>3 DEF RecvBegin, Abstract!vars
    <2> QED BY <1>6, <2>2, <2>3 DEF RecvBegin
  <1>7. CASE RecvRead
    BY <1>7, SameContents DEF RecvRead, Abstract!vars
  <1>8. CASE RecvAdvance
    <2>1. ~is_empty /\ queue' = queue /\ held = queue[ci] /\ got' = held
      BY <1>8 DEF RecvAdvance, NoRace, ReceiverReady
    <2>2. /\ Used' = Used - 1 /\ Nth(1) = ci /\ Used # 0
          /\ \A k \in 1..(Used - 1) : Nth(k)' = Nth(k + 1)
      BY <1>8, <2>1, Advances, UsedRange DEF RecvAdvance
    <2>3. Contents # <<>> /\ Head(Contents) = held
      BY <1>0, <2>1, <2>2
    <2>4. Contents' = [k \in 1..(Used - 1) |-> queue[Nth(k + 1)]]
      BY <2>1, <2>2 DEF Contents
    <2>5. Tail(Contents) = [k \in 1..(Used - 1) |-> Contents[k + 1]]
      BY <1>0, <2>3, Dropped
    <2>6. \A k \in 1..(Used - 1) : queue[Nth(k + 1)] = Contents[k + 1]
      BY <1>0
    <2>7. Contents' = Tail(Contents)
      BY <2>4, <2>5, <2>6
    <2> QED BY <1>8, <2>1, <2>3, <2>7 DEF RecvAdvance, Abstract!Next, Abstract!Take
  <1>9. CASE Peek
    <2>1. ~is_empty
      BY <1>9 DEF Peek, NoRace
    <2>2. Used # 0 /\ Nth(1) = ci
      BY <2>1, UsedRange DEF Nth, TypeOK
    <2>3. Contents # <<>> /\ Head(Contents) = queue[ci]
      BY <1>0, <2>2
    <2>4. Contents' = Contents
      BY <1>9, SameContents DEF Peek
    <2> QED BY <1>9, <2>3, <2>4 DEF Peek, Abstract!Next, Abstract!Look
  <1> QED BY <1>1, <1>2, <1>3, <1>4, <1>5, <1>6, <1>7, <1>8, <1>9 DEF Next

(* The ring in shared memory implements the queue its trait describes: for  *)
(* every size, whatever the two cores interleave inside send, recv and peek.*)
THEOREM ImplementsFifo == Spec => Refines
  <1>1. Init => Abstract!Init
    BY DEF Init, Abstract!Init, Contents, Used
  <1> QED BY <1>1, FifoStep, Invariance, PTL DEF Spec, Refines, Abstract!Spec
=============================================================================
