------------------------- MODULE CmdSchedulerProofs -------------------------
(***************************************************************************)
(* Proofs about CmdScheduler for every number of slots, engines, channels, *)
(* commands and stages, with and without timeouts and wipe failures.       *)
(***************************************************************************)
EXTENDS CmdScheduler, SequenceTheorems, FiniteSetTheorems, TLAPS

(* The part of the type invariant that the reactions of an FSM can disturb *)
FsmTypes ==
    /\ slot \in [Tags -> Slot]
    /\ free_tags \in Seq(Tags)
    /\ occupancy \in SUBSET Tags
    /\ fn_drain \in BOOLEAN
    /\ ready_queue \in Seq(Tags \X ResIds)
    /\ cleanup_queue \in SUBSET Engines
    /\ free \in SUBSET Units
    /\ waiters \in [ResIds -> Seq(Tags)]
    /\ unit_tag \in [Units -> Tags \cup {NoTag}]

(* The rest of it: what the event loop itself keeps *)
LoopTypes ==
    /\ access \in SUBSET Tags
    /\ unread \in SUBSET IpcIds
    /\ pka_state \in SUBSET Engines
    /\ pc \in {"idle", "post", "cleanup", "ready", "tick", "panic"}
    /\ work \in Work
    /\ arrivals \in 0 .. MaxArrivals

(* The type invariant is the conjunction of its two parts. *)
LEMMA TypeParts == TypeOK <=> FsmTypes /\ LoopTypes
BY DEF TypeOK, FsmTypes, LoopTypes

(* CleanupTag is a tag, and NoTag is none. *)
LEMMA TagFacts == CleanupTag \in Tags /\ NoTag \notin Tags
BY SlotsAssumption DEF CleanupTag, NoTag, Tags

(* Append keeps the type of a sequence. *)
LEMMA AppendType ==
    ASSUME NEW S, NEW q \in Seq(S), NEW x \in S
    PROVE  Append(q, x) \in Seq(S)
OBVIOUS

(* Popping the stack of free tags leaves the entries below the top. *)
LEMMA PopFacts ==
    ASSUME NEW S, NEW q \in Seq(S), Len(q) \in Nat \ {0}
    PROVE  /\ Len(SubSeq(q, 1, Len(q) - 1)) = Len(q) - 1
           /\ \A i \in 1 .. Len(q) - 1 : SubSeq(q, 1, Len(q) - 1)[i] = q[i]
<1>. DEFINE n == Len(q) - 1
<1>1. n \in 0 .. Len(q)
  OBVIOUS
<1>2. \A i \in 1 .. n : i \in 1 .. Len(q)
  OBVIOUS
<1>. HIDE DEF n
<1>3. /\ Len(SubSeq(q, 1, n)) = IF 1 <= n THEN n - 1 + 1 ELSE 0
      /\ \A i \in 1 .. n - 1 + 1 : SubSeq(q, 1, n)[i] = q[1 + i - 1]
  BY <1>1, <1>2, SubSeqProperties
<1>4. Len(SubSeq(q, 1, n)) = n
  BY <1>1, <1>3
<1>5. \A i \in 1 .. n : SubSeq(q, 1, n)[i] = q[i]
  BY <1>1, <1>3
<1>. QED
  BY <1>4, <1>5 DEF n

(* Waking the next waiter of a resource keeps the two queues well-typed. *)
LEMMA WakeNextTypes ==
    ASSUME FsmTypes, NEW r \in ResIds, WakeNext(r)
    PROVE  /\ waiters' \in [ResIds -> Seq(Tags)]
           /\ ready_queue' \in Seq(Tags \X ResIds)
<1>1. CASE waiters[r] = <<>>
  BY <1>1 DEF WakeNext, FsmTypes
<1>2. CASE waiters[r] # <<>>
  <2>1. waiters[r] \in Seq(Tags)
    BY DEF FsmTypes
  <2>2. Head(waiters[r]) \in Tags /\ Tail(waiters[r]) \in Seq(Tags)
    BY <1>2, <2>1
  <2>3. <<Head(waiters[r]), r>> \in Tags \X ResIds
    BY <2>2
  <2>4. /\ waiters' = [waiters EXCEPT ![r] = Tail(waiters[r])]
        /\ ready_queue' = Append(ready_queue, <<Head(waiters[r]), r>>)
    BY <1>2 DEF WakeNext
  <2>5. waiters' \in [ResIds -> Seq(Tags)]
    BY <2>2, <2>4 DEF FsmTypes
  <2>6. ready_queue' \in Seq(Tags \X ResIds)
    BY <2>3, <2>4, AppendType DEF FsmTypes
  <2>. QED
    BY <2>5, <2>6
<1>. QED
  BY <1>1, <1>2

(* Dropping resource refs keeps the queues and the free units well-typed. *)
LEMMA ReleaseTypes ==
    ASSUME FsmTypes, NEW owned \in SUBSET Units, Release(owned)
    PROVE  /\ cleanup_queue' \in SUBSET Engines
           /\ free' \in SUBSET Units
           /\ waiters' \in [ResIds -> Seq(Tags)]
           /\ ready_queue' \in Seq(Tags \X ResIds)
<1>1. cleanup_queue' \in SUBSET Engines /\ free' \in SUBSET Units
  BY DEF Release, FsmTypes, Units
<1>2. CASE owned \cap IpcIds = {} /\ UNCHANGED <<waiters, ready_queue>>
  BY <1>1, <1>2 DEF FsmTypes
<1>3. CASE \E c \in owned \cap IpcIds : WakeNext(c)
  <2>1. PICK c \in owned \cap IpcIds : WakeNext(c)
    BY <1>3
  <2>2. c \in ResIds
    BY DEF ResIds
  <2>. QED
    BY <1>1, <2>1, <2>2, WakeNextTypes
<1>. QED
  BY <1>2, <1>3 DEF Release

(* Retiring a slot: the drop, the free tag, the occupancy bit, the drain. *)
LEMMA RetireTypes ==
    ASSUME FsmTypes, NEW t \in Tags, Retire(t)
    PROVE  FsmTypes'
<1>1. slot[t].own \in SUBSET Units /\ Empty \in Slot
  BY BoundsAssumption DEF FsmTypes, Slot, Empty, SlotStates, NoRes
<1>2. Release(slot[t].own)
  BY DEF Retire, Vacate
<1>3. /\ slot' \in [Tags -> Slot] /\ free_tags' \in Seq(Tags)
      /\ occupancy' \in SUBSET Tags /\ unit_tag' \in [Units -> Tags \cup {NoTag}]
  BY <1>1 DEF Retire, Vacate, FsmTypes
<1>4. fn_drain' \in BOOLEAN
  BY DEF Retire, Vacate
<1>. QED
  BY <1>1, <1>2, <1>3, <1>4, ReleaseTypes DEF FsmTypes

(* A slot whose command answers is still a slot, whatever refs it drops. *)
LEMMA OutTypes ==
    ASSUME FsmTypes, NEW t \in Tags, NEW own \in SUBSET Units,
           slot' = [slot EXCEPT ![t] = [slot[t] EXCEPT !.st = "Out", !.own = own]]
    PROVE  slot' \in [Tags -> Slot]
<1>1. slot[t] \in Slot
  BY DEF FsmTypes
<1>2. [slot[t] EXCEPT !.st = "Out", !.own = own] \in Slot
  BY <1>1 DEF Slot, SlotStates
<1>. QED
  BY <1>2 DEF FsmTypes

LEMMA OutKeeps ==
    ASSUME FsmTypes, NEW t \in Tags, slot' = [slot EXCEPT ![t].st = "Out"]
    PROVE  slot' \in [Tags -> Slot]
<1>1. slot[t] \in Slot
  BY DEF FsmTypes
<1>2. [slot[t] EXCEPT !.st = "Out"] \in Slot
  BY <1>1 DEF Slot, SlotStates
<1>3. slot' = [slot EXCEPT ![t] = [slot[t] EXCEPT !.st = "Out"]]
  BY DEF FsmTypes
<1>. QED
  BY <1>2, <1>3 DEF FsmTypes

(* An FSM that ignores an event, or answers it with an error. *)
LEMMA QuietTypes ==
    ASSUME FsmTypes, NEW t \in Tags, Stay \/ ToOut(t) \/ Unexpected(t)
    PROVE  FsmTypes'
<1>1. CASE Stay
  BY <1>1 DEF Stay, FsmTypes, schedVars, queueVars, unitVars
<1>2. CASE ToOut(t)
  <2>1. slot' \in [Tags -> Slot]
    BY <1>2, OutKeeps DEF ToOut
  <2>. QED
    BY <1>2, <2>1 DEF ToOut, FsmTypes, schedVars, queueVars, unitVars
<1>. QED
  BY <1>1, <1>2 DEF Unexpected

(* Starting an operation, or standing in line for its resource. *)
LEMMA BeginTypes ==
    ASSUME FsmTypes, NEW t \in Tags, NEW r \in ResIds, NEW end \in SUBSET Units,
           slot[t].st = "Wait" \/ slot[t].left > 0,
           Begin(t, r, end)
    PROVE  FsmTypes'
<1>1. Left(t) \in 0 .. MaxStages
  BY BoundsAssumption DEF Left, FsmTypes, Slot
<1>2. ASSUME NEW st \in SlotStates, NEW own \in SUBSET Units
      PROVE  Moved(t, st, r, own) \in [Tags -> Slot]
  BY <1>1 DEF Moved, FsmTypes, Slot
<1>3. Ended(end) \in [Units -> Tags \cup {NoTag}]
  BY DEF Ended, FsmTypes
<1>4. slot[t].own \in SUBSET Units
  BY DEF FsmTypes, Slot
<1>5. UNCHANGED schedVars
  BY DEF Begin
<1>6. ASSUME NEW u \in free \cap UnitsOf(r), Start(t, r, u, end)
      PROVE  FsmTypes'
  <2>1. u \in Units
    BY <1>6 DEF FsmTypes
  <2>2. slot' \in [Tags -> Slot]
    BY <1>2, <1>4, <1>6, <2>1 DEF Start, SlotStates
  <2>. QED
    BY <1>3, <1>5, <1>6, <2>1, <2>2 DEF Start, FsmTypes, schedVars
<1>7. ASSUME NEW u \in free \cap UnitsOf(r), StartFails(t, r, u, end)
      PROVE  FsmTypes'
  <2>1. u \in Units
    BY <1>7 DEF FsmTypes
  <2>2. slot' \in [Tags -> Slot]
    BY <1>2, <1>4, <1>7, <2>1 DEF StartFails, SlotStates
  <2>3. waiters' \in [ResIds -> Seq(Tags)] /\ ready_queue' \in Seq(Tags \X ResIds)
    BY <1>7, WakeNextTypes DEF StartFails, FsmTypes
  <2>. QED
    BY <1>3, <1>5, <1>7, <2>1, <2>2, <2>3 DEF StartFails, FsmTypes, schedVars
<1>8. CASE Enqueue(t, r, end)
  <2>1. slot' \in [Tags -> Slot]
    BY <1>2, <1>4, <1>8 DEF Enqueue, SlotStates
  <2>2. waiters' \in [ResIds -> Seq(Tags)]
    BY <1>8 DEF Enqueue, FsmTypes
  <2>. QED
    BY <1>3, <1>5, <1>8, <2>1, <2>2 DEF Enqueue, FsmTypes, schedVars
<1>. QED
  BY <1>6, <1>7, <1>8 DEF Begin

(* The other stages, and the end, of the command that holds the unit u. *)
LEMMA AnswerTypes ==
    ASSUME FsmTypes, NEW t \in Tags, NEW u \in Units,
           slot[t].st \in {"In", "Run", "Out", "Undo"},
           \/ Finish(t, u) \/ FinishHolding(t, u) \/ Continue(t)
           \/ NextStage(t, {u}) \/ NextStage(t, {})
           \/ Rollback(t, u, "Run") \/ Rollback(t, u, "Undo")
    PROVE  FsmTypes'
<1>1. CASE Finish(t, u)
  <2>0. slot[t].own \ {u} \in SUBSET Units
    BY DEF FsmTypes, Slot
  <2>1. slot' \in [Tags -> Slot]
    <3>1. slot' = [slot EXCEPT ![t] = [slot[t] EXCEPT !.st = "Out", !.own = slot[t].own \ {u}]]
      BY <1>1 DEF Finish, FsmTypes
    <3>. QED
      BY <2>0, <3>1, OutTypes
  <2>2. unit_tag' \in [Units -> Tags \cup {NoTag}]
    BY <1>1 DEF Finish, Ended, FsmTypes
  <2>3. Release({u}) /\ UNCHANGED schedVars
    BY <1>1 DEF Finish
  <2>. QED
    BY <2>1, <2>2, <2>3, ReleaseTypes DEF FsmTypes, schedVars
<1>2. CASE FinishHolding(t, u)
  <2>1. slot' \in [Tags -> Slot]
    BY <1>2, OutKeeps DEF FinishHolding
  <2>2. unit_tag' \in [Units -> Tags \cup {NoTag}]
    BY <1>2 DEF FinishHolding, Ended, FsmTypes
  <2>. QED
    BY <1>2, <2>1, <2>2 DEF FinishHolding, FsmTypes, schedVars, queueVars
<1>3. CASE Continue(t)
  <2>1. slot[t].left - 1 \in 0 .. MaxStages
    BY <1>3, BoundsAssumption DEF Continue, FsmTypes, Slot
  <2>2. slot' \in [Tags -> Slot]
    BY <1>3, <2>1 DEF Continue, FsmTypes, Slot
  <2>. QED
    BY <1>3, <2>2 DEF Continue, FsmTypes, schedVars, queueVars, unitVars
<1>4. CASE NextStage(t, {u})
  BY <1>4, BeginTypes DEF NextStage
<1>5. CASE NextStage(t, {})
  BY <1>5, BeginTypes DEF NextStage
<1>6. ASSUME NEW st \in {"Run", "Undo"}, Rollback(t, u, st)
      PROVE  FsmTypes'
  <2>0. slot[t] \in Slot /\ 0 \in 0 .. MaxStages /\ st \in SlotStates
    BY BoundsAssumption DEF FsmTypes, SlotStates
  <2>1. slot' \in [Tags -> Slot]
    <3>1. [slot[t] EXCEPT !.st = st, !.left = 0] \in Slot
      BY <2>0 DEF Slot
    <3>2. slot' = [slot EXCEPT ![t] = [slot[t] EXCEPT !.st = st, !.left = 0]]
      BY <1>6 DEF Rollback, FsmTypes
    <3>. QED
      BY <3>1, <3>2 DEF FsmTypes
  <2>2. unit_tag' \in [Units -> Tags \cup {NoTag}]
    BY <1>6 DEF Rollback, FsmTypes
  <2>. QED
    BY <1>6, <2>1, <2>2 DEF Rollback, FsmTypes, schedVars, queueVars
<1>. QED
  BY <1>1, <1>2, <1>3, <1>4, <1>5, <1>6

(* Delivering an event of the main loop to tag t. *)
LEMMA DeliverTypes ==
    ASSUME LoopTypes, NEW t \in Tags, Deliver(t)
    PROVE  /\ access' \in SUBSET Tags
           /\ pc' \in {"idle", "post", "cleanup", "ready", "tick", "panic"}
           /\ work' \in Work
BY DEF Deliver, Touch, LoopTypes

(* The initial state is well-typed. *)
LEMMA InitTypes == Init => TypeOK
<1>. SUFFICES ASSUME Init PROVE TypeOK
  OBVIOUS
<1>1. slot \in [Tags -> Slot]
  BY BoundsAssumption DEF Init, Slot, SlotStates, Empty, NoRes
<1>2. free_tags \in Seq(Tags)
  <2>1. NumSlots - 1 \in Nat /\ free_tags \in [1 .. NumSlots - 1 -> Tags]
    BY SlotsAssumption DEF Init, Tags
  <2>. QED
    BY <2>1
<1>3. work \in Work
  BY DEF Init, NoWork, Work
<1>4. waiters \in [ResIds -> Seq(Tags)]
  BY DEF Init
<1>5. ready_queue \in Seq(Tags \X ResIds)
  BY DEF Init
<1>6. unit_tag \in [Units -> Tags \cup {NoTag}] /\ arrivals \in 0 .. MaxArrivals
  BY BoundsAssumption DEF Init
<1>. QED
  BY <1>1, <1>2, <1>3, <1>4, <1>5, <1>6 DEF Init, TypeOK

(* Every step keeps the state well-typed. *)
LEMMA NextTypes == TypeOK /\ [Next]_vars => TypeOK'
<1>. SUFFICES ASSUME FsmTypes, LoopTypes, [Next]_vars
              PROVE  FsmTypes' /\ LoopTypes'
  BY TypeParts DEF TypeParts, TypeOK, FsmTypes, LoopTypes
<1>1. CASE CleanupPass
  <2>1. work' \in Work
    BY <1>1 DEF CleanupPass, LoopTypes, FsmTypes, Work
  <2>. QED
    BY <1>1, <2>1 DEF CleanupPass, FsmTypes, LoopTypes, schedVars, unitVars
<1>2. CASE ReadyPass
  <2>1. work' \in Work
    BY <1>2 DEF ReadyPass, LoopTypes, FsmTypes, Work
  <2>2. ready_queue' \in Seq(Tags \X ResIds)
    BY <1>2 DEF ReadyPass
  <2>. QED
    BY <1>2, <2>1, <2>2 DEF ReadyPass, FsmTypes, LoopTypes, schedVars, unitVars
<1>3. CASE OnReady
  <2>. DEFINE t == Head(work.ready)[1]
              r == Head(work.ready)[2]
  <2>1. work.ready \in Seq(Tags \X ResIds) /\ work.ready # <<>>
    BY <1>3 DEF OnReady, LoopTypes, Work
  <2>2. Head(work.ready) \in Tags \X ResIds /\ Tail(work.ready) \in Seq(Tags \X ResIds)
    BY <2>1
  <2>3. t \in Tags /\ r \in ResIds
    BY <2>2
  <2>4. /\ Touch(t)
        /\ \/ Stay /\ pc' = "panic"
           \/ /\ UNCHANGED pc
              /\ \/ slot[t].st = "Wait" /\ Begin(t, r, {})
                 \/ Unexpected(t)
        /\ work' = [work EXCEPT !.ready = Tail(@)]
        /\ UNCHANGED <<unread, pka_state, arrivals>>
    BY <1>3 DEF OnReady, Resume, Unexpected
  <2>5. FsmTypes'
    BY <2>3, <2>4, BeginTypes, QuietTypes
  <2>6. work' \in Work
    BY <2>2, <2>4 DEF LoopTypes, Work
  <2>. HIDE DEF t, r
  <2>. QED
    BY <2>3, <2>4, <2>5, <2>6 DEF Touch, LoopTypes
<1>4. CASE Return
  BY <1>4 DEF Return, FsmTypes, LoopTypes, schedVars, queueVars, unitVars
<1>5. ASSUME NEW e \in Engines, OnCleanup(e)
      PROVE  FsmTypes' /\ LoopTypes'
  <2>1. work' \in Work
    BY <1>5 DEF OnCleanup, LoopTypes, Work
  <2>2. CASE WipeBegin(e)
    <3>1. unit_tag' \in [Units -> Tags \cup {NoTag}] /\ pka_state' \in SUBSET Engines
      BY <2>2, TagFacts DEF WipeBegin, FsmTypes, LoopTypes, Units
    <3>. QED
      BY <1>5, <2>1, <2>2, <3>1, TagFacts
      DEF WipeBegin, OnCleanup, Touch, FsmTypes, LoopTypes, schedVars, queueVars
  <2>3. CASE WipeFails(e)
    BY <1>5, <2>1, <2>3, TagFacts, RetireTypes
    DEF WipeFails, OnCleanup, Touch, LoopTypes
  <2>4. CASE CleanupMisdelivered
    BY <1>5, <2>1, <2>4, TagFacts, QuietTypes
    DEF CleanupMisdelivered, OnCleanup, Touch, LoopTypes
  <2>. QED
    BY <1>5, <2>2, <2>3, <2>4 DEF OnCleanup
<1>6. CASE OnTick
  <2>1. PICK t \in work.tick : /\ CheckAlive(t) /\ Touch(t)
                               /\ work' = [work EXCEPT !.tick = @ \ {t}]
    BY <1>6 DEF OnTick
  <2>2. t \in Tags
    BY <2>1 DEF LoopTypes, Work
  <2>3. FsmTypes'
    BY <2>1, <2>2, RetireTypes, QuietTypes DEF CheckAlive
  <2>4. work' \in Work
    BY <2>1 DEF LoopTypes, Work
  <2>. QED
    BY <1>6, <2>1, <2>2, <2>3, <2>4 DEF OnTick, Touch, LoopTypes
<1>7. CASE TickEnd
  BY <1>7 DEF TickEnd, FsmTypes, LoopTypes, schedVars, queueVars, unitVars
<1>8. ASSUME NEW t \in Tags, StartCmd(t)
      PROVE  FsmTypes' /\ LoopTypes'
  <2>1. FsmTypes'
    <3>1. CASE ToOut(t)
      BY <3>1, QuietTypes
    <3>2. CASE NextStage(t, {})
      BY <1>8, <3>2, BeginTypes DEF NextStage, StartCmd
    <3>. QED
      BY <1>8, <3>1, <3>2 DEF StartCmd
  <2>. QED
    BY <1>8, <2>1, DeliverTypes DEF StartCmd, LoopTypes
<1>9. ASSUME NEW t \in Tags, TxComplete(t)
      PROVE  FsmTypes' /\ LoopTypes'
  BY <1>9, RetireTypes, DeliverTypes DEF TxComplete, LoopTypes
<1>10. ASSUME NEW e \in Engines, PkaDone(e)
       PROVE  FsmTypes' /\ LoopTypes'
  <2>1. unit_tag[e] \in Tags /\ e \in Units
    BY <1>10 DEF PkaDone, FsmTypes, Units
  <2>2. FsmTypes'
    BY <1>10, <2>1, AnswerTypes, QuietTypes DEF PkaDone
  <2>. QED
    BY <1>10, <2>1, <2>2, DeliverTypes DEF PkaDone, LoopTypes
<1>11. ASSUME NEW e \in Engines, WipeDone(e)
       PROVE  FsmTypes' /\ LoopTypes'
  <2>1. waiters' \in [ResIds -> Seq(Tags)] /\ ready_queue' \in Seq(Tags \X ResIds)
    BY <1>11, WakeNextTypes DEF WipeDone, ResIds
  <2>2. unit_tag' \in [Units -> Tags \cup {NoTag}]
    BY <1>11 DEF WipeDone, Ended, FsmTypes
  <2>3. FsmTypes'
    BY <1>11, <2>1, <2>2 DEF WipeDone, FsmTypes, Units
  <2>. QED
    BY <1>11, <2>3, TagFacts, DeliverTypes DEF WipeDone, LoopTypes
<1>12. ASSUME NEW e \in Engines, WipeError(e)
       PROVE  FsmTypes' /\ LoopTypes'
  BY <1>12 DEF WipeError, FsmTypes, LoopTypes, schedVars, queueVars, unitVars
<1>19. ASSUME NEW e \in Engines, WipeEndFails(e)
       PROVE  FsmTypes' /\ LoopTypes'
  <2>1. unit_tag' \in [Units -> Tags \cup {NoTag}] /\ pka_state' \in SUBSET Engines
    BY <1>19 DEF WipeEndFails, Ended, FsmTypes
  <2>2. /\ slot' \in [Tags -> Slot] /\ free_tags' \in Seq(Tags)
        /\ occupancy' \in SUBSET Tags /\ fn_drain' \in BOOLEAN
    BY <1>19, TagFacts, BoundsAssumption
    DEF WipeEndFails, Vacate, FsmTypes, Slot, SlotStates, Empty, NoRes
  <2>. QED
    BY <1>19, <2>1, <2>2, TagFacts, DeliverTypes DEF WipeEndFails, FsmTypes, LoopTypes, queueVars
<1>20. CASE RxRefused
  <2>1. free_tags \in Seq(Tags) /\ Len(free_tags) \in Nat \ {0}
    BY <1>20 DEF RxRefused, FsmTypes
  <2>2. access' \in SUBSET Tags
    BY <1>20, <2>1 DEF RxRefused, LoopTypes
  <2>3. arrivals' \in 0 .. MaxArrivals
    BY <1>20, BoundsAssumption DEF RxRefused, LoopTypes
  <2>. QED
    BY <1>20, <2>2, <2>3 DEF RxRefused, FsmTypes, LoopTypes, queueVars, unitVars
<1>13. ASSUME NEW c \in IpcIds, IpcResponse(c)
       PROVE  FsmTypes' /\ LoopTypes'
  <2>1. unit_tag[c] \in Tags /\ c \in Units
    BY <1>13 DEF IpcResponse, FsmTypes, Units
  <2>2. FsmTypes'
    BY <1>13, <2>1, AnswerTypes, QuietTypes DEF IpcResponse
  <2>3. unread' \in SUBSET IpcIds
    BY <1>13 DEF IpcResponse, LoopTypes
  <2>. QED
    BY <1>13, <2>1, <2>2, <2>3, DeliverTypes DEF IpcResponse, LoopTypes
<1>14. CASE RxReady
  <2>. DEFINE t == free_tags[Len(free_tags)]
  <2>1. free_tags \in Seq(Tags) /\ Len(free_tags) \in Nat \ {0}
    BY <1>14 DEF RxReady, FsmTypes
  <2>2. t \in Tags /\ free_tags' \in Seq(Tags)
    BY <1>14, <2>1 DEF RxReady
  <2>3. slot' \in [Tags -> Slot]
    BY <1>14, <2>2, BoundsAssumption DEF RxReady, FsmTypes, Slot, SlotStates, NoRes
  <2>4. occupancy' \in SUBSET Tags /\ access' \in SUBSET Tags
    BY <1>14, <2>2 DEF RxReady, FsmTypes, LoopTypes
  <2>5. arrivals' \in 0 .. MaxArrivals
    BY <1>14, BoundsAssumption DEF RxReady, LoopTypes
  <2>. QED
    BY <1>14, <2>2, <2>3, <2>4, <2>5
    DEF RxReady, FsmTypes, LoopTypes, queueVars, unitVars
<1>15. CASE Drain
  BY <1>15 DEF Drain, FsmTypes, LoopTypes, loopVars, queueVars, unitVars
<1>16. CASE Tick
  <2>1. work' \in Work
    BY <1>16 DEF Tick, FsmTypes, LoopTypes, Work
  <2>. QED
    BY <1>16, <2>1 DEF Tick, FsmTypes, LoopTypes, schedVars, queueVars, unitVars
<1>18. ASSUME NEW t \in Tags, NEW c \in IpcIds, OutFails(t, c)
       PROVE  FsmTypes' /\ LoopTypes'
  BY <1>18, AnswerTypes, DeliverTypes DEF OutFails, LoopTypes, Units
<1>17. CASE UNCHANGED vars
  BY <1>17
  DEF vars, FsmTypes, LoopTypes, schedVars, queueVars, unitVars, loopVars
<1>. QED
  BY <1>1, <1>2, <1>3, <1>4, <1>5, <1>6, <1>7, <1>8, <1>9, <1>10, <1>11, <1>12,
     <1>13, <1>14, <1>15, <1>16, <1>17, <1>18, <1>19, <1>20 DEF Next, Core, Serve

(* Whatever the sizes and the build, the scheduler, its resources and the    *)
(* loop stay well-typed: every index the code takes from a queue, a driver's *)
(* peek_tag or a resource is a slot, an engine or a channel that exists.     *)
THEOREM TypeCorrect == Spec => []TypeOK
BY InitTypes, NextTypes, PTL DEF Spec

-----------------------------------------------------------------------------
(* Accounting.  What each reaction of an FSM does to the units and the tags  *)
(* is brought to one form, Moves or Retires, and the invariants are proved   *)
(* once for each form.                                                       *)

(* An empty slot and the clean-up FSM hold no unit. *)
IdleOwnsNothing ==
    \A t \in Tags : slot[t].st \in {"None", "Static"} => slot[t].own = {}

(* The copy of the clean-up queue is used up before the pass ends. *)
CopyUsedUp == pc # "cleanup" => work.cleanup = {}

IInv == TypeOK /\ TagAccounting /\ UnitAccounting /\ IdleOwnsNothing /\ CopyUsedUp

(* Tag t drops the units in drop and is given those in give; an engine in  *)
(* fail was granted to it and dropped in the same breath.                  *)
Transfer(t, drop, give, fail) ==
    /\ \A x \in Tags : x # t => slot'[x] = slot[x]
    /\ slot'[t].own = (slot[t].own \ drop) \cup give
    /\ cleanup_queue' = cleanup_queue \cup (drop \cap Engines) \cup fail
    /\ free' = (free \ (give \cup fail)) \cup (drop \cap IpcIds)

(* A reaction that leaves the FSM in its slot *)
Moves(t) ==
    /\ UNCHANGED schedVars
    /\ slot'[t].st \in Live <=> slot[t].st \in Live
    /\ slot'[t].st = "None" <=> slot[t].st = "None"
    /\ slot'[t].st = "Static" <=> slot[t].st = "Static"
    /\ slot'[t].st \in {"None", "Static"} => slot'[t] = slot[t]
    /\ \E drop \in SUBSET slot[t].own, give \in SUBSET free,
          fail \in SUBSET (free \cap Engines) :
            give \cap fail = {} /\ Transfer(t, drop, give, fail)

(* The units stay accounted for when one tag drops and acquires some. *)
LEMMA TransferAccounts ==
    ASSUME FsmTypes, LoopTypes, FsmTypes', UnitAccounting,
           NEW t \in Tags, NEW drop \in SUBSET slot[t].own,
           NEW give \in SUBSET free, NEW fail \in SUBSET (free \cap Engines),
           give \cap fail = {}, Transfer(t, drop, give, fail),
           CleanupAlive' => CleanupAlive,
           work'.cleanup = work.cleanup, pka_state' = pka_state
    PROVE  UnitAccounting'
<1>. USE DEF Transfer
<1>0. /\ drop \subseteq Units /\ give \subseteq Units /\ fail \subseteq Engines
      /\ slot[t].own \cap free = {} /\ Engines \cap IpcIds = {}
  BY UnitsAssumption DEF FsmTypes, Slot, UnitAccounting
<1>1. (\A a, x \in Tags : a # x => slot[a].own \cap slot[x].own = {})'
  BY DEF UnitAccounting
<1>2. (\A x \in Tags : slot[x].own \cap (free \cup Pending \cup pka_state) = {})'
  BY <1>0 DEF UnitAccounting, Pending
<1>3. (free \cap (Pending \cup pka_state) = {})'
  BY <1>0 DEF UnitAccounting, Pending
<1>4. (Pending \cap pka_state = {} /\ cleanup_queue \cap work.cleanup = {})'
  BY <1>0 DEF UnitAccounting, Pending
<1>5. (CleanupAlive => \A u \in Units : \/ u \in free \cup Pending \cup pka_state
                                        \/ \E x \in Tags : u \in slot[x].own)'
  <2>. SUFFICES ASSUME CleanupAlive', NEW u \in Units
                PROVE  \/ u \in (free \cup Pending \cup pka_state)'
                       \/ \E x \in Tags : u \in slot'[x].own
    OBVIOUS
  <2>1. \/ u \in free \cup Pending \cup pka_state
        \/ \E x \in Tags : u \in slot[x].own
    BY DEF UnitAccounting
  <2>2. CASE u \in free
    BY <2>2, <1>0 DEF Pending
  <2>3. CASE u \in Pending \cup pka_state
    BY <2>3 DEF Pending
  <2>4. CASE \E x \in Tags : u \in slot[x].own
    <3>1. PICK x \in Tags : u \in slot[x].own
      BY <2>4
    <3>2. CASE x # t
      BY <3>1, <3>2
    <3>3. CASE x = t /\ u \notin drop
      BY <3>1, <3>3
    <3>4. CASE u \in drop
      BY <3>4 DEF Pending, Units
    <3>. QED
      BY <3>2, <3>3, <3>4
  <2>. QED
    BY <2>1, <2>2, <2>3, <2>4
<1>. QED
  BY <1>1, <1>2, <1>3, <1>4, <1>5 DEF UnitAccounting

(* Starting an operation, failing to, or queueing for it is a Move. *)
LEMMA BeginMoves ==
    ASSUME FsmTypes, NEW t \in Tags, NEW r \in ResIds, NEW end \in SUBSET slot[t].own,
           slot[t].st \in Live, Begin(t, r, end)
    PROVE  Moves(t)
<1>. DEFINE drop == end \cap Engines
<1>1. UNCHANGED schedVars /\ t \in DOMAIN slot
  BY DEF Begin, FsmTypes
<1>2. ASSUME NEW st, NEW own, slot' = Moved(t, st, r, own)
      PROVE  /\ \A x \in Tags : x # t => slot'[x] = slot[x]
             /\ slot'[t].own = own /\ slot'[t].st = st
  BY <1>2 DEF Moved, FsmTypes
<1>3. ASSUME NEW u \in free \cap UnitsOf(r), Start(t, r, u, end)
      PROVE  Moves(t)
  <2>1. Transfer(t, drop, {u}, {}) /\ slot'[t].st = "Run"
    BY <1>2, <1>3, UnitsAssumption DEF Start, Transfer
  <2>. QED
    BY <1>1, <2>1 DEF Moves, Live
<1>4. ASSUME NEW u \in free \cap UnitsOf(r), StartFails(t, r, u, end)
      PROVE  Moves(t)
  <2>1. Transfer(t, drop, {}, {u} \cap Engines) /\ slot'[t].st = "Out"
    BY <1>2, <1>4, UnitsAssumption DEF StartFails, Transfer
  <2>. QED
    BY <1>1, <2>1 DEF Moves, Live
<1>5. CASE Enqueue(t, r, end)
  <2>1. Transfer(t, drop, {}, {}) /\ slot'[t].st \in {"Out", "Wait"}
    BY <1>2, <1>5, UnitsAssumption DEF Enqueue, Transfer
  <2>. QED
    BY <1>1, <2>1 DEF Moves, Live
<1>. QED
  BY <1>3, <1>4, <1>5 DEF Begin

(* So are the other reactions that keep the FSM in its slot. *)
LEMMA ReactionMoves ==
    ASSUME FsmTypes, NEW t \in Tags,
           \/ Stay
           \/ ToOut(t) /\ slot[t].st \in Live
           \/ Unexpected(t)
           \/ Continue(t) /\ slot[t].st = "Run"
           \/ \E u \in slot[t].own : /\ slot[t].st \in Live
                                     /\ \/ Finish(t, u) \/ FinishHolding(t, u)
                                        \/ NextStage(t, {u})
                                        \/ Rollback(t, u, "Run")
                                        \/ Rollback(t, u, "Undo")
           \/ NextStage(t, {}) /\ slot[t].st \in Live
    PROVE  Moves(t)
<1>0. t \in DOMAIN slot
  BY DEF FsmTypes
<1>1. CASE Stay
  <2>1. Transfer(t, {}, {}, {})
    BY <1>1 DEF Stay, Transfer, queueVars, unitVars
  <2>. QED
    BY <1>1, <2>1 DEF Moves, Stay
<1>2. CASE ToOut(t) /\ slot[t].st \in Live
  <2>1. Transfer(t, {}, {}, {}) /\ slot'[t].st = "Out"
    BY <1>0, <1>2 DEF ToOut, Transfer, queueVars, unitVars, FsmTypes, Slot
  <2>. QED
    BY <1>2, <2>1 DEF Moves, ToOut, Live
<1>3. CASE Unexpected(t)
  BY <1>1, <1>2, <1>3 DEF Unexpected, Live
<1>4. CASE Continue(t) /\ slot[t].st = "Run"
  <2>1. Transfer(t, {}, {}, {}) /\ slot'[t].st = slot[t].st
    BY <1>0, <1>4 DEF Continue, Transfer, queueVars, unitVars, FsmTypes, Slot
  <2>. QED
    BY <1>4, <2>1 DEF Moves, Continue, Live
<1>5. ASSUME NEW u \in slot[t].own, slot[t].st \in Live,
             \/ Finish(t, u) \/ FinishHolding(t, u) \/ NextStage(t, {u})
             \/ Rollback(t, u, "Run") \/ Rollback(t, u, "Undo")
      PROVE  Moves(t)
  <2>1. CASE Finish(t, u)
    <3>1. Transfer(t, {u}, {}, {}) /\ slot'[t].st = "Out"
      BY <1>0, <2>1 DEF Finish, Release, Transfer, FsmTypes, Slot
    <3>. QED
      BY <1>5, <2>1, <3>1 DEF Moves, Finish, Live
  <2>2. CASE FinishHolding(t, u)
    <3>1. Transfer(t, {}, {}, {}) /\ slot'[t].st = "Out"
      BY <1>0, <2>2 DEF FinishHolding, Transfer, queueVars, FsmTypes, Slot
    <3>. QED
      BY <1>5, <2>2, <3>1 DEF Moves, FinishHolding, Live
  <2>3. CASE NextStage(t, {u})
    BY <1>5, <2>3, BeginMoves DEF NextStage, Live
  <2>4. ASSUME NEW st \in {"Run", "Undo"}, Rollback(t, u, st)
        PROVE  Moves(t)
    <3>1. Transfer(t, {}, {}, {}) /\ slot'[t].st = st
      BY <1>0, <2>4 DEF Rollback, Transfer, queueVars, FsmTypes, Slot
    <3>. QED
      BY <1>5, <2>4, <3>1 DEF Moves, Rollback, Live
  <2>. QED
    BY <1>5, <2>1, <2>2, <2>3, <2>4
<1>6. CASE NextStage(t, {}) /\ slot[t].st \in Live
  BY <1>6, BeginMoves DEF NextStage
<1>. QED
  BY <1>1, <1>2, <1>3, <1>4, <1>5, <1>6

Accounts == TagAccounting /\ UnitAccounting /\ IdleOwnsNothing

(* A reaction that leaves the FSM in its slot keeps the accounts. *)
LEMMA MovesAccount ==
    ASSUME FsmTypes, LoopTypes, FsmTypes', Accounts, NEW t \in Tags, Moves(t),
           work'.cleanup = work.cleanup, pka_state' = pka_state
    PROVE  Accounts'
<1>1. PICK drop \in SUBSET slot[t].own, give \in SUBSET free,
           fail \in SUBSET (free \cap Engines) :
             give \cap fail = {} /\ Transfer(t, drop, give, fail)
  BY DEF Moves
<1>2. \A x \in Tags : x # t => slot'[x] = slot[x]
  BY <1>1 DEF Transfer
<1>3. CleanupAlive' => CleanupAlive
  BY <1>2, TagFacts DEF CleanupAlive, Moves
<1>4. UnitAccounting'
  BY <1>1, <1>3, TransferAccounts DEF Accounts
<1>5. TagAccounting'
  <2>1. free_tags' = free_tags /\ occupancy' = occupancy
    BY DEF Moves, schedVars
  <2>2. \A x \in Tags : /\ slot'[x].st = "None" <=> slot[x].st = "None"
                        /\ slot'[x].st \in Live <=> slot[x].st \in Live
    BY <1>2 DEF Moves
  <2>3. {x \in Tags : slot'[x].st \in Live} = {x \in Tags : slot[x].st \in Live}
    BY <2>2
  <2>. QED
    BY <2>1, <2>2, <2>3 DEF TagAccounting, Accounts
<1>6. IdleOwnsNothing'
  BY <1>2 DEF IdleOwnsNothing, Accounts, Moves
<1>. QED
  BY <1>4, <1>5, <1>6 DEF Accounts

(* Retiring a slot keeps the tags accounted for. *)
LEMMA RetireTags ==
    ASSUME FsmTypes, TagAccounting, NEW t \in Tags, slot[t].st # "None", Vacate(t)
    PROVE  TagAccounting'
<1>1. /\ slot'[t].st = "None"
      /\ \A x \in Tags : x # t => slot'[x] = slot[x]
      /\ free_tags' = Append(free_tags, t) /\ occupancy' = occupancy \ {t}
  BY DEF Retire, Vacate, FsmTypes, Empty
<1>2. /\ free_tags \in Seq(Tags)
      /\ \A i \in 1 .. Len(free_tags) : free_tags[i] # t
  BY DEF TagAccounting, FsmTypes
<1>3. /\ Len(free_tags') = Len(free_tags) + 1 /\ Len(free_tags) \in Nat
      /\ free_tags'[Len(free_tags) + 1] = t
      /\ \A i \in 1 .. Len(free_tags) : free_tags'[i] = free_tags[i]
  BY <1>1, <1>2
<1>4. \A i, j \in 1 .. Len(free_tags') : free_tags'[i] = free_tags'[j] => i = j
  BY <1>2, <1>3 DEF TagAccounting
<1>5. ASSUME NEW x \in Tags
      PROVE  (\E i \in 1 .. Len(free_tags') : free_tags'[i] = x) <=> slot'[x].st = "None"
  <2>1. CASE x = t
    BY <1>1, <1>3, <2>1
  <2>2. CASE x # t
    BY <1>1, <1>3, <2>2 DEF TagAccounting
  <2>. QED
    BY <2>1, <2>2
<1>6. occupancy' = {x \in Tags : slot'[x].st \in Live}
  BY <1>1 DEF TagAccounting, Live
<1>. QED
  BY <1>4, <1>5, <1>6 DEF TagAccounting

(* Retiring the slot of a command keeps all the accounts. *)
LEMMA RetireAccounts ==
    ASSUME FsmTypes, LoopTypes, FsmTypes', Accounts, NEW t \in Tags,
           slot[t].st \in Live, Retire(t),
           work'.cleanup = work.cleanup, pka_state' = pka_state
    PROVE  Accounts'
<1>1. /\ slot'[t] = Empty
      /\ \A x \in Tags : x # t => slot'[x] = slot[x]
  BY DEF Retire, Vacate, FsmTypes
<1>2. Transfer(t, slot[t].own, {}, {})
  BY <1>1 DEF Retire, Vacate, Release, Transfer, Empty
<1>3. CleanupAlive' => CleanupAlive
  BY <1>1, TagFacts DEF CleanupAlive, Empty
<1>4. UnitAccounting'
  BY <1>2, <1>3, TransferAccounts DEF Accounts
<1>5. TagAccounting'
  BY RetireTags DEF Accounts, Live, Retire
<1>6. IdleOwnsNothing'
  BY <1>1 DEF IdleOwnsNothing, Accounts, Empty
<1>. QED
  BY <1>4, <1>5, <1>6 DEF Accounts

(* The loop alone, without any FSM, keeps the accounts. *)
LEMMA LoopAccounts ==
    ASSUME Accounts, UNCHANGED <<slot, free_tags, occupancy, free, cleanup_queue, pka_state>>,
           work'.cleanup = work.cleanup
    PROVE  Accounts'
BY DEF Accounts, TagAccounting, UnitAccounting, IdleOwnsNothing, Pending, CleanupAlive

(* Every step keeps the accounts, and uses up the copy of the clean-up queue *)
(* before the ready pass.                                                    *)
LEMMA NextAccounts == IInv /\ [Next]_vars => Accounts' /\ CopyUsedUp'
<1>. SUFFICES ASSUME FsmTypes, LoopTypes, FsmTypes', Accounts, CopyUsedUp, [Next]_vars
              PROVE  Accounts' /\ CopyUsedUp'
  BY TypeParts, NextTypes DEF IInv, Accounts, FsmTypes, LoopTypes, TypeOK
<1>1. CASE CleanupPass
  <2>1. work.cleanup = {} /\ work'.cleanup = cleanup_queue /\ cleanup_queue' = {}
    BY <1>1 DEF CleanupPass, CopyUsedUp, LoopTypes, Work
  <2>2. UNCHANGED <<slot, free_tags, occupancy, free, pka_state>> /\ pc' = "cleanup"
    BY <1>1 DEF CleanupPass, schedVars, unitVars
  <2>. QED
    BY <2>1, <2>2 DEF Accounts, TagAccounting, UnitAccounting, IdleOwnsNothing,
                      Pending, CleanupAlive, CopyUsedUp
<1>2. CASE ReadyPass
  <2>1. work'.cleanup = work.cleanup /\ work.cleanup = {}
    BY <1>2 DEF ReadyPass, LoopTypes, Work
  <2>. QED
    BY <1>2, <2>1, LoopAccounts DEF ReadyPass, schedVars, unitVars, CopyUsedUp
<1>3. CASE OnReady
  <2>. DEFINE t == Head(work.ready)[1]
              r == Head(work.ready)[2]
  <2>1. t \in Tags /\ r \in ResIds
    <3>1. work.ready \in Seq(Tags \X ResIds) /\ work.ready # <<>>
      BY <1>3 DEF OnReady, LoopTypes, Work
    <3>2. Head(work.ready) \in Tags \X ResIds
      BY <3>1
    <3>. QED
      BY <3>2
  <2>2. \/ Stay
        \/ slot[t].st = "Wait" /\ Begin(t, r, {})
        \/ Unexpected(t)
    BY <1>3 DEF OnReady, Resume, Unexpected
  <2>3. Moves(t)
    BY <2>1, <2>2, BeginMoves, ReactionMoves DEF Live
  <2>4. work'.cleanup = work.cleanup /\ pka_state' = pka_state
    BY <1>3 DEF OnReady, LoopTypes, Work
  <2>5. pc = "ready" /\ pc' \in {"ready", "panic"}
    BY <1>3 DEF OnReady
  <2>. QED
    BY <2>1, <2>3, <2>4, <2>5, MovesAccount DEF CopyUsedUp
<1>4. CASE Return
  BY <1>4, LoopAccounts
  DEF Return, schedVars, queueVars, unitVars, CopyUsedUp
<1>5. ASSUME NEW e \in Engines, OnCleanup(e)
      PROVE  Accounts' /\ CopyUsedUp'
  <2>0. /\ e \in work.cleanup /\ work'.cleanup = work.cleanup \ {e}
        /\ pc = "cleanup" /\ pc' = "cleanup"
    BY <1>5 DEF OnCleanup, LoopTypes, Work
  <2>1. CASE WipeBegin(e)
    <3>1. e \notin pka_state /\ pka_state' = pka_state \cup {e}
      BY <2>0, <2>1 DEF Accounts, UnitAccounting, Pending, WipeBegin
    <3>2. UNCHANGED <<slot, free_tags, occupancy, free, cleanup_queue>>
      BY <2>1 DEF WipeBegin, schedVars, queueVars
    <3>3. e \notin cleanup_queue /\ Pending' = Pending \ {e}
      BY <2>0, <3>2 DEF Accounts, UnitAccounting, Pending
    <3>4. UnitAccounting'
      <4>1. (Pending \cup pka_state)' = Pending \cup pka_state /\ e \in Pending
        BY <2>0, <3>1, <3>2, <3>3 DEF Pending
      <4>2. (CleanupAlive => \A u \in Units : \/ u \in free \cup Pending \cup pka_state
                                              \/ \E x \in Tags : u \in slot[x].own)'
        BY <3>2, <4>1 DEF Accounts, UnitAccounting, CleanupAlive
      <4>3. (\A a, x \in Tags : a # x => slot[a].own \cap slot[x].own = {})'
        BY <3>2 DEF Accounts, UnitAccounting
      <4>4. (\A x \in Tags : slot[x].own \cap (free \cup Pending \cup pka_state) = {})'
        BY <3>2, <4>1 DEF Accounts, UnitAccounting
      <4>5. (/\ free \cap (Pending \cup pka_state) = {} /\ Pending \cap pka_state = {}
             /\ cleanup_queue \cap work.cleanup = {})'
        BY <2>0, <3>1, <3>2, <3>3, <4>1 DEF Accounts, UnitAccounting
      <4>. QED
        BY <4>2, <4>3, <4>4, <4>5 DEF UnitAccounting
    <3>. QED
      BY <2>0, <3>2, <3>4
      DEF Accounts, TagAccounting, IdleOwnsNothing, CopyUsedUp
  <2>2. CASE WipeFails(e)
    <3>1. /\ slot[CleanupTag].st = "Static" /\ slot[CleanupTag].own = {}
          /\ Retire(CleanupTag) /\ pka_state' = {}
      BY <2>2, TagFacts DEF WipeFails, CleanupAlive, Accounts, IdleOwnsNothing
    <3>2. TagAccounting'
      BY <3>1, TagFacts, RetireTags DEF Accounts, Retire
    <3>3. /\ slot' = [slot EXCEPT ![CleanupTag] = Empty]
          /\ cleanup_queue' = cleanup_queue /\ free' = free
      BY <3>1 DEF Retire, Vacate, Release
    <3>4. /\ slot'[CleanupTag] = Empty
          /\ \A x \in Tags : slot'[x].own = slot[x].own
          /\ \A x \in Tags : x # CleanupTag => slot'[x] = slot[x]
      BY <3>1, <3>3, TagFacts DEF FsmTypes, Empty
    <3>5. ~CleanupAlive' /\ Pending' \subseteq Pending
      BY <2>0, <3>3, <3>4 DEF CleanupAlive, Empty, Pending
    <3>6. UnitAccounting'
      BY <2>0, <3>1, <3>3, <3>4, <3>5 DEF Accounts, UnitAccounting
    <3>7. IdleOwnsNothing'
      BY <3>4 DEF Accounts, IdleOwnsNothing, Empty
    <3>. QED
      BY <2>0, <3>2, <3>6, <3>7 DEF Accounts, CopyUsedUp
  <2>3. CASE CleanupMisdelivered
    <3>1. /\ ~CleanupAlive /\ pka_state' = pka_state
          /\ Unexpected(CleanupTag)
      BY <2>3 DEF CleanupMisdelivered
    <3>2. /\ UNCHANGED <<free_tags, occupancy, free, cleanup_queue>>
          /\ \A x \in Tags : /\ slot'[x].own = slot[x].own
                             /\ slot'[x].st = "None" <=> slot[x].st = "None"
                             /\ slot'[x].st = "Static" <=> slot[x].st = "Static"
                             /\ slot'[x].st \in Live <=> slot[x].st \in Live
      <4>1. CASE Stay
        BY <4>1 DEF Stay, schedVars, queueVars, unitVars
      <4>2. CASE slot[CleanupTag].st \in {"Wait", "Run", "Undo"} /\ ToOut(CleanupTag)
        <5>1. /\ slot'[CleanupTag].st = "Out" /\ slot'[CleanupTag].own = slot[CleanupTag].own
              /\ \A x \in Tags : x # CleanupTag => slot'[x] = slot[x]
          BY <4>2, TagFacts DEF ToOut, FsmTypes, Slot
        <5>. QED
          BY <4>2, <5>1 DEF ToOut, schedVars, queueVars, unitVars, Live
      <4>. QED
        BY <3>1, <4>1, <4>2 DEF Unexpected
    <3>3. {x \in Tags : slot'[x].st \in Live} = {x \in Tags : slot[x].st \in Live}
      BY <3>2
    <3>4. TagAccounting'
      BY <3>2, <3>3 DEF Accounts, TagAccounting
    <3>5. ~CleanupAlive' /\ Pending' \subseteq Pending
      BY <2>0, <3>1, <3>2, TagFacts DEF CleanupAlive, Pending
    <3>6. UnitAccounting'
      BY <2>0, <3>1, <3>2, <3>5 DEF Accounts, UnitAccounting
    <3>7. IdleOwnsNothing'
      BY <3>2 DEF Accounts, IdleOwnsNothing
    <3>. QED
      BY <2>0, <3>4, <3>6, <3>7 DEF Accounts, CopyUsedUp
  <2>. QED
    BY <1>5, <2>1, <2>2, <2>3 DEF OnCleanup
<1>6. CASE OnTick
  <2>1. PICK t \in work.tick : CheckAlive(t) /\ work' = [work EXCEPT !.tick = @ \ {t}]
    BY <1>6 DEF OnTick
  <2>2. /\ t \in Tags /\ work'.cleanup = work.cleanup
        /\ pka_state' = pka_state /\ pc' = pc
    BY <1>6, <2>1 DEF OnTick, LoopTypes, Work
  <2>3. CASE slot[t].st \in {"In", "Out", "Undo"} /\ Retire(t)
    BY <2>2, <2>3, RetireAccounts DEF Live, CopyUsedUp
  <2>4. CASE Stay \/ (slot[t].st \in Live /\ ToOut(t))
    BY <2>2, <2>4, ReactionMoves, MovesAccount DEF CopyUsedUp
  <2>. QED
    BY <2>1, <2>3, <2>4 DEF CheckAlive, Live
<1>7. CASE TickEnd
  BY <1>7, LoopAccounts
  DEF TickEnd, schedVars, queueVars, unitVars, CopyUsedUp
<1>8. ASSUME NEW t \in Tags, StartCmd(t)
      PROVE  Accounts' /\ CopyUsedUp'
  <2>1. Moves(t)
    BY <1>8, ReactionMoves DEF StartCmd, Live
  <2>. QED
    BY <1>8, <2>1, MovesAccount DEF StartCmd, Deliver, CopyUsedUp
<1>9. ASSUME NEW t \in Tags, TxComplete(t)
      PROVE  Accounts' /\ CopyUsedUp'
  BY <1>9, RetireAccounts DEF TxComplete, Deliver, CopyUsedUp, Live
<1>10. ASSUME NEW e \in Engines, PkaDone(e)
       PROVE  Accounts' /\ CopyUsedUp'
  <2>1. unit_tag[e] \in Tags
    BY <1>10 DEF PkaDone, FsmTypes, Units
  <2>2. Moves(unit_tag[e])
    BY <1>10, <2>1, ReactionMoves DEF PkaDone, Live
  <2>. QED
    BY <1>10, <2>1, <2>2, MovesAccount DEF PkaDone, Deliver, CopyUsedUp
<1>11. ASSUME NEW e \in Engines, WipeDone(e)
       PROVE  Accounts' /\ CopyUsedUp'
  <2>1. /\ UNCHANGED <<slot, free_tags, occupancy, cleanup_queue, work>>
        /\ e \in pka_state /\ pka_state' = pka_state \ {e}
        /\ free' = free \cup {e} /\ pc = "idle"
    BY <1>11 DEF WipeDone, Deliver
  <2>2. UnitAccounting'
    BY <2>1 DEF Accounts, UnitAccounting, Pending, CleanupAlive
  <2>. QED
    BY <2>1, <2>2 DEF Accounts, TagAccounting, IdleOwnsNothing, CopyUsedUp
<1>12. ASSUME NEW e \in Engines, WipeError(e)
       PROVE  Accounts' /\ CopyUsedUp'
  BY <1>12, LoopAccounts
  DEF WipeError, schedVars, queueVars, unitVars, CopyUsedUp
<1>19. ASSUME NEW e \in Engines, WipeEndFails(e)
       PROVE  Accounts' /\ CopyUsedUp'
  <2>1. /\ slot[CleanupTag].st = "Static" /\ slot[CleanupTag].own = {}
        /\ Vacate(CleanupTag) /\ pka_state' = {} /\ pc = "idle"
        /\ UNCHANGED <<cleanup_queue, free, work>>
    BY <1>19, TagFacts DEF WipeEndFails, Deliver, CleanupAlive, Accounts, IdleOwnsNothing, queueVars
  <2>2. TagAccounting'
    BY <2>1, TagFacts, RetireTags DEF Accounts
  <2>3. /\ slot'[CleanupTag] = Empty
        /\ \A x \in Tags : slot'[x].own = slot[x].own
        /\ \A x \in Tags : x # CleanupTag => slot'[x] = slot[x]
    BY <2>1, TagFacts DEF Vacate, FsmTypes, Empty
  <2>4. ~CleanupAlive' /\ Pending' = Pending
    BY <2>1, <2>3 DEF CleanupAlive, Empty, Pending
  <2>5. UnitAccounting'
    BY <2>1, <2>3, <2>4 DEF Accounts, UnitAccounting
  <2>6. IdleOwnsNothing'
    BY <2>3 DEF Accounts, IdleOwnsNothing, Empty
  <2>. QED
    BY <2>1, <2>2, <2>5, <2>6 DEF Accounts, CopyUsedUp
<1>20. CASE RxRefused
  BY <1>20, LoopAccounts DEF RxRefused, queueVars, unitVars, CopyUsedUp
<1>13. ASSUME NEW c \in IpcIds, IpcResponse(c)
       PROVE  Accounts' /\ CopyUsedUp'
  <2>1. unit_tag[c] \in Tags
    BY <1>13 DEF IpcResponse, FsmTypes, Units
  <2>2. Moves(unit_tag[c])
    BY <1>13, <2>1, ReactionMoves DEF IpcResponse, Live
  <2>. QED
    BY <1>13, <2>1, <2>2, MovesAccount DEF IpcResponse, Deliver, CopyUsedUp
<1>14. CASE RxReady
  <2>. DEFINE n == Len(free_tags)
              t == free_tags[n]
  <2>1. free_tags \in Seq(Tags) /\ n \in Nat \ {0} /\ t \in Tags
    BY <1>14 DEF RxReady, FsmTypes
  <2>2. slot[t].st = "None" /\ slot[t].own = {}
    BY <2>1 DEF Accounts, TagAccounting, IdleOwnsNothing
  <2>3. /\ slot'[t].st \in {"In", "Out"} /\ slot'[t].own = {}
        /\ \A x \in Tags : x # t => slot'[x] = slot[x]
    BY <1>14, <2>1 DEF RxReady, FsmTypes
  <2>4. /\ Len(free_tags') = n - 1
        /\ \A i \in 1 .. n - 1 : free_tags'[i] = free_tags[i]
        /\ occupancy' = occupancy \cup {t}
    <3>1. free_tags' = SubSeq(free_tags, 1, n - 1) /\ occupancy' = occupancy \cup {t}
      BY <1>14 DEF RxReady
    <3>. QED
      BY <2>1, <3>1, PopFacts
  <2>5. \A i \in 1 .. n - 1 : free_tags[i] # t
    BY <2>1 DEF Accounts, TagAccounting
  <2>6. TagAccounting'
    <3>1. \A i, j \in 1 .. Len(free_tags') : free_tags'[i] = free_tags'[j] => i = j
      BY <2>1, <2>4 DEF Accounts, TagAccounting
    <3>2. ASSUME NEW x \in Tags
          PROVE  (\E i \in 1 .. Len(free_tags') : free_tags'[i] = x)
                   <=> slot'[x].st = "None"
      <4>1. CASE x = t
        BY <2>1, <2>3, <2>4, <2>5, <4>1
      <4>2. CASE x # t
        <5>1. (\E i \in 1 .. n : free_tags[i] = x) <=> slot[x].st = "None"
          BY DEF Accounts, TagAccounting
        <5>2. (\E i \in 1 .. n - 1 : free_tags[i] = x) <=> slot[x].st = "None"
          BY <2>1, <4>2, <5>1
        <5>. QED
          BY <2>3, <2>4, <4>2, <5>2
      <4>. QED
        BY <4>1, <4>2
    <3>3. occupancy' = {x \in Tags : slot'[x].st \in Live}
      BY <2>1, <2>3, <2>4 DEF Accounts, TagAccounting, Live
    <3>. QED
      BY <3>1, <3>2, <3>3 DEF TagAccounting
  <2>7. \A x \in Tags : slot'[x].own = slot[x].own
    BY <2>1, <2>2, <2>3
  <2>8. /\ CleanupAlive' => CleanupAlive
        /\ UNCHANGED <<free, cleanup_queue, pka_state, work>> /\ pc = "idle"
    BY <1>14, <2>3, TagFacts DEF RxReady, CleanupAlive, queueVars, unitVars
  <2>9. UnitAccounting'
    BY <2>7, <2>8 DEF Accounts, UnitAccounting, Pending
  <2>10. IdleOwnsNothing'
    BY <2>3 DEF Accounts, IdleOwnsNothing
  <2>. QED
    BY <2>6, <2>8, <2>9, <2>10 DEF Accounts, CopyUsedUp
<1>15. CASE Drain
  BY <1>15, LoopAccounts DEF Drain, loopVars, queueVars, unitVars, CopyUsedUp
<1>16. CASE Tick
  <2>1. work'.cleanup = work.cleanup /\ pc = "idle"
    BY <1>16 DEF Tick, LoopTypes, Work
  <2>. QED
    BY <1>16, <2>1, LoopAccounts
    DEF Tick, schedVars, queueVars, unitVars, CopyUsedUp
<1>18. ASSUME NEW t \in Tags, NEW c \in IpcIds, OutFails(t, c)
       PROVE  Accounts' /\ CopyUsedUp'
  <2>1. Moves(t)
    BY <1>18, ReactionMoves DEF OutFails, Live
  <2>. QED
    BY <1>18, <2>1, MovesAccount DEF OutFails, Deliver, CopyUsedUp
<1>17. CASE UNCHANGED vars
  BY <1>17, LoopAccounts
  DEF vars, schedVars, queueVars, unitVars, loopVars, CopyUsedUp
<1>. QED
  BY <1>1, <1>2, <1>3, <1>4, <1>5, <1>6, <1>7, <1>8, <1>9, <1>10, <1>11, <1>12,
     <1>13, <1>14, <1>15, <1>16, <1>17, <1>18, <1>19, <1>20 DEF Next, Core, Serve

(* The initial state is accounted for. *)
LEMMA InitAccounts == Init => IInv
<1>. SUFFICES ASSUME Init PROVE IInv
  OBVIOUS
<1>1. TypeOK
  BY InitTypes
<1>2. /\ slot[CleanupTag].st = "Static"
      /\ \A t \in Tags : slot[t].own = {} /\ slot[t].st \in {"None", "Static"}
      /\ \A t \in Tags : slot[t].st = "None" <=> t # CleanupTag
  BY TagFacts DEF Init, Empty
<1>3. TagAccounting
  <2>1. /\ Len(free_tags) = NumSlots - 1
        /\ \A i \in 1 .. NumSlots - 1 : free_tags[i] = i - 1
    BY SlotsAssumption DEF Init
  <2>2. \A t \in Tags : (\E i \in 1 .. Len(free_tags) : free_tags[i] = t)
                          <=> t # CleanupTag
    <3>. SUFFICES ASSUME NEW t \in Tags
                  PROVE  (\E i \in 1 .. NumSlots - 1 : i - 1 = t) <=> t # CleanupTag
      BY <2>1
    <3>1. t # CleanupTag => t + 1 \in 1 .. NumSlots - 1 /\ (t + 1) - 1 = t
      BY SlotsAssumption DEF Tags, CleanupTag
    <3>. QED
      BY <3>1, SlotsAssumption DEF Tags, CleanupTag
  <2>3. occupancy = {t \in Tags : slot[t].st \in Live}
    BY <1>2 DEF Init, Live
  <2>. QED
    BY <1>2, <2>1, <2>2, <2>3, SlotsAssumption DEF TagAccounting
<1>4. UnitAccounting
  BY <1>2 DEF Init, UnitAccounting, Pending, NoWork
<1>5. IdleOwnsNothing /\ CopyUsedUp
  BY <1>2 DEF Init, IdleOwnsNothing, CopyUsedUp, NoWork
<1>. QED
  BY <1>1, <1>3, <1>4, <1>5 DEF IInv

(* The invariant is inductive. *)
LEMMA InvariantHolds == Spec => []IInv
<1>1. IInv /\ [Next]_vars => IInv'
  BY NextTypes, NextAccounts DEF IInv, Accounts
<1>. QED
  BY <1>1, InitAccounts, PTL DEF Spec

(* For every number of slots: no tag is leaked, freed twice or handed out    *)
(* while its slot is in use, and the occupancy bits are exact.               *)
THEOREM TagsAccounted == Spec => []TagAccounting
BY InvariantHolds, PTL DEF IInv

(* For every set of engines and channels, with timeouts, failing begins and  *)
(* failing wipes: no unit has two holders, none is free while it is held or  *)
(* unwiped, and none is lost while the clean-up FSM runs.                    *)
THEOREM UnitsAccounted == Spec => []UnitAccounting
BY InvariantHolds, PTL DEF IInv

-----------------------------------------------------------------------------
(* Action properties *)

(* What an FSM does never frees an engine and runs no drain closure early. *)
Modest ==
    /\ free' \cap Engines \subseteq free
    /\ fn_drain /\ ~fn_drain' => occupancy' = {}

(* Begin, in all its outcomes, is modest. *)
LEMMA BeginModest ==
    ASSUME NEW t, NEW r, NEW end, Begin(t, r, end)
    PROVE  Modest
BY DEF Begin, Start, StartFails, Enqueue, schedVars, Modest

(* So is retiring a slot: only its channels become free at once. *)
LEMMA RetireModest ==
    ASSUME NEW t, Retire(t)
    PROVE  Modest
BY UnitsAssumption DEF Retire, Vacate, Release, Modest

(* So is a step that leaves the scheduler and the free units alone. *)
LEMMA QuietModest ==
    ASSUME UNCHANGED <<schedVars, free>>
    PROVE  Modest
BY DEF schedVars, Modest

(* So is every reaction of an FSM to an event. *)
LEMMA ReactionModest ==
    ASSUME NEW t,
           \/ Stay \/ ToOut(t) \/ Unexpected(t) \/ Continue(t)
           \/ \E u : \/ Finish(t, u) \/ FinishHolding(t, u) \/ NextStage(t, {u})
                     \/ Rollback(t, u, "Run") \/ Rollback(t, u, "Undo")
           \/ NextStage(t, {}) \/ CheckAlive(t)
    PROVE  Modest
<1>1. CASE Stay
  BY <1>1, QuietModest DEF Stay, unitVars
<1>2. CASE ToOut(t)
  BY <1>2, QuietModest DEF ToOut, unitVars
<1>3. CASE Unexpected(t)
  BY <1>1, <1>2, <1>3 DEF Unexpected
<1>4. CASE Continue(t)
  BY <1>4, QuietModest DEF Continue, unitVars
<1>5. ASSUME NEW u, \/ Finish(t, u) \/ FinishHolding(t, u) \/ NextStage(t, {u})
                    \/ Rollback(t, u, "Run") \/ Rollback(t, u, "Undo")
      PROVE  Modest
  <2>1. CASE Finish(t, u)
    BY <2>1, UnitsAssumption DEF Finish, Release, schedVars, Modest
  <2>2. CASE FinishHolding(t, u)
    BY <2>2, QuietModest DEF FinishHolding
  <2>3. CASE NextStage(t, {u})
    BY <2>3, BeginModest DEF NextStage
  <2>4. CASE Rollback(t, u, "Run") \/ Rollback(t, u, "Undo")
    BY <2>4, QuietModest DEF Rollback
  <2>. QED
    BY <1>5, <2>1, <2>2, <2>3, <2>4
<1>6. CASE NextStage(t, {})
  BY <1>6, BeginModest DEF NextStage
<1>7. CASE CheckAlive(t)
  BY <1>1, <1>2, <1>7, RetireModest DEF CheckAlive
<1>. QED
  BY <1>1, <1>2, <1>3, <1>4, <1>5, <1>6, <1>7

(* Every step but the end of a wipe is modest. *)
LEMMA StepModest ==
    ASSUME [Next]_vars
    PROVE  \/ Modest
           \/ \E e \in Engines : WipeDone(e)
<1>1. CASE CleanupPass \/ ReadyPass \/ Return \/ Tick \/ TickEnd \/ UNCHANGED vars
  BY <1>1, QuietModest
  DEF CleanupPass, ReadyPass, Return, Tick, TickEnd, vars, unitVars
<1>2. CASE OnReady
  BY <1>2, BeginModest, ReactionModest DEF OnReady, Resume
<1>3. ASSUME NEW e \in Engines, OnCleanup(e)
      PROVE  Modest
  <2>1. CASE WipeBegin(e)
    BY <2>1, QuietModest DEF WipeBegin
  <2>2. CASE WipeFails(e)
    BY <2>2, RetireModest DEF WipeFails
  <2>3. CASE CleanupMisdelivered
    BY <2>3, ReactionModest DEF CleanupMisdelivered
  <2>. QED
    BY <1>3, <2>1, <2>2, <2>3 DEF OnCleanup
<1>4. CASE OnTick
  BY <1>4, ReactionModest DEF OnTick
<1>5. ASSUME NEW t \in Tags, StartCmd(t) \/ TxComplete(t)
      PROVE  Modest
  BY <1>5, RetireModest, ReactionModest DEF StartCmd, TxComplete
<1>6. ASSUME NEW e \in Engines, PkaDone(e)
      PROVE  Modest
  BY <1>6, ReactionModest DEF PkaDone
<1>7. ASSUME NEW c \in IpcIds, IpcResponse(c)
      PROVE  Modest
  BY <1>7, ReactionModest DEF IpcResponse
<1>11. ASSUME NEW t \in Tags, NEW c \in IpcIds, OutFails(t, c)
       PROVE  Modest
  BY <1>11, ReactionModest DEF OutFails
<1>8. CASE RxReady
  BY <1>8 DEF RxReady, unitVars, Modest
<1>9. CASE Drain
  BY <1>9 DEF Drain, unitVars, Modest
<1>10. ASSUME NEW e \in Engines, WipeError(e)
       PROVE  Modest
  BY <1>10, QuietModest DEF WipeError, unitVars
<1>12. ASSUME NEW e \in Engines, WipeEndFails(e)
       PROVE  Modest
  BY <1>12 DEF WipeEndFails, Vacate, Modest
<1>13. CASE RxRefused
  BY <1>13 DEF RxRefused, unitVars, Modest
<1>. QED
  BY <1>1, <1>2, <1>3, <1>4, <1>5, <1>6, <1>7, <1>8, <1>9, <1>10,
     <1>11, <1>12, <1>13 DEF Next, Core, Serve

(* For every set of engines, whatever the commands, the timeouts and the     *)
(* failures do: an engine is given out again only after a memory wipe, which *)
(* is what CmdResourceRef's drop and the clean-up FSM are there for.         *)
THEOREM EnginesWiped == Spec => WipedBeforeReuse
<1>1. [Next]_vars
        => [\A e \in Engines : e \in free' /\ e \notin free => e \in pka_state]_vars
  <2>1. ASSUME NEW e \in Engines, WipeDone(e), NEW x \in free', x \notin free
        PROVE  x \in pka_state
    BY <2>1 DEF WipeDone
  <2>. QED
    BY <2>1, StepModest DEF Modest
<1>. QED
  BY <1>1, PTL DEF Spec, WipedBeforeReuse

(* For every number of slots: CmdSchedulerImpl::drain's closure runs only    *)
(* when the slots are empty of commands, although it tests occupancy_list    *)
(* and not the slots.                                                        *)
THEOREM DrainsWhenEmpty == Spec => DrainWhenEmpty
<1>1. IInv' /\ [Next]_vars
        => [fn_drain /\ ~fn_drain' => \A t \in Tags : slot'[t].st \notin Live]_vars
  <2>1. ASSUME NEW e \in Engines, WipeDone(e), fn_drain, ~fn_drain'
        PROVE  occupancy' = {}
    BY <2>1 DEF WipeDone
  <2>2. ASSUME [Next]_vars, fn_drain, ~fn_drain'
        PROVE  occupancy' = {}
    BY <2>1, <2>2, StepModest DEF Modest
  <2>. QED
    BY <2>2 DEF IInv, TagAccounting
<1>. QED
  BY <1>1, InvariantHolds, PTL DEF Spec, DrainWhenEmpty

-----------------------------------------------------------------------------
(* Where the completion of an engine goes *)

(* The driver of an engine that is free holds no tag. *)
FreeIdle == \A e \in Engines \cap free : unit_tag[e] = NoTag

(* The places an engine can be in while its driver holds tag t.  Between the *)
(* drop of a timed-out command and the wipe the tag may be an empty slot's,  *)
(* and, once a new command has arrived, that of its successor: but then the  *)
(* clean-up pass comes before the next interrupt.                            *)
HomeOf(e, t) ==
    \/ e \in slot[t].own
    \/ e \in pka_state /\ t = CleanupTag
    \/ e \in cleanup_queue /\ pc = "post"
    \/ e \in work.cleanup /\ pc = "cleanup"
    \/ e \in cleanup_queue /\ pc \in {"idle", "tick"} /\ slot[t].st = "None"

Homing == CleanupAlive /\ pc # "panic" =>
              \A e \in Engines : unit_tag[e] # NoTag => HomeOf(e, unit_tag[e])

(* A reaction of tag t that loses track of no engine *)
Tracks(t) ==
    /\ \A x \in Tags : x # t => slot'[x] = slot[x]
    /\ slot'[t].st = "None" <=> slot[t].st = "None"
    /\ slot'[t].st = "Static" => slot[t].st = "Static"
    /\ cleanup_queue \subseteq cleanup_queue'
    /\ free' \cap Engines \subseteq free
    /\ \A e \in Engines :
          \/ unit_tag'[e] = NoTag
          \/ unit_tag'[e] = unit_tag[e] /\ (e \in slot[t].own => e \in slot'[t].own)
          \/ unit_tag'[e] = t /\ e \in slot'[t].own /\ e \notin free'

(* Starting an operation, failing to, or queueing for it loses no engine. *)
LEMMA BeginTracks ==
    ASSUME FsmTypes, NEW t \in Tags, NEW r \in ResIds, NEW end \in SUBSET slot[t].own,
           slot[t].st \in Live, Begin(t, r, end)
    PROVE  Tracks(t)
<1>1. t \in DOMAIN slot /\ end \subseteq Units
  BY DEF FsmTypes, Slot
<1>2. ASSUME NEW st, NEW own, slot' = Moved(t, st, r, own)
      PROVE  /\ \A x \in Tags : x # t => slot'[x] = slot[x]
             /\ slot'[t].own = own /\ slot'[t].st = st
  BY <1>2 DEF Moved, FsmTypes
<1>3. \A e \in Engines : /\ e \in Units
                         /\ Ended(end)[e] = IF e \in end THEN NoTag ELSE unit_tag[e]
  BY DEF Ended, Units
<1>4. ASSUME NEW u \in free \cap UnitsOf(r), Start(t, r, u, end)
      PROVE  Tracks(t)
  <2>1. /\ slot'[t].own = (slot[t].own \ (end \cap Engines)) \cup {u} /\ slot'[t].st = "Run"
        /\ \A x \in Tags : x # t => slot'[x] = slot[x]
    BY <1>2, <1>4 DEF Start
  <2>2. \A e \in Engines : unit_tag'[e] = IF e = u THEN t
                                          ELSE IF e \in end THEN NoTag ELSE unit_tag[e]
    BY <1>3, <1>4 DEF Start, Ended
  <2>3. cleanup_queue \subseteq cleanup_queue' /\ free' = free \ {u}
    BY <1>4 DEF Start
  <2>. QED
    BY <2>1, <2>2, <2>3 DEF Tracks, Live
<1>5. ASSUME NEW u \in free \cap UnitsOf(r), StartFails(t, r, u, end)
      PROVE  Tracks(t)
  <2>1. /\ slot'[t].own = slot[t].own \ (end \cap Engines) /\ slot'[t].st = "Out"
        /\ \A x \in Tags : x # t => slot'[x] = slot[x]
    BY <1>2, <1>5 DEF StartFails
  <2>2. \A e \in Engines : unit_tag'[e] = IF e \in end THEN NoTag ELSE unit_tag[e]
    BY <1>3, <1>5 DEF StartFails
  <2>3. cleanup_queue \subseteq cleanup_queue' /\ free' \subseteq free
    BY <1>5 DEF StartFails
  <2>. QED
    BY <2>1, <2>2, <2>3 DEF Tracks, Live
<1>6. CASE Enqueue(t, r, end)
  <2>1. /\ slot'[t].own = slot[t].own \ (end \cap Engines) /\ slot'[t].st \in {"Out", "Wait"}
        /\ \A x \in Tags : x # t => slot'[x] = slot[x]
    BY <1>2, <1>6 DEF Enqueue
  <2>2. \A e \in Engines : unit_tag'[e] = IF e \in end THEN NoTag ELSE unit_tag[e]
    BY <1>3, <1>6 DEF Enqueue
  <2>3. cleanup_queue \subseteq cleanup_queue' /\ free' \subseteq free
    BY <1>6 DEF Enqueue
  <2>. QED
    BY <2>1, <2>2, <2>3 DEF Tracks, Live
<1>. QED
  BY <1>4, <1>5, <1>6 DEF Begin

(* The slot of a command that ends an operation and answers. *)
LEMMA FinishSlot ==
    ASSUME FsmTypes, NEW t \in Tags, NEW u, Finish(t, u)
    PROVE  /\ slot'[t].own = slot[t].own \ {u}
           /\ slot'[t].st = "Out"
           /\ slot'[t].res = slot[t].res
           /\ \A x \in Tags : x # t => slot'[x] = slot[x]
<1>1. slot' = [slot EXCEPT ![t] = [slot[t] EXCEPT !.st = "Out", !.own = slot[t].own \ {u}]]
  BY DEF Finish, FsmTypes
<1>. QED
  BY <1>1 DEF FsmTypes, Slot

(* Neither do the other reactions that keep the FSM in its slot. *)
LEMMA ReactionTracks ==
    ASSUME FsmTypes, NEW t \in Tags,
           \/ Stay
           \/ ToOut(t) /\ slot[t].st \in Live
           \/ Unexpected(t)
           \/ Continue(t) /\ slot[t].st = "Run"
           \/ \E u \in slot[t].own : /\ slot[t].st \in Live
                                     /\ \/ Finish(t, u) \/ NextStage(t, {u})
           \/ \E c \in IpcIds : /\ slot[t].st \in Live
                                /\ \/ FinishHolding(t, c)
                                   \/ Rollback(t, c, "Run") \/ Rollback(t, c, "Undo")
           \/ NextStage(t, {}) /\ slot[t].st \in Live
    PROVE  Tracks(t)
<1>0. t \in DOMAIN slot /\ slot[t] \in Slot /\ unit_tag \in [Units -> Tags \cup {NoTag}]
  BY DEF FsmTypes
<1>1. CASE Stay
  BY <1>1 DEF Stay, Tracks, queueVars, unitVars
<1>2. CASE ToOut(t) /\ slot[t].st \in Live
  <2>1. slot'[t].own = slot[t].own /\ slot'[t].st = "Out"
    BY <1>0, <1>2 DEF ToOut, Slot
  <2>. QED
    BY <1>2, <2>1 DEF Tracks, ToOut, Live, queueVars, unitVars
<1>3. CASE Unexpected(t)
  BY <1>1, <1>2, <1>3 DEF Unexpected, Live
<1>4. CASE Continue(t) /\ slot[t].st = "Run"
  <2>1. slot'[t].own = slot[t].own /\ slot'[t].st = "Run"
    BY <1>0, <1>4 DEF Continue, Slot
  <2>. QED
    BY <1>4, <2>1 DEF Tracks, Continue, queueVars, unitVars
<1>5. ASSUME NEW u \in slot[t].own, slot[t].st \in Live, Finish(t, u)
      PROVE  Tracks(t)
  <2>1. slot'[t].own = slot[t].own \ {u} /\ slot'[t].st = "Out"
    BY <1>5, FinishSlot
  <2>2. \A x \in Tags : x # t => slot'[x] = slot[x]
    BY <1>5, FinishSlot
  <2>3. \A e \in Engines : unit_tag'[e] = IF e = u THEN NoTag ELSE unit_tag[e]
    BY <1>5 DEF Finish, Ended, Units
  <2>4. cleanup_queue \subseteq cleanup_queue' /\ free' \cap Engines \subseteq free
    BY <1>5, UnitsAssumption DEF Finish, Release
  <2>. QED
    BY <1>5, <2>1, <2>2, <2>3, <2>4 DEF Tracks, Live
<1>6. ASSUME NEW c \in IpcIds, slot[t].st \in Live, FinishHolding(t, c)
      PROVE  Tracks(t)
  <2>1. slot'[t].own = slot[t].own /\ slot'[t].st = "Out"
    BY <1>0, <1>6 DEF FinishHolding, Slot
  <2>2. \A e \in Engines : unit_tag'[e] = unit_tag[e]
    BY <1>6, UnitsAssumption DEF FinishHolding, Ended, Units
  <2>. QED
    BY <1>6, <2>1, <2>2 DEF Tracks, FinishHolding, Live, queueVars
<1>7. ASSUME NEW c \in IpcIds, NEW st \in {"Run", "Undo"}, slot[t].st \in Live,
             Rollback(t, c, st)
      PROVE  Tracks(t)
  <2>1. slot'[t].own = slot[t].own /\ slot'[t].st = st
    BY <1>0, <1>7 DEF Rollback, Slot
  <2>2. \A e \in Engines : unit_tag'[e] = unit_tag[e]
    BY <1>0, <1>7, UnitsAssumption DEF Rollback, Units
  <2>3. \A x \in Tags : x # t => slot'[x] = slot[x]
    BY <1>0, <1>7 DEF Rollback, FsmTypes
  <2>. QED
    BY <1>7, <2>1, <2>2, <2>3 DEF Tracks, Rollback, Live, queueVars
<1>8. ASSUME NEW u \in slot[t].own, slot[t].st \in Live, NextStage(t, {u})
      PROVE  Tracks(t)
  BY <1>8, BeginTracks DEF NextStage
<1>9. CASE NextStage(t, {}) /\ slot[t].st \in Live
  BY <1>9, BeginTracks DEF NextStage
<1>. QED
  BY <1>1, <1>2, <1>3, <1>4, <1>5, <1>6, <1>7, <1>8, <1>9

(* A reaction to an event keeps every engine in a place it can be in. *)
LEMMA TracksHome ==
    ASSUME FsmTypes, FreeIdle, Homing, NEW t \in Tags, Tracks(t),
           work'.cleanup = work.cleanup, pka_state' = pka_state,
           \/ pc = "idle" /\ pc' = "post"
           \/ pc = "ready" /\ pc' \in {"ready", "panic"}
           \/ pc = "tick" /\ pc' = "tick"
    PROVE  FreeIdle' /\ Homing'
<1>1. FreeIdle'
  BY DEF FreeIdle, Tracks
<1>2. ASSUME CleanupAlive', pc' # "panic", NEW e \in Engines, unit_tag'[e] # NoTag
      PROVE  HomeOf(e, unit_tag[e])'
  <2>1. CASE unit_tag'[e] = t /\ e \in slot'[t].own
    BY <2>1 DEF HomeOf
  <2>2. CASE unit_tag'[e] = unit_tag[e] /\ (e \in slot[t].own => e \in slot'[t].own)
    <3>1. CleanupAlive /\ pc # "panic"
      BY <1>2, TagFacts DEF CleanupAlive, Tracks
    <3>2. HomeOf(e, unit_tag[e]) /\ unit_tag[e] \in Tags
      BY <1>2, <2>2, <3>1 DEF Homing, FsmTypes, Units
    <3>. QED
      BY <2>2, <3>2 DEF HomeOf, Tracks
  <2>. QED
    BY <1>2, <2>1, <2>2 DEF Tracks
<1>. QED
  BY <1>1, <1>2 DEF Homing

(* So does the drop of a command, which queues its engines for the wipe. *)
LEMMA RetireHomes ==
    ASSUME FsmTypes, FreeIdle, Homing, NEW t \in Tags, slot[t].st \in Live, Retire(t),
           work'.cleanup = work.cleanup, pka_state' = pka_state,
           \/ pc = "idle" /\ pc' = "post"
           \/ pc = "tick" /\ pc' = "tick"
    PROVE  FreeIdle' /\ Homing'
<1>1. /\ slot'[t] = Empty /\ unit_tag' = unit_tag
      /\ \A x \in Tags : x # t => slot'[x] = slot[x]
      /\ cleanup_queue' = cleanup_queue \cup (slot[t].own \cap Engines)
      /\ free' \cap Engines \subseteq free
  BY UnitsAssumption DEF Retire, Vacate, Release, FsmTypes
<1>2. FreeIdle'
  BY <1>1 DEF FreeIdle
<1>3. ASSUME CleanupAlive', NEW e \in Engines, unit_tag'[e] # NoTag
      PROVE  HomeOf(e, unit_tag[e])'
  <2>1. CleanupAlive /\ pc # "panic" /\ slot'[t].st = "None"
    BY <1>1, <1>3, TagFacts DEF CleanupAlive, Empty
  <2>2. HomeOf(e, unit_tag[e]) /\ unit_tag[e] \in Tags
    BY <1>1, <1>3, <2>1 DEF Homing, FsmTypes, Units
  <2>. QED
    BY <1>1, <2>1, <2>2 DEF HomeOf
<1>. QED
  BY <1>2, <1>3 DEF Homing

(* The loop alone moves no engine; when it serves the next interrupt, the    *)
(* clean-up passes are behind it.                                            *)
LEMMA LoopHomes ==
    ASSUME FreeIdle, Homing, UNCHANGED <<slot, cleanup_queue, unitVars, pka_state>>,
           work'.cleanup = work.cleanup,
           \/ pc' = pc
           \/ pc' = "panic"
           \/ pc = "cleanup" /\ pc' = "ready" /\ work.cleanup = {}
           \/ pc = "ready" /\ pc' = "idle"
           \/ pc = "idle" /\ pc' \in {"tick", "post"}
           \/ pc = "tick" /\ pc' = "idle"
    PROVE  FreeIdle' /\ Homing'
BY DEF FreeIdle, Homing, HomeOf, CleanupAlive, unitVars

(* Every step leaves every engine whose driver holds a tag in its place. *)
LEMMA NextHomes == IInv /\ FreeIdle /\ Homing /\ [Next]_vars => FreeIdle' /\ Homing'
<1>. SUFFICES ASSUME FsmTypes, LoopTypes, Accounts, CopyUsedUp, FreeIdle, Homing,
                     [Next]_vars
              PROVE  FreeIdle' /\ Homing'
  BY TypeParts DEF IInv, Accounts, FsmTypes, LoopTypes, TypeOK
<1>1. CASE CleanupPass
  <2>1. /\ work'.cleanup = cleanup_queue /\ pc = "post" /\ pc' = "cleanup"
        /\ UNCHANGED <<slot, free, unit_tag, pka_state>>
    BY <1>1 DEF CleanupPass, LoopTypes, Work, unitVars
  <2>. QED
    BY <2>1 DEF FreeIdle, Homing, HomeOf, CleanupAlive
<1>2. CASE ReadyPass
  <2>1. work'.cleanup = work.cleanup /\ work.cleanup = {}
    BY <1>2 DEF ReadyPass, LoopTypes, Work
  <2>. QED
    BY <1>2, <2>1, LoopHomes DEF ReadyPass
<1>3. CASE OnReady
  <2>. DEFINE t == Head(work.ready)[1]
              r == Head(work.ready)[2]
  <2>1. t \in Tags /\ r \in ResIds
    <3>1. work.ready \in Seq(Tags \X ResIds) /\ work.ready # <<>>
      BY <1>3 DEF OnReady, LoopTypes, Work
    <3>2. Head(work.ready) \in Tags \X ResIds
      BY <3>1
    <3>. QED
      BY <3>2
  <2>2. \/ Stay
        \/ slot[t].st = "Wait" /\ Begin(t, r, {})
        \/ Unexpected(t)
    BY <1>3 DEF OnReady, Resume, Unexpected
  <2>3. Tracks(t)
    BY <2>1, <2>2, BeginTracks, ReactionTracks DEF Live
  <2>4. work'.cleanup = work.cleanup /\ pka_state' = pka_state
    BY <1>3 DEF OnReady, LoopTypes, Work
  <2>5. pc = "ready" /\ pc' \in {"ready", "panic"}
    BY <1>3 DEF OnReady
  <2>. HIDE DEF t, r
  <2>. QED
    BY <2>1, <2>3, <2>4, <2>5, TracksHome
<1>4. CASE Return
  BY <1>4, LoopHomes DEF Return, queueVars
<1>5. ASSUME NEW e \in Engines, OnCleanup(e)
      PROVE  FreeIdle' /\ Homing'
  <2>0. /\ e \in work.cleanup /\ work'.cleanup = work.cleanup \ {e}
        /\ pc = "cleanup" /\ pc' = "cleanup"
    BY <1>5 DEF OnCleanup, LoopTypes, Work
  <2>1. CASE WipeBegin(e)
    <3>1. e \notin pka_state /\ e \notin free /\ e \in Units
      BY <2>0 DEF Accounts, UnitAccounting, Pending, Units
    <3>2. /\ pka_state' = pka_state \cup {e} /\ UNCHANGED <<slot, free, cleanup_queue>>
          /\ unit_tag' = [unit_tag EXCEPT ![e] = CleanupTag]
      BY <2>1, <3>1 DEF WipeBegin, queueVars
    <3>3. unit_tag'[e] = CleanupTag /\ \A x \in Engines : x # e => unit_tag'[x] = unit_tag[x]
      BY <3>1, <3>2 DEF FsmTypes, Units
    <3>4. FreeIdle'
      BY <3>1, <3>2, <3>3 DEF FreeIdle
    <3>5. Homing'
      BY <2>0, <3>2, <3>3 DEF Homing, HomeOf, CleanupAlive
    <3>. QED
      BY <3>4, <3>5
  <2>2. CASE WipeFails(e)
    <3>1. /\ slot'[CleanupTag].st = "None" /\ unit_tag' = unit_tag
          /\ free' \cap Engines \subseteq free
      BY <2>2, TagFacts, UnitsAssumption DEF WipeFails, Retire, Vacate, Release, FsmTypes, Empty
    <3>. QED
      BY <3>1 DEF FreeIdle, Homing, CleanupAlive
  <2>3. CASE CleanupMisdelivered
    <3>1. Tracks(CleanupTag) /\ ~CleanupAlive
      BY <2>3, TagFacts, ReactionTracks DEF CleanupMisdelivered
    <3>. QED
      BY <3>1 DEF FreeIdle, Homing, CleanupAlive, Tracks
  <2>. QED
    BY <1>5, <2>1, <2>2, <2>3 DEF OnCleanup
<1>6. CASE OnTick
  <2>1. PICK t \in work.tick : CheckAlive(t) /\ work' = [work EXCEPT !.tick = @ \ {t}]
    BY <1>6 DEF OnTick
  <2>2. /\ t \in Tags /\ work'.cleanup = work.cleanup
        /\ pka_state' = pka_state /\ pc = "tick" /\ pc' = "tick"
    BY <1>6, <2>1 DEF OnTick, LoopTypes, Work
  <2>3. CASE slot[t].st \in {"In", "Out", "Undo"} /\ Retire(t)
    BY <2>2, <2>3, RetireHomes DEF Live
  <2>4. CASE Stay \/ (slot[t].st \in Live /\ ToOut(t))
    BY <2>2, <2>4, ReactionTracks, TracksHome
  <2>. QED
    BY <2>1, <2>3, <2>4 DEF CheckAlive, Live
<1>7. CASE TickEnd
  BY <1>7, LoopHomes DEF TickEnd, queueVars
<1>8. ASSUME NEW t \in Tags, StartCmd(t)
      PROVE  FreeIdle' /\ Homing'
  <2>1. Tracks(t)
    BY <1>8, ReactionTracks DEF StartCmd, Live
  <2>. QED
    BY <1>8, <2>1, TracksHome DEF StartCmd, Deliver
<1>9. ASSUME NEW t \in Tags, TxComplete(t)
      PROVE  FreeIdle' /\ Homing'
  BY <1>9, RetireHomes DEF TxComplete, Deliver, Live
<1>10. ASSUME NEW e \in Engines, PkaDone(e)
       PROVE  FreeIdle' /\ Homing'
  <2>1. unit_tag[e] \in Tags
    BY <1>10 DEF PkaDone, FsmTypes, Units
  <2>2. Tracks(unit_tag[e])
    BY <1>10, <2>1, ReactionTracks DEF PkaDone, Live
  <2>. QED
    BY <1>10, <2>1, <2>2, TracksHome DEF PkaDone, Deliver
<1>11. ASSUME NEW e \in Engines, WipeDone(e)
       PROVE  FreeIdle' /\ Homing'
  <2>1. /\ UNCHANGED <<slot, cleanup_queue, work>>
        /\ pka_state' = pka_state \ {e} /\ free' = free \cup {e}
        /\ pc = "idle" /\ pc' = "post"
    BY <1>11 DEF WipeDone, Deliver
  <2>2. \A x \in Engines : unit_tag'[x] = IF x = e THEN NoTag ELSE unit_tag[x]
    BY <1>11 DEF WipeDone, Ended, Units
  <2>3. FreeIdle'
    BY <2>1, <2>2 DEF FreeIdle
  <2>4. Homing'
    BY <2>1, <2>2 DEF Homing, HomeOf, CleanupAlive
  <2>. QED
    BY <2>3, <2>4
<1>12. ASSUME NEW e \in Engines, WipeError(e)
       PROVE  FreeIdle' /\ Homing'
  BY <1>12, LoopHomes DEF WipeError, queueVars
<1>19. ASSUME NEW e \in Engines, WipeEndFails(e)
       PROVE  FreeIdle' /\ Homing'
  <2>1. /\ slot'[CleanupTag].st = "None" /\ free' = free
        /\ \A x \in Engines : unit_tag'[x] \in {NoTag, unit_tag[x]}
    BY <1>19, TagFacts DEF WipeEndFails, Vacate, Ended, FsmTypes, Empty, Units
  <2>. QED
    BY <2>1 DEF FreeIdle, Homing, CleanupAlive
<1>20. CASE RxRefused
  BY <1>20, LoopHomes DEF RxRefused, queueVars
<1>13. ASSUME NEW c \in IpcIds, IpcResponse(c)
       PROVE  FreeIdle' /\ Homing'
  <2>1. unit_tag[c] \in Tags
    BY <1>13 DEF IpcResponse, FsmTypes, Units
  <2>2. Tracks(unit_tag[c])
    BY <1>13, <2>1, ReactionTracks DEF IpcResponse, Live
  <2>. QED
    BY <1>13, <2>1, <2>2, TracksHome DEF IpcResponse, Deliver
<1>14. CASE RxReady
  <2>. DEFINE n == Len(free_tags)
              t == free_tags[n]
  <2>1. free_tags \in Seq(Tags) /\ n \in Nat \ {0} /\ t \in Tags
    BY <1>14 DEF RxReady, FsmTypes
  <2>2. slot[t].own = {}
    BY <2>1 DEF Accounts, TagAccounting, IdleOwnsNothing
  <2>3. /\ slot'[t].own = {} /\ slot'[t].st \in {"In", "Out"}
        /\ \A x \in Tags : x # t => slot'[x] = slot[x]
    BY <1>14, <2>1 DEF RxReady, FsmTypes
  <2>4. /\ UNCHANGED <<free, unit_tag, cleanup_queue, pka_state, work>>
        /\ pc = "idle" /\ pc' = "post"
    BY <1>14 DEF RxReady, queueVars, unitVars
  <2>. HIDE DEF t, n
  <2>5. \A x \in Tags : slot'[x].own = slot[x].own
    BY <2>1, <2>2, <2>3
  <2>6. CleanupAlive' => CleanupAlive
    BY <2>3, TagFacts DEF CleanupAlive
  <2>7. \A x \in Engines : unit_tag[x] # NoTag => unit_tag[x] \in Tags
    BY DEF FsmTypes, Units
  <2>8. Homing'
    BY <2>4, <2>5, <2>6, <2>7 DEF Homing, HomeOf
  <2>. QED
    BY <2>4, <2>8 DEF FreeIdle
<1>15. CASE Drain
  BY <1>15, LoopHomes DEF Drain, loopVars, queueVars
<1>16. CASE Tick
  <2>1. work'.cleanup = work.cleanup
    BY <1>16 DEF Tick, LoopTypes, Work
  <2>. QED
    BY <1>16, <2>1, LoopHomes DEF Tick, queueVars
<1>18. ASSUME NEW t \in Tags, NEW c \in IpcIds, OutFails(t, c)
       PROVE  FreeIdle' /\ Homing'
  <2>1. Tracks(t)
    BY <1>18, ReactionTracks DEF OutFails, Live
  <2>. QED
    BY <1>18, <2>1, TracksHome DEF OutFails, Deliver
<1>17. CASE UNCHANGED vars
  BY <1>17, LoopHomes DEF vars, queueVars, loopVars
<1>. QED
  BY <1>1, <1>2, <1>3, <1>4, <1>5, <1>6, <1>7, <1>8, <1>9, <1>10, <1>11, <1>12,
     <1>13, <1>14, <1>15, <1>16, <1>17, <1>18, <1>19, <1>20 DEF Next, Core, Serve

(* For every number of slots and engines, with time-outs, failing begin      *)
(* calls and failing wipes: on_pka delivers the completion of an engine to   *)
(* the command that owns it, to the clean-up FSM, or to a slot that is       *)
(* empty, never to the command that took over the tag of a timed-out one.    *)
THEOREM CompletionsReachOwners == Spec => []CompletionReachesOwner
<1>1. Init => FreeIdle /\ Homing
  BY DEF Init, FreeIdle, Homing, Units
<1>2. IInv /\ FreeIdle /\ Homing => CompletionReachesOwner
  BY DEF CompletionReachesOwner, Homing, HomeOf
<1>. QED
  BY <1>1, <1>2, InvariantHolds, NextHomes, PTL DEF Spec

-----------------------------------------------------------------------------
(* Wake-ups, in the build without time-outs whose wipes do not fail.  The    *)
(* queues are reasoned about as values: sl, wt, rq, wr and fr stand for      *)
(* slot, waiters, ready_queue, work.ready and free.                          *)

Calm == ~TimeoutsEnabled /\ ~WipeMayFail

Entries(q) == {q[i] : i \in 1 .. Len(q)}

(* No resource, or no tag, is queued twice *)
OncePerRes(q) == \A i, j \in 1 .. Len(q) : q[i][2] = q[j][2] => i = j
Distinct(q) == \A i, j \in 1 .. Len(q) : q[i] = q[j] => i = j

(* A wake-up for resource r is under way *)
DueIn(r, rq, wr) == \E x \in Entries(rq) \cup Entries(wr) : x[2] = r

(* Tag t stands in no queue *)
Absent(t, wt, rq, wr) ==
    /\ \A x \in Entries(rq) \cup Entries(wr) : x[1] # t
    /\ \A r \in ResIds : t \notin Entries(wt[r])

(* Whoever stands in a queue waits for that very resource, stands in one     *)
(* queue only, and is the only one woken for it.                             *)
QueueOK(sl, wt, rq, wr) ==
    /\ OncePerRes(rq) /\ OncePerRes(wr)
    /\ \A x \in Entries(rq), y \in Entries(wr) : x[2] # y[2]
    /\ \A x \in Entries(rq) \cup Entries(wr) : sl[x[1]].st = "Wait" /\ sl[x[1]].res = x[2]
    /\ \A r \in ResIds :
         /\ Distinct(wt[r])
         /\ \A t \in Entries(wt[r]) : /\ sl[t].st = "Wait" /\ sl[t].res = r
                                      /\ \A x \in Entries(rq) \cup Entries(wr) : x[1] # t

(* What an entry of a sequence is after an Append. *)
LEMMA EntriesAppend ==
    ASSUME NEW S, NEW q \in Seq(S), NEW x \in S
    PROVE  Entries(Append(q, x)) = Entries(q) \cup {x}
<1>1. /\ Len(Append(q, x)) = Len(q) + 1 /\ Len(q) \in Nat
      /\ Append(q, x)[Len(q) + 1] = x
      /\ \A i \in 1 .. Len(q) : Append(q, x)[i] = q[i]
  OBVIOUS
<1>. DEFINE a == Append(q, x)
<1>. HIDE DEF a
<1>2. ASSUME NEW y \in Entries(a) PROVE y \in Entries(q) \cup {x}
  <2>1. PICK i \in 1 .. Len(a) : y = a[i]
    BY DEF Entries
  <2>2. i \in 1 .. Len(q) \/ i = Len(q) + 1
    BY <1>1 DEF a
  <2>. QED
    BY <1>1, <2>1, <2>2 DEF Entries, a
<1>3. ASSUME NEW y \in Entries(q) PROVE y \in Entries(a)
  <2>1. PICK i \in 1 .. Len(q) : y = q[i]
    BY DEF Entries
  <2>2. i \in 1 .. Len(a) /\ a[i] = y
    BY <1>1, <2>1 DEF a
  <2>. QED
    BY <2>2 DEF Entries
<1>4. x \in Entries(a)
  <2>1. Len(q) + 1 \in 1 .. Len(a) /\ a[Len(q) + 1] = x
    BY <1>1 DEF a
  <2>. QED
    BY <2>1 DEF Entries
<1>. QED
  BY <1>2, <1>3, <1>4 DEF a

(* ... and after a Tail, with what is left behind the head. *)
LEMMA EntriesTail ==
    ASSUME NEW S, NEW q \in Seq(S), q # <<>>
    PROVE  /\ Entries(q) = {Head(q)} \cup Entries(Tail(q))
           /\ Distinct(q) => Distinct(Tail(q)) /\ Head(q) \notin Entries(Tail(q))
           /\ OncePerRes(q) => /\ OncePerRes(Tail(q))
                               /\ \A x \in Entries(Tail(q)) : x[2] # Head(q)[2]
<1>1. /\ Len(q) \in Nat \ {0} /\ Len(Tail(q)) = Len(q) - 1 /\ Head(q) = q[1]
      /\ \A i \in 1 .. Len(Tail(q)) : Tail(q)[i] = q[i + 1]
  OBVIOUS
<1>. DEFINE z == Tail(q)
            h == Head(q)
<1>2. /\ Len(q) \in Nat \ {0} /\ Len(z) = Len(q) - 1 /\ h = q[1]
      /\ \A i \in 1 .. Len(z) : z[i] = q[i + 1]
  BY <1>1
<1>. HIDE DEF z, h
<1>3. ASSUME NEW y \in Entries(q) PROVE y \in {h} \cup Entries(z)
  <2>1. PICK i \in 1 .. Len(q) : y = q[i]
    BY DEF Entries
  <2>2. CASE i = 1
    BY <1>2, <2>1, <2>2
  <2>3. CASE i # 1
    <3>1. i - 1 \in 1 .. Len(z) /\ z[i - 1] = q[i]
      BY <1>2, <2>1, <2>3
    <3>. QED
      BY <2>1, <3>1 DEF Entries
  <2>. QED
    BY <2>2, <2>3
<1>4. h \in Entries(q)
  <2>1. 1 \in 1 .. Len(q)
    BY <1>2
  <2>. QED
    BY <1>2, <2>1 DEF Entries
<1>5. ASSUME NEW y \in Entries(z)
      PROVE  \E i \in 2 .. Len(q) : y = q[i]
  <2>1. PICK i \in 1 .. Len(z) : y = z[i]
    BY DEF Entries
  <2>2. i + 1 \in 2 .. Len(q) /\ y = q[i + 1]
    BY <1>2, <2>1
  <2>. QED
    BY <2>2
<1>6. \A i \in 2 .. Len(q) : i \in 1 .. Len(q) /\ i # 1
  BY <1>2
<1>7. Entries(z) \subseteq Entries(q)
  BY <1>5, <1>6 DEF Entries
<1>8. Distinct(q) => Distinct(z) /\ h \notin Entries(z)
  <2>1. ASSUME Distinct(q) PROVE Distinct(z)
    BY <1>2, <2>1 DEF Distinct
  <2>2. ASSUME Distinct(q), h \in Entries(z) PROVE FALSE
    <3>1. PICK i \in 2 .. Len(q) : h = q[i]
      BY <1>5, <2>2
    <3>2. i \in 1 .. Len(q) /\ 1 \in 1 .. Len(q) /\ i # 1 /\ q[i] = q[1]
      BY <1>2, <3>1
    <3>. QED
      BY <2>2, <3>2 DEF Distinct
  <2>. QED
    BY <2>1, <2>2
<1>9. OncePerRes(q) => OncePerRes(z) /\ \A x \in Entries(z) : x[2] # h[2]
  <2>1. ASSUME OncePerRes(q) PROVE OncePerRes(z)
    BY <1>2, <2>1 DEF OncePerRes
  <2>2. ASSUME OncePerRes(q), NEW x \in Entries(z), x[2] = h[2] PROVE FALSE
    <3>1. PICK i \in 2 .. Len(q) : x = q[i]
      BY <1>5, <2>2
    <3>2. i \in 1 .. Len(q) /\ 1 \in 1 .. Len(q) /\ i # 1
      BY <1>2
    <3>3. q[i][2] = q[1][2]
      BY <1>2, <2>2, <3>1
    <3>. QED
      BY <2>2, <3>2, <3>3 DEF OncePerRes
  <2>. QED
    BY <2>1, <2>2
<1>. QED
  BY <1>3, <1>4, <1>7, <1>8, <1>9 DEF z, h

(* Appending a resource, or a tag, that is not queued yet. *)
LEMMA AppendOnce ==
    ASSUME NEW S, NEW q \in Seq(S), NEW y \in S
    PROVE  /\ OncePerRes(q) /\ (\A x \in Entries(q) : x[2] # y[2]) => OncePerRes(Append(q, y))
           /\ Distinct(q) /\ y \notin Entries(q) => Distinct(Append(q, y))
<1>. DEFINE a == Append(q, y)
<1>1. /\ Len(a) = Len(q) + 1 /\ Len(q) \in Nat /\ a[Len(q) + 1] = y
      /\ \A i \in 1 .. Len(q) : a[i] = q[i]
  OBVIOUS
<1>. HIDE DEF a
<1>2. \A i \in 1 .. Len(a) : (i \in 1 .. Len(q) /\ a[i] \in Entries(q)) \/ i = Len(q) + 1
  BY <1>1 DEF Entries
<1>3. OncePerRes(q) /\ (\A x \in Entries(q) : x[2] # y[2]) => OncePerRes(a)
  BY <1>1, <1>2 DEF OncePerRes
<1>4. Distinct(q) /\ y \notin Entries(q) => Distinct(a)
  BY <1>1, <1>2 DEF Distinct
<1>. QED
  BY <1>3, <1>4 DEF a

(* A command that does not wait stands in no queue. *)
LEMMA NotWaiting ==
    ASSUME NEW sl, NEW wt, NEW rq, NEW wr, QueueOK(sl, wt, rq, wr),
           NEW t, sl[t].st # "Wait"
    PROVE  Absent(t, wt, rq, wr)
BY DEF QueueOK, Absent

(* A tag that stands in no queue may change its slot. *)
LEMMA QueueSlot ==
    ASSUME NEW sl, NEW wt \in [ResIds -> Seq(Tags)], NEW rq \in Seq(Tags \X ResIds),
           NEW wr \in Seq(Tags \X ResIds), QueueOK(sl, wt, rq, wr),
           NEW t, Absent(t, wt, rq, wr),
           NEW sm, \A x \in Tags : x # t => sm[x] = sl[x]
    PROVE  QueueOK(sm, wt, rq, wr)
<1>1. \A x \in Entries(rq) \cup Entries(wr) : x[1] \in Tags /\ x[1] # t
  BY DEF Entries, Absent
<1>2. \A r \in ResIds : \A x \in Entries(wt[r]) : x \in Tags /\ x # t
  BY DEF Entries, Absent
<1>3. \A x \in Entries(rq) \cup Entries(wr) : sm[x[1]].st = "Wait" /\ sm[x[1]].res = x[2]
  BY SMTT(30), <1>1 DEF QueueOK
<1>4. \A r \in ResIds : \A x \in Entries(wt[r]) : sm[x].st = "Wait" /\ sm[x].res = r
  BY SMTT(30), <1>2 DEF QueueOK
<1>. QED
  BY <1>3, <1>4 DEF QueueOK

(* WakeNext on values *)
Wakes(r, wt, rq, wu, rp) ==
    \/ wt[r] = <<>> /\ wu = wt /\ rp = rq
    \/ /\ wt[r] # <<>>
       /\ wu = [wt EXCEPT ![r] = Tail(wt[r])]
       /\ rp = Append(rq, <<Head(wt[r]), r>>)

LEMMA WakesNext ==
    ASSUME NEW r, WakeNext(r)
    PROVE  Wakes(r, waiters, ready_queue, waiters', ready_queue')
BY DEF WakeNext, Wakes

(* The first waiter of r is woken, when no wake-up for r is under way. *)
LEMMA QueueWake ==
    ASSUME NEW sl, NEW wt \in [ResIds -> Seq(Tags)], NEW rq \in Seq(Tags \X ResIds),
           NEW wr \in Seq(Tags \X ResIds), QueueOK(sl, wt, rq, wr),
           NEW r \in ResIds, wt[r] # <<>>, ~DueIn(r, rq, wr),
           NEW wu, NEW rp, Wakes(r, wt, rq, wu, rp)
    PROVE  /\ QueueOK(sl, wu, rp, wr)
           /\ \A t : Absent(t, wt, rq, wr) => Absent(t, wu, rp, wr)
<1>0. wu = [wt EXCEPT ![r] = Tail(wt[r])] /\ rp = Append(rq, <<Head(wt[r]), r>>)
  BY DEF Wakes
<1>1. PICK h : h = Head(wt[r])
  OBVIOUS
<1>2. PICK y : y = <<h, r>>
  OBVIOUS
<1>3. wt[r] \in Seq(Tags) /\ h \in Tags /\ y \in Tags \X ResIds /\ y[1] = h /\ y[2] = r
  BY <1>1, <1>2
<1>4. /\ Entries(wt[r]) = {h} \cup Entries(wu[r]) /\ wu[r] = Tail(wt[r])
      /\ \A s \in ResIds : s # r => wu[s] = wt[s]
  BY <1>0, <1>1, <1>3, EntriesTail
<1>5. Distinct(wu[r]) /\ h \notin Entries(wu[r])
  BY <1>1, <1>3, <1>4, EntriesTail DEF QueueOK
<1>6. Entries(rp) = Entries(rq) \cup {y}
  <2>1. PICK S : S = Tags \X ResIds
    OBVIOUS
  <2>2. rp = Append(rq, y) /\ y \in S /\ rq \in Seq(S)
    BY <1>0, <1>1, <1>2, <1>3, <2>1
  <2>. QED
    BY <2>2, EntriesAppend
<1>7. \A x \in Entries(rq) \cup Entries(wr) : x[2] # r
  BY DEF DueIn
<1>8. OncePerRes(rp)
  BY <1>0, <1>1, <1>2, <1>3, <1>7, AppendOnce DEF QueueOK
<1>9. sl[h].st = "Wait" /\ sl[h].res = r
  BY <1>4 DEF QueueOK
<1>10. \A s \in ResIds : Entries(wu[s]) \subseteq Entries(wt[s]) /\ h \notin Entries(wu[s])
  <2>1. ASSUME NEW s \in ResIds, s # r PROVE h \notin Entries(wt[s])
    BY <1>9, <2>1 DEF QueueOK
  <2>. QED
    BY <1>4, <1>5, <2>1
<1>11. \A s \in ResIds : Distinct(wu[s])
  BY <1>4, <1>5 DEF QueueOK
<1>12. \A x \in Entries(rp), z \in Entries(wr) : x[2] # z[2]
  BY <1>3, <1>6, <1>7 DEF QueueOK
<1>13. \A x \in Entries(rp) \cup Entries(wr) : sl[x[1]].st = "Wait" /\ sl[x[1]].res = x[2]
  BY <1>3, <1>6, <1>9 DEF QueueOK
<1>14. ASSUME NEW s \in ResIds, NEW t \in Entries(wu[s])
       PROVE  /\ sl[t].st = "Wait" /\ sl[t].res = s
              /\ \A x \in Entries(rp) \cup Entries(wr) : x[1] # t
  <2>1. t \in Entries(wt[s]) /\ t # h
    BY <1>10, <1>14
  <2>2. /\ sl[t].st = "Wait" /\ sl[t].res = s
        /\ \A x \in Entries(rq) \cup Entries(wr) : x[1] # t
    BY <2>1 DEF QueueOK
  <2>. QED
    BY <1>3, <1>6, <2>1, <2>2
<1>15. QueueOK(sl, wu, rp, wr)
  BY <1>8, <1>11, <1>12, <1>13, <1>14 DEF QueueOK
<1>16. ASSUME NEW t, Absent(t, wt, rq, wr) PROVE Absent(t, wu, rp, wr)
  <2>1. t # h
    BY <1>4, <1>16 DEF Absent
  <2>. QED
    BY <1>3, <1>6, <1>10, <1>16, <2>1 DEF Absent
<1>. QED
  BY <1>15, <1>16

(* A command that stood in no queue joins the waiters of r. *)
LEMMA QueueJoin ==
    ASSUME NEW sl, NEW wt \in [ResIds -> Seq(Tags)], NEW rq \in Seq(Tags \X ResIds),
           NEW wr \in Seq(Tags \X ResIds), QueueOK(sl, wt, rq, wr),
           NEW t \in Tags, NEW r \in ResIds, Absent(t, wt, rq, wr),
           sl[t].st = "Wait", sl[t].res = r,
           NEW wu, wu = [wt EXCEPT ![r] = Append(wt[r], t)]
    PROVE  QueueOK(sl, wu, rq, wr)
<1>1. wt[r] \in Seq(Tags) /\ wu[r] = Append(wt[r], t) /\ \A s \in ResIds : s # r => wu[s] = wt[s]
  OBVIOUS
<1>2. Entries(wu[r]) = Entries(wt[r]) \cup {t}
  BY <1>1, EntriesAppend
<1>3. Distinct(wu[r])
  BY <1>1, AppendOnce DEF QueueOK, Absent
<1>4. \A s \in ResIds : Distinct(wu[s])
  BY <1>1, <1>3 DEF QueueOK
<1>5. ASSUME NEW s \in ResIds, NEW a \in Entries(wu[s])
      PROVE  /\ sl[a].st = "Wait" /\ sl[a].res = s
             /\ \A x \in Entries(rq) \cup Entries(wr) : x[1] # a
  BY <1>1, <1>2, <1>5 DEF QueueOK, Absent
<1>. QED
  BY <1>4, <1>5 DEF QueueOK

(* The first entry of wr is h, the others are wz *)
Pops(wr, h, wz) == wr # <<>> /\ h = Head(wr) /\ wz = Tail(wr)

(* What is known of the command that is taken out, and of the others *)
Popped(sl, wt, rq, wr, h, wz) ==
    /\ QueueOK(sl, wt, rq, wz)
    /\ Absent(h[1], wt, rq, wz)
    /\ ~DueIn(h[2], rq, wz)
    /\ sl[h[1]].st = "Wait" /\ sl[h[1]].res = h[2]
    /\ \A x \in Entries(rq) : x[2] # h[2]
    /\ \A r : DueIn(r, rq, wr) <=> r = h[2] \/ DueIn(r, rq, wz)

(* The next woken command is taken out of the copy: it stands in no queue    *)
(* now, and nobody else is woken for its resource.                           *)
LEMMA QueuePop ==
    ASSUME NEW sl, NEW wt \in [ResIds -> Seq(Tags)], NEW rq \in Seq(Tags \X ResIds),
           NEW wr \in Seq(Tags \X ResIds), QueueOK(sl, wt, rq, wr),
           NEW h, NEW wz, Pops(wr, h, wz)
    PROVE  Popped(sl, wt, rq, wr, h, wz)
<1>1. /\ Entries(wr) = {h} \cup Entries(wz) /\ OncePerRes(wz)
      /\ \A x \in Entries(wz) : x[2] # h[2]
  BY EntriesTail DEF QueueOK, Pops
<1>2. \A x \in Entries(rq) : x[2] # h[2]
  BY <1>1 DEF QueueOK
<1>3. sl[h[1]].st = "Wait" /\ sl[h[1]].res = h[2]
  BY <1>1 DEF QueueOK
<1>4. QueueOK(sl, wt, rq, wz)
  BY <1>1 DEF QueueOK
<1>5. \A x \in Entries(rq) \cup Entries(wz) : x[1] # h[1]
  <2>1. \A x \in Entries(rq) \cup Entries(wz) : x[2] # h[2] /\ sl[x[1]].res = x[2]
    BY <1>1, <1>2, <1>4 DEF QueueOK
  <2>. QED
    BY <1>3, <2>1
<1>6. \A r \in ResIds : h[1] \notin Entries(wt[r])
  BY <1>1 DEF QueueOK
<1>. QED
  BY <1>1, <1>2, <1>3, <1>4, <1>5, <1>6 DEF Popped, Absent, DueIn

(* The ready pass copies the queue. *)
LEMMA QueueCopy ==
    ASSUME NEW sl, NEW wt, NEW rq, QueueOK(sl, wt, rq, <<>>)
    PROVE  /\ QueueOK(sl, wt, <<>>, rq)
           /\ \A r : DueIn(r, <<>>, rq) <=> DueIn(r, rq, <<>>)
<1>1. Entries(<<>>) = {} /\ OncePerRes(<<>>)
  BY DEF Entries, OncePerRes
<1>. QED
  BY <1>1 DEF QueueOK, DueIn

(* A wake-up for r finds a unit of r; and, if every woken command asks       *)
(* again, while somebody waits for r without having been woken, at most the  *)
(* unit of that wake-up is free.                                             *)
GrantAt(r, fr, wt, rq, wr) ==
    /\ DueIn(r, rq, wr) => fr \cap UnitsOf(r) # {}
    /\ ~Fickle /\ wt[r] # <<>> => \A u, v \in fr \cap UnitsOf(r) : DueIn(r, rq, wr) /\ u = v

GrantOK(fr, wt, rq, wr) == \A r \in ResIds : GrantAt(r, fr, wt, rq, wr)

(* Two resources share no unit. *)
LEMMA UnitsApart ==
    ASSUME NEW r \in ResIds, NEW s \in ResIds, r # s
    PROVE  UnitsOf(r) \cap UnitsOf(s) = {}
BY UnitsAssumption DEF ResIds, UnitsOf

(* Whoever is woken for a unit that has become free, or stays free because   *)
(* its begin call failed, will find it.                                      *)
LEMMA WakeOK ==
    ASSUME NEW sl, NEW wt \in [ResIds -> Seq(Tags)], NEW rq \in Seq(Tags \X ResIds),
           NEW wr \in Seq(Tags \X ResIds), QueueOK(sl, wt, rq, wr),
           NEW r \in ResIds, ~DueIn(r, rq, wr),
           NEW wu, NEW rp, Wakes(r, wt, rq, wu, rp),
           NEW fr, fr \cap UnitsOf(r) # {},
           ~Fickle /\ wt[r] # <<>> => \A u, v \in fr \cap UnitsOf(r) : u = v,
           \A s \in ResIds : s # r => GrantAt(s, fr, wt, rq, wr)
    PROVE  /\ QueueOK(sl, wu, rp, wr) /\ GrantOK(fr, wu, rp, wr)
           /\ \A t : Absent(t, wt, rq, wr) => Absent(t, wu, rp, wr)
<1>1. CASE wt[r] = <<>> /\ wu = wt /\ rp = rq
  BY <1>1 DEF GrantOK, GrantAt
<1>2. CASE /\ wt[r] # <<>>
           /\ wu = [wt EXCEPT ![r] = Tail(wt[r])]
           /\ rp = Append(rq, <<Head(wt[r]), r>>)
  <2>0. wt[r] # <<>>
    BY <1>2
  <2>1. /\ QueueOK(sl, wu, rp, wr)
        /\ \A t : Absent(t, wt, rq, wr) => Absent(t, wu, rp, wr)
    BY <2>0, QueueWake
  <2>2. PICK y : y = <<Head(wt[r]), r>>
    OBVIOUS
  <2>3. y[2] = r /\ y \in Tags \X ResIds /\ rp = Append(rq, y)
    BY <1>2, <2>2
  <2>4. Entries(rp) = Entries(rq) \cup {y}
    BY SMTT(30), <2>3, EntriesAppend
  <2>5. DueIn(r, rp, wr) /\ \A s : s # r => (DueIn(s, rp, wr) <=> DueIn(s, rq, wr))
    BY <2>3, <2>4 DEF DueIn
  <2>6. \A s \in ResIds : s # r => wu[s] = wt[s]
    BY <1>2
  <2>7. GrantAt(r, fr, wu, rp, wr)
    BY <1>2, <2>5 DEF GrantAt
  <2>8. ASSUME NEW s \in ResIds, s # r PROVE GrantAt(s, fr, wu, rp, wr)
    BY <2>5, <2>6, <2>8 DEF GrantAt
  <2>. QED
    BY <2>1, <2>7, <2>8 DEF GrantOK
<1>. QED
  BY <1>1, <1>2 DEF Wakes

(* A unit of r is taken when no other wake-up for r is under way. *)
LEMMA TakeOK ==
    ASSUME NEW wt, NEW rq, NEW wr, NEW r \in ResIds, ~DueIn(r, rq, wr),
           NEW fr, NEW u \in fr \cap UnitsOf(r), NEW fq, fq = fr \ {u},
           ~Fickle /\ wt[r] # <<>> => \A v, w \in fr \cap UnitsOf(r) : v = w,
           \A s \in ResIds : s # r => GrantAt(s, fr, wt, rq, wr)
    PROVE  GrantOK(fq, wt, rq, wr)
<1>1. GrantAt(r, fq, wt, rq, wr)
  BY DEF GrantAt
<1>2. ASSUME NEW s \in ResIds, s # r PROVE GrantAt(s, fq, wt, rq, wr)
  <2>1. fq \cap UnitsOf(s) = fr \cap UnitsOf(s)
    BY <1>2, UnitsApart
  <2>. QED
    BY <1>2, <2>1 DEF GrantAt
<1>. QED
  BY <1>1, <1>2 DEF GrantOK

(* CmdResourceImpl::acquire in terms of single units and wake-ups. *)
LEMMA AcquireFacts ==
    ASSUME FsmTypes, NEW r \in ResIds
    PROVE  /\ CanAcquire(r) => free \cap UnitsOf(r) # {}
           /\ CanAcquire(r) /\ r # "Pka" => \A x \in Entries(ready_queue) : x[2] # r
           /\ ~CanAcquire(r) => \A u, v \in free \cap UnitsOf(r) :
                                    u = v /\ \E x \in Entries(ready_queue) : x[2] = r
           /\ free \cap UnitsOf(r) # {} /\ (\A x \in Entries(ready_queue) : x[2] # r)
                => CanAcquire(r)
<1>. DEFINE F == free \cap UnitsOf(r)
<1>1. IsFiniteSet(F)
  <2>1. IsFiniteSet(UnitsOf(r))
    BY FiniteAssumption, FS_Singleton DEF UnitsOf
  <2>. QED
    BY <2>1, FS_Intersection
<1>2. Transferred(r) <=> \E x \in Entries(ready_queue) : x[2] = r
  BY DEF Transferred, Entries
<1>. HIDE DEF F
<1>3. Cardinality(F) \in Nat /\ (Cardinality(F) = 0 <=> F = {})
  BY <1>1, FS_CardinalityType, FS_EmptySet
<1>4. CanAcquire(r) <=> Cardinality(F) > 1 \/ (Cardinality(F) = 1 /\ ~Transferred(r))
  BY DEF CanAcquire, F
<1>5. r # "Pka" => Cardinality(F) <= 1
  <2>1. ASSUME r # "Pka", F # {} PROVE F = {r}
    BY <2>1 DEF F, UnitsOf
  <2>2. F = {} => Cardinality(F) <= 1
    BY <1>3
  <2>3. Cardinality({r}) = 1
    BY FS_Singleton
  <2>4. ASSUME r # "Pka", F # {} PROVE Cardinality(F) <= 1
    BY <2>1, <2>3, <2>4
  <2>. QED
    BY <2>2, <2>4
<1>6. Cardinality(F) = 1 => \A u, v \in F : u = v
  <2>1. Cardinality(F) = 1 => \E x : F = {x}
    BY <1>1, FS_Singleton
  <2>. QED
    BY <2>1
<1>. QED
  BY <1>2, <1>3, <1>4, <1>5, <1>6 DEF F

(* The queues, and the units of the wake-ups, after a step that leaves wr in *)
(* the copy of the ready queue.                                              *)
Fine(wr) == /\ QueueOK(slot, waiters, ready_queue, wr)
            /\ GrantOK(free, waiters, ready_queue, wr)
FineNext(wr) == /\ QueueOK(slot', waiters', ready_queue', wr)
                /\ GrantOK(free', waiters', ready_queue', wr)

(* A command that waits for nothing changes its slot. *)
LEMMA QuietFine ==
    ASSUME FsmTypes, NEW wr \in Seq(Tags \X ResIds), Fine(wr),
           NEW t \in Tags, slot[t].st # "Wait",
           \A x \in Tags : x # t => slot'[x] = slot[x],
           UNCHANGED <<waiters, ready_queue, free>>
    PROVE  FineNext(wr)
<1>1. Absent(t, waiters, ready_queue, wr)
  BY NotWaiting DEF Fine
<1>2. /\ waiters \in [ResIds -> Seq(Tags)] /\ ready_queue \in Seq(Tags \X ResIds)
      /\ QueueOK(slot, waiters, ready_queue, wr)
  BY DEF FsmTypes, Fine
<1>3. QueueOK(slot', waiters, ready_queue, wr)
  BY <1>1, <1>2, QueueSlot
<1>. QED
  BY <1>3 DEF Fine, FineNext

(* A command that waits for nothing drops the refs in owned, with at most    *)
(* one channel among them.                                                   *)
LEMMA ReleaseFine ==
    ASSUME FsmTypes, NEW wr \in Seq(Tags \X ResIds), Fine(wr),
           NEW t \in Tags, slot[t].st # "Wait",
           \A x \in Tags : x # t => slot'[x] = slot[x],
           NEW owned, owned \cap free = {}, \A u, v \in owned \cap IpcIds : u = v,
           Release(owned)
    PROVE  FineNext(wr)
<1>1. CASE owned \cap IpcIds = {}
  <2>1. free' = free /\ UNCHANGED <<waiters, ready_queue>>
    BY <1>1 DEF Release
  <2>. QED
    BY <2>1, QuietFine
<1>2. CASE owned \cap IpcIds # {}
  <2>1. PICK c \in owned \cap IpcIds : WakeNext(c)
    BY <1>2 DEF Release
  <2>2. /\ free' = free \cup {c} /\ c \notin free /\ c \in ResIds /\ c # "Pka"
        /\ UnitsOf(c) = {c}
    BY <2>1, UnitsAssumption DEF Release, ResIds, UnitsOf
  <2>3. Wakes(c, waiters, ready_queue, waiters', ready_queue')
    BY <2>1, WakesNext
  <2>4. Absent(t, waiters, ready_queue, wr)
    BY NotWaiting DEF Fine
  <2>5. /\ waiters \in [ResIds -> Seq(Tags)] /\ ready_queue \in Seq(Tags \X ResIds)
        /\ QueueOK(slot, waiters, ready_queue, wr)
        /\ \A s \in ResIds : GrantAt(s, free, waiters, ready_queue, wr)
    BY DEF FsmTypes, Fine, GrantOK
  <2>6. QueueOK(slot', waiters, ready_queue, wr)
    BY <2>4, <2>5, QueueSlot
  <2>7. ~DueIn(c, ready_queue, wr)
    BY <2>2, <2>5 DEF GrantAt
  <2>8. PICK fr : fr = free'
    OBVIOUS
  <2>9. fr \cap UnitsOf(c) # {} /\ \A u, v \in fr \cap UnitsOf(c) : u = v
    BY <2>2, <2>8
  <2>10. ASSUME NEW s \in ResIds, s # c PROVE GrantAt(s, fr, waiters, ready_queue, wr)
    <3>1. fr \cap UnitsOf(s) = free \cap UnitsOf(s)
      BY <2>2, <2>8, <2>10, UnitsApart
    <3>. QED
      BY <2>5, <3>1 DEF GrantAt
  <2>11. QueueOK(slot', waiters', ready_queue', wr) /\ GrantOK(fr, waiters', ready_queue', wr)
    BY <2>2, <2>3, <2>5, <2>6, <2>7, <2>9, <2>10, WakeOK
  <2>. QED
    BY <2>8, <2>11 DEF FineNext
<1>. QED
  BY <1>1, <1>2

(* What slot t is after Begin *)
LEMMA MovedFacts ==
    ASSUME FsmTypes, NEW t \in Tags, NEW st, NEW r, NEW own, slot' = Moved(t, st, r, own)
    PROVE  /\ \A x \in Tags : x # t => slot'[x] = slot[x]
           /\ slot'[t].own = own /\ slot'[t].st = st /\ slot'[t].res = r
BY DEF Moved, FsmTypes

(* A command begins an operation on a unit it can have. *)
LEMMA GrantFine ==
    ASSUME FsmTypes, NEW wr \in Seq(Tags \X ResIds),
           QueueOK(slot, waiters, ready_queue, wr), NEW t \in Tags, NEW r \in ResIds,
           Absent(t, waiters, ready_queue, wr), ~DueIn(r, ready_queue, wr),
           ~Fickle /\ waiters[r] # <<>> => \A u, v \in free \cap UnitsOf(r) : u = v,
           \A s \in ResIds : s # r => GrantAt(s, free, waiters, ready_queue, wr),
           NEW end, NEW u \in free \cap UnitsOf(r),
           Start(t, r, u, end) \/ StartFails(t, r, u, end)
    PROVE  FineNext(wr)
<1>0. waiters \in [ResIds -> Seq(Tags)] /\ ready_queue \in Seq(Tags \X ResIds)
  BY DEF FsmTypes
<1>1. \A x \in Tags : x # t => slot'[x] = slot[x]
  BY MovedFacts DEF Start, StartFails
<1>2. QueueOK(slot', waiters, ready_queue, wr)
  BY <1>0, <1>1, QueueSlot
<1>3. CASE free' = free \ {u} /\ UNCHANGED <<waiters, ready_queue>>
  <2>1. PICK fr : fr = free'
    OBVIOUS
  <2>2. fr = free \ {u}
    BY <1>3, <2>1
  <2>3. GrantOK(fr, waiters, ready_queue, wr)
    BY <2>2, TakeOK
  <2>. QED
    BY <1>2, <1>3, <2>1, <2>3 DEF FineNext
<1>4. CASE free' = free /\ WakeNext(r)
  <2>1. Wakes(r, waiters, ready_queue, waiters', ready_queue')
    BY <1>4, WakesNext
  <2>2. free \cap UnitsOf(r) # {}
    OBVIOUS
  <2>3. QueueOK(slot', waiters', ready_queue', wr) /\ GrantOK(free, waiters', ready_queue', wr)
    BY <1>0, <1>2, <2>1, <2>2, WakeOK
  <2>. QED
    BY <1>4, <2>3 DEF FineNext
<1>5. CASE Start(t, r, u, end)
  BY <1>3, <1>5 DEF Start
<1>6. CASE StartFails(t, r, u, end)
  <2>1. u \in Engines \/ u \in IpcIds
    BY DEF FsmTypes, Units
  <2>2. u \in Engines => u \notin IpcIds
    BY UnitsAssumption
  <2>. QED
    BY <1>3, <1>4, <1>6, <2>1, <2>2 DEF StartFails
<1>. QED
  BY <1>5, <1>6

(* A command that was not woken finds no unit and stands in line. *)
LEMMA EnqueueFine ==
    ASSUME FsmTypes, NEW wr \in Seq(Tags \X ResIds), Fine(wr),
           NEW t \in Tags, slot[t].st # "Wait", NEW r \in ResIds, ~CanAcquire(r),
           NEW end, Enqueue(t, r, end)
    PROVE  FineNext(wr)
<1>0. /\ waiters \in [ResIds -> Seq(Tags)] /\ ready_queue \in Seq(Tags \X ResIds)
      /\ waiters[r] \in Seq(Tags)
      /\ QueueOK(slot, waiters, ready_queue, wr)
  BY DEF FsmTypes, Fine
<1>1. /\ \A x \in Tags : x # t => slot'[x] = slot[x]
      /\ slot'[t].st = "Wait" /\ slot'[t].res = r
  <2>1. PICK own : slot' = Moved(t, "Wait", r, own)
    BY DEF Enqueue
  <2>. QED
    BY <2>1, MovedFacts
<1>2. /\ waiters' = [waiters EXCEPT ![r] = Append(waiters[r], t)]
      /\ UNCHANGED <<free, ready_queue>>
  BY DEF Enqueue
<1>3. Absent(t, waiters, ready_queue, wr)
  BY NotWaiting DEF Fine
<1>4. QueueOK(slot', waiters, ready_queue, wr)
  BY <1>0, <1>1, <1>3, QueueSlot
<1>5. QueueOK(slot', waiters', ready_queue, wr)
  BY <1>0, <1>1, <1>2, <1>3, <1>4, QueueJoin
<1>6. GrantAt(r, free, waiters', ready_queue, wr)
  <2>1. DueIn(r, ready_queue, wr) => free \cap UnitsOf(r) # {}
    BY DEF Fine, GrantOK, GrantAt
  <2>2. \A u, v \in free \cap UnitsOf(r) : DueIn(r, ready_queue, wr) /\ u = v
    BY AcquireFacts DEF DueIn
  <2>. QED
    BY <2>1, <2>2 DEF GrantAt
<1>7. ASSUME NEW s \in ResIds, s # r PROVE GrantAt(s, free, waiters', ready_queue, wr)
  <2>1. waiters'[s] = waiters[s]
    BY <1>0, <1>2, <1>7
  <2>. QED
    BY <2>1 DEF GrantAt, Fine, GrantOK
<1>. QED
  BY <1>2, <1>5, <1>6, <1>7 DEF FineNext, GrantOK

-----------------------------------------------------------------------------
(* The operations under way, in the same build *)

(* The tag a driver holds is that of a command that waits for this unit, and *)
(* holds it; a command has one operation under way, at most one channel, and *)
(* an engine only while it runs.                                             *)
RunInv ==
    /\ \A u \in Units : unit_tag[u] # NoTag /\ u \notin pka_state =>
         /\ u \in slot[unit_tag[u]].own
         /\ slot[unit_tag[u]].st \in {"Run", "Undo"}
         /\ u \in UnitsOf(slot[unit_tag[u]].res)
    /\ \A u, v \in Units \ pka_state :
         unit_tag[u] = unit_tag[v] /\ unit_tag[u] # NoTag => u = v
    /\ \A t \in Tags :
         /\ \A u \in slot[t].own \cap Engines : unit_tag[u] = t
         /\ \A u, v \in slot[t].own \cap IpcIds : u = v
         /\ slot[t].st = "Wait" /\ slot[t].res \in IpcIds => slot[t].own \cap IpcIds = {}
         /\ slot[t].st = "Undo" => slot[t].res \in IpcIds

(* The operations under way for tag t are those on the units in end *)
Ending(t, end) == \A u \in Units \ pka_state : unit_tag[u] = t <=> u \in end

(* Tag t goes over to the operations on the units in R: none, or one *)
Reruns(t, R) ==
    /\ \A x \in Tags : x # t => slot'[x] = slot[x]
    /\ slot'[t].own \cap Engines \subseteq R
    /\ \A u, v \in slot'[t].own \cap IpcIds : u = v
    /\ slot'[t].st = "Wait" /\ slot'[t].res \in IpcIds => slot'[t].own \cap IpcIds = {}
    /\ slot'[t].st = "Undo" => slot'[t].res \in IpcIds
    /\ \A u, v \in R : u = v
    /\ \A u \in R : /\ unit_tag[u] \in {t, NoTag} /\ unit_tag'[u] = t
                    /\ u \in slot'[t].own /\ slot'[t].st \in {"Run", "Undo"}
                    /\ u \in UnitsOf(slot'[t].res)
    /\ \A u \in (Units \ pka_state) \ R :
         unit_tag'[u] = IF unit_tag[u] = t THEN NoTag ELSE unit_tag[u]

LEMMA RerunsKeeps ==
    ASSUME FsmTypes, UnitAccounting, RunInv, NEW t \in Tags, NEW R \in SUBSET Units,
           Reruns(t, R), pka_state' = pka_state
    PROVE  RunInv'
<1>0. \A u \in Units : unit_tag[u] # NoTag => unit_tag[u] \in Tags
  BY DEF FsmTypes
<1>1. ASSUME NEW u \in Units, unit_tag'[u] # NoTag, u \notin pka_state
      PROVE  /\ u \in slot'[unit_tag'[u]].own
             /\ slot'[unit_tag'[u]].st \in {"Run", "Undo"}
             /\ u \in UnitsOf(slot'[unit_tag'[u]].res)
  <2>1. CASE u \in R
    BY <2>1 DEF Reruns
  <2>2. CASE u \notin R
    <3>1. unit_tag'[u] = unit_tag[u] /\ unit_tag[u] # t /\ unit_tag[u] \in Tags
      BY <1>0, <1>1, <2>2 DEF Reruns
    <3>. QED
      BY <1>1, <3>1 DEF RunInv, Reruns
  <2>. QED
    BY <2>1, <2>2
<1>2. ASSUME NEW u \in Units \ pka_state, NEW v \in Units \ pka_state,
             unit_tag'[u] = unit_tag'[v], unit_tag'[u] # NoTag
      PROVE  u = v
  <2>1. \A w \in {u, v} : w \in R \/ (unit_tag'[w] = unit_tag[w] /\ unit_tag[w] # t)
    BY <1>2 DEF Reruns
  <2>2. \A w \in R : unit_tag'[w] = t
    BY DEF Reruns
  <2>3. CASE u \in R /\ v \in R
    BY <2>3 DEF Reruns
  <2>4. CASE u \notin R /\ v \notin R
    BY <1>2, <2>1, <2>4 DEF RunInv
  <2>. QED
    BY <1>2, <2>1, <2>2, <2>3, <2>4
<1>3. ASSUME NEW x \in Tags, x # t
      PROVE  /\ \A u \in slot'[x].own \cap Engines : unit_tag'[u] = x
             /\ \A u, v \in slot'[x].own \cap IpcIds : u = v
             /\ slot'[x].st = "Wait" /\ slot'[x].res \in IpcIds => slot'[x].own \cap IpcIds = {}
             /\ slot'[x].st = "Undo" => slot'[x].res \in IpcIds
  <2>1. slot'[x] = slot[x]
    BY <1>3 DEF Reruns
  <2>2. ASSUME NEW u \in slot[x].own \cap Engines PROVE unit_tag'[u] = x
    <3>1. u \in Units \ pka_state /\ unit_tag[u] = x
      BY DEF UnitAccounting, RunInv, Units
    <3>2. u \notin R /\ x # NoTag
      BY <1>3, <3>1, TagFacts DEF Reruns
    <3>. QED
      BY <1>3, <3>1, <3>2 DEF Reruns
  <2>. QED
    BY <2>1, <2>2 DEF RunInv
<1>4. /\ \A u \in slot'[t].own \cap Engines : unit_tag'[u] = t
      /\ \A u, v \in slot'[t].own \cap IpcIds : u = v
      /\ slot'[t].st = "Wait" /\ slot'[t].res \in IpcIds => slot'[t].own \cap IpcIds = {}
      /\ slot'[t].st = "Undo" => slot'[t].res \in IpcIds
  BY DEF Reruns
<1>. QED
  BY <1>1, <1>2, <1>3, <1>4 DEF RunInv

(* A command that is not running has nothing under way. *)
LEMMA EndingNone ==
    ASSUME RunInv, NEW t \in Tags, slot[t].st \notin {"Run", "Undo"}
    PROVE  Ending(t, {})
BY TagFacts DEF RunInv, Ending

(* The operation whose completion arrives is the only one of its command. *)
LEMMA EndingOne ==
    ASSUME RunInv, NEW u \in Units \ pka_state, unit_tag[u] \in Tags
    PROVE  Ending(unit_tag[u], {u})
BY TagFacts DEF RunInv, Ending

(* The engines of a command are those it runs an operation on. *)
LEMMA OwnEngines ==
    ASSUME RunInv, UnitAccounting, NEW t \in Tags, NEW end, Ending(t, end)
    PROVE  slot[t].own \cap Engines \subseteq end
BY DEF RunInv, UnitAccounting, Ending, Units

(* Begin, in all its outcomes. *)
LEMMA BeginReruns ==
    ASSUME FsmTypes, UnitAccounting, RunInv, NEW t \in Tags, NEW r \in ResIds,
           NEW end \in SUBSET slot[t].own, Ending(t, end),
           r \in IpcIds => slot[t].own \cap IpcIds = {}, Begin(t, r, end)
    PROVE  \E R \in SUBSET Units : Reruns(t, R)
<1>0. /\ slot[t].own \cap Engines \subseteq end /\ end \subseteq Units
      /\ \A u, v \in slot[t].own \cap IpcIds : u = v
      /\ Engines \cap IpcIds = {}
  BY OwnEngines, UnitsAssumption DEF RunInv, FsmTypes, Slot
<1>1. \A u \in Units \ pka_state :
        Ended(end)[u] = IF unit_tag[u] = t THEN NoTag ELSE unit_tag[u]
  BY DEF Ended, Ending
<1>2. Ended(end) \in [Units -> Tags \cup {NoTag}]
  BY DEF Ended, FsmTypes
<1>3. ASSUME NEW u \in free \cap UnitsOf(r), Start(t, r, u, end)
      PROVE  Reruns(t, {u})
  <2>1. PICK own : own = (slot[t].own \ (end \cap Engines)) \cup {u}
    OBVIOUS
  <2>2. /\ \A x \in Tags : x # t => slot'[x] = slot[x]
        /\ slot'[t].own = own /\ slot'[t].st = "Run" /\ slot'[t].res = r
    BY SMTT(30), <1>3, <2>1, MovedFacts DEF Start
  <2>3. /\ unit_tag[u] = NoTag /\ u \in Units /\ unit_tag'[u] = t
        /\ \A v \in Units : v # u => unit_tag'[v] = Ended(end)[v]
    BY <1>2, <1>3 DEF Start, FsmTypes
  <2>4. own \cap Engines \subseteq {u} /\ u \in own
    BY <1>0, <2>1
  <2>5. \A v, w \in own \cap IpcIds : v = w
    <3>1. r # "Pka" => r \in IpcIds /\ u = r
      BY <1>3 DEF ResIds, UnitsOf
    <3>2. r = "Pka" => u \in Engines
      BY <1>3 DEF UnitsOf
    <3>. QED
      BY <1>0, <2>1, <3>1, <3>2
  <2>6. \A v \in (Units \ pka_state) \ {u} :
          unit_tag'[v] = IF unit_tag[v] = t THEN NoTag ELSE unit_tag[v]
    BY <1>1, <2>3
  <2>. QED
    BY <1>3, <2>2, <2>3, <2>4, <2>5, <2>6 DEF Reruns
<1>4. ASSUME NEW st \in {"Out", "Wait"},
             slot' = Moved(t, st, r, slot[t].own \ (end \cap Engines)),
             unit_tag' = Ended(end)
      PROVE  Reruns(t, {})
  <2>1. PICK own : own = slot[t].own \ (end \cap Engines)
    OBVIOUS
  <2>2. /\ \A x \in Tags : x # t => slot'[x] = slot[x]
        /\ slot'[t].own = own /\ slot'[t].st = st /\ slot'[t].res = r
    <3>1. slot' = Moved(t, st, r, own)
      BY <1>4, <2>1
    <3>. QED
      BY <3>1, MovedFacts
  <2>3. own \cap Engines = {} /\ \A v, w \in own \cap IpcIds : v = w
    BY <1>0, <2>1
  <2>4. r \in IpcIds => own \cap IpcIds = {}
    BY <2>1
  <2>. QED
    BY <1>1, <1>4, <2>2, <2>3, <2>4 DEF Reruns
<1>5. \/ \E u \in free \cap UnitsOf(r) : Start(t, r, u, end)
      \/ \E st \in {"Out", "Wait"} :
           /\ slot' = Moved(t, st, r, slot[t].own \ (end \cap Engines))
           /\ unit_tag' = Ended(end)
  BY DEF Begin, StartFails, Enqueue
<1>6. \A u \in free \cap UnitsOf(r) : {u} \in SUBSET Units
  BY DEF FsmTypes
<1>. QED
  BY <1>3, <1>4, <1>5, <1>6

(* The other reactions: a command answers, and keeps or drops its refs. *)
LEMMA AnswerReruns ==
    ASSUME FsmTypes, UnitAccounting, RunInv, NEW t \in Tags, NEW end \in SUBSET Units,
           Ending(t, end),
           \/ ToOut(t) /\ end = {}
           \/ Retire(t) /\ end = {}
           \/ \E u \in Units : Finish(t, u) /\ end = {u}
           \/ \E c \in IpcIds : FinishHolding(t, c) /\ end = {c}
    PROVE  Reruns(t, {})
<1>0. /\ slot[t].own \cap Engines \subseteq end /\ slot[t] \in Slot /\ t \in DOMAIN slot
      /\ \A u, v \in slot[t].own \cap IpcIds : u = v
      /\ unit_tag \in [Units -> Tags \cup {NoTag}]
  BY OwnEngines DEF RunInv, FsmTypes
<1>1. CASE ToOut(t) /\ end = {}
  <2>1. /\ slot'[t].own = slot[t].own /\ slot'[t].st = "Out"
        /\ \A x \in Tags : x # t => slot'[x] = slot[x]
    BY <1>0, <1>1 DEF ToOut, Slot
  <2>. QED
    BY <1>0, <1>1, <2>1 DEF ToOut, unitVars, Reruns, Ending
<1>2. CASE Retire(t) /\ end = {}
  <2>1. /\ slot'[t].own = {} /\ slot'[t].st = "None"
        /\ \A x \in Tags : x # t => slot'[x] = slot[x]
    BY <1>0, <1>2 DEF Retire, Vacate, Empty, FsmTypes
  <2>. QED
    BY <1>2, <2>1 DEF Retire, Vacate, Reruns, Ending
<1>3. ASSUME NEW u \in Units, Finish(t, u), end = {u} PROVE Reruns(t, {})
  <2>1. /\ slot'[t].own = slot[t].own \ {u} /\ slot'[t].st = "Out"
        /\ \A x \in Tags : x # t => slot'[x] = slot[x]
    BY <1>3, FinishSlot
  <2>2. \A v \in Units \ pka_state :
          unit_tag'[v] = IF unit_tag[v] = t THEN NoTag ELSE unit_tag[v]
    BY <1>3 DEF Finish, Ended, Ending
  <2>. QED
    BY <1>0, <1>3, <2>1, <2>2 DEF Reruns
<1>4. ASSUME NEW u \in IpcIds, FinishHolding(t, u), end = {u} PROVE Reruns(t, {})
  <2>1. /\ slot'[t].own = slot[t].own /\ slot'[t].st = "Out"
        /\ \A x \in Tags : x # t => slot'[x] = slot[x]
    BY <1>0, <1>4 DEF FinishHolding, Slot
  <2>2. \A v \in Units \ pka_state :
          unit_tag'[v] = IF unit_tag[v] = t THEN NoTag ELSE unit_tag[v]
    BY <1>4 DEF FinishHolding, Ended, Ending
  <2>. QED
    BY <1>0, <1>4, <2>1, <2>2, UnitsAssumption DEF Reruns
<1>. QED
  BY <1>1, <1>2, <1>3, <1>4

(* A command goes on with the unit it holds. *)
LEMMA GoOnReruns ==
    ASSUME FsmTypes, UnitAccounting, RunInv, NEW t \in Tags, NEW u \in Units \ pka_state,
           Ending(t, {u}) \/ (Ending(t, {}) /\ unit_tag[u] = NoTag),
           u \in slot[t].own, u \in UnitsOf(slot[t].res),
           \/ Continue(t) /\ slot[t].st = "Run" /\ unit_tag[u] = t
           \/ u \in IpcIds /\ \E st \in {"Run", "Undo"} : Rollback(t, u, st)
    PROVE  Reruns(t, {u})
<1>0. /\ slot[t].own \cap Engines \subseteq {u} /\ slot[t] \in Slot /\ t \in DOMAIN slot
      /\ \A v, w \in slot[t].own \cap IpcIds : v = w
      /\ unit_tag \in [Units -> Tags \cup {NoTag}] /\ unit_tag[u] \in {t, NoTag}
  <2>1. Ending(t, {u}) => slot[t].own \cap Engines \subseteq {u}
    BY OwnEngines
  <2>2. Ending(t, {}) => slot[t].own \cap Engines \subseteq {}
    BY OwnEngines
  <2>3. Ending(t, {u}) => unit_tag[u] = t
    BY DEF Ending
  <2>. QED
    BY <2>1, <2>2, <2>3 DEF RunInv, FsmTypes
<1>1. CASE Continue(t) /\ slot[t].st = "Run" /\ unit_tag[u] = t
  <2>1. /\ slot'[t].own = slot[t].own /\ slot'[t].st = "Run" /\ slot'[t].res = slot[t].res
        /\ \A x \in Tags : x # t => slot'[x] = slot[x]
    BY <1>0, <1>1 DEF Continue, Slot
  <2>2. unit_tag' = unit_tag
    BY <1>1 DEF Continue, unitVars
  <2>. QED
    BY <1>0, <1>1, <2>1, <2>2 DEF Reruns, Ending
<1>2. ASSUME u \in IpcIds, NEW st \in {"Run", "Undo"}, Rollback(t, u, st)
      PROVE  Reruns(t, {u})
  <2>0. slot[t].res \in IpcIds
    BY <1>2, UnitsAssumption DEF UnitsOf
  <2>1. slot'[t].own = slot[t].own /\ slot'[t].st = st /\ slot'[t].res = slot[t].res
    BY <1>0, <1>2 DEF Rollback, Slot
  <2>2. \A x \in Tags : x # t => slot'[x] = slot[x]
    BY <1>0, <1>2 DEF Rollback, FsmTypes
  <2>3. unit_tag'[u] = t /\ \A v \in Units : v # u => unit_tag'[v] = unit_tag[v]
    BY <1>0, <1>2 DEF Rollback
  <2>. QED
    BY <1>0, <1>2, <2>0, <2>1, <2>2, <2>3 DEF Reruns, Ending
<1>. QED
  BY <1>1, <1>2

-----------------------------------------------------------------------------
(* The event loop in the same build *)

(* The clean-up FSM stays, nothing panics or ticks, the copy of the ready    *)
(* queue is used up before the pass ends; and a wake-up for an engine never  *)
(* outlasts the call of on_event that queued it, so no new command can come  *)
(* in between and take the engine.                                           *)
PassInv ==
    /\ pc \notin {"panic", "tick"}
    /\ CleanupAlive
    /\ pc # "ready" => work.ready = <<>>
    /\ pc \in {"idle", "ready"} => \A x \in Entries(ready_queue) : x[2] # "Pka"

CalmInv == PassInv /\ Fine(work.ready) /\ RunInv

(* What a step has to keep *)
CalmNext == PassInv' /\ FineNext(work'.ready) /\ RunInv'

LEMMA CalmPrimed == CalmNext => CalmInv'
BY DEF CalmNext, CalmInv, Fine, FineNext

(* Between two calls of on_event: a command begins an operation. *)
LEMMA BeginAtIdle ==
    ASSUME FsmTypes, PassInv, pc = "idle", Fine(<<>>), NEW t \in Tags, slot[t].st # "Wait",
           NEW r \in ResIds, NEW end, Begin(t, r, end)
    PROVE  FineNext(<<>>)
<1>0. <<>> \in Seq(Tags \X ResIds) /\ Entries(<<>>) = {}
  BY DEF Entries
<1>1. CASE ~CanAcquire(r)
  BY <1>0, <1>1, EnqueueFine DEF Begin
<1>2. CASE CanAcquire(r)
  <2>1. PICK u \in free \cap UnitsOf(r) : Start(t, r, u, end) \/ StartFails(t, r, u, end)
    BY <1>2 DEF Begin
  <2>2. \A x \in Entries(ready_queue) : x[2] # r
    BY <1>2, AcquireFacts DEF PassInv
  <2>3. ~DueIn(r, ready_queue, <<>>)
    BY <1>0, <2>2 DEF DueIn
  <2>4. /\ QueueOK(slot, waiters, ready_queue, <<>>)
        /\ \A s \in ResIds : GrantAt(s, free, waiters, ready_queue, <<>>)
    BY DEF Fine, GrantOK
  <2>5. ~Fickle /\ waiters[r] # <<>> => \A v, w \in free \cap UnitsOf(r) : v = w
    BY <2>4 DEF GrantAt
  <2>6. Absent(t, waiters, ready_queue, <<>>)
    BY <2>4, NotWaiting
  <2>. QED
    BY <1>0, <2>1, <2>3, <2>4, <2>5, <2>6, GrantFine
<1>. QED
  BY <1>1, <1>2

(* Only channels are handed on when a begin call fails. *)
LEMMA BeginWakes ==
    ASSUME FsmTypes, NEW t, NEW r \in ResIds, NEW end, Begin(t, r, end),
           \A x \in Entries(ready_queue) : x[2] # "Pka"
    PROVE  \A x \in Entries(ready_queue') : x[2] # "Pka"
<1>1. CASE ready_queue' = ready_queue
  BY <1>1
<1>2. CASE r # "Pka" /\ WakeNext(r) /\ ready_queue' # ready_queue
  <2>1. PICK y : y = <<Head(waiters[r]), r>>
    OBVIOUS
  <2>2. /\ waiters[r] # <<>> /\ ready_queue' = Append(ready_queue, y)
        /\ waiters[r] \in Seq(Tags)
    BY <1>2, <2>1 DEF WakeNext, FsmTypes
  <2>3. Head(waiters[r]) \in Tags
    BY <2>2
  <2>4. PICK S : S = Tags \X ResIds
    OBVIOUS
  <2>5. y \in S /\ ready_queue \in Seq(S) /\ y[2] = r
    BY <2>1, <2>3, <2>4 DEF FsmTypes
  <2>6. Entries(Append(ready_queue, y)) = Entries(ready_queue) \cup {y}
    BY <2>5, EntriesAppend
  <2>. QED
    BY <1>2, <2>2, <2>5, <2>6
<1>3. ASSUME NEW u \in free \cap UnitsOf(r), u \in IpcIds PROVE r # "Pka"
  BY <1>3, UnitsAssumption DEF UnitsOf
<1>. QED
  BY <1>1, <1>2, <1>3 DEF Begin, Start, StartFails, Enqueue

(* A command has reacted to an interrupt. *)
LEMMA Reacted ==
    ASSUME PassInv, pc = "idle", pc' = "post", work' = work, NEW t \in Tags,
           slot[t].st # "Static", \A x \in Tags : x # t => slot'[x] = slot[x],
           FineNext(<<>>), RunInv'
    PROVE  CalmNext
<1>1. work'.ready = <<>>
  BY DEF PassInv
<1>2. CleanupAlive'
  BY TagFacts DEF PassInv, CleanupAlive
<1>3. PassInv'
  BY <1>1, <1>2 DEF PassInv
<1>. QED
  BY <1>1, <1>3 DEF CalmNext

(* The invariant as a step that serves an interrupt finds it *)
AtIdle == FsmTypes /\ LoopTypes /\ UnitAccounting /\ PassInv /\ Fine(<<>>) /\ RunInv /\ pc = "idle"

(* The next stage of a command whose operations under way are those in end. *)
LEMMA StageCalm ==
    ASSUME AtIdle, NEW t \in Tags, NEW end \in SUBSET slot[t].own, Ending(t, end),
           slot[t].st \in {"In", "Run"}, NextStage(t, end),
           pc' = "post", work' = work, pka_state' = pka_state
    PROVE  CalmNext
<1>1. PICK r \in ResIds : /\ r \in IpcIds => slot[t].own \cap IpcIds = {}
                          /\ Begin(t, r, end)
  BY DEF NextStage
<1>2. FineNext(<<>>)
  BY <1>1, BeginAtIdle DEF AtIdle
<1>3. PICK R \in SUBSET Units : Reruns(t, R)
  BY <1>1, BeginReruns DEF AtIdle
<1>4. RunInv' /\ \A x \in Tags : x # t => slot'[x] = slot[x]
  BY <1>3, RerunsKeeps DEF AtIdle, Reruns
<1>. QED
  BY <1>2, <1>4, Reacted DEF AtIdle

(* A command that answers. *)
LEMMA AnswerCalm ==
    ASSUME AtIdle, NEW t \in Tags, NEW end \in SUBSET slot[t].own, Ending(t, end),
           slot[t].st \in {"In", "Run", "Undo", "Out"},
           \/ ToOut(t) /\ end = {}
           \/ Retire(t) /\ end = {}
           \/ \E u \in slot[t].own : Finish(t, u) /\ end = {u}
           \/ \E c \in IpcIds : FinishHolding(t, c) /\ end = {c},
           pc' = "post", work' = work, pka_state' = pka_state
    PROVE  CalmNext
<1>0. <<>> \in Seq(Tags \X ResIds) /\ slot[t].own \subseteq Units /\ end \in SUBSET Units
  BY DEF AtIdle, FsmTypes, Slot
<1>1. Reruns(t, {})
  BY <1>0, AnswerReruns DEF AtIdle
<1>2. RunInv' /\ \A x \in Tags : x # t => slot'[x] = slot[x]
  BY <1>1, RerunsKeeps DEF AtIdle, Reruns
<1>3. slot[t].own \cap free = {} /\ \A u, v \in slot[t].own \cap IpcIds : u = v
  BY DEF AtIdle, UnitAccounting, RunInv
<1>4. CASE ToOut(t) \/ \E c \in IpcIds : FinishHolding(t, c)
  <2>1. UNCHANGED <<waiters, ready_queue, free>>
    BY <1>4 DEF ToOut, FinishHolding, queueVars, unitVars
  <2>2. FineNext(<<>>)
    BY <1>0, <1>2, <2>1, QuietFine DEF AtIdle
  <2>. QED
    BY <1>2, <2>2, Reacted DEF AtIdle
<1>5. CASE \E owned \in SUBSET slot[t].own : Release(owned)
  <2>1. PICK owned \in SUBSET slot[t].own : Release(owned)
    BY <1>5
  <2>2. owned \cap free = {} /\ \A u, v \in owned \cap IpcIds : u = v
    BY <1>3
  <2>3. FineNext(<<>>)
    BY <1>0, <1>2, <2>1, <2>2, ReleaseFine DEF AtIdle
  <2>. QED
    BY <1>2, <2>3, Reacted DEF AtIdle
<1>6. CASE Retire(t) \/ \E u \in slot[t].own : Finish(t, u)
  BY <1>5, <1>6 DEF Retire, Vacate, Finish
<1>. QED
  BY <1>4, <1>6

(* A command that goes on with the unit it holds. *)
LEMMA GoOnCalm ==
    ASSUME AtIdle, NEW t \in Tags, NEW u \in Units \ pka_state, u \in slot[t].own,
           Ending(t, {u}) \/ (Ending(t, {}) /\ unit_tag[u] = NoTag),
           u \in UnitsOf(slot[t].res), slot[t].st \in {"Run", "Out"},
           \/ Continue(t) /\ slot[t].st = "Run" /\ unit_tag[u] = t
           \/ u \in IpcIds /\ \E st \in {"Run", "Undo"} : Rollback(t, u, st),
           pc' = "post", work' = work, pka_state' = pka_state
    PROVE  CalmNext
<1>0. <<>> \in Seq(Tags \X ResIds)
  OBVIOUS
<1>1. PICK R \in SUBSET Units : Reruns(t, R)
  <2>1. Reruns(t, {u}) /\ {u} \in SUBSET Units
    BY GoOnReruns DEF AtIdle
  <2>. QED
    BY <2>1
<1>2. RunInv' /\ \A x \in Tags : x # t => slot'[x] = slot[x]
  BY <1>1, RerunsKeeps DEF AtIdle, Reruns
<1>3. UNCHANGED <<waiters, ready_queue, free>>
  BY DEF Continue, Rollback, queueVars, unitVars
<1>4. FineNext(<<>>)
  BY <1>0, <1>2, <1>3, QuietFine DEF AtIdle
<1>. QED
  BY <1>2, <1>4, Reacted DEF AtIdle

(* on_in_dma_complete and on_response_complete. *)
LEMMA CommandCalm ==
    ASSUME AtIdle, NEW t \in Tags, StartCmd(t) \/ TxComplete(t)
    PROVE  CalmNext
<1>0. /\ pc' = "post" /\ work' = work /\ pka_state' = pka_state
      /\ slot[t].st \in {"In", "Out"}
  BY DEF StartCmd, TxComplete, Deliver
<1>1. Ending(t, {}) /\ {} \in SUBSET slot[t].own
  BY <1>0, EndingNone DEF AtIdle
<1>2. CASE StartCmd(t)
  BY <1>0, <1>1, <1>2, AnswerCalm, StageCalm DEF StartCmd
<1>3. CASE TxComplete(t)
  BY <1>0, <1>1, <1>3, AnswerCalm DEF TxComplete
<1>. QED
  BY <1>2, <1>3

(* on_pka, for an engine that runs a command's operation. *)
LEMMA PkaCalm ==
    ASSUME AtIdle, NEW e \in Engines, PkaDone(e)
    PROVE  CalmNext
<1>1. PICK t : t = unit_tag[e]
  OBVIOUS
<1>2. t \in Tags /\ e \in Units \ pka_state /\ t # NoTag
  BY <1>1 DEF PkaDone, AtIdle, FsmTypes, Units
<1>3. /\ e \in slot[t].own /\ slot[t].st \in {"Run", "Undo"} /\ e \in UnitsOf(slot[t].res)
      /\ slot[t].st = "Undo" => slot[t].res \in IpcIds
  BY <1>1, <1>2 DEF AtIdle, RunInv
<1>4. slot[t].st = "Run"
  BY <1>3, UnitsAssumption DEF UnitsOf
<1>5. Ending(t, {e}) /\ {e} \in SUBSET slot[t].own
  BY <1>1, <1>2, <1>3, EndingOne DEF AtIdle
<1>6. /\ Finish(t, e) \/ Continue(t) \/ NextStage(t, {e})
      /\ pc' = "post" /\ work' = work /\ pka_state' = pka_state
  BY <1>1, <1>3, <1>4 DEF PkaDone, Deliver
<1>7. CASE Finish(t, e)
  BY <1>2, <1>3, <1>4, <1>5, <1>6, <1>7, AnswerCalm
<1>8. CASE Continue(t)
  BY <1>1, <1>2, <1>3, <1>4, <1>5, <1>6, <1>8, GoOnCalm
<1>9. CASE NextStage(t, {e})
  BY <1>2, <1>4, <1>5, <1>6, <1>9, StageCalm
<1>. QED
  BY <1>6, <1>7, <1>8, <1>9

(* The answer on a channel, and the failed transfer of a response. *)
LEMMA IpcCalm ==
    ASSUME AtIdle, NEW c \in IpcIds,
           IpcResponse(c) \/ \E t \in Tags : OutFails(t, c)
    PROVE  CalmNext
<1>0. c \in Units \ pka_state /\ c \in UnitsOf(c)
  BY UnitsAssumption DEF AtIdle, LoopTypes, Units, UnitsOf
<1>1. CASE IpcResponse(c)
  <2>1. PICK t : t = unit_tag[c]
    OBVIOUS
  <2>2. t \in Tags /\ t # NoTag
    BY <1>0, <1>1, <2>1 DEF IpcResponse, AtIdle, FsmTypes
  <2>3. c \in slot[t].own /\ slot[t].st \in {"Run", "Undo"} /\ c \in UnitsOf(slot[t].res)
    BY <1>0, <2>1, <2>2 DEF AtIdle, RunInv
  <2>4. slot[t].res = c
    BY <2>3, UnitsAssumption DEF UnitsOf
  <2>5. Ending(t, {c}) /\ {c} \in SUBSET slot[t].own
    BY <1>0, <2>1, <2>2, <2>3, EndingOne DEF AtIdle
  <2>6. /\ \/ FinishHolding(t, c)
           \/ /\ slot[t].st = "Run"
              /\ Finish(t, c) \/ NextStage(t, {c}) \/ Rollback(t, c, "Run")
        /\ pc' = "post" /\ work' = work /\ pka_state' = pka_state
    BY <1>1, <2>1, <2>3, <2>4 DEF IpcResponse, Deliver
  <2>7. CASE FinishHolding(t, c) \/ Finish(t, c)
    BY <2>2, <2>3, <2>5, <2>6, <2>7, AnswerCalm
  <2>8. CASE slot[t].st = "Run" /\ NextStage(t, {c})
    BY <2>2, <2>5, <2>6, <2>8, StageCalm
  <2>9. CASE slot[t].st = "Run" /\ Rollback(t, c, "Run")
    BY <1>0, <2>2, <2>3, <2>5, <2>6, <2>9, GoOnCalm
  <2>. QED
    BY <2>6, <2>7, <2>8, <2>9
<1>2. ASSUME NEW t \in Tags, OutFails(t, c) PROVE CalmNext
  <2>1. /\ slot[t].st = "Out" /\ slot[t].res = c /\ c \in slot[t].own /\ unit_tag[c] = NoTag
        /\ Rollback(t, c, "Undo")
        /\ pc' = "post" /\ work' = work /\ pka_state' = pka_state
    BY <1>2 DEF OutFails, Deliver
  <2>2. Ending(t, {})
    BY <2>1, EndingNone DEF AtIdle
  <2>. QED
    BY <1>0, <2>1, <2>2, GoOnCalm
<1>. QED
  BY <1>1, <1>2

(* on_request_ready. *)
LEMMA ArrivalCalm ==
    ASSUME AtIdle, TagAccounting, IdleOwnsNothing, RxReady
    PROVE  CalmNext
<1>1. PICK t : t = free_tags[Len(free_tags)]
  OBVIOUS
<1>2. /\ free_tags \in Seq(Tags) /\ Len(free_tags) \in Nat \ {0} /\ t \in Tags
  BY <1>1 DEF RxReady, AtIdle, FsmTypes
<1>3. Len(free_tags) \in 1 .. Len(free_tags)
  BY <1>2
<1>4. slot[t].st = "None"
  BY <1>1, <1>2, <1>3 DEF TagAccounting
<1>5. /\ slot'[t].st \in {"In", "Out"} /\ slot'[t].own = {}
      /\ \A x \in Tags : x # t => slot'[x] = slot[x]
  BY <1>1, <1>2 DEF RxReady, AtIdle, FsmTypes
<1>6. /\ UNCHANGED <<waiters, ready_queue, free, unit_tag, pka_state, work>> /\ pc' = "post"
  BY DEF RxReady, queueVars, unitVars
<1>7. <<>> \in Seq(Tags \X ResIds)
  OBVIOUS
<1>8. FineNext(<<>>)
  BY <1>2, <1>4, <1>5, <1>6, <1>7, QuietFine DEF AtIdle
<1>9. Ending(t, {})
  BY <1>2, <1>4, EndingNone DEF AtIdle
<1>10. Reruns(t, {}) /\ {} \in SUBSET Units
  BY <1>5, <1>6, <1>9 DEF Reruns, Ending
<1>11. RunInv'
  BY <1>2, <1>6, <1>10, RerunsKeeps DEF AtIdle
<1>. QED
  BY <1>2, <1>4, <1>5, <1>6, <1>8, <1>11, Reacted DEF AtIdle

(* on_request_ready, with nothing to be received. *)
LEMMA RefusalCalm ==
    ASSUME AtIdle, RxRefused
    PROVE  CalmNext
<1>1. /\ UNCHANGED <<slot, waiters, ready_queue, free, unit_tag, pka_state, work>> /\ pc' = "post"
  BY DEF RxRefused, queueVars, unitVars
<1>2. FineNext(<<>>) /\ RunInv'
  BY <1>1 DEF AtIdle, Fine, FineNext, RunInv
<1>. QED
  BY <1>1, <1>2 DEF AtIdle, PassInv, CleanupAlive, CalmNext

(* on_pka, for an engine that has been wiped: the first waiter is woken. *)
LEMMA WipedCalm ==
    ASSUME AtIdle, NEW e \in Engines, WipeDone(e)
    PROVE  CalmNext
<1>0. /\ <<>> \in Seq(Tags \X ResIds) /\ Entries(<<>>) = {} /\ "Pka" \in ResIds
      /\ UnitsOf("Pka") = Engines
      /\ waiters \in [ResIds -> Seq(Tags)] /\ ready_queue \in Seq(Tags \X ResIds)
  BY DEF Entries, ResIds, UnitsOf, AtIdle, FsmTypes
<1>1. /\ e \in pka_state /\ pka_state' = pka_state \ {e} /\ pc' = "post" /\ work' = work
      /\ slot' = slot /\ free' = free \cup {e}
  BY DEF WipeDone, Deliver
<1>2. \A u \in Units : unit_tag'[u] = IF u = e THEN NoTag ELSE unit_tag[u]
  BY DEF WipeDone, Ended
<1>3. RunInv'
  <2>1. \A t \in Tags : e \notin slot[t].own
    BY <1>1 DEF AtIdle, UnitAccounting
  <2>2. \A t \in Tags : \A u \in slot[t].own \cap Engines : u \in Units /\ u # e
    BY <2>1 DEF Units
  <2>3. \A t \in Tags : \A u \in slot[t].own \cap Engines : unit_tag'[u] = t
    BY <1>2, <2>2 DEF AtIdle, RunInv
  <2>4. \A u \in Units : unit_tag'[u] # NoTag /\ u \notin pka_state' =>
           unit_tag'[u] = unit_tag[u] /\ u \notin pka_state
    BY <1>1, <1>2
  <2>5. (\A u \in Units : unit_tag[u] # NoTag /\ u \notin pka_state =>
           /\ u \in slot[unit_tag[u]].own
           /\ slot[unit_tag[u]].st \in {"Run", "Undo"}
           /\ u \in UnitsOf(slot[unit_tag[u]].res))'
    BY <1>1, <2>4 DEF AtIdle, RunInv
  <2>6. (\A u, v \in Units \ pka_state :
           unit_tag[u] = unit_tag[v] /\ unit_tag[u] # NoTag => u = v)'
    BY <1>1, <2>4 DEF AtIdle, RunInv
  <2>. QED
    BY <1>1, <2>3, <2>5, <2>6 DEF AtIdle, RunInv
<1>4. ~DueIn("Pka", ready_queue, <<>>)
  BY <1>0 DEF DueIn, AtIdle, PassInv
<1>5. Wakes("Pka", waiters, ready_queue, waiters', ready_queue')
  BY WakesNext DEF WipeDone
<1>6. /\ QueueOK(slot, waiters, ready_queue, <<>>)
      /\ \A s \in ResIds : GrantAt(s, free, waiters, ready_queue, <<>>)
  BY DEF AtIdle, Fine, GrantOK
<1>7. PICK fr : fr = free'
  OBVIOUS
<1>8. /\ fr \cap UnitsOf("Pka") # {}
      /\ ~Fickle /\ waiters["Pka"] # <<>> => \A u, v \in fr \cap UnitsOf("Pka") : u = v
  BY <1>0, <1>1, <1>4, <1>6, <1>7 DEF GrantAt
<1>9. ASSUME NEW s \in ResIds, s # "Pka" PROVE GrantAt(s, fr, waiters, ready_queue, <<>>)
  <2>1. fr \cap UnitsOf(s) = free \cap UnitsOf(s)
    BY <1>0, <1>1, <1>7, <1>9, UnitsApart
  <2>. QED
    BY <1>6, <2>1 DEF GrantAt
<1>10. QueueOK(slot, waiters', ready_queue', <<>>) /\ GrantOK(fr, waiters', ready_queue', <<>>)
  BY <1>0, <1>4, <1>5, <1>6, <1>8, <1>9, WakeOK
<1>11. FineNext(<<>>)
  BY <1>1, <1>7, <1>10 DEF FineNext
<1>12. work'.ready = <<>> /\ PassInv'
  BY <1>1 DEF AtIdle, PassInv, CleanupAlive
<1>. QED
  BY <1>3, <1>11, <1>12 DEF CalmNext

(* on_pka_cleanup, which cannot fail in this build. *)
LEMMA WipeCalm ==
    ASSUME Calm, FsmTypes, LoopTypes, UnitAccounting, CalmInv, NEW e \in Engines, OnCleanup(e)
    PROVE  CalmNext
<1>0. WipeBegin(e) /\ e \in work.cleanup /\ pc' = pc /\ work'.ready = work.ready
  BY DEF Calm, OnCleanup, WipeFails, CleanupMisdelivered, CalmInv, PassInv, LoopTypes, Work
<1>1. /\ e \notin pka_state /\ e \in Units /\ \A t \in Tags : e \notin slot[t].own
  BY <1>0 DEF UnitAccounting, Pending, Units
<1>2. /\ pka_state' = pka_state \cup {e} /\ unit_tag' = [unit_tag EXCEPT ![e] = CleanupTag]
      /\ UNCHANGED <<slot, waiters, ready_queue, free>>
  BY <1>0, <1>1 DEF WipeBegin, queueVars
<1>3. \A u \in Units : u # e => unit_tag'[u] = unit_tag[u]
  BY <1>2 DEF FsmTypes
<1>4. RunInv'
  <2>1. \A t \in Tags : \A u \in slot[t].own \cap Engines : unit_tag'[u] = t
    BY <1>1, <1>3 DEF CalmInv, RunInv, Units
  <2>2. \A u \in Units \ pka_state' : u \notin pka_state /\ unit_tag'[u] = unit_tag[u]
    BY <1>2, <1>3
  <2>3. (\A u \in Units : unit_tag[u] # NoTag /\ u \notin pka_state =>
           /\ u \in slot[unit_tag[u]].own
           /\ slot[unit_tag[u]].st \in {"Run", "Undo"}
           /\ u \in UnitsOf(slot[unit_tag[u]].res))'
    BY <1>2, <2>2 DEF CalmInv, RunInv
  <2>4. (\A u, v \in Units \ pka_state :
           unit_tag[u] = unit_tag[v] /\ unit_tag[u] # NoTag => u = v)'
    BY <2>2 DEF CalmInv, RunInv
  <2>. QED
    BY <1>2, <2>1, <2>3, <2>4 DEF CalmInv, RunInv
<1>5. FineNext(work'.ready)
  BY <1>0, <1>2 DEF CalmInv, Fine, FineNext
<1>6. PassInv'
  BY <1>0, <1>2 DEF CalmInv, PassInv, CleanupAlive
<1>. QED
  BY <1>4, <1>5, <1>6 DEF CalmNext

(* on_ready: the woken command finds its unit. *)
LEMMA ReadyCalm ==
    ASSUME Calm, FsmTypes, LoopTypes, UnitAccounting, CalmInv, OnReady
    PROVE  CalmNext
<1>1. PICK wr : wr = work.ready
  OBVIOUS
<1>2. PICK h : h = Head(wr)
  OBVIOUS
<1>3. PICK wz : wz = Tail(wr)
  OBVIOUS
<1>4. wr \in Seq(Tags \X ResIds) /\ wr # <<>>
  BY <1>1 DEF OnReady, LoopTypes, Work
<1>5. /\ h \in Tags \X ResIds /\ wz \in Seq(Tags \X ResIds)
  BY <1>2, <1>3, <1>4
<1>6. PICK t : t = h[1]
  OBVIOUS
<1>7. PICK r : r = h[2]
  OBVIOUS
<1>8. t \in Tags /\ r \in ResIds
  BY <1>5, <1>6, <1>7
<1>9. /\ waiters \in [ResIds -> Seq(Tags)] /\ ready_queue \in Seq(Tags \X ResIds)
      /\ QueueOK(slot, waiters, ready_queue, wr)
      /\ \A s \in ResIds : GrantAt(s, free, waiters, ready_queue, wr)
  BY <1>1 DEF FsmTypes, CalmInv, Fine, GrantOK
<1>10. /\ QueueOK(slot, waiters, ready_queue, wz) /\ Absent(t, waiters, ready_queue, wz)
       /\ ~DueIn(r, ready_queue, wz) /\ slot[t].st = "Wait" /\ slot[t].res = r
       /\ \A x \in Entries(ready_queue) : x[2] # r
       /\ \A s : DueIn(s, ready_queue, wr) <=> s = r \/ DueIn(s, ready_queue, wz)
  <2>0. Pops(wr, h, wz)
    BY <1>2, <1>3, <1>4 DEF Pops
  <2>1. Popped(slot, waiters, ready_queue, wr, h, wz)
    BY <1>4, <1>9, <2>0, QueuePop
  <2>. QED
    BY <1>6, <1>7, <2>1 DEF Popped
<1>11. free \cap UnitsOf(r) # {}
  BY <1>8, <1>9, <1>10 DEF GrantAt
<1>12. CanAcquire(r)
  BY <1>8, <1>10, <1>11, AcquireFacts
<1>13. /\ Resume(t, r) /\ pc = "ready" /\ pc' = "ready" /\ pka_state' = pka_state
       /\ work'.ready = wz
  BY <1>1, <1>2, <1>3, <1>6, <1>7, <1>10
  DEF OnReady, Unreachable, Live, LoopTypes, Work
<1>14. \A s \in ResIds : s # r => GrantAt(s, free, waiters, ready_queue, wz)
  BY <1>9, <1>10 DEF GrantAt
<1>15. ~Fickle /\ waiters[r] # <<>> => \A u, v \in free \cap UnitsOf(r) : u = v
  BY <1>8, <1>9 DEF GrantAt
<1>17. Ending(t, {}) /\ {} \in SUBSET slot[t].own
  BY <1>8, <1>10, EndingNone DEF CalmInv
<1>18. r \in IpcIds => slot[t].own \cap IpcIds = {}
  BY <1>8, <1>10 DEF CalmInv, RunInv
<1>20. /\ FineNext(wz) /\ RunInv' /\ \A x \in Tags : x # t => slot'[x] = slot[x]
       /\ \A x \in Entries(ready_queue') : x[2] # "Pka"
  <2>1. CASE Begin(t, r, {})
    <3>1. PICK u \in free \cap UnitsOf(r) : Start(t, r, u, {}) \/ StartFails(t, r, u, {})
      BY <1>12, <2>1 DEF Begin
    <3>2. FineNext(wz)
      BY <1>5, <1>8, <1>10, <1>14, <1>15, <3>1, GrantFine
    <3>3. PICK R \in SUBSET Units : Reruns(t, R)
      BY <1>8, <1>17, <1>18, <2>1, BeginReruns DEF CalmInv
    <3>4. RunInv' /\ \A x \in Tags : x # t => slot'[x] = slot[x]
      BY <1>8, <1>13, <3>3, RerunsKeeps DEF CalmInv, Reruns
    <3>5. \A x \in Entries(ready_queue') : x[2] # "Pka"
      BY <1>8, <1>13, <2>1, BeginWakes DEF CalmInv, PassInv
    <3>. QED
      BY <3>2, <3>4, <3>5
  <2>2. CASE Fickle /\ ToOut(t)
    <3>1. /\ \A x \in Tags : x # t => slot'[x] = slot[x]
          /\ slot'[t].st = "Out" /\ slot'[t].own = slot[t].own
          /\ UNCHANGED <<waiters, ready_queue, free, unit_tag>>
      BY <1>8, <2>2 DEF ToOut, queueVars, unitVars, FsmTypes, Slot
    <3>2. QueueOK(slot', waiters, ready_queue, wz)
      <4>1. PICK sm : sm = slot'
        OBVIOUS
      <4>2. \A x \in Tags : x # t => sm[x] = slot[x]
        BY <3>1, <4>1
      <4>3. /\ waiters \in [ResIds -> Seq(Tags)] /\ ready_queue \in Seq(Tags \X ResIds)
            /\ QueueOK(slot, waiters, ready_queue, wz) /\ Absent(t, waiters, ready_queue, wz)
            /\ wz \in Seq(Tags \X ResIds)
        BY <1>5, <1>9, <1>10
      <4>4. QueueOK(sm, waiters, ready_queue, wz)
        BY <4>2, <4>3, QueueSlot
      <4>. QED
        BY <4>1, <4>4
    <3>3. \A s \in ResIds : GrantAt(s, free, waiters, ready_queue, wz)
      BY <1>9, <1>10, <2>2 DEF GrantAt
    <3>4. FineNext(wz)
      BY <3>1, <3>2, <3>3 DEF FineNext, GrantOK
    <3>5. Reruns(t, {})
      <4>1. slot[t].own \cap Engines \subseteq {}
        BY <1>8, <1>17, OwnEngines DEF CalmInv
      <4>2. \A u, v \in slot[t].own \cap IpcIds : u = v
        BY <1>8 DEF CalmInv, RunInv
      <4>3. \A u \in Units \ pka_state : unit_tag[u] # t
        BY <1>17 DEF Ending
      <4>. QED
        BY <3>1, <4>1, <4>2, <4>3 DEF Reruns
    <3>6. RunInv'
      BY <1>8, <1>13, <3>5, RerunsKeeps DEF CalmInv
    <3>. QED
      BY <1>13, <3>1, <3>4, <3>6 DEF CalmInv, PassInv
  <2>. QED
    BY <1>13, <2>1, <2>2 DEF Resume
<1>22. CleanupAlive'
  BY <1>10, <1>20, TagFacts DEF CalmInv, PassInv, CleanupAlive
<1>23. PassInv'
  BY <1>13, <1>20, <1>22 DEF PassInv
<1>. QED
  BY <1>13, <1>20, <1>23 DEF CalmNext

(* The other steps of the loop move no unit and no waiter. *)
LEMMA LoopCalm ==
    ASSUME Calm, LoopTypes, CalmInv,
           CleanupPass \/ ReadyPass \/ Return \/ Drain \/ UNCHANGED vars
    PROVE  CalmNext
<1>0. UNCHANGED <<slot, waiters, free, unit_tag, pka_state>>
  BY DEF CleanupPass, ReadyPass, Return, Drain, vars, queueVars, unitVars
<1>1. RunInv'
  BY <1>0 DEF CalmInv, RunInv
<1>2. CASE ReadyPass
  <2>1. /\ work.ready = <<>> /\ work'.ready = ready_queue /\ ready_queue' = <<>>
        /\ pc' = "ready"
    BY <1>2 DEF ReadyPass, LoopTypes, Work, CalmInv, PassInv
  <2>2. PICK rq : rq = ready_queue
    OBVIOUS
  <2>3. QueueOK(slot, waiters, rq, <<>>) /\ GrantOK(free, waiters, rq, <<>>)
    BY <2>1, <2>2 DEF CalmInv, Fine
  <2>4. QueueOK(slot, waiters, <<>>, rq) /\ \A r : DueIn(r, <<>>, rq) <=> DueIn(r, rq, <<>>)
    BY <2>3, QueueCopy
  <2>5. GrantOK(free, waiters, <<>>, rq)
    BY <2>3, <2>4 DEF GrantOK, GrantAt
  <2>6. FineNext(work'.ready)
    BY <1>0, <2>1, <2>2, <2>4, <2>5 DEF FineNext
  <2>7. PassInv'
    BY <1>0, <2>1 DEF CalmInv, PassInv, CleanupAlive, Entries
  <2>. QED
    BY <1>1, <2>6, <2>7 DEF CalmNext
<1>3. CASE CleanupPass \/ Return \/ Drain \/ UNCHANGED vars
  <2>1. ready_queue' = ready_queue /\ work'.ready = work.ready
    BY <1>3 DEF CleanupPass, Return, Drain, vars, queueVars, loopVars, LoopTypes, Work
  <2>2. FineNext(work'.ready)
    BY <1>0, <2>1 DEF CalmInv, Fine, FineNext
  <2>3. CASE CleanupPass \/ UNCHANGED vars \/ Drain
    BY <1>0, <1>1, <2>1, <2>2, <2>3
    DEF CleanupPass, Drain, vars, loopVars, CalmInv, PassInv, CleanupAlive, CalmNext
  <2>4. CASE Return
    BY <1>0, <1>1, <2>1, <2>2, <2>4 DEF Return, CalmInv, PassInv, CleanupAlive, CalmNext
  <2>. QED
    BY <1>3, <2>3, <2>4
<1>. QED
  BY <1>2, <1>3

(* Every step keeps the invariant. *)
LEMMA StepCalm == ASSUME Calm PROVE IInv /\ CalmInv /\ [Next]_vars => CalmInv'
<1>. SUFFICES ASSUME IInv, CalmInv, [Next]_vars PROVE CalmNext
  BY CalmPrimed
<1>0. FsmTypes /\ LoopTypes /\ UnitAccounting /\ TagAccounting /\ IdleOwnsNothing
  BY TypeParts DEF IInv
<1>1. pc = "idle" => AtIdle
  BY <1>0 DEF AtIdle, CalmInv, PassInv
<1>2. ASSUME NEW t \in Tags, StartCmd(t) \/ TxComplete(t) PROVE CalmNext
  <2>1. AtIdle
    BY <1>1, <1>2 DEF StartCmd, TxComplete, Deliver
  <2>. QED
    BY <1>2, <2>1, CommandCalm
<1>3. ASSUME NEW e \in Engines, PkaDone(e) \/ WipeDone(e) PROVE CalmNext
  <2>1. AtIdle
    BY <1>1, <1>3 DEF PkaDone, WipeDone, Deliver
  <2>. QED
    BY <1>3, <2>1, PkaCalm, WipedCalm
<1>4. ASSUME NEW c \in IpcIds, IpcResponse(c) \/ \E t \in Tags : OutFails(t, c) PROVE CalmNext
  <2>1. AtIdle
    BY <1>1, <1>4 DEF IpcResponse, OutFails, Deliver
  <2>. QED
    BY <1>4, <2>1, IpcCalm
<1>5. CASE RxReady
  <2>1. AtIdle
    BY <1>1, <1>5 DEF RxReady
  <2>. QED
    BY <1>0, <1>5, <2>1, ArrivalCalm
<1>6. ASSUME NEW e \in Engines, OnCleanup(e) PROVE CalmNext
  BY <1>0, <1>6, WipeCalm
<1>7. CASE OnReady
  BY <1>0, <1>7, ReadyCalm
<1>8. CASE CleanupPass \/ ReadyPass \/ Return \/ Drain \/ UNCHANGED vars
  BY <1>0, <1>8, LoopCalm
<1>9. /\ ~Tick /\ ~OnTick /\ ~TickEnd /\ \A e \in Engines : ~WipeError(e) /\ ~WipeEndFails(e)
  BY DEF Calm, CalmInv, PassInv, Tick, OnTick, TickEnd, WipeError, WipeEndFails
<1>10. CASE RxRefused
  <2>1. AtIdle
    BY <1>1, <1>10 DEF RxRefused
  <2>. QED
    BY <1>10, <2>1, RefusalCalm
<1>. QED
  BY <1>2, <1>3, <1>4, <1>5, <1>6, <1>7, <1>8, <1>9, <1>10 DEF Next, Core, Serve

(* The initial state satisfies it. *)
LEMMA InitCalm == Init => CalmInv
<1>. SUFFICES ASSUME Init PROVE CalmInv
  OBVIOUS
<1>1. work.ready = <<>> /\ ready_queue = <<>> /\ \A r \in ResIds : waiters[r] = <<>>
  BY DEF Init, NoWork
<1>2. Entries(<<>>) = {} /\ OncePerRes(<<>>) /\ Distinct(<<>>)
  BY DEF Entries, OncePerRes, Distinct
<1>3. /\ \A t \in Tags : slot[t].own = {} /\ slot[t].st \in {"None", "Static"}
      /\ CleanupAlive /\ pc = "idle" /\ \A u \in Units : unit_tag[u] = NoTag
  BY TagFacts DEF Init, Empty, CleanupAlive
<1>4. QueueOK(slot, waiters, ready_queue, work.ready)
  BY <1>1, <1>2 DEF QueueOK
<1>5. GrantOK(free, waiters, ready_queue, work.ready)
  BY <1>1, <1>2 DEF GrantOK, GrantAt, DueIn
<1>6. PassInv
  BY <1>1, <1>2, <1>3 DEF PassInv
<1>7. RunInv
  BY <1>3 DEF RunInv
<1>. QED
  BY <1>4, <1>5, <1>6, <1>7 DEF CalmInv, Fine

LEMMA CalmHolds == ASSUME Calm PROVE Spec => [](IInv /\ CalmInv)
<1>1. IInv /\ CalmInv /\ [Next]_vars => CalmInv'
  BY StepCalm
<1>. QED
  BY <1>1, InitCalm, InvariantHolds, PTL DEF Spec

(* In the build without time-outs whose wipes do not fail, for every number  *)
(* of slots, engines and channels, and although woken commands may fail      *)
(* before they ask again: a command that CmdScheduler::on_event wakes still waits for     *)
(* that resource, and acquire gives it a unit.  So on_ready never meets the  *)
(* InvalidState of a second Pending, nor HsmFsm's unreachable!.              *)
THEOREM TheWokenFindUnits == ASSUME Calm PROVE Spec => []WokenFindsUnit
<1>1. IInv /\ CalmInv => WokenFindsUnit
  <2>. SUFFICES ASSUME IInv, CalmInv, pc = "ready", work.ready # <<>>
                PROVE  LET t == Head(work.ready)[1]
                           r == Head(work.ready)[2]
                       IN  slot[t].st = "Wait" /\ slot[t].res = r /\ CanAcquire(r)
    BY DEF WokenFindsUnit
  <2>1. PICK wr : wr = work.ready
    OBVIOUS
  <2>2. PICK h : h = Head(wr)
    OBVIOUS
  <2>3. PICK wz : wz = Tail(wr)
    OBVIOUS
  <2>4. FsmTypes /\ wr \in Seq(Tags \X ResIds) /\ wr # <<>>
    BY <2>1, TypeParts DEF IInv, LoopTypes, Work
  <2>5. h \in Tags \X ResIds
    BY <2>2, <2>4
  <2>6. /\ waiters \in [ResIds -> Seq(Tags)] /\ ready_queue \in Seq(Tags \X ResIds)
        /\ QueueOK(slot, waiters, ready_queue, wr)
        /\ \A s \in ResIds : GrantAt(s, free, waiters, ready_queue, wr)
    BY <2>1, <2>4 DEF FsmTypes, CalmInv, Fine, GrantOK
  <2>11. Pops(wr, h, wz)
    BY <2>2, <2>3, <2>4 DEF Pops
  <2>12. Popped(slot, waiters, ready_queue, wr, h, wz)
    BY <2>4, <2>6, <2>11, QueuePop
  <2>7. /\ slot[h[1]].st = "Wait" /\ slot[h[1]].res = h[2]
        /\ \A x \in Entries(ready_queue) : x[2] # h[2]
    BY <2>12 DEF Popped
  <2>8. \A s : DueIn(s, ready_queue, wr) <=> s = h[2] \/ DueIn(s, ready_queue, wz)
    BY <2>12 DEF Popped
  <2>9. h[2] \in ResIds /\ free \cap UnitsOf(h[2]) # {}
    BY <2>5, <2>6, <2>8 DEF GrantAt
  <2>10. CanAcquire(h[2])
    BY <2>4, <2>7, <2>9, AcquireFacts
  <2>. QED
    BY <2>1, <2>2, <2>7, <2>10
<1>. QED
  BY <1>1, CalmHolds, PTL

(* In the same build: the answer on an IPC channel finds the command that    *)
(* asked, still waiting for it and still holding the channel.                *)
THEOREM ResponsesReachOwners == ASSUME Calm PROVE Spec => []ResponseReachesOwner
<1>1. IInv /\ CalmInv => ResponseReachesOwner
  <2>1. IInv => \A c \in IpcIds : c \in Units /\ c \notin pka_state
    BY UnitsAssumption DEF IInv, TypeOK, Units
  <2>. QED
    BY <2>1 DEF CalmInv, RunInv, ResponseReachesOwner
<1>. QED
  BY <1>1, CalmHolds, PTL

(* In the same build, if every woken command asks again: no engine and no    *)
(* channel lies idle while a command waits for it, unless the wake-up for it *)
(* is under way.                                                             *)
THEOREM NoWakeupLost == ASSUME Calm, ~Fickle PROVE Spec => []NoLostWakeup
<1>1. IInv /\ CalmInv => NoLostWakeup
  <2>. SUFFICES ASSUME IInv, CalmInv, NEW r \in ResIds, waiters[r] # <<>>
                PROVE  Cardinality(free \cap UnitsOf(r)) <= Woken(r)
    BY DEF NoLostWakeup
  <2>. DEFINE A == {i \in DOMAIN ready_queue : ready_queue[i][2] = r}
              B == {i \in DOMAIN work.ready : work.ready[i][2] = r}
              F == free \cap UnitsOf(r)
  <2>1. /\ ready_queue \in Seq(Tags \X ResIds) /\ work.ready \in Seq(Tags \X ResIds)
    BY DEF IInv, TypeOK, Work
  <2>2. /\ DOMAIN ready_queue = 1 .. Len(ready_queue) /\ Len(ready_queue) \in Nat
        /\ DOMAIN work.ready = 1 .. Len(work.ready) /\ Len(work.ready) \in Nat
    BY <2>1
  <2>3. IsFiniteSet(A) /\ IsFiniteSet(B)
    <3>1. IsFiniteSet(1 .. Len(ready_queue)) /\ IsFiniteSet(1 .. Len(work.ready))
      <4>1. 1 \in Int /\ Len(ready_queue) \in Int /\ Len(work.ready) \in Int
        BY <2>2
      <4>. QED
        BY <4>1, FS_Interval
    <3>2. A \subseteq 1 .. Len(ready_queue) /\ B \subseteq 1 .. Len(work.ready)
      BY <2>2
    <3>. QED
      BY <3>1, <3>2, FS_Subset
  <2>4. DueIn(r, ready_queue, work.ready) => A # {} \/ B # {}
    BY <2>2 DEF DueIn, Entries
  <2>5. Woken(r) = Cardinality(A) + Cardinality(B)
    BY DEF Woken
  <2>6. \A u, v \in F : DueIn(r, ready_queue, work.ready) /\ u = v
    BY DEF CalmInv, Fine, GrantOK, GrantAt
  <2>. HIDE DEF A, B, F
  <2>7. /\ Cardinality(A) \in Nat /\ Cardinality(B) \in Nat
        /\ A # {} => Cardinality(A) # 0
        /\ B # {} => Cardinality(B) # 0
    BY <2>3, FS_CardinalityType, FS_EmptySet
  <2>8. CASE F = {}
    <3>1. Cardinality(F) = 0
      BY <2>8, FS_EmptySet
    <3>. QED
      BY <2>5, <2>7, <3>1 DEF F
  <2>9. CASE F # {}
    <3>0. PICK u : u \in F
      BY <2>9
    <3>1. F = {u}
      BY <2>6, <3>0
    <3>2. Cardinality(F) = 1
      BY <3>1, FS_Singleton
    <3>3. A # {} \/ B # {}
      BY <2>4, <2>6, <2>9
    <3>. QED
      BY <2>5, <2>7, <3>2, <3>3 DEF F
  <2>. QED
    BY <2>8, <2>9
<1>. QED
  BY <1>1, CalmHolds, PTL
=============================================================================
