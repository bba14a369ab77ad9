---------------------------- MODULE CmdScheduler ----------------------------
(***************************************************************************)
(* The command scheduler of the HSM core: the slots that hold one command  *)
(* state machine (FSM) each, the counted resources the FSMs share (the PKA *)
(* engines and the IPC channels), the static FSM that wipes a PKA engine   *)
(* before it is given to the next command, the wake-up and clean-up queues *)
(* that CmdScheduler::on_event drains, the timer tick that times commands  *)
(* out, and the drain closure.                                             *)
(*                                                                         *)
(* The core is one polling loop without preemption, so a call of on_event  *)
(* runs to its end.  `pc' names where in that call the core is: only when  *)
(* it is "idle" can the next interrupt be served.  A command FSM is        *)
(* abstracted to what the scheduler and the resources can tell apart.      *)
(***************************************************************************)
EXTENDS Integers, Sequences, FiniteSets

CONSTANTS
    NumSlots,         \* command slots of the scheduler
    Engines,          \* PKA engine instances
    IpcIds,           \* IPC channel resources, one channel each
    MaxArrivals,      \* bound: commands the host submits
    MaxStages,        \* bound: resources one command acquires in turn
    TimeoutsEnabled,  \* FALSE: the disable_io_timeout_handling build
    WipeMayFail,      \* TRUE: a hung PKA engine is among the behaviours
    Fickle            \* TRUE: a woken command may fail before it asks again

ASSUME SlotsAssumption == NumSlots \in Nat /\ NumSlots >= 2
ASSUME UnitsAssumption == /\ Engines \cap IpcIds = {}
                          /\ "Pka" \notin IpcIds \cup Engines
                          /\ "none" \notin IpcIds
ASSUME FiniteAssumption == IsFiniteSet(Engines)
ASSUME BoundsAssumption == MaxArrivals \in Nat /\ MaxStages \in Nat \ {0}
ASSUME FlagsAssumption == {TimeoutsEnabled, WipeMayFail, Fickle} \subseteq BOOLEAN

Tags == 0 .. NumSlots - 1
NoTag == -1
CleanupTag == NumSlots - 1
ResIds == {"Pka"} \cup IpcIds
NoRes == "none"
Units == Engines \cup IpcIds
UnitsOf(r) == IF r = "Pka" THEN Engines ELSE {r}

VARIABLES
    slot,           \* CmdSlot::fsm of every tag
    free_tags,      \* the stack of unused tags
    occupancy,      \* occupancy_list
    access,         \* access_list
    fn_drain,       \* a drain closure is stored
    ready_queue,    \* (tag, resource) pairs to wake
    cleanup_queue,  \* engines whose ResourceCleanup event is queued
    free,           \* units the resource objects count as available
    waiters,        \* CmdResourceImpl::waiters of every resource
    unit_tag,       \* the tag the unit's driver holds (peek_tag)
    unread,         \* channels whose answer no command has received
    pka_state,      \* engines the clean-up FSM is wiping
    pc,             \* where in the event loop the core is
    work,           \* queue entries and tags the current pass has copied
    arrivals        \* commands submitted so far

schedVars == <<free_tags, occupancy, fn_drain>>
queueVars == <<ready_queue, cleanup_queue, waiters>>
unitVars == <<free, unit_tag>>
loopVars == <<pc, work>>
vars == <<slot, schedVars, access, queueVars, unitVars, unread, pka_state,
          loopVars, arrivals>>

(***************************************************************************)
(* A slot: In - an HsmFsm that has no command yet (Init, DmaIn); Wait - its*)
(* command waits for resource res; Run - its command waits for the answer  *)
(* of a unit of res; Out - the response is on its way out (DmaOut,         *)
(* Completion); Undo - DmaOutErr, where the command rolls back over the    *)
(* channel it still holds; Static - the clean-up FSM.  own: the units its  *)
(* CmdResourceRefs hold; left: the stages the command may still go through.*)
(***************************************************************************)
SlotStates == {"None", "In", "Wait", "Run", "Out", "Undo", "Static"}
Slot == [st : SlotStates, res : ResIds \cup {NoRes}, own : SUBSET Units,
         left : 0 .. MaxStages]
Empty == [st |-> "None", res |-> NoRes, own |-> {}, left |-> 0]
Live == {"In", "Wait", "Run", "Out", "Undo"}
NoWork == [cleanup |-> {}, ready |-> <<>>, tick |-> {}]

Init ==
    /\ slot = [t \in Tags |-> IF t = CleanupTag
                                THEN [Empty EXCEPT !.st = "Static"] ELSE Empty]
    /\ free_tags = [i \in 1 .. NumSlots - 1 |-> i - 1]
    /\ occupancy = {} /\ access = {}
    /\ fn_drain = FALSE
    /\ ready_queue = <<>> /\ cleanup_queue = {}
    /\ free = Units
    /\ waiters = [r \in ResIds |-> <<>>]
    /\ unit_tag = [u \in Units |-> NoTag]
    /\ unread = {} /\ pka_state = {}
    /\ pc = "idle" /\ work = NoWork
    /\ arrivals = 0

-----------------------------------------------------------------------------
(* CmdResourceImpl::acquire, cleanup and wakeup *)

Transferred(r) == \E i \in 1 .. Len(ready_queue) : ready_queue[i][2] = r

(* Mutant: acquire does not ask rsrc_ownership_transferred *)
CanAcquireStealing(r) == free \cap UnitsOf(r) # {}

CanAcquire(r) ==
    LET count == Cardinality(free \cap UnitsOf(r))
    IN  count > 1 \/ (count = 1 /\ ~Transferred(r))

WakeNext(r) ==
    IF waiters[r] = <<>>
      THEN UNCHANGED <<waiters, ready_queue>>
      ELSE /\ waiters' = [waiters EXCEPT ![r] = Tail(@)]
           /\ ready_queue' = Append(ready_queue, <<Head(waiters[r]), r>>)

(* Mutant: a dropped engine is cleared at once, as a channel is *)
ReleaseUnwiped(owned) ==
    /\ free' = free \cup owned
    /\ UNCHANGED <<cleanup_queue, waiters, ready_queue>>

(* Mutant: a dropped channel wakes nobody *)
ReleaseSilently(owned) ==
    /\ cleanup_queue' = cleanup_queue \cup (owned \cap Engines)
    /\ free' = free \cup (owned \cap IpcIds)
    /\ UNCHANGED <<waiters, ready_queue>>

(* Dropping the refs of owned: engines queue for the wipe, a channel is free *)
Release(owned) ==
    /\ cleanup_queue' = cleanup_queue \cup (owned \cap Engines)
    /\ free' = free \cup (owned \cap IpcIds)
    /\ \/ owned \cap IpcIds = {} /\ UNCHANGED <<waiters, ready_queue>>
       \/ \E c \in owned \cap IpcIds : WakeNext(c)

-----------------------------------------------------------------------------
(* What a command FSM does with an event; the callers move the loop on *)

Stay == UNCHANGED <<slot, schedVars, queueVars, unitVars>>

(* The error or final response of a command: its refs live until the drop.  *)
(* What was done is undone on the way, in the same event, except by commands *)
(* whose operation has just succeeded over a channel: see Rollback.          *)
ToOut(t) ==
    /\ slot' = [slot EXCEPT ![t].st = "Out"]
    /\ UNCHANGED <<schedVars, queueVars, unitVars>>

(* Mutant: the drain closure is tried before the occupancy bit is cleared *)
RetireDrainsEarly(t) ==
    /\ slot' = [slot EXCEPT ![t] = Empty]
    /\ free_tags' = Append(free_tags, t)
    /\ occupancy' = occupancy \ {t}
    /\ fn_drain' = (fn_drain /\ occupancy # {})
    /\ Release(slot[t].own)
    /\ UNCHANGED unit_tag

(* The slot of t is empty again and a stored drain closure may run *)
Vacate(t) ==
    /\ slot' = [slot EXCEPT ![t] = Empty]
    /\ free_tags' = Append(free_tags, t)
    /\ occupancy' = occupancy \ {t}
    /\ fn_drain' = (fn_drain /\ occupancy' # {})

(* CmdSlot::on_event with a result that is not pending *)
Retire(t) ==
    /\ Vacate(t)
    /\ Release(slot[t].own)
    /\ UNCHANGED unit_tag

(* A stage costs one unit of `left'; the second try of a woken one does not *)
Left(t) == IF slot[t].st = "Wait" THEN slot[t].left ELSE slot[t].left - 1

Moved(t, st, r, own) ==
    [slot EXCEPT ![t] = [st |-> st, res |-> r, own |-> own, left |-> Left(t)]]

(* The drivers consume the tags of the units whose operation has ended *)
Ended(end) == [u \in Units |-> IF u \in end THEN NoTag ELSE unit_tag[u]]

(* The unit is granted and the operation started on it *)
Start(t, r, u, end) ==
    /\ unit_tag[u] = NoTag
    /\ free' = free \ {u}
    /\ slot' = Moved(t, "Run", r, (slot[t].own \ (end \cap Engines)) \cup {u})
    /\ unit_tag' = [Ended(end) EXCEPT ![u] = t]
    /\ cleanup_queue' = cleanup_queue \cup (end \cap Engines)
    /\ UNCHANGED <<waiters, ready_queue>>

(* Mutant: the failing begin call leaks the engine, or wakes nobody *)
StartFailsLeaking(t, r, u, end) ==
    /\ slot' = Moved(t, "Out", r, slot[t].own \ (end \cap Engines))
    /\ unit_tag' = Ended(end)
    /\ cleanup_queue' = cleanup_queue \cup (end \cap Engines)
    /\ free' = free \ ({u} \cap Engines)
    /\ UNCHANGED <<waiters, ready_queue>>

(* The unit is granted, its driver refuses (a channel: busy or full), and *)
(* the ref is dropped on the way out of the failing begin call            *)
StartFails(t, r, u, end) ==
    /\ slot' = Moved(t, "Out", r, slot[t].own \ (end \cap Engines))
    /\ unit_tag' = Ended(end)
    /\ cleanup_queue' = cleanup_queue \cup ((end \cup {u}) \cap Engines)
    /\ free' = free \ ({u} \cap Engines)
    /\ IF u \in IpcIds THEN WakeNext(r) ELSE UNCHANGED <<waiters, ready_queue>>

(* No unit: the tag joins the waiters.  A command that was woken for this *)
(* very resource treats the second Pending as InvalidState and answers.   *)
Enqueue(t, r, end) ==
    /\ slot' = Moved(t, IF slot[t].st = "Wait" THEN "Out" ELSE "Wait", r,
                     slot[t].own \ (end \cap Engines))
    /\ waiters' = [waiters EXCEPT ![r] = Append(@, t)]
    /\ unit_tag' = Ended(end)
    /\ cleanup_queue' = cleanup_queue \cup (end \cap Engines)
    /\ UNCHANGED <<free, ready_queue>>

(* A command begins an operation on resource r.  The operation on the unit *)
(* in end is over: an engine is released first, a channel is held on to.   *)
Begin(t, r, end) ==
    /\ UNCHANGED schedVars
    /\ IF CanAcquire(r)
         THEN \E u \in free \cap UnitsOf(r) :
                 Start(t, r, u, end) \/ StartFails(t, r, u, end)
         ELSE Enqueue(t, r, end)

(* The next stage of a multi-stage command; no command uses two channels *)
NextStage(t, end) ==
    /\ slot[t].left > 0
    /\ \E r \in ResIds : /\ r \in IpcIds => slot[t].own \cap IpcIds = {}
                         /\ Begin(t, r, end)

(* Another operation of the same stage, on the engine it already holds *)
Continue(t) ==
    /\ slot[t].left > 0
    /\ slot' = [slot EXCEPT ![t].left = @ - 1]
    /\ UNCHANGED <<schedVars, queueVars, unitVars>>

(* The command ends the operation of unit u, drops its ref and answers *)
Finish(t, u) ==
    /\ slot' = [slot EXCEPT ![t].st = "Out", ![t].own = @ \ {u}]
    /\ unit_tag' = Ended({u})
    /\ Release({u})
    /\ UNCHANGED schedVars

(* Mutant: the command answers without receiving the channel's message *)
FinishUnreceived(t, u) ==
    /\ slot' = [slot EXCEPT ![t].st = "Out"]
    /\ UNCHANGED <<schedVars, queueVars, unitVars>>

(* The command ends the operation and keeps the ref until it is dropped *)
FinishHolding(t, u) ==
    /\ slot' = [slot EXCEPT ![t].st = "Out"]
    /\ unit_tag' = Ended({u})
    /\ UNCHANGED <<schedVars, queueVars, free>>

(* The operation succeeded and the answer cannot be built or sent: a second *)
(* request on the channel asks for the opposite.  It is done once at most.  *)
Rollback(t, c, st) ==
    /\ slot[t].left > 0
    /\ slot' = [slot EXCEPT ![t].st = st, ![t].left = 0]
    /\ unit_tag' = [unit_tag EXCEPT ![c] = t]
    /\ UNCHANGED <<schedVars, queueVars, free>>

(* An event that the state of the FSM does not expect: a command that waits *)
(* answers with an error, an HsmFsm before or after its command ignores it  *)
Unexpected(t) ==
    IF slot[t].st \in {"Wait", "Run", "Undo"} THEN ToOut(t) ELSE Stay

-----------------------------------------------------------------------------
(* Events of the main loop.  Each ends in the passes of on_event. *)

Touch(t) == access' = IF slot[t].st = "None" THEN access ELSE access \cup {t}

Deliver(t) == pc = "idle" /\ pc' = "post" /\ UNCHANGED work /\ Touch(t)

(* HsmEventHandler::on_request_ready: alloc, then the RxReady event *)
RxReady ==
    /\ pc = "idle" /\ arrivals < MaxArrivals /\ free_tags # <<>>
    /\ LET t == free_tags[Len(free_tags)] IN
       /\ \E st \in {"In", "Out"} :
            slot' = [slot EXCEPT ![t] = [st |-> st, res |-> NoRes, own |-> {},
                                         left |-> MaxStages]]
       /\ free_tags' = SubSeq(free_tags, 1, Len(free_tags) - 1)
       /\ occupancy' = occupancy \cup {t}
       /\ access' = access \cup {t}
    /\ pc' = "post" /\ UNCHANGED work
    /\ arrivals' = arrivals + 1
    /\ UNCHANGED <<fn_drain, queueVars, unitVars, unread, pka_state>>

(* on_rx_ready fails before there is anything to answer (no descriptor, or *)
(* no queue of that id): the FSM is created and dropped in one event       *)
RxRefused ==
    /\ pc = "idle" /\ arrivals < MaxArrivals /\ free_tags # <<>>
    /\ access' = access \cup {free_tags[Len(free_tags)]}
    /\ fn_drain' = (fn_drain /\ occupancy # {})
    /\ pc' = "post" /\ UNCHANGED work
    /\ arrivals' = arrivals + 1
    /\ UNCHANGED <<slot, free_tags, occupancy, queueVars, unitVars, unread, pka_state>>

(* on_in_dma_complete: the command is decoded, checked and started *)
StartCmd(t) ==
    /\ slot[t].st = "In"
    /\ Deliver(t)
    /\ ToOut(t) \/ NextStage(t, {})
    /\ UNCHANGED <<unread, pka_state, arrivals>>

(* on_pka: the completion of engine e goes to the tag its driver holds *)
PkaDone(e) ==
    LET t == unit_tag[e] IN
    /\ t # NoTag /\ e \notin pka_state
    /\ Deliver(t)
    /\ IF slot[t].st = "Run" /\ e \in slot[t].own
         THEN Finish(t, e) \/ Continue(t) \/ NextStage(t, {e})
         ELSE Unexpected(t)
    /\ UNCHANGED <<unread, pka_state, arrivals>>

(* on_fp_to_hsm_ipc_response and its siblings for the other channels.  The *)
(* interrupt is cleared whether or not a command receives the message.     *)
IpcResponse(c) ==
    LET t == unit_tag[c] IN
    /\ t # NoTag /\ c \notin unread
    /\ Deliver(t)
    /\ IF slot[t].st \in {"Run", "Undo"} /\ slot[t].res = c /\ c \in slot[t].own
         THEN /\ \/ FinishHolding(t, c)
                 \/ /\ slot[t].st = "Run"
                    /\ \/ Finish(t, c) \/ NextStage(t, {c})
                       \/ Rollback(t, c, "Run")
              /\ UNCHANGED unread
         ELSE Unexpected(t) /\ unread' = unread \cup {c}
    /\ UNCHANGED <<pka_state, arrivals>>

(* process_out_dma_complete with a failed transfer: a command that still holds *)
(* the channel of its last operation rolls that operation back                *)
OutFails(t, c) ==
    /\ slot[t].st = "Out" /\ slot[t].res = c /\ c \in slot[t].own
    /\ unit_tag[c] = NoTag
    /\ Deliver(t)
    /\ Rollback(t, c, "Undo")
    /\ UNCHANGED <<unread, pka_state, arrivals>>

(* on_response_complete: the completion entry is out, the FSM returns Ok *)
TxComplete(t) ==
    /\ slot[t].st = "Out"
    /\ Deliver(t)
    /\ Retire(t)
    /\ UNCHANGED <<unread, pka_state, arrivals>>

(* CmdSchedulerImpl::drain; a second request while one is stored is refused, *)
(* one that finds the scheduler empty calls its closure at once              *)
Drain ==
    /\ pc = "idle" /\ ~fn_drain /\ occupancy # {}
    /\ fn_drain' = TRUE
    /\ UNCHANGED <<slot, free_tags, occupancy, access, queueVars, unitVars,
                   unread, pka_state, loopVars, arrivals>>

-----------------------------------------------------------------------------
(* HsmResCleanupFsm *)

CleanupAlive == slot[CleanupTag].st = "Static"

(* Mutant: the end of a wipe runs the drain closure unconditionally *)
WipeDoneDrains(e) ==
    /\ e \in pka_state /\ CleanupAlive
    /\ Deliver(CleanupTag)
    /\ pka_state' = pka_state \ {e}
    /\ unit_tag' = Ended({e})
    /\ free' = free \cup {e}
    /\ WakeNext("Pka")
    /\ fn_drain' = FALSE
    /\ UNCHANGED <<slot, free_tags, occupancy, cleanup_queue, unread, arrivals>>

(* on_pka_cleanup_done, then DrainReady: the FSM stays, a drain may fire *)
WipeDone(e) ==
    /\ e \in pka_state /\ CleanupAlive
    /\ Deliver(CleanupTag)
    /\ pka_state' = pka_state \ {e}
    /\ unit_tag' = Ended({e})
    /\ free' = free \cup {e}
    /\ WakeNext("Pka")
    /\ fn_drain' = (fn_drain /\ occupancy # {})
    /\ UNCHANGED <<slot, free_tags, occupancy, cleanup_queue, unread, arrivals>>

(* end_memory_wipe fails, with the driver's tag taken or not: the engine is *)
(* given to nobody and the slot of the FSM is retired                       *)
WipeEndFails(e) ==
    /\ WipeMayFail /\ e \in pka_state /\ CleanupAlive
    /\ Deliver(CleanupTag)
    /\ Vacate(CleanupTag)
    /\ pka_state' = {} /\ \E end \in {{}, {e}} : unit_tag' = Ended(end)
    /\ UNCHANGED <<queueVars, free, unread, arrivals>>

(* on_pka_cleanup_error panics *)
WipeError(e) ==
    /\ WipeMayFail /\ pc = "idle" /\ e \in pka_state /\ CleanupAlive
    /\ pc' = "panic"
    /\ UNCHANGED <<slot, schedVars, access, queueVars, unitVars, unread,
                   pka_state, work, arrivals>>

(* Mutant: the wipe is started under the tag of the finished command *)
WipeBeginUntagged(e) ==
    /\ CleanupAlive
    /\ pka_state' = pka_state \cup {e}
    /\ UNCHANGED <<slot, schedVars, queueVars, unitVars>>

(* on_pka_cleanup: the wipe is started under the clean-up FSM's tag *)
WipeBegin(e) ==
    /\ CleanupAlive
    /\ IF e \in pka_state
         THEN UNCHANGED <<pka_state, unit_tag>>
         ELSE /\ pka_state' = pka_state \cup {e}
              /\ unit_tag' = [unit_tag EXCEPT ![e] = CleanupTag]
    /\ UNCHANGED <<slot, schedVars, queueVars, free>>

(* begin_memory_wipe fails on an engine that is still busy: the error is *)
(* neither pending nor DrainReady, so the slot of the FSM is retired     *)
WipeFails(e) ==
    /\ WipeMayFail /\ CleanupAlive /\ e \notin pka_state /\ unit_tag[e] # NoTag
    /\ Retire(CleanupTag)
    /\ pka_state' = {}

(* The slot no longer holds the clean-up FSM *)
CleanupMisdelivered == ~CleanupAlive /\ Unexpected(CleanupTag) /\ UNCHANGED pka_state

-----------------------------------------------------------------------------
(* The passes of CmdScheduler::on_event over copies of the two queues *)

CleanupPass ==
    /\ pc = "post" /\ pc' = "cleanup"
    /\ work' = [work EXCEPT !.cleanup = cleanup_queue]
    /\ cleanup_queue' = {}
    /\ UNCHANGED <<slot, schedVars, access, ready_queue, waiters, unitVars,
                   unread, pka_state, arrivals>>

OnCleanup(e) ==
    /\ pc = "cleanup" /\ e \in work.cleanup
    /\ work' = [work EXCEPT !.cleanup = @ \ {e}]
    /\ Touch(CleanupTag)
    /\ WipeBegin(e) \/ WipeFails(e) \/ CleanupMisdelivered
    /\ UNCHANGED <<pc, unread, arrivals>>

ReadyPass ==
    /\ pc = "cleanup" /\ work.cleanup = {} /\ pc' = "ready"
    /\ work' = [work EXCEPT !.ready = ready_queue]
    /\ ready_queue' = <<>>
    /\ UNCHANGED <<slot, schedVars, access, cleanup_queue, waiters, unitVars,
                   unread, pka_state, arrivals>>

(* HsmFsm::acquire_resource has no command, or one that needs no resource *)
Unreachable(t) == slot[t].st \in {"In", "Out"} /\ slot[t].res = NoRes

(* The begin call of a woken command.  Some check the session before they    *)
(* ask for the resource: when it is gone they answer, the unit they were     *)
(* woken for stays free, and no other waiter is woken.                       *)
Resume(t, r) == Begin(t, r, {}) \/ (Fickle /\ ToOut(t))

(* CmdSchedulerImpl::on_ready *)
OnReady ==
    /\ pc = "ready" /\ work.ready # <<>>
    /\ LET t == Head(work.ready)[1]
           r == Head(work.ready)[2]
       IN  /\ Touch(t)
           /\ \/ /\ Unreachable(t) \/ (slot[t].st \in Live /\ slot[t].res # r)
                 /\ pc' = "panic"
                 /\ Stay
              \/ /\ ~Unreachable(t)
                 /\ UNCHANGED pc
                 /\ IF slot[t].st = "Wait" /\ slot[t].res = r
                      THEN Resume(t, r)
                      ELSE Unexpected(t)
    /\ work' = [work EXCEPT !.ready = Tail(@)]
    /\ UNCHANGED <<unread, pka_state, arrivals>>

Return ==
    /\ pc = "ready" /\ work.ready = <<>> /\ pc' = "idle"
    /\ UNCHANGED <<slot, schedVars, access, queueVars, unitVars, unread,
                   pka_state, work, arrivals>>

-----------------------------------------------------------------------------
(* CmdSchedulerImpl::on_tick.  The queues are not drained here. *)

Tick ==
    /\ TimeoutsEnabled /\ pc = "idle" /\ pc' = "tick"
    /\ work' = [work EXCEPT !.tick = (occupancy \ access) \cup (access \ occupancy)]
    /\ UNCHANGED <<slot, schedVars, access, queueVars, unitVars, unread,
                   pka_state, arrivals>>

(* The CheckAlive event.  A command waits on, or gives up with an error *)
CheckAlive(t) ==
    IF slot[t].st \in {"In", "Out", "Undo"} THEN Retire(t)
    ELSE IF slot[t].st \in {"Wait", "Run"} THEN Stay \/ ToOut(t)
    ELSE Stay

OnTick ==
    /\ pc = "tick"
    /\ \E t \in work.tick :
         /\ \A x \in work.tick : t <= x
         /\ CheckAlive(t)
         /\ Touch(t)
         /\ work' = [work EXCEPT !.tick = @ \ {t}]
    /\ UNCHANGED <<pc, unread, pka_state, arrivals>>

TickEnd ==
    /\ pc = "tick" /\ work.tick = {} /\ pc' = "idle"
    /\ access' = {}
    /\ UNCHANGED <<slot, schedVars, queueVars, unitVars, unread, pka_state,
                   work, arrivals>>

-----------------------------------------------------------------------------
Core == \/ CleanupPass \/ ReadyPass \/ OnReady \/ Return
        \/ \E e \in Engines : OnCleanup(e)
        \/ OnTick \/ TickEnd

(* Interrupts that answer what a command has started *)
Serve == \/ \E t \in Tags : StartCmd(t) \/ TxComplete(t)
         \/ \E e \in Engines : PkaDone(e) \/ WipeDone(e)
         \/ \E c \in IpcIds : IpcResponse(c) \/ \E t \in Tags : OutFails(t, c)

Next == \/ Core \/ Serve \/ RxReady \/ RxRefused \/ Drain \/ Tick
        \/ \E e \in Engines : WipeError(e) \/ WipeEndFails(e)

Spec == Init /\ [][Next]_vars

(* The loop never rests while an interrupt is pending, and the hardware and  *)
(* the peer cores answer in the end.  Nothing is assumed about which of the  *)
(* pending interrupts is served first.                                       *)
Fairness == WF_vars(Core \/ Serve)

LiveSpec == Spec /\ Fairness

-----------------------------------------------------------------------------
(* Properties *)

Work == [cleanup : SUBSET Engines, ready : Seq(Tags \X ResIds),
         tick : SUBSET Tags]

(* Every variable has the shape its Rust counterpart is declared with. *)
TypeOK ==
    /\ slot \in [Tags -> Slot]
    /\ free_tags \in Seq(Tags)
    /\ occupancy \in SUBSET Tags /\ access \in SUBSET Tags
    /\ fn_drain \in BOOLEAN
    /\ ready_queue \in Seq(Tags \X ResIds)
    /\ cleanup_queue \in SUBSET Engines
    /\ free \in SUBSET Units
    /\ waiters \in [ResIds -> Seq(Tags)]
    /\ unit_tag \in [Units -> Tags \cup {NoTag}]
    /\ unread \in SUBSET IpcIds
    /\ pka_state \in SUBSET Engines
    /\ pc \in {"idle", "post", "cleanup", "ready", "tick", "panic"}
    /\ work \in Work
    /\ arrivals \in 0 .. MaxArrivals

(* free_tags, the slots and occupancy_list tell the same story whatever FSM   *)
(* is created, finished or timed out: a tag is on the free stack exactly once *)
(* when its slot is empty and never otherwise, and the occupancy bits are     *)
(* those of the commands in flight (the static FSM has none).                 *)
TagAccounting ==
    /\ \A i, j \in 1 .. Len(free_tags) : free_tags[i] = free_tags[j] => i = j
    /\ \A t \in Tags : (\E i \in 1 .. Len(free_tags) : free_tags[i] = t)
                         <=> slot[t].st = "None"
    /\ occupancy = {t \in Tags : slot[t].st \in Live}

Pending == cleanup_queue \cup work.cleanup

(* A PKA engine or an IPC channel is in one place only: free, held by one     *)
(* command, queued for its wipe or being wiped; and while the clean-up FSM is *)
(* alive none is lost.  Two commands never hold the same unit.                *)
UnitAccounting ==
    /\ \A t, x \in Tags : t # x => slot[t].own \cap slot[x].own = {}
    /\ \A t \in Tags : slot[t].own \cap (free \cup Pending \cup pka_state) = {}
    /\ free \cap (Pending \cup pka_state) = {}
    /\ Pending \cap pka_state = {}
    /\ cleanup_queue \cap work.cleanup = {}
    /\ CleanupAlive => \A u \in Units : \/ u \in free \cup Pending \cup pka_state
                                        \/ \E t \in Tags : u \in slot[t].own

(* When the loop serves an interrupt, a PKA completion goes to the command    *)
(* that owns the engine, to the clean-up FSM that wipes it, or to an empty    *)
(* slot whose engine is about to be wiped: a command that reuses the tag of a *)
(* timed-out one never receives its predecessor's completion.                 *)
CompletionReachesOwner ==
    pc = "idle" /\ CleanupAlive =>
        \A e \in Engines : unit_tag[e] # NoTag =>
            \/ e \in slot[unit_tag[e]].own
            \/ e \in pka_state /\ unit_tag[e] = CleanupTag
            \/ e \in cleanup_queue /\ slot[unit_tag[e]].st = "None"

(* An engine becomes available again only out of a memory wipe: what one      *)
(* command left in it is never there for the next.                            *)
WipedBeforeReuse ==
    [][\A e \in Engines : e \in free' /\ e \notin free => e \in pka_state]_vars

(* The stored drain closure runs only when no command is left in any slot. *)
DrainWhenEmpty ==
    [][fn_drain /\ ~fn_drain' => \A t \in Tags : slot'[t].st \notin Live]_vars

Woken(r) == Cardinality({i \in DOMAIN ready_queue : ready_queue[i][2] = r})
              + Cardinality({i \in DOMAIN work.ready : work.ready[i][2] = r})

(* Without timeouts, when every woken command asks again: no unit lies idle   *)
(* while a command waits for it, unless a wake-up for it is under way.        *)
NoLostWakeup ==
    \A r \in ResIds :
        waiters[r] # <<>> => Cardinality(free \cap UnitsOf(r)) <= Woken(r)

(* Without timeouts: a woken command still waits for that resource and finds  *)
(* a unit of it, so neither InvalidState (a second Pending) nor unreachable!  *)
(* in HsmFsm::acquire_resource can happen.                                    *)
WokenFindsUnit ==
    pc = "ready" /\ work.ready # <<>> =>
        LET t == Head(work.ready)[1]
            r == Head(work.ready)[2]
        IN  slot[t].st = "Wait" /\ slot[t].res = r /\ CanAcquire(r)

(* Without timeouts: the answer on an IPC channel finds the command that asked *)
ResponseReachesOwner ==
    \A c \in IpcIds : unit_tag[c] # NoTag =>
        slot[unit_tag[c]].st \in {"Run", "Undo"} /\ c \in slot[unit_tag[c]].own

(* unreachable!() in HsmFsm::acquire_resource is unreachable. *)
NeverUnreachable == pc # "panic"

(* The clean-up FSM is an "always running FSM". *)
CleanupAlwaysRunning == CleanupAlive

(* Without timeouts, when every woken command asks again: a command that      *)
(* waits for a resource is woken in the end.                                  *)
WaiterServed ==
    \A t \in Tags : slot[t].st = "Wait" ~> slot[t].st # "Wait"

(* Without timeouts, when every woken command asks again: a stored drain      *)
(* closure runs once the host stops sending.                                  *)
DrainFires == fn_drain ~> ~fn_drain
=============================================================================
