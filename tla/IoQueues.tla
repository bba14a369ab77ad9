------------------------------ MODULE IoQueues ------------------------------
(***************************************************************************)
(* The I/O queues of the HSM core's partitions and the deferred completion *)
(* of administrative requests.  The admin core asks the HSM core to create *)
(* or delete a submission queue, to disable a function or to migrate it; a *)
(* queue that I/Os still use is unlinked at once, the request is answered  *)
(* Pending, and the I/O that retires last sends a notification through the *)
(* simplex pipe.  The requester on the admin core holds the HSM IPC channel*)
(* from its request to that notification; only the VFLR state machine lets *)
(* go of the channel on any answer, and its requests carry tag 0.          *)
(*                                                                         *)
(* The partition's credentials, sessions and keys are not part of this     *)
(* module: state.disable and state.migrate are their `enabled' effect.     *)
(***************************************************************************)
EXTENDS Integers, Sequences, FiniteSets

CONSTANTS
    Pfns,     \* PCIe functions, one partition each
    Sqs,      \* device submission queue ids of a partition
    Queues,   \* IoQueueImpl objects the heap can hold
    Ios,      \* scheduler slots an I/O can occupy
    Reqs,     \* bound: requests that carry an IoQueueDeleteContext
    PipeLen,  \* notifications the simplex pipe can hold
    Vflr      \* TRUE: function-level resets of VFs are among the behaviours

CONSTANTS NoQueue, NoReq, NoPfn, NoSq

ASSUME NamesAssumption == /\ NoQueue \notin Queues /\ NoReq \notin Reqs
                          /\ NoPfn \notin Pfns /\ NoSq \notin Sqs
ASSUME PipeAssumption == PipeLen \in Nat
ASSUME VflrAssumption == Vflr \in BOOLEAN

VARIABLES
    enabled,  \* PartStateImpl::enabled
    ioq,      \* IoQueueMgr::io_queues of every partition
    queue,    \* the IoQueueImpl objects
    io,       \* the queue each I/O in flight holds (HsmFsm::ioq)
    req,      \* the requests, with the context's data and the answer
    owed,     \* history: the I/Os in flight a request still waits for
    pipe,     \* the notifications under way to the admin core
    channel   \* the request whose requester holds the HSM IPC channel

vars == <<enabled, ioq, queue, io, req, owed, pipe, channel>>

(* An IoQueueImpl; ctx is its _delete_ctx *)
Queue == [pfn : Pfns \cup {NoPfn}, sq : Sqs \cup {NoSq}, valid : BOOLEAN,
          ctx : Reqs \cup {NoReq}]
Unused == [pfn |-> NoPfn, sq |-> NoSq, valid |-> FALSE, ctx |-> NoReq]

Kinds == {"none", "Delete", "Disable", "Migrate"}
Answers == {"new", "Success", "Pending", "Sent", "Lost", "Received"}
Request == [kind : Kinds, pfn : Pfns \cup {NoPfn}, sq : Sqs \cup {NoSq},
            waits : BOOLEAN, st : Answers]
NotIssued == [kind |-> "none", pfn |-> NoPfn, sq |-> NoSq, waits |-> FALSE,
              st |-> "new"]

Init ==
    /\ enabled = [p \in Pfns |-> FALSE]
    /\ ioq = [p \in Pfns |-> [s \in Sqs |-> NoQueue]]
    /\ queue = [q \in Queues |-> Unused]
    /\ io = [i \in Ios |-> NoQueue]
    /\ req = [r \in Reqs |-> NotIssued]
    /\ owed = [r \in Reqs |-> {}]
    /\ pipe = <<>> /\ channel = NoReq

-----------------------------------------------------------------------------
(* IoQueue::ref_cnt: the table holds one reference, every I/O one more *)

Busy(q) == \E i \in Ios : io[i] = q
InTable(q) == \E p \in Pfns, s \in Sqs : ioq[p][s] = q

LastRef(q, i) == ~InTable(q) /\ \A j \in Ios \ {i} : io[j] # q

(* Mutant: the last I/O of one queue answers for all of them *)
LastContextIgnored(q) == TRUE

(* IoQueueDeleteContext::ref_cnt is 1 once q's reference is taken *)
LastContext(q) == \A x \in Queues \ {q} : queue[x].ctx # queue[q].ctx

-----------------------------------------------------------------------------
(* IoQueueMgr: disable_io_queue and disable_all_io_queues *)

(* q after set_delete_context(c) and invalidate *)
Orphan(q, c) == [pfn |-> queue[q].pfn, sq |-> queue[q].sq, valid |-> FALSE, ctx |-> c]

(* Mutant: the queue is dropped before the context is stored in it *)
UnlinkForgetting(qs, c) ==
    queue' = [q \in Queues |->
                IF q \notin qs THEN queue[q]
                ELSE IF Busy(q) THEN Orphan(q, queue[q].ctx) ELSE Unused]

(* The queues leave the table; those in use keep the context and live on *)
Unlink(qs, c) ==
    queue' = [q \in Queues |->
                IF q \notin qs THEN queue[q]
                ELSE IF Busy(q) THEN Orphan(q, c) ELSE Unused]

(* Mutant: a deferred request lets go of the channel *)
AnswerReleasing(r, kind, p, s, waits, qs) ==
    LET busy == \E q \in qs \cap Queues : Busy(q) IN
    /\ channel = NoReq /\ req[r].st = "new"
    /\ Unlink(qs, r)
    /\ req' = [req EXCEPT ![r] = [kind |-> kind, pfn |-> p, sq |-> s,
                 waits |-> waits, st |-> IF busy THEN "Pending" ELSE "Success"]]
    /\ owed' = [owed EXCEPT ![r] = {i \in Ios : io[i] \in qs \cap Queues}]
    /\ UNCHANGED <<io, pipe, channel>>

(* A request over the queues qs: Pending if one of them is in use *)
Answer(r, kind, p, s, waits, qs) ==
    LET busy == \E q \in qs \cap Queues : Busy(q) IN
    /\ channel = NoReq /\ req[r].st = "new"
    /\ Unlink(qs, r)
    /\ req' = [req EXCEPT ![r] = [kind |-> kind, pfn |-> p, sq |-> s,
                 waits |-> waits, st |-> IF busy THEN "Pending" ELSE "Success"]]
    /\ owed' = [owed EXCEPT ![r] = {i \in Ios : io[i] \in qs \cap Queues}]
    /\ channel' = IF busy /\ waits THEN r ELSE NoReq
    /\ UNCHANGED <<io, pipe>>

Tabled(p) == {ioq[p][s] : s \in Sqs}
NoTable == [s \in Sqs |-> NoQueue]

-----------------------------------------------------------------------------
(* Administrative requests, one at a time over the HSM IPC channel *)

Enable(p) ==
    /\ channel = NoReq
    /\ enabled' = [enabled EXCEPT ![p] = TRUE]
    /\ UNCHANGED <<ioq, queue, io, req, owed, pipe, channel>>

(* Mutant: a queue can be created in a function that is not enabled *)
CreateSqUnchecked(p, s) ==
    /\ channel = NoReq /\ ioq[p][s] = NoQueue
    /\ \E q \in Queues :
         /\ queue[q] = Unused
         /\ queue' = [queue EXCEPT ![q] = [pfn |-> p, sq |-> s, valid |-> TRUE,
                                           ctx |-> NoReq]]
         /\ ioq' = [ioq EXCEPT ![p][s] = q]
    /\ UNCHANGED <<enabled, io, req, owed, pipe, channel>>

CreateSq(p, s) ==
    /\ channel = NoReq /\ enabled[p] /\ ioq[p][s] = NoQueue
    /\ \E q \in Queues :
         /\ queue[q] = Unused
         /\ queue' = [queue EXCEPT ![q] = [pfn |-> p, sq |-> s, valid |-> TRUE,
                                           ctx |-> NoReq]]
         /\ ioq' = [ioq EXCEPT ![p][s] = q]
    /\ UNCHANGED <<enabled, io, req, owed, pipe, channel>>

DeleteSq(r, p, s) ==
    /\ enabled[p]
    /\ Answer(r, "Delete", p, s, TRUE, {ioq[p][s]})
    /\ ioq' = [ioq EXCEPT ![p][s] = NoQueue]
    /\ UNCHANGED enabled

(* Partition::disable for the controller or the stop-interface state *)
(* machine, which wait for the notification, or for VFLR             *)
Disable(r, p) ==
    /\ \E waits \in (IF Vflr THEN BOOLEAN ELSE {TRUE}) :
         Answer(r, "Disable", p, NoSq, waits, Tabled(p))
    /\ ioq' = [ioq EXCEPT ![p] = NoTable]
    /\ enabled' = [enabled EXCEPT ![p] = FALSE]

(* begin_migrate; the partition stays enabled *)
Migrate(r, p) ==
    /\ Answer(r, "Migrate", p, NoSq, TRUE, Tabled(p))
    /\ ioq' = [ioq EXCEPT ![p] = NoTable]
    /\ UNCHANGED enabled

(* Partition::reset of the partitions ps: no context, nobody is told *)
Reset(ps) ==
    /\ Unlink(UNION {Tabled(p) : p \in ps}, NoReq)
    /\ ioq' = [p \in Pfns |-> IF p \in ps THEN NoTable ELSE ioq[p]]
    /\ enabled' = [p \in Pfns |-> enabled[p] /\ p \notin ps]
    /\ UNCHANGED <<io, req, owed, pipe, channel>>

(* A set-resource request that takes the last resource of the function *)
ClearResources(p) == channel = NoReq /\ Reset({p})

(* on_flr is an event of its own and needs no channel *)
Flr == Reset(Pfns)

-----------------------------------------------------------------------------
(* I/Os *)

(* HsmFsm::on_rx_ready with a function and a queue that are enabled *)
RxReady(i, p, s) ==
    /\ io[i] = NoQueue /\ enabled[p] /\ ioq[p][s] # NoQueue
    /\ io' = [io EXCEPT ![i] = ioq[p][s]]
    /\ UNCHANGED <<enabled, ioq, queue, req, owed, pipe, channel>>

(* The notification; an error of send is dropped with the I/O *)
Notify(r) ==
    IF Len(pipe) < PipeLen
      THEN /\ req' = [req EXCEPT ![r].st = "Sent"]
           /\ pipe' = Append(pipe, r)
      ELSE /\ req' = [req EXCEPT ![r].st = "Lost"]
           /\ UNCHANGED pipe

(* retire_io, when the scheduler drops the HsmFsm of a finished, failed or *)
(* timed-out I/O: the reference to the queue goes with it                  *)
Retire(i) ==
    LET q == io[i] IN
    /\ q # NoQueue
    /\ io' = [io EXCEPT ![i] = NoQueue]
    /\ owed' = [r \in Reqs |-> owed[r] \ {i}]
    /\ queue' = IF LastRef(q, i) THEN [queue EXCEPT ![q] = Unused] ELSE queue
    /\ IF LastRef(q, i) /\ queue[q].ctx # NoReq /\ LastContext(q)
         THEN Notify(queue[q].ctx)
         ELSE UNCHANGED <<req, pipe>>
    /\ UNCHANGED <<enabled, ioq, channel>>

(* The admin core: the message at the head goes to the slot of its tag and   *)
(* is taken out by the requester that waits there.  VFLR's requests name tag *)
(* 0, the slot that is handed out last, and VFLR itself waits for nothing.   *)
Receive ==
    /\ pipe # <<>> /\ req[Head(pipe)].waits
    /\ pipe' = Tail(pipe)
    /\ req' = [req EXCEPT ![Head(pipe)].st = "Received"]
    /\ channel' = NoReq
    /\ UNCHANGED <<enabled, ioq, queue, io, owed>>

-----------------------------------------------------------------------------
Next ==
    \/ \E p \in Pfns :
         \/ Enable(p) \/ ClearResources(p)
         \/ \E s \in Sqs : CreateSq(p, s) \/ \E i \in Ios : RxReady(i, p, s)
         \/ \E r \in Reqs : \/ Disable(r, p) \/ Migrate(r, p)
                            \/ \E s \in Sqs : DeleteSq(r, p, s)
    \/ Flr \/ Receive
    \/ \E i \in Ios : Retire(i)

Spec == Init /\ [][Next]_vars

(* Every I/O in flight ends: its hardware answers or the tick times it out, *)
(* and the admin loop polls the pipe in every round                         *)
LiveSpec == Spec /\ (\A i \in Ios : WF_vars(Retire(i))) /\ WF_vars(Receive)

-----------------------------------------------------------------------------
(* Properties *)

(* Every variable has the shape its Rust counterpart is declared with, and  *)
(* the pipe never holds more than it has room for.                          *)
TypeOK ==
    /\ enabled \in [Pfns -> BOOLEAN]
    /\ ioq \in [Pfns -> [Sqs -> Queues \cup {NoQueue}]]
    /\ queue \in [Queues -> Queue]
    /\ io \in [Ios -> Queues \cup {NoQueue}]
    /\ req \in [Reqs -> Request]
    /\ owed \in [Reqs -> SUBSET Ios]
    /\ pipe \in Seq(Reqs) /\ Len(pipe) <= PipeLen
    /\ channel \in Reqs \cup {NoReq}

(* A queue the table has is that function's, valid and without a context *)
Listed ==
    \A p \in Pfns, s \in Sqs : ioq[p][s] # NoQueue =>
        queue[ioq[p][s]] = [pfn |-> p, sq |-> s, valid |-> TRUE, ctx |-> NoReq]

(* A valid queue is in the table, an invalid one lives while I/Os hold it *)
Alive ==
    \A q \in Queues :
        /\ queue[q].valid => InTable(q)
        /\ ~queue[q].valid => (queue[q] # Unused <=> Busy(q))

Held == \A i \in Ios : io[i] # NoQueue => queue[io[i]] # Unused
Closed == \A p \in Pfns : ~enabled[p] => ioq[p] = NoTable

(* The table and the objects agree through every create, delete, disable,   *)
(* reset and retirement: a queue is valid exactly while the table of its    *)
(* function has it, only a queue outside the table carries a context, no    *)
(* I/O holds a freed object, and a disabled function has no queue.          *)
TableExact == Listed /\ Alive /\ Held /\ Closed

(* A request answered Pending is completed by the retirement of the last I/O *)
(* it waits for, in that very step and never before or after it, whichever   *)
(* queues the I/Os hold and in whichever order they end.                     *)
NotifiedAtLast ==
    [][\A r \in Reqs : (req[r].st = "Pending" /\ req'[r].st # "Pending")
                          <=> (owed[r] # {} /\ owed'[r] = {})]_vars

(* The I/Os a request can know of: those a reset has cut off are not tracked *)
Tracked(r) ==
    {i \in Ios : /\ io[i] # NoQueue
                 /\ queue[io[i]].valid \/ queue[io[i]].ctx # NoReq
                 /\ queue[io[i]].pfn = req[r].pfn
                 /\ req[r].kind = "Delete" => queue[io[i]].sq = req[r].sq}

Complete(r) == req[r].st \in {"Success", "Sent", "Lost", "Received"}

(* When a delete, disable or migrate is complete, no I/O tracked for that    *)
(* queue or function is in flight: the admin core frees the device queue,    *)
(* and end_migrate clears the partition, behind the last I/O.                *)
QuietWhenComplete ==
    [][\A r \in Reqs : ~Complete(r) /\ Complete(r)' => Tracked(r)' = {}]_vars

(* No notification is lost: although send fails on a full pipe and the error *)
(* is dropped with the I/O, requesters that keep the channel until they are  *)
(* told never have two notifications under way.                              *)
NothingLost == \A r \in Reqs : req[r].st # "Lost"

(* The deferred notification completes the requester's command on the admin  *)
(* core.                                                                     *)
NotificationArrives ==
    \A r \in Reqs : req[r].st = "Pending" /\ req[r].waits ~> req[r].st = "Received"
=============================================================================
