--------------------------- MODULE IoQueuesProofs ---------------------------
(***************************************************************************)
(* Proofs about IoQueues, for every number of functions, queues, I/Os and  *)
(* requests and every length of the pipe.                                  *)
(***************************************************************************)
EXTENDS IoQueues, TLAPS

(* What a request is owed is what holds a queue with its context *)
OwedExact ==
    \A r \in Reqs : owed[r] = {i \in Ios : io[i] # NoQueue /\ queue[io[i]].ctx = r}

PendingOwed == \A r \in Reqs : req[r].st = "Pending" <=> owed[r] # {}

(* A notification under way is that of a request that waits no more *)
PipeAnswered == \A n \in 1..Len(pipe) : req[pipe[n]].st \notin {"new", "Pending"}

IInv == TypeOK /\ TableExact /\ OwedExact /\ PendingOwed /\ PipeAnswered

USE NamesAssumption, PipeAssumption, VflrAssumption

(* A request stays a request when its answer changes *)
LEMMA Answered ==
    ASSUME NEW x \in Request, NEW a \in Answers
    PROVE  [x EXCEPT !.st = a] \in Request
  BY DEF Request

(* What Listed says of one entry of the table *)
LEMMA ListedEntry ==
    ASSUME Listed, NEW p \in Pfns, NEW s \in Sqs, ioq[p][s] # NoQueue
    PROVE  LET q == queue[ioq[p][s]] IN
           q.pfn = p /\ q.sq = s /\ q.valid /\ q.ctx = NoReq
  <1>1. queue[ioq[p][s]] = [pfn |-> p, sq |-> s, valid |-> TRUE, ctx |-> NoReq]
    BY DEF Listed
  <1> QED BY <1>1

LEMMA InTableEntry ==
    ASSUME Listed, NEW q \in Queues, InTable(q)
    PROVE  queue[q].pfn \in Pfns /\ queue[q].sq \in Sqs /\ queue[q].valid /\ queue[q].ctx = NoReq
  <1>1. PICK p \in Pfns, s \in Sqs : ioq[p][s] = q
    BY DEF InTable
  <1> QED BY <1>1, ListedEntry

(* The sets unlinked are sets of queues the table has *)
LEMMA TabledListed ==
    ASSUME TypeOK, Listed, NEW p \in Pfns, NEW q \in Tabled(p), q # NoQueue
    PROVE  /\ q \in Queues /\ InTable(q)
           /\ queue[q].pfn = p /\ queue[q].valid /\ queue[q].ctx = NoReq
  <1>1. PICK s \in Sqs : q = ioq[p][s]
    BY DEF Tabled
  <1>2. q \in Queues /\ InTable(q)
    BY <1>1 DEF TypeOK, InTable
  <1> QED BY <1>1, <1>2, ListedEntry

(* Unlinking well-typed queues for a well-typed context keeps the type *)
LEMMA UnlinkType ==
    ASSUME TypeOK, NEW qs, NEW c \in Reqs \cup {NoReq}, Unlink(qs, c)
    PROVE  queue' \in [Queues -> Queue]
  <1>1. Unused \in Queue
    BY DEF Unused, Queue
  <1>2. \A q \in Queues : Orphan(q, c) \in Queue
    BY DEF Orphan, TypeOK, Queue
  <1> QED BY <1>1, <1>2 DEF Unlink, TypeOK

(* An answered request is well-typed *)
LEMMA AnswerType ==
    ASSUME TypeOK, NEW r \in Reqs, NEW kind \in Kinds, NEW p \in Pfns,
           NEW s \in Sqs \cup {NoSq}, NEW waits \in BOOLEAN, NEW qs,
           Answer(r, kind, p, s, waits, qs)
    PROVE  /\ queue' \in [Queues -> Queue] /\ io' \in [Ios -> Queues \cup {NoQueue}]
           /\ req' \in [Reqs -> Request] /\ owed' \in [Reqs -> SUBSET Ios]
           /\ pipe' \in Seq(Reqs) /\ Len(pipe') <= PipeLen
           /\ channel' \in Reqs \cup {NoReq}
  <1>1. queue' \in [Queues -> Queue]
    BY UnlinkType DEF Answer
  <1> DEFINE busy == \E q \in qs \cap Queues : Busy(q)
             new == [kind |-> kind, pfn |-> p, sq |-> s, waits |-> waits,
                     st |-> IF busy THEN "Pending" ELSE "Success"]
  <1>2. new \in Request
    BY DEF Request, Answers
  <1>3. req' \in [Reqs -> Request]
    BY <1>2 DEF Answer, TypeOK
  <1> QED BY <1>1, <1>3 DEF Answer, TypeOK

LEMMA NotifyType ==
    ASSUME TypeOK, NEW r \in Reqs, Notify(r)
    PROVE  /\ req' \in [Reqs -> Request]
           /\ pipe' \in Seq(Reqs) /\ Len(pipe') <= PipeLen
  <1>0. req[r] \in Request
    BY DEF TypeOK
  <1>1. \A st \in Answers : [req[r] EXCEPT !.st = st] \in Request
    BY <1>0, Answered
  <1>2. "Sent" \in Answers /\ "Lost" \in Answers
    BY DEF Answers
  <1>3. req' \in [Reqs -> Request]
    BY <1>1, <1>2 DEF Notify, TypeOK
  <1>4. CASE Len(pipe) < PipeLen
    BY SMTT(30), <1>3, <1>4 DEF Notify, TypeOK
  <1>5. CASE ~(Len(pipe) < PipeLen)
    BY <1>3, <1>5 DEF Notify, TypeOK
  <1> QED BY <1>4, <1>5

(* Every step keeps the variables' types *)
LEMMA TypeStep ==
    ASSUME TypeOK, [Next]_vars
    PROVE  TypeOK'
  <1>1. CASE UNCHANGED vars
    BY <1>1 DEF TypeOK, vars
  <1>2. ASSUME NEW p \in Pfns, Enable(p) PROVE TypeOK'
    BY <1>2 DEF Enable, TypeOK
  <1>3. ASSUME NEW ps \in SUBSET Pfns, Reset(ps) PROVE TypeOK'
    <2>1. queue' \in [Queues -> Queue]
      BY <1>3, UnlinkType DEF Reset
    <2>2. NoTable \in [Sqs -> Queues \cup {NoQueue}]
      BY DEF NoTable
    <2> QED BY <1>3, <2>1, <2>2 DEF Reset, TypeOK
  <1>4. ASSUME NEW p \in Pfns, ClearResources(p) PROVE TypeOK'
    BY <1>4, <1>3 DEF ClearResources
  <1>5. ASSUME NEW p \in Pfns, NEW s \in Sqs, CreateSq(p, s) PROVE TypeOK'
    <2>1. PICK q \in Queues :
            /\ queue' = [queue EXCEPT ![q] = [pfn |-> p, sq |-> s, valid |-> TRUE,
                                              ctx |-> NoReq]]
            /\ ioq' = [ioq EXCEPT ![p][s] = q]
      BY <1>5 DEF CreateSq
    <2>2. [pfn |-> p, sq |-> s, valid |-> TRUE, ctx |-> NoReq] \in Queue
      BY DEF Queue
    <2>3. queue' \in [Queues -> Queue]
      BY <2>1, <2>2 DEF TypeOK
    <2>4. ioq' \in [Pfns -> [Sqs -> Queues \cup {NoQueue}]]
      BY <2>1 DEF TypeOK
    <2> QED BY <1>5, <2>3, <2>4 DEF CreateSq, TypeOK
  <1>6. ASSUME NEW p \in Pfns, NEW s \in Sqs, NEW i \in Ios, RxReady(i, p, s) PROVE TypeOK'
    BY <1>6 DEF RxReady, TypeOK
  <1>7. ASSUME NEW r \in Reqs, NEW p \in Pfns, Disable(r, p) PROVE TypeOK'
    <2>1. PICK waits \in BOOLEAN : Answer(r, "Disable", p, NoSq, waits, Tabled(p))
      BY <1>7 DEF Disable
    <2>2. NoTable \in [Sqs -> Queues \cup {NoQueue}]
      BY DEF NoTable
    <2>3. "Disable" \in Kinds
      BY DEF Kinds
    <2> QED BY <1>7, <2>1, <2>2, <2>3, AnswerType DEF Disable, TypeOK
  <1>8. ASSUME NEW r \in Reqs, NEW p \in Pfns, Migrate(r, p) PROVE TypeOK'
    <2>1. NoTable \in [Sqs -> Queues \cup {NoQueue}]
      BY DEF NoTable
    <2>2. "Migrate" \in Kinds
      BY DEF Kinds
    <2> QED BY <1>8, <2>1, <2>2, AnswerType DEF Migrate, TypeOK
  <1>9. ASSUME NEW r \in Reqs, NEW p \in Pfns, NEW s \in Sqs, DeleteSq(r, p, s) PROVE TypeOK'
    <2>1. "Delete" \in Kinds
      BY DEF Kinds
    <2>2. ioq' \in [Pfns -> [Sqs -> Queues \cup {NoQueue}]]
      BY <1>9 DEF DeleteSq, TypeOK
    <2> QED BY <1>9, <2>1, <2>2, AnswerType DEF DeleteSq, TypeOK
  <1>10. CASE Flr
    BY <1>10, <1>3 DEF Flr
  <1>11. CASE Receive
    <2>1. Head(pipe) \in Reqs /\ Tail(pipe) \in Seq(Reqs) /\ Len(Tail(pipe)) <= PipeLen
      BY <1>11 DEF Receive, TypeOK
    <2>2. [req[Head(pipe)] EXCEPT !.st = "Received"] \in Request
      <3>1. req[Head(pipe)] \in Request
        BY <2>1 DEF TypeOK
      <3>2. "Received" \in Answers
        BY DEF Answers
      <3> QED BY <3>1, <3>2, Answered
    <2>3. req' \in [Reqs -> Request]
      BY <1>11, <2>1, <2>2 DEF Receive, TypeOK
    <2> QED BY <1>11, <2>1, <2>3 DEF Receive, TypeOK
  <1>12. ASSUME NEW i \in Ios, Retire(i) PROVE TypeOK'
    <2> DEFINE q == io[i]
    <2>1. q \in Queues
      BY <1>12 DEF Retire, TypeOK
    <2>2. Unused \in Queue
      BY DEF Unused, Queue
    <2>3. queue' \in [Queues -> Queue]
      BY <1>12, <2>1, <2>2 DEF Retire, TypeOK
    <2>4. /\ req' \in [Reqs -> Request]
          /\ pipe' \in Seq(Reqs) /\ Len(pipe') <= PipeLen
      <3>1. CASE LastRef(q, i) /\ queue[q].ctx # NoReq /\ LastContext(q)
        <4>1. queue[q].ctx \in Reqs
          BY <2>1, <3>1 DEF TypeOK, Queue
        <4> QED BY <1>12, <3>1, <4>1, NotifyType DEF Retire
      <3>2. CASE ~(LastRef(q, i) /\ queue[q].ctx # NoReq /\ LastContext(q))
        BY <1>12, <3>2 DEF Retire, TypeOK
      <3> QED BY <3>1, <3>2
    <2> QED BY <1>12, <2>3, <2>4 DEF Retire, TypeOK
  <1> QED BY <1>1, <1>2, <1>4, <1>5, <1>6, <1>7, <1>8, <1>9, <1>10, <1>11, <1>12 DEF Next

-----------------------------------------------------------------------------
(* The queues qs, exactly, leave the table *)
Leaves(qs) ==
    /\ \A q \in qs : q = NoQueue \/ (q \in Queues /\ InTable(q))
    /\ \A p \in Pfns, s \in Sqs :
         ioq'[p][s] = IF ioq[p][s] \in qs THEN NoQueue ELSE ioq[p][s]

(* disable_io_queue and disable_all_io_queues keep table and objects in *)
(* step, and put the context where I/Os are left                        *)
LEMMA UnlinkTable ==
    ASSUME TypeOK, TypeOK', Listed, Alive, Held,
           NEW qs, NEW c \in Reqs \cup {NoReq}, Unlink(qs, c), Leaves(qs), io' = io
    PROVE  /\ Listed' /\ Alive' /\ Held'
           /\ \A i \in Ios : io[i] # NoQueue =>
                queue'[io[i]].ctx = IF io[i] \in qs THEN c ELSE queue[io[i]].ctx
  <1>1. \A q \in Queues :
          queue'[q] = IF q \notin qs THEN queue[q]
                      ELSE IF Busy(q) THEN Orphan(q, c) ELSE Unused
    BY DEF Unlink
  <1>2. \A q \in Queues : Busy(q)' <=> Busy(q)
    BY DEF Busy
  <1>3. \A q \in Queues : InTable(q)' <=> InTable(q) /\ q \notin qs
    BY DEF InTable, Leaves
  <1>4. Listed'
    BY <1>1 DEF Listed, Leaves, TypeOK
  <1>5. \A q \in Queues, x \in Reqs \cup {NoReq} : ~Orphan(q, x).valid /\ Orphan(q, x).ctx = x
    BY DEF Orphan
  <1>6. \A q \in qs \cap Queues : queue[q].pfn \in Pfns
    BY InTableEntry DEF Leaves
  <1>7. \A q \in qs \cap Queues : Orphan(q, c) # Unused
    BY <1>6 DEF Orphan, Unused
  <1>8. ~Unused.valid
    BY DEF Unused
  <1>9. Alive'
    <2> SUFFICES ASSUME NEW q \in Queues
                 PROVE  /\ queue'[q].valid => InTable(q)'
                        /\ ~queue'[q].valid => (queue'[q] # Unused <=> Busy(q)')
      BY DEF Alive
    <2>1. CASE q \notin qs
      BY <2>1, <1>1, <1>2, <1>3 DEF Alive
    <2>2. CASE q \in qs /\ Busy(q)
      BY <2>2, <1>1, <1>2, <1>5, <1>7
    <2>3. CASE q \in qs /\ ~Busy(q)
      BY <2>3, <1>1, <1>2, <1>8
    <2> QED BY <2>1, <2>2, <2>3
  <1>10. \A i \in Ios : io[i] # NoQueue => io[i] \in Queues /\ Busy(io[i])
    BY DEF TypeOK, Busy
  <1>11. Held'
    BY <1>1, <1>7, <1>10 DEF Held
  <1>12. \A i \in Ios : io[i] # NoQueue =>
           queue'[io[i]].ctx = IF io[i] \in qs THEN c ELSE queue[io[i]].ctx
    BY <1>1, <1>5, <1>10
  <1> QED BY <1>4, <1>9, <1>11, <1>12

(* All the queues of a set of functions leave the table *)
LEMMA LeavesAll ==
    ASSUME TypeOK, Listed, NEW ps \in SUBSET Pfns,
           \A p \in Pfns : ioq'[p] = IF p \in ps THEN NoTable ELSE ioq[p]
    PROVE  Leaves(UNION {Tabled(p) : p \in ps})
  <1> DEFINE qs == UNION {Tabled(p) : p \in ps}
  <1>1. \A q \in qs : q = NoQueue \/ (q \in Queues /\ InTable(q))
    BY TabledListed
  <1>2. ASSUME NEW p \in Pfns, NEW s \in Sqs
        PROVE  ioq'[p][s] = IF ioq[p][s] \in qs THEN NoQueue ELSE ioq[p][s]
    <2>1. CASE p \in ps
      BY <2>1 DEF NoTable, Tabled
    <2>2. CASE p \notin ps
      <3>1. ASSUME ioq[p][s] # NoQueue, ioq[p][s] \in qs PROVE FALSE
        <4>1. PICK x \in ps : ioq[p][s] \in Tabled(x)
          BY <3>1
        <4>2. queue[ioq[p][s]].pfn = x
          BY <3>1, <4>1, TabledListed
        <4>3. ioq[p][s] \in Tabled(p)
          BY DEF Tabled
        <4>4. queue[ioq[p][s]].pfn = p
          BY <3>1, <4>3, TabledListed
        <4> QED BY <4>2, <4>4, <2>2
      <3> QED BY <2>2, <3>1
    <2> QED BY <2>1, <2>2
  <1> QED BY <1>1, <1>2 DEF Leaves

LEMMA LeavesOne ==
    ASSUME TypeOK, Listed, NEW p \in Pfns, NEW s \in Sqs,
           ioq' = [ioq EXCEPT ![p][s] = NoQueue]
    PROVE  Leaves({ioq[p][s]})
  <1>1. ioq[p][s] = NoQueue \/ (ioq[p][s] \in Queues /\ InTable(ioq[p][s]))
    BY DEF TypeOK, InTable
  <1>2. ASSUME NEW x \in Pfns, NEW y \in Sqs
        PROVE  ioq'[x][y] = IF ioq[x][y] = ioq[p][s] THEN NoQueue ELSE ioq[x][y]
    <2>1. ioq'[x][y] = IF x = p /\ y = s THEN NoQueue ELSE ioq[x][y]
      BY DEF TypeOK
    <2>2. ASSUME ioq[x][y] = ioq[p][s], ioq[x][y] # NoQueue PROVE x = p /\ y = s
      BY <2>2, ListedEntry
    <2> QED BY <2>1, <2>2
  <1> QED BY <1>1, <1>2 DEF Leaves

(* A deferred request is owed exactly the I/Os its context was left with *)
LEMMA AnswerOwed ==
    ASSUME IInv, NEW r \in Reqs, NEW kind, NEW p, NEW s, NEW waits, NEW qs,
           Answer(r, kind, p, s, waits, qs), Leaves(qs),
           \A i \in Ios : io[i] # NoQueue =>
             queue'[io[i]].ctx = IF io[i] \in qs THEN r ELSE queue[io[i]].ctx
    PROVE  OwedExact' /\ PendingOwed'
  <1> USE DEF IInv, TableExact
  <1>1. owed[r] = {}
    BY DEF Answer, PendingOwed
  <1>2. io' = io
    BY DEF Answer
  <1>3. \A i \in Ios : io[i] # NoQueue => io[i] \in Queues
    BY DEF TypeOK
  <1>4. \A q \in qs \cap Queues : queue[q].ctx = NoReq
    BY InTableEntry DEF Leaves
  <1>5. owed'[r] = {i \in Ios : io[i] # NoQueue /\ io[i] \in qs}
    BY <1>3 DEF Answer, TypeOK
  <1>6. \A x \in Reqs \ {r} : owed'[x] = owed[x]
    BY DEF Answer, TypeOK
  <1>7. OwedExact'
    <2>1. ASSUME NEW i \in Ios, io[i] # NoQueue PROVE queue'[io[i]].ctx = r <=> io[i] \in qs
      BY <2>1, <1>1, <1>3 DEF OwedExact
    <2>2. ASSUME NEW x \in Reqs \ {r}, NEW i \in Ios, io[i] # NoQueue
          PROVE  queue'[io[i]].ctx = x <=> queue[io[i]].ctx = x
      BY <2>2, <1>3, <1>4
    <2> QED BY <2>1, <2>2, <1>2, <1>5, <1>6 DEF OwedExact
  <1>8. req'[r].st = "Pending" <=> \E q \in qs \cap Queues : Busy(q)
    BY DEF Answer, TypeOK
  <1>9. owed'[r] # {} <=> \E q \in qs \cap Queues : Busy(q)
    BY <1>3, <1>5 DEF Busy
  <1>10. \A x \in Reqs \ {r} : req'[x] = req[x]
    BY DEF Answer, TypeOK
  <1>11. PendingOwed'
    BY <1>6, <1>8, <1>9, <1>10 DEF PendingOwed
  <1> QED BY <1>7, <1>11

(* The retirement of i empties what r is owed exactly when both counts are 1 *)
LEMMA LastIo ==
    ASSUME IInv, NEW i \in Ios, io[i] # NoQueue, NEW r \in Reqs
    PROVE  /\ owed[r] = {i} <=> /\ LastRef(io[i], i) /\ LastContext(io[i])
                                /\ queue[io[i]].ctx = r
           /\ i \in owed[r] <=> queue[io[i]].ctx = r
  <1> USE DEF IInv, TableExact
  <1> DEFINE q == io[i]
  <1>1. q \in Queues
    BY DEF TypeOK
  <1>2. i \in owed[r] <=> queue[q].ctx = r
    BY DEF OwedExact
  <1>3. ASSUME owed[r] = {i} PROVE LastRef(q, i) /\ LastContext(q)
    <2>1. ~InTable(q)
      BY <1>1, <1>2, <1>3, InTableEntry
    <2>2. \A j \in Ios \ {i} : io[j] # q
      BY <1>1, <1>2, <1>3 DEF OwedExact
    <2>3. ASSUME NEW x \in Queues \ {q}, queue[x].ctx = r PROVE FALSE
      <3>1. ~InTable(x)
        BY <2>3, InTableEntry
      <3>2. ~queue[x].valid /\ queue[x] # Unused
        BY <3>1, <2>3 DEF Alive, Unused
      <3>3. PICK j \in Ios : io[j] = x
        BY <3>2 DEF Alive, Busy
      <3> QED BY <3>3, <2>3, <1>3 DEF OwedExact
    <2> QED BY <2>1, <2>2, <2>3, <1>2, <1>3 DEF LastRef, LastContext
  <1>4. ASSUME LastRef(q, i), LastContext(q), queue[q].ctx = r PROVE owed[r] = {i}
    <2>1. ASSUME NEW j \in owed[r], j # i PROVE FALSE
      <3>1. j \in Ios /\ io[j] # NoQueue /\ queue[io[j]].ctx = r
        BY <2>1 DEF OwedExact
      <3>2. io[j] \in Queues \ {q}
        BY <3>1, <2>1, <1>4 DEF LastRef, TypeOK
      <3> QED BY <3>1, <3>2, <1>4 DEF LastContext
    <2> QED BY <2>1, <1>2, <1>4
  <1> QED BY <1>2, <1>3, <1>4

(* The invariant through a retirement *)
LEMMA RetireStep ==
    ASSUME IInv, TypeOK', NEW i \in Ios, Retire(i)
    PROVE  /\ IInv'
           /\ \A r \in Reqs : req[r].st = "Pending" /\ req'[r].st # "Pending" <=> owed[r] = {i}
  <1> USE DEF IInv, TableExact
  <1>1. PICK q \in Queues : q = io[i] /\ q # NoQueue
    BY DEF Retire, TypeOK
  <1>2. /\ ioq' = ioq /\ enabled' = enabled
        /\ io' = [io EXCEPT ![i] = NoQueue]
        /\ queue' = IF LastRef(q, i) THEN [queue EXCEPT ![q] = Unused] ELSE queue
        /\ owed' = [r \in Reqs |-> owed[r] \ {i}]
    BY <1>1 DEF Retire
  <1>3. \A x \in Queues : InTable(x)' <=> InTable(x)
    BY <1>2 DEF InTable
  <1>4. \A x \in Queues \ {q} : queue'[x] = queue[x] /\ (Busy(x)' <=> Busy(x))
    BY <1>1, <1>2 DEF Busy, TypeOK
  <1>5. \A j \in Ios \ {i} : io'[j] = io[j]
    BY <1>2 DEF TypeOK
  <1>6. io'[i] = NoQueue
    BY <1>2 DEF TypeOK
  <1>7. ASSUME LastRef(q, i) PROVE queue'[q] = Unused /\ ~Busy(q)' /\ ~InTable(q)
    BY <1>1, <1>2, <1>5, <1>6, <1>7 DEF LastRef, Busy, TypeOK
  <1>8. ASSUME ~LastRef(q, i) PROVE queue' = queue /\ (Busy(q)' \/ InTable(q))
    BY <1>1, <1>2, <1>5, <1>8 DEF LastRef, Busy
  <1>9. Listed'
    <2> SUFFICES ASSUME NEW p \in Pfns, NEW s \in Sqs, ioq[p][s] # NoQueue
                 PROVE  queue'[ioq[p][s]] = queue[ioq[p][s]]
      BY <1>2 DEF Listed
    <2>1. ioq[p][s] \in Queues /\ InTable(ioq[p][s])
      BY DEF TypeOK, InTable
    <2> QED BY <2>1, <1>4, <1>7, <1>8
  <1>10. Alive'
    <2> SUFFICES ASSUME NEW x \in Queues
                 PROVE  /\ queue'[x].valid => InTable(x)'
                        /\ ~queue'[x].valid => (queue'[x] # Unused <=> Busy(x)')
      BY DEF Alive
    <2>1. CASE x # q
      BY <2>1, <1>3, <1>4 DEF Alive
    <2>2. CASE x = q /\ LastRef(q, i)
      BY <2>2, <1>7 DEF Unused
    <2>3. CASE x = q /\ ~LastRef(q, i)
      <3>1. queue[q].valid => InTable(q)
        BY <1>1 DEF Alive
      <3>2. InTable(q) => queue[q].valid
        BY <1>1, InTableEntry
      <3>3. queue[q] # Unused
        BY <1>1 DEF Held
      <3> QED BY <2>3, <1>3, <1>8, <3>1, <3>2, <3>3
    <2> QED BY <2>1, <2>2, <2>3
  <1>11. Held'
    <2> SUFFICES ASSUME NEW j \in Ios, io'[j] # NoQueue PROVE queue'[io'[j]] # Unused
      BY DEF Held
    <2>1. j # i /\ io'[j] = io[j] /\ io[j] \in Queues
      BY <1>5, <1>6 DEF TypeOK
    <2>2. queue[io[j]] # Unused
      BY <2>1 DEF Held
    <2>3. LastRef(q, i) => io[j] # q
      BY <2>1 DEF LastRef
    <2> QED BY <2>1, <2>2, <2>3, <1>4, <1>8
  <1>12. Closed'
    BY <1>2 DEF Closed
  <1>13. OwedExact'
    <2> SUFFICES ASSUME NEW r \in Reqs
                 PROVE  owed'[r] = {j \in Ios : io'[j] # NoQueue /\ queue'[io'[j]].ctx = r}
      BY DEF OwedExact
    <2>1. owed'[r] = {j \in Ios \ {i} : io[j] # NoQueue /\ queue[io[j]].ctx = r}
      BY <1>2 DEF OwedExact
    <2>2. ASSUME NEW j \in Ios \ {i}, io[j] # NoQueue PROVE queue'[io[j]] = queue[io[j]]
      <3>1. io[j] \in Queues
        BY <2>2 DEF TypeOK
      <3>2. LastRef(q, i) => io[j] # q
        BY DEF LastRef
      <3> QED BY <3>1, <3>2, <1>4, <1>8
    <2> QED BY <2>1, <2>2, <1>5, <1>6
  <1>14. \A r \in Reqs : owed[r] = {i} => req'[r].st # "Pending"
    <2> SUFFICES ASSUME NEW r \in Reqs, owed[r] = {i} PROVE req'[r].st # "Pending"
      OBVIOUS
    <2>1. LastRef(q, i) /\ LastContext(q) /\ queue[q].ctx = r
      BY <1>1, LastIo
    <2>2. Notify(r)
      BY <1>1, <2>1 DEF Retire
    <2>3. CASE Len(pipe) < PipeLen
      BY <2>2, <2>3 DEF Notify, TypeOK, Request
    <2>4. CASE ~(Len(pipe) < PipeLen)
      BY <2>2, <2>4 DEF Notify, TypeOK, Request
    <2> QED BY <2>3, <2>4
  <1>15. \A r \in Reqs : owed[r] # {i} => req'[r].st = req[r].st
    <2> SUFFICES ASSUME NEW r \in Reqs, owed[r] # {i} PROVE req'[r].st = req[r].st
      OBVIOUS
    <2>1. CASE LastRef(q, i) /\ queue[q].ctx # NoReq /\ LastContext(q)
      <3>1. queue[q].ctx \in Reqs
        BY <2>1, <1>1 DEF TypeOK, Queue
      <3>2. queue[q].ctx # r
        BY <2>1, <3>1, <1>1, LastIo
      <3>3. Notify(queue[q].ctx)
        BY <1>1, <2>1 DEF Retire
      <3> QED BY <3>1, <3>2, <3>3 DEF Notify, TypeOK
    <2>2. CASE ~(LastRef(q, i) /\ queue[q].ctx # NoReq /\ LastContext(q))
      BY <1>1, <2>2 DEF Retire
    <2> QED BY <2>1, <2>2
  <1>16. \A r \in Reqs : owed'[r] # {} <=> owed[r] # {} /\ owed[r] # {i}
    BY <1>2 DEF TypeOK
  <1>17. PendingOwed'
    BY <1>14, <1>15, <1>16 DEF PendingOwed
  <1>18. \A r \in Reqs : req[r].st = "Pending" /\ req'[r].st # "Pending" <=> owed[r] = {i}
    BY <1>14, <1>15 DEF PendingOwed
  <1>19. PipeAnswered'
    <2>1. CASE LastRef(q, i) /\ queue[q].ctx # NoReq /\ LastContext(q)
      <3>1. PICK r \in Reqs : r = queue[q].ctx
        BY <2>1, <1>1 DEF TypeOK, Queue
      <3>2. Notify(r)
        BY <1>1, <2>1, <3>1 DEF Retire
      <3>3. req'[r].st \in {"Sent", "Lost"} /\ \A x \in Reqs \ {r} : req'[x] = req[x]
        BY <3>2 DEF Notify, TypeOK, Request
      <3>4. \A n \in 1..Len(pipe') : pipe'[n] = r \/ (n \in 1..Len(pipe) /\ pipe'[n] = pipe[n])
        <4>1. pipe \in Seq(Reqs) /\ (pipe' = Append(pipe, r) \/ pipe' = pipe)
          BY <3>2 DEF Notify, TypeOK
        <4>2. CASE pipe' = Append(pipe, r)
          BY <4>1, <4>2
        <4>3. CASE pipe' = pipe
          BY <4>1, <4>3
        <4> QED BY <4>1, <4>2, <4>3
      <3>5. \A n \in 1..Len(pipe) : pipe[n] \in Reqs
        BY DEF TypeOK
      <3> QED BY <3>3, <3>4, <3>5 DEF PipeAnswered
    <2>2. CASE ~(LastRef(q, i) /\ queue[q].ctx # NoReq /\ LastContext(q))
      BY <1>1, <2>2 DEF Retire, PipeAnswered
    <2> QED BY <2>1, <2>2
  <1> QED BY <1>9, <1>10, <1>11, <1>12, <1>13, <1>17, <1>18, <1>19

(* The invariant through a request over the queues qs that leave the table *)
LEMMA AnswerStep ==
    ASSUME IInv, TypeOK', NEW r \in Reqs, NEW kind, NEW p, NEW s, NEW waits, NEW qs,
           Answer(r, kind, p, s, waits, qs), Leaves(qs), Closed'
    PROVE  IInv'
  <1>1. Unlink(qs, r) /\ io' = io
    BY DEF Answer
  <1>2. /\ Listed' /\ Alive' /\ Held'
        /\ \A i \in Ios : io[i] # NoQueue =>
             queue'[io[i]].ctx = IF io[i] \in qs THEN r ELSE queue[io[i]].ctx
    BY <1>1, UnlinkTable DEF IInv, TableExact
  <1>3. OwedExact' /\ PendingOwed'
    BY <1>2, AnswerOwed
  <1>4. PipeAnswered'
    BY DEF Answer, PipeAnswered, IInv, TypeOK
  <1> QED BY <1>2, <1>3, <1>4 DEF IInv, TableExact

(* A reset leaves what requests are owed alone *)
LEMMA ResetStep ==
    ASSUME IInv, TypeOK', NEW ps \in SUBSET Pfns, Reset(ps)
    PROVE  IInv'
  <1> USE DEF IInv, TableExact
  <1> DEFINE qs == UNION {Tabled(p) : p \in ps}
  <1>1. /\ Unlink(qs, NoReq) /\ io' = io /\ req' = req /\ owed' = owed /\ pipe' = pipe
        /\ \A p \in Pfns : ioq'[p] = IF p \in ps THEN NoTable ELSE ioq[p]
        /\ \A p \in Pfns : enabled'[p] <=> enabled[p] /\ p \notin ps
    BY DEF Reset
  <1>2. Leaves(qs)
    BY <1>1, LeavesAll
  <1> HIDE DEF qs
  <1>3. /\ Listed' /\ Alive' /\ Held'
        /\ \A i \in Ios : io[i] # NoQueue =>
             queue'[io[i]].ctx = IF io[i] \in qs THEN NoReq ELSE queue[io[i]].ctx
    BY <1>1, <1>2, UnlinkTable
  <1>4. Closed'
    BY <1>1 DEF Closed
  <1>5. \A i \in Ios : io[i] # NoQueue => queue'[io[i]].ctx = queue[io[i]].ctx
    BY <1>2, <1>3, InTableEntry DEF Leaves
  <1>6. OwedExact'
    BY <1>1, <1>5 DEF OwedExact
  <1>7. PendingOwed' /\ PipeAnswered'
    BY <1>1 DEF PendingOwed, PipeAnswered
  <1> QED BY <1>3, <1>4, <1>6, <1>7

LEMMA CreateStep ==
    ASSUME IInv, TypeOK', NEW p \in Pfns, NEW s \in Sqs, CreateSq(p, s)
    PROVE  IInv'
  <1> USE DEF IInv, TableExact
  <1> DEFINE new == [pfn |-> p, sq |-> s, valid |-> TRUE, ctx |-> NoReq]
  <1>1. PICK q \in Queues :
          /\ queue[q] = Unused
          /\ queue' = [queue EXCEPT ![q] = new]
          /\ ioq' = [ioq EXCEPT ![p][s] = q]
    BY DEF CreateSq
  <1>2. /\ io' = io /\ req' = req /\ owed' = owed /\ enabled' = enabled /\ pipe' = pipe
        /\ enabled[p] /\ ioq[p][s] = NoQueue
    BY DEF CreateSq
  <1>3. \A x \in Pfns, y \in Sqs : ioq'[x][y] = IF x = p /\ y = s THEN q ELSE ioq[x][y]
    BY <1>1 DEF TypeOK
  <1>4. queue'[q] = new /\ \A x \in Queues \ {q} : queue'[x] = queue[x]
    BY <1>1 DEF TypeOK
  <1>5. new.valid /\ new.ctx = NoReq /\ new # Unused /\ ~Unused.valid
    BY DEF Unused
  <1> HIDE DEF new
  <1>6. ~InTable(q) /\ ~Busy(q)
    BY <1>1, <1>5, InTableEntry DEF Held, Busy
  <1>7. \A x \in Queues : InTable(x)' <=> InTable(x) \/ x = q
    BY <1>2, <1>3 DEF InTable
  <1>8. \A x \in Queues : Busy(x)' <=> Busy(x)
    BY <1>2 DEF Busy
  <1>9. Listed'
    <2> SUFFICES ASSUME NEW x \in Pfns, NEW y \in Sqs, ioq'[x][y] # NoQueue
                 PROVE  queue'[ioq'[x][y]] = [pfn |-> x, sq |-> y, valid |-> TRUE, ctx |-> NoReq]
      BY DEF Listed
    <2>1. CASE x = p /\ y = s
      BY <2>1, <1>3, <1>4 DEF new
    <2>2. CASE ~(x = p /\ y = s)
      <3>1. ioq[x][y] \in Queues /\ InTable(ioq[x][y]) /\ ioq'[x][y] = ioq[x][y]
        BY <2>2, <1>3 DEF TypeOK, InTable
      <3> QED BY <3>1, <1>4, <1>6 DEF Listed
    <2> QED BY <2>1, <2>2
  <1>10. Alive'
    BY <1>4, <1>5, <1>7, <1>8 DEF Alive
  <1>11. \A i \in Ios : io[i] # NoQueue => queue'[io[i]] = queue[io[i]]
    BY <1>4, <1>6 DEF Busy, TypeOK
  <1>12. Held'
    BY <1>2, <1>11 DEF Held
  <1>13. Closed'
    BY <1>1, <1>2 DEF Closed, TypeOK
  <1>14. OwedExact' /\ PendingOwed' /\ PipeAnswered'
    BY <1>2, <1>11 DEF OwedExact, PendingOwed, PipeAnswered
  <1> QED BY <1>9, <1>10, <1>12, <1>13, <1>14

LEMMA RxReadyStep ==
    ASSUME IInv, TypeOK', NEW p \in Pfns, NEW s \in Sqs, NEW i \in Ios, RxReady(i, p, s)
    PROVE  IInv'
  <1> USE DEF IInv, TableExact
  <1>1. PICK q \in Queues : q = ioq[p][s]
    BY DEF RxReady, TypeOK
  <1>2. InTable(q) /\ queue[q].valid /\ queue[q].ctx = NoReq
    BY <1>1, InTableEntry DEF InTable
  <1>3. /\ io[i] = NoQueue /\ io' = [io EXCEPT ![i] = q]
        /\ ioq' = ioq /\ queue' = queue /\ enabled' = enabled
        /\ req' = req /\ owed' = owed /\ pipe' = pipe
    BY <1>1 DEF RxReady
  <1>4. io'[i] = q /\ \A j \in Ios \ {i} : io'[j] = io[j]
    BY <1>3 DEF TypeOK
  <1>5. \A x \in Queues \ {q} : Busy(x)' <=> Busy(x)
    BY <1>3, <1>4 DEF Busy
  <1>6. Listed' /\ Closed' /\ PendingOwed' /\ PipeAnswered'
    BY <1>3 DEF Listed, Closed, PendingOwed, PipeAnswered
  <1>7. \A x \in Queues : InTable(x)' <=> InTable(x)
    BY <1>3 DEF InTable
  <1>8. Alive'
    BY <1>2, <1>3, <1>5, <1>7 DEF Alive
  <1>9. Held'
    <2>1. queue[q] # Unused
      BY <1>2 DEF Unused
    <2> QED BY <2>1, <1>3, <1>4 DEF Held
  <1>10. OwedExact'
    BY <1>2, <1>3, <1>4 DEF OwedExact
  <1> QED BY <1>6, <1>8, <1>9, <1>10

(* Steps that touch neither queues nor I/Os *)
LEMMA QuietStep ==
    ASSUME IInv, TypeOK', UNCHANGED <<ioq, queue, io, owed>>, PendingOwed', PipeAnswered', Closed'
    PROVE  IInv'
  BY DEF IInv, TableExact, Listed, Alive, Held, InTable, Busy, OwedExact

(* A notification is taken out *)
LEMMA ReceiveStep ==
    ASSUME IInv, TypeOK', Receive
    PROVE  IInv' /\ \A r \in Reqs : req[r].st = "Pending" => req'[r] = req[r]
  <1> USE DEF IInv
  <1>1. PICK r \in Reqs : r = Head(pipe) /\ r = pipe[1] /\ 1 \in 1..Len(pipe)
    BY DEF Receive, TypeOK
  <1>2. req[r].st \notin {"new", "Pending"}
    BY <1>1 DEF PipeAnswered
  <1>3. req'[r].st = "Received" /\ \A x \in Reqs \ {r} : req'[x] = req[x]
    BY <1>1 DEF Receive, TypeOK, Request
  <1>4. UNCHANGED <<ioq, queue, io, owed, enabled>>
    BY DEF Receive
  <1>5. PendingOwed'
    BY <1>2, <1>3, <1>4 DEF PendingOwed
  <1>6. \A n \in 1..Len(pipe') : n + 1 \in 1..Len(pipe) /\ pipe'[n] = pipe[n+1] /\ pipe'[n] \in Reqs
    BY DEF Receive, TypeOK
  <1>7. PipeAnswered'
    <2>1. SUFFICES ASSUME NEW n \in 1..Len(pipe') PROVE req'[pipe'[n]].st \notin {"new", "Pending"}
      BY DEF PipeAnswered
    <2>2. pipe'[n] \in Reqs /\ req[pipe'[n]].st \notin {"new", "Pending"}
      BY <1>6 DEF PipeAnswered
    <2> QED BY <1>3, <2>2
  <1>8. Closed'
    BY <1>4 DEF TableExact, Closed
  <1> QED BY <1>2, <1>3, <1>4, <1>5, <1>7, <1>8, QuietStep

(* Every step keeps the invariant, and completes what is owed nothing more *)
LEMMA InvStep ==
    ASSUME IInv, [Next]_vars
    PROVE  /\ IInv'
           /\ \A r \in Reqs : (req[r].st = "Pending" /\ req'[r].st # "Pending")
                                 <=> (owed[r] # {} /\ owed'[r] = {})
  <1> DEFINE Done == \A r \in Reqs : req[r].st = "Pending" /\ req'[r].st # "Pending"
                                        <=> (owed[r] # {} /\ owed'[r] = {})
  <1>0. TypeOK' /\ TypeOK /\ Listed
    BY TypeStep DEF IInv, TableExact
  <1>1. ASSUME IInv', \A r \in Reqs : req[r].st = "Pending" => req'[r].st = "Pending" PROVE Done
    BY <1>1 DEF IInv, PendingOwed
  <1>2. CASE UNCHANGED vars
    <2>1. IInv'
      BY <1>2, <1>0, QuietStep DEF vars, IInv, TableExact, PendingOwed, PipeAnswered, Closed
    <2> QED BY <2>1, <1>1, <1>2 DEF vars
  <1>3. ASSUME NEW p \in Pfns, Enable(p) PROVE IInv' /\ Done
    <2>1. Closed'
      BY <1>3 DEF Enable, IInv, TableExact, Closed, TypeOK
    <2>2. PendingOwed' /\ PipeAnswered'
      BY <1>3 DEF Enable, IInv, PendingOwed, PipeAnswered
    <2>3. IInv'
      BY <1>0, <1>3, <2>1, <2>2, QuietStep DEF Enable
    <2> QED BY <2>3, <1>1, <1>3 DEF Enable
  <1>4. ASSUME NEW ps \in SUBSET Pfns, Reset(ps) PROVE IInv' /\ Done
    BY <1>0, <1>1, <1>4, ResetStep DEF Reset
  <1>5. ASSUME NEW p \in Pfns, NEW s \in Sqs, CreateSq(p, s) PROVE IInv' /\ Done
    BY <1>0, <1>1, <1>5, CreateStep DEF CreateSq
  <1>6. ASSUME NEW p \in Pfns, NEW s \in Sqs, NEW i \in Ios, RxReady(i, p, s) PROVE IInv' /\ Done
    BY <1>0, <1>1, <1>6, RxReadyStep DEF RxReady
  <1>7. ASSUME NEW r \in Reqs, NEW kind, NEW p, NEW s, NEW waits, NEW qs,
               Answer(r, kind, p, s, waits, qs), Leaves(qs), Closed'
        PROVE  IInv' /\ Done
    <2>1. IInv'
      BY <1>0, <1>7, AnswerStep
    <2>2. req[r].st = "new" /\ \A x \in Reqs \ {r} : req'[x] = req[x]
      BY <1>0, <1>7 DEF Answer, TypeOK
    <2> QED BY <2>1, <2>2, <1>1
  <1>8. ASSUME NEW p \in Pfns, ioq' = [ioq EXCEPT ![p] = NoTable] PROVE Leaves(Tabled(p))
    <2>1. \A x \in Pfns : ioq'[x] = IF x \in {p} THEN NoTable ELSE ioq[x]
      BY <1>0, <1>8 DEF TypeOK
    <2>2. UNION {Tabled(x) : x \in {p}} = Tabled(p)
      OBVIOUS
    <2> QED BY <1>0, <2>1, <2>2, LeavesAll
  <1>9. ASSUME NEW r \in Reqs, NEW p \in Pfns, Disable(r, p) PROVE IInv' /\ Done
    <2>1. PICK waits \in BOOLEAN : Answer(r, "Disable", p, NoSq, waits, Tabled(p))
      BY <1>9 DEF Disable
    <2>2. Closed'
      BY <1>9 DEF Disable, IInv, TableExact, Closed, TypeOK
    <2> QED BY <1>7, <1>8, <1>9, <2>1, <2>2 DEF Disable
  <1>10. ASSUME NEW r \in Reqs, NEW p \in Pfns, Migrate(r, p) PROVE IInv' /\ Done
    <2>1. Closed'
      BY <1>10 DEF Migrate, IInv, TableExact, Closed, TypeOK
    <2> QED BY <1>7, <1>8, <1>10, <2>1 DEF Migrate
  <1>11. ASSUME NEW r \in Reqs, NEW p \in Pfns, NEW s \in Sqs, DeleteSq(r, p, s) PROVE IInv' /\ Done
    <2>1. Closed'
      BY <1>11 DEF DeleteSq, IInv, TableExact, Closed, TypeOK
    <2>2. Leaves({ioq[p][s]})
      BY <1>0, <1>11, LeavesOne DEF DeleteSq
    <2> QED BY <1>7, <1>11, <2>1, <2>2 DEF DeleteSq
  <1>12. CASE Receive
    BY <1>0, <1>1, <1>12, ReceiveStep
  <1>13. ASSUME NEW i \in Ios, Retire(i) PROVE IInv' /\ Done
    <2>1. IInv' /\ \A r \in Reqs : req[r].st = "Pending" /\ req'[r].st # "Pending" <=> owed[r] = {i}
      BY <1>0, <1>13, RetireStep
    <2>2. \A r \in Reqs : owed'[r] = owed[r] \ {i}
      BY <1>13 DEF Retire
    <2>3. \A r \in Reqs : owed[r] = {i} <=> owed[r] # {} /\ owed'[r] = {}
      BY <2>2
    <2> QED BY <2>1, <2>3
  <1> QED BY <1>2, <1>3, <1>4, <1>5, <1>6, <1>9, <1>10, <1>11, <1>12, <1>13
           DEF Next, ClearResources, Flr

LEMMA InitInv == Init => IInv
  <1> SUFFICES ASSUME Init PROVE IInv
    OBVIOUS
  <1>1. TypeOK
    BY DEF Init, TypeOK, Queue, Unused, Request, NotIssued, Kinds, Answers
  <1>2. \A p \in Pfns, s \in Sqs : ioq[p][s] = NoQueue
    BY DEF Init
  <1>3. ~Unused.valid /\ \A q \in Queues : queue[q] = Unused /\ ~Busy(q)
    BY DEF Init, Unused, Busy
  <1>4. TableExact
    BY <1>2, <1>3 DEF Init, TableExact, Listed, Alive, Held, Closed, NoTable
  <1>5. OwedExact /\ PendingOwed /\ PipeAnswered
    BY DEF Init, OwedExact, PendingOwed, PipeAnswered, NotIssued
  <1> QED BY <1>1, <1>4, <1>5 DEF IInv

LEMMA Invariance == Spec => []IInv
  BY InitInv, InvStep, PTL DEF Spec

(* TypeOK holds throughout: every queue, I/O and request the tables, the   *)
(* contexts and the pipe name exists, and the pipe keeps to its length.    *)
THEOREM QueueTypes == Spec => []TypeOK
  <1>1. IInv => TypeOK
    BY DEF IInv
  <1> QED BY <1>1, Invariance, PTL

(* IoQueueMgr's table and the IoQueueImpl objects agree throughout, whatever *)
(* deletes, disables, migrations and resets do while I/Os are in flight.     *)
THEOREM TablesAgree == Spec => []TableExact
  <1>1. IInv => TableExact
    BY DEF IInv
  <1> QED BY <1>1, Invariance, PTL

(* retire_io completes a deferred request in the step that retires the last *)
(* I/O it waits for, and in no other, for any number of queues and I/Os.    *)
THEOREM CompletedAtLast == Spec => NotifiedAtLast
  <1>1. IInv /\ [Next]_vars =>
          [\A r \in Reqs : (req[r].st = "Pending" /\ req'[r].st # "Pending")
                              <=> (owed[r] # {} /\ owed'[r] = {})]_vars
    BY InvStep
  <1> QED BY <1>1, Invariance, PTL DEF Spec, NotifiedAtLast
-----------------------------------------------------------------------------
(* Without VFLR the channel serialises the deferred requests *)

(* The only context in use is that of the request that holds the channel *)
ChannelOwns == \A q \in Queues : queue[q].ctx \in {NoReq, channel}

(* and so is the only notification under way *)
OneNotification ==
    pipe = <<>> \/ (channel # NoReq /\ pipe = <<channel>> /\ req[channel].st = "Sent")

(* No queue of what request r is about is in the table *)
Off(p, kind, s) == \A y \in Sqs : ioq[p][y] # NoQueue => kind = "Delete" /\ s # y
Cleared(r) == req[r].pfn \in Pfns /\ Off(req[r].pfn, req[r].kind, req[r].sq)

ChannelCleared == channel # NoReq => Cleared(channel)

SInv == IInv /\ ChannelOwns /\ OneNotification /\ ChannelCleared

LEMMA ContextOwed ==
    ASSUME IInv, NEW q \in Queues, queue[q].ctx # NoReq
    PROVE  queue[q].ctx \in Reqs /\ owed[queue[q].ctx] # {}
  <1> USE DEF IInv, TableExact
  <1>1. queue[q].ctx \in Reqs
    BY DEF TypeOK, Queue
  <1>2. ~queue[q].valid /\ queue[q] # Unused
    BY InTableEntry DEF Alive, Unused
  <1>3. PICK i \in Ios : io[i] = q
    BY <1>2 DEF Alive, Busy
  <1> QED BY <1>1, <1>3 DEF OwedExact

(* Once r's queues have left the table and no I/O holds a context, none of *)
(* r's I/Os is tracked                                                     *)
LEMMA NoneTracked ==
    ASSUME IInv', NEW r \in Reqs, Cleared(r)',
           \A i \in Ios : io'[i] # NoQueue => queue'[io'[i]].ctx = NoReq
    PROVE  Tracked(r)' = {}
  <1> SUFFICES ASSUME NEW i \in Tracked(r)' PROVE FALSE
    OBVIOUS
  <1>1. PICK q \in Queues : q = io'[i]
    BY DEF Tracked, IInv, TypeOK
  <1>2. /\ i \in Ios /\ io'[i] # NoQueue /\ queue'[q].valid
        /\ queue'[q].pfn = req'[r].pfn
        /\ req'[r].kind = "Delete" => queue'[q].sq = req'[r].sq
    BY <1>1 DEF Tracked
  <1>3. PICK p \in Pfns, s \in Sqs : ioq'[p][s] = q
    BY <1>2 DEF IInv, TableExact, Alive, InTable
  <1>4. queue'[q] = [pfn |-> p, sq |-> s, valid |-> TRUE, ctx |-> NoReq] /\ q # NoQueue
    BY <1>1, <1>2, <1>3 DEF IInv, TableExact, Listed
  <1>5. queue'[q].pfn = p /\ queue'[q].sq = s
    BY <1>4
  <1> QED BY <1>2, <1>3, <1>4, <1>5 DEF Cleared, Off

(* The step of a request that keeps the channel while it is deferred *)
LEMMA AnswerSerial ==
    ASSUME SInv, IInv', NEW r \in Reqs, NEW kind, NEW p \in Pfns, NEW s,
           NEW waits \in {TRUE}, NEW qs, Answer(r, kind, p, s, waits, qs), Leaves(qs),
           Off(p, kind, s)'
    PROVE  /\ SInv' /\ req'[r].st # "Lost"
           /\ \A x \in Reqs \ {r} : req'[x] = req[x]
           /\ Complete(r)' => Tracked(r)' = {}
  <1> USE DEF SInv
  <1> DEFINE busy == \E q \in qs \cap Queues : Busy(q)
  <1>1. /\ channel = NoReq /\ io' = io /\ pipe' = pipe /\ Unlink(qs, r)
        /\ channel' = IF busy THEN r ELSE NoReq
    BY DEF Answer
  <1>2. /\ req'[r].pfn = p /\ req'[r].kind = kind /\ req'[r].sq = s
        /\ req'[r].st = IF busy THEN "Pending" ELSE "Success"
        /\ \A x \in Reqs \ {r} : req'[x] = req[x]
    BY DEF Answer, IInv, TypeOK
  <1>3. pipe = <<>>
    BY <1>1 DEF OneNotification
  <1>4. \A q \in Queues : queue[q].ctx = NoReq
    BY <1>1 DEF ChannelOwns
  <1>5. \A q \in Queues : queue'[q].ctx = IF q \in qs /\ Busy(q) THEN r ELSE NoReq
    BY <1>1, <1>4 DEF Unlink, Orphan, Unused
  <1>6. ChannelOwns'
    BY <1>1, <1>5 DEF ChannelOwns
  <1>7. OneNotification'
    BY <1>1, <1>3 DEF OneNotification
  <1>8. Cleared(r)'
    BY <1>2 DEF Cleared, Off
  <1>9. ChannelCleared'
    BY <1>1, <1>8 DEF ChannelCleared
  <1>10. ASSUME Complete(r)' PROVE Tracked(r)' = {}
    <2>1. ~busy
      BY <1>2, <1>10 DEF Complete
    <2>2. \A i \in Ios : io'[i] # NoQueue => io'[i] \in Queues
      BY DEF IInv, TypeOK
    <2>3. \A i \in Ios : io'[i] # NoQueue => queue'[io'[i]].ctx = NoReq
      BY <2>1, <2>2, <1>5
    <2> QED BY <2>3, <1>8, NoneTracked
  <1> QED BY <1>2, <1>6, <1>7, <1>9, <1>10

LEMMA RetireSerial ==
    ASSUME SInv, IInv', NEW i \in Ios, Retire(i)
    PROVE  /\ SInv'
           /\ \A r \in Reqs : PipeLen > 0 /\ req[r].st # "Lost" => req'[r].st # "Lost"
           /\ \A r \in Reqs : ~Complete(r) /\ Complete(r)' => Tracked(r)' = {}
  <1> USE DEF SInv
  <1>1. PICK q \in Queues : q = io[i] /\ q # NoQueue
    BY DEF Retire, IInv, TypeOK
  <1>2. ioq' = ioq /\ channel' = channel
    BY DEF Retire
  <1>3. \A x \in Queues : queue'[x] \in {queue[x], Unused}
    BY <1>1 DEF Retire, IInv, TypeOK
  <1>4. ChannelOwns'
    BY <1>2, <1>3 DEF ChannelOwns, Unused
  <1>5. CASE LastRef(q, i) /\ queue[q].ctx # NoReq /\ LastContext(q)
    <2>1. channel = queue[q].ctx /\ channel \in Reqs /\ channel # NoReq
      BY <1>5, ContextOwed DEF ChannelOwns
    <2>2. owed[channel] = {i}
      BY <1>1, <1>5, <2>1, LastIo
    <2>3. req[channel].st = "Pending"
      BY <2>1, <2>2 DEF IInv, PendingOwed
    <2>4. pipe = <<>>
      BY <2>3 DEF OneNotification
    <2>5. Notify(channel)
      BY <1>1, <1>5, <2>1 DEF Retire
    <2>6. \A x \in Reqs \ {channel} : req'[x] = req[x]
      BY <2>5 DEF Notify, IInv, TypeOK
    <2>7. /\ req'[channel].pfn = req[channel].pfn /\ req'[channel].kind = req[channel].kind
          /\ req'[channel].sq = req[channel].sq
      BY SMTT(30), <2>1, <2>5 DEF Notify, IInv, TypeOK, Request
    <2>8. \/ /\ Len(pipe) < PipeLen /\ pipe' = <<channel>> /\ req'[channel].st = "Sent"
          \/ ~(Len(pipe) < PipeLen) /\ pipe' = <<>>
      <3>1. CASE Len(pipe) < PipeLen
        BY <2>1, <2>4, <2>5, <3>1 DEF Notify, IInv, TypeOK, Request
      <3>2. CASE ~(Len(pipe) < PipeLen)
        BY <2>4, <2>5, <3>2 DEF Notify
      <3> QED BY <3>1, <3>2
    <2>9. OneNotification'
      BY <1>2, <2>1, <2>8 DEF OneNotification
    <2>10. Cleared(channel)'
      BY <1>2, <2>1, <2>7 DEF ChannelCleared, Cleared, Off
    <2>11. owed'[channel] = {}
      BY <2>1, <2>2 DEF Retire
    <2>12. \A j \in Ios : io'[j] # NoQueue => io'[j] \in Queues /\ queue'[io'[j]].ctx = NoReq
      <3> SUFFICES ASSUME NEW j \in Ios, io'[j] # NoQueue
                   PROVE  io'[j] \in Queues /\ queue'[io'[j]].ctx = NoReq
        OBVIOUS
      <3>1. io'[j] \in Queues
        BY DEF IInv, TypeOK
      <3>2. queue'[io'[j]].ctx \in {NoReq, channel}
        BY <1>2, <1>4, <3>1 DEF ChannelOwns
      <3>3. queue'[io'[j]].ctx # channel
        BY <2>1, <2>11 DEF IInv, OwedExact
      <3> QED BY <3>1, <3>2, <3>3
    <2>13. PICK r \in Reqs : r = channel
      BY <2>1
    <2>14. Cleared(r)'
      BY <1>2, <2>10, <2>13
    <2>15. Tracked(r)' = {}
      BY <2>12, <2>14, NoneTracked
    <2>16. ChannelCleared'
      BY <2>10 DEF ChannelCleared
    <2>17. \A x \in Reqs \ {r} : Complete(x)' <=> Complete(x)
      BY <2>6, <2>13 DEF Complete
    <2>18. PipeLen > 0 => req'[r].st # "Lost"
      BY <2>4, <2>8, <2>13
    <2> QED BY <1>4, <2>6, <2>9, <2>13, <2>15, <2>16, <2>17, <2>18
  <1>6. CASE ~(LastRef(q, i) /\ queue[q].ctx # NoReq /\ LastContext(q))
    <2>1. req' = req /\ pipe' = pipe
      BY <1>1, <1>6 DEF Retire
    <2>2. OneNotification' /\ ChannelCleared'
      BY <1>2, <2>1 DEF OneNotification, ChannelCleared, Cleared, Off
    <2> QED BY <1>4, <2>1, <2>2 DEF Complete
  <1> QED BY <1>5, <1>6

(* Every step of the system without VFLR *)
LEMMA SerialStep ==
    ASSUME ~Vflr, SInv, [Next]_vars
    PROVE  /\ SInv' /\ (PipeLen > 0 /\ NothingLost => NothingLost')
           /\ \A r \in Reqs : ~Complete(r) /\ Complete(r)' => Tracked(r)' = {}
  <1> USE DEF SInv
  <1> DEFINE Good == /\ SInv' /\ (PipeLen > 0 /\ NothingLost => NothingLost')
                     /\ \A r \in Reqs : ~Complete(r) /\ Complete(r)' => Tracked(r)' = {}
  <1>0. IInv' /\ TypeOK /\ Listed
    BY InvStep DEF IInv, TableExact
  <1>1. ASSUME req' = req, SInv' PROVE Good
    BY <1>1 DEF NothingLost, Complete
  <1>2. ASSUME UNCHANGED <<req, pipe, channel>>, ChannelOwns',
               \A p \in Pfns, s \in Sqs : ioq'[p][s] \in {ioq[p][s], NoQueue}
        PROVE  Good
    <2>1. OneNotification'
      BY <1>2 DEF OneNotification
    <2>2. ChannelCleared'
      BY <1>2 DEF ChannelCleared, Cleared, Off
    <2> QED BY <1>0, <1>1, <1>2, <2>1, <2>2
  <1>3. CASE UNCHANGED vars
    BY <1>2, <1>3 DEF vars, ChannelOwns
  <1>4. ASSUME NEW p \in Pfns, Enable(p) PROVE Good
    BY <1>2, <1>4 DEF Enable, ChannelOwns
  <1>5. ASSUME NEW ps \in SUBSET Pfns, Reset(ps) PROVE Good
    <2>1. \A p \in Pfns, s \in Sqs : ioq'[p][s] \in {ioq[p][s], NoQueue}
      BY <1>5 DEF Reset, NoTable
    <2>2. \A q \in Queues : queue'[q].ctx \in {queue[q].ctx, NoReq}
      BY <1>5 DEF Reset, Unlink, Orphan, Unused
    <2>3. UNCHANGED <<req, pipe, channel>>
      BY <1>5 DEF Reset
    <2>4. ChannelOwns'
      BY <2>2, <2>3 DEF ChannelOwns
    <2> QED BY <1>2, <2>1, <2>3, <2>4
  <1>6. ASSUME NEW p \in Pfns, NEW s \in Sqs, CreateSq(p, s) PROVE Good
    <2>1. UNCHANGED <<req, pipe, channel>> /\ channel = NoReq
      BY <1>6 DEF CreateSq
    <2>2. ChannelOwns'
      BY <1>0, <1>6, <2>1 DEF CreateSq, ChannelOwns, TypeOK
    <2>3. OneNotification' /\ ChannelCleared'
      BY <2>1 DEF OneNotification, ChannelCleared
    <2> QED BY <1>0, <1>1, <2>1, <2>2, <2>3
  <1>7. ASSUME NEW p \in Pfns, NEW s \in Sqs, NEW i \in Ios, RxReady(i, p, s) PROVE Good
    BY <1>2, <1>7 DEF RxReady, ChannelOwns
  <1>8. ASSUME NEW r \in Reqs, NEW kind, NEW p \in Pfns, NEW s,
               NEW waits \in {TRUE}, NEW qs, Answer(r, kind, p, s, waits, qs), Leaves(qs),
               Off(p, kind, s)'
        PROVE  Good
    <2> HIDE DEF SInv
    <2>1. /\ SInv' /\ req'[r].st # "Lost"
          /\ \A x \in Reqs \ {r} : req'[x] = req[x]
          /\ Complete(r)' => Tracked(r)' = {}
      BY <1>0, <1>8, AnswerSerial
    <2> QED BY <2>1 DEF NothingLost, Complete
  <1>9. ASSUME NEW p \in Pfns, ioq' = [ioq EXCEPT ![p] = NoTable]
        PROVE  Leaves(Tabled(p)) /\ \A y \in Sqs : ioq'[p][y] = NoQueue
    <2>1. \A x \in Pfns : ioq'[x] = IF x \in {p} THEN NoTable ELSE ioq[x]
      BY <1>0, <1>9 DEF TypeOK
    <2>2. UNION {Tabled(x) : x \in {p}} = Tabled(p)
      OBVIOUS
    <2> QED BY <1>0, <2>1, <2>2, LeavesAll DEF NoTable
  <1>10. ASSUME NEW r \in Reqs, NEW p \in Pfns, Disable(r, p) PROVE Good
    <2>1. Answer(r, "Disable", p, NoSq, TRUE, Tabled(p))
      BY <1>10 DEF Disable
    <2> QED BY <1>8, <1>9, <1>10, <2>1 DEF Disable, Off
  <1>11. ASSUME NEW r \in Reqs, NEW p \in Pfns, Migrate(r, p) PROVE Good
    BY <1>8, <1>9, <1>11 DEF Migrate, Off
  <1>12. ASSUME NEW r \in Reqs, NEW p \in Pfns, NEW s \in Sqs, DeleteSq(r, p, s) PROVE Good
    <2>1. ioq' = [ioq EXCEPT ![p][s] = NoQueue] /\ Answer(r, "Delete", p, s, TRUE, {ioq[p][s]})
      BY <1>12 DEF DeleteSq
    <2>2. Leaves({ioq[p][s]})
      BY <1>0, <2>1, LeavesOne
    <2>3. ioq'[p][s] = NoQueue
      BY <1>0, <2>1 DEF TypeOK
    <2>4. Off(p, "Delete", s)'
      BY <2>3 DEF Off
    <2> QED BY <1>8, <2>1, <2>2, <2>4
  <1>13. CASE Receive
    <2>1. channel' = NoReq /\ pipe' = Tail(pipe) /\ queue' = queue /\ pipe # <<>>
      BY <1>13 DEF Receive
    <2>2. pipe = <<channel>> /\ channel \in Reqs /\ req[channel].st = "Sent"
      BY <1>0, <2>1 DEF OneNotification, TypeOK
    <2>3. Head(pipe) = channel /\ pipe' = <<>>
      BY <2>1, <2>2
    <2>4. owed[channel] = {}
      BY <2>2 DEF IInv, PendingOwed
    <2>5. ChannelOwns'
      BY <2>1, <2>4, ContextOwed DEF ChannelOwns
    <2>6. req'[channel].st = "Received" /\ \A x \in Reqs \ {channel} : req'[x] = req[x]
      BY <1>0, <1>13, <2>2, <2>3 DEF Receive, TypeOK, Request
    <2>7. SInv'
      BY <1>0, <2>1, <2>3, <2>5 DEF OneNotification, ChannelCleared
    <2>8. \A x \in Reqs : Complete(x)' => Complete(x)
      BY <2>2, <2>6 DEF Complete
    <2>9. NothingLost => NothingLost'
      BY <2>6 DEF NothingLost
    <2> QED BY <2>7, <2>8, <2>9
  <1>14. ASSUME NEW i \in Ios, Retire(i) PROVE Good
    BY <1>0, <1>14, RetireSerial DEF NothingLost
  <1> QED BY <1>3, <1>4, <1>5, <1>6, <1>7, <1>10, <1>11, <1>12, <1>13, <1>14
           DEF Next, ClearResources, Flr

LEMMA InitSerial == Init => SInv /\ NothingLost
  <1> SUFFICES ASSUME Init PROVE SInv /\ NothingLost
    OBVIOUS
  <1>1. ChannelOwns /\ OneNotification /\ ChannelCleared
    BY DEF Init, ChannelOwns, OneNotification, ChannelCleared, Unused
  <1>2. NothingLost
    BY DEF Init, NothingLost, NotIssued
  <1> QED BY <1>1, <1>2, InitInv DEF SInv

(* If no requester gives the channel back before it is told (no VFLR), a     *)
(* delete, disable or migrate completes behind the last tracked I/O of its   *)
(* queue or function, for every number of requests, queues and I/Os.         *)
THEOREM CompletedQuiet == ASSUME ~Vflr PROVE Spec => QuietWhenComplete
  <1>1. SInv /\ [Next]_vars => SInv'
    BY SerialStep
  <1>2. SInv /\ [Next]_vars =>
          [\A r \in Reqs : ~Complete(r) /\ Complete(r)' => Tracked(r)' = {}]_vars
    BY SerialStep
  <1> QED BY <1>1, <1>2, InitSerial, PTL DEF Spec, QuietWhenComplete

(* Then a simplex pipe of any positive length never refuses a notification, *)
(* although retire_io drops the error of a full one.                        *)
THEOREM PipeNeverFull == ASSUME ~Vflr, PipeLen > 0 PROVE Spec => []NothingLost
  <1>1. (SInv /\ NothingLost) /\ [Next]_vars => (SInv /\ NothingLost)'
    BY SerialStep
  <1> QED BY <1>1, InitSerial, PTL DEF Spec
=============================================================================
