------------------------ MODULE StopInterfaceProofs -------------------------
(***************************************************************************)
(* Proofs about StopInterfaceFsm, for any number of functions: no request  *)
(* of its own is ever in its way, so that it panics only by its timer,     *)
(* when HSP takes no answer, or when another has left a request behind;    *)
(* and HSP is told that functions are stopped only when they are, as long  *)
(* as the HSM core's answers can be decoded.                               *)
(***************************************************************************)
EXTENDS StopInterface, TLAPS, WellFoundedInduction

-----------------------------------------------------------------------------
(* A channel on its own *)

Msg == [op : {"None", "Enable", "Disable", "Migrate", "Reset", "Create", "Delete"},
        f : Fns \cup {NoFn}]
Chan == [owner : Users \cup {NoOne}, waiters : Seq(Users), tag : Users \cup {NoOne},
         req : Msg, rsp : {"None", "Success", "Pending"}, bell : BOOLEAN]

Queued(s, u) == \E i \in 1..Len(s) : s[i] = u
NoneTwice(s) == \A i, j \in 1..Len(s) : s[i] = s[j] => i = j

(* The request in progress is the owner's, or one that the other user has *)
(* left behind, and is on its way or answered; nobody is in the queue     *)
(* twice, and the owner is not in it                                      *)
ChanOK(x) ==
    /\ NoneTwice(x.waiters) /\ ~Queued(x.waiters, x.owner)
    /\ x.tag \in {NoOne, x.owner, Other}
    /\ x.tag = NoOne => x.req = NoMsg /\ ~x.bell
    /\ x.bell => x.req = NoMsg
    /\ x.rsp # "None" => x.req = NoMsg /\ (x.bell \/ x.tag = Other)
    /\ x.req.op \in {"None", "Disable", "Create"}
    /\ x.req.op = "Disable" => x.tag = "Stop"

LEMMA Joined ==
    ASSUME NEW s \in Seq(Users), NEW u \in Users
    PROVE  /\ Append(s, u) \in Seq(Users)
           /\ \A v : Queued(Append(s, u), v) <=> Queued(s, v) \/ v = u
           /\ NoneTwice(s) /\ ~Queued(s, u) => NoneTwice(Append(s, u))
<1>1. /\ Append(s, u) \in Seq(Users) /\ Len(Append(s, u)) = Len(s) + 1 /\ Len(s) \in Nat
      /\ \A i \in 1..Len(s) : Append(s, u)[i] = s[i]
      /\ Append(s, u)[Len(s) + 1] = u
  OBVIOUS
<1>2. PICK r : r = Append(s, u)
  OBVIOUS
<1>3. /\ Len(r) = Len(s) + 1 /\ Len(s) \in Nat /\ r[Len(s) + 1] = u
      /\ \A i \in 1..Len(s) : r[i] = s[i]
  BY <1>1, <1>2
<1>4. \A v : Queued(r, v) <=> Queued(s, v) \/ v = u
  BY <1>3 DEF Queued
<1>5. NoneTwice(s) /\ ~Queued(s, u) => NoneTwice(r)
  BY <1>3 DEF NoneTwice, Queued
<1> QED BY <1>1, <1>2, <1>4, <1>5

LEMMA Left ==
    ASSUME NEW s \in Seq(Users), s # <<>>, NoneTwice(s)
    PROVE  /\ Head(s) \in Users /\ Tail(s) \in Seq(Users) /\ NoneTwice(Tail(s))
           /\ \A v : Queued(Tail(s), v) <=> Queued(s, v) /\ v # Head(s)
           /\ Queued(s, Head(s))
<1>1. /\ Tail(s) \in Seq(Users) /\ Len(s) \in Nat /\ Len(s) > 0 /\ Len(Tail(s)) = Len(s) - 1
      /\ \A i \in 1..Len(s) - 1 : Tail(s)[i] = s[i + 1]
      /\ Head(s) = s[1] /\ s[1] \in Users
  OBVIOUS
<1>2. PICK r : r = Tail(s)
  OBVIOUS
<1>3. PICK h : h = Head(s)
  OBVIOUS
<1>4. /\ Len(s) \in Nat /\ Len(s) > 0 /\ Len(r) = Len(s) - 1
      /\ \A i \in 1..Len(s) - 1 : r[i] = s[i + 1]
      /\ h = s[1]
  BY <1>1, <1>2, <1>3
<1>5. NoneTwice(r)
  BY <1>4 DEF NoneTwice
<1>6. \A v : Queued(r, v) => Queued(s, v) /\ v # h
  BY <1>4 DEF NoneTwice, Queued
<1>7. ASSUME NEW v, Queued(s, v), v # h PROVE Queued(r, v)
  <2>1. PICK i \in 1..Len(s) : s[i] = v
    BY <1>7 DEF Queued
  <2>2. i # 1
    BY <1>4, <1>7, <2>1
  <2>3. i - 1 \in 1..Len(s) - 1 /\ r[i - 1] = s[i]
    BY <1>4, <2>2
  <2> QED BY <1>4, <2>1, <2>3 DEF Queued
<1>8. Queued(s, h)
  BY <1>4 DEF Queued
<1> QED BY <1>1, <1>2, <1>3, <1>5, <1>6, <1>7, <1>8

(* NoOne is nobody *)
LEMMA Names == "Stop" \in Users /\ Other \in Users /\ Other # "Stop" /\ NoOne \notin Users
               /\ NoOne # "Stop" /\ NoOne # Other /\ NF \in Nat /\ NF > 0
  BY ChannelAssumption, StopAssumption

(* acquire: the channel, or a place in its queue *)
LEMMA AcquiredOK ==
    ASSUME NEW x \in Chan, ChanOK(x), NEW u \in Users, x.owner # u, ~Queued(x.waiters, u)
    PROVE  LET y == Acquired(x, u) IN
           /\ y \in Chan /\ ChanOK(y)
           /\ y.tag = x.tag /\ y.req = x.req /\ y.rsp = x.rsp /\ y.bell = x.bell
           /\ \/ /\ x.owner = NoOne /\ y.owner = u /\ y.tag \in {NoOne, Other}
                 /\ \A v : ~Queued(x.waiters, v) /\ ~Queued(y.waiters, v)
              \/ /\ y.owner = x.owner /\ y.owner # u
                 /\ \A v : Queued(y.waiters, v) <=> Queued(x.waiters, v) \/ v = u
<1> DEFINE y == Acquired(x, u)
<1>0. x.waiters \in Seq(Users) /\ NoOne \notin Users
  BY Names DEF Chan
<1>1. CASE x.owner = NoOne /\ x.waiters = <<>>
  <2>1. y = [x EXCEPT !.owner = u]
    BY <1>1 DEF Acquired
  <2>2. /\ y \in Chan /\ y.owner = u /\ y.waiters = <<>> /\ y.tag = x.tag /\ y.req = x.req
        /\ y.rsp = x.rsp /\ y.bell = x.bell
    BY <1>1, <2>1 DEF Chan
  <2>3. x.tag \in {NoOne, Other}
    BY <1>1 DEF ChanOK
  <2>4. \A v : ~Queued(x.waiters, v) /\ ~Queued(y.waiters, v)
    BY <1>1, <2>2 DEF Queued
  <2>5. NoneTwice(y.waiters)
    BY <2>2 DEF NoneTwice
  <2>6. ChanOK(y)
    BY <2>2, <2>3, <2>4, <2>5 DEF ChanOK
  <2> QED BY <1>1, <2>2, <2>3, <2>4, <2>6
<1>2. CASE ~(x.owner = NoOne /\ x.waiters = <<>>)
  <2>1. PICK w : w = Append(x.waiters, u)
    OBVIOUS
  <2>2. /\ w \in Seq(Users) /\ NoneTwice(w)
        /\ \A v : Queued(w, v) <=> Queued(x.waiters, v) \/ v = u
    BY <1>0, <2>1, Joined DEF ChanOK
  <2>3. y = [x EXCEPT !.waiters = w]
    BY <1>2, <2>1 DEF Acquired
  <2>4. /\ y \in Chan /\ y.owner = x.owner /\ y.waiters = w /\ y.tag = x.tag /\ y.req = x.req
        /\ y.rsp = x.rsp /\ y.bell = x.bell
    BY <2>2, <2>3 DEF Chan
  <2>5. ChanOK(y)
    BY <2>2, <2>4 DEF ChanOK
  <2> QED BY <2>2, <2>4, <2>5
<1> QED BY <1>1, <1>2

(* A free channel goes to the first who waits *)
LEMMA GivenOK ==
    ASSUME NEW x \in Chan, ChanOK(x), x.owner = NoOne, x.waiters # <<>>
    PROVE  LET y == Given(x) IN
           /\ y \in Chan /\ ChanOK(y) /\ y.owner = Head(x.waiters)
           /\ y.tag = x.tag /\ y.tag \in {NoOne, Other} /\ Queued(x.waiters, Head(x.waiters))
           /\ \A v : Queued(y.waiters, v) <=> Queued(x.waiters, v) /\ v # Head(x.waiters)
<1> DEFINE y == Given(x)
<1>1. PICK h, w : h = Head(x.waiters) /\ w = Tail(x.waiters)
  OBVIOUS
<1>2. /\ h \in Users /\ w \in Seq(Users) /\ NoneTwice(w) /\ Queued(x.waiters, h)
      /\ \A v : Queued(w, v) <=> Queued(x.waiters, v) /\ v # h
  BY <1>1, Left DEF Chan, ChanOK
<1>3. y = [x EXCEPT !.owner = h, !.waiters = w]
  BY <1>1 DEF Given
<1>4. /\ y \in Chan /\ y.owner = h /\ y.waiters = w /\ y.tag = x.tag /\ y.req = x.req
      /\ y.rsp = x.rsp /\ y.bell = x.bell
  BY <1>2, <1>3 DEF Chan
<1>5. x.tag \in {NoOne, Other}
  BY DEF ChanOK
<1>6. ChanOK(y)
  BY <1>2, <1>4, <1>5 DEF ChanOK
<1> QED BY <1>1, <1>2, <1>4, <1>5, <1>6

(* send_request of the owner, when none is in progress *)
LEMMA SentOK ==
    ASSUME NEW x \in Chan, ChanOK(x), NEW u \in Users, x.owner = u, x.tag = NoOne, NEW m \in Msg,
           m.op \in {"Disable", "Create"}, m.op = "Disable" => u = "Stop"
    PROVE  LET y == Sent(x, u, m) IN
           /\ y \in Chan /\ ChanOK(y) /\ y.owner = u /\ y.waiters = x.waiters
           /\ y.tag = u /\ y.req = m
<1> DEFINE y == Sent(x, u, m)
<1>1. y = [x EXCEPT !.tag = u, !.req = m]
  BY DEF Sent
<1>2. /\ y \in Chan /\ y.owner = x.owner /\ y.waiters = x.waiters /\ y.tag = u /\ y.req = m
      /\ y.rsp = x.rsp /\ y.bell = x.bell
  BY <1>1 DEF Chan
<1>3. ChanOK(y)
  BY <1>2, Names DEF ChanOK
<1> QED BY <1>2, <1>3

(* The answer is taken *)
LEMMA ReceivedOK ==
    ASSUME NEW x \in Chan, ChanOK(x), x.bell
    PROVE  LET y == Received(Rung(x)) IN
           /\ y \in Chan /\ ChanOK(y) /\ y.owner = x.owner /\ y.waiters = x.waiters
           /\ y.tag = NoOne /\ y.req = NoMsg /\ ~y.bell /\ y.rsp = "None"
<1> DEFINE y == Received(Rung(x))
<1>1. y = [[x EXCEPT !.bell = FALSE] EXCEPT !.rsp = "None", !.tag = NoOne]
  BY DEF Received, Rung
<1>2. /\ y \in Chan /\ y.owner = x.owner /\ y.waiters = x.waiters /\ y.tag = NoOne /\ y.req = x.req
      /\ y.rsp = "None" /\ y.bell = FALSE
  BY <1>1 DEF Chan
<1>3. x.req = NoMsg
  BY DEF ChanOK
<1>4. ChanOK(y)
  BY <1>2, <1>3 DEF ChanOK, NoMsg
<1> QED BY <1>2, <1>3, <1>4

(* The channel is given back *)
LEMMA ReleasedOK ==
    ASSUME NEW x \in Chan, ChanOK(x), x.tag \in {NoOne, Other}
    PROVE  LET y == Released(x) IN
           /\ y \in Chan /\ ChanOK(y) /\ y.owner = NoOne /\ y.waiters = x.waiters
           /\ y.tag = x.tag /\ y.rsp = x.rsp
<1> DEFINE y == Released(x)
<1>1. y = [x EXCEPT !.owner = NoOne]
  BY DEF Released
<1>2. /\ y \in Chan /\ y.owner = NoOne /\ y.waiters = x.waiters /\ y.tag = x.tag /\ y.req = x.req
      /\ y.rsp = x.rsp /\ y.bell = x.bell
  BY <1>1 DEF Chan
<1>3. ~Queued(y.waiters, NoOne)
  <2>1. x.waiters \in Seq(Users)
    BY DEF Chan
  <2> QED BY <1>2, <2>1, Names DEF Queued
<1>4. ChanOK(y)
  BY <1>2, <1>3 DEF ChanOK
<1> QED BY <1>2, <1>4

-----------------------------------------------------------------------------
(* The machine and its channels *)

Asks(s) == s.st \in {"WaitIpcResponse", "WaitFpIpcResponse", "WaitHsmIpcResponse"}
AwaitedBy(s, c) ==
    \/ s.st = "WaitIpcResponse"
    \/ s.st = "WaitFpIpcResponse" /\ c = "Fp"
    \/ s.st = "WaitHsmIpcResponse" /\ c = "Hsm"

HspRec == [st : {"Idle", "Asked", "Answered"}, bits : SUBSET Fns]
StopRec == [st : {"Idle", "WaitIpcChannels", "WaitIpcResponse", "WaitFpIpcResponse",
                  "WaitHsmIpcResponse", "WaitIoCancellationComplete", "FatalError"},
            pending : SUBSET Fns, deferred : SUBSET Fns, current : Fns \cup {NoFn},
            vfp : BOOLEAN, vhsm : BOOLEAN]
Debt == [u : Users, f : Fns]

(* How the machine in state s stands to channel c, whose record is x and at *)
(* whose end the functions of F are enabled: at rest it is neither owner    *)
(* nor waiter; while it waits for channels it is one of them, with nothing  *)
(* sent; while it asks it owns the channel, and what it has sent is the     *)
(* disable of the current function, which is still under way or has taken   *)
(* effect.                                                                  *)
Stands(c, x, s, F) ==
    /\ ChanOK(x)
    /\ s.st = "Idle" => x.owner # "Stop"
    /\ s.st = "WaitIpcChannels" =>
          x.tag # "Stop" /\ (x.owner = "Stop" \/ Queued(x.waiters, "Stop"))
    /\ s.st # "WaitIpcChannels" => ~Queued(x.waiters, "Stop")
    /\ Asks(s) => x.owner = "Stop"
    /\ Asks(s) /\ AwaitedBy(s, c) =>
          /\ x.tag = "Stop"
          /\ x.req = [op |-> "Disable", f |-> s.current] \/ (x.bell /\ s.current \notin F)
    /\ Asks(s) /\ ~AwaitedBy(s, c) => x.tag = NoOne /\ s.current \notin F
    /\ s.st = "WaitIoCancellationComplete" => x.owner = "Stop" /\ x.tag # "Stop"

ShapeOK ==
    /\ ch \in [Channels -> Chan] /\ on \in [Channels -> SUBSET Fns]
    /\ owed \subseteq Debt /\ pipe \in Seq(Debt)
    /\ hsp \in HspRec /\ stop \in StopRec

(* What the machine in state s has to do, and what HSP knows *)
RestOK(s, h) ==
    /\ s.st = "Idle" => s.pending = {} /\ s.deferred = {}
    /\ s.st = "WaitIoCancellationComplete" => s.pending = {}
    /\ Asks(s) => s.current \in Fns
    /\ s.st # "Idle" => h.st = "Asked"

MachineInv ==
    /\ ShapeOK /\ RestOK(stop, hsp)
    /\ \A c \in Channels : Stands(c, ch[c], stop, on[c])

LEMMA LowestIn ==
    ASSUME NEW S, S \subseteq Fns, S # {}
    PROVE  Lowest(S) \in S
<1> DEFINE R == OpToRel(<, Nat)
<1>0. S \subseteq Nat
  BY Names DEF Fns
<1>1. PICK x \in S : \A y \in S : ~(<<y, x>> \in R)
  BY <1>0, WFMin, NatLessThanWellFounded
<1>2. \A y \in S : ~(y < x)
  BY <1>0, <1>1 DEF OpToRel
<1>3. \A y \in S : x <= y
  BY <1>0, <1>2
<1> QED
  BY <1>3 DEF Lowest

(* What stop_interface_loop does: ask for the next function, wait or answer *)
LoopAsks(x, k) ==
    LET f == stop'.current IN
    /\ f \in k.pending /\ f \in Fns /\ stop'.st = "WaitIpcResponse"
    /\ stop'.pending = k.pending \ {f} /\ stop'.deferred = k.deferred /\ hsp' = hsp
    /\ \A c \in Channels : /\ ch'[c].owner = "Stop" /\ ch'[c].tag = "Stop"
                           /\ ch'[c].req = [op |-> "Disable", f |-> f]
LoopWaits(x, k) ==
    /\ k.pending = {} /\ ch' = x /\ hsp' = hsp
    /\ stop'.st = "WaitIoCancellationComplete" /\ stop'.pending = {} /\ stop'.deferred = k.deferred
LoopAnswers(x, k) ==
    /\ k.pending = {} /\ k.deferred = {} /\ hsp'.st = "Answered" /\ hsp'.bits = hsp.bits
    /\ stop'.st = "Idle" /\ stop'.pending = {} /\ stop'.deferred = {}
    /\ \A c \in Channels : ch'[c].owner = NoOne /\ ch'[c].tag # "Stop"

(* or panic, because HSP takes no answer or a channel is busy *)
LoopPanics(x, k) ==
    /\ stop'.st = "FatalError" /\ hsp' = hsp
    /\ (HspFull /\ stop'.current = NoFn) \/ \E c \in Channels : k.pending # {} /\ x[c].tag = Other

Owned(x) == \A c \in Channels : x[c].owner = "Stop" /\ x[c].tag # "Stop"

LEMMA LoopCases ==
    ASSUME NEW x \in [Channels -> Chan], \A c \in Channels : ChanOK(x[c]), Owned(x),
           NEW k \in StopRec, hsp \in HspRec, hsp.st = "Asked", StopLoop(x, k)
    PROVE  /\ ch' \in [Channels -> Chan] /\ stop' \in StopRec /\ hsp' \in HspRec
           /\ \A c \in Channels : ChanOK(ch'[c]) /\ ~Queued(ch'[c].waiters, "Stop")
           /\ LoopAsks(x, k) \/ LoopWaits(x, k) \/ LoopAnswers(x, k) \/ LoopPanics(x, k)
<1>0. \A c \in Channels : /\ x[c].tag \in {NoOne, Other} /\ x[c].owner = "Stop" /\ x[c] \in Chan
                          /\ ChanOK(x[c]) /\ ~Queued(x[c].waiters, "Stop")
  BY DEF Owned, ChanOK
<1>1. CASE k.pending # {} /\ \A c \in Channels : x[c].tag = NoOne
  <2>1. PICK f : f = Lowest(k.pending)
    OBVIOUS
  <2>2. f \in k.pending /\ f \in Fns
    BY <1>1, <2>1, LowestIn DEF StopRec
  <2>3. /\ ch' = [c \in Channels |-> Sent(x[c], "Stop", [op |-> "Disable", f |-> f])]
        /\ stop' = [k EXCEPT !.st = "WaitIpcResponse", !.current = f, !.pending = @ \ {f}]
        /\ hsp' = hsp
    BY <1>0, <1>1, <2>1 DEF StopLoop
  <2>4. /\ stop' \in StopRec /\ stop'.current = f /\ stop'.st = "WaitIpcResponse"
        /\ stop'.pending = k.pending \ {f} /\ stop'.deferred = k.deferred
    BY <2>2, <2>3 DEF StopRec
  <2>5. PICK m : m = [op |-> "Disable", f |-> f]
    OBVIOUS
  <2>6. m \in Msg /\ m.op = "Disable"
    BY <2>2, <2>5 DEF Msg
  <2>7. ASSUME NEW c \in Channels
        PROVE  /\ ch'[c] \in Chan /\ ChanOK(ch'[c]) /\ ch'[c].owner = "Stop"
               /\ ch'[c].waiters = x[c].waiters /\ ch'[c].tag = "Stop" /\ ch'[c].req = m
    <3>1. ch'[c] = Sent(x[c], "Stop", m)
      BY <2>3, <2>5
    <3> QED BY <1>0, <1>1, <2>6, <3>1, Names, SentOK
  <2>8. ch' \in [Channels -> Chan]
    BY <2>3, <2>7
  <2>9. LoopAsks(x, k)
    BY <2>2, <2>3, <2>4, <2>5, <2>7 DEF LoopAsks
  <2> QED BY <1>0, <2>3, <2>4, <2>7, <2>8, <2>9
<1>2. CASE k.pending = {} /\ k.deferred # {}
  <2>1. /\ stop' = [k EXCEPT !.st = "WaitIoCancellationComplete", !.current = NoFn]
        /\ ch' = x /\ hsp' = hsp
    BY <1>2 DEF StopLoop
  <2>2. /\ stop' \in StopRec /\ stop'.st = "WaitIoCancellationComplete"
        /\ stop'.pending = {} /\ stop'.deferred = k.deferred
    BY <1>2, <2>1 DEF StopRec
  <2>3. LoopWaits(x, k)
    BY <1>2, <2>1, <2>2 DEF LoopWaits
  <2> QED BY <1>0, <2>1, <2>2, <2>3
<1>3. CASE k.pending = {} /\ k.deferred = {} /\ hsp' # hsp
  <2>1. /\ hsp' = [hsp EXCEPT !.st = "Answered"]
        /\ ch' = [c \in Channels |-> Released(x[c])]
        /\ stop' = [k EXCEPT !.st = "Idle", !.current = NoFn]
    BY <1>3 DEF StopLoop, Respond
  <2>2. /\ stop' \in StopRec /\ stop'.st = "Idle" /\ stop'.pending = {} /\ stop'.deferred = {}
    BY <1>3, <2>1 DEF StopRec
  <2>3. hsp' \in HspRec /\ hsp'.st = "Answered" /\ hsp'.bits = hsp.bits
    BY <2>1 DEF HspRec
  <2>4. ASSUME NEW c \in Channels
        PROVE  /\ ch'[c] \in Chan /\ ChanOK(ch'[c]) /\ ch'[c].owner = NoOne /\ ch'[c].tag = x[c].tag
               /\ ch'[c].waiters = x[c].waiters
    <3>1. ch'[c] = Released(x[c])
      BY <2>1
    <3> QED BY <1>0, <3>1, ReleasedOK
  <2>5. ch' \in [Channels -> Chan]
    BY <2>1, <2>4
  <2>6. LoopAnswers(x, k)
    BY <1>0, <1>3, <2>2, <2>3, <2>4, Names DEF LoopAnswers
  <2> QED BY <1>0, <2>2, <2>3, <2>4, <2>5, <2>6
<1>4. CASE k.pending = {} /\ k.deferred = {} /\ hsp' = hsp
  <2>0. hsp.st # "Answered"
    OBVIOUS
  <2>1. HspFull /\ stop' = [k EXCEPT !.st = "FatalError", !.current = NoFn] /\ ch' = x
    BY <1>4, <2>0 DEF StopLoop, Respond, HspRec
  <2>2. stop' \in StopRec /\ stop'.st = "FatalError" /\ stop'.current = NoFn
    BY <2>1 DEF StopRec
  <2>3. LoopPanics(x, k)
    BY <1>4, <2>1, <2>2 DEF LoopPanics
  <2> QED BY <1>0, <1>4, <2>1, <2>2, <2>3
<1>5. CASE k.pending # {} /\ \E c \in Channels : x[c].tag # NoOne
  <2>1. PICK f : f = Lowest(k.pending)
    OBVIOUS
  <2>2. f \in k.pending /\ f \in Fns
    BY <1>5, <2>1, LowestIn DEF StopRec
  <2>3. PICK m : m = [op |-> "Disable", f |-> f]
    OBVIOUS
  <2>4. /\ ch' = [x EXCEPT !["Fp"] = Sent(@, "Stop", m)] /\ hsp' = hsp
        /\ stop' = [k EXCEPT !.st = "FatalError", !.current = f, !.pending = @ \ {f}]
    BY <1>5, <2>1, <2>3 DEF StopLoop
  <2>5. m \in Msg /\ m.op = "Disable" /\ "Fp" \in Channels
    BY <2>2, <2>3 DEF Msg, Channels
  <2>6. stop' \in StopRec /\ stop'.st = "FatalError"
    BY <2>2, <2>4 DEF StopRec
  <2>7. PICK y : y = Sent(x["Fp"], "Stop", m)
    OBVIOUS
  <2>8. y \in Chan /\ ChanOK(y) /\ y.waiters = x["Fp"].waiters
    <3>1. CASE x["Fp"].tag = NoOne
      BY <1>0, <2>5, <2>7, <3>1, Names, SentOK
    <3>2. CASE x["Fp"].tag # NoOne
      BY <1>0, <2>5, <2>7, <3>2 DEF Sent
    <3> QED BY <3>1, <3>2
  <2>9. /\ ch' \in [Channels -> Chan] /\ ch'["Fp"] = y
        /\ \A c \in Channels \ {"Fp"} : ch'[c] = x[c]
    BY <2>4, <2>5, <2>7, <2>8
  <2>10. \A c \in Channels : ChanOK(ch'[c]) /\ ~Queued(ch'[c].waiters, "Stop")
    BY <1>0, <2>5, <2>8, <2>9
  <2>11. LoopPanics(x, k)
    BY <1>0, <1>5, <2>4, <2>6 DEF LoopPanics
  <2> QED BY <2>4, <2>6, <2>9, <2>10, <2>11
<1> QED BY <1>1, <1>2, <1>3, <1>4, <1>5

LEMMA LoopStands ==
    ASSUME NEW x \in [Channels -> Chan], \A c \in Channels : ChanOK(x[c]), Owned(x),
           NEW k \in StopRec, hsp \in HspRec, hsp.st = "Asked", StopLoop(x, k)
    PROVE  /\ RestOK(stop', hsp') /\ (Alive' \/ LoopPanics(x, k))
           /\ \A c \in Channels : Stands(c, ch'[c], stop', on'[c])
<1>1. /\ stop' \in StopRec /\ hsp' \in HspRec
      /\ \A c \in Channels : ChanOK(ch'[c]) /\ ~Queued(ch'[c].waiters, "Stop")
      /\ LoopAsks(x, k) \/ LoopWaits(x, k) \/ LoopAnswers(x, k) \/ LoopPanics(x, k)
  BY LoopCases
<1>2. CASE LoopAsks(x, k)
  <2>1. RestOK(stop', hsp') /\ Alive'
    BY <1>2 DEF LoopAsks, RestOK, Asks, Alive
  <2>2. ASSUME NEW c \in Channels PROVE Stands(c, ch'[c], stop', on'[c])
    BY <1>1, <1>2 DEF LoopAsks, Stands, Asks, AwaitedBy
  <2> QED BY <2>1, <2>2
<1>3. CASE LoopWaits(x, k)
  <2>1. RestOK(stop', hsp') /\ Alive'
    BY <1>3 DEF LoopWaits, RestOK, Asks, Alive
  <2>2. ASSUME NEW c \in Channels PROVE Stands(c, ch'[c], stop', on'[c])
    BY <1>1, <1>3 DEF LoopWaits, Stands, Asks, AwaitedBy, Owned
  <2> QED BY <2>1, <2>2
<1>4. CASE LoopAnswers(x, k)
  <2>1. RestOK(stop', hsp') /\ Alive'
    BY <1>4 DEF LoopAnswers, RestOK, Asks, Alive
  <2>2. ASSUME NEW c \in Channels PROVE Stands(c, ch'[c], stop', on'[c])
    BY <1>1, <1>4, Names DEF LoopAnswers, Stands, Asks, AwaitedBy
  <2> QED BY <2>1, <2>2
<1>5. CASE LoopPanics(x, k)
  <2>1. RestOK(stop', hsp')
    BY <1>5 DEF LoopPanics, RestOK, Asks
  <2>2. ASSUME NEW c \in Channels PROVE Stands(c, ch'[c], stop', on'[c])
    BY <1>1, <1>5 DEF LoopPanics, Stands, Asks, AwaitedBy
  <2> QED BY <1>5, <2>1, <2>2
<1> QED BY <1>1, <1>2, <1>3, <1>4, <1>5

-----------------------------------------------------------------------------
(* Every action keeps the machine and its channels in step, and a request   *)
(* of its own never makes it panic                                          *)

Excused == (HspFull /\ stop'.current = NoFn) \/ \E c \in Channels : LeftBehind(c)

LEMMA MachineInit == Init => MachineInv
<1> SUFFICES ASSUME Init PROVE MachineInv
  OBVIOUS
<1>1. /\ FreeChannel \in Chan /\ FreeChannel.owner = NoOne /\ FreeChannel.waiters = <<>>
      /\ FreeChannel.tag = NoOne /\ FreeChannel.req = NoMsg /\ FreeChannel.rsp = "None"
      /\ FreeChannel.bell = FALSE
  BY Names DEF FreeChannel, Chan, Msg, NoMsg
<1>2. ChanOK(FreeChannel) /\ ~Queued(FreeChannel.waiters, "Stop")
  BY <1>1 DEF ChanOK, NoneTwice, Queued, NoMsg
<1>3. /\ ch \in [Channels -> Chan] /\ on \in [Channels -> SUBSET Fns] /\ owed = {} /\ pipe = <<>>
      /\ \A c \in Channels : ch[c] = FreeChannel
  BY <1>1 DEF Init
<1>4. hsp \in HspRec /\ stop \in StopRec /\ stop.st = "Idle" /\ stop.pending = {} /\ stop.deferred = {}
  BY DEF Init, StopIdle, HspRec, StopRec
<1>5. ShapeOK
  BY <1>3, <1>4 DEF ShapeOK
<1>6. RestOK(stop, hsp)
  BY <1>4 DEF RestOK, Asks
<1>7. \A c \in Channels : Stands(c, ch[c], stop, on[c])
  BY <1>1, <1>2, <1>3, <1>4, Names DEF Stands, Asks
<1> QED BY <1>5, <1>6, <1>7 DEF MachineInv

(* A step on one channel *)
LEMMA OneChannel ==
    ASSUME MachineInv, NEW c \in Channels, NEW y \in Chan, Stands(c, y, stop, on[c]),
           ch' = [ch EXCEPT ![c] = y], UNCHANGED <<on, owed, pipe, hsp, stop>>
    PROVE  MachineInv' /\ (Alive => Alive')
<1>1. ch' \in [Channels -> Chan] /\ ch'[c] = y /\ \A d \in Channels \ {c} : ch'[d] = ch[d]
  BY DEF MachineInv, ShapeOK
<1>2. ShapeOK'
  BY <1>1 DEF MachineInv, ShapeOK
<1>3. RestOK(stop, hsp)'
  BY DEF MachineInv
<1>4. ASSUME NEW d \in Channels PROVE Stands(d, ch'[d], stop', on'[d])
  BY <1>1 DEF MachineInv
<1>5. \A d \in Channels : Stands(d, ch[d], stop, on[d])'
  BY <1>4 DEF Stands
<1> QED BY <1>2, <1>3, <1>5 DEF MachineInv, Alive

LEMMA HspAsksKeeps ==
    ASSUME MachineInv, NEW bits \in SUBSET Fns, HspAsks(bits)
    PROVE  MachineInv' /\ (Alive => Alive')
<1>1. stop' = stop /\ ch' = ch /\ on' = on /\ owed' = owed /\ pipe' = pipe
  BY DEF HspAsks, chanVars
<1>2. hsp' \in HspRec /\ hsp'.st = "Asked"
  BY DEF HspAsks, HspRec
<1>3. ShapeOK'
  BY <1>1, <1>2 DEF MachineInv, ShapeOK
<1>4. RestOK(stop, hsp)'
  BY <1>1, <1>2 DEF MachineInv, RestOK
<1>5. \A d \in Channels : Stands(d, ch[d], stop, on[d])'
  BY <1>1 DEF MachineInv
<1> QED BY <1>1, <1>3, <1>4, <1>5 DEF MachineInv, Alive

(* A step that ends in stop_interface_loop *)
LEMMA LoopKeeps ==
    ASSUME MachineInv, NEW x \in [Channels -> Chan], \A c \in Channels : ChanOK(x[c]), Owned(x),
           NEW k \in StopRec, hsp.st = "Asked", StopLoop(x, k),
           on' = on, owed' = owed, pipe' \in Seq(Debt)
    PROVE  MachineInv' /\ (Alive' \/ LoopPanics(x, k))
<1>0. hsp \in HspRec
  BY DEF MachineInv, ShapeOK
<1>1. ch' \in [Channels -> Chan] /\ stop' \in StopRec /\ hsp' \in HspRec
  BY <1>0, LoopCases
<1>2. /\ RestOK(stop', hsp') /\ (Alive' \/ LoopPanics(x, k))
      /\ \A c \in Channels : Stands(c, ch'[c], stop', on'[c])
  BY <1>0, LoopStands
<1>3. ShapeOK'
  BY <1>1 DEF MachineInv, ShapeOK
<1> QED BY <1>2, <1>3 DEF MachineInv

LEMMA RequestKeeps ==
    ASSUME MachineInv, OnStopInterfaceRequest
    PROVE  MachineInv' /\ (Alive => Alive' \/ Excused)
<1> DEFINE x == [c \in Channels |-> Acquired(ch[c], "Stop")]
           k == [stop EXCEPT !.pending = hsp.bits]
<1>0. /\ hsp.st = "Asked" /\ stop.st = "Idle" /\ on' = on /\ owed' = owed /\ pipe' = pipe
      /\ hsp \in HspRec /\ stop \in StopRec /\ pipe \in Seq(Debt)
  BY DEF OnStopInterfaceRequest, stopFrame, MachineInv, ShapeOK
<1>1. ASSUME NEW c \in Channels
      PROVE  /\ x[c] \in Chan /\ ChanOK(x[c]) /\ x[c].tag # "Stop"
             /\ x[c].owner = "Stop" \/ Queued(x[c].waiters, "Stop")
             /\ x[c].owner = "Stop" => ch[c].tag = x[c].tag /\ ch[c].owner = NoOne
  <2>1. /\ ch[c] \in Chan /\ ChanOK(ch[c]) /\ ch[c].owner # "Stop" /\ ~Queued(ch[c].waiters, "Stop")
        /\ ch[c].tag # "Stop"
    BY <1>0, Names DEF MachineInv, ShapeOK, Stands, ChanOK
  <2>2. PICK y : y = Acquired(ch[c], "Stop")
    OBVIOUS
  <2>3. x[c] = y
    BY <2>2
  <2>4. /\ y \in Chan /\ ChanOK(y) /\ y.tag = ch[c].tag
        /\ \/ y.owner = "Stop" /\ ch[c].owner = NoOne
           \/ y.owner # "Stop" /\ Queued(y.waiters, "Stop")
    BY <2>1, <2>2, Names, AcquiredOK
  <2> QED BY <2>1, <2>3, <2>4
<1>2. k \in StopRec /\ k.st = stop.st /\ k.pending = hsp.bits
  BY <1>0 DEF StopRec, HspRec
<1>3. x \in [Channels -> Chan]
  BY <1>1
<1>4. CASE Both(x)
  <2>1. Owned(x)
    BY <1>1, <1>4 DEF Owned, Both
  <2>2. StopLoop(x, k)
    BY <1>4 DEF OnStopInterfaceRequest
  <2>3. LoopPanics(x, k) => Excused
    BY <1>1, <1>4, Names DEF LoopPanics, Excused, Both, LeftBehind
  <2> HIDE DEF x, k
  <2> QED BY <1>0, <1>1, <1>2, <1>3, <2>1, <2>2, <2>3, LoopKeeps
<1>5. CASE ~Both(x)
  <2>1. ch' = x /\ stop' = [k EXCEPT !.st = "WaitIpcChannels"] /\ hsp' = hsp
    BY <1>5 DEF OnStopInterfaceRequest
  <2> HIDE DEF x, k
  <2>2. stop' \in StopRec /\ stop'.st = "WaitIpcChannels"
    BY <1>2, <2>1 DEF StopRec
  <2>3. ShapeOK'
    BY <1>0, <1>3, <2>1, <2>2 DEF MachineInv, ShapeOK
  <2>4. RestOK(stop, hsp)'
    BY <1>0, <2>1, <2>2 DEF RestOK, Asks
  <2>5. ASSUME NEW c \in Channels PROVE Stands(c, ch'[c], stop', on'[c])
    BY <1>1, <2>1, <2>2 DEF Stands, Asks
  <2> QED BY <2>2, <2>3, <2>4, <2>5 DEF MachineInv, Alive
<1> QED BY <1>4, <1>5

LEMMA ReadyKeeps ==
    ASSUME MachineInv, NEW c \in Channels, StopChannelReady(c)
    PROVE  MachineInv' /\ (Alive => Alive' \/ Excused)
<1> DEFINE x == [ch EXCEPT ![c] = Given(@)]
<1>0. /\ Granted(c, "Stop") /\ on' = on /\ owed' = owed /\ pipe' = pipe
      /\ hsp \in HspRec /\ stop \in StopRec /\ pipe \in Seq(Debt) /\ ch \in [Channels -> Chan]
      /\ \A d \in Channels : ch[d] \in Chan /\ ChanOK(ch[d])
  BY DEF StopChannelReady, stopFrame, MachineInv, ShapeOK, Stands
<1>1. PICK y : y = Given(ch[c])
  OBVIOUS
<1>2. /\ y \in Chan /\ ChanOK(y) /\ y.owner = "Stop" /\ y.tag = ch[c].tag /\ y.tag # "Stop"
      /\ ~Queued(y.waiters, "Stop") /\ Queued(ch[c].waiters, "Stop") /\ ch[c].owner = NoOne
  BY <1>0, <1>1, Names, GivenOK DEF Granted
<1>3. stop.st = "WaitIpcChannels" /\ hsp.st = "Asked"
  BY <1>2 DEF MachineInv, Stands, RestOK
<1>4. x \in [Channels -> Chan] /\ x[c] = y /\ \A d \in Channels \ {c} : x[d] = ch[d]
  BY <1>0, <1>1, <1>2
<1>5. \A d \in Channels : ChanOK(x[d]) /\ x[d].tag # "Stop" /\ x[d].tag = ch[d].tag
  <2>1. \A d \in Channels : ch[d].tag # "Stop"
    BY <1>3 DEF MachineInv, Stands
  <2> QED BY <1>0, <1>2, <1>4, <2>1
<1>6. CASE Both(x)
  <2>1. Owned(x)
    BY <1>5, <1>6 DEF Owned, Both
  <2>2. StopLoop(x, stop)
    BY <1>6 DEF StopChannelReady
  <2>3. ASSUME LoopPanics(x, stop) PROVE Excused
    <3>1. \A d \in Channels : ch[d].owner # Other
      BY <1>2, <1>4, <1>6, Names DEF Both
    <3> QED BY <1>5, <2>3, <3>1 DEF LoopPanics, Excused, LeftBehind
  <2> HIDE DEF x
  <2> QED BY <1>0, <1>3, <1>4, <1>5, <2>1, <2>2, <2>3, LoopKeeps
<1>7. CASE ~Both(x)
  <2>1. ch' = [ch EXCEPT ![c] = y] /\ stop' = stop /\ hsp' = hsp
    BY <1>1, <1>7 DEF StopChannelReady
  <2>2. Stands(c, y, stop, on[c])
    BY <1>2, <1>3, Names DEF Stands, Asks
  <2> HIDE DEF x
  <2> QED BY <1>0, <1>2, <2>1, <2>2, OneChannel
<1> QED BY <1>6, <1>7

(* An answer for the machine: the current function is off at that end *)
LEMMA AnswerTaken ==
    ASSUME MachineInv, NEW c \in Channels, ch[c].bell, ch[c].tag = "Stop", Awaited(c)
    PROVE  LET x == [ch EXCEPT ![c] = Received(Rung(@))] IN
           /\ x \in [Channels -> Chan] /\ \A d \in Channels : ChanOK(x[d]) /\ x[d].owner = "Stop"
           /\ \A d \in Channels : ~Queued(x[d].waiters, "Stop")
           /\ x[c].tag = NoOne /\ \A d \in Channels \ {c} : x[d] = ch[d]
           /\ stop.current \in Fns /\ stop.current \notin on[c] /\ hsp.st = "Asked"
           /\ Asks(stop) /\ AwaitedBy(stop, c)
<1> DEFINE x == [ch EXCEPT ![c] = Received(Rung(@))]
<1>0. /\ ch \in [Channels -> Chan] /\ Asks(stop) /\ AwaitedBy(stop, c)
      /\ \A d \in Channels : ch[d] \in Chan /\ Stands(d, ch[d], stop, on[d])
  BY DEF MachineInv, ShapeOK, Awaited, Asks, AwaitedBy
<1>1. PICK y : y = Received(Rung(ch[c]))
  OBVIOUS
<1>2. /\ y \in Chan /\ ChanOK(y) /\ y.owner = ch[c].owner /\ y.waiters = ch[c].waiters
      /\ y.tag = NoOne
  BY <1>0, <1>1, ReceivedOK DEF Stands
<1>3. x \in [Channels -> Chan] /\ x[c] = y /\ \A d \in Channels \ {c} : x[d] = ch[d]
  BY <1>0, <1>1, <1>2
<1>4. \A d \in Channels : ChanOK(ch[d]) /\ ch[d].owner = "Stop" /\ ~Queued(ch[d].waiters, "Stop")
  BY <1>0 DEF Stands, Asks
<1>5. stop.current \in Fns /\ hsp.st = "Asked"
  BY <1>0 DEF MachineInv, RestOK, Asks
<1>6. stop.current \notin on[c]
  <2>1. ch[c].req = NoMsg
    BY <1>4 DEF ChanOK
  <2>2. ch[c].req # [op |-> "Disable", f |-> stop.current]
    BY <2>1 DEF NoMsg
  <2> QED BY <1>0, <2>2 DEF Stands
<1> HIDE DEF x
<1>7. \A d \in Channels : ChanOK(x[d]) /\ x[d].owner = "Stop" /\ ~Queued(x[d].waiters, "Stop")
  BY <1>2, <1>3, <1>4
<1> QED BY <1>0, <1>2, <1>3, <1>5, <1>6, <1>7 DEF x

LEMMA AnsweredKeeps ==
    ASSUME MachineInv, NEW c \in Channels, NEW valid \in BOOLEAN, StopAnswered(c, valid)
    PROVE  MachineInv' /\ (Alive => Alive' \/ Excused)
<1> DEFINE x == [ch EXCEPT ![c] = Received(Rung(@))]
           k == [stop EXCEPT
                   !.vfp = IF c = "Fp" THEN valid ELSE @,
                   !.vhsm = IF c = "Hsm" THEN valid ELSE @,
                   !.deferred = IF c = "Hsm" /\ valid /\ ch[c].rsp = "Pending"
                                  THEN @ \cup {stop.current} ELSE @]
<1>0. /\ ch[c].bell /\ ch[c].tag = "Stop" /\ Awaited(c) /\ on' = on /\ owed' = owed /\ pipe' = pipe
      /\ stop \in StopRec /\ hsp \in HspRec /\ pipe \in Seq(Debt)
      /\ \A d \in Channels : Stands(d, ch[d], stop, on[d])
  BY DEF StopAnswered, stopFrame, MachineInv, ShapeOK
<1>1. /\ x \in [Channels -> Chan] /\ \A d \in Channels : ChanOK(x[d]) /\ x[d].owner = "Stop"
      /\ \A d \in Channels : ~Queued(x[d].waiters, "Stop")
      /\ x[c].tag = NoOne /\ \A d \in Channels \ {c} : x[d] = ch[d]
      /\ stop.current \in Fns /\ stop.current \notin on[c] /\ hsp.st = "Asked"
      /\ Asks(stop) /\ AwaitedBy(stop, c)
  BY <1>0, AnswerTaken
<1>2. k \in StopRec /\ k.current = stop.current /\ k.st = stop.st /\ k.pending = stop.pending
  BY <1>0, <1>1 DEF StopRec
<1>3. CASE stop.st = "WaitIpcResponse"
  <2>1. /\ stop' = [k EXCEPT !.st = IF c = "Fp" THEN "WaitHsmIpcResponse" ELSE "WaitFpIpcResponse"]
        /\ ch' = x /\ hsp' = hsp
    BY <1>3 DEF StopAnswered
  <2> HIDE DEF x, k
  <2>2. /\ stop' \in StopRec /\ stop'.current = stop.current
        /\ stop'.st = IF c = "Fp" THEN "WaitHsmIpcResponse" ELSE "WaitFpIpcResponse"
    BY <1>2, <2>1 DEF StopRec
  <2>3. ShapeOK'
    BY <1>0, <1>1, <2>1, <2>2 DEF MachineInv, ShapeOK
  <2>4. RestOK(stop, hsp)'
    BY <1>1, <2>1, <2>2 DEF RestOK, Asks
  <2>5. ASSUME NEW d \in Channels PROVE Stands(d, ch'[d], stop', on'[d])
    <3>1. CASE d = c
      BY <1>0, <1>1, <2>1, <2>2, <3>1 DEF Stands, Asks, AwaitedBy, Channels
    <3>2. CASE d # c
      <4>1. ch'[d] = ch[d] /\ AwaitedBy(stop', d) /\ AwaitedBy(stop, d) /\ Asks(stop')
        BY <1>1, <1>3, <2>1, <2>2, <3>2 DEF AwaitedBy, Channels, Asks
      <4> QED BY <1>0, <1>1, <1>3, <2>2, <4>1 DEF Stands, Asks
    <3> QED BY <3>1, <3>2
  <2> QED BY <2>2, <2>3, <2>4, <2>5 DEF MachineInv, Alive
<1>4. CASE stop.st # "WaitIpcResponse"
  <2> DEFINE l == [k EXCEPT !.pending = IF k.vfp /\ k.vhsm THEN @ ELSE @ \cup {k.current},
                            !.vfp = FALSE, !.vhsm = FALSE]
  <2>1. StopLoop(x, l)
    BY <1>4 DEF StopAnswered, Complete
  <2> HIDE DEF x, k
  <2>2. l \in StopRec
    BY <1>1, <1>2 DEF StopRec
  <2>3. ASSUME NEW d \in Channels, d # c PROVE x[d].tag = NoOne
    <3>1. x[d] = ch[d] /\ ~AwaitedBy(stop, d)
      BY <1>1, <1>4, <2>3 DEF AwaitedBy, Asks, Channels
    <3> QED BY <1>0, <1>1, <3>1 DEF Stands
  <2>4. Owned(x) /\ \A d \in Channels : x[d].tag = NoOne
    BY <1>1, <2>3, Names DEF Owned
  <2>5. LoopPanics(x, l) => Excused
    BY <2>4, Names DEF LoopPanics, Excused
  <2> HIDE DEF l
  <2> QED BY <1>0, <1>1, <2>1, <2>2, <2>4, <2>5, LoopKeeps
<1> QED BY <1>3, <1>4

LEMMA DeferredKeeps ==
    ASSUME MachineInv, StopDeferred
    PROVE  MachineInv' /\ (Alive => Alive' \/ Excused)
<1> DEFINE k == [stop EXCEPT !.deferred = @ \ {Head(pipe).f}]
<1>0. /\ on' = on /\ owed' = owed /\ stop \in StopRec /\ hsp \in HspRec /\ pipe \in Seq(Debt)
      /\ pipe # <<>> /\ RestOK(stop, hsp) /\ ch \in [Channels -> Chan]
      /\ \A d \in Channels : Stands(d, ch[d], stop, on[d])
  BY DEF StopDeferred, stopFrame, MachineInv, ShapeOK
<1>1. k \in StopRec /\ k.current = stop.current /\ k.st = stop.st /\ k.pending = stop.pending
  BY <1>0 DEF StopRec
<1>2. Tail(pipe) \in Seq(Debt)
  BY <1>0
<1>3. CASE stop.st \in {"Idle", "WaitIpcChannels"}
  <2>1. UNCHANGED <<pipe, stop, ch, hsp>>
    BY <1>3 DEF StopDeferred
  <2> QED BY <1>0, <2>1 DEF MachineInv, ShapeOK, Alive
<1>4. CASE stop.st = "WaitIoCancellationComplete"
  <2>1. pipe' = Tail(pipe) /\ StopLoop(ch, k)
    BY <1>4 DEF StopDeferred
  <2>2. hsp.st = "Asked"
    BY <1>0, <1>4 DEF RestOK
  <2>3. Owned(ch) /\ \A c \in Channels : ChanOK(ch[c])
    BY <1>0, <1>4 DEF Owned, Stands
  <2>4. LoopPanics(ch, k) => Excused
    BY <1>0, <1>1, <1>4 DEF LoopPanics, Excused, RestOK
  <2> HIDE DEF k
  <2> QED BY <1>0, <1>1, <1>2, <2>1, <2>2, <2>3, <2>4, LoopKeeps
<1>5. CASE stop.st \notin {"Idle", "WaitIpcChannels", "WaitIoCancellationComplete"}
  <2>1. pipe' = Tail(pipe) /\ stop' = k /\ ch' = ch /\ hsp' = hsp
    BY <1>5 DEF StopDeferred
  <2> HIDE DEF k
  <2>2. ShapeOK'
    BY <1>0, <1>1, <1>2, <2>1 DEF MachineInv, ShapeOK
  <2>3. RestOK(stop, hsp)'
    BY <1>0, <1>1, <1>5, <2>1 DEF RestOK, Asks
  <2>4. ASSUME NEW d \in Channels PROVE Stands(d, ch'[d], stop', on'[d])
    BY <1>0, <1>1, <2>1 DEF Stands, Asks, AwaitedBy
  <2> QED BY <1>1, <2>1, <2>2, <2>3, <2>4 DEF MachineInv, Alive
<1> QED BY <1>3, <1>4, <1>5

LEMMA TimeoutKeeps ==
    ASSUME MachineInv, StopTimeout
    PROVE  MachineInv'
<1>1. ch' = ch /\ on' = on /\ owed' = owed /\ pipe' = pipe /\ hsp' = hsp /\ Asks(stop)
  BY DEF StopTimeout, chanVars, Asks
<1>2. stop' \in StopRec /\ stop'.st = "FatalError"
  BY DEF StopTimeout, MachineInv, ShapeOK, StopRec
<1>3. ShapeOK'
  BY <1>1, <1>2 DEF MachineInv, ShapeOK
<1>4. RestOK(stop, hsp)'
  BY <1>1, <1>2 DEF MachineInv, RestOK, Asks
<1>5. ASSUME NEW c \in Channels PROVE Stands(c, ch'[c], stop', on'[c])
  BY <1>1, <1>2 DEF MachineInv, Stands, Asks
<1> QED BY <1>3, <1>4, <1>5 DEF MachineInv

(* The other user sends on a channel that it owns, or is refused *)
LEMMA OtherSendsKeeps ==
    ASSUME MachineInv, NEW c \in Channels, NEW x \in Chan, ChanOK(x), x.owner = Other,
           x.tag \in {NoOne, Other},
           stop.st # "WaitIpcChannels" => ~Queued(x.waiters, "Stop"),
           stop.st = "WaitIpcChannels" => Queued(x.waiters, "Stop"),
           ~Asks(stop), stop.st # "WaitIoCancellationComplete",
           OtherSends(x, c), UNCHANGED otherFrame
    PROVE  MachineInv' /\ (Alive => Alive')
<1>1. PICK m : m = [op |-> "Create", f |-> 0]
  OBVIOUS
<1>2. m \in Msg /\ m.op = "Create"
  BY <1>1, Names DEF Msg, Fns
<1>3. PICK y : y = IF x.tag = NoOne THEN Sent(x, Other, m) ELSE Released(x)
  OBVIOUS
<1>4. y \in Chan /\ ChanOK(y) /\ y.owner \in {Other, NoOne} /\ y.waiters = x.waiters /\ y.tag = Other
  <2>1. CASE x.tag = NoOne
    BY <1>2, <1>3, <2>1, Names, SentOK
  <2>2. CASE x.tag # NoOne
    BY <1>3, <2>2, Names, ReleasedOK
  <2> QED BY <2>1, <2>2
<1>5. Stands(c, y, stop, on[c])
  BY <1>4, Names DEF Stands
<1>6. ch' = [ch EXCEPT ![c] = y] /\ UNCHANGED <<on, owed, pipe, hsp, stop>>
  BY <1>1, <1>3 DEF OtherSends, otherFrame
<1> QED BY <1>4, <1>5, <1>6, OneChannel

LEMMA OtherStartsKeeps ==
    ASSUME MachineInv, NEW c \in Channels, OtherStarts(c)
    PROVE  MachineInv' /\ (Alive => Alive')
<1>0. /\ ch[c] \in Chan /\ Stands(c, ch[c], stop, on[c]) /\ ChanOK(ch[c]) /\ ch[c].owner # Other
      /\ ch[c].waiters \in Seq(Users)
  BY DEF MachineInv, ShapeOK, OtherStarts, Holds, Stands, Chan
<1>1. ~Queued(ch[c].waiters, Other)
  BY <1>0 DEF OtherStarts, Waits, Queued
<1>2. PICK y : y = Acquired(ch[c], Other)
  OBVIOUS
<1>3. /\ y \in Chan /\ ChanOK(y)
      /\ y.tag = ch[c].tag /\ y.req = ch[c].req /\ y.bell = ch[c].bell
      /\ \/ /\ ch[c].owner = NoOne /\ y.owner = Other /\ y.tag \in {NoOne, Other}
            /\ ~Queued(ch[c].waiters, "Stop") /\ ~Queued(y.waiters, "Stop")
         \/ /\ y.owner = ch[c].owner /\ y.owner # Other
            /\ Queued(y.waiters, "Stop") <=> Queued(ch[c].waiters, "Stop")
  <2>1. /\ y \in Chan /\ ChanOK(y)
        /\ y.tag = ch[c].tag /\ y.req = ch[c].req /\ y.rsp = ch[c].rsp /\ y.bell = ch[c].bell
        /\ \/ /\ ch[c].owner = NoOne /\ y.owner = Other /\ y.tag \in {NoOne, Other}
              /\ \A v : ~Queued(ch[c].waiters, v) /\ ~Queued(y.waiters, v)
           \/ /\ y.owner = ch[c].owner /\ y.owner # Other
              /\ \A v : Queued(y.waiters, v) <=> Queued(ch[c].waiters, v) \/ v = Other
    <3>1. PICK x \in Chan : x = ch[c]
      BY <1>0
    <3>2. PICK u \in Users : u = Other
      BY Names
    <3>3. ChanOK(x) /\ x.owner # u /\ ~Queued(x.waiters, u) /\ y = Acquired(x, u)
      BY <1>0, <1>1, <1>2, <3>1, <3>2
    <3>4. /\ y \in Chan /\ ChanOK(y)
          /\ y.tag = x.tag /\ y.req = x.req /\ y.rsp = x.rsp /\ y.bell = x.bell
          /\ \/ /\ x.owner = NoOne /\ y.owner = u /\ y.tag \in {NoOne, Other}
                /\ \A v : ~Queued(x.waiters, v) /\ ~Queued(y.waiters, v)
             \/ /\ y.owner = x.owner /\ y.owner # u
                /\ \A v : Queued(y.waiters, v) <=> Queued(x.waiters, v) \/ v = u
      BY <3>3, AcquiredOK
    <3> QED BY <3>1, <3>2, <3>4
  <2> QED BY <2>1, Names
<1>4. CASE y.owner = Other
  <2>1. OtherSends(y, c) /\ UNCHANGED otherFrame
    BY <1>2, <1>4 DEF OtherStarts
  <2>2. ~Asks(stop) /\ stop.st \notin {"WaitIoCancellationComplete", "WaitIpcChannels"}
    BY <1>0, <1>3, <1>4, Names DEF Stands
  <2> QED BY <1>3, <1>4, <2>1, <2>2, OtherSendsKeeps
<1>5. CASE y.owner # Other
  <2>1. ch' = [ch EXCEPT ![c] = y] /\ UNCHANGED <<on, owed, pipe, hsp, stop>>
    BY <1>2, <1>5 DEF OtherStarts, otherFrame
  <2>2. Stands(c, y, stop, on[c])
    BY <1>0, <1>3, <1>5 DEF Stands
  <2> QED BY <1>3, <2>1, <2>2, OneChannel
<1> QED BY <1>4, <1>5

LEMMA OtherReadyKeeps ==
    ASSUME MachineInv, NEW c \in Channels, OtherReady(c)
    PROVE  MachineInv' /\ (Alive => Alive')
<1>0. /\ ch[c] \in Chan /\ Stands(c, ch[c], stop, on[c]) /\ ChanOK(ch[c]) /\ Granted(c, Other)
  BY DEF MachineInv, ShapeOK, OtherReady, Stands
<1>1. PICK y : y = Given(ch[c])
  OBVIOUS
<1>2. /\ y \in Chan /\ ChanOK(y) /\ y.owner = Other /\ y.tag \in {NoOne, Other}
      /\ Queued(y.waiters, "Stop") <=> Queued(ch[c].waiters, "Stop")
  BY <1>0, <1>1, Names, GivenOK DEF Granted
<1>3. OtherSends(y, c) /\ UNCHANGED otherFrame
  BY <1>1 DEF OtherReady
<1>4. /\ ~Asks(stop) /\ stop.st # "WaitIoCancellationComplete"
      /\ stop.st # "WaitIpcChannels" => ~Queued(y.waiters, "Stop")
      /\ stop.st = "WaitIpcChannels" => Queued(y.waiters, "Stop")
  BY <1>0, <1>2, Names DEF Stands, Granted
<1> QED BY <1>2, <1>3, <1>4, OtherSendsKeeps

LEMMA OtherAnsweredKeeps ==
    ASSUME MachineInv, NEW c \in Channels, OtherAnswered(c)
    PROVE  MachineInv' /\ (Alive => Alive')
<1>0. /\ ch[c] \in Chan /\ Stands(c, ch[c], stop, on[c]) /\ ChanOK(ch[c])
      /\ ch[c].bell /\ ch[c].tag = Other
  BY DEF MachineInv, ShapeOK, OtherAnswered, Stands
<1>1. CASE Holds(Other, c)
  <2>1. PICK y : y = Received(Rung(ch[c]))
    OBVIOUS
  <2>2. y \in Chan /\ ChanOK(y) /\ y.waiters = ch[c].waiters /\ y.tag = NoOne
    BY <1>0, <2>1, ReceivedOK
  <2>3. PICK z : z = Released(y)
    OBVIOUS
  <2>4. z \in Chan /\ ChanOK(z) /\ z.owner = NoOne /\ z.waiters = ch[c].waiters /\ z.tag = NoOne
    BY <2>2, <2>3, ReleasedOK
  <2>5. ch[c].owner = Other
    BY <1>1 DEF Holds
  <2>6. Stands(c, z, stop, on[c])
    BY <1>0, <2>4, <2>5, Names DEF Stands
  <2>7. ch' = [ch EXCEPT ![c] = z] /\ UNCHANGED <<on, owed, pipe, hsp, stop>>
    BY <1>1, <2>1, <2>3 DEF OtherAnswered, otherFrame
  <2> QED BY <2>4, <2>6, <2>7, OneChannel
<1>2. CASE ~Holds(Other, c)
  <2>1. PICK y : y = Rung(ch[c])
    OBVIOUS
  <2>2. /\ y \in Chan /\ y.owner = ch[c].owner /\ y.waiters = ch[c].waiters /\ y.tag = ch[c].tag
        /\ y.req = ch[c].req /\ y.rsp = ch[c].rsp /\ y.bell = FALSE
    BY <1>0, <2>1 DEF Rung, Chan
  <2>3. ChanOK(y)
    BY <1>0, <2>2 DEF ChanOK
  <2>4. Stands(c, y, stop, on[c])
    BY <1>0, <2>2, <2>3, Names DEF Stands
  <2>5. ch' = [ch EXCEPT ![c] = y] /\ UNCHANGED <<on, owed, pipe, hsp, stop>>
    BY <1>2, <2>1 DEF OtherAnswered, otherFrame
  <2> QED BY <2>2, <2>4, <2>5, OneChannel
<1> QED BY <1>1, <1>2

LEMMA OtherLeavesKeeps ==
    ASSUME MachineInv, NEW c \in Channels, OtherLeaves(c)
    PROVE  MachineInv' /\ (Alive => Alive')
<1>0. /\ ch[c] \in Chan /\ Stands(c, ch[c], stop, on[c]) /\ ChanOK(ch[c]) /\ ch[c].owner = Other
  BY DEF MachineInv, ShapeOK, OtherLeaves, Stands, Holds
<1>1. PICK z : z = Released(ch[c])
  OBVIOUS
<1>2. ch[c].tag \in {NoOne, Other}
  BY <1>0 DEF ChanOK
<1>3. z \in Chan /\ ChanOK(z) /\ z.owner = NoOne /\ z.waiters = ch[c].waiters /\ z.tag = ch[c].tag
  BY <1>0, <1>1, <1>2, ReleasedOK
<1>4. Stands(c, z, stop, on[c])
  BY <1>0, <1>2, <1>3, Names DEF Stands
<1>5. ch' = [ch EXCEPT ![c] = z] /\ UNCHANGED <<on, owed, pipe, hsp, stop>>
  BY <1>1 DEF OtherLeaves, otherFrame
<1> QED BY <1>3, <1>4, <1>5, OneChannel

(* A core takes a request and answers *)
LEMMA CoreAnswers ==
    ASSUME MachineInv, NEW c \in Channels, ch[c].req # NoMsg, NEW r \in {"Success", "Pending"},
           ch' = [ch EXCEPT ![c].req = NoMsg, ![c].rsp = r, ![c].bell = TRUE],
           on' = [on EXCEPT ![c] = Obeyed(@, ch[c].req)],
           owed' \subseteq Debt, UNCHANGED <<pipe, hsp, stop>>
    PROVE  /\ MachineInv' /\ (Alive => Alive')
           /\ \A d \in Channels : on'[d] \subseteq on[d]
           /\ \A d \in Channels \ {c} : ch'[d] = ch[d]
           /\ ch'[c].rsp = r /\ ch'[c].tag = ch[c].tag /\ ch[c].tag \in Users
           /\ ch[c].req.op = "Disable" => ch[c].tag = "Stop" /\ ch[c].req.f \notin on'[c]
<1>0. /\ ch \in [Channels -> Chan] /\ ch[c] \in Chan /\ Stands(c, ch[c], stop, on[c]) /\ ChanOK(ch[c])
      /\ on \in [Channels -> SUBSET Fns] /\ ch[c].req \in Msg
  BY DEF MachineInv, ShapeOK, Stands, Chan
<1>1. PICK y : y = [ch[c] EXCEPT !.req = NoMsg, !.rsp = r, !.bell = TRUE]
  OBVIOUS
<1>2. /\ y \in Chan /\ y.owner = ch[c].owner /\ y.waiters = ch[c].waiters /\ y.tag = ch[c].tag
      /\ y.req = NoMsg /\ y.rsp = r /\ y.bell = TRUE
  BY <1>0, <1>1 DEF Chan, Msg, NoMsg
<1>3. ch[c].tag # NoOne /\ ch[c].tag \in Users /\ ch[c].req.op \in {"None", "Disable", "Create"}
  BY <1>0 DEF ChanOK, Chan
<1>4. /\ Obeyed(on[c], ch[c].req) \subseteq on[c]
      /\ ch[c].req.op = "Disable" => ch[c].req.f \notin Obeyed(on[c], ch[c].req)
  BY <1>3 DEF Obeyed
<1>5. ChanOK(y)
  BY <1>0, <1>2, <1>3 DEF ChanOK, NoMsg
<1>6. /\ ch' \in [Channels -> Chan] /\ ch'[c] = y /\ \A d \in Channels \ {c} : ch'[d] = ch[d]
  BY <1>0, <1>1, <1>2
<1>7. /\ on' \in [Channels -> SUBSET Fns] /\ on'[c] = Obeyed(on[c], ch[c].req)
      /\ \A d \in Channels \ {c} : on'[d] = on[d]
  BY <1>0, <1>4
<1>8. Stands(c, y, stop, on'[c])
  <2>1. ch[c].bell = FALSE
    BY <1>0 DEF ChanOK, Chan
  <2>2. Asks(stop) => AwaitedBy(stop, c) /\ stop.current \notin on'[c]
    BY <1>0, <1>3, <1>4, <1>7, <2>1 DEF Stands
  <2> QED BY <1>0, <1>2, <1>3, <1>5, <2>2 DEF Stands
<1>9. ShapeOK'
  BY <1>6, <1>7 DEF MachineInv, ShapeOK
<1>10. \A d \in Channels : Stands(d, ch'[d], stop', on'[d])
  BY <1>6, <1>7, <1>8 DEF MachineInv
<1>11. MachineInv' /\ (Alive => Alive')
  BY <1>9, <1>10 DEF MachineInv, Alive
<1> QED BY <1>0, <1>2, <1>3, <1>4, <1>6, <1>7, <1>11 DEF ChanOK

(* Either of the two, with what the HSM core puts off *)
LEMMA CoresKeep ==
    ASSUME MachineInv, Fp \/ Hsm
    PROVE  /\ MachineInv' /\ (Alive => Alive') /\ UNCHANGED <<pipe, hsp, stop>>
           /\ \A d \in Channels : on'[d] \subseteq on[d]
           /\ \/ owed' = owed
              \/ \E f \in Fns : /\ owed' = owed \cup {[u |-> "Stop", f |-> f]}
                                /\ f \in on["Hsm"] /\ f \notin on'["Hsm"]
                                /\ ch["Hsm"].tag = "Stop" /\ ch'["Hsm"].tag = "Stop"
                                /\ ch["Hsm"].req.op = "Disable" /\ ch["Hsm"].req.f = f
                                /\ ch'["Hsm"].rsp = "Pending"
           /\ ch'["Hsm"].tag = ch["Hsm"].tag
           /\ ch["Hsm"].rsp = "Pending" => ch'["Hsm"].rsp = "Pending"
<1>0. owed \subseteq Debt /\ "Hsm" \in Channels /\ "Fp" \in Channels /\ on \in [Channels -> SUBSET Fns]
      /\ ChanOK(ch["Hsm"])
  BY DEF MachineInv, ShapeOK, Channels, Stands
<1>1. CASE Fp
  <2>1. /\ ch["Fp"].req # NoMsg /\ UNCHANGED <<owed, pipe, hsp, stop>>
        /\ ch' = [ch EXCEPT !["Fp"].req = NoMsg, !["Fp"].rsp = "Success", !["Fp"].bell = TRUE]
        /\ on' = [on EXCEPT !["Fp"] = Obeyed(@, ch["Fp"].req)]
    BY <1>1 DEF Fp, FpAnswers, Answered, localVars
  <2>2. /\ MachineInv' /\ (Alive => Alive')
        /\ \A d \in Channels : on'[d] \subseteq on[d]
        /\ \A d \in Channels \ {"Fp"} : ch'[d] = ch[d]
    BY <1>0, <2>1, CoreAnswers
  <2> QED BY <1>0, <2>1, <2>2
<1>2. CASE Hsm
  <2>1. /\ ch["Hsm"].req # NoMsg /\ UNCHANGED <<pipe, hsp, stop>>
        /\ on' = [on EXCEPT !["Hsm"] = Obeyed(@, ch["Hsm"].req)]
    BY <1>2 DEF Hsm, HsmAnswers, localVars
  <2>2. ch["Hsm"].rsp # "Pending"
    BY <1>0, <2>1 DEF ChanOK
  <2>3. CASE /\ ch' = [ch EXCEPT !["Hsm"].req = NoMsg, !["Hsm"].rsp = "Success",
                                 !["Hsm"].bell = TRUE]
             /\ owed' = owed
    <3>1. /\ MachineInv' /\ (Alive => Alive')
          /\ \A d \in Channels : on'[d] \subseteq on[d]
          /\ ch'["Hsm"].tag = ch["Hsm"].tag
      BY <1>0, <2>1, <2>3, CoreAnswers
    <3> QED BY <2>1, <2>2, <2>3, <3>1
  <2>4. CASE /\ ch["Hsm"].req.op \in {"Disable", "Migrate", "Reset", "Delete"}
             /\ ch["Hsm"].req.f \in on["Hsm"]
             /\ ch' = [ch EXCEPT !["Hsm"].req = NoMsg, !["Hsm"].rsp = "Pending",
                                 !["Hsm"].bell = TRUE]
             /\ owed' = owed \cup {[u |-> TagOf(ch["Hsm"]), f |-> ch["Hsm"].req.f]}
    <3>0. PICK f : f = ch["Hsm"].req.f
      OBVIOUS
    <3>1. /\ ch["Hsm"].req.op = "Disable" /\ ch["Hsm"].tag = "Stop"
          /\ TagOf(ch["Hsm"]) = "Stop"
      BY <1>0, <2>4 DEF ChanOK, TagOf
    <3>2. f \in Fns /\ owed' = owed \cup {[u |-> "Stop", f |-> f]}
      BY <1>0, <2>4, <3>0, <3>1
    <3>3. owed' \subseteq Debt
      BY <1>0, <3>2, Names DEF Debt
    <3>4. /\ MachineInv' /\ (Alive => Alive')
          /\ \A d \in Channels : on'[d] \subseteq on[d]
          /\ ch'["Hsm"].rsp = "Pending" /\ ch'["Hsm"].tag = ch["Hsm"].tag
          /\ ch["Hsm"].req.f \notin on'["Hsm"]
      BY <1>0, <2>1, <2>4, <3>1, <3>3, CoreAnswers
    <3> QED BY <2>1, <2>2, <2>4, <3>0, <3>1, <3>2, <3>4
  <2> QED BY <1>2, <2>3, <2>4 DEF Hsm, HsmAnswers, Answered
<1> QED BY <1>1, <1>2

LEMMA DrainedKeeps ==
    ASSUME MachineInv, NEW o \in owed, Drained(o)
    PROVE  MachineInv' /\ (Alive => Alive')
<1>1. /\ UNCHANGED <<ch, on, hsp, stop>> /\ owed' = owed \ {o} /\ pipe' \in {pipe, Append(pipe, o)}
  BY DEF Drained, IosDrained, localVars
<1>2. o \in Debt /\ pipe \in Seq(Debt)
  BY DEF MachineInv, ShapeOK
<1>3. pipe' \in Seq(Debt)
  BY <1>1, <1>2
<1> QED BY <1>1, <1>3 DEF MachineInv, ShapeOK, Alive

LEMMA IdleKeeps ==
    ASSUME MachineInv, Poll \/ NoSoftEvent \/ UNCHANGED vars
    PROVE  MachineInv' /\ (Alive => Alive')
<1>1. UNCHANGED <<ch, on, owed, pipe, hsp, stop>>
  BY DEF Poll, NoSoftEvent, localVars, vars, chanVars
<1> QED BY <1>1 DEF MachineInv, ShapeOK, Alive

LEMMA MachineStep ==
    ASSUME MachineInv, [Next]_vars
    PROVE  MachineInv' /\ (Alive /\ ~Alive' => StopTimeout \/ Excused)
<1>1. ASSUME NEW bits \in SUBSET Fns, HspAsks(bits) PROVE MachineInv' /\ (Alive => Alive')
  BY <1>1, HspAsksKeeps
<1>2. CASE OnStopInterfaceRequest
  BY <1>2, RequestKeeps
<1>3. CASE StopDeferred
  BY <1>3, DeferredKeeps
<1>4. CASE StopTimeout
  BY <1>4, TimeoutKeeps
<1>5. ASSUME NEW c \in Channels, StopChannelReady(c) PROVE MachineInv' /\ (Alive => Alive' \/ Excused)
  BY <1>5, ReadyKeeps
<1>6. ASSUME NEW c \in Channels, NEW valid \in BOOLEAN, StopAnswered(c, valid)
      PROVE  MachineInv' /\ (Alive => Alive' \/ Excused)
  BY <1>6, AnsweredKeeps
<1>7. ASSUME NEW c \in Channels, OtherStarts(c) \/ OtherReady(c) \/ OtherAnswered(c) \/ OtherLeaves(c)
      PROVE  MachineInv' /\ (Alive => Alive')
  BY <1>7, OtherStartsKeeps, OtherReadyKeeps, OtherAnsweredKeeps, OtherLeavesKeeps
<1>8. CASE Poll \/ NoSoftEvent \/ UNCHANGED vars
  BY <1>8, IdleKeeps
<1>9. CASE Fp \/ Hsm
  BY <1>9, CoresKeep
<1>10. ASSUME NEW o \in owed, Drained(o) PROVE MachineInv' /\ (Alive => Alive')
  BY <1>10, DrainedKeeps
<1> QED BY <1>1, <1>2, <1>3, <1>4, <1>5, <1>6, <1>7, <1>8, <1>9, <1>10 DEF Next

(* StopInterfaceFsm panics (handle_err) only when its timer elapses, when  *)
(* HSP's queue has no room for the answer, or when a channel that it has   *)
(* been given carries a request that the previous owner has left behind.   *)
(* Nothing that it asked for itself is ever in its way, in any order of    *)
(* answers, notifications, undecodable answers and repeated requests: it   *)
(* has had every answer before it asks again.                              *)
THEOREM NoPanicOfItsOwn == Spec => NoPanic
<1>1. Spec => []MachineInv
  <2>1. MachineInv /\ [Next]_vars => MachineInv'
    BY MachineStep
  <2> QED BY MachineInit, <2>1, PTL DEF Spec
<1>2. MachineInv /\ [Next]_vars =>
        [Alive /\ ~Alive' => \/ StopTimeout
                            \/ (HspFull /\ stop'.current = NoFn)
                            \/ \E c \in Channels : LeftBehind(c)]_vars
  BY MachineStep DEF Excused
<1> QED BY <1>1, <1>2, PTL DEF Spec, NoPanic

-----------------------------------------------------------------------------
(* What HSP is told *)

(* Of the functions HSP asked for, the ones that are neither still to be   *)
(* asked for nor being disabled are off at both ends.                      *)
Covered ==
    stop.st \notin {"Idle", "FatalError"} =>
        \A f \in hsp.bits : \/ f \in stop.pending \/ (Asks(stop) /\ f = stop.current)
                            \/ \A c \in Channels : f \notin on[c]

(* What the HSM core has put off, and what it has notified, are distinct   *)
(* functions, off on that core, and all put off for this machine.          *)
DebtOK ==
    /\ \A o \in owed : o.u = "Stop" /\ o.f \notin on["Hsm"]
    /\ \A i \in 1..Len(pipe) : /\ pipe[i].f \notin on["Hsm"]
                               /\ \A o \in owed : o.f # pipe[i].f

(* The machine knows of everything that the HSM core has put off, or the   *)
(* answer that says so is on its way.                                      *)
Heard ==
    Alive => \A o \in owed : \/ o.f \in stop.deferred
                             \/ /\ Asks(stop) /\ AwaitedBy(stop, "Hsm") /\ o.f = stop.current
                                /\ ch["Hsm"].rsp = "Pending"

ToldInv == Covered /\ DebtOK /\ Heard /\ StoppedWhenTold

LEMMA ToldInit == Init => ToldInv
<1> SUFFICES ASSUME Init PROVE ToldInv
  OBVIOUS
<1>1. owed = {} /\ pipe = <<>> /\ hsp.st = "Idle" /\ stop.st = "Idle"
  BY DEF Init, StopIdle
<1> QED BY <1>1 DEF ToldInv, Covered, DebtOK, Heard, StoppedWhenTold

(* A step of stop_interface_loop, when what is no longer to be asked for   *)
(* is off and what is put off is known                                     *)
LEMMA LoopTells ==
    ASSUME NEW x \in [Channels -> Chan], \A c \in Channels : ChanOK(x[c]), Owned(x),
           NEW k \in StopRec, hsp \in HspRec, hsp.st = "Asked", StopLoop(x, k),
           on' = on, owed' = owed,
           \A f \in hsp.bits : f \in k.pending \/ \A c \in Channels : f \notin on[c],
           \A o \in owed : o.f \in k.deferred
    PROVE  Covered' /\ Heard' /\ StoppedWhenTold'
<1>1. LoopAsks(x, k) \/ LoopWaits(x, k) \/ LoopAnswers(x, k) \/ LoopPanics(x, k)
  BY LoopCases
<1>2. CASE LoopAsks(x, k)
  <2>1. Covered'
    BY <1>2 DEF LoopAsks, Covered, Asks
  <2>2. Heard' /\ StoppedWhenTold'
    BY <1>2 DEF LoopAsks, Heard, StoppedWhenTold
  <2> QED BY <2>1, <2>2
<1>3. CASE LoopWaits(x, k)
  <2>1. Covered'
    BY <1>3 DEF LoopWaits, Covered
  <2>2. Heard' /\ StoppedWhenTold'
    BY <1>3 DEF LoopWaits, Heard, StoppedWhenTold
  <2> QED BY <2>1, <2>2
<1>4. CASE LoopAnswers(x, k)
  <2>1. owed' = {}
    BY <1>4 DEF LoopAnswers
  <2>2. \A c \in Channels : hsp'.bits \cap on'[c] = {}
    BY <1>4 DEF LoopAnswers
  <2> QED BY <1>4, <2>1, <2>2 DEF LoopAnswers, Covered, Heard, StoppedWhenTold
<1>5. CASE LoopPanics(x, k)
  BY <1>5 DEF LoopPanics, Covered, Heard, StoppedWhenTold, Alive
<1> QED BY <1>1, <1>2, <1>3, <1>4, <1>5

LEMMA HspAsksTells ==
    ASSUME MachineInv, ToldInv, NEW bits \in SUBSET Fns, HspAsks(bits)
    PROVE  ToldInv'
<1>1. stop' = stop /\ ch' = ch /\ on' = on /\ owed' = owed /\ pipe' = pipe
  BY DEF HspAsks, chanVars
<1>2. hsp'.st = "Asked" /\ hsp.st # "Asked"
  BY DEF HspAsks
<1>3. stop.st = "Idle"
  BY <1>2 DEF MachineInv, RestOK
<1>4. DebtOK'
  BY <1>1 DEF ToldInv, DebtOK
<1>5. Heard'
  BY <1>1 DEF ToldInv, Heard, Alive
<1> QED BY <1>1, <1>2, <1>3, <1>4, <1>5 DEF ToldInv, Covered, StoppedWhenTold

LEMMA RequestTells ==
    ASSUME MachineInv, ToldInv, OnStopInterfaceRequest
    PROVE  ToldInv'
<1> DEFINE x == [c \in Channels |-> Acquired(ch[c], "Stop")]
           k == [stop EXCEPT !.pending = hsp.bits]
<1>0. /\ hsp.st = "Asked" /\ stop.st = "Idle" /\ on' = on /\ owed' = owed /\ pipe' = pipe
      /\ hsp \in HspRec /\ stop \in StopRec
  BY DEF OnStopInterfaceRequest, stopFrame, MachineInv, ShapeOK
<1>1. owed = {}
  BY <1>0 DEF ToldInv, Heard, Alive, MachineInv, RestOK, Asks
<1>2. k \in StopRec /\ k.st = stop.st /\ k.pending = hsp.bits
  BY <1>0 DEF StopRec, HspRec
<1>3. DebtOK'
  BY <1>0 DEF ToldInv, DebtOK
<1>4. CASE Both(x)
  <2>1. ASSUME NEW c \in Channels
        PROVE  x[c] \in Chan /\ ChanOK(x[c]) /\ x[c].tag # "Stop"
    <3>1. /\ ch[c] \in Chan /\ ChanOK(ch[c]) /\ ch[c].owner # "Stop" /\ ~Queued(ch[c].waiters, "Stop")
          /\ ch[c].tag # "Stop"
      BY <1>0, Names DEF MachineInv, ShapeOK, Stands, ChanOK
    <3>2. PICK y : y = Acquired(ch[c], "Stop")
      OBVIOUS
    <3>3. x[c] = y
      BY <3>2
    <3>4. y \in Chan /\ ChanOK(y) /\ y.tag # "Stop"
      BY <3>1, <3>2, Names, AcquiredOK
    <3> QED BY <3>3, <3>4
  <2>2. x \in [Channels -> Chan] /\ Owned(x)
    BY <1>4, <2>1 DEF Owned, Both
  <2>3. StopLoop(x, k)
    BY <1>4 DEF OnStopInterfaceRequest
  <2> HIDE DEF x, k
  <2>4. Covered' /\ Heard' /\ StoppedWhenTold'
    BY <1>0, <1>1, <1>2, <2>1, <2>2, <2>3, LoopTells
  <2> QED BY <1>3, <2>4 DEF ToldInv
<1>5. CASE ~Both(x)
  <2>1. stop' = [k EXCEPT !.st = "WaitIpcChannels"] /\ hsp' = hsp
    BY <1>5 DEF OnStopInterfaceRequest
  <2> HIDE DEF x, k
  <2>2. stop'.st = "WaitIpcChannels" /\ stop'.pending = hsp.bits
    BY <1>2, <2>1 DEF StopRec
  <2> QED BY <1>0, <1>1, <1>3, <2>1, <2>2 DEF ToldInv, Covered, Heard, StoppedWhenTold
<1> QED BY <1>4, <1>5

LEMMA ReadyTells ==
    ASSUME MachineInv, ToldInv, NEW c \in Channels, StopChannelReady(c)
    PROVE  ToldInv'
<1> DEFINE x == [ch EXCEPT ![c] = Given(@)]
<1>0. /\ Granted(c, "Stop") /\ on' = on /\ owed' = owed /\ pipe' = pipe
      /\ hsp \in HspRec /\ stop \in StopRec /\ ch \in [Channels -> Chan]
      /\ \A d \in Channels : ch[d] \in Chan /\ ChanOK(ch[d])
  BY DEF StopChannelReady, stopFrame, MachineInv, ShapeOK, Stands
<1>1. PICK y : y = Given(ch[c])
  OBVIOUS
<1>2. /\ y \in Chan /\ ChanOK(y) /\ y.tag = ch[c].tag /\ Queued(ch[c].waiters, "Stop")
  BY <1>0, <1>1, GivenOK DEF Granted
<1>3. stop.st = "WaitIpcChannels" /\ hsp.st = "Asked"
  BY <1>2 DEF MachineInv, Stands, RestOK
<1>4. x \in [Channels -> Chan] /\ x[c] = y /\ \A d \in Channels \ {c} : x[d] = ch[d]
  BY <1>0, <1>1, <1>2
<1>5. \A d \in Channels : ChanOK(x[d]) /\ x[d].tag # "Stop"
  <2>1. \A d \in Channels : ch[d].tag # "Stop"
    BY <1>3 DEF MachineInv, Stands
  <2> QED BY <1>0, <1>2, <1>4, <2>1
<1>6. DebtOK'
  BY <1>0 DEF ToldInv, DebtOK
<1>7. \A f \in hsp.bits : f \in stop.pending \/ \A d \in Channels : f \notin on[d]
  BY <1>3 DEF ToldInv, Covered, Asks
<1>8. \A o \in owed : o.f \in stop.deferred
  BY <1>3 DEF ToldInv, Heard, Alive, Asks
<1>9. CASE Both(x)
  <2>1. Owned(x)
    BY <1>5, <1>9 DEF Owned, Both
  <2>2. StopLoop(x, stop)
    BY <1>9 DEF StopChannelReady
  <2> HIDE DEF x
  <2>3. Covered' /\ Heard' /\ StoppedWhenTold'
    BY <1>0, <1>3, <1>4, <1>5, <1>7, <1>8, <2>1, <2>2, LoopTells
  <2> QED BY <1>6, <2>3 DEF ToldInv
<1>10. CASE ~Both(x)
  <2>1. stop' = stop /\ hsp' = hsp
    BY <1>10 DEF StopChannelReady
  <2> HIDE DEF x
  <2> QED BY <1>0, <1>3, <1>6, <1>7, <1>8, <2>1 DEF ToldInv, Covered, Heard, StoppedWhenTold
<1> QED BY <1>9, <1>10

LEMMA AnsweredTells ==
    ASSUME "Hsm" \notin Garbled, MachineInv, ToldInv,
           NEW c \in Channels, NEW valid \in BOOLEAN, StopAnswered(c, valid)
    PROVE  ToldInv'
<1> DEFINE x == [ch EXCEPT ![c] = Received(Rung(@))]
           k == [stop EXCEPT
                   !.vfp = IF c = "Fp" THEN valid ELSE @,
                   !.vhsm = IF c = "Hsm" THEN valid ELSE @,
                   !.deferred = IF c = "Hsm" /\ valid /\ ch[c].rsp = "Pending"
                                  THEN @ \cup {stop.current} ELSE @]
<1>0. /\ ch[c].bell /\ ch[c].tag = "Stop" /\ Awaited(c) /\ on' = on /\ owed' = owed /\ pipe' = pipe
      /\ stop \in StopRec /\ hsp \in HspRec /\ (c = "Hsm" => valid) /\ Alive
      /\ \A d \in Channels : Stands(d, ch[d], stop, on[d])
  BY DEF StopAnswered, stopFrame, MachineInv, ShapeOK
<1>1. /\ x \in [Channels -> Chan] /\ \A d \in Channels : ChanOK(x[d]) /\ x[d].owner = "Stop"
      /\ x[c].tag = NoOne /\ \A d \in Channels \ {c} : x[d] = ch[d]
      /\ stop.current \in Fns /\ stop.current \notin on[c] /\ hsp.st = "Asked"
      /\ Asks(stop) /\ AwaitedBy(stop, c)
  BY <1>0, AnswerTaken
<1>2. /\ k \in StopRec /\ k.current = stop.current /\ k.st = stop.st /\ k.pending = stop.pending
      /\ stop.deferred \subseteq k.deferred
      /\ c = "Hsm" /\ ch["Hsm"].rsp = "Pending" => stop.current \in k.deferred
  BY <1>0, <1>1 DEF StopRec
<1>3. DebtOK'
  BY <1>0 DEF ToldInv, DebtOK
<1>4. CASE stop.st = "WaitIpcResponse"
  <2>1. /\ stop' = [k EXCEPT !.st = IF c = "Fp" THEN "WaitHsmIpcResponse" ELSE "WaitFpIpcResponse"]
        /\ ch' = x /\ hsp' = hsp
    BY <1>4 DEF StopAnswered
  <2> HIDE DEF x, k
  <2>2. /\ stop'.current = stop.current /\ stop'.pending = stop.pending
        /\ stop'.deferred = k.deferred
        /\ stop'.st = IF c = "Fp" THEN "WaitHsmIpcResponse" ELSE "WaitFpIpcResponse"
    BY <1>2, <2>1 DEF StopRec
  <2>3. Covered'
    BY <1>0, <1>4, <2>1, <2>2 DEF ToldInv, Covered, Asks
  <2>4. ASSUME NEW o \in owed
        PROVE  \/ o.f \in stop'.deferred
               \/ /\ Asks(stop') /\ AwaitedBy(stop', "Hsm") /\ o.f = stop'.current
                  /\ ch'["Hsm"].rsp = "Pending"
    <3>1. o.f \in stop.deferred \/ (o.f = stop.current /\ ch["Hsm"].rsp = "Pending")
      BY <1>0 DEF ToldInv, Heard
    <3>2. CASE c = "Hsm"
      BY <1>2, <2>2, <3>1, <3>2
    <3>3. CASE c # "Hsm"
      <4>1. c = "Fp" /\ ch'["Hsm"] = ch["Hsm"]
        BY <1>1, <2>1, <3>3 DEF Channels
      <4> QED BY <1>2, <2>2, <3>1, <4>1 DEF Asks, AwaitedBy
    <3> QED BY <3>2, <3>3
  <2>5. Heard'
    BY <1>0, <2>4 DEF Heard
  <2> QED BY <1>1, <1>3, <2>1, <2>3, <2>5 DEF ToldInv, StoppedWhenTold
<1>5. CASE stop.st # "WaitIpcResponse"
  <2> DEFINE l == [k EXCEPT !.pending = IF k.vfp /\ k.vhsm THEN @ ELSE @ \cup {k.current},
                            !.vfp = FALSE, !.vhsm = FALSE]
  <2>1. StopLoop(x, l)
    BY <1>5 DEF StopAnswered, Complete
  <2> HIDE DEF x, k
  <2>2. l \in StopRec /\ stop.pending \subseteq l.pending /\ l.deferred = k.deferred
    BY <1>1, <1>2 DEF StopRec
  <2>3. ASSUME NEW d \in Channels, d # c PROVE x[d].tag = NoOne /\ stop.current \notin on[d]
    <3>1. x[d] = ch[d] /\ ~AwaitedBy(stop, d)
      BY <1>1, <1>5, <2>3 DEF AwaitedBy, Asks, Channels
    <3> QED BY <1>0, <1>1, <3>1 DEF Stands
  <2>4. Owned(x)
    BY <1>1, <2>3, Names DEF Owned
  <2>5. \A f \in hsp.bits : f \in l.pending \/ \A d \in Channels : f \notin on[d]
    <3>1. stop.st \notin {"Idle", "FatalError"}
      BY <1>1 DEF Asks
    <3> QED BY <1>1, <2>2, <2>3, <3>1 DEF ToldInv, Covered
  <2>6. \A o \in owed : o.f \in l.deferred
    <3>1. AwaitedBy(stop, "Hsm") => c = "Hsm"
      BY <1>1, <1>5 DEF AwaitedBy
    <3> QED BY <1>0, <1>2, <2>2, <3>1 DEF ToldInv, Heard
  <2> HIDE DEF l
  <2>7. Covered' /\ Heard' /\ StoppedWhenTold'
    BY <1>0, <1>1, <2>1, <2>2, <2>4, <2>5, <2>6, LoopTells
  <2> QED BY <1>3, <2>7 DEF ToldInv
<1> QED BY <1>4, <1>5

(* The pipe, by what is in it *)
LEMMA PipeShifts ==
    ASSUME NEW s \in Seq(Debt), s # <<>>
    PROVE  \A i \in 1..Len(Tail(s)) : \E j \in 1..Len(s) : Tail(s)[i] = s[j]
<1>1. /\ Len(s) \in Nat /\ Len(s) > 0 /\ Len(Tail(s)) = Len(s) - 1
      /\ \A i \in 1..Len(s) - 1 : Tail(s)[i] = s[i + 1]
  OBVIOUS
<1>2. ASSUME NEW i \in 1..Len(Tail(s)) PROVE \E j \in 1..Len(s) : Tail(s)[i] = s[j]
  <2>1. i + 1 \in 1..Len(s) /\ Tail(s)[i] = s[i + 1]
    BY <1>1
  <2> QED BY <2>1
<1> QED BY <1>2

LEMMA PipeGrows ==
    ASSUME NEW s \in Seq(Debt), NEW o \in Debt
    PROVE  \A i \in 1..Len(Append(s, o)) :
              Append(s, o)[i] = o \/ \E j \in 1..Len(s) : Append(s, o)[i] = s[j]
<1>1. /\ Len(Append(s, o)) = Len(s) + 1 /\ Len(s) \in Nat
      /\ \A i \in 1..Len(s) : Append(s, o)[i] = s[i]
      /\ Append(s, o)[Len(s) + 1] = o
  OBVIOUS
<1>2. ASSUME NEW i \in 1..Len(Append(s, o))
      PROVE  Append(s, o)[i] = o \/ \E j \in 1..Len(s) : Append(s, o)[i] = s[j]
  <2>1. CASE i = Len(s) + 1
    BY <1>1, <2>1
  <2>2. CASE i # Len(s) + 1
    <3>1. i \in 1..Len(s)
      BY <1>1, <2>2
    <3> QED BY <1>1, <3>1
  <2> QED BY <2>1, <2>2
<1> QED BY <1>2

LEMMA DeferredTells ==
    ASSUME MachineInv, ToldInv, StopDeferred
    PROVE  ToldInv'
<1> DEFINE k == [stop EXCEPT !.deferred = @ \ {Head(pipe).f}]
<1>0. /\ on' = on /\ owed' = owed /\ stop \in StopRec /\ hsp \in HspRec /\ pipe \in Seq(Debt)
      /\ pipe # <<>> /\ RestOK(stop, hsp) /\ ch \in [Channels -> Chan]
      /\ \A d \in Channels : Stands(d, ch[d], stop, on[d])
  BY DEF StopDeferred, stopFrame, MachineInv, ShapeOK
<1>1. /\ k \in StopRec /\ k.current = stop.current /\ k.st = stop.st /\ k.pending = stop.pending
      /\ k.deferred = stop.deferred \ {Head(pipe).f}
  BY <1>0 DEF StopRec
<1>2. pipe' \in {pipe, Tail(pipe)}
  BY DEF StopDeferred
<1>3. DebtOK'
  <2>1. \A i \in 1..Len(pipe') : \E j \in 1..Len(pipe) : pipe'[i] = pipe[j]
    <3>1. CASE pipe' = pipe
      BY <3>1
    <3>2. CASE pipe' = Tail(pipe)
      BY <1>0, <3>2, PipeShifts
    <3> QED BY <1>2, <3>1, <3>2
  <2>2. \A i \in 1..Len(pipe') : /\ pipe'[i].f \notin on["Hsm"]
                                 /\ \A o \in owed : o.f # pipe'[i].f
    BY <2>1 DEF ToldInv, DebtOK
  <2> QED BY <1>0, <2>2 DEF ToldInv, DebtOK
<1>4. \A o \in owed : o.f # Head(pipe).f
  <2>1. Head(pipe) = pipe[1] /\ 1 \in 1..Len(pipe)
    BY <1>0
  <2> QED BY <2>1 DEF ToldInv, DebtOK
<1>5. CASE stop.st \in {"Idle", "WaitIpcChannels"}
  <2>1. UNCHANGED <<stop, ch, hsp>>
    BY <1>5 DEF StopDeferred
  <2> QED BY <1>0, <1>3, <2>1 DEF ToldInv, Covered, Heard, StoppedWhenTold, Alive
<1>6. CASE stop.st = "WaitIoCancellationComplete"
  <2>1. StopLoop(ch, k)
    BY <1>6 DEF StopDeferred
  <2>2. hsp.st = "Asked"
    BY <1>0, <1>6 DEF RestOK
  <2>3. Owned(ch) /\ \A c \in Channels : ChanOK(ch[c])
    BY <1>0, <1>6 DEF Owned, Stands
  <2>4. \A f \in hsp.bits : f \in k.pending \/ \A c \in Channels : f \notin on[c]
    BY <1>1, <1>6 DEF ToldInv, Covered, Asks
  <2>5. \A o \in owed : o.f \in k.deferred
    BY <1>1, <1>4, <1>6 DEF ToldInv, Heard, Alive, Asks
  <2> HIDE DEF k
  <2>6. Covered' /\ Heard' /\ StoppedWhenTold'
    BY <1>0, <1>1, <2>1, <2>2, <2>3, <2>4, <2>5, LoopTells
  <2> QED BY <1>3, <2>6 DEF ToldInv
<1>7. CASE stop.st \notin {"Idle", "WaitIpcChannels", "WaitIoCancellationComplete"}
  <2>1. stop' = k /\ ch' = ch /\ hsp' = hsp
    BY <1>7 DEF StopDeferred
  <2> HIDE DEF k
  <2>2. Covered'
    BY <1>0, <1>1, <2>1 DEF ToldInv, Covered, Asks
  <2>3. Heard'
    BY <1>0, <1>1, <1>4, <2>1 DEF ToldInv, Heard, Alive, Asks, AwaitedBy
  <2> QED BY <1>0, <1>3, <2>1, <2>2, <2>3 DEF ToldInv, StoppedWhenTold
<1> QED BY <1>5, <1>6, <1>7

LEMMA TimeoutTells ==
    ASSUME MachineInv, ToldInv, StopTimeout
    PROVE  ToldInv'
<1>1. ch' = ch /\ on' = on /\ owed' = owed /\ pipe' = pipe /\ hsp' = hsp
  BY DEF StopTimeout, chanVars
<1>2. stop'.st = "FatalError"
  BY DEF StopTimeout, MachineInv, ShapeOK, StopRec
<1>3. DebtOK'
  BY <1>1 DEF ToldInv, DebtOK
<1> QED BY <1>1, <1>2, <1>3 DEF ToldInv, Covered, Heard, StoppedWhenTold, Alive

(* A step of the other user does not touch an answer for the machine *)
LEMMA OtherTells ==
    ASSUME MachineInv, ToldInv, NEW c \in Channels,
           OtherStarts(c) \/ OtherReady(c) \/ OtherAnswered(c) \/ OtherLeaves(c)
    PROVE  ToldInv'
<1>1. UNCHANGED <<on, owed, pipe, hsp, stop>>
  BY DEF OtherStarts, OtherReady, OtherAnswered, OtherLeaves, otherFrame
<1>2. ASSUME Asks(stop) PROVE ch'["Hsm"].rsp = ch["Hsm"].rsp
  <2>0. /\ ch \in [Channels -> Chan] /\ ch[c] \in Chan /\ ChanOK(ch[c]) /\ ch[c].owner = "Stop"
        /\ "Hsm" \in Channels
    BY <1>2 DEF MachineInv, ShapeOK, Stands, Channels
  <2>1. CASE OtherStarts(c)
    <3>1. PICK w : w = Append(ch[c].waiters, Other)
      OBVIOUS
    <3>2. Acquired(ch[c], Other) = [ch[c] EXCEPT !.waiters = w]
      BY <2>0, <3>1, Names DEF Acquired
    <3>3. PICK y : y = [ch[c] EXCEPT !.waiters = w]
      OBVIOUS
    <3>4. y.owner = ch[c].owner /\ y.rsp = ch[c].rsp
      BY <2>0, <3>3 DEF Chan
    <3>5. ch' = [ch EXCEPT ![c] = y]
      BY <2>0, <2>1, <3>2, <3>3, <3>4, Names DEF OtherStarts
    <3> QED BY <2>0, <3>4, <3>5
  <2>2. CASE OtherReady(c)
    BY <2>0, <2>2, Names DEF OtherReady, Granted
  <2>3. CASE OtherAnswered(c)
    <3>1. ch' = [ch EXCEPT ![c] = Rung(ch[c])]
      BY <2>0, <2>3, Names DEF OtherAnswered, Holds
    <3>2. Rung(ch[c]).rsp = ch[c].rsp
      BY <2>0 DEF Rung, Chan
    <3> QED BY <2>0, <3>1, <3>2
  <2>4. CASE OtherLeaves(c)
    BY <2>0, <2>4, Names DEF OtherLeaves, Holds
  <2> QED BY <2>1, <2>2, <2>3, <2>4
<1>3. Covered' /\ DebtOK' /\ StoppedWhenTold'
  BY <1>1 DEF ToldInv, Covered, DebtOK, StoppedWhenTold
<1>4. Heard'
  BY <1>1, <1>2 DEF ToldInv, Heard, Alive
<1> QED BY <1>3, <1>4 DEF ToldInv

LEMMA CoresTell ==
    ASSUME MachineInv, ToldInv, Fp \/ Hsm
    PROVE  ToldInv'
<1>1. /\ UNCHANGED <<pipe, hsp, stop>>
      /\ \A d \in Channels : on'[d] \subseteq on[d]
      /\ ch["Hsm"].rsp = "Pending" => ch'["Hsm"].rsp = "Pending"
  BY CoresKeep
<1>2. Covered'
  BY <1>1 DEF ToldInv, Covered
<1>3. "Hsm" \in Channels
  BY DEF Channels
<1>4. CASE owed' = owed
  <2>1. DebtOK'
    BY <1>1, <1>3, <1>4 DEF ToldInv, DebtOK
  <2>2. Heard'
    BY <1>1, <1>4 DEF ToldInv, Heard, Alive
  <2>3. StoppedWhenTold'
    BY <1>1, <1>4 DEF ToldInv, StoppedWhenTold
  <2> QED BY <1>2, <2>1, <2>2, <2>3 DEF ToldInv
<1>5. CASE owed' # owed
  <2>1. PICK f \in Fns : /\ owed' = owed \cup {[u |-> "Stop", f |-> f]}
                         /\ f \in on["Hsm"] /\ f \notin on'["Hsm"]
                         /\ ch["Hsm"].tag = "Stop" /\ ch["Hsm"].req.op = "Disable"
                         /\ ch["Hsm"].req.f = f /\ ch'["Hsm"].rsp = "Pending"
    BY <1>5, CoresKeep
  <2>2. PICK n : n = [u |-> "Stop", f |-> f]
    OBVIOUS
  <2>3. n.u = "Stop" /\ n.f = f /\ owed' = owed \cup {n}
    BY <2>1, <2>2
  <2>4. DebtOK'
    BY <1>1, <1>3, <2>1, <2>3 DEF ToldInv, DebtOK
  <2>5. Alive => Asks(stop) /\ AwaitedBy(stop, "Hsm") /\ f = stop.current
    <3>1. Stands("Hsm", ch["Hsm"], stop, on["Hsm"]) /\ ChanOK(ch["Hsm"]) /\ stop \in StopRec
      BY <1>3 DEF MachineInv, Stands, ShapeOK
    <3>2. ch["Hsm"].owner = "Stop" /\ ~ch["Hsm"].bell
      BY <2>1, <3>1, Names DEF ChanOK, NoMsg
    <3>3. Alive => Asks(stop)
      BY <2>1, <3>1, <3>2, Names DEF Stands, StopRec, Asks, Alive
    <3>4. Alive => AwaitedBy(stop, "Hsm")
      BY <2>1, <3>1, <3>3, Names DEF Stands
    <3>5. Alive => ch["Hsm"].req = [op |-> "Disable", f |-> stop.current]
      BY <3>1, <3>2, <3>3, <3>4 DEF Stands
    <3> QED BY <2>1, <3>3, <3>4, <3>5
  <2>6. Heard'
    BY <1>1, <2>1, <2>3, <2>5 DEF ToldInv, Heard, Alive
  <2>7. StoppedWhenTold'
    BY <1>1, <1>3, <2>1, <2>3 DEF ToldInv, StoppedWhenTold
  <2> QED BY <1>2, <2>4, <2>6, <2>7 DEF ToldInv
<1> QED BY <1>4, <1>5

LEMMA DrainedTells ==
    ASSUME MachineInv, ToldInv, NEW o \in owed, Drained(o)
    PROVE  ToldInv'
<1>1. /\ UNCHANGED <<ch, on, hsp, stop>> /\ owed' = owed \ {o} /\ pipe' \in {pipe, Append(pipe, o)}
  BY DEF Drained, IosDrained, localVars
<1>2. o \in Debt /\ pipe \in Seq(Debt) /\ owed \subseteq Debt
  BY DEF MachineInv, ShapeOK
<1>3. \A p \in owed' : p.f # o.f
  <2>1. ASSUME NEW p \in owed, p.f = o.f PROVE p = o
    <3>1. p \in Debt /\ o \in Debt /\ p.u = "Stop" /\ o.u = "Stop"
      BY <1>2 DEF ToldInv, DebtOK
    <3> QED BY <2>1, <3>1 DEF Debt
  <2> QED BY <1>1, <2>1
<1>4. \A i \in 1..Len(pipe') : pipe'[i] = o \/ \E j \in 1..Len(pipe) : pipe'[i] = pipe[j]
  <2>1. CASE pipe' = pipe
    BY <2>1
  <2>2. CASE pipe' = Append(pipe, o)
    BY <1>2, <2>2, PipeGrows
  <2> QED BY <1>1, <2>1, <2>2
<1>5. \A i \in 1..Len(pipe') : /\ pipe'[i].f \notin on["Hsm"]
                               /\ \A p \in owed' : p.f # pipe'[i].f
  BY <1>1, <1>3, <1>4 DEF ToldInv, DebtOK
<1>6. DebtOK'
  BY <1>1, <1>5 DEF ToldInv, DebtOK
<1> QED BY <1>1, <1>6 DEF ToldInv, Covered, Heard, StoppedWhenTold, Alive

LEMMA ToldStep ==
    ASSUME "Hsm" \notin Garbled, MachineInv, ToldInv, [Next]_vars
    PROVE  ToldInv'
<1>1. ASSUME NEW bits \in SUBSET Fns, HspAsks(bits) PROVE ToldInv'
  BY <1>1, HspAsksTells
<1>2. CASE OnStopInterfaceRequest
  BY <1>2, RequestTells
<1>3. CASE StopDeferred
  BY <1>3, DeferredTells
<1>4. CASE StopTimeout
  BY <1>4, TimeoutTells
<1>5. ASSUME NEW c \in Channels, StopChannelReady(c) PROVE ToldInv'
  BY <1>5, ReadyTells
<1>6. ASSUME NEW c \in Channels, NEW valid \in BOOLEAN, StopAnswered(c, valid)
      PROVE  ToldInv'
  BY <1>6, AnsweredTells
<1>7. ASSUME NEW c \in Channels, OtherStarts(c) \/ OtherReady(c) \/ OtherAnswered(c) \/ OtherLeaves(c)
      PROVE  ToldInv'
  BY <1>7, OtherTells
<1>8. CASE Poll \/ NoSoftEvent \/ UNCHANGED vars
  <2>1. UNCHANGED <<ch, on, owed, pipe, hsp, stop>>
    BY <1>8 DEF Poll, NoSoftEvent, localVars, vars, chanVars
  <2> QED BY <2>1 DEF ToldInv, Covered, DebtOK, Heard, StoppedWhenTold, Alive
<1>9. CASE Fp \/ Hsm
  BY <1>9, CoresTell
<1>10. ASSUME NEW o \in owed, Drained(o) PROVE ToldInv'
  BY <1>10, DrainedTells
<1> QED BY <1>1, <1>2, <1>3, <1>4, <1>5, <1>6, <1>7, <1>8, <1>9, <1>10 DEF Next

(* When HSP is told that functions are stopped (send_hsp_response), both   *)
(* cores have them disabled and the HSM core has no I/O of theirs left,    *)
(* and this stays so until HSP asks again: for any number of functions and *)
(* any interleaving of answers, notifications and the other user.  The     *)
(* answers of FP may be beyond decoding, those of the HSM core not: an     *)
(* answer that cannot be read is asked for again (complete), and by then   *)
(* the HSM core has the function disabled and says nothing of what it has  *)
(* put off.                                                                *)
THEOREM ToldOnceStopped ==
    ASSUME "Hsm" \notin Garbled
    PROVE  Spec => []StoppedWhenTold
<1>1. Init => MachineInv /\ ToldInv
  BY MachineInit, ToldInit
<1>2. MachineInv /\ ToldInv /\ [Next]_vars => (MachineInv /\ ToldInv)'
  BY MachineStep, ToldStep
<1>3. MachineInv /\ ToldInv => StoppedWhenTold
  BY DEF ToldInv
<1> QED BY <1>1, <1>2, <1>3, PTL DEF Spec

=============================================================================
