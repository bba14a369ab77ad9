------------------------- MODULE AdminControlProofs -------------------------
(***************************************************************************)
(* Proofs about the machines of the admin core that share the two channels,*)
(* for any number of functions, commands and queues.  Whatever the cores   *)
(* answer, refuse or put off, two users never wait for each other unless   *)
(* one of them is VfRestore (NoCircularWait).                              *)
(***************************************************************************)
EXTENDS AdminControl, TLAPS, WellFoundedInduction

-----------------------------------------------------------------------------
(* A channel on its own *)

Msg == [op : {"Enable", "Disable", "Migrate", "Reset", "Create", "Delete"}, f : Fns]
Chan == [owner : Users \cup {NoOne}, waiters : Seq(Users), tag : Users \cup {NoOne},
         req : Msg \cup {NoMsg}, rsp : {"None", "Success", "Pending", "Error"}, bell : BOOLEAN]

Queued(s, u) == \E i \in 1..Len(s) : s[i] = u
NoneTwice(s) == \A i, j \in 1..Len(s) : s[i] = s[j] => i = j
Before(s, u, v) == \E i, j \in 1..Len(s) : i < j /\ s[i] = u /\ s[j] = v

In(x, u) == x.owner = u \/ Queued(x.waiters, u)

(* u has the channel before v gets it *)
Ahead(x, u, v) == (x.owner = u /\ Queued(x.waiters, v)) \/ Before(x.waiters, u, v)

(* Nobody is in the queue twice and the owner is not in it; a request that *)
(* is under way or answered has its tag.                                   *)
ChanOK(x) ==
    /\ NoneTwice(x.waiters) /\ ~Queued(x.waiters, x.owner)
    /\ x.tag = NoOne => x.req = NoMsg /\ ~x.bell
    /\ x.bell => x.req = NoMsg /\ x.rsp # "None"

(* A step of w on a channel leaves every other user where he is ...        *)
Leaves(w, x, y) ==
    \A u \in Users \ {w} : /\ y.owner = u <=> x.owner = u
                           /\ Queued(y.waiters, u) <=> Queued(x.waiters, u)
                           /\ y.tag = u <=> x.tag = u
(* ... and puts nobody ahead of anybody else, *)
Moves(w, x, y) ==
    /\ y \in Chan /\ ChanOK(y) /\ Leaves(w, x, y)
    /\ \A u, v \in Users : Ahead(y, u, v) => Ahead(x, u, v)
(* unless w joins, behind everybody. *)
Joins(w, x, y) ==
    /\ y \in Chan /\ ChanOK(y) /\ Leaves(w, x, y) /\ ~In(x, w)
    /\ \A u, v \in Users : Ahead(y, u, v) => Ahead(x, u, v) \/ v = w
    /\ \A v \in Users : ~Ahead(y, w, v)

LEMMA Names == /\ "Cntrl" \in Users /\ "Vflr" \in Users /\ Cmds \subseteq Users /\ NoOne \notin Users
               /\ "Cntrl" \notin Cmds /\ "Vflr" \notin Cmds
               /\ \A u \in Users : u = "Cntrl" \/ u = "Vflr" \/ u \in Cmds
               /\ NF \in Nat /\ NF > 0 /\ NoFn \notin Fns /\ 0 \in Fns
               /\ "Fp" \in Channels /\ "Hsm" \in Channels
  BY ChannelAssumption, ControlAssumption DEF Fns, NoFn, Channels

LEMMA Stays == ASSUME NEW w, NEW x \in Chan, ChanOK(x) PROVE Moves(w, x, x)
  BY DEF Moves, Leaves

LEMMA MovesOn == ASSUME NEW w, NEW x, NEW y, NEW z, Moves(w, x, y), Moves(w, y, z) PROVE Moves(w, x, z)
  BY DEF Moves, Leaves

LEMMA AheadIn ==
    ASSUME NEW x, NEW u, NEW v, Ahead(x, u, v)
    PROVE  In(x, u) /\ In(x, v)
  BY DEF Ahead, In, Before, Queued

LEMMA JoinsOn ==
    ASSUME NEW w \in Users, NEW x, NEW y, NEW z, Joins(w, x, y), Moves(w, y, z)
    PROVE  Joins(w, x, z)
  BY DEF Joins, Moves, Leaves

LEMMA Joined ==
    ASSUME NEW s \in Seq(Users), NEW u \in Users
    PROVE  /\ Append(s, u) \in Seq(Users)
           /\ \A v : Queued(Append(s, u), v) <=> Queued(s, v) \/ v = u
           /\ NoneTwice(s) /\ ~Queued(s, u) => NoneTwice(Append(s, u))
           /\ \A a, b : Before(Append(s, u), a, b) => Before(s, a, b) \/ (b = u /\ Queued(s, a))
<1>1. /\ Append(s, u) \in Seq(Users) /\ Len(Append(s, u)) = Len(s) + 1 /\ Len(s) \in Nat
      /\ \A i \in 1..Len(s) : Append(s, u)[i] = s[i]
      /\ Append(s, u)[Len(s) + 1] = u
  OBVIOUS
<1>2. PICK r : r = Append(s, u)
  OBVIOUS
<1>3. /\ Len(r) = Len(s) + 1 /\ Len(s) \in Nat /\ r[Len(s) + 1] = u
      /\ \A i \in 1..Len(s) : r[i] = s[i]
  BY <1>1, <1>2
<1>4. \A v : Queued(r, v) <=> Queued(s, v) \/ v = u
  BY <1>3 DEF Queued
<1>5. NoneTwice(s) /\ ~Queued(s, u) => NoneTwice(r)
  BY <1>3 DEF NoneTwice, Queued
<1>6. ASSUME NEW a, NEW b, Before(r, a, b) PROVE Before(s, a, b) \/ (b = u /\ Queued(s, a))
  <2>1. PICK i, j \in 1..Len(r) : i < j /\ r[i] = a /\ r[j] = b
    BY <1>6 DEF Before
  <2>2. i \in 1..Len(s) /\ s[i] = a
    BY <1>3, <2>1
  <2>3. CASE j = Len(s) + 1
    BY <1>3, <2>1, <2>2, <2>3 DEF Queued
  <2>4. CASE j # Len(s) + 1
    <3>1. j \in 1..Len(s) /\ s[j] = b
      BY <1>3, <2>1, <2>4
    <3> QED BY <2>1, <2>2, <3>1 DEF Before
  <2> QED BY <2>3, <2>4
<1> QED BY <1>1, <1>2, <1>4, <1>5, <1>6

LEMMA Left ==
    ASSUME NEW s \in Seq(Users), s # <<>>, NoneTwice(s)
    PROVE  /\ Head(s) \in Users /\ Tail(s) \in Seq(Users) /\ NoneTwice(Tail(s))
           /\ \A v : Queued(Tail(s), v) <=> Queued(s, v) /\ v # Head(s)
           /\ Queued(s, Head(s))
           /\ \A a, b : Before(Tail(s), a, b) => Before(s, a, b)
           /\ \A b : Queued(Tail(s), b) => Before(s, Head(s), b)
<1>1. /\ Tail(s) \in Seq(Users) /\ Len(s) \in Nat /\ Len(s) > 0 /\ Len(Tail(s)) = Len(s) - 1
      /\ \A i \in 1..Len(s) - 1 : Tail(s)[i] = s[i + 1]
      /\ Head(s) = s[1] /\ s[1] \in Users
  OBVIOUS
<1>2. PICK r : r = Tail(s)
  OBVIOUS
<1>3. PICK h : h = Head(s)
  OBVIOUS
<1>4. /\ Len(s) \in Nat /\ Len(s) > 0 /\ Len(r) = Len(s) - 1
      /\ \A i \in 1..Len(s) - 1 : r[i] = s[i + 1]
      /\ h = s[1]
  BY <1>1, <1>2, <1>3
<1>5. NoneTwice(r)
  BY <1>4 DEF NoneTwice
<1>6. \A v : Queued(r, v) => Queued(s, v) /\ v # h
  BY <1>4 DEF NoneTwice, Queued
<1>7. ASSUME NEW v, Queued(s, v), v # h PROVE Queued(r, v)
  <2>1. PICK i \in 1..Len(s) : s[i] = v
    BY <1>7 DEF Queued
  <2>2. i # 1
    BY <1>4, <1>7, <2>1
  <2>3. i - 1 \in 1..Len(s) - 1 /\ r[i - 1] = s[i]
    BY <1>4, <2>2
  <2> QED BY <1>4, <2>1, <2>3 DEF Queued
<1>8. Queued(s, h)
  BY <1>4 DEF Queued
<1>9. ASSUME NEW a, NEW b, Before(r, a, b) PROVE Before(s, a, b)
  <2>1. PICK i, j \in 1..Len(r) : i < j /\ r[i] = a /\ r[j] = b
    BY <1>9 DEF Before
  <2>2. /\ i + 1 \in 1..Len(s) /\ j + 1 \in 1..Len(s) /\ i + 1 < j + 1
        /\ s[i + 1] = a /\ s[j + 1] = b
    BY <1>4, <2>1
  <2> QED BY <2>2 DEF Before
<1>10. ASSUME NEW b, Queued(r, b) PROVE Before(s, h, b)
  <2>1. PICK i \in 1..Len(r) : r[i] = b
    BY <1>10 DEF Queued
  <2>2. 1 \in 1..Len(s) /\ i + 1 \in 1..Len(s) /\ 1 < i + 1 /\ s[i + 1] = b /\ s[1] = h
    BY <1>4, <2>1
  <2> QED BY <2>2 DEF Before
<1> QED BY <1>1, <1>2, <1>3, <1>5, <1>6, <1>7, <1>8, <1>9, <1>10

(* acquire *)
LEMMA AcquiredJoins ==
    ASSUME NEW x \in Chan, ChanOK(x), NEW u \in Users, ~In(x, u)
    PROVE  LET y == Acquired(x, u) IN
           /\ Joins(u, x, y) /\ In(y, u)
           /\ y.tag = x.tag /\ y.req = x.req /\ y.rsp = x.rsp /\ y.bell = x.bell
           /\ y.owner # u => y.owner = x.owner
           /\ y.owner = u => x.owner = NoOne
<1> DEFINE y == Acquired(x, u)
<1>0. x.waiters \in Seq(Users) /\ NoOne \notin Users
  BY Names DEF Chan
<1>1. CASE x.owner = NoOne /\ x.waiters = <<>>
  <2>1. y = [x EXCEPT !.owner = u]
    BY <1>1 DEF Acquired
  <2>2. /\ y \in Chan /\ y.owner = u /\ y.waiters = <<>> /\ y.tag = x.tag /\ y.req = x.req
        /\ y.rsp = x.rsp /\ y.bell = x.bell
    BY <1>1, <2>1 DEF Chan
  <2>3. /\ \A v : ~Queued(x.waiters, v) /\ ~Queued(y.waiters, v) /\ NoneTwice(y.waiters)
    BY <1>1, <2>2 DEF Queued, NoneTwice
  <2>4. \A a, b : ~Before(y.waiters, a, b)
    BY <2>2 DEF Before
  <2>5. ChanOK(y)
    BY <2>2, <2>3 DEF ChanOK
  <2>6. Leaves(u, x, y)
    BY <1>0, <1>1, <2>2, <2>3 DEF Leaves
  <2>7. Joins(u, x, y)
    BY <2>2, <2>3, <2>4, <2>5, <2>6 DEF Joins, Ahead
  <2> QED BY <1>1, <2>2, <2>7 DEF In
<1>2. CASE ~(x.owner = NoOne /\ x.waiters = <<>>)
  <2>1. PICK w : w = Append(x.waiters, u)
    OBVIOUS
  <2>2. /\ w \in Seq(Users) /\ NoneTwice(w)
        /\ \A v : Queued(w, v) <=> Queued(x.waiters, v) \/ v = u
        /\ \A a, b : Before(w, a, b) => Before(x.waiters, a, b) \/ (b = u /\ Queued(x.waiters, a))
    BY <1>0, <2>1, Joined DEF ChanOK, In
  <2>3. y = [x EXCEPT !.waiters = w]
    BY <1>2, <2>1 DEF Acquired
  <2>4. /\ y \in Chan /\ y.owner = x.owner /\ y.waiters = w /\ y.tag = x.tag /\ y.req = x.req
        /\ y.rsp = x.rsp /\ y.bell = x.bell
    BY <2>2, <2>3 DEF Chan
  <2>5. ChanOK(y)
    BY <2>2, <2>4 DEF ChanOK, In
  <2>6. Leaves(u, x, y)
    BY <2>2, <2>4 DEF Leaves
  <2>7. \A a, b \in Users : Ahead(y, a, b) => Ahead(x, a, b) \/ b = u
    BY <2>2, <2>4 DEF Ahead
  <2>8. ASSUME NEW v \in Users PROVE ~Ahead(y, u, v)
    <3>1. ~Before(x.waiters, u, v)
      BY DEF Before, Queued, In
    <3> QED BY <2>2, <2>4, <3>1 DEF Ahead, In
  <2>9. Joins(u, x, y)
    BY <2>4, <2>5, <2>6, <2>7, <2>8 DEF Joins
  <2> QED BY <2>2, <2>4, <2>9 DEF In
<1> QED BY <1>1, <1>2

(* A free channel goes to the first who waits *)
LEMMA GivenMoves ==
    ASSUME NEW x \in Chan, ChanOK(x), x.owner = NoOne, x.waiters # <<>>
    PROVE  LET y == Given(x)
               h == Head(x.waiters)
           IN  /\ Moves(h, x, y) /\ h \in Users /\ Queued(x.waiters, h)
               /\ y.owner = h /\ y.tag = x.tag /\ y.req = x.req /\ y.rsp = x.rsp /\ y.bell = x.bell
<1> DEFINE y == Given(x)
<1>1. PICK h, w : h = Head(x.waiters) /\ w = Tail(x.waiters)
  OBVIOUS
<1>2. /\ h \in Users /\ w \in Seq(Users) /\ NoneTwice(w) /\ Queued(x.waiters, h)
      /\ \A v : Queued(w, v) <=> Queued(x.waiters, v) /\ v # h
      /\ \A a, b : Before(w, a, b) => Before(x.waiters, a, b)
      /\ \A b : Queued(w, b) => Before(x.waiters, h, b)
  BY <1>1, Left DEF Chan, ChanOK
<1>3. y = [x EXCEPT !.owner = h, !.waiters = w]
  BY <1>1 DEF Given
<1>4. /\ y \in Chan /\ y.owner = h /\ y.waiters = w /\ y.tag = x.tag /\ y.req = x.req
      /\ y.rsp = x.rsp /\ y.bell = x.bell
  BY <1>2, <1>3 DEF Chan
<1>5. ChanOK(y)
  BY <1>2, <1>4 DEF ChanOK
<1>6. Leaves(h, x, y)
  BY <1>2, <1>4, Names DEF Leaves
<1>7. \A a, b \in Users : Ahead(y, a, b) => Ahead(x, a, b)
  BY <1>2, <1>4 DEF Ahead
<1>8. Moves(h, x, y)
  BY <1>4, <1>5, <1>6, <1>7 DEF Moves
<1> HIDE DEF y
<1> QED BY <1>1, <1>2, <1>4, <1>8 DEF y

(* send_request *)
LEMMA SentGoes ==
    ASSUME NEW x \in Chan, ChanOK(x), NEW u \in Users, NEW m \in Msg, x.tag = NoOne
    PROVE  LET y == Sent(x, u, m) IN
           /\ Moves(u, x, y) /\ y.owner = x.owner /\ y.waiters = x.waiters
           /\ y.tag = u /\ y.req = m /\ y.bell = FALSE /\ y.rsp = x.rsp
<1> DEFINE y == Sent(x, u, m)
<1>1. y = [x EXCEPT !.tag = u, !.req = m]
  BY DEF Sent
<1>2. /\ y \in Chan /\ y.owner = x.owner /\ y.waiters = x.waiters /\ y.tag = u /\ y.req = m
      /\ y.rsp = x.rsp /\ y.bell = FALSE
  BY <1>1 DEF Chan, ChanOK
<1>3. ChanOK(y)
  BY <1>2, Names DEF ChanOK
<1>4. Leaves(u, x, y)
  BY <1>2, Names DEF Leaves
<1>5. Moves(u, x, y)
  BY <1>2, <1>3, <1>4 DEF Moves, Ahead
<1> QED BY <1>2, <1>5

LEMMA SentMoves ==
    ASSUME NEW x \in Chan, ChanOK(x), NEW u \in Users, NEW m \in Msg
    PROVE  Moves(u, x, Sent(x, u, m)) /\ Sent(x, u, m).owner = x.owner
<1>1. CASE x.tag = NoOne
  BY <1>1, SentGoes
<1>2. CASE x.tag # NoOne
  <2>1. Sent(x, u, m) = x
    BY <1>2 DEF Sent
  <2> QED BY <2>1, Stays
<1> QED BY <1>1, <1>2

(* The answer is taken *)
LEMMA ReceivedMoves ==
    ASSUME NEW x \in Chan, ChanOK(x), x.bell
    PROVE  LET y == Received(Rung(x)) IN
           /\ Moves(x.tag, x, y) /\ y.owner = x.owner /\ y.waiters = x.waiters
           /\ y.tag = NoOne /\ y.req = NoMsg /\ y.bell = FALSE /\ y.rsp = "None"
<1> DEFINE y == Received(Rung(x))
<1>1. y = [[x EXCEPT !.bell = FALSE] EXCEPT !.rsp = "None", !.tag = NoOne]
  BY DEF Received, Rung
<1>2. /\ y \in Chan /\ y.owner = x.owner /\ y.waiters = x.waiters /\ y.tag = NoOne /\ y.req = x.req
      /\ y.rsp = "None" /\ y.bell = FALSE
  BY <1>1 DEF Chan
<1>3. x.req = NoMsg
  BY DEF ChanOK
<1>4. ChanOK(y)
  BY <1>2, <1>3 DEF ChanOK
<1>5. Leaves(x.tag, x, y)
  BY <1>2, Names DEF Leaves
<1>6. Moves(x.tag, x, y)
  BY <1>2, <1>4, <1>5 DEF Moves, Ahead
<1> QED BY <1>2, <1>3, <1>6

(* The interrupt is taken and the answer left where it is *)
LEMMA RungMoves ==
    ASSUME NEW w, NEW x \in Chan, ChanOK(x), x.tag # NoOne
    PROVE  LET y == Rung(x) IN
           Moves(w, x, y) /\ y.owner = x.owner /\ y.waiters = x.waiters /\ y.tag = x.tag
<1> DEFINE y == Rung(x)
<1>1. y = [x EXCEPT !.bell = FALSE]
  BY DEF Rung
<1>2. /\ y \in Chan /\ y.owner = x.owner /\ y.waiters = x.waiters /\ y.tag = x.tag /\ y.req = x.req
      /\ y.rsp = x.rsp /\ y.bell = FALSE
  BY <1>1 DEF Chan
<1>3. ChanOK(y)
  BY <1>2 DEF ChanOK
<1>4. Moves(w, x, y)
  BY <1>2, <1>3 DEF Moves, Leaves, Ahead
<1> QED BY <1>2, <1>4

(* The channel is given back *)
LEMMA ReleasedMoves ==
    ASSUME NEW x \in Chan, ChanOK(x)
    PROVE  LET y == Released(x) IN
           /\ Moves(x.owner, x, y) /\ y.owner = NoOne /\ y.waiters = x.waiters /\ y.tag = x.tag
           /\ y.req = x.req /\ y.rsp = x.rsp /\ y.bell = x.bell
           /\ x.owner # NoOne => ~In(y, x.owner)
<1> DEFINE y == Released(x)
<1>1. y = [x EXCEPT !.owner = NoOne]
  BY DEF Released
<1>2. /\ y \in Chan /\ y.owner = NoOne /\ y.waiters = x.waiters /\ y.tag = x.tag /\ y.req = x.req
      /\ y.rsp = x.rsp /\ y.bell = x.bell
  BY <1>1 DEF Chan
<1>3. ~Queued(y.waiters, NoOne)
  <2>1. x.waiters \in Seq(Users)
    BY DEF Chan
  <2> QED BY <1>2, <2>1, Names DEF Queued
<1>4. ChanOK(y)
  BY <1>2, <1>3 DEF ChanOK
<1>5. Leaves(x.owner, x, y)
  BY <1>2, Names DEF Leaves
<1>6. Moves(x.owner, x, y)
  BY <1>2, <1>4, <1>5, Names DEF Moves, Ahead
<1>7. x.owner # NoOne => ~In(y, x.owner)
  BY <1>2 DEF In, ChanOK
<1> QED BY <1>2, <1>6, <1>7

-----------------------------------------------------------------------------
(* The users of the channels *)

States == {"Idle", "WaitIpcChannel", "WaitIpcResponse", "WaitFpIpcResponse", "WaitHsmIpcResponse"}
CntrlRec == [st : States, active : Fns \cup {NoFn}, pend : SUBSET Fns, nssr : SUBSET Fns,
             status : {"Invalid", "Enable", "Disable", "Migrate"},
             deferred : BOOLEAN, vfp : BOOLEAN, vhsm : BOOLEAN]
VflrRec == [st : States, active : Fns \cup {NoFn}, pend : SUBSET Fns]
CmdRec == [kind : Kinds \cup {"None"}, st : {"Idle", "WaitIpcChannel", "WaitIpcResponse", "WaitDeferred"},
           f : Fns \cup {NoFn}, left : 0..MaxQueues]
Debt == [u : Users \cup {NoOne}, f : Fns]

Asks(st) == st \in {"WaitIpcResponse", "WaitFpIpcResponse", "WaitHsmIpcResponse"}

(* A machine that needs both channels, in state k: at rest it is in none   *)
(* of the queues, and while it asks it owns both.                          *)
MachineOK(u, x, k) ==
    /\ k.st = "Idle" => \A c \in Channels : ~In(x[c], u)
    /\ \A c \in Channels : Queued(x[c].waiters, u) => k.st = "WaitIpcChannel"
    /\ Asks(k.st) => \A c \in Channels : x[c].owner = u
    /\ Asks(k.st) <=> k.active # NoFn

(* A command in state k: it has one request in progress at most, over a    *)
(* channel that it owns; a command that needs one channel is not in the    *)
(* queue of the other, and VfRestore is not in the second queue before it  *)
(* is through with the first.                                              *)
CmdOK(u, x, k) ==
    /\ k.st = "Idle" => \A c \in Channels : ~In(x[c], u)
    /\ k.kind = "None" => k.st = "Idle"
    /\ k.st # "Idle" => k.f \in Fns
    /\ \A c \in Channels : Queued(x[c].waiters, u) => k.st = "WaitIpcChannel"
    /\ \A c \in Channels : x[c].tag = u => x[c].owner = u /\ k.st = "WaitIpcResponse"
    /\ ~(x["Fp"].tag = u /\ x["Hsm"].tag = u)
    /\ k.kind = "OneFp" => ~In(x["Hsm"], u)
    /\ k.kind = "OneHsm" => ~In(x["Fp"], u)
    /\ k.kind = "Vf" /\ k.st \in {"WaitIpcResponse", "WaitDeferred"} =>
          \A c \in Channels : x[c].owner = u
    /\ k.kind = "Restore" /\ (Queued(x["Fp"].waiters, u) \/ x["Fp"].tag = u) => ~In(x["Hsm"], u)

(* Those who ask for both channels at once have them in the same order *)
Pairs(u) == u \in {"Cntrl", "Vflr"} \/ (u \in Cmds /\ cmd[u].kind = "Vf")
NoCross ==
    \A u, v \in Users : Pairs(u) /\ Pairs(v) => ~(Ahead(ch["Fp"], u, v) /\ Ahead(ch["Hsm"], v, u))

ShapeOK ==
    /\ ch \in [Channels -> Chan] /\ on \in [Channels -> SUBSET Fns]
    /\ owed \subseteq Debt /\ pipe \in Seq(Debt)
    /\ cc_en \subseteq Fns /\ ready \subseteq Fns /\ irq \in [Reasons -> SUBSET Fns]
    /\ cntrl \in CntrlRec /\ vflr \in VflrRec /\ cmd \in [Cmds -> CmdRec]

QueueInv ==
    /\ NoCross
    /\ \A c \in Channels : ChanOK(ch[c])
    /\ MachineOK("Cntrl", ch, cntrl) /\ MachineOK("Vflr", ch, vflr)
    /\ \A u \in Cmds : CmdOK(u, ch, cmd[u])

ChannelsInv == ShapeOK /\ QueueInv

(* How a channel gets from x to y in one step of w, which may join it *)
Goes(j, w, x, y) == Moves(w, x, y) \/ (j /\ Joins(w, x, y))

LEMMA GoesOn ==
    ASSUME NEW j, NEW w \in Users, NEW x, NEW y, NEW z, Goes(j, w, x, y), Moves(w, y, z)
    PROVE  Goes(j, w, x, z)
  BY MovesOn, JoinsOn DEF Goes

LEMMA MachineElsewhere ==
    ASSUME NEW w, NEW u \in Users, u # w, NEW x, NEW y, NEW k, MachineOK(u, x, k),
           \A c \in Channels : Leaves(w, x[c], y[c])
    PROVE  MachineOK(u, y, k)
  BY DEF MachineOK, Leaves, In

LEMMA CmdElsewhere ==
    ASSUME NEW w, NEW u \in Users, u # w, NEW x, NEW y, NEW k, CmdOK(u, x, k),
           \A c \in Channels : Leaves(w, x[c], y[c])
    PROVE  CmdOK(u, y, k)
<1>1. \A c \in Channels : /\ y[c].owner = u <=> x[c].owner = u
                          /\ Queued(y[c].waiters, u) <=> Queued(x[c].waiters, u)
                          /\ y[c].tag = u <=> x[c].tag = u
                          /\ In(y[c], u) <=> In(x[c], u)
  BY DEF Leaves, In
<1> QED BY <1>1, Names DEF CmdOK

(* The order of two users changes only when one of them joins: both        *)
(* queues at once, or one if he is not of those who need both              *)
LEMMA OrderKept ==
    ASSUME NoCross, NEW w \in Users, NEW j \in BOOLEAN,
           \A c \in Channels : Goes(j, w, ch[c], ch'[c]),
           \A u \in Users \ {w} : Pairs(u)' => Pairs(u),
           \/ ~Pairs(w)'
           \/ ~j /\ Pairs(w)
           \/ \A c \in Channels : ~In(ch[c], w)
    PROVE  NoCross'
<1> SUFFICES ASSUME NEW u \in Users, NEW v \in Users, Pairs(u)', Pairs(v)',
                    Ahead(ch'["Fp"], u, v), Ahead(ch'["Hsm"], v, u)
             PROVE  FALSE
  BY DEF NoCross
<1>1. /\ Goes(j, w, ch["Fp"], ch'["Fp"]) /\ Goes(j, w, ch["Hsm"], ch'["Hsm"])
  BY Names
<1>2. /\ Ahead(ch["Fp"], u, v) \/ (v = w /\ j)
      /\ Ahead(ch["Hsm"], v, u) \/ (u = w /\ j)
  BY <1>1 DEF Goes, Moves, Joins
<1>3. CASE \A c \in Channels : ~In(ch[c], w)
  <2>1. ASSUME NEW c \in Channels, NEW a \in Users PROVE ~Ahead(ch'[c], w, a)
    <3>1. ~Ahead(ch[c], w, a)
      BY <1>3, AheadIn
    <3> QED BY <3>1 DEF Goes, Moves, Joins
  <2>2. u # w /\ v # w
    BY <2>1, Names
  <2>3. Pairs(u) /\ Pairs(v)
    BY <2>2
  <2> QED BY <1>2, <2>2, <2>3 DEF NoCross
<1>4. CASE ~Pairs(w)'
  <2>1. u # w /\ v # w
    BY <1>4
  <2> QED BY <1>2, <2>1 DEF NoCross
<1>5. CASE ~j /\ Pairs(w)
  <2>1. Pairs(u) /\ Pairs(v)
    BY <1>5
  <2> QED BY <1>2, <1>5, <2>1 DEF NoCross
<1> QED BY <1>3, <1>4, <1>5

(* A step of one user keeps what is said of the others *)
LEMMA UserStep ==
    ASSUME QueueInv, NEW w \in Users, NEW j \in BOOLEAN,
           \A c \in Channels : Goes(j, w, ch[c], ch'[c]),
           IF w = "Cntrl" THEN MachineOK("Cntrl", ch', cntrl') ELSE cntrl' = cntrl,
           IF w = "Vflr" THEN MachineOK("Vflr", ch', vflr') ELSE vflr' = vflr,
           w \in Cmds => CmdOK(w, ch', cmd'[w]),
           \A u \in Cmds \ {w} : cmd'[u] = cmd[u],
           \/ ~j /\ (w \in Cmds => cmd'[w].kind \in {cmd[w].kind, "None"})
           \/ w \in Cmds /\ cmd'[w].kind # "Vf"
           \/ \A c \in Channels : ~In(ch[c], w)
    PROVE  QueueInv'
<1>1. \A c \in Channels : Leaves(w, ch[c], ch'[c]) /\ ChanOK(ch'[c])
  BY DEF Goes, Moves, Joins
<1>2. MachineOK("Cntrl", ch', cntrl')
  <2>1. CASE w # "Cntrl"
    <3>1. MachineOK("Cntrl", ch, cntrl) /\ cntrl' = cntrl
      BY <2>1 DEF QueueInv
    <3> QED BY <1>1, <2>1, <3>1, Names, MachineElsewhere
  <2> QED BY <2>1
<1>3. MachineOK("Vflr", ch', vflr')
  <2>1. CASE w # "Vflr"
    <3>1. MachineOK("Vflr", ch, vflr) /\ vflr' = vflr
      BY <2>1 DEF QueueInv
    <3> QED BY <1>1, <2>1, <3>1, Names, MachineElsewhere
  <2> QED BY <2>1
<1>4. ASSUME NEW u \in Cmds PROVE CmdOK(u, ch', cmd'[u])
  <2>1. CASE u # w
    <3>1. CmdOK(u, ch, cmd[u]) /\ cmd'[u] = cmd[u]
      BY <2>1 DEF QueueInv
    <3> QED BY <1>1, <2>1, <3>1, Names, CmdElsewhere
  <2> QED BY <2>1
<1>5. NoCross'
  <2>1. \A u \in Users \ {w} : Pairs(u)' => Pairs(u)
    BY DEF Pairs
  <2>2. \/ ~Pairs(w)'
        \/ ~j /\ Pairs(w)
        \/ \A c \in Channels : ~In(ch[c], w)
    BY Names DEF Pairs
  <2> QED BY <2>1, <2>2, OrderKept DEF QueueInv
<1> QED BY <1>1, <1>2, <1>3, <1>4, <1>5 DEF QueueInv

LEMMA LowestIn ==
    ASSUME NEW S, S \subseteq Fns, S # {}
    PROVE  Lowest(S) \in S
<1> DEFINE R == OpToRel(<, Nat)
<1>0. S \subseteq Nat
  BY Names DEF Fns
<1>1. PICK x \in S : \A y \in S : ~(<<y, x>> \in R)
  BY <1>0, WFMin, NatLessThanWellFounded
<1>2. \A y \in S : ~(y < x)
  BY <1>0, <1>1 DEF OpToRel
<1>3. \A y \in S : x <= y
  BY <1>0, <1>2
<1> QED
  BY <1>3 DEF Lowest

LEMMA Rests ==
    /\ CntrlIdle \in CntrlRec /\ CntrlIdle.st = "Idle" /\ CntrlIdle.active = NoFn
    /\ CntrlIdle.pend = {} /\ CntrlIdle.nssr = {} /\ CntrlIdle.deferred = FALSE
    /\ VflrIdle \in VflrRec /\ VflrIdle.st = "Idle" /\ VflrIdle.active = NoFn /\ VflrIdle.pend = {}
    /\ CmdIdle \in CmdRec /\ CmdIdle.st = "Idle" /\ CmdIdle.kind = "None" /\ CmdIdle.f = NoFn
<1>1. MaxQueues \in Nat
  BY ControlAssumption
<1>2. /\ CntrlIdle \in CntrlRec /\ CntrlIdle.st = "Idle" /\ CntrlIdle.active = NoFn
      /\ CntrlIdle.pend = {} /\ CntrlIdle.nssr = {} /\ CntrlIdle.deferred = FALSE
  BY DEF CntrlIdle, CntrlRec, States
<1>3. VflrIdle \in VflrRec /\ VflrIdle.st = "Idle" /\ VflrIdle.active = NoFn /\ VflrIdle.pend = {}
  BY DEF VflrIdle, VflrRec, States
<1>4. CmdIdle \in CmdRec /\ CmdIdle.st = "Idle" /\ CmdIdle.kind = "None" /\ CmdIdle.f = NoFn
  BY <1>1 DEF CmdIdle, CmdRec
<1> QED BY <1>2, <1>3, <1>4

(* The channels x as w has them before it sends or gives them back *)
Ready(w, x) == /\ x \in [Channels -> Chan]
               /\ \A c \in Channels : ChanOK(x[c]) /\ x[c].owner = w

(* Both are given back ... *)
LEMMA BothGivenBack ==
    ASSUME NEW w \in Users, NEW x, Ready(w, x), NEW y, y = BothReleased(x)
    PROVE  /\ y \in [Channels -> Chan]
           /\ \A c \in Channels : /\ Moves(w, x[c], y[c]) /\ ~In(y[c], w) /\ y[c].owner = NoOne
                                  /\ y[c].tag = x[c].tag /\ y[c].req = x[c].req
                                  /\ y[c].rsp = x[c].rsp /\ y[c].bell = x[c].bell
<1>0. y = [c \in Channels |-> Released(x[c])]
  BY DEF BothReleased
<1>1. ASSUME NEW c \in Channels
      PROVE  /\ y[c] \in Chan /\ Moves(w, x[c], y[c]) /\ ~In(y[c], w) /\ y[c].owner = NoOne
             /\ y[c].tag = x[c].tag /\ y[c].req = x[c].req
             /\ y[c].rsp = x[c].rsp /\ y[c].bell = x[c].bell
  <2>1. x[c] \in Chan /\ ChanOK(x[c]) /\ x[c].owner = w /\ w # NoOne /\ y[c] = Released(x[c])
    BY <1>0, Names DEF Ready
  <2>2. /\ Moves(w, x[c], y[c]) /\ y[c].owner = NoOne /\ y[c].tag = x[c].tag /\ ~In(y[c], w)
        /\ y[c].req = x[c].req /\ y[c].rsp = x[c].rsp /\ y[c].bell = x[c].bell
    BY <2>1, ReleasedMoves
  <2> QED BY <2>2 DEF Moves
<1> QED BY <1>0, <1>1

(* ... or carry a request each *)
Carries(w, x, y, m) ==
    /\ y \in [Channels -> Chan]
    /\ \A c \in Channels : /\ Moves(w, x[c], y[c]) /\ y[c].owner = w
                           /\ y[c].tag = w /\ y[c].req = m[c] /\ y[c].bell = FALSE
                           /\ y[c].rsp = x[c].rsp

LEMMA BothSent ==
    ASSUME NEW w \in Users, NEW x, Ready(w, x), BothFree(x), NEW m \in [Channels -> Msg],
           NEW y, y = [c \in Channels |-> Sent(x[c], w, m[c])]
    PROVE  Carries(w, x, y, m)
<1>1. ASSUME NEW c \in Channels
      PROVE  /\ y[c] \in Chan /\ Moves(w, x[c], y[c]) /\ y[c].owner = w
             /\ y[c].tag = w /\ y[c].req = m[c] /\ y[c].bell = FALSE /\ y[c].rsp = x[c].rsp
  <2>1. x[c] \in Chan /\ ChanOK(x[c]) /\ x[c].owner = w /\ x[c].tag = NoOne /\ m[c] \in Msg
    BY DEF Ready, BothFree
  <2>2. y[c] = Sent(x[c], w, m[c])
    OBVIOUS
  <2>3. PICK a \in Chan, b \in Msg : a = x[c] /\ b = m[c]
    BY <2>1
  <2>4. PICK z : z = Sent(a, w, b)
    OBVIOUS
  <2>a. ChanOK(a) /\ a.tag = NoOne
    BY <2>1, <2>3
  <2>5. Moves(w, a, z)
    BY <2>a, <2>4, SentGoes
  <2>b. z.tag = w /\ z.req = b /\ z.rsp = a.rsp
    BY ZenonT(30), <2>a, <2>4, SentGoes
  <2>d. z.owner = a.owner
    BY <2>a, <2>4, SentMoves
  <2>c. z.bell = FALSE
    BY <2>a, <2>4, SentGoes
  <2>6. y[c] = z
    BY <2>2, <2>3, <2>4
  <2>7. z \in Chan
    BY <2>5 DEF Moves
  <2> QED BY <2>1, <2>3, <2>5, <2>b, <2>c, <2>d, <2>6, <2>7
<1>2. y \in [Channels -> Chan]
  BY <1>1 DEF Ready
<1> QED BY <1>1, <1>2 DEF Carries

(* What is left of a request that was refused: both channels are given     *)
(* back, and FP may have a request that nobody waits for, about a function *)
(* that is adrift                                                          *)
GivenUp(w, x, y) ==
    /\ y \in [Channels -> Chan]
    /\ \A c \in Channels : Moves(w, x[c], y[c]) /\ ~In(y[c], w)
Strays(w, x, y, d, e) ==
    /\ d \subseteq e /\ e \subseteq d \cup Fns
    /\ \A c \in Channels : /\ y[c].owner = NoOne /\ y[c].rsp = x[c].rsp /\ y[c].bell = x[c].bell
                           /\ \/ y[c].tag = x[c].tag /\ y[c].req = x[c].req
                              \/ x[c].tag = NoOne /\ y[c].tag = w /\ y[c].req \in Msg /\ y[c].req.f \in e

Offered(w, x, y, e) ==
    /\ Moves(w, x, y) /\ y.rsp = x.rsp /\ y.bell = x.bell
    /\ \/ y.tag = x.tag /\ y.req = x.req
       \/ x.tag = NoOne /\ y.tag = w /\ y.req \in Msg /\ y.req.f \in e

LEMMA OfferedBack ==
    ASSUME NEW w \in Users, NEW x, NEW y, Ready(w, y), NEW z, z = BothReleased(y), NEW d, NEW e,
           d \subseteq e, e \subseteq d \cup Fns, \A c \in Channels : Offered(w, x[c], y[c], e)
    PROVE  GivenUp(w, x, z) /\ Strays(w, x, z, d, e)
<1>1. z \in [Channels -> Chan]
  BY BothGivenBack
<1>2. \A c \in Channels : Moves(w, y[c], z[c]) /\ ~In(z[c], w) /\ z[c].owner = NoOne
  BY BothGivenBack
<1>3. \A c \in Channels : z[c].tag = y[c].tag /\ z[c].req = y[c].req
  BY BothGivenBack
<1>4. \A c \in Channels : z[c].rsp = y[c].rsp /\ z[c].bell = y[c].bell
  BY BothGivenBack
<1>5. GivenUp(w, x, z)
  BY <1>1, <1>2, MovesOn DEF GivenUp, Offered
<1>6. Strays(w, x, z, d, e)
  BY <1>2, <1>3, <1>4 DEF Strays, Offered
<1> QED BY <1>5, <1>6

LEMMA BothRefused ==
    ASSUME NEW w \in Users, NEW x, Ready(w, x), NEW m \in Msg, NEW y, NEW z, NEW d, NEW e,
           y = [x EXCEPT !["Fp"] = Sent(@, w, m)], z = BothReleased(y),
           e = IF x["Fp"].tag = NoOne THEN d \cup {m.f} ELSE d
    PROVE  GivenUp(w, x, z) /\ Strays(w, x, z, d, e)
<1>0. m.f \in Fns
  BY DEF Msg
<1>1. ASSUME NEW c \in Channels
      PROVE  /\ y[c] \in Chan /\ Moves(w, x[c], y[c]) /\ y[c].owner = w /\ ChanOK(y[c])
             /\ y[c].rsp = x[c].rsp /\ y[c].bell = x[c].bell
             /\ \/ y[c].tag = x[c].tag /\ y[c].req = x[c].req
                \/ x[c].tag = NoOne /\ y[c].tag = w /\ y[c].req \in Msg /\ y[c].req.f \in e
  <2>1. x[c] \in Chan /\ ChanOK(x[c]) /\ x[c].owner = w
    BY DEF Ready
  <2>2. CASE c = "Fp" /\ x[c].tag = NoOne
    <3>1. y[c] = Sent(x[c], w, m)
      BY <2>2 DEF Ready
    <3>a. PICK b \in Chan : b = x[c]
      BY <2>1
    <3>b. ChanOK(b) /\ b.tag = NoOne
      BY <2>1, <2>2, <3>a
    <3>2. PICK a : a = Sent(b, w, m)
      OBVIOUS
    <3>c. Moves(w, b, a)
      BY <3>2, <3>b, SentGoes
    <3>d. a.owner = b.owner /\ a.tag = w
      BY ZenonT(30), <3>2, <3>b, SentGoes
    <3>e. a.req = m /\ a.rsp = b.rsp
      BY ZenonT(30), <3>2, <3>b, SentGoes
    <3>f. a.bell = FALSE
      BY <3>2, <3>b, SentGoes
    <3>3. /\ Moves(w, x[c], a) /\ a.owner = x[c].owner
          /\ a.tag = w /\ a.req = m /\ a.bell = FALSE /\ a.rsp = x[c].rsp
      BY <3>a, <3>c, <3>d, <3>e, <3>f
    <3>4. x[c].bell = FALSE
      BY <2>1, <2>2 DEF ChanOK, Chan
    <3>5. m.f \in e
      BY <2>2
    <3> QED BY <2>1, <2>2, <3>1, <3>2, <3>a, <3>3, <3>4, <3>5 DEF Moves
  <2>3. CASE ~(c = "Fp" /\ x[c].tag = NoOne)
    <3>1. y[c] = x[c]
      BY <2>3 DEF Ready, Sent
    <3> QED BY <2>1, <3>1, Stays
  <2> QED BY <2>2, <2>3
<1>2. y \in [Channels -> Chan]
  BY <1>1 DEF Ready
<1>3. Ready(w, y)
  BY <1>1, <1>2 DEF Ready
<1>6. d \subseteq e /\ e \subseteq d \cup Fns
  BY <1>0
<1>7. \A c \in Channels : Offered(w, x[c], y[c], e)
  BY <1>1 DEF Offered
<1>8. PICK v, g : v = y /\ g = e
  OBVIOUS
<1>9. PICK b : b = BothReleased(v)
  OBVIOUS
<1>10. Ready(w, v) /\ d \subseteq g /\ g \subseteq d \cup Fns /\ \A c \in Channels : Offered(w, x[c], v[c], g)
  BY <1>3, <1>6, <1>7, <1>8
<1>11. GivenUp(w, x, b) /\ Strays(w, x, b, d, g)
  BY <1>9, <1>10, OfferedBack
<1> QED BY <1>8, <1>9, <1>11

(* What update_cntrl_state does: it rests, asks for the next change, or    *)
(* has been refused                                                        *)
CntrlRests(x, d) == ch' = BothReleased(x) /\ cntrl' = CntrlIdle /\ adrift' = d
CntrlMsg(op, f) ==
    [c \in Channels |-> Message(IF c = "Hsm" \/ op = "Enable" THEN op ELSE "Disable", f)]
CntrlSends(x, p, n, r, d) ==
    \E f \in Fns, op \in {"Enable", "Disable", "Migrate"} :
        /\ BothFree(x) /\ Carries("Cntrl", x, ch', CntrlMsg(op, f))
        /\ (f \in p /\ Changing(f, r) /\ (op = "Enable" <=> f \in cc_en)) \/ (f \in n /\ op = "Migrate")
        /\ op = "Enable" => f \notin r
        /\ adrift' = d \ {f}
        /\ cntrl' \in CntrlRec /\ cntrl'.st = "WaitIpcResponse" /\ cntrl'.active = f
        /\ cntrl'.status = op /\ cntrl'.deferred = FALSE /\ cntrl'.vfp = FALSE /\ cntrl'.vhsm = FALSE
        /\ cntrl'.nssr \subseteq n
CntrlGivesUp(x, d) ==
    /\ ~BothFree(x) /\ cntrl' = CntrlIdle
    /\ GivenUp("Cntrl", x, ch') /\ Strays("Cntrl", x, ch', d, adrift')

LEMMA UpdateCases ==
    ASSUME NEW x, Ready("Cntrl", x), NEW p \in SUBSET Fns, NEW n \in SUBSET Fns, NEW r, NEW d,
           UpdateCntrlState(x, p, n, r, d)
    PROVE  CntrlRests(x, d) \/ CntrlSends(x, p, n, r, d) \/ CntrlGivesUp(x, d)
<1> DEFINE todo == {f \in p : Changing(f, r)}
           f == IF todo # {} THEN Lowest(todo) ELSE Lowest(n)
           op == CASE todo = {} -> "Migrate"
                   [] todo # {} /\ f \in cc_en -> "Enable"
                   [] OTHER -> "Disable"
           y == [x EXCEPT !["Fp"] = Sent(@, "Cntrl", Message(IF op = "Enable" THEN op ELSE "Disable", f))]
<1>1. CASE todo = {} /\ n = {}
  BY <1>1 DEF UpdateCntrlState, CntrlRests
<1>2. CASE ~(todo = {} /\ n = {})
  <2>1. /\ f \in Fns /\ op \in {"Enable", "Disable", "Migrate"}
        /\ (f \in p /\ Changing(f, r) /\ (op = "Enable" <=> f \in cc_en)) \/ (f \in n /\ op = "Migrate")
        /\ op = "Enable" => f \notin r
    <3>1. CASE todo # {}
      <4>1. f \in todo
        BY <3>1, LowestIn
      <4>2. op = IF f \in cc_en THEN "Enable" ELSE "Disable"
        BY <3>1
      <4> HIDE DEF op, f
      <4> QED BY <4>1, <4>2 DEF Changing
    <3>2. CASE todo = {}
      <4>1. f = Lowest(n) /\ op = "Migrate" /\ n # {}
        BY <1>2, <3>2
      <4>2. Lowest(n) \in n
        BY <4>1, LowestIn
      <4> HIDE DEF op, f
      <4> QED BY <4>1, <4>2
    <3> QED BY <3>1, <3>2
  <2>2. PICK g \in Fns, q \in {"Enable", "Disable", "Migrate"} : g = f /\ q = op
    BY <2>1
  <2>3. PICK m : m = CntrlMsg(q, g)
    OBVIOUS
  <2>4. /\ m \in [Channels -> Msg] /\ m["Hsm"] = Message(q, g)
        /\ m["Fp"] = Message(IF q = "Enable" THEN q ELSE "Disable", g)
    BY <2>3 DEF CntrlMsg, Msg, Message, Channels
  <2>5. CASE BothFree(x)
    <3>1. ch' = [[x EXCEPT !["Fp"] = Sent(@, "Cntrl", m["Fp"])]
                    EXCEPT !["Hsm"] = Sent(@, "Cntrl", m["Hsm"])]
      BY <1>2, <2>2, <2>4, <2>5 DEF UpdateCntrlState
    <3>2. cntrl' = [CntrlIdle EXCEPT
                     !.st = "WaitIpcResponse", !.active = g, !.status = q,
                     !.pend = IF todo = {} THEN {} ELSE Above(p, g),
                     !.nssr = IF todo = {} THEN n \ {g} ELSE n]
      BY <1>2, <2>2, <2>5 DEF UpdateCntrlState
    <3>a. adrift' = d \ {g}
      BY <1>2, <2>2, <2>5 DEF UpdateCntrlState
    <3>3. Carries("Cntrl", x, ch', m)
      <4>0. PICK z : z = ch'
        OBVIOUS
      <4>1. z = [[x EXCEPT !["Fp"] = Sent(@, "Cntrl", m["Fp"])]
                    EXCEPT !["Hsm"] = Sent(@, "Cntrl", m["Hsm"])]
        BY <3>1, <4>0
      <4>2. z = [c \in Channels |-> Sent(x[c], "Cntrl", m[c])]
        BY <4>1 DEF Ready, Channels
      <4>a. "Cntrl" \in Users
        BY Names
      <4> HIDE DEF todo, f, op, y
      <4>3. Carries("Cntrl", x, z, m)
        BY <2>4, <2>5, <4>2, <4>a, BothSent
      <4> QED BY <4>0, <4>3
    <3>4. Above(p, g) \subseteq Fns
      BY DEF Above
    <3>5. /\ cntrl' \in CntrlRec /\ cntrl'.st = "WaitIpcResponse" /\ cntrl'.active = g
          /\ cntrl'.status = q /\ cntrl'.deferred = FALSE /\ cntrl'.vfp = FALSE /\ cntrl'.vhsm = FALSE
          /\ cntrl'.nssr \subseteq n
      <4> HIDE DEF todo, f, op, y
      <4> QED BY <3>2, <3>4 DEF CntrlIdle, CntrlRec, States
    <3>6. /\ (g \in p /\ Changing(g, r) /\ (q = "Enable" <=> g \in cc_en)) \/ (g \in n /\ q = "Migrate")
          /\ q = "Enable" => g \notin r
      BY <2>1, <2>2
    <3> HIDE DEF todo, f, op, y
    <3> QED BY <2>3, <2>5, <3>3, <3>5, <3>6, <3>a DEF CntrlSends
  <2>6. CASE ~BothFree(x)
    <3>1. /\ ch' = BothReleased(y) /\ cntrl' = CntrlIdle
          /\ adrift' = IF x["Fp"].tag = NoOne THEN d \cup {g} ELSE d
      BY <1>2, <2>2, <2>6 DEF UpdateCntrlState
    <3>2. y = [x EXCEPT !["Fp"] = Sent(@, "Cntrl", m["Fp"])] /\ m["Fp"].f = g
      BY <2>2, <2>4 DEF Message
    <3> HIDE DEF todo, f, op, y
    <3>3. PICK z, e : z = ch' /\ e = adrift'
      OBVIOUS
    <3>4. GivenUp("Cntrl", x, z) /\ Strays("Cntrl", x, z, d, e)
      BY <2>4, <3>1, <3>2, <3>3, Names, BothRefused
    <3> QED BY <2>6, <3>1, <3>3, <3>4 DEF CntrlGivesUp
  <2> QED BY <2>5, <2>6
<1> QED BY <1>1, <1>2

LEMMA UpdateKeeps ==
    ASSUME NEW x, Ready("Cntrl", x), NEW p \in SUBSET Fns, NEW n \in SUBSET Fns, NEW r, NEW d,
           UpdateCntrlState(x, p, n, r, d)
    PROVE  /\ ch' \in [Channels -> Chan] /\ cntrl' \in CntrlRec /\ MachineOK("Cntrl", ch', cntrl')
           /\ \A c \in Channels : Moves("Cntrl", x[c], ch'[c])
<1>1. CASE CntrlRests(x, d)
  <2>1. PICK y : y = ch'
    OBVIOUS
  <2>2. /\ y \in [Channels -> Chan]
        /\ \A c \in Channels : Moves("Cntrl", x[c], y[c]) /\ ~In(y[c], "Cntrl")
    BY <1>1, <2>1, Names, BothGivenBack DEF CntrlRests
  <2>3. cntrl' = CntrlIdle
    BY <1>1 DEF CntrlRests
  <2>4. MachineOK("Cntrl", y, cntrl')
    BY <2>2, <2>3, Rests DEF MachineOK, Asks, In
  <2> QED BY <2>1, <2>2, <2>3, <2>4, Rests
<1>2. CASE CntrlSends(x, p, n, r, d)
  <2>1. PICK f \in Fns, op \in {"Enable", "Disable", "Migrate"} :
          /\ Carries("Cntrl", x, ch', CntrlMsg(op, f))
          /\ cntrl' \in CntrlRec /\ cntrl'.st = "WaitIpcResponse" /\ cntrl'.active = f
    BY <1>2 DEF CntrlSends
  <2>2. /\ ch' \in [Channels -> Chan]
        /\ \A c \in Channels : Moves("Cntrl", x[c], ch'[c]) /\ ch'[c].owner = "Cntrl"
    BY <2>1 DEF Carries
  <2>3. \A c \in Channels : ~Queued(ch'[c].waiters, "Cntrl")
    BY <2>2 DEF Moves, ChanOK
  <2>4. MachineOK("Cntrl", ch', cntrl')
    BY <2>1, <2>2, <2>3, Names DEF MachineOK, Asks
  <2> QED BY <2>1, <2>2, <2>4
<1>3. CASE CntrlGivesUp(x, d)
  <2>1. MachineOK("Cntrl", ch', cntrl')
    BY <1>3, Rests DEF CntrlGivesUp, GivenUp, MachineOK, Asks, In
  <2> QED BY <1>3, <2>1, Rests DEF CntrlGivesUp, GivenUp
<1> QED BY <1>1, <1>2, <1>3, UpdateCases

-----------------------------------------------------------------------------
(* What the steps have in common *)

LEMMA BothJoin ==
    ASSUME ChannelsInv, NEW w \in Users, \A c \in Channels : ~In(ch[c], w), NEW x, x = BothAcquired(w)
    PROVE  /\ x \in [Channels -> Chan]
           /\ \A c \in Channels : /\ Joins(w, ch[c], x[c]) /\ In(x[c], w) /\ ChanOK(x[c])
                                  /\ x[c].tag = ch[c].tag /\ x[c].req = ch[c].req
                                  /\ x[c].rsp = ch[c].rsp /\ x[c].bell = ch[c].bell
                                  /\ x[c].owner # w => x[c].owner = ch[c].owner
                                  /\ x[c].owner = w => ch[c].owner = NoOne
<1>0. x = [c \in Channels |-> Acquired(ch[c], w)]
  BY DEF BothAcquired
<1>1. ASSUME NEW c \in Channels
      PROVE  /\ x[c] \in Chan /\ Joins(w, ch[c], x[c]) /\ In(x[c], w) /\ ChanOK(x[c])
             /\ x[c].tag = ch[c].tag /\ x[c].req = ch[c].req
             /\ x[c].rsp = ch[c].rsp /\ x[c].bell = ch[c].bell
             /\ x[c].owner # w => x[c].owner = ch[c].owner
             /\ x[c].owner = w => ch[c].owner = NoOne
  <2>1. PICK a \in Chan : a = ch[c]
    BY DEF ChannelsInv, ShapeOK
  <2>2. ChanOK(a) /\ ~In(a, w)
    BY <2>1 DEF ChannelsInv, QueueInv
  <2>3. PICK y : y = Acquired(a, w)
    OBVIOUS
  <2>4. Joins(w, a, y) /\ In(y, w)
    BY <2>2, <2>3, AcquiredJoins
  <2>5. y.tag = a.tag /\ y.req = a.req /\ y.rsp = a.rsp /\ y.bell = a.bell
    BY <2>2, <2>3, AcquiredJoins
  <2>6. (y.owner # w => y.owner = a.owner) /\ (y.owner = w => a.owner = NoOne)
    BY <2>2, <2>3, AcquiredJoins
  <2>7. x[c] = y
    BY <1>0, <2>1, <2>3
  <2>8. y \in Chan /\ ChanOK(y)
    BY <2>4 DEF Joins
  <2> QED BY <2>1, <2>4, <2>5, <2>6, <2>7, <2>8
<1> QED BY <1>0, <1>1

GivenAt(c) == [ch EXCEPT ![c] = Given(@)]
TakenAt(c) == [ch EXCEPT ![c] = Received(Rung(@))]

LEMMA GivenTo ==
    ASSUME ChannelsInv, NEW c \in Channels, NEW w, Granted(c, w), NEW x, x = GivenAt(c)
    PROVE  /\ x \in [Channels -> Chan] /\ w \in Users /\ Queued(ch[c].waiters, w) /\ x[c].owner = w
           /\ \A d \in Channels : ChanOK(x[d]) /\ Moves(w, ch[d], x[d])
           /\ \A d \in Channels \ {c} : x[d] = ch[d]
           /\ x[c].tag = ch[c].tag /\ x[c].req = ch[c].req
           /\ x[c].rsp = ch[c].rsp /\ x[c].bell = ch[c].bell /\ ch[c].owner = NoOne
<1>0. ch \in [Channels -> Chan] /\ \A d \in Channels : ch[d] \in Chan /\ ChanOK(ch[d])
  BY DEF ChannelsInv, ShapeOK, QueueInv
<1>1. PICK a \in Chan : a = ch[c]
  BY <1>0
<1>2. ChanOK(a) /\ a.owner = NoOne /\ a.waiters # <<>> /\ Head(a.waiters) = w
  BY <1>0, <1>1 DEF Granted
<1>3. PICK y : y = Given(a)
  OBVIOUS
<1>4. Moves(w, a, y) /\ w \in Users /\ Queued(a.waiters, w) /\ y.owner = w
  BY <1>2, <1>3, GivenMoves
<1>5. y.tag = a.tag /\ y.req = a.req /\ y.rsp = a.rsp /\ y.bell = a.bell
  BY <1>2, <1>3, GivenMoves
<1>6. y \in Chan /\ ChanOK(y)
  BY <1>4 DEF Moves
<1>7. x \in [Channels -> Chan] /\ x[c] = y /\ \A d \in Channels \ {c} : x[d] = ch[d]
  BY <1>0, <1>1, <1>3, <1>6 DEF GivenAt
<1>8. \A d \in Channels : ChanOK(x[d]) /\ Moves(w, ch[d], x[d])
  BY <1>0, <1>1, <1>4, <1>6, <1>7, Stays
<1> QED BY <1>1, <1>2, <1>4, <1>5, <1>7, <1>8

(* The users have the same places, and nothing is left of a request *)
SamePlaces(a, b) == b.owner = a.owner /\ b.waiters = a.waiters
Emptied(a) == a.tag = NoOne /\ a.req = NoMsg /\ a.bell = FALSE /\ a.rsp = "None"

LEMMA AnswerTaken ==
    ASSUME ChannelsInv, NEW c \in Channels, ch[c].bell,
           NEW x, x = TakenAt(c)
    PROVE  /\ x \in [Channels -> Chan]
           /\ \A d \in Channels : ChanOK(x[d]) /\ Moves(ch[c].tag, ch[d], x[d]) /\ SamePlaces(ch[d], x[d])
           /\ \A d \in Channels \ {c} : x[d] = ch[d]
           /\ Emptied(x[c])
<1>0. ch \in [Channels -> Chan] /\ \A d \in Channels : ch[d] \in Chan /\ ChanOK(ch[d])
  BY DEF ChannelsInv, ShapeOK, QueueInv
<1>1. PICK a \in Chan : a = ch[c]
  BY <1>0
<1>2. ChanOK(a) /\ a.bell
  BY <1>0, <1>1
<1>3. PICK y : y = Received(Rung(a))
  OBVIOUS
<1>4. Moves(a.tag, a, y) /\ y.owner = a.owner /\ y.waiters = a.waiters
  BY <1>2, <1>3, ReceivedMoves
<1>5. y.tag = NoOne /\ y.req = NoMsg /\ y.bell = FALSE /\ y.rsp = "None"
  BY <1>2, <1>3, ReceivedMoves
<1>6. y \in Chan /\ ChanOK(y)
  BY <1>4 DEF Moves
<1>7. x \in [Channels -> Chan] /\ x[c] = y /\ \A d \in Channels \ {c} : x[d] = ch[d]
  BY <1>0, <1>1, <1>3, <1>6 DEF TakenAt
<1>8. \A d \in Channels : ChanOK(x[d]) /\ Moves(ch[c].tag, ch[d], x[d]) /\ SamePlaces(ch[d], x[d])
  BY <1>0, <1>1, <1>4, <1>6, <1>7, Stays DEF SamePlaces
<1> QED BY <1>5, <1>7, <1>8 DEF Emptied

(* The interrupt of an answer is taken, and nobody waits for the answer *)
LEMMA OnlyRung ==
    ASSUME ChannelsInv, NEW c \in Channels, ch[c].tag # NoOne, NEW w,
           NEW y, y = [ch EXCEPT ![c] = Rung(@)]
    PROVE  /\ y \in [Channels -> Chan]
           /\ \A d \in Channels : Moves(w, ch[d], y[d]) /\ SamePlaces(ch[d], y[d])
           /\ \A d \in Channels : /\ y[d].tag = ch[d].tag /\ y[d].req = ch[d].req
                                  /\ y[d].rsp = ch[d].rsp /\ (d # c => y[d] = ch[d])
<1>0. ch \in [Channels -> Chan] /\ \A d \in Channels : ch[d] \in Chan /\ ChanOK(ch[d])
  BY DEF ChannelsInv, ShapeOK, QueueInv
<1>1. PICK a \in Chan : a = ch[c]
  BY <1>0
<1>2. PICK b : b = Rung(a)
  OBVIOUS
<1>3. Moves(w, a, b) /\ b.owner = a.owner /\ b.waiters = a.waiters /\ b.tag = a.tag
  BY <1>0, <1>1, <1>2, RungMoves
<1>4. b.req = a.req /\ b.rsp = a.rsp /\ b \in Chan
  BY <1>2, <1>3 DEF Rung, Chan, Moves
<1>5. y \in [Channels -> Chan] /\ y[c] = b /\ \A d \in Channels \ {c} : y[d] = ch[d]
  BY <1>0, <1>1, <1>2, <1>4
<1>6. ASSUME NEW d \in Channels PROVE Moves(w, ch[d], y[d]) /\ SamePlaces(ch[d], y[d])
  BY <1>0, <1>1, <1>3, <1>5, Stays DEF SamePlaces
<1> QED BY <1>1, <1>3, <1>4, <1>5, <1>6

(* A core takes a request and answers: the users do not move *)
LEMMA CoreAnswers ==
    ASSUME ChannelsInv, NEW c \in Channels, ch[c].req # NoMsg, NEW r \in {"Success", "Pending", "Error"},
           ch' = Answered(c, r)
    PROVE  /\ ch' \in [Channels -> Chan]
           /\ \A d \in Channels : /\ ch'[d].owner = ch[d].owner /\ ch'[d].waiters = ch[d].waiters
                                  /\ ch'[d].tag = ch[d].tag
                                  /\ \A w \in Users : Moves(w, ch[d], ch'[d])
           /\ \A d \in Channels \ {c} : ch'[d] = ch[d]
           /\ ch'[c].rsp = r /\ ch'[c].req = NoMsg /\ ch'[c].bell = TRUE
           /\ ch[c].tag \in Users /\ ~ch[c].bell
<1>0. ch \in [Channels -> Chan] /\ \A d \in Channels : ch[d] \in Chan /\ ChanOK(ch[d])
  BY DEF ChannelsInv, ShapeOK, QueueInv
<1>1. PICK a \in Chan : a = ch[c]
  BY <1>0
<1>2. PICK y : y = [a EXCEPT !.req = NoMsg, !.rsp = r, !.bell = TRUE]
  OBVIOUS
<1>3. /\ y \in Chan /\ y.owner = a.owner /\ y.waiters = a.waiters /\ y.tag = a.tag
      /\ y.req = NoMsg /\ y.rsp = r /\ y.bell = TRUE
  BY <1>2 DEF Chan, Msg, NoMsg
<1>4. ChanOK(a) /\ a.req # NoMsg
  BY <1>0, <1>1
<1>5. a.tag # NoOne /\ a.tag \in Users /\ ~a.bell
  BY <1>4 DEF ChanOK, Chan
<1>6. ChanOK(y)
  BY <1>3, <1>4, <1>5 DEF ChanOK
<1>7. \A w \in Users : Moves(w, a, y)
  BY <1>3, <1>6 DEF Moves, Leaves, Ahead
<1>8. ch' \in [Channels -> Chan] /\ ch'[c] = y /\ \A d \in Channels \ {c} : ch'[d] = ch[d]
  BY <1>0, <1>1, <1>2, <1>3 DEF Answered
<1>9. ASSUME NEW d \in Channels, d # c
      PROVE  \A w \in Users : Moves(w, ch[d], ch'[d])
  BY <1>0, <1>8, <1>9, Stays
<1> QED BY <1>1, <1>3, <1>5, <1>7, <1>8, <1>9

-----------------------------------------------------------------------------
(* CntrlFsm and its channels *)

LEMMA CntrlTypes ==
    ASSUME ChannelsInv
    PROVE  /\ ch \in [Channels -> Chan] /\ cntrl \in CntrlRec /\ irq \in [Reasons -> SUBSET Fns]
           /\ MachineOK("Cntrl", ch, cntrl) /\ \A c \in Channels : ChanOK(ch[c])
           /\ cntrl.pend \in SUBSET Fns /\ cntrl.nssr \in SUBSET Fns /\ cntrl.active \in Fns \cup {NoFn}
           /\ QueueInv
  BY DEF ChannelsInv, ShapeOK, QueueInv, CntrlRec

LEMMA CntrlIrqKeeps ==
    ASSUME ChannelsInv, NEW reason \in {"change", "nssr"}, OnCntrlIrq(reason)
    PROVE  ChannelsInv'
<1> DEFINE p == IF reason = "change" THEN cntrl.pend \cup irq[reason] ELSE cntrl.pend
           n == IF reason = "nssr" THEN cntrl.nssr \cup irq[reason] ELSE cntrl.nssr
           x == BothAcquired("Cntrl")
<1>0. /\ ch \in [Channels -> Chan] /\ cntrl \in CntrlRec /\ irq \in [Reasons -> SUBSET Fns]
      /\ MachineOK("Cntrl", ch, cntrl) /\ \A c \in Channels : ChanOK(ch[c])
      /\ cntrl.pend \in SUBSET Fns /\ cntrl.nssr \in SUBSET Fns /\ QueueInv
  BY CntrlTypes
<1>1. /\ UNCHANGED <<on, owed, pipe, cc_en, ready, vflr, cmd>>
      /\ irq' \in [Reasons -> SUBSET Fns] /\ irq[reason] \in SUBSET Fns
  BY <1>0 DEF OnCntrlIrq, cntrlFrame, Reasons
<1>2. p \in SUBSET Fns /\ n \in SUBSET Fns
  BY <1>0, <1>1
<1>3. ASSUME ch' \in [Channels -> Chan], cntrl' \in CntrlRec PROVE ShapeOK'
  BY <1>1, <1>3 DEF ChannelsInv, ShapeOK
<1>4. CASE cntrl.st # "Idle"
  <2>1. cntrl' = [cntrl EXCEPT !.pend = p, !.nssr = n] /\ ch' = ch
    BY <1>4 DEF OnCntrlIrq
  <2> HIDE DEF p, n, x
  <2>2. cntrl' \in CntrlRec /\ cntrl'.st = cntrl.st /\ cntrl'.active = cntrl.active
    BY <1>0, <1>2, <2>1 DEF CntrlRec
  <2>3. MachineOK("Cntrl", ch', cntrl')
    BY <1>0, <2>1, <2>2 DEF MachineOK
  <2>4. \A c \in Channels : Goes(FALSE, "Cntrl", ch[c], ch'[c])
    BY <1>0, <2>1, Stays DEF Goes
  <2>5. QueueInv'
    BY <1>0, <1>1, <2>3, <2>4, Names, UserStep
  <2> QED BY <1>0, <1>3, <2>1, <2>2, <2>5 DEF ChannelsInv
<1>5. CASE cntrl.st = "Idle"
  <2>0. \A c \in Channels : ~In(ch[c], "Cntrl")
    BY <1>0, <1>5 DEF MachineOK
  <2>1. /\ x \in [Channels -> Chan]
        /\ \A c \in Channels : Joins("Cntrl", ch[c], x[c]) /\ In(x[c], "Cntrl") /\ ChanOK(x[c])
    BY <2>0, Names, BothJoin
  <2>2. CASE Both(x, "Cntrl")
    <3>1. UpdateCntrlState(x, p, n, ready, adrift)
      BY <1>5, <2>2 DEF OnCntrlIrq
    <3>2. Ready("Cntrl", x)
      BY <2>1, <2>2 DEF Ready, Both
    <3> HIDE DEF p, n, x
    <3>3. /\ ch' \in [Channels -> Chan] /\ cntrl' \in CntrlRec /\ MachineOK("Cntrl", ch', cntrl')
          /\ \A c \in Channels : Moves("Cntrl", x[c], ch'[c])
      BY <1>2, <3>1, <3>2, UpdateKeeps
    <3>4. \A c \in Channels : Goes(TRUE, "Cntrl", ch[c], ch'[c])
      BY <2>1, <3>3, Names, JoinsOn DEF Goes
    <3>5. QueueInv'
      BY <1>0, <1>1, <2>0, <3>3, <3>4, Names, UserStep
    <3> QED BY <1>3, <3>3, <3>5 DEF ChannelsInv
  <2>3. CASE ~Both(x, "Cntrl")
    <3>1. cntrl' = [cntrl EXCEPT !.st = "WaitIpcChannel", !.pend = p, !.nssr = n] /\ ch' = x
      BY <1>5, <2>3 DEF OnCntrlIrq
    <3> HIDE DEF p, n, x
    <3>2. cntrl' \in CntrlRec /\ cntrl'.st = "WaitIpcChannel" /\ cntrl'.active = cntrl.active
      BY <1>0, <1>2, <3>1 DEF CntrlRec, States
    <3>3. MachineOK("Cntrl", ch', cntrl')
      BY <1>0, <1>5, <3>2 DEF MachineOK, Asks
    <3>4. \A c \in Channels : Goes(TRUE, "Cntrl", ch[c], ch'[c])
      BY <2>1, <3>1 DEF Goes
    <3>5. QueueInv'
      BY <1>0, <1>1, <2>0, <3>3, <3>4, Names, UserStep
    <3> QED BY <1>3, <2>1, <3>1, <3>2, <3>5 DEF ChannelsInv
  <2> QED BY <2>2, <2>3
<1> QED BY <1>4, <1>5

LEMMA CntrlReadyKeeps ==
    ASSUME ChannelsInv, NEW c \in Channels, CntrlChannelReady(c)
    PROVE  ChannelsInv'
<1>x. PICK x : x = GivenAt(c)
  OBVIOUS
<1>0. /\ ch \in [Channels -> Chan] /\ cntrl \in CntrlRec
      /\ MachineOK("Cntrl", ch, cntrl) /\ \A d \in Channels : ChanOK(ch[d])
      /\ cntrl.pend \in SUBSET Fns /\ cntrl.nssr \in SUBSET Fns /\ QueueInv
  BY CntrlTypes
<1>1. UNCHANGED <<on, owed, pipe, cc_en, ready, vflr, cmd, irq>> /\ Granted(c, "Cntrl")
  BY DEF CntrlChannelReady, cntrlFrame
<1>2. /\ x \in [Channels -> Chan] /\ Queued(ch[c].waiters, "Cntrl") /\ x[c].owner = "Cntrl"
      /\ \A d \in Channels : ChanOK(x[d]) /\ Moves("Cntrl", ch[d], x[d])
  BY <1>1, <1>x, GivenTo
<1>3. ASSUME ch' \in [Channels -> Chan], cntrl' \in CntrlRec PROVE ShapeOK'
  BY <1>1, <1>3 DEF ChannelsInv, ShapeOK
<1>4. CASE Both(x, "Cntrl")
  <2>1. UpdateCntrlState(x, cntrl.pend, cntrl.nssr, ready, adrift)
    BY <1>4, <1>x DEF CntrlChannelReady, GivenAt
  <2>2. Ready("Cntrl", x)
    BY <1>2, <1>4 DEF Ready, Both
  <2>3. /\ ch' \in [Channels -> Chan] /\ cntrl' \in CntrlRec /\ MachineOK("Cntrl", ch', cntrl')
        /\ \A d \in Channels : Moves("Cntrl", x[d], ch'[d])
    BY <1>0, <2>1, <2>2, UpdateKeeps
  <2>4. \A d \in Channels : Goes(FALSE, "Cntrl", ch[d], ch'[d])
    BY <1>2, <2>3, MovesOn DEF Goes
  <2>5. QueueInv'
    BY <1>0, <1>1, <2>3, <2>4, Names, UserStep
  <2> QED BY <1>3, <2>3, <2>5 DEF ChannelsInv
<1>5. CASE ~Both(x, "Cntrl")
  <2>1. ch' = x /\ cntrl' = cntrl
    BY <1>5, <1>x DEF CntrlChannelReady, GivenAt
  <2>2. cntrl.st = "WaitIpcChannel"
    BY <1>0, <1>2 DEF MachineOK
  <2>3. MachineOK("Cntrl", ch', cntrl')
    BY <1>0, <2>1, <2>2 DEF MachineOK, Asks
  <2>4. \A d \in Channels : Goes(FALSE, "Cntrl", ch[d], ch'[d])
    BY <1>2, <2>1 DEF Goes
  <2>5. QueueInv'
    BY <1>0, <1>1, <2>3, <2>4, Names, UserStep
  <2> QED BY <1>0, <1>2, <1>3, <2>1, <2>5 DEF ChannelsInv
<1> QED BY <1>4, <1>5

LEMMA GoOnKeeps ==
    ASSUME NEW x, Ready("Cntrl", x), NEW k \in CntrlRec, Asks(k.st), k.active \in Fns,
           NEW r \in SUBSET Fns, NEW d, GoOn(x, k, r, d)
    PROVE  /\ ch' \in [Channels -> Chan] /\ cntrl' \in CntrlRec /\ MachineOK("Cntrl", ch', cntrl')
           /\ \A c \in Channels : Moves("Cntrl", x[c], ch'[c])
           /\ ready' \subseteq Fns
<1>1. ready' \subseteq Fns
  BY DEF GoOn
<1>2. CASE k.deferred
  <2>1. ch' = x /\ cntrl' = k
    BY <1>2 DEF GoOn
  <2>2. \A c \in Channels : Moves("Cntrl", x[c], x[c])
    BY Stays DEF Ready
  <2>3. \A c \in Channels : ~Queued(x[c].waiters, "Cntrl")
    BY DEF Ready, ChanOK
  <2>4. MachineOK("Cntrl", x, k)
    BY <2>3, Names DEF MachineOK, Ready, Asks
  <2> QED BY <1>1, <2>1, <2>2, <2>4 DEF Ready
<1>3. CASE ~k.deferred
  <2>1. UpdateCntrlState(x, k.pend, k.nssr, r, d)
    BY <1>3 DEF GoOn
  <2>2. k.pend \in SUBSET Fns /\ k.nssr \in SUBSET Fns
    BY DEF CntrlRec
  <2> QED BY <1>1, <2>1, <2>2, UpdateKeeps
<1> QED BY <1>2, <1>3

(* What complete does: the change is dropped, or RDY follows *)
CompleteDrops(x, k, d) ==
    /\ ~(k.vfp /\ k.vhsm) \/ k.status = "Enable"
    /\ GoOn(x, k, ready, d \cup {k.active})
CompleteFollows(x, k, d) ==
    /\ k.vfp /\ k.vhsm
    /\ \E r \in SUBSET Fns :
          /\ r = CASE k.status = "Enable" -> ready \cup {k.active}
                   [] k.status # "Enable" /\ k.deferred -> ready
                   [] OTHER -> ready \ {k.active}
          /\ GoOn(x, k, r, d)

LEMMA CompleteCases ==
    ASSUME NEW x, NEW k \in CntrlRec, k.active \in Fns, ready \subseteq Fns, NEW d, Complete(x, k, d)
    PROVE  CompleteDrops(x, k, d) \/ CompleteFollows(x, k, d)
<1>1. CASE ~(k.vfp /\ k.vhsm)
  BY <1>1 DEF Complete, CompleteDrops
<1>2. CASE k.vfp /\ k.vhsm
  <2>1. CASE k.status = "Enable"
    BY <1>2, <2>1 DEF Complete, CompleteDrops, CompleteFollows
  <2>2. CASE k.status # "Enable"
    <3>1. GoOn(x, k, IF k.deferred THEN ready ELSE ready \ {k.active}, d)
      BY <1>2, <2>2 DEF Complete
    <3>2. PICK r \in SUBSET Fns : r = IF k.deferred THEN ready ELSE ready \ {k.active}
      OBVIOUS
    <3> QED BY <1>2, <2>2, <3>1, <3>2 DEF CompleteFollows
  <2> QED BY <2>1, <2>2
<1> QED BY <1>1, <1>2

LEMMA CompleteKeeps ==
    ASSUME NEW x, Ready("Cntrl", x), NEW k \in CntrlRec, Asks(k.st), k.active \in Fns,
           ready \subseteq Fns, NEW d, Complete(x, k, d)
    PROVE  /\ ch' \in [Channels -> Chan] /\ cntrl' \in CntrlRec /\ MachineOK("Cntrl", ch', cntrl')
           /\ \A c \in Channels : Moves("Cntrl", x[c], ch'[c])
           /\ ready' \subseteq Fns
<1>1. PICK r \in SUBSET Fns : \E e : GoOn(x, k, r, e)
  BY CompleteCases DEF CompleteDrops, CompleteFollows
<1>2. PICK e : GoOn(x, k, r, e)
  BY <1>1
<1> QED BY <1>2, GoOnKeeps

(* A machine that asks has both channels *)
LEMMA AsksReady ==
    ASSUME NEW w \in Users, NEW x, x \in [Channels -> Chan], \A c \in Channels : ChanOK(x[c]),
           NEW k, MachineOK(w, x, k), Asks(k.st)
    PROVE  Ready(w, x) /\ k.active # NoFn
  BY DEF MachineOK, Ready

LEMMA CntrlAnsweredKeeps ==
    ASSUME ChannelsInv, NEW c \in Channels, NEW valid \in BOOLEAN, CntrlAnswered(c, valid)
    PROVE  ChannelsInv'
<1>x. PICK x : x = TakenAt(c)
  OBVIOUS
<1>k. PICK k : k = [cntrl EXCEPT !.vfp = IF c = "Fp" THEN valid ELSE @,
                           !.vhsm = IF c = "Hsm" THEN valid ELSE @,
                           !.deferred = IF c = "Hsm" /\ valid THEN ch[c].rsp = "Pending" ELSE @]
  OBVIOUS
<1>0. /\ ch \in [Channels -> Chan] /\ cntrl \in CntrlRec
      /\ MachineOK("Cntrl", ch, cntrl) /\ \A d \in Channels : ChanOK(ch[d])
      /\ cntrl.active \in Fns \cup {NoFn} /\ QueueInv
  BY CntrlTypes
<1>1. /\ UNCHANGED <<on, owed, pipe, cc_en, vflr, cmd, irq>> /\ ch[c].bell /\ ch[c].tag = "Cntrl"
      /\ ready \subseteq Fns
  BY DEF CntrlAnswered, ChannelsInv, ShapeOK
<1>2. x \in [Channels -> Chan]
  BY <1>1, <1>x, AnswerTaken
<1>r. ch[c].bell
  BY <1>1
<1>b. \A d \in Channels : ChanOK(x[d]) /\ Moves(ch[c].tag, ch[d], x[d]) /\ SamePlaces(ch[d], x[d])
  BY <1>r, <1>x, AnswerTaken
<1>a. \A d \in Channels : /\ ChanOK(x[d]) /\ Moves("Cntrl", ch[d], x[d])
                          /\ x[d].owner = ch[d].owner /\ x[d].waiters = ch[d].waiters
  BY <1>1, <1>b DEF SamePlaces
<1>3. ASSUME ch' \in [Channels -> Chan], cntrl' \in CntrlRec, ready' \subseteq Fns PROVE ShapeOK'
  BY <1>1, <1>3 DEF ChannelsInv, ShapeOK
<1>4. ASSUME ch' \in [Channels -> Chan], cntrl' \in CntrlRec, ready' \subseteq Fns,
             MachineOK("Cntrl", ch', cntrl'), \A d \in Channels : Moves("Cntrl", ch[d], ch'[d])
      PROVE  ChannelsInv'
  <2>1. \A d \in Channels : Goes(FALSE, "Cntrl", ch[d], ch'[d])
    BY <1>4 DEF Goes
  <2>2. QueueInv'
    BY <1>0, <1>1, <1>4, <2>1, Names, UserStep
  <2> QED BY <1>3, <1>4, <2>2 DEF ChannelsInv
<1>5. k \in CntrlRec /\ k.st = cntrl.st /\ k.active = cntrl.active
  BY <1>0, <1>k DEF CntrlRec
<1>6. MachineOK("Cntrl", x, cntrl)
  BY <1>0, <1>a DEF MachineOK, In
<1>7. CASE ~AwaitedBy(cntrl.st, c)
  <2>1. ch' = [ch EXCEPT ![c] = Rung(@)] /\ cntrl' = cntrl /\ ready' = ready
    BY <1>7 DEF CntrlAnswered
  <2>2. PICK y : y = ch'
    OBVIOUS
  <2>7. y \in [Channels -> Chan]
    BY <1>1, <2>1, <2>2, Names, OnlyRung
  <2>6. \A d \in Channels : Moves("Cntrl", ch[d], y[d]) /\ SamePlaces(ch[d], y[d])
    BY <1>1, <2>1, <2>2, Names, OnlyRung
  <2>8. \A d \in Channels : /\ Moves("Cntrl", ch[d], ch'[d]) /\ ch'[d].owner = ch[d].owner
                            /\ ch'[d].waiters = ch[d].waiters
    BY <2>2, <2>6 DEF SamePlaces
  <2>9. MachineOK("Cntrl", ch', cntrl')
    BY <1>0, <2>1, <2>8 DEF MachineOK, In
  <2> QED BY <1>0, <1>1, <1>4, <2>1, <2>2, <2>7, <2>8, <2>9
<1>8. CASE cntrl.st = "WaitIpcResponse"
  <2>1. cntrl' = [k EXCEPT !.st = AwaitOther(c)] /\ ch' = x /\ ready' = ready
    BY <1>8, <1>x, <1>k DEF CntrlAnswered, TakenAt, AwaitedBy
  <2>2. /\ cntrl' \in CntrlRec /\ cntrl'.active = cntrl.active
        /\ cntrl'.st \in {"WaitFpIpcResponse", "WaitHsmIpcResponse"}
    BY <1>5, <2>1 DEF CntrlRec, States, AwaitOther
  <2>3. MachineOK("Cntrl", x, cntrl')
    BY <1>6, <1>8, <2>2 DEF MachineOK, Asks
  <2> QED BY <1>1, <1>2, <1>4, <1>a, <2>1, <2>2, <2>3
<1>9. CASE AwaitedBy(cntrl.st, c) /\ cntrl.st # "WaitIpcResponse"
  <2>1. PICK e : Complete(x, k, e)
    BY <1>9, <1>x, <1>k DEF CntrlAnswered, TakenAt
  <2>2. Asks(cntrl.st)
    BY <1>9 DEF AwaitedBy, Asks
  <2>3. Ready("Cntrl", x) /\ cntrl.active \in Fns
    BY <1>0, <1>2, <1>6, <1>a, <2>2, Names, AsksReady
  <2>4. /\ ch' \in [Channels -> Chan] /\ cntrl' \in CntrlRec /\ MachineOK("Cntrl", ch', cntrl')
        /\ \A d \in Channels : Moves("Cntrl", x[d], ch'[d])
        /\ ready' \subseteq Fns
    BY <1>1, <1>5, <2>1, <2>2, <2>3, CompleteKeeps
  <2>5. \A d \in Channels : Moves("Cntrl", ch[d], ch'[d])
    BY <1>a, <2>4, MovesOn
  <2> QED BY <1>4, <2>4, <2>5
<1> QED BY <1>7, <1>8, <1>9

(* The head of the pipe is taken *)
LEMMA PipeTaken ==
    ASSUME NEW s \in Seq(Debt), s # <<>>
    PROVE  Head(s) \in Debt /\ Tail(s) \in Seq(Debt)
  OBVIOUS

LEMMA CntrlDeferredKeeps ==
    ASSUME ChannelsInv, CntrlDeferred
    PROVE  ChannelsInv'
<1>0. /\ ch \in [Channels -> Chan] /\ cntrl \in CntrlRec
      /\ MachineOK("Cntrl", ch, cntrl) /\ \A d \in Channels : ChanOK(ch[d]) /\ QueueInv
  BY CntrlTypes
<1>1. /\ UNCHANGED <<on, owed, cc_en, vflr, cmd, irq>> /\ pipe # <<>> /\ pipe' = Tail(pipe)
      /\ ready \subseteq Fns /\ pipe \in Seq(Debt)
  BY DEF CntrlDeferred, ChannelsInv, ShapeOK
<1>2. pipe' \in Seq(Debt) /\ Head(pipe).f \in Fns
  BY <1>1, PipeTaken DEF Debt
<1>3. ASSUME ch' \in [Channels -> Chan], cntrl' \in CntrlRec, ready' \subseteq Fns PROVE ShapeOK'
  BY <1>1, <1>2, <1>3 DEF ChannelsInv, ShapeOK
<1>4. ASSUME ch' \in [Channels -> Chan], cntrl' \in CntrlRec, ready' \subseteq Fns,
             MachineOK("Cntrl", ch', cntrl'), \A d \in Channels : Moves("Cntrl", ch[d], ch'[d])
      PROVE  ChannelsInv'
  <2>1. \A d \in Channels : Goes(FALSE, "Cntrl", ch[d], ch'[d])
    BY <1>4 DEF Goes
  <2>2. QueueInv'
    BY <1>0, <1>1, <1>4, <2>1, Names, UserStep
  <2> QED BY <1>3, <1>4, <2>2 DEF ChannelsInv
<1>5. CASE cntrl.active = Head(pipe).f
  <2>1. PICK k : k = [cntrl EXCEPT !.deferred = FALSE]
    OBVIOUS
  <2>2. Complete(ch, k, adrift)
    BY <1>5, <2>1 DEF CntrlDeferred
  <2>3. k \in CntrlRec /\ k.st = cntrl.st /\ k.active = cntrl.active
    BY <1>0, <2>1 DEF CntrlRec
  <2>4. Asks(cntrl.st) /\ cntrl.active \in Fns
    BY <1>0, <1>2, <1>5, Names DEF MachineOK
  <2>5. Ready("Cntrl", ch)
    BY <1>0, <2>4, Names, AsksReady
  <2> QED BY <1>1, <1>4, <2>2, <2>3, <2>4, <2>5, CompleteKeeps
<1>6. CASE cntrl.active # Head(pipe).f
  <2>1. ch' = ch /\ cntrl' = cntrl /\ ready' = ready
    BY <1>6 DEF CntrlDeferred
  <2>2. \A d \in Channels : Moves("Cntrl", ch[d], ch[d])
    BY <1>0, Stays
  <2> QED BY <1>0, <1>1, <1>4, <2>1, <2>2
<1> QED BY <1>5, <1>6

-----------------------------------------------------------------------------
(* VflrFsm and its channels *)

(* What process_vflr does: it rests, asks for the next reset, or has been  *)
(* refused                                                                 *)
VflrMsg(f) == [c \in Channels |-> Message("Reset", f)]
VflrSends(x, p, r, d) ==
    \E f \in p \cap r :
        /\ BothFree(x) /\ Carries("Vflr", x, ch', VflrMsg(f)) /\ adrift' = d \ {f}
        /\ vflr' \in VflrRec /\ vflr'.st = "WaitIpcResponse" /\ vflr'.active = f
VflrRests(x, d) == ch' = BothReleased(x) /\ vflr' = VflrIdle /\ adrift' = d
VflrGivesUp(x, d) ==
    /\ ~BothFree(x) /\ vflr' = VflrIdle
    /\ GivenUp("Vflr", x, ch') /\ Strays("Vflr", x, ch', d, adrift')

LEMMA ProcessCases ==
    ASSUME NEW x, Ready("Vflr", x), NEW p \in SUBSET Fns, NEW r, NEW w, NEW d,
           ProcessVflr(x, p, r, w, d)
    PROVE  VflrRests(x, d) \/ VflrSends(x, p, r, d) \/ VflrGivesUp(x, d)
<1>1. CASE p \cap r = {}
  BY <1>1 DEF ProcessVflr, VflrRests
<1>2. CASE p \cap r # {}
  <2>1. PICK f : f = Lowest(p \cap r)
    OBVIOUS
  <2>2. f \in p \cap r /\ f \in Fns
    BY <1>2, <2>1, LowestIn
  <2>3. PICK m : m = VflrMsg(f)
    OBVIOUS
  <2>4. /\ m \in [Channels -> Msg] /\ m["Hsm"] = Message("Reset", f) /\ m["Fp"] = Message("Reset", f)
    BY <2>2, <2>3 DEF VflrMsg, Msg, Message, Channels
  <2>5. CASE BothFree(x)
    <3>1. ch' = [[x EXCEPT !["Fp"] = Sent(@, "Vflr", m["Fp"])]
                    EXCEPT !["Hsm"] = Sent(@, "Vflr", m["Hsm"])]
      BY <1>2, <2>1, <2>4, <2>5 DEF ProcessVflr
    <3>a. adrift' = d \ {f}
      BY <1>2, <2>1, <2>5 DEF ProcessVflr
    <3>2. vflr' = [st |-> "WaitIpcResponse", active |-> f, pend |-> Above(p, f)]
      BY <1>2, <2>1, <2>5 DEF ProcessVflr
    <3>3. Carries("Vflr", x, ch', m)
      <4>0. PICK z : z = ch'
        OBVIOUS
      <4>1. z = [[x EXCEPT !["Fp"] = Sent(@, "Vflr", m["Fp"])]
                    EXCEPT !["Hsm"] = Sent(@, "Vflr", m["Hsm"])]
        BY <3>1, <4>0
      <4>2. z = [c \in Channels |-> Sent(x[c], "Vflr", m[c])]
        BY <4>1 DEF Ready, Channels
      <4>a. "Vflr" \in Users
        BY Names
      <4>3. Carries("Vflr", x, z, m)
        BY <2>4, <2>5, <4>2, <4>a, BothSent
      <4> QED BY <4>0, <4>3
    <3>4. Above(p, f) \subseteq Fns
      BY DEF Above
    <3>5. vflr' \in VflrRec /\ vflr'.st = "WaitIpcResponse" /\ vflr'.active = f
      BY <2>2, <3>2, <3>4 DEF VflrRec, States
    <3> QED BY <2>2, <2>3, <2>5, <3>3, <3>5, <3>a DEF VflrSends
  <2>6. CASE ~BothFree(x)
    <3>0. PICK y : y = [x EXCEPT !["Fp"] = Sent(@, "Vflr", m["Fp"])]
      OBVIOUS
    <3>1. /\ ch' = BothReleased(y) /\ vflr' = VflrIdle
          /\ adrift' = IF x["Fp"].tag = NoOne THEN d \cup {f} ELSE d
      BY <1>2, <2>1, <2>4, <2>6, <3>0 DEF ProcessVflr
    <3>2. PICK z, e : z = ch' /\ e = adrift'
      OBVIOUS
    <3>3. m["Fp"] \in Msg /\ m["Fp"].f = f
      BY <2>4 DEF Message, Channels
    <3>4. GivenUp("Vflr", x, z) /\ Strays("Vflr", x, z, d, e)
      BY <3>0, <3>1, <3>2, <3>3, Names, BothRefused
    <3> QED BY <2>6, <3>1, <3>2, <3>4 DEF VflrGivesUp
  <2> QED BY <2>5, <2>6
<1> QED BY <1>1, <1>2

LEMMA ProcessKeeps ==
    ASSUME NEW x, Ready("Vflr", x), NEW p \in SUBSET Fns, NEW r, NEW w, NEW d,
           ProcessVflr(x, p, r, w, d)
    PROVE  /\ ch' \in [Channels -> Chan] /\ vflr' \in VflrRec /\ MachineOK("Vflr", ch', vflr')
           /\ \A c \in Channels : Moves("Vflr", x[c], ch'[c])
<1>1. CASE VflrRests(x, d)
  <2>1. PICK y : y = ch'
    OBVIOUS
  <2>2. /\ y \in [Channels -> Chan]
        /\ \A c \in Channels : Moves("Vflr", x[c], y[c]) /\ ~In(y[c], "Vflr")
    BY <1>1, <2>1, Names, BothGivenBack DEF VflrRests
  <2>3. vflr' = VflrIdle
    BY <1>1 DEF VflrRests
  <2>4. MachineOK("Vflr", y, vflr')
    BY <2>2, <2>3, Rests DEF MachineOK, Asks, In
  <2> QED BY <2>1, <2>2, <2>3, <2>4, Rests
<1>2. CASE VflrSends(x, p, r, d)
  <2>1. PICK f \in p \cap r :
          /\ Carries("Vflr", x, ch', VflrMsg(f))
          /\ vflr' \in VflrRec /\ vflr'.st = "WaitIpcResponse" /\ vflr'.active = f
    BY <1>2 DEF VflrSends
  <2>2. /\ ch' \in [Channels -> Chan]
        /\ \A c \in Channels : Moves("Vflr", x[c], ch'[c]) /\ ch'[c].owner = "Vflr"
    BY <2>1 DEF Carries
  <2>3. \A c \in Channels : ~Queued(ch'[c].waiters, "Vflr")
    BY <2>2 DEF Moves, ChanOK
  <2>4. MachineOK("Vflr", ch', vflr')
    BY <2>1, <2>2, <2>3, Names DEF MachineOK, Asks
  <2> QED BY <2>1, <2>2, <2>4
<1>3. CASE VflrGivesUp(x, d)
  <2>1. MachineOK("Vflr", ch', vflr')
    BY <1>3, Rests DEF VflrGivesUp, GivenUp, MachineOK, Asks, In
  <2> QED BY <1>3, <2>1, Rests DEF VflrGivesUp, GivenUp
<1> QED BY <1>1, <1>2, <1>3, ProcessCases

LEMMA VflrTypes ==
    ASSUME ChannelsInv
    PROVE  /\ ch \in [Channels -> Chan] /\ vflr \in VflrRec /\ irq \in [Reasons -> SUBSET Fns]
           /\ MachineOK("Vflr", ch, vflr) /\ \A c \in Channels : ChanOK(ch[c])
           /\ vflr.pend \in SUBSET Fns /\ vflr.active \in Fns \cup {NoFn}
           /\ QueueInv /\ ready \subseteq Fns
  BY DEF ChannelsInv, ShapeOK, QueueInv, VflrRec

LEMMA VflrIrqKeeps ==
    ASSUME ChannelsInv, OnVflrIrq
    PROVE  ChannelsInv'
<1>x. PICK x : x = BothAcquired("Vflr")
  OBVIOUS
<1>p. PICK p : p = vflr.pend \cup irq["vflr"]
  OBVIOUS
<1>0. /\ ch \in [Channels -> Chan] /\ vflr \in VflrRec /\ irq \in [Reasons -> SUBSET Fns]
      /\ MachineOK("Vflr", ch, vflr) /\ \A c \in Channels : ChanOK(ch[c])
      /\ vflr.pend \in SUBSET Fns /\ QueueInv
  BY VflrTypes
<1>1. /\ UNCHANGED <<on, owed, pipe, cc_en, ready, cntrl, cmd>>
      /\ irq' \in [Reasons -> SUBSET Fns] /\ irq["vflr"] \in SUBSET Fns
  BY <1>0 DEF OnVflrIrq, Reasons
<1>2. p \in SUBSET Fns
  BY <1>0, <1>1, <1>p
<1>3. ASSUME ch' \in [Channels -> Chan], vflr' \in VflrRec PROVE ShapeOK'
  BY <1>1, <1>3 DEF ChannelsInv, ShapeOK
<1>4. CASE vflr.st # "Idle"
  <2>1. vflr' = [vflr EXCEPT !.pend = p] /\ ch' = ch
    BY <1>4, <1>p DEF OnVflrIrq
  <2>2. vflr' \in VflrRec /\ vflr'.st = vflr.st /\ vflr'.active = vflr.active
    BY <1>0, <1>2, <2>1 DEF VflrRec
  <2>3. MachineOK("Vflr", ch', vflr')
    BY <1>0, <2>1, <2>2 DEF MachineOK
  <2>4. \A c \in Channels : Goes(FALSE, "Vflr", ch[c], ch'[c])
    BY <1>0, <2>1, Stays DEF Goes
  <2>5. QueueInv'
    BY <1>0, <1>1, <2>3, <2>4, Names, UserStep
  <2> QED BY <1>0, <1>3, <2>1, <2>2, <2>5 DEF ChannelsInv
<1>5. CASE vflr.st = "Idle"
  <2>0. \A c \in Channels : ~In(ch[c], "Vflr")
    BY <1>0, <1>5 DEF MachineOK
  <2>1. /\ x \in [Channels -> Chan]
        /\ \A c \in Channels : Joins("Vflr", ch[c], x[c]) /\ In(x[c], "Vflr") /\ ChanOK(x[c])
    BY <1>x, <2>0, Names, BothJoin
  <2>2. CASE Both(x, "Vflr")
    <3>1. ProcessVflr(x, p, ready, flr, adrift)
      BY <1>5, <1>x, <1>p, <2>2 DEF OnVflrIrq
    <3>2. Ready("Vflr", x)
      BY <2>1, <2>2 DEF Ready, Both
    <3>3. /\ ch' \in [Channels -> Chan] /\ vflr' \in VflrRec /\ MachineOK("Vflr", ch', vflr')
          /\ \A c \in Channels : Moves("Vflr", x[c], ch'[c])
      BY <1>2, <3>1, <3>2, ProcessKeeps
    <3>4. \A c \in Channels : Goes(TRUE, "Vflr", ch[c], ch'[c])
      BY <2>1, <3>3, Names, JoinsOn DEF Goes
    <3>5. QueueInv'
      BY <1>0, <1>1, <2>0, <3>3, <3>4, Names, UserStep
    <3> QED BY <1>3, <3>3, <3>5 DEF ChannelsInv
  <2>3. CASE ~Both(x, "Vflr")
    <3>1. vflr' = [vflr EXCEPT !.st = "WaitIpcChannel", !.pend = p] /\ ch' = x
      BY <1>5, <1>x, <1>p, <2>3 DEF OnVflrIrq
    <3>2. vflr' \in VflrRec /\ vflr'.st = "WaitIpcChannel" /\ vflr'.active = vflr.active
      BY <1>0, <1>2, <3>1 DEF VflrRec, States
    <3>3. MachineOK("Vflr", ch', vflr')
      BY <1>0, <1>5, <3>2 DEF MachineOK, Asks
    <3>4. \A c \in Channels : Goes(TRUE, "Vflr", ch[c], ch'[c])
      BY <2>1, <3>1 DEF Goes
    <3>5. QueueInv'
      BY <1>0, <1>1, <2>0, <3>3, <3>4, Names, UserStep
    <3> QED BY <1>3, <2>1, <3>1, <3>2, <3>5 DEF ChannelsInv
  <2> QED BY <2>2, <2>3
<1> QED BY <1>4, <1>5

LEMMA VflrReadyKeeps ==
    ASSUME ChannelsInv, NEW c \in Channels, VflrChannelReady(c)
    PROVE  ChannelsInv'
<1>x. PICK x : x = GivenAt(c)
  OBVIOUS
<1>0. /\ ch \in [Channels -> Chan] /\ vflr \in VflrRec
      /\ MachineOK("Vflr", ch, vflr) /\ \A d \in Channels : ChanOK(ch[d])
      /\ vflr.pend \in SUBSET Fns /\ QueueInv
  BY VflrTypes
<1>1. UNCHANGED <<on, owed, pipe, cc_en, ready, cntrl, cmd, irq>> /\ Granted(c, "Vflr")
  BY DEF VflrChannelReady
<1>2. /\ x \in [Channels -> Chan] /\ Queued(ch[c].waiters, "Vflr") /\ x[c].owner = "Vflr"
      /\ \A d \in Channels : ChanOK(x[d]) /\ Moves("Vflr", ch[d], x[d])
  BY <1>1, <1>x, GivenTo
<1>3. ASSUME ch' \in [Channels -> Chan], vflr' \in VflrRec PROVE ShapeOK'
  BY <1>1, <1>3 DEF ChannelsInv, ShapeOK
<1>4. CASE Both(x, "Vflr")
  <2>1. ProcessVflr(x, vflr.pend, ready, flr, adrift)
    BY <1>4, <1>x DEF VflrChannelReady, GivenAt
  <2>2. Ready("Vflr", x)
    BY <1>2, <1>4 DEF Ready, Both
  <2>3. /\ ch' \in [Channels -> Chan] /\ vflr' \in VflrRec /\ MachineOK("Vflr", ch', vflr')
        /\ \A d \in Channels : Moves("Vflr", x[d], ch'[d])
    BY <1>0, <2>1, <2>2, ProcessKeeps
  <2>4. \A d \in Channels : Goes(FALSE, "Vflr", ch[d], ch'[d])
    BY <1>2, <2>3, MovesOn DEF Goes
  <2>5. QueueInv'
    BY <1>0, <1>1, <2>3, <2>4, Names, UserStep
  <2> QED BY <1>3, <2>3, <2>5 DEF ChannelsInv
<1>5. CASE ~Both(x, "Vflr")
  <2>1. ch' = x /\ vflr' = vflr
    BY <1>5, <1>x DEF VflrChannelReady, GivenAt
  <2>2. vflr.st = "WaitIpcChannel"
    BY <1>0, <1>2 DEF MachineOK
  <2>3. MachineOK("Vflr", ch', vflr')
    BY <1>0, <2>1, <2>2 DEF MachineOK, Asks
  <2>4. \A d \in Channels : Goes(FALSE, "Vflr", ch[d], ch'[d])
    BY <1>2, <2>1 DEF Goes
  <2>5. QueueInv'
    BY <1>0, <1>1, <2>3, <2>4, Names, UserStep
  <2> QED BY <1>0, <1>2, <1>3, <2>1, <2>5 DEF ChannelsInv
<1> QED BY <1>4, <1>5

LEMMA VflrAnsweredKeeps ==
    ASSUME ChannelsInv, NEW c \in Channels, VflrAnswered(c)
    PROVE  ChannelsInv'
<1>x. PICK x : x = TakenAt(c)
  OBVIOUS
<1>0. /\ ch \in [Channels -> Chan] /\ vflr \in VflrRec /\ ready \subseteq Fns
      /\ MachineOK("Vflr", ch, vflr) /\ \A d \in Channels : ChanOK(ch[d])
      /\ vflr.pend \in SUBSET Fns /\ vflr.active \in Fns \cup {NoFn} /\ QueueInv
  BY VflrTypes
<1>1. /\ UNCHANGED <<on, owed, pipe, cc_en, cntrl, cmd, irq>> /\ ch[c].tag = "Vflr"
  BY DEF VflrAnswered
<1>r. ch[c].bell
  BY DEF VflrAnswered
<1>2. x \in [Channels -> Chan]
  BY <1>r, <1>x, AnswerTaken
<1>b. \A d \in Channels : ChanOK(x[d]) /\ Moves(ch[c].tag, ch[d], x[d]) /\ SamePlaces(ch[d], x[d])
  BY <1>r, <1>x, AnswerTaken
<1>a. \A d \in Channels : /\ ChanOK(x[d]) /\ Moves("Vflr", ch[d], x[d])
                          /\ x[d].owner = ch[d].owner /\ x[d].waiters = ch[d].waiters
  BY <1>1, <1>b DEF SamePlaces
<1>3. ASSUME ch' \in [Channels -> Chan], vflr' \in VflrRec, ready' \subseteq Fns PROVE ShapeOK'
  BY <1>1, <1>3 DEF ChannelsInv, ShapeOK
<1>4. ASSUME ch' \in [Channels -> Chan], vflr' \in VflrRec, ready' \subseteq Fns,
             MachineOK("Vflr", ch', vflr'), \A d \in Channels : Moves("Vflr", ch[d], ch'[d])
      PROVE  ChannelsInv'
  <2>1. \A d \in Channels : Goes(FALSE, "Vflr", ch[d], ch'[d])
    BY <1>4 DEF Goes
  <2>2. QueueInv'
    BY <1>0, <1>1, <1>4, <2>1, Names, UserStep
  <2> QED BY <1>3, <1>4, <2>2 DEF ChannelsInv
<1>6. MachineOK("Vflr", x, vflr)
  BY <1>0, <1>a DEF MachineOK, In
<1>7. CASE ~AwaitedBy(vflr.st, c)
  <2>1. ch' = [ch EXCEPT ![c] = Rung(@)] /\ vflr' = vflr /\ ready' = ready
    BY <1>7 DEF VflrAnswered
  <2>2. PICK y : y = ch'
    OBVIOUS
  <2>3. y \in [Channels -> Chan]
    BY <1>1, <2>1, <2>2, Names, OnlyRung
  <2>4. \A d \in Channels : Moves("Vflr", ch[d], y[d]) /\ SamePlaces(ch[d], y[d])
    BY <1>1, <2>1, <2>2, Names, OnlyRung
  <2>5. MachineOK("Vflr", y, vflr)
    BY <1>0, <2>4 DEF MachineOK, In, SamePlaces
  <2> QED BY <1>0, <1>4, <2>1, <2>2, <2>3, <2>4, <2>5
<1>8. CASE vflr.st = "WaitIpcResponse"
  <2>1. vflr' = [vflr EXCEPT !.st = AwaitOther(c)] /\ ch' = x /\ ready' = ready
    BY <1>8, <1>x DEF VflrAnswered, TakenAt, AwaitedBy
  <2>2. /\ vflr' \in VflrRec /\ vflr'.active = vflr.active
        /\ vflr'.st \in {"WaitFpIpcResponse", "WaitHsmIpcResponse"}
    BY <1>0, <2>1 DEF VflrRec, States, AwaitOther
  <2>3. MachineOK("Vflr", x, vflr')
    BY <1>6, <1>8, <2>2 DEF MachineOK, Asks
  <2> QED BY <1>0, <1>2, <1>4, <1>a, <2>1, <2>2, <2>3
<1>9. CASE AwaitedBy(vflr.st, c) /\ vflr.st # "WaitIpcResponse"
  <2>1. ready' = ready \ {vflr.active}
    BY <1>9 DEF VflrAnswered
  <2>5. PICK w, e : ProcessVflr(x, vflr.pend, ready \ {vflr.active}, w, e)
    BY <1>9, <1>x DEF VflrAnswered, TakenAt
  <2>2. Asks(vflr.st)
    BY <1>1, <1>9 DEF AwaitedBy, Asks
  <2>3. Ready("Vflr", x)
    BY <1>0, <1>2, <1>6, <1>a, <2>2, Names, AsksReady
  <2>4. /\ ch' \in [Channels -> Chan] /\ vflr' \in VflrRec /\ MachineOK("Vflr", ch', vflr')
        /\ \A d \in Channels : Moves("Vflr", x[d], ch'[d])
    BY <1>0, <2>3, <2>5, ProcessKeeps
  <2>6. \A d \in Channels : Moves("Vflr", ch[d], ch'[d])
    BY <1>a, <2>4, MovesOn
  <2> QED BY <1>0, <1>4, <2>1, <2>4, <2>6
<1> QED BY <1>7, <1>8, <1>9

-----------------------------------------------------------------------------
(* The commands and their channels *)

(* Command u waits for nothing and has nothing in progress over x *)
Clear(u, x) == /\ x \in [Channels -> Chan]
               /\ \A c \in Channels : ChanOK(x[c]) /\ ~Queued(x[c].waiters, u) /\ x[c].tag # u

(* It has the channels of x that its kind may have *)
Fits(u, x, k) ==
    /\ Clear(u, x) /\ k \in CmdRec /\ k.kind # "None" /\ k.f \in Fns
    /\ k.kind = "OneFp" => ~In(x["Hsm"], u)
    /\ k.kind = "OneHsm" => ~In(x["Fp"], u)
    /\ k.kind = "Vf" => \A c \in Channels : x[c].owner = u

(* What becomes of a command of this kind *)
CmdGoesOn(u, x, kind) ==
    /\ ch' \in [Channels -> Chan] /\ \A c \in Channels : Moves(u, x[c], ch'[c])
    /\ \E k \in CmdRec : cmd' = [cmd EXCEPT ![u] = k] /\ CmdOK(u, ch', k) /\ k.kind \in {kind, "None"}

LEMMA CmdStep ==
    ASSUME ChannelsInv, NEW u \in Cmds, NEW j \in BOOLEAN, NEW k \in CmdRec,
           ch' \in [Channels -> Chan], \A c \in Channels : Goes(j, u, ch[c], ch'[c]),
           cmd' = [cmd EXCEPT ![u] = k], CmdOK(u, ch', k),
           \/ ~j /\ k.kind \in {cmd[u].kind, "None"}
           \/ k.kind # "Vf"
           \/ \A c \in Channels : ~In(ch[c], u),
           UNCHANGED <<on, owed, cntrl, vflr, irq>>,
           cc_en' \subseteq Fns, ready' \subseteq Fns, pipe' \in Seq(Debt)
    PROVE  ChannelsInv'
<1>1. cmd \in [Cmds -> CmdRec] /\ QueueInv
  BY DEF ChannelsInv, ShapeOK
<1>2. cmd' \in [Cmds -> CmdRec] /\ cmd'[u] = k /\ \A v \in Cmds \ {u} : cmd'[v] = cmd[v]
  BY <1>1
<1>3. ShapeOK'
  BY <1>2 DEF ChannelsInv, ShapeOK
<1>4. u \in Users /\ u # "Cntrl" /\ u # "Vflr"
  BY Names
<1>5. /\ CmdOK(u, ch', cmd'[u]) /\ cntrl' = cntrl /\ vflr' = vflr
      /\ \/ ~j /\ cmd'[u].kind \in {cmd[u].kind, "None"}
         \/ u \in Cmds /\ cmd'[u].kind # "Vf"
         \/ \A c \in Channels : ~In(ch[c], u)
  BY <1>2
<1>6. QueueInv'
  BY <1>1, <1>2, <1>4, <1>5, UserStep
<1> QED BY <1>3, <1>6 DEF ChannelsInv

LEMMA CmdTypes ==
    ASSUME ChannelsInv, NEW u \in Cmds
    PROVE  /\ ch \in [Channels -> Chan] /\ cmd[u] \in CmdRec /\ CmdOK(u, ch, cmd[u])
           /\ \A c \in Channels : ChanOK(ch[c])
           /\ cc_en \subseteq Fns /\ ready \subseteq Fns /\ pipe \in Seq(Debt)
           /\ cmd \in [Cmds -> CmdRec] /\ u \in Users
  BY Names DEF ChannelsInv, ShapeOK, QueueInv

LEMMA EndKeeps ==
    ASSUME NEW u \in Cmds, NEW x, Clear(u, x), NEW kind, NEW d, EndCmd(u, x, d)
    PROVE  /\ CmdGoesOn(u, x, kind) /\ cmd' = [cmd EXCEPT ![u] = CmdIdle]
           /\ \A c \in Channels : /\ ~In(ch'[c], u) /\ ch'[c].tag = x[c].tag /\ ch'[c].req = x[c].req
                                  /\ ch'[c].rsp = x[c].rsp /\ ch'[c].bell = x[c].bell
           /\ adrift' = d
<1>1. /\ cmd' = [cmd EXCEPT ![u] = CmdIdle]
      /\ ch' = [c \in Channels |-> IF x[c].owner = u THEN Released(x[c]) ELSE x[c]]
      /\ adrift' = d
  BY DEF EndCmd
<1>0. u \in Users /\ u # NoOne
  BY Names
<1>2. ASSUME NEW c \in Channels
      PROVE  /\ ch'[c] \in Chan /\ Moves(u, x[c], ch'[c]) /\ ~In(ch'[c], u) /\ ch'[c].tag = x[c].tag
             /\ ch'[c].req = x[c].req /\ ch'[c].rsp = x[c].rsp /\ ch'[c].bell = x[c].bell
  <2>1. PICK a \in Chan : a = x[c]
    BY DEF Clear
  <2>2. ChanOK(a) /\ ~Queued(a.waiters, u)
    BY <2>1 DEF Clear
  <2>3. CASE a.owner = u
    <3>1. PICK y : y = Released(a)
      OBVIOUS
    <3>2. Moves(a.owner, a, y) /\ (a.owner # NoOne => ~In(y, a.owner))
      BY <2>2, <3>1, ReleasedMoves
    <3>3. y.tag = a.tag /\ y.req = a.req /\ y.rsp = a.rsp /\ y.bell = a.bell
      BY <2>2, <3>1, ReleasedMoves
    <3>4. ch'[c] = y
      BY <1>1, <2>1, <2>3, <3>1
    <3>5. y \in Chan
      BY <3>2 DEF Moves
    <3> QED BY <1>0, <2>1, <2>3, <3>2, <3>3, <3>4, <3>5
  <2>4. CASE a.owner # u
    <3>1. ch'[c] = a
      BY <1>1, <2>1, <2>4
    <3>2. Moves(u, a, a)
      BY <2>2, Stays
    <3> QED BY <2>1, <2>2, <2>4, <3>1, <3>2 DEF In
  <2> QED BY <2>3, <2>4
<1>3. ch' \in [Channels -> Chan]
  BY <1>1, <1>2
<1>4. CmdOK(u, ch', CmdIdle)
  <2>1. \A c \in Channels : ch'[c].tag # u /\ ~Queued(ch'[c].waiters, u)
    BY <1>2 DEF Clear, In
  <2> QED BY <1>2, <2>1, Rests, Names DEF CmdOK
<1> QED BY <1>1, <1>2, <1>3, <1>4, Rests DEF CmdGoesOn

LEMMA KindMsg ==
    ASSUME NEW kind, NEW op \in Ops(kind), NEW f \in Fns
    PROVE  /\ Message(op, f) \in Msg /\ op \in {"Enable", "Create", "Delete"}
           /\ kind = "Restore" <=> op = "Enable"
           /\ Message(op, f).op = op /\ Message(op, f).f = f
  BY DEF Ops, Message, Msg

(* The request is refused, or it is under way *)
CmdRefused(u, x, k, c) == x[c].tag # NoOne /\ EndCmd(u, x, adrift \cup HalfRestored(k, c))
CmdSends(u, x, k, c) ==
    \E y \in Chan, op \in Ops(k.kind), l \in CmdRec :
        /\ x[c].tag = NoOne /\ ch' = [x EXCEPT ![c] = y] /\ Moves(u, x[c], y) /\ y.owner = x[c].owner
        /\ y.waiters = x[c].waiters /\ y.tag = u /\ y.req = Message(op, k.f)
        /\ y.bell = FALSE /\ y.rsp = x[c].rsp /\ adrift' = adrift
        /\ cmd' = [cmd EXCEPT ![u] = l] /\ l.kind = k.kind /\ l.f = k.f /\ l.st = "WaitIpcResponse"

LEMMA SendCases ==
    ASSUME NEW u \in Cmds, NEW x, NEW k, Fits(u, x, k), NEW c \in Channels, SendOver(u, x, k, c)
    PROVE  CmdRefused(u, x, k, c) \/ CmdSends(u, x, k, c)
<1>1. CASE x[c].tag # NoOne
  BY <1>1 DEF SendOver, CmdRefused
<1>2. CASE x[c].tag = NoOne
  <2>1. PICK op \in Ops(k.kind) : ch' = [x EXCEPT ![c] = Sent(@, u, Message(op, k.f))]
    BY <1>2 DEF SendOver
  <2>2. PICK l : l = [k EXCEPT !.st = "WaitIpcResponse"]
    OBVIOUS
  <2>3. cmd' = [cmd EXCEPT ![u] = l] /\ adrift' = adrift
    BY <1>2, <2>2 DEF SendOver
  <2>4. l \in CmdRec /\ l.kind = k.kind /\ l.f = k.f /\ l.st = "WaitIpcResponse"
    BY <2>2 DEF Fits, CmdRec
  <2>5. PICK m \in Msg : m = Message(op, k.f)
    BY KindMsg DEF Fits
  <2>6. PICK a \in Chan : a = x[c]
    BY DEF Fits, Clear
  <2>7. PICK y : y = Sent(a, u, m)
    OBVIOUS
  <2>8. ChanOK(a) /\ a.tag = NoOne /\ u \in Users
    BY <1>2, <2>6, Names DEF Fits, Clear
  <2>9. Moves(u, a, y)
    BY <2>7, <2>8, SentGoes
  <2>a. y.owner = a.owner /\ y.waiters = a.waiters
    BY ZenonT(30), <2>7, <2>8, SentGoes
  <2>b. y.tag = u /\ y.req = m
    BY <2>7, <2>8, SentGoes
  <2>c. y.bell = FALSE /\ y.rsp = a.rsp
    BY ZenonT(30), <2>7, <2>8, SentGoes
  <2>d. y \in Chan
    BY <2>9 DEF Moves
  <2>e. ch' = [x EXCEPT ![c] = y]
    BY <2>1, <2>5, <2>6, <2>7
  <2> QED BY <1>2, <2>3, <2>4, <2>5, <2>6, <2>9, <2>a, <2>b, <2>c, <2>d, <2>e DEF CmdSends
<1> QED BY <1>1, <1>2

LEMMA SendKeeps ==
    ASSUME NEW u \in Cmds, NEW x, NEW k, Fits(u, x, k), NEW c \in Channels, SendOver(u, x, k, c),
           x[c].owner = u, k.kind = "Restore" => c = "Hsm" \/ ~In(x["Hsm"], u)
    PROVE  CmdGoesOn(u, x, k.kind)
<1>1. CASE CmdRefused(u, x, k, c)
  BY <1>1, EndKeeps DEF CmdRefused, Fits
<1>2. CASE CmdSends(u, x, k, c)
  <2>1. PICK y \in Chan, l \in CmdRec :
          /\ ch' = [x EXCEPT ![c] = y] /\ Moves(u, x[c], y) /\ y.owner = x[c].owner
          /\ y.waiters = x[c].waiters /\ y.tag = u
          /\ cmd' = [cmd EXCEPT ![u] = l] /\ l.kind = k.kind /\ l.f = k.f /\ l.st = "WaitIpcResponse"
    BY <1>2 DEF CmdSends
  <2>2. /\ x \in [Channels -> Chan]
        /\ \A d \in Channels : ChanOK(x[d]) /\ ~Queued(x[d].waiters, u) /\ x[d].tag # u
    BY DEF Fits, Clear
  <2>3. ch' \in [Channels -> Chan] /\ ch'[c] = y /\ \A d \in Channels \ {c} : ch'[d] = x[d]
    BY <2>1, <2>2
  <2>4. \A d \in Channels : /\ ch'[d].owner = x[d].owner /\ ~Queued(ch'[d].waiters, u)
                            /\ ch'[d].tag = u <=> d = c
                            /\ In(ch'[d], u) <=> In(x[d], u)
    BY <2>1, <2>2, <2>3 DEF In
  <2>5. \A d \in Channels : Moves(u, x[d], ch'[d])
    BY <2>1, <2>2, <2>3, Stays
  <2>6. CmdOK(u, ch', l)
    BY <2>1, <2>4, Names DEF CmdOK, Fits, Channels
  <2> QED BY <2>1, <2>3, <2>5, <2>6 DEF CmdGoesOn
<1> QED BY <1>1, <1>2, SendCases

LEMMA ProceedCases ==
    ASSUME NEW u \in Cmds, NEW x, NEW k, Fits(u, x, k), Proceed(u, x, k)
    PROVE  \/ k.kind = "Vf" /\ EndCmd(u, x, adrift)
           \/ \E l \in CmdRec, c \in Channels :
                 /\ l.kind = k.kind /\ l.f = k.f /\ Fits(u, x, l) /\ x[c].owner = u /\ SendOver(u, x, l, c)
<1>1. CASE k.kind # "Vf"
  BY <1>1 DEF Proceed, Fits
<1>2. CASE k.kind = "Vf" /\ k.left = 0
  BY <1>2 DEF Proceed
<1>3. CASE k.kind = "Vf" /\ k.left # 0
  <2>1. PICK l : l = [k EXCEPT !.left = @ - 1]
    OBVIOUS
  <2>2. PICK c \in Channels : SendOver(u, x, l, c)
    BY <1>3, <2>1 DEF Proceed
  <2>3. k \in CmdRec /\ MaxQueues \in Nat
    BY ControlAssumption DEF Fits
  <2>4. l \in CmdRec /\ l.kind = k.kind /\ l.f = k.f
    BY <1>3, <2>1, <2>3 DEF CmdRec
  <2>5. Fits(u, x, l) /\ x[c].owner = u
    BY <1>3, <2>4 DEF Fits
  <2> QED BY <2>2, <2>4, <2>5
<1> QED BY <1>1, <1>2, <1>3

LEMMA ProceedKeeps ==
    ASSUME NEW u \in Cmds, NEW x, NEW k, Fits(u, x, k), Proceed(u, x, k),
           k.kind = "Restore" => ~In(x["Hsm"], u)
    PROVE  CmdGoesOn(u, x, k.kind)
<1>1. CASE EndCmd(u, x, adrift)
  BY <1>1, EndKeeps DEF Fits
<1>2. ASSUME NEW l \in CmdRec, NEW c \in Channels,
             l.kind = k.kind, l.f = k.f, Fits(u, x, l), x[c].owner = u, SendOver(u, x, l, c)
      PROVE  CmdGoesOn(u, x, k.kind)
  BY <1>2, SendKeeps
<1> QED BY <1>1, <1>2, ProceedCases

(* A step of a command from the channels x that it has got *)
LEMMA CmdWent ==
    ASSUME ChannelsInv, NEW u \in Cmds, NEW j \in BOOLEAN, NEW x, NEW kind,
           \A c \in Channels : Goes(j, u, ch[c], x[c]), CmdGoesOn(u, x, kind),
           \/ ~j /\ kind = cmd[u].kind
           \/ kind # "Vf"
           \/ \A c \in Channels : ~In(ch[c], u),
           UNCHANGED <<on, owed, cntrl, vflr, irq>>,
           cc_en' \subseteq Fns, ready' \subseteq Fns, pipe' \in Seq(Debt)
    PROVE  ChannelsInv'
<1>1. PICK k \in CmdRec : cmd' = [cmd EXCEPT ![u] = k] /\ CmdOK(u, ch', k) /\ k.kind \in {kind, "None"}
  BY DEF CmdGoesOn
<1>2. ch' \in [Channels -> Chan] /\ \A c \in Channels : Moves(u, x[c], ch'[c])
  BY DEF CmdGoesOn
<1>3. \A c \in Channels : Goes(j, u, ch[c], ch'[c])
  BY <1>2, Names, GoesOn
<1>4. \/ ~j /\ k.kind \in {cmd[u].kind, "None"}
      \/ k.kind # "Vf"
      \/ \A c \in Channels : ~In(ch[c], u)
  BY <1>1
<1> QED BY <1>1, <1>2, <1>3, <1>4, CmdStep

LEMMA KindNeeds ==
    /\ Needs("OneFp") = {"Fp"} /\ Needs("Restore") = {"Fp"} /\ Needs("OneHsm") = {"Hsm"}
    /\ Needs("Vf") = Channels
    /\ \A kind \in Kinds : Needs(kind) \subseteq Channels /\ kind # "None"
  BY ControlAssumption DEF Needs, Channels

(* The channels as CmdStart has them *)
StartAt(u, N) == [c \in Channels |-> IF c \in N THEN Acquired(ch[c], u) ELSE ch[c]]
SameTalk(a, b) == b.tag = a.tag /\ b.req = a.req /\ b.rsp = a.rsp /\ b.bell = a.bell

LEMMA StartJoins ==
    ASSUME ChannelsInv, NEW u \in Users, NEW N, NEW x, x = StartAt(u, N), \A c \in Channels : ~In(ch[c], u)
    PROVE  /\ x \in [Channels -> Chan]
           /\ \A c \in Channels : /\ ~In(ch[c], u) /\ Goes(TRUE, u, ch[c], x[c]) /\ ChanOK(x[c])
                                  /\ SameTalk(ch[c], x[c]) /\ (c \notin N => x[c] = ch[c])
           /\ \A c \in Channels : x[c].owner # u => x[c].owner = ch[c].owner
           /\ \A c \in Channels : c \in N => In(x[c], u)
<1>1. ch \in [Channels -> Chan] /\ \A c \in Channels : ChanOK(ch[c])
  BY DEF ChannelsInv, ShapeOK, QueueInv
<1>2. ASSUME NEW c \in Channels
      PROVE  /\ x[c] \in Chan /\ Goes(TRUE, u, ch[c], x[c]) /\ ChanOK(x[c])
             /\ x[c].tag = ch[c].tag /\ x[c].req = ch[c].req
             /\ x[c].rsp = ch[c].rsp /\ x[c].bell = ch[c].bell
             /\ x[c].owner # u => x[c].owner = ch[c].owner
             /\ c \notin N => x[c] = ch[c]
             /\ c \in N => In(x[c], u)
  <2>1. PICK a \in Chan : a = ch[c]
    BY <1>1
  <2>2. ChanOK(a) /\ ~In(a, u)
    BY <1>1, <2>1
  <2>3. CASE c \in N
    <3>1. PICK y : y = Acquired(a, u)
      OBVIOUS
    <3>2. Joins(u, a, y) /\ In(y, u)
      BY <2>2, <3>1, AcquiredJoins
    <3>3. y.tag = a.tag /\ y.req = a.req
      BY <2>2, <3>1, AcquiredJoins
    <3>6. y.rsp = a.rsp /\ y.bell = a.bell /\ (y.owner # u => y.owner = a.owner)
      BY <2>2, <3>1, AcquiredJoins
    <3>4. x[c] = y
      BY <2>1, <2>3, <3>1 DEF StartAt
    <3>5. y \in Chan /\ ChanOK(y)
      BY <3>2 DEF Joins
    <3> QED BY <2>1, <2>2, <2>3, <3>2, <3>3, <3>4, <3>5, <3>6 DEF Goes
  <2>4. CASE c \notin N
    <3>1. x[c] = a
      BY <2>1, <2>4 DEF StartAt
    <3>2. Moves(u, a, a)
      BY <2>2, Stays
    <3> QED BY <2>1, <2>2, <2>4, <3>1, <3>2 DEF Goes
  <2> QED BY <2>3, <2>4
<1>3. x \in [Channels -> Chan]
  BY <1>2 DEF StartAt
<1> QED BY <1>1, <1>2, <1>3 DEF SameTalk

LEMMA CmdStartKeeps ==
    ASSUME ChannelsInv, NEW u \in Cmds, NEW kind \in Kinds, NEW f \in Fns, NEW n \in 0..MaxQueues,
           CmdStart(u, kind, f, n)
    PROVE  ChannelsInv'
<1>n. PICK N : N = Needs(kind)
  OBVIOUS
<1>x. PICK x : x = StartAt(u, N)
  OBVIOUS
<1>k. PICK k : k = [kind |-> kind, st |-> "WaitIpcChannel", f |-> f, left |-> n]
  OBVIOUS
<1>0. /\ ch \in [Channels -> Chan] /\ cc_en \subseteq Fns /\ ready \subseteq Fns /\ pipe \in Seq(Debt)
      /\ cmd \in [Cmds -> CmdRec] /\ u \in Users /\ CmdOK(u, ch, cmd[u])
  BY CmdTypes
<1>1. /\ UNCHANGED <<on, owed, cntrl, vflr, irq>> /\ cc_en' \subseteq Fns /\ ready' \subseteq Fns
      /\ pipe' \in Seq(Debt) /\ cmd[u] = CmdIdle
  BY <1>0 DEF CmdStart, cmdFrame
<1>2. k \in CmdRec /\ k.kind = kind /\ k.st = "WaitIpcChannel" /\ k.f = f /\ kind # "None"
  BY <1>k, KindNeeds DEF CmdRec
<1>b. \A c \in Channels : ~In(ch[c], u)
  BY <1>0, <1>1, Rests DEF CmdOK
<1>c. \A c \in Channels : ch[c].tag # u
  BY <1>0, <1>1, Rests DEF CmdOK
<1>d. u \in Users
  BY <1>0
<1>e. x \in [Channels -> Chan] /\ \A c \in Channels : ChanOK(x[c])
  BY <1>b, <1>d, <1>x, StartJoins
<1>f. \A c \in Channels : Goes(TRUE, u, ch[c], x[c])
  BY <1>b, <1>d, <1>x, StartJoins
<1>g. \A c \in Channels : SameTalk(ch[c], x[c])
  BY <1>b, <1>d, <1>x, StartJoins
<1>h. \A c \in Channels : c \notin N => x[c] = ch[c]
  BY <1>x DEF StartAt
<1>3. /\ x \in [Channels -> Chan]
      /\ \A c \in Channels : /\ ~In(ch[c], u) /\ Goes(TRUE, u, ch[c], x[c]) /\ ChanOK(x[c])
                             /\ x[c].tag # u /\ (c \notin Needs(kind) => x[c] = ch[c])
  BY <1>b, <1>c, <1>e, <1>f, <1>g, <1>h, <1>n DEF SameTalk
<1>4. CASE \A c \in Needs(kind) : x[c].owner = u
  <2>1. Proceed(u, x, k)
    BY <1>4, <1>n, <1>x, <1>k DEF CmdStart, StartAt
  <2>2. \A c \in Channels : ~Queued(x[c].waiters, u)
    BY <1>3, <1>4 DEF ChanOK, In
  <2>3. Fits(u, x, k) /\ (kind = "Restore" => ~In(x["Hsm"], u))
    BY <1>2, <1>3, <1>4, <2>2, KindNeeds, Names DEF Fits, Clear
  <2>4. CmdGoesOn(u, x, kind)
    BY <1>2, <2>1, <2>3, ProceedKeeps
  <2> QED BY <1>1, <1>3, <2>4, CmdWent
<1>5. CASE ~(\A c \in Needs(kind) : x[c].owner = u)
  <2>1. ch' = x /\ cmd' = [cmd EXCEPT ![u] = k]
    BY <1>5, <1>n, <1>x, <1>k DEF CmdStart, StartAt
  <2>2. /\ kind \in {"OneFp", "Restore"} => ~In(x["Hsm"], u)
        /\ kind = "OneHsm" => ~In(x["Fp"], u)
    BY <1>3, KindNeeds, Names
  <2>3. CmdOK(u, x, k)
    BY <1>2, <1>3, <2>2, Names DEF CmdOK
  <2> QED BY <1>1, <1>2, <1>3, <2>1, <2>3, CmdStep
<1> QED BY <1>4, <1>5

LEMMA CmdReadyKeeps ==
    ASSUME ChannelsInv, NEW u \in Cmds, NEW c \in Channels, CmdChannelReady(u, c)
    PROVE  ChannelsInv'
<1>x. PICK x : x = GivenAt(c)
  OBVIOUS
<1>0. /\ ch \in [Channels -> Chan] /\ cc_en \subseteq Fns /\ ready \subseteq Fns /\ pipe \in Seq(Debt)
      /\ cmd \in [Cmds -> CmdRec] /\ u \in Users /\ cmd[u] \in CmdRec /\ CmdOK(u, ch, cmd[u])
  BY CmdTypes
<1>1. /\ UNCHANGED <<on, owed, cntrl, vflr, irq>> /\ cc_en' \subseteq Fns /\ ready' \subseteq Fns
      /\ pipe' \in Seq(Debt) /\ Granted(c, u)
  BY <1>0 DEF CmdChannelReady, cmdFrame
<1>2. /\ x \in [Channels -> Chan] /\ Queued(ch[c].waiters, u) /\ x[c].owner = u
      /\ \A d \in Channels : ChanOK(x[d]) /\ Moves(u, ch[d], x[d])
      /\ \A d \in Channels \ {c} : x[d] = ch[d]
  BY <1>1, <1>x, GivenTo
<1>3. x[c].tag = ch[c].tag
  BY <1>1, <1>x, GivenTo
<1>4. /\ cmd[u].st = "WaitIpcChannel" /\ cmd[u].kind # "None" /\ cmd[u].f \in Fns
      /\ \A d \in Channels : ch[d].tag # u
  BY <1>0, <1>2 DEF CmdOK
<1>5. \A d \in Channels : Goes(FALSE, u, ch[d], x[d])
  BY <1>2 DEF Goes
<1>6. /\ \A d \in Channels : x[d].tag # u
      /\ \A d \in Channels : Queued(x[d].waiters, u) => Queued(ch[d].waiters, u) /\ d # c
      /\ \A d \in Channels : In(x[d], u) => In(ch[d], u)
  BY <1>2, <1>3, <1>4 DEF ChanOK, In
<1>7. /\ cmd[u].kind = "OneFp" => ~In(x["Hsm"], u)
      /\ cmd[u].kind = "OneHsm" => ~In(x["Fp"], u)
  BY <1>0, <1>6, Names DEF CmdOK
<1>8. CASE cmd[u].kind = "Restore"
  <2>1. SendOver(u, x, cmd[u], c)
    BY <1>8, <1>x DEF CmdChannelReady, GivenAt
  <2>2. c = "Hsm" \/ ~In(x["Hsm"], u)
    BY <1>0, <1>2, <1>6, <1>8, Names DEF CmdOK, Channels
  <2>3. \A d \in Channels : ~Queued(x[d].waiters, u)
    BY <1>0, <1>2, <1>6, <1>8 DEF CmdOK, Channels, In
  <2>4. Fits(u, x, cmd[u])
    BY <1>0, <1>2, <1>4, <1>6, <1>8, <2>3 DEF Fits, Clear
  <2>5. CmdGoesOn(u, x, cmd[u].kind)
    BY <1>2, <2>1, <2>2, <2>4, SendKeeps
  <2> QED BY <1>1, <1>5, <2>5, CmdWent
<1>9. CASE cmd[u].kind # "Restore" /\ \A d \in Needs(cmd[u].kind) : x[d].owner = u
  <2>1. Proceed(u, x, cmd[u])
    BY <1>9, <1>x DEF CmdChannelReady, GivenAt
  <2>0. cmd[u].kind \in {"OneFp", "OneHsm", "Vf"}
    BY <1>0, <1>4, <1>9, ControlAssumption DEF CmdRec
  <2>2. \A d \in Channels : ~Queued(x[d].waiters, u)
    BY <1>2, <1>7, <1>9, <2>0, KindNeeds DEF ChanOK, In, Channels
  <2>3. Fits(u, x, cmd[u])
    BY <1>0, <1>2, <1>4, <1>6, <1>7, <1>9, <2>2, KindNeeds DEF Fits, Clear
  <2>4. CmdGoesOn(u, x, cmd[u].kind)
    BY <1>9, <2>1, <2>3, ProceedKeeps
  <2> QED BY <1>1, <1>5, <2>4, CmdWent
<1>10. CASE cmd[u].kind # "Restore" /\ ~(\A d \in Needs(cmd[u].kind) : x[d].owner = u)
  <2>1. ch' = x /\ cmd' = cmd
    BY <1>10, <1>x DEF CmdChannelReady, GivenAt
  <2>2. cmd' = [cmd EXCEPT ![u] = cmd[u]]
    BY <1>0, <2>1
  <2>3. CmdOK(u, x, cmd[u])
    BY <1>4, <1>6, <1>7, <1>10, Names DEF CmdOK
  <2> QED BY <1>0, <1>1, <1>2, <1>5, <2>1, <2>2, <2>3, CmdStep
<1> QED BY <1>8, <1>9, <1>10

(* VfRestore joins the second queue *)
JoinAt(u, x) == [x EXCEPT !["Hsm"] = Acquired(@, u)]

LEMMA RestoreJoins ==
    ASSUME NEW u \in Users, NEW x, x \in [Channels -> Chan], ChanOK(x["Hsm"]), ~In(x["Hsm"], u),
           NEW y, y = JoinAt(u, x)
    PROVE  /\ y \in [Channels -> Chan] /\ y["Fp"] = x["Fp"]
           /\ Joins(u, x["Hsm"], y["Hsm"]) /\ ChanOK(y["Hsm"]) /\ In(y["Hsm"], u)
           /\ SameTalk(x["Hsm"], y["Hsm"])
           /\ y["Hsm"].owner # u => y["Hsm"].owner = x["Hsm"].owner
<1>1. PICK a \in Chan : a = x["Hsm"]
  BY Names
<1>2. ChanOK(a) /\ ~In(a, u)
  BY <1>1
<1>3. PICK z : z = Acquired(a, u)
  OBVIOUS
<1>4. Joins(u, a, z) /\ In(z, u)
  BY <1>2, <1>3, AcquiredJoins
<1>5. z.tag = a.tag /\ z.req = a.req
  BY <1>2, <1>3, AcquiredJoins
<1>6. z.rsp = a.rsp /\ z.bell = a.bell /\ (z.owner # u => z.owner = a.owner)
  BY <1>2, <1>3, AcquiredJoins
<1>7. z \in Chan /\ ChanOK(z)
  BY <1>4 DEF Joins
<1>8. y \in [Channels -> Chan] /\ y["Hsm"] = z /\ y["Fp"] = x["Fp"]
  BY <1>1, <1>3, <1>7, Names DEF JoinAt
<1> QED BY <1>1, <1>4, <1>5, <1>6, <1>7, <1>8 DEF SameTalk

LEMMA CmdAnsweredKeeps ==
    ASSUME ChannelsInv, NEW u \in Cmds, NEW c \in Channels, NEW valid \in BOOLEAN, CmdAnswered(u, c, valid)
    PROVE  ChannelsInv'
<1>x. PICK x : x = TakenAt(c)
  OBVIOUS
<1>0. /\ ch \in [Channels -> Chan] /\ cc_en \subseteq Fns /\ ready \subseteq Fns /\ pipe \in Seq(Debt)
      /\ cmd \in [Cmds -> CmdRec] /\ u \in Users /\ cmd[u] \in CmdRec /\ CmdOK(u, ch, cmd[u])
  BY CmdTypes
<1>1. /\ UNCHANGED <<on, owed, cntrl, vflr, irq>> /\ pipe' \in Seq(Debt)
      /\ ch[c].tag = u /\ cmd[u].st = "WaitIpcResponse"
  BY <1>0 DEF CmdAnswered, cmdFrame
<1>r. ch[c].bell
  BY DEF CmdAnswered
<1>2. x \in [Channels -> Chan]
  BY <1>r, <1>x, AnswerTaken
<1>b. \A d \in Channels : ChanOK(x[d]) /\ Moves(ch[c].tag, ch[d], x[d]) /\ SamePlaces(ch[d], x[d])
  BY <1>r, <1>x, AnswerTaken
<1>e. Emptied(x[c])
  BY <1>r, <1>x, AnswerTaken
<1>d. \A d \in Channels \ {c} : x[d] = ch[d]
  BY <1>0, <1>x DEF TakenAt
<1>a. \A d \in Channels : /\ ChanOK(x[d]) /\ Moves(u, ch[d], x[d]) /\ Goes(FALSE, u, ch[d], x[d])
                          /\ x[d].owner = ch[d].owner /\ x[d].waiters = ch[d].waiters
  BY <1>1, <1>b DEF SamePlaces, Goes
<1>3. /\ cmd[u].kind # "None" /\ cmd[u].f \in Fns /\ ch[c].owner = u
      /\ \A d \in Channels : ~Queued(ch[d].waiters, u)
      /\ \A d \in Channels \ {c} : ch[d].tag # u
  BY <1>0, <1>1 DEF CmdOK, Channels
<1>4. \A d \in Channels : x[d].tag # u
  BY <1>3, <1>d, <1>e, <1>0, Names DEF Emptied
<1>5. Fits(u, x, cmd[u])
  BY <1>0, <1>1, <1>2, <1>3, <1>4, <1>a, Names DEF Fits, Clear, CmdOK, In
<1>f. CASE ~valid \/ Refusal(c)
  <2>1. PICK e : EndCmd(u, x, e) /\ UNCHANGED <<cc_en, ready>>
    BY <1>f, <1>x DEF CmdAnswered, TakenAt, Refusal
  <2>2. CmdGoesOn(u, x, cmd[u].kind)
    BY <1>5, <2>1, EndKeeps DEF Fits
  <2> QED BY <1>0, <1>1, <1>a, <2>1, <2>2, CmdWent
<1>s. ch[c].rsp \in {"Success", "Pending", "Error"}
  BY <1>0, <1>r, CmdTypes DEF Chan, ChanOK
<1>6. CASE valid /\ ch[c].rsp = "Pending"
  <2>1. PICK k : k = [cmd[u] EXCEPT !.st = "WaitDeferred"]
    OBVIOUS
  <2>2. /\ cmd' = [cmd EXCEPT ![u].st = "WaitDeferred"] /\ ch' = x /\ UNCHANGED <<cc_en, ready>>
    BY <1>6, <1>x DEF CmdAnswered, TakenAt, Refusal
  <2>3. cmd' = [cmd EXCEPT ![u] = k]
    BY <2>1, <2>2
  <2>4. k \in CmdRec /\ k.kind = cmd[u].kind /\ k.f = cmd[u].f /\ k.st = "WaitDeferred"
    BY <1>0, <2>1 DEF CmdRec
  <2>5. CmdOK(u, x, k)
    BY <1>4, <1>5, <2>4, Names DEF CmdOK, Fits, Clear
  <2> QED BY <1>0, <1>1, <1>2, <1>a, <2>2, <2>3, <2>4, <2>5, CmdStep
<1>7. CASE valid /\ ch[c].rsp = "Success" /\ cmd[u].kind = "Restore" /\ c = "Fp"
  <2>0. PICK y : y = JoinAt(u, x)
    OBVIOUS
  <2>1. RestoreNext(u, x) /\ UNCHANGED <<cc_en, ready>>
    BY <1>7, <1>x DEF CmdAnswered, TakenAt, Refusal
  <2>2. x["Hsm"] = ch["Hsm"] /\ ~In(x["Hsm"], u) /\ ChanOK(x["Hsm"])
    BY <1>0, <1>1, <1>7, <1>a, <1>d, Names DEF CmdOK
  <2>3. y \in [Channels -> Chan] /\ Joins(u, x["Hsm"], y["Hsm"]) /\ ChanOK(y["Hsm"])
    BY <1>0, <1>2, <2>0, <2>2, RestoreJoins
  <2>4. SameTalk(x["Hsm"], y["Hsm"])
    BY <1>0, <1>2, <2>0, <2>2, RestoreJoins
  <2>a. y["Fp"] = x["Fp"]
    BY <1>0, <1>2, <2>0, <2>2, RestoreJoins
  <2>5. \A d \in Channels : Goes(TRUE, u, ch[d], y[d])
    BY <1>a, <2>2, <2>3, <2>a DEF Goes, Channels
  <2>6. \A d \in Channels : y[d].tag # u /\ ChanOK(y[d])
    BY <1>4, <1>a, <2>3, <2>4, <2>a DEF SameTalk, Channels
  <2>7. CASE y["Hsm"].owner = u
    <3>1. SendOver(u, y, cmd[u], "Hsm")
      BY <2>0, <2>1, <2>7 DEF RestoreNext, JoinAt
    <3>2. \A d \in Channels : ~Queued(y[d].waiters, u)
      BY <1>3, <1>a, <2>3, <2>7, <2>a DEF ChanOK, Channels
    <3>3. Fits(u, y, cmd[u])
      BY <1>7, <1>0, <1>3, <2>3, <2>6, <3>2 DEF Fits, Clear
    <3>4. CmdGoesOn(u, y, "Restore")
      BY <1>7, <2>7, <3>1, <3>3, Names, SendKeeps
    <3> QED BY <1>0, <1>1, <2>1, <2>5, <3>4, CmdWent
  <2>8. CASE y["Hsm"].owner # u
    <3>1. ch' = y /\ cmd' = [cmd EXCEPT ![u].st = "WaitIpcChannel"]
      BY <2>0, <2>1, <2>8 DEF RestoreNext, JoinAt
    <3>2. PICK k : k = [cmd[u] EXCEPT !.st = "WaitIpcChannel"]
      OBVIOUS
    <3>3. cmd' = [cmd EXCEPT ![u] = k]
      BY <3>1, <3>2
    <3>4. k \in CmdRec /\ k.kind = "Restore" /\ k.f = cmd[u].f /\ k.st = "WaitIpcChannel"
      BY <1>0, <1>7, <3>2 DEF CmdRec
    <3>5. ~Queued(y["Fp"].waiters, u)
      BY <1>3, <1>a, <2>a, Names
    <3>6. CmdOK(u, y, k)
      BY <1>3, <2>6, <3>4, <3>5, Names DEF CmdOK
    <3> QED BY <1>0, <1>1, <2>1, <2>3, <2>5, <3>1, <3>3, <3>4, <3>6, CmdStep
  <2> QED BY <2>7, <2>8
<1>8. CASE valid /\ ch[c].rsp = "Success" /\ cmd[u].kind = "Restore" /\ c = "Hsm"
  <2>1. PICK e : EndCmd(u, x, e) /\ cc_en' \subseteq Fns /\ ready' \subseteq Fns
    BY <1>0, <1>3, <1>8, <1>x DEF CmdAnswered, TakenAt, Refusal
  <2>2. CmdGoesOn(u, x, cmd[u].kind)
    BY <1>5, <2>1, EndKeeps DEF Fits
  <2> QED BY <1>1, <1>a, <2>1, <2>2, CmdWent
<1>9. CASE valid /\ ch[c].rsp = "Success" /\ cmd[u].kind = "Vf"
  <2>1. Proceed(u, x, cmd[u]) /\ UNCHANGED <<cc_en, ready>>
    BY <1>9, <1>x DEF CmdAnswered, TakenAt, Refusal
  <2>2. CmdGoesOn(u, x, cmd[u].kind)
    BY <1>5, <1>9, <2>1, ProceedKeeps
  <2> QED BY <1>0, <1>1, <1>a, <2>1, <2>2, CmdWent
<1>10. CASE valid /\ ch[c].rsp = "Success" /\ cmd[u].kind # "Vf" /\ cmd[u].kind # "Restore"
  <2>1. PICK e : EndCmd(u, x, e) /\ UNCHANGED <<cc_en, ready>>
    BY <1>10, <1>x DEF CmdAnswered, TakenAt, Refusal
  <2>2. CmdGoesOn(u, x, cmd[u].kind)
    BY <1>5, <2>1, EndKeeps DEF Fits
  <2> QED BY <1>0, <1>1, <1>a, <2>1, <2>2, CmdWent
<1> QED BY <1>6, <1>7, <1>8, <1>9, <1>10, <1>f, <1>s DEF Channels, Refusal

LEMMA CmdDeferredKeeps ==
    ASSUME ChannelsInv, NEW u \in Cmds, CmdDeferred(u)
    PROVE  ChannelsInv'
<1>0. /\ ch \in [Channels -> Chan] /\ cc_en \subseteq Fns /\ ready \subseteq Fns /\ pipe \in Seq(Debt)
      /\ cmd \in [Cmds -> CmdRec] /\ u \in Users /\ cmd[u] \in CmdRec /\ CmdOK(u, ch, cmd[u])
      /\ \A c \in Channels : ChanOK(ch[c])
  BY CmdTypes
<1>1. /\ UNCHANGED <<on, owed, cntrl, vflr, irq, cc_en, ready>> /\ pipe # <<>>
      /\ cc_en' \subseteq Fns /\ ready' \subseteq Fns
  BY <1>0 DEF CmdDeferred, cmdFrame
<1>a. \A c \in Channels : Goes(FALSE, u, ch[c], ch[c])
  BY <1>0, Stays DEF Goes
<1>2. CASE cmd[u].st # "WaitDeferred"
  <2>1. UNCHANGED <<pipe, ch, cmd>>
    BY <1>2 DEF CmdDeferred
  <2>2. cmd' = [cmd EXCEPT ![u] = cmd[u]] /\ pipe' \in Seq(Debt)
    BY <1>0, <2>1
  <2> QED BY <1>0, <1>1, <1>a, <2>1, <2>2, CmdStep
<1>3. CASE cmd[u].st = "WaitDeferred"
  <2>1. /\ pipe' = Tail(pipe)
        /\ IF cmd[u].kind = "Vf" THEN Proceed(u, ch, cmd[u]) ELSE EndCmd(u, ch, adrift)
    BY <1>3 DEF CmdDeferred
  <2>2. pipe' \in Seq(Debt)
    BY <1>0, <1>1, <2>1, PipeTaken
  <2>3. Fits(u, ch, cmd[u])
    BY <1>0, <1>3 DEF Fits, Clear, CmdOK
  <2>4. CmdGoesOn(u, ch, cmd[u].kind)
    <3>1. CASE cmd[u].kind = "Vf"
      BY <2>1, <2>3, <3>1, ProceedKeeps
    <3>2. CASE cmd[u].kind # "Vf"
      BY <2>1, <2>3, <3>2, EndKeeps DEF Fits
    <3> QED BY <3>1, <3>2
  <2> QED BY <1>1, <1>a, <2>2, <2>4, CmdWent
<1> QED BY <1>2, <1>3

-----------------------------------------------------------------------------
(* The rest of the system, and the theorem about the queues *)

LEMMA FrameKeeps ==
    ASSUME ChannelsInv, UNCHANGED <<ch, cntrl, vflr, cmd>>, ShapeOK'
    PROVE  ChannelsInv'
<1>1. QueueInv'
  BY DEF ChannelsInv, QueueInv, NoCross, Pairs
<1> QED BY <1>1 DEF ChannelsInv

LEMMA HostKeeps ==
    ASSUME ChannelsInv, NEW f \in Fns, HostSwitch(f) \/ ClearEnable(f) \/ HostNssr(f) \/ HostVflr(f)
    PROVE  ChannelsInv'
<1>1. UNCHANGED <<ch, on, owed, pipe, ready, cntrl, vflr, cmd>>
  BY DEF HostSwitch, ClearEnable, HostNssr, HostVflr, hostFrame, chanVars
<1>2. cc_en \subseteq Fns /\ irq \in [Reasons -> SUBSET Fns]
  BY DEF ChannelsInv, ShapeOK
<1>3. cc_en' \subseteq Fns
  BY <1>2 DEF HostSwitch, ClearEnable, HostNssr, HostVflr
<1>4. irq' \in [Reasons -> SUBSET Fns]
  BY <1>2 DEF HostSwitch, ClearEnable, HostNssr, HostVflr
<1>5. ShapeOK'
  BY <1>1, <1>3, <1>4 DEF ChannelsInv, ShapeOK
<1> QED BY <1>1, <1>5, FrameKeeps

LEMMA ObeyedIn ==
    ASSUME NEW F \in SUBSET Fns, NEW m \in Msg
    PROVE  Obeyed(F, m) \subseteq Fns /\ m.f \in Fns
<1>1. CASE m.op = "Enable"
  BY <1>1 DEF Obeyed, Msg
<1>2. CASE m.op \in {"Disable", "Migrate", "Reset"}
  BY <1>2 DEF Obeyed, Msg
<1>3. CASE m.op \notin {"Enable", "Disable", "Migrate", "Reset"}
  BY <1>3 DEF Obeyed, Msg
<1> QED BY <1>1, <1>2, <1>3

LEMMA AnswersKeep ==
    ASSUME ChannelsInv, NEW c \in Channels, NEW r \in {"Success", "Pending", "Error"}, ch[c].req # NoMsg,
           ch' = Answered(c, r),
           on' = on \/ on' = [on EXCEPT ![c] = Obeyed(@, ch[c].req)],
           owed' = owed \/ owed' = owed \cup {[u |-> TagOf(ch[c]), f |-> ch[c].req.f]},
           UNCHANGED <<pipe, cc_en, ready, irq, cntrl, vflr, cmd>>
    PROVE  ChannelsInv'
<1>0. /\ ch \in [Channels -> Chan] /\ on \in [Channels -> SUBSET Fns] /\ owed \subseteq Debt /\ QueueInv
  BY DEF ChannelsInv, ShapeOK
<1>1. ch[c] \in Chan /\ ch[c].req \in Msg
  BY <1>0 DEF Chan
<1>2. Obeyed(on[c], ch[c].req) \subseteq Fns /\ ch[c].req.f \in Fns
  BY <1>0, <1>1, ObeyedIn
<1>3. on' \in [Channels -> SUBSET Fns]
  BY <1>0, <1>2
<1>4. PICK z : z = ch'
  OBVIOUS
<1>5. ch' \in [Channels -> Chan] /\ \A d \in Channels : \A w \in Users : Moves(w, ch[d], ch'[d])
  BY CoreAnswers
<1>6. ch[c].tag \in Users
  BY CoreAnswers
<1>7. owed' \subseteq Debt
  BY <1>0, <1>2, <1>6 DEF Debt, TagOf
<1>8. ShapeOK'
  BY <1>3, <1>5, <1>7 DEF ChannelsInv, ShapeOK
<1>9. \A d \in Channels : Goes(FALSE, "Cntrl", ch[d], ch'[d])
  BY <1>5, Names DEF Goes
<1>10. MachineOK("Cntrl", ch', cntrl')
  <2>1. MachineOK("Cntrl", ch, cntrl) /\ cntrl' = cntrl
    BY <1>0 DEF QueueInv
  <2>2. \A d \in Channels : Leaves("Vflr", ch[d], ch'[d])
    BY <1>5, Names DEF Moves
  <2> QED BY <2>1, <2>2, Names, MachineElsewhere
<1>11. QueueInv'
  BY <1>0, <1>9, <1>10, Names, UserStep
<1> QED BY <1>8, <1>11 DEF ChannelsInv

LEMMA CoresKeep ==
    ASSUME ChannelsInv, Cores \/ \E c \in Channels : Refuses(c) /\ UNCHANGED localVars
    PROVE  ChannelsInv'
<1>1. CASE FpAnswers /\ UNCHANGED localVars
  <2>1. PICK c \in Channels : c = "Fp"
    BY Names
  <2>2. ch[c].req # NoMsg /\ owed' = owed /\ UNCHANGED <<pipe, cc_en, ready, irq, cntrl, vflr, cmd>>
    BY <1>1, <2>1 DEF FpAnswers, localVars
  <2>3. ch' = Answered(c, "Success")
    BY <1>1, <2>1 DEF FpAnswers
  <2>4. on' = [on EXCEPT ![c] = Obeyed(@, ch[c].req)]
    BY <1>1, <2>1 DEF FpAnswers
  <2> QED BY <2>2, <2>3, <2>4, AnswersKeep
<1>2. CASE HsmAnswers /\ UNCHANGED localVars
  <2>1. PICK c \in Channels : c = "Hsm"
    BY Names
  <2>2. ch[c].req # NoMsg /\ UNCHANGED <<pipe, cc_en, ready, irq, cntrl, vflr, cmd>>
    BY <1>2, <2>1 DEF HsmAnswers, localVars
  <2>4. on' = [on EXCEPT ![c] = Obeyed(@, ch[c].req)]
    BY <1>2, <2>1 DEF HsmAnswers
  <2>3. PICK r \in {"Success", "Pending"} :
          /\ ch' = Answered(c, r)
          /\ owed' = owed \/ owed' = owed \cup {[u |-> TagOf(ch[c]), f |-> ch[c].req.f]}
    BY <1>2, <2>1 DEF HsmAnswers
  <2> QED BY <2>2, <2>3, <2>4, AnswersKeep
<1>3. ASSUME NEW o \in owed, Drained(o) PROVE ChannelsInv'
  <2>1. /\ UNCHANGED <<ch, on, cc_en, ready, irq, cntrl, vflr, cmd>>
        /\ owed' = owed \ {o} /\ (pipe' = Append(pipe, o) \/ pipe' = pipe)
    BY <1>3 DEF Drained, IosDrained, localVars
  <2>2. owed \subseteq Debt /\ pipe \in Seq(Debt) /\ o \in Debt
    BY DEF ChannelsInv, ShapeOK
  <2>3. pipe' \in Seq(Debt) /\ owed' \subseteq Debt
    BY <2>1, <2>2
  <2>4. ShapeOK'
    BY <2>1, <2>3 DEF ChannelsInv, ShapeOK
  <2> QED BY <2>1, <2>4, FrameKeeps
<1>4. ASSUME NEW c \in Channels, Refuses(c), UNCHANGED localVars PROVE ChannelsInv'
  <2>1. ch[c].req # NoMsg /\ UNCHANGED <<on, owed, pipe, cc_en, ready, irq, cntrl, vflr, cmd>>
    BY <1>4 DEF Refuses, localVars
  <2>2. ch' = Answered(c, "Error")
    BY <1>4 DEF Refuses
  <2> QED BY <2>1, <2>2, AnswersKeep
<1> QED BY <1>1, <1>2, <1>3, <1>4 DEF Cores

LEMMA LoopKeeps ==
    ASSUME ChannelsInv, Poll \/ NoSoftEvent \/ NobodyDeferred \/ UNCHANGED vars
    PROVE  ChannelsInv'
<1>1. UNCHANGED <<ch, on, owed, pipe, cc_en, ready, irq, cntrl, vflr, cmd>>
  BY DEF Poll, NoSoftEvent, NobodyDeferred, NobodyTakes, localVars, vars, chanVars
<1>2. ShapeOK'
  BY <1>1 DEF ChannelsInv, ShapeOK
<1> QED BY <1>1, <1>2, FrameKeeps

LEMMA ChannelsStart == Init => ChannelsInv
<1> SUFFICES ASSUME Init PROVE ChannelsInv
  OBVIOUS
<1>1. /\ FreeChannel \in Chan /\ FreeChannel.owner = NoOne /\ FreeChannel.waiters = <<>>
      /\ FreeChannel.tag = NoOne /\ FreeChannel.req = NoMsg /\ FreeChannel.bell = FALSE
      /\ FreeChannel.rsp = "None"
  BY DEF FreeChannel, Chan
<1>2. /\ ch = [c \in Channels |-> FreeChannel] /\ on = [c \in Channels |-> {}]
      /\ owed = {} /\ pipe = <<>> /\ cc_en = {} /\ ready = {} /\ irq = [r \in Reasons |-> {}]
      /\ cntrl = CntrlIdle /\ vflr = VflrIdle /\ cmd = [u \in Cmds |-> CmdIdle]
  BY DEF Init, ChanInit
<1>3. ShapeOK
  BY <1>1, <1>2, Rests DEF ShapeOK
<1>4. \A v : ~Queued(<<>>, v)
  BY DEF Queued
<1>5. \A a, b : ~Before(<<>>, a, b)
  BY DEF Before
<1>6. \A c \in Channels : ch[c] = FreeChannel
  BY <1>2
<1>7. \A c \in Channels : ChanOK(ch[c])
  BY <1>1, <1>4, <1>6 DEF ChanOK, NoneTwice
<1>8. \A c \in Channels, u \in Users : ~In(ch[c], u) /\ ch[c].tag # u
  BY <1>1, <1>4, <1>6, Names DEF In
<1>9. NoCross
  BY <1>8, AheadIn, Names DEF NoCross
<1>10. MachineOK("Cntrl", ch, cntrl) /\ MachineOK("Vflr", ch, vflr)
  BY <1>2, <1>8, Rests, Names DEF MachineOK, Asks, In
<1>11. \A u \in Cmds : CmdOK(u, ch, cmd[u])
  BY <1>2, <1>8, Rests, Names DEF CmdOK, In
<1> QED BY <1>3, <1>7, <1>9, <1>10, <1>11 DEF ChannelsInv, QueueInv

LEMMA ChannelsStep == ChannelsInv /\ [Next]_vars => ChannelsInv'
<1> SUFFICES ASSUME ChannelsInv, [Next]_vars PROVE ChannelsInv'
  OBVIOUS
<1>1. ASSUME NEW f \in Fns, HostSwitch(f) \/ ClearEnable(f) \/ HostNssr(f) \/ HostVflr(f) PROVE ChannelsInv'
  BY <1>1, HostKeeps
<1>2. CASE OnCntrlIrq("change") \/ OnCntrlIrq("nssr")
  BY <1>2, CntrlIrqKeeps
<1>3. CASE CntrlDeferred
  BY <1>3, CntrlDeferredKeeps
<1>4. ASSUME NEW c \in Channels, NEW valid \in BOOLEAN, CntrlChannelReady(c) \/ CntrlAnswered(c, valid)
      PROVE  ChannelsInv'
  BY <1>4, CntrlReadyKeeps, CntrlAnsweredKeeps
<1>5. CASE OnVflrIrq
  BY <1>5, VflrIrqKeeps
<1>6. ASSUME NEW c \in Channels, VflrChannelReady(c) \/ VflrAnswered(c) PROVE ChannelsInv'
  BY <1>6, VflrReadyKeeps, VflrAnsweredKeeps
<1>7. ASSUME NEW u \in Cmds, NEW kind \in Kinds, NEW f \in Fns, NEW n \in 0..MaxQueues,
             CmdStart(u, kind, f, n)
      PROVE  ChannelsInv'
  BY <1>7, CmdStartKeeps
<1>8. ASSUME NEW u \in Cmds, CmdDeferred(u) PROVE ChannelsInv'
  BY <1>8, CmdDeferredKeeps
<1>9. ASSUME NEW u \in Cmds, NEW c \in Channels, NEW valid \in BOOLEAN,
             CmdChannelReady(u, c) \/ CmdAnswered(u, c, valid)
      PROVE  ChannelsInv'
  BY <1>9, CmdReadyKeeps, CmdAnsweredKeeps
<1>10. CASE Cores \/ \E c \in Channels : Refuses(c) /\ UNCHANGED localVars
  BY <1>10, CoresKeep
<1>11. CASE Poll \/ NoSoftEvent \/ NobodyDeferred \/ UNCHANGED vars
  BY <1>11, LoopKeeps
<1> QED BY <1>1, <1>2, <1>3, <1>4, <1>5, <1>6, <1>7, <1>8, <1>9, <1>10, <1>11
     DEF Next, Host, AdminCore, Faults

LEMMA ChannelsHold == Spec => []ChannelsInv
  BY ChannelsStart, ChannelsStep, PTL DEF Spec

(* Whatever the cores do and in whatever order, nobody holds one channel   *)
(* and waits for the other while another does the reverse, unless one of   *)
(* the two is VfRestore: the machines and the commands that need both      *)
(* channels join both queues in one step, so that the queues have them in  *)
(* the same order.  No bound on the functions, commands or queues.         *)
THEOREM OnlyRestoreWaitsInACircle == Spec => []NoCircularWait
<1>1. ChannelsInv => NoCircularWait
  <2> SUFFICES ASSUME ChannelsInv, NEW u \in Users, NEW v \in Users, CircularWait(u, v)
               PROVE  Restoring(u)
    BY DEF NoCircularWait
  <2>1. /\ ch["Fp"] \in Chan /\ ch["Hsm"] \in Chan
        /\ ch["Fp"].waiters \in Seq(Users) /\ ch["Hsm"].waiters \in Seq(Users)
    BY Names DEF ChannelsInv, ShapeOK, Chan
  <2>2. /\ ch["Fp"].owner = u /\ Queued(ch["Hsm"].waiters, u)
        /\ ch["Hsm"].owner = v /\ Queued(ch["Fp"].waiters, v)
    BY <2>1 DEF CircularWait, Holds, Waits, Queued
  <2>3. Ahead(ch["Fp"], u, v) /\ Ahead(ch["Hsm"], v, u)
    BY <2>2 DEF Ahead
  <2>4. ~(Pairs(u) /\ Pairs(v))
    BY <2>3 DEF ChannelsInv, QueueInv, NoCross
  <2>5. ASSUME NEW w \in Cmds, In(ch["Fp"], w), In(ch["Hsm"], w)
        PROVE  cmd[w].kind \in {"Vf", "Restore"}
    <3>1. CmdOK(w, ch, cmd[w]) /\ cmd[w].kind \in Kinds \cup {"None"}
      BY DEF ChannelsInv, ShapeOK, QueueInv, CmdRec
    <3> QED BY <2>5, <3>1, ControlAssumption, Names DEF CmdOK
  <2>6. ASSUME NEW w \in Cmds, cmd[w].kind = "Restore", Queued(ch["Fp"].waiters, w)
        PROVE  ~In(ch["Hsm"], w)
    BY <2>6 DEF ChannelsInv, QueueInv, CmdOK
  <2>7. Pairs(v)
    BY <2>2, <2>5, <2>6, Names DEF Pairs, In
  <2>8. ~Pairs(u)
    BY <2>4, <2>7
  <2> QED BY <2>2, <2>5, <2>8, Names DEF Pairs, In, Restoring
<1> QED BY <1>1, ChannelsHold, PTL

=============================================================================
