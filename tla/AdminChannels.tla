--------------------------- MODULE AdminChannels ----------------------------
(***************************************************************************)
(* What the state machines of the admin core share: the IPC channels to    *)
(* the fast path (FP) and to the HSM core, each a counted resource of one  *)
(* unit with a queue of waiters and a driver that knows the one request in *)
(* progress; the pipe of notifications for what the HSM core has put off;  *)
(* and the main loop, which handles interrupts until there are none and    *)
(* then looks once at the pipe.                                            *)
(***************************************************************************)
EXTENDS Integers, Sequences, FiniteSets

CONSTANTS NF,      \* number of PCIe functions
          Users,   \* state machines of the admin core that use the channels
          NoOne,   \* nobody: a free channel, or a tag at which nobody waits
          Errs,    \* channels whose core may refuse a request with an error
          Garbled  \* channels whose answers may be beyond decoding

ASSUME ChannelAssumption ==
    /\ NF \in Nat \ {0} /\ NoOne \notin Users
    /\ Errs \subseteq {"Fp", "Hsm"} /\ Garbled \subseteq {"Fp", "Hsm"}

Fns == 0..(NF-1)
NoFn == NF
Channels == {"Fp", "Hsm"}

VARIABLES
    ch,    \* the channels
    on,    \* functions that are enabled on the core at the end of each
    owed,  \* what the HSM core has put off: who asked, and for which function
    pipe,  \* notifications: the same, once it is done
    loop   \* main loop: "hw" (interrupts), "soft" (the pipe)

chanVars == <<ch, on, owed, pipe, loop>>

NoMsg == [op |-> "None", f |-> NoFn]

(* owner and waiters: CmdResource; tag, req, rsp: IpcMessageChannel, with  *)
(* the message under way in each direction; bell: interrupt of the answer  *)
FreeChannel == [owner |-> NoOne, waiters |-> <<>>, tag |-> NoOne,
                req |-> NoMsg, rsp |-> "None", bell |-> FALSE]

ChanInit ==
    /\ ch = [c \in Channels |-> FreeChannel]
    /\ on = [c \in Channels |-> {}]
    /\ owed = {} /\ pipe = <<>> /\ loop = "hw"

(* Mutant: a channel that is free goes to whoever asks, waiters or not *)
AcquiredAtOnce(x, u) ==
    IF x.owner = NoOne
      THEN [x EXCEPT !.owner = u]
      ELSE [x EXCEPT !.waiters = Append(@, u)]

(* acquire *)
Acquired(x, u) ==
    IF x.owner = NoOne /\ x.waiters = <<>>
      THEN [x EXCEPT !.owner = u]
      ELSE [x EXCEPT !.waiters = Append(@, u)]

(* A channel that was released goes to the first who waits *)
Granted(c, u) == ch[c].owner = NoOne /\ ch[c].waiters # <<>> /\ Head(ch[c].waiters) = u

Given(x) == [x EXCEPT !.owner = Head(x.waiters), !.waiters = Tail(@)]

(* send_request; it fails while a request is in progress *)
Sent(x, u, m) == IF x.tag = NoOne THEN [x EXCEPT !.tag = u, !.req = m] ELSE x

(* Mutant: the driver keeps the tag of an answered request *)
ReceivedKeepsTag(x) == [x EXCEPT !.rsp = "None"]

(* receive_message *)
Received(x) == [x EXCEPT !.rsp = "None", !.tag = NoOne]

Released(x) == [x EXCEPT !.owner = NoOne]

(* The interrupt of an answer has been taken, for the machine with its tag *)
Rung(x) == [x EXCEPT !.bell = FALSE]

Holds(u, c) == ch[c].owner = u
Waits(u, c) == \E i \in DOMAIN ch[c].waiters : ch[c].waiters[i] = u

(* handle_pfn_enable's effect on the functions of F; Reset is the Disable  *)
(* of VflrFsm, whose message carries tag 0                                 *)
Obeyed(F, m) ==
    CASE m.op = "Enable" -> F \cup {m.f}
      [] m.op \in {"Disable", "Migrate", "Reset"} -> F \ {m.f}
      [] OTHER -> F

Answered(c, rsp) == [ch EXCEPT ![c].req = NoMsg, ![c].rsp = rsp, ![c].bell = TRUE]

(* FP does what it is asked *)
FpAnswers ==
    /\ ch["Fp"].req # NoMsg
    /\ ch' = Answered("Fp", "Success")
    /\ on' = [on EXCEPT !["Fp"] = Obeyed(@, ch["Fp"].req)]
    /\ UNCHANGED <<owed, pipe, loop>>

(* Whose tag is in the message *)
TagOf(x) == IF x.req.op = "Reset" THEN NoOne ELSE x.tag

(* The HSM core does what it is asked; a function with I/Os in flight is   *)
(* put off, for whoever asked, and VflrFsm's request under a tag that is   *)
(* nobody's                                                                *)
HsmAnswers ==
    LET x == ch["Hsm"]
        m == x.req
    IN
    /\ m # NoMsg
    /\ \/ ch' = Answered("Hsm", "Success") /\ UNCHANGED owed
       \/ /\ m.op \in {"Disable", "Migrate", "Reset", "Delete"} /\ m.f \in on["Hsm"]
          /\ ch' = Answered("Hsm", "Pending")
          /\ owed' = owed \cup {[u |-> TagOf(x), f |-> m.f]}
    /\ on' = [on EXCEPT !["Hsm"] = Obeyed(@, m)]
    /\ UNCHANGED <<pipe, loop>>

(* A core refuses and answers with an error *)
Refuses(c) ==
    /\ c \in Errs /\ ch[c].req # NoMsg
    /\ ch' = Answered(c, "Error")
    /\ UNCHANGED <<on, owed, pipe, loop>>

(* The last of these I/Os retires and its queue sends the notification,    *)
(* whether or not the admin core has heard the answer yet; the pipe has    *)
(* room for one notification of each function, one more is dropped         *)
IosDrained(o) ==
    /\ o \in owed
    /\ owed' = owed \ {o}
    /\ pipe' = IF Len(pipe) < NF THEN Append(pipe, o) ELSE pipe
    /\ UNCHANGED <<ch, on, loop>>

(* The notification at the head is for a tag at which nobody waits: it is  *)
(* only looked at                                                          *)
NobodyTakes ==
    /\ loop = "soft" /\ loop' = "hw"
    /\ pipe # <<>> /\ Head(pipe).u = NoOne
    /\ UNCHANGED <<ch, on, owed, pipe>>

(* The main loop, with interrupts other than the answers in more *)
PollDone(more) ==
    /\ loop = "hw" /\ ~more /\ \A c \in Channels : ~ch[c].bell
    /\ loop' = "soft"

ChanTypeOK ==
    /\ ch \in [Channels -> [owner : Users \cup {NoOne}, waiters : Seq(Users),
                            tag : Users \cup {NoOne},
                            req : [op : {"None", "Enable", "Disable", "Migrate", "Reset",
                                         "Create", "Delete"},
                                   f : Fns \cup {NoFn}],
                            rsp : {"None", "Success", "Pending", "Error"}, bell : BOOLEAN]]
    /\ on \in [Channels -> SUBSET Fns]
    /\ owed \subseteq [u : Users \cup {NoOne}, f : Fns]
    /\ pipe \in Seq([u : Users \cup {NoOne}, f : Fns])
    /\ loop \in {"hw", "soft"}

(* u and v hold one channel each and wait for the other's *)
CircularWait(u, v) ==
    /\ Holds(u, "Fp") /\ Waits(u, "Hsm")
    /\ Holds(v, "Hsm") /\ Waits(v, "Fp")
=============================================================================
