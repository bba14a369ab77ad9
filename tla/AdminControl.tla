---------------------------- MODULE AdminControl ----------------------------
(***************************************************************************)
(* The admin core's state machines that need both other cores: CntrlFsm    *)
(* brings CSTS.RDY of a function to what CC.EN asks for, VflrFsm resets a  *)
(* virtual function, and administrative commands create and delete queues, *)
(* stop, start and restore a virtual function.  All of them share the two  *)
(* channels of AdminChannels.                                              *)
(***************************************************************************)
EXTENDS AdminChannels

CONSTANTS Cmds,      \* administrative commands in flight
          Kinds,     \* which ones: "OneFp", "OneHsm" (a queue, or SetRes: one
                     \* channel), "Vf" (VfStart, VfStop), "Restore"
          MaxQueues, \* bound on the queues VfStart and VfStop find
          Resets,    \* other ways to lose CC.EN than the driver's: "clear"
                     \* (VfSave and SetRes), "nssr", "vflr"
          EnableFails \* the admin queues may fail to be created

ASSUME ControlAssumption ==
    /\ Users = Cmds \cup {"Cntrl", "Vflr"} /\ Cmds \cap {"Cntrl", "Vflr"} = {}
    /\ Kinds \subseteq {"OneFp", "OneHsm", "Vf", "Restore"}
    /\ MaxQueues \in Nat /\ Resets \subseteq {"clear", "nssr", "vflr"}
    /\ EnableFails \in BOOLEAN

VARIABLES
    cc_en, ready,  \* CC.EN and CSTS.RDY
    irq,           \* interrupts: functions by reason
    flr,           \* functions whose reset the host waits for
    cntrl, vflr,   \* the two state machines
    cmd,           \* the commands
    adrift         \* history: functions whose last change met an error that
                   \* nobody acted upon

vars == <<chanVars, cc_en, ready, irq, flr, cntrl, vflr, cmd, adrift>>

Physical == NF - 1
Reasons == {"change", "nssr", "vflr"}
CntrlIdle == [st |-> "Idle", active |-> NoFn, pend |-> {}, nssr |-> {},
              status |-> "Invalid", deferred |-> FALSE, vfp |-> FALSE, vhsm |-> FALSE]
VflrIdle == [st |-> "Idle", active |-> NoFn, pend |-> {}]
CmdIdle == [kind |-> "None", st |-> "Idle", f |-> NoFn, left |-> 0]

Init ==
    /\ ChanInit
    /\ cc_en = {} /\ ready = {} /\ flr = {}
    /\ irq = [r \in Reasons |-> {}]
    /\ cntrl = CntrlIdle /\ vflr = VflrIdle
    /\ cmd = [u \in Cmds |-> CmdIdle] /\ adrift = {}

Lowest(S) == CHOOSE f \in S : \A g \in S : f <= g
Above(S, f) == {g \in S : g > f}

Both(x, u) == \A c \in Channels : x[c].owner = u
BothAcquired(u) == [c \in Channels |-> Acquired(ch[c], u)]
BothReleased(x) == [c \in Channels |-> Released(x[c])]
BothFree(x) == \A c \in Channels : x[c].tag = NoOne

-----------------------------------------------------------------------------
(* The host, and what else changes CC.EN *)

hostFrame == <<chanVars, ready, cntrl, vflr, cmd, adrift>>

(* The driver switches a function once RDY has followed the last switch,   *)
(* or has failed to, and a reset of the subsystem has been served          *)
HostSwitch(f) ==
    /\ (f \in cc_en <=> f \in ready) \/ f \in adrift
    /\ f \notin irq["nssr"] \cup cntrl.nssr
    /\ f \notin flr /\ \A u \in Cmds : cmd[u].f # f
    /\ cc_en' = IF f \in cc_en THEN cc_en \ {f} ELSE cc_en \cup {f}
    /\ irq' = [irq EXCEPT !["change"] = @ \cup {f}]
    /\ UNCHANGED <<flr, hostFrame>>

(* clear_enable of a virtual function, by VfSave or SetRes *)
ClearEnable(f) ==
    /\ "clear" \in Resets /\ f \in cc_en \ {Physical}
    /\ cc_en' = cc_en \ {f}
    /\ irq' = [irq EXCEPT !["change"] = @ \cup {f}]
    /\ UNCHANGED <<flr, hostFrame>>

(* Reset of the NVMe subsystem *)
HostNssr(f) ==
    /\ "nssr" \in Resets /\ f \in cc_en \cap ready
    /\ cc_en' = cc_en \ {f}
    /\ irq' = [irq EXCEPT !["nssr"] = @ \cup {f}]
    /\ UNCHANGED <<flr, hostFrame>>

(* Reset of a virtual function *)
HostVflr(f) ==
    /\ "vflr" \in Resets /\ f \in cc_en \ {Physical} /\ f \notin flr
    /\ cc_en' = cc_en \ {f} /\ flr' = flr \cup {f}
    /\ irq' = [irq EXCEPT !["vflr"] = @ \cup {f}]
    /\ UNCHANGED hostFrame

-----------------------------------------------------------------------------
(* CntrlFsm *)

Message(op, f) == [op |-> op, f |-> f]

(* query_state_change *)
Changing(f, r) == f \in cc_en <=> f \notin r

(* update_cntrl_state, with the channels x, what is pending, RDY and what  *)
(* is adrift: the next change is asked of both cores; a request that is    *)
(* refused is passed over, though FP may have had it, and when nothing is  *)
(* left the channels are given back.                                       *)
UpdateCntrlState(x, p, n, r, d) ==
    LET todo == {f \in p : Changing(f, r)}
        f == IF todo # {} THEN Lowest(todo) ELSE Lowest(n)
        op == CASE todo = {} -> "Migrate"
                [] todo # {} /\ f \in cc_en -> "Enable"
                [] OTHER -> "Disable"
        y == [x EXCEPT !["Fp"] = Sent(@, "Cntrl", Message(IF op = "Enable" THEN op ELSE "Disable", f))]
    IN  IF todo = {} /\ n = {}
          THEN ch' = BothReleased(x) /\ cntrl' = CntrlIdle /\ adrift' = d
          ELSE IF BothFree(x)
          THEN /\ ch' = [y EXCEPT !["Hsm"] = Sent(@, "Cntrl", Message(op, f))]
               /\ cntrl' = [CntrlIdle EXCEPT
                     !.st = "WaitIpcResponse", !.active = f, !.status = op,
                     !.pend = IF todo = {} THEN {} ELSE Above(p, f),
                     !.nssr = IF todo = {} THEN n \ {f} ELSE n]
               /\ adrift' = d \ {f}
          ELSE /\ ch' = BothReleased(y) /\ cntrl' = CntrlIdle
               /\ adrift' = IF x["Fp"].tag = NoOne THEN d \cup {f} ELSE d

cntrlFrame == <<on, owed, pipe, cc_en, ready, flr, vflr, cmd>>

(* on_cntrl_state_change, on_nssr; on_pend_cntrl, on_pend_nssr *)
OnCntrlIrq(reason) ==
    LET p == IF reason = "change" THEN cntrl.pend \cup irq[reason] ELSE cntrl.pend
        n == IF reason = "nssr" THEN cntrl.nssr \cup irq[reason] ELSE cntrl.nssr
        x == BothAcquired("Cntrl")
    IN
    /\ loop = "hw" /\ irq[reason] # {}
    /\ irq' = [irq EXCEPT ![reason] = {}]
    /\ IF cntrl.st # "Idle"
         THEN cntrl' = [cntrl EXCEPT !.pend = p, !.nssr = n] /\ UNCHANGED <<ch, adrift>>
       ELSE IF Both(x, "Cntrl") THEN UpdateCntrlState(x, p, n, ready, adrift)
       ELSE /\ cntrl' = [cntrl EXCEPT !.st = "WaitIpcChannel", !.pend = p, !.nssr = n]
            /\ ch' = x /\ UNCHANGED adrift
    /\ UNCHANGED <<loop, cntrlFrame>>

(* on_first_ipc_channel_ready, on_second_ipc_channel_ready *)
CntrlChannelReady(c) ==
    LET x == [ch EXCEPT ![c] = Given(@)] IN
    /\ Granted(c, "Cntrl")
    /\ IF Both(x, "Cntrl") THEN UpdateCntrlState(x, cntrl.pend, cntrl.nssr, ready, adrift)
       ELSE ch' = x /\ UNCHANGED <<cntrl, adrift>>
    /\ UNCHANGED <<loop, irq, cntrlFrame>>

(* RDY is r and d is adrift; what is put off keeps the machine where it    *)
(* is, otherwise the next change has its turn.                             *)
GoOn(x, k, r, d) ==
    /\ ready' = r
    /\ IF k.deferred THEN cntrl' = k /\ ch' = x /\ adrift' = d
       ELSE UpdateCntrlState(x, k.pend, k.nssr, r, d)

(* Mutant: a disable that the HSM core put off is taken for done *)
CompleteEarly(x, k, d) ==
    IF k.status = "Enable" THEN GoOn(x, k, ready \cup {k.active}, d)
    ELSE GoOn(x, [k EXCEPT !.deferred = FALSE], ready \ {k.active}, d)

(* Mutant: what came in since the request was sent is forgotten *)
CompleteForgets(x, k, d) ==
    GoOn(x, [k EXCEPT !.pend = {}, !.nssr = {}],
         IF k.status = "Enable" THEN ready \cup {k.active}
         ELSE IF k.deferred THEN ready ELSE ready \ {k.active}, d)

(* complete: RDY follows if both cores have answered and, for an enable,   *)
(* the admin queues can be created; else the change is dropped.            *)
Complete(x, k, d) ==
    LET heard == k.vfp /\ k.vhsm IN
    \/ ~heard /\ GoOn(x, k, ready, d \cup {k.active})
    \/ heard /\ k.status = "Enable" /\ GoOn(x, k, ready \cup {k.active}, d)
    \/ heard /\ k.status = "Enable" /\ EnableFails /\ GoOn(x, k, ready, d \cup {k.active})
    \/ heard /\ k.status # "Enable" /\ GoOn(x, k, IF k.deferred THEN ready ELSE ready \ {k.active}, d)

AwaitedBy(st, c) ==
    \/ st = "WaitIpcResponse"
    \/ st = "WaitFpIpcResponse" /\ c = "Fp"
    \/ st = "WaitHsmIpcResponse" /\ c = "Hsm"

AwaitOther(c) == IF c = "Fp" THEN "WaitHsmIpcResponse" ELSE "WaitFpIpcResponse"

(* A core refused the request, which is not looked at *)
Refusal(c) == ch[c].rsp = "Error"

(* on_ipc_response_message, on_fp_ipc_response_message,                    *)
(* on_hsm_ipc_response_message; an answer nobody waits for is left there   *)
CntrlAnswered(c, valid) ==
    LET x == [ch EXCEPT ![c] = Received(Rung(@))]
        k == [cntrl EXCEPT !.vfp = IF c = "Fp" THEN valid ELSE @,
                           !.vhsm = IF c = "Hsm" THEN valid ELSE @,
                           !.deferred = IF c = "Hsm" /\ valid THEN ch[c].rsp = "Pending" ELSE @]
        d == IF Refusal(c) THEN adrift \cup {cntrl.active} ELSE adrift
    IN
    /\ loop = "hw" /\ ch[c].bell /\ ch[c].tag = "Cntrl"
    /\ valid \/ c \in Garbled
    /\ IF ~AwaitedBy(cntrl.st, c)
         THEN ch' = [ch EXCEPT ![c] = Rung(@)] /\ UNCHANGED <<cntrl, ready, adrift>>
       ELSE IF cntrl.st = "WaitIpcResponse"
         THEN cntrl' = [k EXCEPT !.st = AwaitOther(c)] /\ ch' = x /\ adrift' = d /\ UNCHANGED ready
       ELSE Complete(x, k, d)
    /\ UNCHANGED <<loop, irq, on, owed, pipe, cc_en, flr, vflr, cmd>>

(* on_handle_deferred_action, whatever the machine is waiting for *)
CntrlDeferred ==
    /\ loop = "soft" /\ loop' = "hw"
    /\ pipe # <<>> /\ Head(pipe).u = "Cntrl" /\ pipe' = Tail(pipe)
    /\ IF cntrl.active = Head(pipe).f
         THEN Complete(ch, [cntrl EXCEPT !.deferred = FALSE], adrift)
         ELSE UNCHANGED <<cntrl, ch, ready, adrift>>
    /\ UNCHANGED <<irq, on, owed, cc_en, flr, vflr, cmd>>

-----------------------------------------------------------------------------
(* VflrFsm *)

(* Mutant: the reset of a function that is not ready is not completed *)
ProcessVflrSkips(x, p, r, w, d) ==
    LET todo == p \cap r
        f == Lowest(todo)
    IN  /\ flr' = w /\ adrift' = d
        /\ IF todo = {}
             THEN ch' = BothReleased(x) /\ vflr' = VflrIdle
             ELSE /\ ch' = [c \in Channels |-> Sent(x[c], "Vflr", Message("Reset", f))]
                  /\ vflr' = [st |-> "WaitIpcResponse", active |-> f, pend |-> Above(p, f)]

(* process_vflr: the next function that is ready is disabled on both       *)
(* cores; the reset of one that is not is complete at once.                *)
ProcessVflr(x, p, r, w, d) ==
    LET todo == p \cap r
        f == Lowest(todo)
        y == [x EXCEPT !["Fp"] = Sent(@, "Vflr", Message("Reset", f))]
    IN  IF todo = {}
          THEN ch' = BothReleased(x) /\ vflr' = VflrIdle /\ flr' = w \ p /\ adrift' = d
          ELSE IF BothFree(x)
          THEN /\ ch' = [y EXCEPT !["Hsm"] = Sent(@, "Vflr", Message("Reset", f))]
               /\ vflr' = [st |-> "WaitIpcResponse", active |-> f, pend |-> Above(p, f)]
               /\ flr' = w \ (p \ (Above(p, f) \cup {f})) /\ adrift' = d \ {f}
          ELSE /\ ch' = BothReleased(y) /\ vflr' = VflrIdle /\ flr' = w \ (p \ r)
               /\ adrift' = IF x["Fp"].tag = NoOne THEN d \cup {f} ELSE d

OnVflrIrq ==
    LET p == vflr.pend \cup irq["vflr"]
        x == BothAcquired("Vflr")
    IN
    /\ loop = "hw" /\ irq["vflr"] # {}
    /\ irq' = [irq EXCEPT !["vflr"] = {}]
    /\ IF vflr.st # "Idle"
         THEN vflr' = [vflr EXCEPT !.pend = p] /\ UNCHANGED <<ch, flr, adrift>>
       ELSE IF Both(x, "Vflr") THEN ProcessVflr(x, p, ready, flr, adrift)
       ELSE /\ vflr' = [vflr EXCEPT !.st = "WaitIpcChannel", !.pend = p]
            /\ ch' = x /\ UNCHANGED <<flr, adrift>>
    /\ UNCHANGED <<loop, on, owed, pipe, cc_en, ready, cntrl, cmd>>

VflrChannelReady(c) ==
    LET x == [ch EXCEPT ![c] = Given(@)] IN
    /\ Granted(c, "Vflr")
    /\ IF Both(x, "Vflr") THEN ProcessVflr(x, vflr.pend, ready, flr, adrift)
       ELSE ch' = x /\ UNCHANGED <<vflr, flr, adrift>>
    /\ UNCHANGED <<loop, irq, on, owed, pipe, cc_en, ready, cntrl, cmd>>

(* The second answer completes the reset of the function; what the answers *)
(* say, put off or refused, makes no difference                            *)
VflrAnswered(c) ==
    LET x == [ch EXCEPT ![c] = Received(Rung(@))]
        r == ready \ {vflr.active}
        d == IF Refusal(c) THEN adrift \cup {vflr.active} ELSE adrift
    IN
    /\ loop = "hw" /\ ch[c].bell /\ ch[c].tag = "Vflr"
    /\ IF ~AwaitedBy(vflr.st, c)
         THEN ch' = [ch EXCEPT ![c] = Rung(@)] /\ UNCHANGED <<vflr, ready, flr, adrift>>
       ELSE IF vflr.st = "WaitIpcResponse"
         THEN /\ vflr' = [vflr EXCEPT !.st = AwaitOther(c)]
              /\ ch' = x /\ adrift' = d /\ UNCHANGED <<ready, flr>>
         ELSE ready' = r /\ ProcessVflr(x, vflr.pend, r, flr \ {vflr.active}, d)
    /\ UNCHANGED <<loop, irq, on, owed, pipe, cc_en, cntrl, cmd>>

-----------------------------------------------------------------------------
(* Administrative commands *)

Needs(kind) == CASE kind \in {"OneFp", "Restore"} -> {"Fp"}
                 [] kind = "OneHsm" -> {"Hsm"}
                 [] OTHER -> Channels

Ops(kind) == CASE kind = "Restore" -> {"Enable"}
               [] OTHER -> {"Create", "Delete"}

(* Command u is at its end and gives back what it holds; d is adrift *)
EndCmd(u, x, d) ==
    /\ cmd' = [cmd EXCEPT ![u] = CmdIdle]
    /\ ch' = [c \in Channels |-> IF x[c].owner = u THEN Released(x[c]) ELSE x[c]]
    /\ adrift' = d

(* What a VfRestore that fails at the HSM core leaves enabled on FP alone *)
HalfRestored(k, c) == IF k.kind = "Restore" /\ c = "Hsm" THEN {k.f} ELSE {}

(* send_*_ipc_request over c; a refusal ends the command with an error *)
SendOver(u, x, k, c) ==
    IF x[c].tag # NoOne THEN EndCmd(u, x, adrift \cup HalfRestored(k, c))
    ELSE /\ \E op \in Ops(k.kind) : ch' = [x EXCEPT ![c] = Sent(@, u, Message(op, k.f))]
         /\ cmd' = [cmd EXCEPT ![u] = [k EXCEPT !.st = "WaitIpcResponse"]]
         /\ UNCHANGED adrift

(* The command has its channels: a queue's request, or the next of several *)
(* (recreate_submission_queues, disable_submission_queues)                 *)
Proceed(u, x, k) ==
    IF k.kind # "Vf" THEN \E c \in Channels : x[c].owner = u /\ SendOver(u, x, k, c)
    ELSE IF k.left = 0 THEN EndCmd(u, x, adrift)
    ELSE \E c \in Channels : SendOver(u, x, [k EXCEPT !.left = @ - 1], c)

cmdFrame == <<on, owed, irq, flr, cntrl, vflr>>

(* A virtual function that is disabled, with nothing going on: the manager *)
(* of the virtual machines restores no other                               *)
Quiet(f) ==
    /\ f \notin {Physical} \cup cc_en \cup ready \cup flr \cup cntrl.pend \cup cntrl.nssr \cup vflr.pend
    /\ f \notin {cntrl.active, vflr.active} /\ \A r \in Reasons : f \notin irq[r]
    /\ \A u \in Cmds : cmd[u].f # f

(* on_start *)
CmdStart(u, kind, f, n) ==
    LET k == [kind |-> kind, st |-> "WaitIpcChannel", f |-> f, left |-> n]
        x == [c \in Channels |-> IF c \in Needs(kind) THEN Acquired(ch[c], u) ELSE ch[c]]
    IN
    /\ loop = "hw" /\ cmd[u] = CmdIdle
    /\ kind \in Kinds /\ (kind # "Vf" => n = 0)
    /\ IF kind = "Restore" THEN Quiet(f) ELSE f \in ready
    /\ IF \A c \in Needs(kind) : x[c].owner = u THEN Proceed(u, x, k)
       ELSE ch' = x /\ cmd' = [cmd EXCEPT ![u] = k] /\ UNCHANGED adrift
    /\ UNCHANGED <<loop, pipe, cc_en, ready, cmdFrame>>

(* on_ipc_channel_ready *)
CmdChannelReady(u, c) ==
    LET x == [ch EXCEPT ![c] = Given(@)] IN
    /\ Granted(c, u)
    /\ IF cmd[u].kind = "Restore" THEN SendOver(u, x, cmd[u], c)
       ELSE IF \A d \in Needs(cmd[u].kind) : x[d].owner = u THEN Proceed(u, x, cmd[u])
       ELSE ch' = x /\ UNCHANGED <<cmd, adrift>>
    /\ UNCHANGED <<loop, pipe, cc_en, ready, cmdFrame>>

(* Mutant: VfRestore is content with FP's answer *)
RestoreNextNot(u, x) == EndCmd(u, x, adrift)

(* VfRestore has FP's answer and goes on to the HSM core *)
RestoreNext(u, x) ==
    LET y == [x EXCEPT !["Hsm"] = Acquired(@, u)] IN
    IF y["Hsm"].owner = u THEN SendOver(u, y, cmd[u], "Hsm")
    ELSE ch' = y /\ cmd' = [cmd EXCEPT ![u].st = "WaitIpcChannel"] /\ UNCHANGED adrift

(* on_ipc_channel_response, on_hsm_ipc_response, on_fp_ipc_response: an    *)
(* error ends the command, also one that FP may have obeyed                *)
CmdAnswered(u, c, valid) ==
    LET x == [ch EXCEPT ![c] = Received(Rung(@))]
        k == cmd[u]
    IN
    /\ loop = "hw" /\ ch[c].bell /\ ch[c].tag = u /\ k.st = "WaitIpcResponse"
    /\ valid \/ c \in Garbled
    /\ CASE ~valid -> EndCmd(u, x, adrift \cup HalfRestored(k, "Hsm")) /\ UNCHANGED <<cc_en, ready>>
         [] valid /\ Refusal(c) -> EndCmd(u, x, adrift \cup HalfRestored(k, c)) /\ UNCHANGED <<cc_en, ready>>
         [] valid /\ ch[c].rsp = "Pending" ->
              /\ cmd' = [cmd EXCEPT ![u].st = "WaitDeferred"] /\ ch' = x
              /\ UNCHANGED <<cc_en, ready, adrift>>
         [] valid /\ ch[c].rsp = "Success" ->
              CASE k.kind = "Restore" /\ c = "Fp" -> RestoreNext(u, x) /\ UNCHANGED <<cc_en, ready>>
                [] k.kind = "Restore" /\ c = "Hsm" ->
                     /\ cc_en' = cc_en \cup {k.f} /\ ready' = ready \cup {k.f}
                     /\ EndCmd(u, x, adrift \ {k.f})
                [] k.kind = "Vf" -> Proceed(u, x, k) /\ UNCHANGED <<cc_en, ready>>
                [] OTHER -> EndCmd(u, x, adrift) /\ UNCHANGED <<cc_en, ready>>
    /\ UNCHANGED <<loop, pipe, cmdFrame>>

(* on_deferred_queue_deletion; in any other state the notification is left *)
(* in the pipe, at its head                                                *)
CmdDeferred(u) ==
    /\ loop = "soft" /\ loop' = "hw"
    /\ pipe # <<>> /\ Head(pipe).u = u
    /\ IF cmd[u].st # "WaitDeferred" THEN UNCHANGED <<pipe, ch, cmd, adrift>>
       ELSE /\ pipe' = Tail(pipe)
            /\ IF cmd[u].kind = "Vf" THEN Proceed(u, ch, cmd[u]) ELSE EndCmd(u, ch, adrift)
    /\ UNCHANGED <<cc_en, ready, cmdFrame>>

-----------------------------------------------------------------------------
NoSoftEvent ==
    /\ loop = "soft" /\ pipe = <<>> /\ loop' = "hw"
    /\ UNCHANGED <<ch, on, owed, pipe, cc_en, ready, irq, flr, cntrl, vflr, cmd, adrift>>

localVars == <<cc_en, ready, irq, flr, cntrl, vflr, cmd, adrift>>

Poll == /\ PollDone(\E r \in Reasons : irq[r] # {})
        /\ UNCHANGED <<ch, on, owed, pipe, localVars>>

Drained(o) == IosDrained(o) /\ UNCHANGED localVars
NobodyDeferred == NobodyTakes /\ UNCHANGED localVars

Cores == \/ (FpAnswers \/ HsmAnswers) /\ UNCHANGED localVars
         \/ \E o \in owed : Drained(o)

(* What comes from outside: switches, resets and commands *)
Host ==
    \/ \E f \in Fns : HostSwitch(f) \/ ClearEnable(f) \/ HostNssr(f) \/ HostVflr(f)
    \/ \E u \in Cmds, kind \in Kinds, f \in Fns, n \in 0..MaxQueues : CmdStart(u, kind, f, n)

AdminCore ==
    \/ OnCntrlIrq("change") \/ OnCntrlIrq("nssr") \/ CntrlDeferred
    \/ \E c \in Channels : CntrlChannelReady(c) \/ CntrlAnswered(c, TRUE)
    \/ OnVflrIrq
    \/ \E c \in Channels : VflrChannelReady(c) \/ VflrAnswered(c)
    \/ \E u \in Cmds : \/ CmdDeferred(u)
                       \/ \E c \in Channels : CmdChannelReady(u, c) \/ CmdAnswered(u, c, TRUE)
    \/ Poll \/ NoSoftEvent \/ NobodyDeferred

(* A core refuses, or its answer cannot be decoded *)
Faults ==
    \E c \in Channels : \/ Refuses(c) /\ UNCHANGED localVars
                        \/ CntrlAnswered(c, FALSE)
                        \/ \E u \in Cmds : CmdAnswered(u, c, FALSE)

Next == Host \/ AdminCore \/ Cores \/ Faults

Spec == Init /\ [][Next]_vars

(* Both other cores answer, I/Os drain, and the main loop turns; that it   *)
(* gets to the pipe assumes that not every look at the interrupts finds    *)
(* one.                                                                    *)
Fairness ==
    /\ WF_vars(FpAnswers /\ UNCHANGED localVars) /\ WF_vars(HsmAnswers /\ UNCHANGED localVars)
    /\ \A u \in Users, f \in Fns : WF_vars(Drained([u |-> u, f |-> f]))
    /\ WF_vars(OnCntrlIrq("change")) /\ WF_vars(OnCntrlIrq("nssr")) /\ WF_vars(OnVflrIrq)
    /\ \A c \in Channels :
          /\ WF_vars(CntrlChannelReady(c)) /\ WF_vars(\E valid \in BOOLEAN : CntrlAnswered(c, valid))
          /\ WF_vars(VflrChannelReady(c)) /\ WF_vars(VflrAnswered(c))
          /\ \A u \in Cmds : /\ WF_vars(CmdChannelReady(u, c))
                            /\ WF_vars(\E valid \in BOOLEAN : CmdAnswered(u, c, valid))
    /\ SF_vars(Poll) /\ WF_vars(NoSoftEvent) /\ WF_vars(NobodyDeferred) /\ WF_vars(CntrlDeferred)
    /\ \A u \in Cmds : WF_vars(CmdDeferred(u))

LiveSpec == Spec /\ Fairness

-----------------------------------------------------------------------------
TypeOK ==
    /\ ChanTypeOK
    /\ cc_en \subseteq Fns /\ ready \subseteq Fns /\ flr \subseteq Fns
    /\ adrift \subseteq Fns /\ irq \in [Reasons -> SUBSET Fns]
    /\ cntrl \in [st : {"Idle", "WaitIpcChannel", "WaitIpcResponse", "WaitFpIpcResponse",
                        "WaitHsmIpcResponse"},
                  active : Fns \cup {NoFn}, pend : SUBSET Fns, nssr : SUBSET Fns,
                  status : {"Invalid", "Enable", "Disable", "Migrate"},
                  deferred : BOOLEAN, vfp : BOOLEAN, vhsm : BOOLEAN]
    /\ vflr \in [st : {"Idle", "WaitIpcChannel", "WaitIpcResponse", "WaitFpIpcResponse",
                       "WaitHsmIpcResponse"}, active : Fns \cup {NoFn}, pend : SUBSET Fns]
    /\ cmd \in [Cmds -> [kind : Kinds \cup {"None"}, f : Fns \cup {NoFn}, left : 0..MaxQueues,
                         st : {"Idle", "WaitIpcChannel", "WaitIpcResponse", "WaitDeferred"}]]

Settled == /\ cntrl = CntrlIdle /\ vflr = VflrIdle /\ \A u \in Cmds : cmd[u] = CmdIdle
           /\ \A r \in Reasons : irq[r] = {}

(* When nothing is in progress the three cores agree on which functions    *)
(* are enabled, through every mixture of switches, resets and restores, if *)
(* only the last change of the function met no error that was passed over: *)
(* a refusal, an answer beyond decoding or not waited for, a VfRestore     *)
(* that fails half-way, an enable() that is only logged.                   *)
CoresAgree ==
    Settled => \A c \in Channels, f \in Fns \ adrift : f \in on[c] <=> f \in ready

(* CntrlFsm, and the command that deletes a queue, do not go on before the *)
(* I/Os they were told to wait for are done, also when the notification is *)
(* there before the answers are; CSTS.RDY of a function that is to be      *)
(* disabled stays until then.  (VflrFsm does not wait: what is put off for *)
(* it is nobody's.)                                                        *)
DrainedBeforeDisabled ==
    \A o \in owed :
        /\ o.u = "Cntrl" => cntrl.active = o.f /\ (cntrl.status = "Disable" => o.f \in ready)
        /\ o.u \in Cmds => cmd[o.u].f = o.f

(* VfRestore acquires its second channel while it holds the first *)
Restoring(u) == u \in Cmds /\ cmd[u].kind = "Restore"
Deadlocked == \E u, v \in Users : Restoring(u) /\ CircularWait(u, v)

(* Nobody holds one channel and waits for the other while another does the *)
(* reverse, though the machines that need both queue for each by itself;   *)
(* only VfRestore can be one of such a pair.                               *)
NoCircularWait ==
    \A u, v \in Users : CircularWait(u, v) => Restoring(u)

(* No two users of the channels wait for each other.                       *)
NeverDeadlocked == ~Deadlocked

(* A request of CntrlFsm that it has stopped waiting for: the channel      *)
(* stays busy for good                                                     *)
LeftBehind(c) == ch[c].tag = "Cntrl" /\ ~AwaitedBy(cntrl.st, c)

(* A notification that nobody takes is before one that somebody waits for *)
Jammed ==
    /\ pipe # <<>> /\ Head(pipe).u = NoOne
    /\ cntrl.deferred \/ \E u \in Cmds : cmd[u].st = "WaitDeferred"

(* CSTS.RDY follows CC.EN, whatever else goes on in the meantime, unless   *)
(* an error was passed over, VfRestore and another machine wait for each   *)
(* other, a channel stays busy because CntrlFsm took a notification before *)
(* the answers, or the notification of a reset of a virtual function is in *)
(* the way of one that somebody waits for.                                 *)
Follows ==
    \A f \in Fns :
        Changing(f, ready) ~> \/ ~Changing(f, ready) \/ f \in adrift
                              \/ Deadlocked \/ Jammed \/ \E c \in Channels : LeftBehind(c)

(* Every command ends, with an answer or an error, unless it is one of two *)
(* that wait for each other or a notification is in the way; every reset   *)
(* of a virtual function completes, unless moreover a channel stays busy.  *)
Served ==
    /\ \A u \in Cmds : cmd[u] # CmdIdle ~> cmd[u] = CmdIdle \/ Deadlocked \/ Jammed
    /\ \A f \in Fns : f \in flr ~> \/ f \notin flr \/ Deadlocked \/ Jammed
                                   \/ \E c \in Channels : LeftBehind(c)
=============================================================================
