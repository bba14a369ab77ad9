---------------------------- MODULE SetResource -----------------------------
(***************************************************************************)
(* How a virtual function gets and loses its key tables: the SetRes        *)
(* command of the admin core, the channel it shares with the controller's  *)
(* enable and disable, the HSM core's handler and its partition            *)
(* initialisation, and the reset of the physical function that goes around *)
(* the channel.                                                            *)
(*                                                                         *)
(* A tenancy is what lies between two resets of a partition: keys and      *)
(* identity belong to the tenancy they were made in.                       *)
(***************************************************************************)
EXTENDS ResourceTable, Sequences

CONSTANTS Cmds,         \* SetRes commands the host may have outstanding
          MaxTenancy,   \* bound on the resets of a partition
          Liberties,    \* what the host may do: reduce a count to something else
                        \* than 0 ("shrink"), send a function's next command
                        \* before the last is answered ("pipeline"), reset the
                        \* PF while something is in progress ("flr")
          Faults        \* of the HSM core: no slot for the FSM ("slot"), an
                        \* engine or a test fails ("fail"), the initialisation
                        \* ends without an answer ("silent"); and of the channel:
                        \* it refuses a request because CntrlFsm gave it back
                        \* with one outstanding ("busy")

ASSUME SetResAssumption ==
    /\ MaxTenancy \in Nat \ {0}
    /\ Liberties \subseteq {"shrink", "pipeline", "flr"}
    /\ Faults \subseteq {"slot", "fail", "silent", "busy"}
    /\ NoOne \notin Cmds /\ "Cntrl" \notin Cmds /\ NoOne # "Cntrl"

VARIABLES
    \* admin core
    cmd,      \* [st, f] of each AdminSetResCmd
    cntrl,    \* [st, f] of CntrlFsm; it moves to the state CC.EN asks for
    chan,     \* who holds the HSM IPC channel
    waiters,  \* who waits for it, CmdResource::waiters
    cc_en,    \* functions with CC.EN set
    ready,    \* functions with CSTS.RDY set
    flr,      \* PcieFsm: "None", "Hsm" (event sent), "Admin" (event answered)
    \* between the cores
    req, rsp,
    \* HSM core
    mask,     \* ResourceGroups of each partition
    enabled,  \* partitions that are enabled
    ident,    \* [id, key, valid] of each partition, by tenancy; 0 is zeroized
    init,     \* HsmPartInitFsm
    keysOf,   \* whose keys a table has: [f, t], or NoKeys
    \* history
    tenancy,
    failed    \* functions whose last SetRes was answered with an error

adminVars == <<cmd, cntrl, chan, waiters, cc_en, ready>>
hsmVars == <<mask, enabled, ident, init, keysOf, tenancy>>
vars == <<tableVars, adminVars, flr, req, rsp, hsmVars, failed>>

NoKeys == [f |-> NoOne, t |-> 0]
NoMsg == [op |-> "None", f |-> NoOne, mask |-> {}]
NoRsp == "None"
NoIdent == [id |-> 0, key |-> 0, valid |-> FALSE]
NoInit == [st |-> "None", f |-> NoOne, km |-> 0]
Idle == [st |-> "Idle", f |-> NoOne]

Init ==
    /\ TableInit
    /\ cmd = [c \in Cmds |-> Idle] /\ cntrl = Idle
    /\ chan = NoOne /\ waiters = <<>> /\ cc_en = {} /\ ready = {} /\ flr = "None"
    /\ req = NoMsg /\ rsp = NoRsp
    /\ mask = [f \in Functions |-> {}] /\ enabled = {}
    /\ ident = [f \in Functions |-> NoIdent] /\ init = NoInit
    /\ keysOf = [r \in Resources |-> NoKeys]
    /\ tenancy = [f \in Functions |-> 1] /\ failed = {}

-----------------------------------------------------------------------------
(* Admin core: AdminSetResCmd *)

SetResMsg(f, own) == [op |-> "SetRes", f |-> f, mask |-> {r \in Resources : own[r] = f}]

(* Mutant: a channel that has just been released goes to whoever comes first *)
FreeNow == chan = NoOne

(* A channel that is free is kept for those who wait for it *)
Available == chan = NoOne /\ waiters = <<>>

(* Acquire the channel and send the function's mask, or wait for it.  When *)
(* the channel refuses the request the command ends with an error, and the *)
(* resource table stays as it has been changed.                            *)
SendOrWait(c, f) ==
    \/ /\ Available
       /\ chan' = c /\ req' = SetResMsg(f, owner')
       /\ cmd' = [cmd EXCEPT ![c] = [st |-> "WaitIpcResponse", f |-> f]]
       /\ UNCHANGED <<waiters, failed>>
    \/ /\ ~Available
       /\ waiters' = Append(waiters, c)
       /\ cmd' = [cmd EXCEPT ![c] = [st |-> "WaitIpcChannel", f |-> f]]
       /\ UNCHANGED <<chan, req, failed>>
    \/ /\ "busy" \in Faults /\ Available
       /\ failed' = failed \cup {f}
       /\ UNCHANGED <<cmd, chan, waiters, req>>

(* on_start.  A function that is enabled is first told to disable itself.  *)
(* The same count again, and one that cannot be had, end the command here. *)
OnStart(c, f, n) ==
    /\ cmd[c] = Idle /\ flr = "None"
    /\ n = 0 => tenancy[f] < MaxTenancy
    /\ "shrink" \in Liberties \/ n = 0 \/ n >= res_cnt[f]
    /\ "pipeline" \in Liberties \/ \A d \in Cmds : cmd[d].f # f
    /\ cc_en' = cc_en \ {f}
    /\ IF n = res_cnt[f] \/ ~Possible(f, n)
         THEN UNCHANGED <<tableVars, cmd, chan, waiters, req, failed>>
         ELSE SetResCnt(f, n) /\ SendOrWait(c, f)
    /\ UNCHANGED <<cntrl, ready, flr, rsp, hsmVars>>

(* The first in the queue gets the channel; the mask is that of now *)
Granted(who) ==
    /\ chan = NoOne /\ waiters # <<>> /\ Head(waiters) = who
    /\ waiters' = Tail(waiters)

OnIpcChannelReady(c) ==
    /\ Granted(c)
    /\ \/ /\ chan' = c /\ req' = SetResMsg(cmd[c].f, owner)
          /\ cmd' = [cmd EXCEPT ![c].st = "WaitIpcResponse"]
          /\ UNCHANGED failed
       \/ /\ "busy" \in Faults
          /\ cmd' = [cmd EXCEPT ![c] = Idle] /\ failed' = failed \cup {cmd[c].f}
          /\ UNCHANGED <<chan, req>>
    /\ UNCHANGED <<tableVars, cntrl, cc_en, ready, flr, rsp, hsmVars>>

(* Mutant: the command ends without giving the channel back *)
OnIpcResponseKeeps(c) ==
    /\ chan = c /\ rsp # NoRsp
    /\ cmd' = [cmd EXCEPT ![c] = Idle]
    /\ rsp' = NoRsp
    /\ failed' = IF rsp = "Success" THEN failed \ {cmd[c].f} ELSE failed \cup {cmd[c].f}
    /\ UNCHANGED <<tableVars, cntrl, chan, waiters, cc_en, ready, flr, req, hsmVars>>

(* The command ends with the response, whatever its status, and gives the  *)
(* channel back; nothing is undone when it is an error.                    *)
OnIpcResponse(c) ==
    /\ chan = c /\ rsp # NoRsp
    /\ cmd' = [cmd EXCEPT ![c] = Idle]
    /\ chan' = NoOne /\ rsp' = NoRsp
    /\ failed' = IF rsp = "Success" THEN failed \ {cmd[c].f} ELSE failed \cup {cmd[c].f}
    /\ UNCHANGED <<tableVars, cntrl, waiters, cc_en, ready, flr, req, hsmVars>>

-----------------------------------------------------------------------------
(* Admin core: the part of CntrlFsm that talks to the HSM core *)

HostSwitch(f) ==
    /\ flr = "None" /\ res_cnt[f] > 0
    /\ \A c \in Cmds : cmd[c].f # f
    /\ cc_en' = IF f \in cc_en THEN cc_en \ {f} ELSE cc_en \cup {f}
    /\ UNCHANGED <<tableVars, cmd, cntrl, chan, waiters, ready, flr, req, rsp, hsmVars, failed>>

Changing == {f \in Functions : f \in cc_en <=> f \notin ready}

CntrlSend(f) ==
    /\ cntrl' = [st |-> "WaitIpcResponse", f |-> f] /\ chan' = "Cntrl"
    /\ req' = [op |-> IF f \in cc_en THEN "Enable" ELSE "Disable", f |-> f, mask |-> {}]

CntrlBegin(f) ==
    /\ cntrl = Idle /\ f \in Changing
    /\ IF Available
         THEN CntrlSend(f) /\ UNCHANGED waiters
         ELSE /\ cntrl' = [st |-> "WaitIpcChannel", f |-> NoOne]
              /\ waiters' = Append(waiters, "Cntrl")
              /\ UNCHANGED <<chan, req>>
    /\ UNCHANGED <<tableVars, cmd, cc_en, ready, flr, rsp, hsmVars, failed>>

(* With the channel it looks again at what there is to do *)
CntrlChannelReady ==
    /\ Granted("Cntrl")
    /\ \/ \E f \in Changing : CntrlSend(f)
       \/ Changing = {} /\ cntrl' = Idle /\ UNCHANGED <<chan, req>>
    /\ UNCHANGED <<tableVars, cmd, cc_en, ready, flr, rsp, hsmVars, failed>>

CntrlEnd ==
    /\ chan = "Cntrl" /\ rsp # NoRsp
    /\ ready' = IF rsp = "Enabled" THEN ready \cup {cntrl.f} ELSE ready \ {cntrl.f}
    /\ cntrl' = Idle /\ chan' = NoOne /\ rsp' = NoRsp
    /\ UNCHANGED <<tableVars, cmd, waiters, cc_en, flr, req, hsmVars, failed>>

-----------------------------------------------------------------------------
(* HSM core: what a partition loses *)

(* PartState::disable for the functions of F: the vault is cleared through *)
(* the mask                                                                *)
Cleared(F) ==
    [r \in Resources |-> IF \E f \in F : r \in mask[f] THEN NoKeys ELSE keysOf[r]]

(* Mutant: the identity survives a reset *)
ResetKeepsIdent(F) ==
    /\ keysOf' = Cleared(F)
    /\ enabled' = enabled \ F
    /\ mask' = [f \in Functions |-> IF f \in F THEN {} ELSE mask[f]]
    /\ tenancy' = [f \in Functions |-> IF f \in F THEN tenancy[f] + 1 ELSE tenancy[f]]
    /\ UNCHANGED ident

(* Mutant: the key tables survive a reset *)
ResetKeepsKeys(F) ==
    /\ UNCHANGED keysOf
    /\ enabled' = enabled \ F
    /\ mask' = [f \in Functions |-> IF f \in F THEN {} ELSE mask[f]]
    /\ ident' = [f \in Functions |-> IF f \in F THEN NoIdent ELSE ident[f]]
    /\ tenancy' = [f \in Functions |-> IF f \in F THEN tenancy[f] + 1 ELSE tenancy[f]]

(* Partition::reset for the functions of F *)
Reset(F) ==
    /\ keysOf' = Cleared(F)
    /\ enabled' = enabled \ F
    /\ mask' = [f \in Functions |-> IF f \in F THEN {} ELSE mask[f]]
    /\ ident' = [f \in Functions |-> IF f \in F THEN NoIdent ELSE ident[f]]
    /\ tenancy' = [f \in Functions |-> IF f \in F THEN tenancy[f] + 1 ELSE tenancy[f]]

-----------------------------------------------------------------------------
(* HSM core: HsmPartInitFsm *)

Respond(status) == rsp' = status /\ init' = NoInit

InitState(st, f, km) == [st |-> st, f |-> f, km |-> km]

(* begin_generate_partition_identifiers, with an engine: an identity that  *)
(* is there is kept; otherwise the id is drawn now and the key comes later *)
BeginGenerate(f) ==
    \/ /\ ident[f].valid /\ Respond("Success") /\ UNCHANGED ident
    \/ /\ ~ident[f].valid
       /\ ident' = [ident EXCEPT ![f].id = tenancy[f]]
       /\ \/ /\ init' = InitState("GeneratingPartitionKey", f, tenancy[f])
             /\ UNCHANGED rsp
          \/ "fail" \in Faults /\ Respond("OperationFailed")

(* The FSM ends on an error it hands on, and nothing is sent *)
EndSilently == "silent" \in Faults /\ init' = NoInit /\ UNCHANGED rsp

(* handle_begin_pct_validation *)
BeginPct(f, km) ==
    \/ init' = InitState("WaitForSign", f, km) /\ UNCHANGED rsp
    \/ EndSilently
    \/ "fail" \in Faults /\ Respond("OperationFailed")

(* handle_set_resource with a mask that is not empty: the mask is replaced *)
(* before the identity is looked at, unless the scheduler has no slot      *)
HandleSetRes ==
    LET f == req.f IN
    /\ req.op = "SetRes" /\ req.mask # {} /\ req' = NoMsg
    /\ \/ /\ mask' = [mask EXCEPT ![f] = req.mask]
          /\ \/ BeginGenerate(f)
             \/ /\ init' = InitState("WaitForPIDK", f, 0)
                /\ UNCHANGED <<ident, rsp>>
       \/ /\ "slot" \in Faults /\ rsp' = "InvalidField"
          /\ UNCHANGED <<mask, init, ident>>
    /\ UNCHANGED <<tableVars, adminVars, flr, enabled, keysOf, tenancy, failed>>

(* handle_set_resource with an empty mask *)
HandleSetResZero ==
    /\ req.op = "SetRes" /\ req.mask = {} /\ req' = NoMsg
    /\ Reset({req.f}) /\ rsp' = "Success"
    /\ UNCHANGED <<tableVars, adminVars, flr, init, failed>>

(* handle_pfn_enable *)
HandlePfnEnable ==
    /\ req.op \in {"Enable", "Disable"} /\ req' = NoMsg
    /\ IF req.op = "Enable"
         THEN /\ enabled' = enabled \cup {req.f} /\ rsp' = "Enabled"
              /\ UNCHANGED keysOf
         ELSE /\ enabled' = enabled \ {req.f} /\ rsp' = "Disabled"
              /\ keysOf' = Cleared({req.f})
    /\ UNCHANGED <<tableVars, adminVars, flr, mask, ident, init, tenancy, failed>>

initFrame == <<tableVars, adminVars, flr, req, mask, enabled, keysOf, tenancy, failed>>

PkaReadyForPIDK ==
    /\ init.st = "WaitForPIDK" /\ BeginGenerate(init.f)
    /\ UNCHANGED initFrame

(* continue_get_partition_identifiers: the key is there *)
KeyGenerated ==
    /\ init.st = "GeneratingPartitionKey"
    /\ \/ BeginPct(init.f, init.km)
       \/ /\ init' = InitState("WaitForPct", init.f, init.km) /\ UNCHANGED rsp
       \/ "fail" \in Faults /\ Respond("OperationFailed")
    /\ UNCHANGED <<ident, initFrame>>

PkaReadyForPct ==
    /\ init.st = "WaitForPct" /\ BeginPct(init.f, init.km)
    /\ UNCHANGED <<ident, initFrame>>

(* handle_continue_pct_validation before the final state *)
Signed ==
    /\ init.st = "WaitForSign"
    /\ \/ init' = [init EXCEPT !.st = "WaitForVerify"] /\ UNCHANGED rsp
       \/ EndSilently
    /\ UNCHANGED <<ident, initFrame>>

(* and in the final state: the key is committed if it passed *)
Verified ==
    /\ init.st = "WaitForVerify"
    /\ \/ /\ ident' = [ident EXCEPT ![init.f].key = init.km, ![init.f].valid = TRUE]
          /\ Respond("Success")
       \/ /\ EndSilently \/ ("fail" \in Faults /\ Respond("OperationFailed"))
          /\ UNCHANGED ident
    /\ UNCHANGED initFrame

(* A key is stored for a partition: the vault looks at the mask alone *)
StoreKey(f, r) ==
    /\ r \in mask[f] /\ keysOf[r] = NoKeys
    /\ keysOf' = [keysOf EXCEPT ![r] = [f |-> f, t |-> tenancy[f]]]
    /\ UNCHANGED <<tableVars, adminVars, flr, req, rsp, mask, enabled, ident, init, tenancy, failed>>

-----------------------------------------------------------------------------
(* Reset of the physical function: on_pcie_flr, on_flr, complete_flr *)

Quiet == /\ \A c \in Cmds : cmd[c] = Idle
         /\ cntrl = Idle /\ init = NoInit

OnPcieFlr ==
    /\ \A f \in Functions : tenancy[f] < MaxTenancy
    /\ flr = "None" /\ ("flr" \in Liberties \/ Quiet)
    /\ flr' = "Hsm"
    /\ UNCHANGED <<tableVars, adminVars, req, rsp, hsmVars, failed>>

OnFlr ==
    /\ flr = "Hsm" /\ flr' = "Admin"
    /\ Reset(Functions)
    /\ UNCHANGED <<tableVars, adminVars, req, rsp, init, failed>>

(* Mutant: the resources keep their owners *)
CompleteFlrKeepsTable ==
    /\ flr = "Admin" /\ flr' = "None"
    /\ UNCHANGED tableVars
    /\ cc_en' = {} /\ ready' = {} /\ failed' = {}
    /\ UNCHANGED <<cmd, cntrl, chan, waiters, req, rsp, hsmVars>>

CompleteFlr ==
    /\ flr = "Admin" /\ flr' = "None"
    /\ ResetTable
    /\ cc_en' = {} /\ ready' = {} /\ failed' = {}
    /\ UNCHANGED <<cmd, cntrl, chan, waiters, req, rsp, hsmVars>>

-----------------------------------------------------------------------------
Next ==
    \/ \E c \in Cmds, f \in Functions, n \in 0..NR : OnStart(c, f, n)
    \/ \E c \in Cmds : OnIpcChannelReady(c) \/ OnIpcResponse(c)
    \/ \E f \in Functions : HostSwitch(f) \/ CntrlBegin(f)
    \/ CntrlChannelReady \/ CntrlEnd
    \/ HandleSetRes \/ HandleSetResZero \/ HandlePfnEnable
    \/ PkaReadyForPIDK \/ KeyGenerated \/ PkaReadyForPct \/ Signed \/ Verified
    \/ \E f \in Functions, r \in Resources : StoreKey(f, r)
    \/ OnPcieFlr \/ OnFlr \/ CompleteFlr

Spec == Init /\ [][Next]_vars

(* Both cores keep handling events and engines finish. *)
Fairness ==
    /\ WF_vars(HandleSetRes) /\ WF_vars(HandleSetResZero) /\ WF_vars(HandlePfnEnable)
    /\ WF_vars(PkaReadyForPIDK) /\ WF_vars(KeyGenerated) /\ WF_vars(PkaReadyForPct)
    /\ WF_vars(Signed) /\ WF_vars(Verified)
    /\ WF_vars(CntrlChannelReady) /\ WF_vars(CntrlEnd)
    /\ WF_vars(OnFlr) /\ WF_vars(CompleteFlr)
    /\ \A c \in Cmds : WF_vars(OnIpcChannelReady(c)) /\ WF_vars(OnIpcResponse(c))

LiveSpec == Spec /\ Fairness

-----------------------------------------------------------------------------
TypeOK ==
    /\ TableTypeOK
    /\ cmd \in [Cmds -> [st : {"Idle", "WaitIpcChannel", "WaitIpcResponse"},
                         f : Functions \cup {NoOne}]]
    /\ waiters \in Seq(Cmds \cup {"Cntrl"})
    /\ cntrl \in [st : {"Idle", "WaitIpcChannel", "WaitIpcResponse"}, f : Functions \cup {NoOne}]
    /\ chan \in Cmds \cup {"Cntrl", NoOne}
    /\ cc_en \subseteq Functions /\ ready \subseteq Functions
    /\ flr \in {"None", "Hsm", "Admin"}
    /\ req \in [op : {"None", "SetRes", "Enable", "Disable"},
                f : Functions \cup {NoOne}, mask : SUBSET Resources]
    /\ rsp \in {"None", "Success", "OperationFailed", "InvalidField",
                "Enabled", "Disabled"}
    /\ mask \in [Functions -> SUBSET Resources] /\ enabled \subseteq Functions
    /\ ident \in [Functions -> [id : 0..MaxTenancy, key : 0..MaxTenancy,
                                valid : BOOLEAN]]
    /\ init \in [st : {"None", "WaitForPIDK", "GeneratingPartitionKey", "WaitForPct",
                       "WaitForSign", "WaitForVerify"},
                 f : Functions \cup {NoOne}, km : 0..MaxTenancy]
    /\ keysOf \in [Resources -> [f : Functions \cup {NoOne}, t : 0..MaxTenancy]]
    /\ tenancy \in [Functions -> 1..MaxTenancy] /\ failed \subseteq Functions

(* No key table is in the masks of two partitions, though the admin core   *)
(* gives a table on before the HSM core has taken it from the last owner.  *)
MasksApart ==
    \A f, g \in Functions : f # g => mask[f] \cap mask[g] = {}

(* The keys in a table are those of the partition that has it, stored in   *)
(* its present tenancy: a table comes to a new owner empty.                *)
TablesClean ==
    \A r \in Resources :
        keysOf[r] # NoKeys => /\ r \in mask[keysOf[r].f]
                              /\ tenancy[keysOf[r].f] = keysOf[r].t

(* An identity that is valid has the id and the key that were generated    *)
(* together, in the partition's present tenancy.                           *)
IdentityCurrent ==
    \A f \in Functions :
        ident[f].valid => /\ ident[f].id = tenancy[f]
                          /\ ident[f].key = tenancy[f]

(* When nothing is in progress the two cores agree on who has what, and a  *)
(* partition that has resources has its identity, for the functions whose  *)
(* last SetRes succeeded.                                                  *)
CoresAgree ==
    Quiet /\ flr = "None" =>
        \A f \in Functions \ failed : /\ mask[f] = Owned(f)
                                      /\ mask[f] # {} => ident[f].valid

(* A command waits for an answer that nobody is going to send *)
Abandoned ==
    /\ chan \in Cmds /\ cmd[chan].st = "WaitIpcResponse"
    /\ req = NoMsg /\ rsp = NoRsp /\ init = NoInit

(* Every SetRes command of the host ends, though it shares the channel     *)
(* with others and with the controller, and is answered by an FSM on the   *)
(* other core; unless that FSM has ended without an answer.                *)
Answered == \A c \in Cmds : cmd[c] # Idle ~> cmd[c] = Idle \/ Abandoned
=============================================================================
