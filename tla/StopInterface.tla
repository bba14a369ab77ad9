--------------------------- MODULE StopInterface ----------------------------
(***************************************************************************)
(* StopInterfaceFsm of the admin core: on request of the service processor *)
(* (HSP) it disables a set of functions on FP and on the HSM core, one     *)
(* after the other, collects those whose disable the HSM core has put off, *)
(* waits for the notifications of these and answers.  It shares the        *)
(* channels of AdminChannels with one other user, who may go away before   *)
(* his request is answered, as CntrlFsm does.                              *)
(***************************************************************************)
EXTENDS AdminChannels

CONSTANTS Other,    \* whoever else uses the channels, one at a time
          Slow,     \* a core may take longer to answer than the timer allows
          HspFull   \* HSP's queue may have no room for the answer

(* No core refuses: handle_pfn_enable has no error for a Disable *)
ASSUME StopAssumption ==
    /\ Users = {"Stop", Other} /\ Other # "Stop" /\ Errs = {}
    /\ Slow \in BOOLEAN /\ HspFull \in BOOLEAN

VARIABLES
    hsp,   \* HSP: its request, and whether it waits for the answer
    stop   \* the state machine

vars == <<chanVars, hsp, stop>>

StopIdle == [st |-> "Idle", pending |-> {}, deferred |-> {}, current |-> NoFn,
             vfp |-> FALSE, vhsm |-> FALSE]

(* Some functions are enabled, on both cores *)
Init ==
    /\ \E F \in SUBSET Fns :
          /\ ch = [c \in Channels |-> FreeChannel]
          /\ on = [c \in Channels |-> F]
    /\ owed = {} /\ pipe = <<>> /\ loop = "hw"
    /\ hsp = [st |-> "Idle", bits |-> {}] /\ stop = StopIdle

Alive == stop.st # "FatalError"
Lowest(S) == CHOOSE f \in S : \A g \in S : f <= g
Both(x) == \A c \in Channels : x[c].owner = "Stop"

-----------------------------------------------------------------------------
(* HSP asks for some functions to be stopped *)
HspAsks(bits) ==
    /\ hsp.st # "Asked"
    /\ hsp' = [st |-> "Asked", bits |-> bits]
    /\ UNCHANGED <<chanVars, stop>>

(* send_hsp_response: the answer, with the channels given back; an answer  *)
(* for which there is no room is fatal                                     *)
Respond(x, k) ==
    \/ /\ hsp' = [hsp EXCEPT !.st = "Answered"]
       /\ ch' = [c \in Channels |-> Released(x[c])]
       /\ stop' = [k EXCEPT !.st = "Idle", !.current = NoFn]
    \/ /\ HspFull /\ stop' = [k EXCEPT !.st = "FatalError", !.current = NoFn]
       /\ ch' = x /\ UNCHANGED hsp

(* Mutant: the answer does not wait for what has been put off *)
StopLoopEager(x, k) ==
    IF k.pending # {}
      THEN /\ ch' = [c \in Channels |-> Sent(x[c], "Stop", [op |-> "Disable", f |-> Lowest(k.pending)])]
           /\ stop' = [k EXCEPT !.st = "WaitIpcResponse", !.current = Lowest(k.pending),
                                !.pending = @ \ {Lowest(@)}]
           /\ UNCHANGED hsp
      ELSE Respond(x, k)

(* stop_interface_loop: the next function is disabled on both cores; after *)
(* the last one the machine waits for what has been put off, or answers.   *)
(* A request that is refused is fatal.                                     *)
StopLoop(x, k) ==
    LET f == Lowest(k.pending)
        m == [op |-> "Disable", f |-> f]
    IN
    CASE k.pending # {} /\ (\A c \in Channels : x[c].tag = NoOne) ->
           /\ ch' = [c \in Channels |-> Sent(x[c], "Stop", m)]
           /\ stop' = [k EXCEPT !.st = "WaitIpcResponse", !.current = f, !.pending = @ \ {f}]
           /\ UNCHANGED hsp
      [] k.pending # {} /\ (\E c \in Channels : x[c].tag # NoOne) ->
           /\ stop' = [k EXCEPT !.st = "FatalError", !.current = f, !.pending = @ \ {f}]
           /\ ch' = [x EXCEPT !["Fp"] = Sent(@, "Stop", m)] /\ UNCHANGED hsp
      [] k.pending = {} /\ k.deferred # {} ->
           /\ stop' = [k EXCEPT !.st = "WaitIoCancellationComplete", !.current = NoFn]
           /\ ch' = x /\ UNCHANGED hsp
      [] OTHER -> Respond(x, k)

stopFrame == <<on, owed>>

(* on_stop_interface_request *)
OnStopInterfaceRequest ==
    LET x == [c \in Channels |-> Acquired(ch[c], "Stop")]
        k == [stop EXCEPT !.pending = hsp.bits]
    IN
    /\ loop = "hw" /\ hsp.st = "Asked" /\ stop.st = "Idle"
    /\ IF Both(x) THEN StopLoop(x, k)
       ELSE ch' = x /\ stop' = [k EXCEPT !.st = "WaitIpcChannels"] /\ UNCHANGED hsp
    /\ UNCHANGED <<loop, pipe, stopFrame>>

(* on_first_ipc_channel_ready, on_second_ipc_channel_ready *)
StopChannelReady(c) ==
    LET x == [ch EXCEPT ![c] = Given(@)] IN
    /\ Alive /\ Granted(c, "Stop")
    /\ IF Both(x) THEN StopLoop(x, stop) ELSE ch' = x /\ UNCHANGED <<stop, hsp>>
    /\ UNCHANGED <<loop, pipe, stopFrame>>

(* complete: a function without both answers is asked for again *)
Complete(x, k) ==
    StopLoop(x, [k EXCEPT !.pending = IF k.vfp /\ k.vhsm THEN @ ELSE @ \cup {k.current},
                          !.vfp = FALSE, !.vhsm = FALSE])

Awaited(c) ==
    \/ stop.st = "WaitIpcResponse"
    \/ stop.st = "WaitFpIpcResponse" /\ c = "Fp"
    \/ stop.st = "WaitHsmIpcResponse" /\ c = "Hsm"

(* on_ipc_response_message, on_fp_ipc_response_message,                    *)
(* on_hsm_ipc_response_message                                             *)
StopAnswered(c, valid) ==
    LET x == [ch EXCEPT ![c] = Received(Rung(@))]
        k == [stop EXCEPT
                !.vfp = IF c = "Fp" THEN valid ELSE @,
                !.vhsm = IF c = "Hsm" THEN valid ELSE @,
                !.deferred = IF c = "Hsm" /\ valid /\ ch[c].rsp = "Pending"
                               THEN @ \cup {stop.current} ELSE @]
    IN
    /\ Alive /\ loop = "hw" /\ ch[c].bell /\ ch[c].tag = "Stop" /\ Awaited(c)
    /\ valid \/ c \in Garbled
    /\ IF stop.st = "WaitIpcResponse"
         THEN /\ stop' = [k EXCEPT !.st = IF c = "Fp" THEN "WaitHsmIpcResponse"
                                                       ELSE "WaitFpIpcResponse"]
              /\ ch' = x /\ UNCHANGED hsp
         ELSE Complete(x, k)
    /\ UNCHANGED <<loop, pipe, stopFrame>>

(* Mutant: the last notification does not end the wait *)
StopDeferredNotes ==
    /\ Alive /\ loop = "soft" /\ loop' = "hw" /\ pipe # <<>>
    /\ IF stop.st \in {"Idle", "WaitIpcChannels"} THEN UNCHANGED <<pipe, stop>>
       ELSE pipe' = Tail(pipe) /\ stop' = [stop EXCEPT !.deferred = @ \ {Head(pipe).f}]
    /\ UNCHANGED <<ch, hsp, stopFrame>>

(* on_handle_deferred_action, while answers are awaited or after the last; *)
(* in any other state the notification stays at the head of the pipe       *)
StopDeferred ==
    LET k == [stop EXCEPT !.deferred = @ \ {Head(pipe).f}] IN
    /\ Alive /\ loop = "soft" /\ loop' = "hw" /\ pipe # <<>>
    /\ CASE stop.st \in {"Idle", "WaitIpcChannels"} -> UNCHANGED <<pipe, stop, ch, hsp>>
         [] stop.st = "WaitIoCancellationComplete" -> pipe' = Tail(pipe) /\ StopLoop(ch, k)
         [] OTHER -> pipe' = Tail(pipe) /\ stop' = k /\ UNCHANGED <<ch, hsp>>
    /\ UNCHANGED stopFrame

(* The timer of a request elapses *)
StopTimeout ==
    /\ Slow /\ Alive
    /\ stop.st \in {"WaitIpcResponse", "WaitFpIpcResponse", "WaitHsmIpcResponse"}
    /\ stop' = [stop EXCEPT !.st = "FatalError"]
    /\ UNCHANGED <<chanVars, hsp>>

-----------------------------------------------------------------------------
(* The other user: acquires a channel, asks, and gives the channel back    *)

otherFrame == <<on, owed, pipe, loop, hsp, stop>>

(* A request that is refused ends the command *)
OtherSends(x, c) ==
    ch' = [ch EXCEPT ![c] = IF x.tag = NoOne THEN Sent(x, Other, [op |-> "Create", f |-> 0])
                            ELSE Released(x)]

OtherStarts(c) ==
    LET x == Acquired(ch[c], Other) IN
    /\ Alive /\ loop = "hw" /\ ~Holds(Other, c) /\ ~Waits(Other, c)
    /\ IF x.owner = Other THEN OtherSends(x, c) ELSE ch' = [ch EXCEPT ![c] = x]
    /\ UNCHANGED otherFrame

OtherReady(c) ==
    /\ Alive /\ Granted(c, Other) /\ OtherSends(Given(ch[c]), c)
    /\ UNCHANGED otherFrame

(* An answer that he still waits for ends it, a late one is left there *)
OtherAnswered(c) ==
    /\ Alive /\ loop = "hw" /\ ch[c].bell /\ ch[c].tag = Other
    /\ ch' = [ch EXCEPT ![c] = IF Holds(Other, c) THEN Released(Received(Rung(@))) ELSE Rung(@)]
    /\ UNCHANGED otherFrame

(* He gives the channel back before the answer, as CntrlFsm does when the  *)
(* notification overtakes it                                               *)
OtherLeaves(c) ==
    /\ Alive /\ Holds(Other, c)
    /\ ch' = [ch EXCEPT ![c] = Released(@)]
    /\ UNCHANGED otherFrame

-----------------------------------------------------------------------------
localVars == <<hsp, stop>>

Poll == Alive /\ PollDone(hsp.st = "Asked" /\ stop.st = "Idle")
        /\ UNCHANGED <<ch, on, owed, pipe, localVars>>

NoSoftEvent ==
    /\ Alive /\ loop = "soft" /\ pipe = <<>> /\ loop' = "hw"
    /\ UNCHANGED <<ch, on, owed, pipe, localVars>>

Fp == FpAnswers /\ UNCHANGED localVars
Hsm == HsmAnswers /\ UNCHANGED localVars
Drained(o) == IosDrained(o) /\ UNCHANGED localVars

Next ==
    \/ \E bits \in SUBSET Fns : HspAsks(bits)
    \/ OnStopInterfaceRequest \/ StopDeferred \/ StopTimeout
    \/ \E c \in Channels : \/ StopChannelReady(c) \/ \E valid \in BOOLEAN : StopAnswered(c, valid)
                           \/ OtherStarts(c) \/ OtherReady(c)
                           \/ OtherAnswered(c) \/ OtherLeaves(c)
    \/ Poll \/ NoSoftEvent \/ Fp \/ Hsm \/ \E o \in owed : Drained(o)

Spec == Init /\ [][Next]_vars

(* The cores answer, and not every time with something that cannot be      *)
(* decoded; I/Os drain, the main loop turns and gets to the pipe.          *)
Fairness ==
    /\ WF_vars(Fp) /\ WF_vars(Hsm)
    /\ \A f \in Fns : WF_vars(Drained([u |-> "Stop", f |-> f]))
    /\ WF_vars(OnStopInterfaceRequest) /\ WF_vars(StopDeferred)
    /\ \A c \in Channels :
          /\ WF_vars(StopChannelReady(c)) /\ SF_vars(StopAnswered(c, TRUE))
          /\ WF_vars(OtherReady(c)) /\ WF_vars(OtherAnswered(c))
    /\ SF_vars(Poll) /\ WF_vars(NoSoftEvent)

LiveSpec == Spec /\ Fairness

-----------------------------------------------------------------------------
TypeOK ==
    /\ ChanTypeOK
    /\ hsp \in [st : {"Idle", "Asked", "Answered"}, bits : SUBSET Fns]
    /\ stop \in [st : {"Idle", "WaitIpcChannels", "WaitIpcResponse", "WaitFpIpcResponse",
                       "WaitHsmIpcResponse", "WaitIoCancellationComplete", "FatalError"},
                 pending : SUBSET Fns, deferred : SUBSET Fns, current : Fns \cup {NoFn},
                 vfp : BOOLEAN, vhsm : BOOLEAN]

(* HSP is told that functions are stopped only when both cores have them   *)
(* disabled and the HSM core has no I/O of theirs left, however answers    *)
(* and notifications of several functions interleave.                      *)
StoppedWhenTold ==
    hsp.st = "Answered" =>
        /\ \A c \in Channels : hsp.bits \cap on[c] = {}
        /\ \A o \in owed : o.f \notin hsp.bits

(* A request that its owner has stopped waiting for: the channel stays     *)
(* busy for good                                                           *)
LeftBehind(c) == ch[c].tag = Other /\ ch[c].owner # Other

(* The machine panics when the timer elapses, when HSP takes no answer, or *)
(* when another has gone away and left a request behind, and for no other  *)
(* reason: no request of its own is ever in the way (handle_err in         *)
(* send_ipc and in send_hsp_response).                                     *)
NoPanic ==
    [][Alive /\ ~Alive' => \/ StopTimeout
                           \/ (HspFull /\ stop'.current = NoFn)
                           \/ \E c \in Channels : LeftBehind(c)]_vars

(* The machine waits for a notification that is neither due nor on its way *)
Forsaken ==
    /\ stop.st = "WaitIoCancellationComplete"
    /\ \E f \in stop.deferred : f \notin {o.f : o \in owed} \cup {pipe[i].f : i \in DOMAIN pipe}

(* Every request of HSP is answered, unless the machine panics or has      *)
(* taken the notification for a function before the answer that announced  *)
(* it.                                                                     *)
StopAnsweredAtLast ==
    hsp.st = "Asked" ~> hsp.st = "Answered" \/ ~Alive \/ Forsaken
=============================================================================
