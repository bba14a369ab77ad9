------------------------------ MODULE Sessions ------------------------------
(***************************************************************************)
(* The sessions of one partition of the HSM core: the table that maps the  *)
(* session ids the host uses to session keys in the vault, the credential  *)
(* and the nonce that opening one consumes, the PIN policy, the keys that  *)
(* live as long as a session, and the commands that work on all of this    *)
(* in several steps: each is an FSM, and between two steps of one (a PKA   *)
(* operation, the wait for the FP channel, an answer of the FP core, the   *)
(* DMA of the response) the others run.                                    *)
(*                                                                         *)
(* A request that is refused when it is decoded changes nothing and is not *)
(* an action.  The PKA engines, slots and wake-up queues are those of      *)
(* CmdScheduler and the vault is KeyStore's; what is left of them here is  *)
(* that an operation ends at some time, who has the FP channel, and which  *)
(* key lies in which entry.                                                *)
(***************************************************************************)
EXTENDS PinPolicy, Sequences, FiniteSets, FiniteSetsExt

CONSTANTS
    Tags,         \* command slots
    Ids,          \* session ids, 0 .. MAX_SESSIONS - 1
    Entries,      \* entries of the vault, numbers above 0
    Nonces,       \* the values of the nonce that are told apart
    Insts,        \* names of sessions, for the history
    Orderly,      \* TRUE: see Settled and Unencumbered
    NoTag         \* no command

ASSUME TablesAssumption == /\ Ids \subseteq Nat /\ IsFiniteSet(Ids)
                           /\ Entries \subseteq Nat \ {0} /\ IsFiniteSet(Entries)
ASSUME CommandsAssumption == /\ NoTag \notin Tags /\ IsFiniteSet(Tags)
                             /\ Orderly \in BOOLEAN
(* There is always a nonce that no command carries, and a name that none has *)
ASSUME NamesAssumption ==
    /\ Nonces \subseteq Nat /\ IsFiniteSet(Nonces) /\ 0 \in Nonces
    /\ Cardinality(Nonces) > Cardinality(Tags) + 1
    /\ Insts \subseteq Nat \ {0} /\ IsFiniteSet(Insts)
    /\ Cardinality(Insts) > Cardinality(Tags) + Cardinality(Entries)

VARIABLES
    enabled,  \* PartitionState::enabled
    cred,     \* a user credential is set
    nonce,    \* the nonce of the partition
    alloc,    \* session_allocation_mask
    reneg,    \* session_renegotiation_mask
    table,    \* the entry of the session key of every id; 0: none
    vault,    \* the keys, by entry
    cmd,      \* the command FSM of every tag
    fp,       \* the command that holds the FP channel
    waiters,  \* the commands that wait for it
    woken,    \* the waiter that is to be resumed
    uses,     \* how often each nonce was accepted (history)
    told,     \* ids the host knows, or would if the answer had left (history)
    leaked    \* entries whose session key no id names (history)

partVars == <<enabled, cred>>
tableVars == <<alloc, reneg, table>>
fpVars == <<fp, waiters, woken>>
nonceVars == <<nonce, uses>>
history == <<told, leaked>>
vars == <<pinVars, partVars, tableVars, vault, cmd, fpVars, nonceVars, history>>

NoId == -1
NoNonce == -1
NoKey == [kind |-> "free", id |-> NoId, inst |-> 0, on |-> FALSE]
OwnKey(s, i) == [kind |-> "own", id |-> s, inst |-> i, on |-> TRUE]

Kinds == {"Establish", "Open", "Reopen", "Close", "Flush", "Gen", "Sign"}

(* A command: Ecdh - its PKA operations run; Wait and Fp - it waits for the *)
(* FP channel or for the FP core's answer; Gen - a key pair is generated;   *)
(* Pct - its test waits for an engine; Test, Sign - an engine works with    *)
(* the key in entry; Out - the response is on its way.  ok: it is the       *)
(* response to a success, which issue_command_rollback would undo.          *)
Idle == [st |-> "None", kind |-> "Open", id |-> NoId, nonce |-> 0, entry |-> 0,
         inst |-> 0, ok |-> FALSE]

Init ==
    /\ PinInit
    /\ enabled = FALSE /\ cred = FALSE
    /\ alloc = {} /\ reneg = {} /\ table = [s \in Ids |-> 0]
    /\ vault = [e \in Entries |-> NoKey]
    /\ cmd = [t \in Tags |-> Idle]
    /\ fp = NoTag /\ waiters = <<>> /\ woken = NoTag
    /\ nonce = 0 /\ uses = [n \in Nonces |-> 0]
    /\ told = {} /\ leaked = {}

InFlight(t) == cmd[t].st # "None"
NoneInFlight == \A t \in Tags : ~InFlight(t)

-----------------------------------------------------------------------------
(* What the host and the admin core are assumed to do, when Orderly *)

Opening(s) == \E t \in Tags : /\ InFlight(t) /\ cmd[t].id = s
                              /\ cmd[t].kind \in {"Open", "Reopen"}

(* A session is used only once the answer that opened it has arrived *)
Settled(s) == Orderly => ~Opening(s)

(* A session is closed, and the function disabled, only when the commands that *)
(* may still leave a key behind are over, and one session is closed once only  *)
Unencumbered(s) ==
    Orderly => ~ \E t \in Tags : /\ InFlight(t) /\ cmd[t].id = s
                                 /\ cmd[t].kind # "Sign"
Ceased == Orderly => \A t \in Tags : InFlight(t) => cmd[t].kind # "Gen"

-----------------------------------------------------------------------------
(* HsmPartSessionTable and the lookups that start from it *)

Valid(s) == s \in alloc \ reneg
NeedsRenegotiation(s) == s \in alloc \cap reneg

(* user_session *)
HasSession(s, allow_disabled) ==
    /\ Valid(s) /\ table[s] \in Entries
    /\ vault[table[s]].kind = "session"
    /\ allow_disabled \/ vault[table[s]].on

(* delete *)
DeleteId(s) ==
    /\ alloc' = alloc \ {s} /\ reneg' = reneg \ {s}
    /\ table' = [table EXCEPT ![s] = 0]
    /\ told' = told \ {s}

(* restore(backup()), or restore(0): the ids stay reserved, or none do *)
Restore(mask) ==
    /\ alloc' = mask /\ reneg' = mask /\ table' = [s \in Ids |-> 0]

(* key_in_use: an engine works with the key, for a command that may have timed *)
(* out and keeps the engine until it is dropped                                *)
Uses(t) == cmd[t].st \in {"Sign", "Test"} \/ (cmd[t].st = "Out" /\ ~cmd[t].ok)
InUse(e, t) == \E x \in Tags \ {t} : Uses(x) /\ cmd[x].entry = e

(* KeyVault::delete_key of an entry of this application: a key that an engine *)
(* works with for another command than t is only disabled.  A session's own   *)
(* key opens for that session.                                               *)
CanDelete(e, s) == /\ e \in Entries /\ vault[e].kind # "free"
                   /\ vault[e].kind = "own" => vault[e].id = s
Deleted(e, t) == [vault EXCEPT ![e] = IF InUse(e, t) THEN [@ EXCEPT !.on = FALSE]
                                                     ELSE NoKey]

-----------------------------------------------------------------------------
(* The FP channel *)

FpFree == fp = NoTag /\ woken = NoTag

WakeNext(rest) ==
    IF rest = <<>> THEN woken' = NoTag /\ waiters' = rest
                   ELSE woken' = Head(rest) /\ waiters' = Tail(rest)

-----------------------------------------------------------------------------
(* The end of a command: its response *)

ToOut(t, ok) == cmd' = [cmd EXCEPT ![t].st = "Out", ![t].ok = ok, ![t].nonce = 0,
                                   ![t].inst = 0,
                                   ![t].entry = IF ok THEN @ ELSE 0]

(* Mutant: the entry is removed and the id stays allocated *)
RollbackOpenKeeping(s, reopen) ==
    IF Valid(s) /\ CanDelete(table[s], NoId)
      THEN /\ vault' = Deleted(table[s], NoTag)
           /\ UNCHANGED <<alloc, told>>
           /\ reneg' = reneg \cup {s} /\ table' = [table EXCEPT ![s] = 0]
      ELSE UNCHANGED <<vault, tableVars, told>>

(* rollback_open_session.  When the id names no session it changes nothing, *)
(* and an id the host has not heard of stays allocated.                     *)
RollbackOpen(s, reopen) ==
    IF Valid(s) /\ CanDelete(table[s], NoId)
      THEN /\ vault' = Deleted(table[s], NoTag)
           /\ IF reopen
                THEN /\ alloc' = alloc \cup {s} /\ reneg' = reneg \cup {s}
                     /\ table' = [table EXCEPT ![s] = 0]
                     /\ UNCHANGED told
                ELSE DeleteId(s)
      ELSE /\ UNCHANGED <<vault, tableVars>>
           /\ told' = told \cup ({s} \cap alloc)

(* What the rollback of a command that made a key leaves in the vault *)
Undone(t) == IF CanDelete(cmd[t].entry, cmd[t].id) THEN Deleted(cmd[t].entry, t)
                                                   ELSE vault

(* The rollback of the FSM, when the response cannot be built or transferred *)
Rollback(t) ==
    CASE cmd[t].kind \in {"Open", "Reopen"} ->
           /\ RollbackOpen(cmd[t].id, cmd[t].kind = "Reopen")
           /\ UNCHANGED partVars
      [] cmd[t].kind = "Establish" ->
           cred' = FALSE /\ UNCHANGED <<enabled, tableVars, vault, told>>
      [] cmd[t].kind = "Gen" ->
           /\ vault' = Undone(t)
           /\ UNCHANGED <<partVars, tableVars, told>>
      [] OTHER -> UNCHANGED <<partVars, tableVars, vault, told>>

(* Entries that still hold the session key nobody names *)
StillLeaked == {e \in leaked : vault'[e].kind = "session"}

OutFails(t) ==
    /\ cmd[t].st = "Out" /\ cmd[t].ok
    /\ Rollback(t)
    /\ ToOut(t, FALSE)
    /\ leaked' = StillLeaked
    /\ UNCHANGED <<pinVars, fpVars, nonceVars>>

(* The FSM is dropped, and with it the reference to the FP channel *)
Drop(t) ==
    /\ cmd' = [cmd EXCEPT ![t] = Idle]
    /\ IF fp = t THEN fp' = NoTag /\ WakeNext(waiters) ELSE UNCHANGED fpVars
    /\ UNCHANGED <<pinVars, partVars, tableVars, vault, nonceVars, leaked>>

(* on_tx_complete, or on_io_timeout, where the answer never leaves and nothing *)
(* is rolled back                                                             *)
Done(t) ==
    /\ cmd[t].st = "Out"
    /\ Drop(t)
    /\ told' = IF cmd[t].kind = "Open" /\ cmd[t].ok
                 THEN told \cup ({cmd[t].id} \cap alloc) ELSE told

-----------------------------------------------------------------------------
(* EstablishCredential, OpenSession and ReopenSession *)

Begin(t, c) == ~InFlight(t) /\ enabled /\ cmd' = [cmd EXCEPT ![t] = c]
Unmoved == UNCHANGED <<pinVars, partVars, tableVars, vault, nonceVars, history>>

StartEstablish(t) ==
    /\ ~cred
    /\ Begin(t, [Idle EXCEPT !.st = "Ecdh", !.kind = "Establish", !.nonce = nonce])
    /\ UNCHANGED fpVars /\ Unmoved

(* on_start and begin_open_user_session.  The header of a Reopen names an id *)
(* that waits for it, or a session that is there.                            *)
StartOpen(t, kind, s) ==
    /\ kind \in {"Open", "Reopen"}
    /\ IF kind = "Open" THEN s = NoId
                        ELSE s \in Ids /\ (NeedsRenegotiation(s) \/ HasSession(s, TRUE))
    /\ cred /\ CanLogin
    /\ Begin(t, [Idle EXCEPT !.st = "Ecdh", !.kind = kind, !.id = s, !.nonce = nonce])
    /\ UNCHANGED fpVars /\ Unmoved

(* A PKA or DMA error, a missing encryption key, the time-out, a stale nonce or *)
(* a bad tag: the command fails before it consumes the nonce                   *)
EcdhFails(t) ==
    /\ cmd[t].st = "Ecdh"
    /\ ToOut(t, FALSE)
    /\ UNCHANGED fpVars /\ Unmoved

Carries(t, n) == cmd[t].st = "Ecdh" /\ cmd[t].nonce = n

(* reset_nonce: 32 random bytes that no request carries yet *)
FreshNonce == Min({n \in Nonces \ {nonce} : \A t \in Tags : ~Carries(t, n)})

ResetNonce(accepted) ==
    /\ nonce' = FreshNonce
    /\ uses' = [n \in Nonces |->
                  IF n = accepted THEN uses[n] + 1
                  ELSE IF \E t \in Tags : Carries(t, n) THEN uses[n] ELSE 0]

(* Mutant: the nonce is compared only when the command starts *)
AcceptNonceStale(t) == ResetNonce(cmd[t].nonce)

(* verify_nonce once more, and reset_nonce *)
AcceptNonce(t) == cmd[t].nonce = nonce /\ ResetNonce(nonce)

(* end_establish_credential, then provisioning, whose failure is rolled back *)
EndEstablish(t) ==
    /\ cmd[t].st = "Ecdh" /\ cmd[t].kind = "Establish"
    /\ ~cred
    /\ AcceptNonce(t)
    /\ \E ok \in BOOLEAN : cred' = ok /\ ToOut(t, ok)
    /\ UNCHANGED <<pinVars, enabled, tableVars, vault, fpVars, history>>

Reopens(t) == cmd[t].kind = "Reopen"
Ending(t) == cmd[t].st = "Ecdh" /\ cmd[t].kind \in {"Open", "Reopen"} /\ AcceptNonce(t)

(* The credential cannot be decrypted, is wrong, comes too early, or is right *)
(* and what follows fails: no room for a session or its key, or a bad blob    *)
EndOpenFails(t) ==
    /\ Ending(t)
    /\ UNCHANGED pinVars \/ LoginRefused \/ LoginWrong \/ (cred /\ LoginRight)
    /\ ToOut(t, FALSE)
    /\ UNCHANGED <<partVars, tableVars, vault, fpVars, history>>

FreeEntry == Min({e \in Entries : vault[e].kind = "free"})
FreshInst == Min(Insts \ ({vault[e].inst : e \in Entries} \cup {cmd[t].inst : t \in Tags}))
Imported == [vault EXCEPT ![FreeEntry] = [kind |-> "session", id |-> NoId,
                                          inst |-> FreshInst, on |-> TRUE]]
HasRoom == \E e \in Entries : vault[e].kind = "free"

(* end_open_user_session: the key is imported and the id allocated *)
EndOpen(t) ==
    /\ Ending(t) /\ ~Reopens(t)
    /\ cred /\ LoginRight
    /\ HasRoom /\ alloc # Ids
    /\ vault' = Imported
    /\ LET s == Min(Ids \ alloc) IN
       /\ alloc' = alloc \cup {s} /\ table' = [table EXCEPT ![s] = FreeEntry]
       /\ cmd' = [cmd EXCEPT ![t].st = "Out", ![t].ok = TRUE, ![t].nonce = 0, ![t].id = s]
    /\ UNCHANGED <<partVars, reneg, fpVars, told, leaked>>

(* Mutant: an id that is live is recreated too *)
EndReopenAny(t) ==
    /\ Ending(t) /\ Reopens(t)
    /\ cred /\ LoginRight
    /\ HasRoom
    /\ vault' = Imported
    /\ LET s == cmd[t].id IN
       /\ reneg' = reneg \ {s}
       /\ table' = [table EXCEPT ![s] = FreeEntry]
       /\ ToOut(t, TRUE)
    /\ UNCHANGED <<partVars, alloc, fpVars, told, leaked>>

(* The same with recreate_session, which refuses an id that no longer waits for *)
(* it; the key that was imported for it stays                                   *)
EndReopen(t) ==
    /\ Ending(t) /\ Reopens(t)
    /\ cred /\ LoginRight
    /\ HasRoom
    /\ vault' = Imported
    /\ LET s == cmd[t].id IN
       IF NeedsRenegotiation(s)
         THEN /\ reneg' = reneg \ {s} /\ table' = [table EXCEPT ![s] = FreeEntry]
              /\ ToOut(t, TRUE)
              /\ UNCHANGED leaked
         ELSE /\ leaked' = leaked \cup {FreeEntry}
              /\ ToOut(t, FALSE)
              /\ UNCHANGED <<reneg, table>>
    /\ UNCHANGED <<partVars, alloc, fpVars, told>>

-----------------------------------------------------------------------------
(* CloseSession and FlushSession *)

Closing(t, s, kind) == [Idle EXCEPT !.st = "Out", !.kind = kind, !.id = s, !.ok = TRUE]

(* A Close of an id that waits for a Reopen, or the flush of one without a *)
(* session: the id is deleted at once                                      *)
CloseAtOnce(t, kind, s) ==
    /\ Unencumbered(s)
    /\ \/ kind = "Close" /\ NeedsRenegotiation(s)
       \/ kind = "Flush" /\ ~HasSession(s, TRUE)
    /\ Begin(t, Closing(t, s, kind))
    /\ DeleteId(s)
    /\ UNCHANGED <<pinVars, partVars, vault, fpVars, nonceVars, leaked>>

(* Mutant: the session is not invalidated while its close is under way *)
InvalidatedNot(s) == vault

(* AppSession::invalidate *)
Invalidated(s) == [vault EXCEPT ![table[s]].on = FALSE]

(* The request is sent, or the channel refuses it and its reference is dropped *)
Send(t, c, rest) ==
    \/ /\ cmd' = [cmd EXCEPT ![t] = [c EXCEPT !.st = "Fp"]]
       /\ fp' = t /\ woken' = NoTag /\ waiters' = rest
    \/ /\ cmd' = [cmd EXCEPT ![t] = [c EXCEPT !.st = "Out", !.ok = FALSE]]
       /\ WakeNext(rest) /\ UNCHANGED fp

(* begin_close_user_session from on_start: the session is invalidated before *)
(* the channel is asked for                                                  *)
StartClose(t, kind, s) ==
    /\ kind \in {"Close", "Flush"}
    /\ ~InFlight(t) /\ enabled /\ HasSession(s, TRUE) /\ Unencumbered(s)
    /\ vault' = Invalidated(s)
    /\ LET c == [Idle EXCEPT !.kind = kind, !.id = s] IN
       IF FpFree THEN Send(t, c, waiters)
       ELSE /\ cmd' = [cmd EXCEPT ![t] = [c EXCEPT !.st = "Wait"]]
            /\ waiters' = Append(waiters, t)
            /\ UNCHANGED <<fp, woken>>
    /\ UNCHANGED <<pinVars, partVars, tableVars, nonceVars, history>>

(* begin_close_user_session from on_engine_ready.  A session that has gone in *)
(* the meantime ends the command, and nobody else is woken for the channel.   *)
Resume(t) ==
    /\ woken = t /\ cmd[t].st = "Wait"
    /\ IF HasSession(cmd[t].id, TRUE)
         THEN /\ vault' = Invalidated(cmd[t].id)
              /\ Send(t, cmd[t], waiters)
         ELSE /\ ToOut(t, FALSE)
              /\ woken' = NoTag
              /\ UNCHANGED <<vault, fp, waiters>>
    /\ UNCHANGED <<pinVars, partVars, tableVars, nonceVars, history>>

(* The FP core's answer is no answer to this request, or says it failed: the *)
(* session stays, invalidated                                                *)
CloseFails(t) ==
    /\ cmd[t].st = "Fp"
    /\ ToOut(t, FALSE)
    /\ UNCHANGED fpVars /\ Unmoved

Owned(s) == {e \in Entries : vault[e].kind = "own" /\ vault[e].id = s}

(* remove_all_session_only_entries *)
Swept(s) == [e \in Entries |-> IF e \notin Owned(s) THEN vault[e]
                               ELSE IF InUse(e, NoTag) THEN [vault[e] EXCEPT !.on = FALSE]
                               ELSE NoKey]

(* end_close_user_session: a key in use, or a session that has gone, stops it *)
EndClose(t) ==
    LET s == cmd[t].id IN
    /\ cmd[t].st = "Fp"
    /\ IF (\E e \in Owned(s) : InUse(e, NoTag)) \/ ~Valid(s)
         THEN /\ vault' = Swept(s)
              /\ ToOut(t, FALSE)
              /\ UNCHANGED <<tableVars, told>>
         ELSE /\ vault' = [Swept(s) EXCEPT ![table[s]] = NoKey]
              /\ DeleteId(s)
              /\ ToOut(t, TRUE)
    /\ leaked' = StillLeaked
    /\ UNCHANGED <<pinVars, partVars, fpVars, nonceVars>>

-----------------------------------------------------------------------------
(* A command that makes a key of the session (EccGenKeyCmd), and one that uses it *)

StartGen(t, s) ==
    /\ HasSession(s, FALSE) /\ Settled(s)
    /\ Begin(t, [Idle EXCEPT !.st = "Gen", !.kind = "Gen", !.id = s,
                             !.inst = vault[table[s]].inst])
    /\ UNCHANGED fpVars /\ Unmoved

(* on_cmd_complete: the key is imported for the session the command started in *)
GenDone(t) ==
    /\ cmd[t].st = "Gen"
    /\ \/ /\ HasRoom
          /\ vault' = [vault EXCEPT ![FreeEntry] = OwnKey(cmd[t].id, cmd[t].inst)]
          /\ cmd' = [cmd EXCEPT ![t].st = "Pct", ![t].entry = FreeEntry]
       \/ ToOut(t, FALSE) /\ UNCHANGED vault
    /\ UNCHANGED <<pinVars, partVars, tableVars, fpVars, nonceVars, history>>

(* begin_ecc_pct_validation: an engine takes the new key, if it is still there *)
StartTest(t) ==
    /\ cmd[t].st = "Pct"
    /\ CanDelete(cmd[t].entry, cmd[t].id) /\ vault[cmd[t].entry].on
    /\ vault[cmd[t].entry].kind = "own"
    /\ cmd' = [cmd EXCEPT ![t].st = "Test"]
    /\ UNCHANGED fpVars /\ Unmoved

(* The pairwise consistency test cannot start, or ends with an error *)
TestFails(t) ==
    /\ cmd[t].st \in {"Pct", "Test"}
    /\ vault' = Undone(t)
    /\ leaked' = StillLeaked
    /\ ToOut(t, FALSE)
    /\ UNCHANGED <<pinVars, partVars, tableVars, fpVars, nonceVars, told>>

(* CheckAlive is an event that neither command expects: it fails at once and *)
(* keeps its engine, so that the rollback can only disable a key in use      *)
KeyTimesOut(t) ==
    /\ cmd[t].st \in {"Gen", "Pct", "Test", "Sign"}
    /\ cmd' = [cmd EXCEPT ![t].st = "Out", ![t].inst = 0,
                          ![t].entry = IF Uses(t) THEN @ ELSE 0]
    /\ vault' = CASE cmd[t].st = "Pct" -> Undone(t)
                  [] cmd[t].st = "Test" -> [vault EXCEPT ![cmd[t].entry].on = FALSE]
                  [] OTHER -> vault
    /\ leaked' = StillLeaked
    /\ UNCHANGED <<pinVars, partVars, tableVars, fpVars, nonceVars, told>>

StartSign(t, s, e) ==
    /\ HasSession(s, FALSE) /\ Settled(s)
    /\ e \in Owned(s) /\ vault[e].on
    /\ Begin(t, [Idle EXCEPT !.st = "Sign", !.kind = "Sign", !.id = s, !.entry = e])
    /\ UNCHANGED fpVars /\ Unmoved

(* The signature is made, or the key has passed its test *)
KeyDone(t) ==
    /\ cmd[t].st \in {"Sign", "Test"}
    /\ ToOut(t, TRUE)
    /\ UNCHANGED fpVars /\ Unmoved

-----------------------------------------------------------------------------
(* The administrative requests *)

Enable ==
    /\ ~enabled /\ enabled' = TRUE
    /\ Orderly => NoneInFlight
    /\ UNCHANGED <<pinVars, cred, tableVars, vault, cmd, fpVars, nonceVars, history>>

Wiped ==
    /\ ResetNonce(NoNonce)
    /\ cred' = FALSE
    /\ vault' = [e \in Entries |-> NoKey] /\ leaked' = {}
    /\ PinForgotten

(* PartitionState::disable, whether or not commands are in flight *)
Disable ==
    /\ enabled /\ Ceased
    /\ enabled' = FALSE
    /\ Wiped
    /\ Restore(alloc)
    /\ UNCHANGED <<cmd, fpVars, told>>

(* Partition::reset: disable and clear_partition_info *)
Reset ==
    /\ Ceased
    /\ enabled' = FALSE
    /\ Wiped
    /\ Restore({})
    /\ told' = {}
    /\ UNCHANGED <<cmd, fpVars>>

(* end_migrate, which waits for the last command *)
Migrate ==
    /\ enabled /\ NoneInFlight
    /\ Wiped
    /\ Restore(alloc)
    /\ UNCHANGED <<enabled, cmd, fpVars, told>>

Time == Clock /\ UNCHANGED <<partVars, tableVars, vault, cmd, fpVars, nonceVars, history>>

-----------------------------------------------------------------------------
Next ==
    \/ \E t \in Tags :
         \/ StartEstablish(t) \/ EndEstablish(t) \/ EcdhFails(t)
         \/ \E kind \in {"Open", "Reopen"}, s \in Ids \cup {NoId} : StartOpen(t, kind, s)
         \/ EndOpen(t) \/ EndReopen(t) \/ EndOpenFails(t)
         \/ \E kind \in {"Close", "Flush"}, s \in Ids :
              CloseAtOnce(t, kind, s) \/ StartClose(t, kind, s)
         \/ Resume(t) \/ CloseFails(t) \/ EndClose(t)
         \/ \E s \in Ids : StartGen(t, s) \/ \E e \in Entries : StartSign(t, s, e)
         \/ GenDone(t) \/ StartTest(t) \/ TestFails(t) \/ KeyTimesOut(t) \/ KeyDone(t)
         \/ OutFails(t) \/ Done(t)
    \/ Enable \/ Disable \/ Reset \/ Migrate \/ Time

Spec == Init /\ [][Next]_vars

-----------------------------------------------------------------------------
(* Properties *)

Key == [kind : {"free", "session", "own"}, id : Ids \cup {NoId}, inst : Insts \cup {0},
        on : BOOLEAN]
Cmd == [st : {"None", "Ecdh", "Wait", "Fp", "Gen", "Pct", "Test", "Sign", "Out"},
        kind : Kinds, id : Ids \cup {NoId}, nonce : Nonces, entry : Entries \cup {0},
        inst : Insts \cup {0}, ok : BOOLEAN]

(* Every variable has the shape its Rust counterpart is declared with. *)
TypeOK ==
    /\ PinTypeOK
    /\ enabled \in BOOLEAN /\ cred \in BOOLEAN
    /\ nonce \in Nonces /\ uses \in [Nonces -> Nat]
    /\ alloc \subseteq Ids /\ reneg \subseteq alloc
    /\ table \in [Ids -> Entries \cup {0}]
    /\ vault \in [Entries -> Key]
    /\ cmd \in [Tags -> Cmd]
    /\ fp \in Tags \cup {NoTag} /\ woken \in Tags \cup {NoTag}
    /\ waiters \in Seq(Tags)
    /\ told \subseteq Ids /\ leaked \subseteq Entries

SessionEntries == {e \in Entries : vault[e].kind = "session"}

(* The session table and the vault agree after any interleaving of opens,     *)
(* reopens, closes, their rollbacks, disables and migrations: a valid id      *)
(* names a session key, two ids never name the same one, and a session key no *)
(* id names is one that a refused Reopen left behind.                         *)
TableVaultAgree ==
    /\ \A s \in alloc \ reneg : table[s] \in SessionEntries
    /\ \A s, x \in alloc \ reneg : table[s] = table[x] => s = x
    /\ SessionEntries = {table[s] : s \in alloc \ reneg} \cup leaked

(* A key made for a session lives no longer than that session: whoever gets   *)
(* the id next never finds a key of its predecessor under it.                 *)
KeysOfOwnSession ==
    \A e \in Entries : vault[e].kind = "own" =>
        /\ Valid(vault[e].id)
        /\ vault[table[vault[e].id]].inst = vault[e].inst

(* No session id leaks: an allocated id is one the host knows, one whose      *)
(* command has yet to answer, or one lost with an answer that never left.     *)
IdsAccounted ==
    alloc \subseteq told \cup {cmd[t].id : t \in {x \in Tags : /\ cmd[x].kind = "Open"
                                                           /\ cmd[x].st = "Out"}}

(* A nonce opens one session or sets one credential: of two commands that     *)
(* started from the same nonce, the one that comes second is refused.         *)
NonceOnce == \A n \in Nonces : uses[n] <= 1
=============================================================================
