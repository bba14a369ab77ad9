# Azure Integrated HSM firmware: TLA+ verification project

The repository holds the firmware of a PCIe hardware security module. The models here are
about its control processor (CP), the Rust code below
`src/projects/microsoft/hsp/manticore/cp/hsm/` (written `P/` from here on): it takes commands from
host virtual functions over NVMe-like queues, runs them on a few shared crypto engines, and keeps
sessions, credentials and keys per virtual function.

## 1. The system

### Parts, their state and operations

| Part | State | Operations | Talks to |
|---|---|---|---|
| Command scheduler (`P/hsm/src/cmd_scheduler/scheduler.rs`) | slots with one FSM each, stack of free tags, occupancy and access bitmaps, ready and clean-up queues, drain closure | `alloc`, `alloc_static`, `on_event`, `on_tick`, `wakeup`, `cleanup`, `drain` | command FSMs, resources |
| Counted resources (`cmd_scheduler/resource.rs`, `resource/*.rs`) | free units, queue of waiting tags, tag of the clean-up FSM, pending self-test | `acquire`, drop of a ref, `cleanup`, `wakeup`, `self_test` | scheduler, drivers |
| Clean-up FSM (`fsm/res_cleanup_fsm.rs`) | bitmap of engines being wiped | `ResourceCleanup`, `PkaDone`, `PkaError` | PKA driver, scheduler |
| I/O FSM (`fsm/hsm_fsm.rs`) | Init, DmaIn, Cmd, DmaOut, DmaOutErr, Completion; the command, its error, its buffers | RxReady, DmaComplete, TxComplete, CheckAlive, command events | host queues, DMA, command FSMs, I/O queues |
| Command FSMs (`fsm/*.rs`) | one small state machine per command | StartCmd, ResourceReady, completion events, rollback | resources, partition |
| Event handler and loop (`handler.rs`, `main.rs`) | the pending interrupts | one handler per interrupt; administrative requests: enable, set resources, create/delete queue, shutdown, FLR | everything above |
| Partition (`partition/*.rs`) | enable/migration state, session table, credentials, PIN policy, vaults, I/O queues | open/close/reopen session, credentials, queue create/delete, migrate | command FSMs, handler |
| Key vault (`partition/vault/`) | tables of key entries with owner session, application, disabled flag; a bitmap of blocks; the blocks | import, open, delete, enable/disable, delete by session or application, change of the owned tables | sessions, engines |
| Drivers (`P/drivers/*`) | IPC rings, simplex buffers, DMA channel, I/O channel, PKA engines | send/receive, begin/end, peek_tag | hardware, peer cores |
| Admin core (`P/admin/`) | controller, queues, functions, VF save/restore, its own scheduler | NVMe admin commands, VF start/stop/save/restore, FLR, DOE, TDISP, firmware update | HSM core, FP, SP |
| Fast path (`cp` peers `FpsCpu*`) and service processor (`core/`, `projects/microsoft/hsp/`) | C/C++ | bulk AES; Cerberus root of trust | IPC |

### What is hard

* **No threads, many interleavings.** The HSM core is one polling loop; every interrupt runs a
  handler to its end. All hard orders are between *interrupts*: a completion, a timer tick, a new
  request and a wake-up may come in any order, and refs are dropped (which queues wake-ups and
  wipes) deep inside a handler.
* **Tags are names that are reused.** Waiter queues, drivers and DMA descriptors remember a tag;
  the command behind it can be timed out and replaced.
* **Failure in the middle.** A begin call can fail after its unit was granted; a response can fail
  to leave after the command had its effect, and is then rolled back once; a wipe can fail.
* **Three cores decide together.** Enabling, disabling, resetting or migrating a function needs the
  consent of the fast path and the HSM core; answers, notifications of deferred work and resets of the bus overtake each other.
* **State that outlives a tenant.** Key tables, identities, session ids and vault entries are handed from
  one owner to the next; what is left behind belongs to a stranger.
* **Timeouts.** `CheckAlive` retires an I/O that is not in its command, and asks the command FSM
  otherwise; what the hardware or the peer core still owes arrives later.

### Components and what makes them correct

| Component | Correct when | Module |
|---|---|---|
| Scheduler slots and tags | a tag is on the free stack exactly when its slot is empty, occupancy bits are the commands in flight, a stored drain closure runs exactly when the last command is gone | `CmdScheduler` |
| Counted resources | every engine and channel is in one place (free, held by one command, to be wiped, being wiped); a waiter is woken when a unit is freed and then finds it | `CmdScheduler` |
| Clean-up FSM | no engine goes from one command to the next without a wipe; a completion never reaches a later user of the tag | `CmdScheduler` |
| I/O queues, deferred requests | table and queue objects agree; a deferred delete, disable or migrate is completed by exactly the last I/O it waits for, nothing tracked is in flight behind it, and the requester is told | `IoQueues` |
| Simplex pipe | behaves as a bounded FIFO queue although both cores touch it without a lock | `SimplexPipe`, `Fifo` |
| Key vault | behaves as a map from numbers to keys although keys of different lengths share blocks; freed blocks are wiped; a table given back is empty | `KeyStore`, `KeyMap` |
| Resource table | the counts that requests are granted by are those of the table, warm boots and half-written tables included | `ResourceTable` |
| Resource assignment, partition initialisation | key tables change hands empty and have one owner; an identity belongs to the tenancy it was made in; both cores agree; the command is answered | `SetResource` |
| Controller state, VF reset, channels of the admin core | the three cores agree on what is enabled; nobody goes on before the I/Os he waits for are done; no circular wait; `CSTS.RDY` follows `CC.EN` | `AdminChannels`, `AdminControl` |
| Stop interface | HSP hears that functions are stopped only when they are; it is answered; the machine does not panic over a refused request | `StopInterface` |
| Sessions, credentials, PIN policy | session table and vault agree; a key lives no longer than its session; no id leaks; a nonce is accepted once; wrong PINs run into the lock-out | `Sessions`, `PinPolicy` |
| IPC channels | one request at a time, its answer reaches its sender | as used, in `CmdScheduler` and `AdminChannels` |
| I/O FSM | each submission has one completion; a command that took effect is answered or rolled back; a DMA completion reaches the I/O that asked | partly in `CmdScheduler`, `IoQueues`, `Sessions` |

## 2. Plan

Most important first; 1 to 8 are done.

1. **`CmdScheduler`** - the heart of the HSM core: every command of every host goes through it,
   and it is where a lost unit or a wrong tag does most harm.
2. **`IoQueues`** - the protocol between the HSM and the admin core by which a function is stopped
   while its commands are in flight.
3. **`SimplexPipe`** implements **`Fifo`** - the pipe `IoQueues` takes as a sequence of bounded
   length, step by step in shared memory.
4. **`KeyStore`** implements **`KeyMap`** - what the sessions take for granted of the vault.
5. **`ResourceTable`**, extended by **`SetResource`** - how key tables and identities come to a partition and leave it.
6. **`AdminChannels`**, extended by **`AdminControl`** and **`StopInterface`** - the machines of the admin core that need both other cores.
7. **`PinPolicy`**, extended by **`Sessions`** - sessions, credential, nonce and session keys under interleaved commands.
8. Proofs for 1 to 7: the safety invariants that the runs check are theorems, with the action properties and refinements (section 6 says which are not).
9. Next to prove: the agreement of the cores in `AdminControl`; what is left of the wake-ups in the build with time-outs, where tags of commands that are gone stay in `waiters`.
10. Next to model: the two DMA phases of `HsmFsm` with descriptors and tags; the IPC rings and the event channel
   step by step, with one outstanding request as their abstract specification; the pending self-tests of busy engines;
   the warm boot of partitions and queues (`restore_io_queues`).

## 3. Modules and how they correspond to the code

`PROJECT.json` names, for each definition, the lines it stands for. `MC*` modules only extend a module for TLC
and define symmetry sets and the users of a channel. A definition under a comment `Mutant:` is a plausible bug in the definition it
stands before, and no part of a specification.

### `CmdScheduler` (`P/hsm/src/cmd_scheduler/`, `resource/`, `fsm/`, `handler.rs`)

The HSM core is a loop without preemption, so a call of `CmdScheduler::on_event` runs to its end.
`pc` says where in that call the core is: `idle` (the loop looks for the next interrupt), `post` (the event
is delivered, the two passes follow), `cleanup` and `ready` (the passes over the *copies* of the
clean-up and ready queues), `tick` (the time-out scan) and `panic` (`unreachable!()`, or the panic of a failed wipe). `work`
holds the copies.

| Variable | In the code |
|---|---|
| `slot` | `CmdSlot::fsm`; of the FSM only what scheduler and resources can tell apart: `In`, `Wait`, `Run`, `Out`, `Undo`, `Static`, the units its `CmdResourceRef`s hold, the resource it waits for or uses |
| `free_tags`, `occupancy`, `access`, `fn_drain` | the fields of `CmdSchedulerImpl`; `free_tags` is a stack, as there |
| `ready_queue`, `cleanup_queue` | the queues that `on_event` takes over and works through |
| `free`, `waiters` | `free_list` and `waiters` of each resource |
| `unit_tag`, `unread` | the tag a driver keeps with an operation (`peek_tag`), and channels whose answer nobody has received |
| `pka_state` | the bitmap of `HsmResCleanupFsm` |

| Action | Handler |
|---|---|
| `RxReady`, `StartCmd`, `TxComplete`, `OutFails` | arrival (`alloc` + RxReady), end of the inbound DMA with the start of the command, completion entry out, failed outbound DMA with roll-back |
| `PkaDone`, `IpcResponse` | completion events, delivered to the tag the driver holds |
| `CleanupPass`/`OnCleanup`, `ReadyPass`/`OnReady`, `Return` | the passes of `CmdScheduler::on_event` |
| `RxRefused` | an arrival that fails in its first event: no descriptor, or no queue of that id |
| `WipeDone`, `WipeEndFails`, `WipeError` | the clean-up FSM's PKA events; a wipe whose end fails retires the FSM |
| `Tick`, `OnTick`, `TickEnd` | `on_tick`: the scan over occupied slots that were not accessed |
| `Drain` | `drain` |

A command is one of a few shapes, left to choice: it answers at once; it acquires a resource
(`Begin`), finds the driver refusing (`StartFails`) or waits (`Enqueue`); it goes on with another
operation on the same unit (`Continue`) or another resource (`NextStage`, an engine is released first, a
channel held on to); it drops its ref in its last event (`Finish`) or with the I/O (`FinishHolding`). `Fickle` lets a woken command fail before it
acquires, as a close does whose session has gone.

### `IoQueues` (`P/hsm/src/partition/queue/`, `part.rs`, `handler.rs`, `hsm_fsm.rs`; `P/admin/src/fsm/`)

`queue` are the `IoQueueImpl` objects, `ioq` the table of a partition, `io` the queue each I/O in flight
holds. A reference count is not a variable: `Rc::strong_count` of a queue is the table's entry plus
the I/Os that hold it, that of an `IoQueueDeleteContext` the queues that carry it; `LastRef` and
`LastContext` are the code's comparisons with 1. `req` are the requests that carry a context, with
the answer; `channel` is the requester that holds the HSM IPC channel (only one at a time, and on a Pending
answer it keeps the channel until the notification - except VFLR); `pipe` are the notifications under way;
`owed` is a history variable, the I/Os a request found when it was answered.
Every handler is one action, because the HSM core runs it to its end.

### `SimplexPipe` and `Fifo` (`P/drivers/simplex/src/`)

Two cores and no lock, so one action per access to shared memory: `send` is `SendBegin` (both
indices are read), `SendWrite`, `SendPublish` (after the `dmb`); `recv` is `RecvBegin`, `RecvRead`,
`RecvAdvance`; `peek` is `RecvBegin`, `Peek`. A local copy of an index needs no variable of its
own: its owner is the only writer, and what was concluded from the *other* side's index is in the program
counter. `Count` with `budget` is the loop of `fill_aes_gcm_iv_queue`, which trusts
`empty_slot_count`. `Fifo` says what the trait promises: each call one atomic step on a
sequence. The mapping `Contents` reads the ring from `ci` up to `pi`; `Put` happens at `SendPublish`,
`Take` at `RecvAdvance`.

### `KeyStore` and `KeyMap` (`P/hsm/src/partition/vault/`)

`entry`, `used` and `mem` are a physical table's entry list, block bitmap and key memory; `mask` are the tables
the partition owns, `inUse` the keys the PKA engines have open. A key is a run of blocks: the entry has its start, and the length
comes from its kind, or is *read back* from the attributes in the run's first block. `Scan` is the loop of `add_entry` with its
two counters; `Add`, `Switch`, `Delete`, `DeleteSession`, `DeleteApp`, `Clear`, `Reset` and `SetMask` are the
store's operations, each with its conditions and its wipe. A key in use is disabled, not removed. `KeyMap` is what a session relies on: numbers name keys, a key reads
back as stored, and an operation changes the keys it is about and no other. The mapping reads each key out of the memory.

### `ResourceTable` and `SetResource` (`P/admin/src/function/`, `fsm/set_res.rs`, `fsm/pcie.rs`; `P/hsm/src/handler.rs`, `fsm/part_init.rs`, `part.rs`)

`ResourceTable` has the persistent table (`owner`), its CRC (as the table it was computed from) and the counts in memory.
`SetResCnt`, `ResetTable`, `WarmBoot`, and `TornBoot`: a boot that finds the first `k` entries of an update written and
the CRC not yet. `stale` remembers that a boot has thrown the table away after it had counted it.

`SetResource` adds the two sides of the command. On the admin core `cmd` (`AdminSetResCmd`), `cntrl` (the
controller's enable and disable, which share the channel), `chan` with `waiters`, `flr` (`PcieFsm`). On the HSM core `mask`, `enabled`,
`ident`, `init` (`HsmPartInitFsm` with its states) and `keysOf`, whose keys a table has. A *tenancy* is what lies between two resets of a
partition; keys and identities are marked with the tenancy they were made in. `Faults` are failures of the HSM core: no slot for the FSM,
an engine or a test that fails, an error that ends the FSM without an answer; and one of the channel, `"busy"`: it refuses the request because an earlier owner
left one behind (finding 16). `Liberties` are three things a host may do and the code does not provide for. The liberties and `"busy"` are off in the run and produce findings 7 to 9 and 20.

### `AdminChannels`, `AdminControl`, `StopInterface` (`P/admin/src/fsm/`, `resource/`, `main.rs`, `P/drivers/ipc/src/channel.rs`)

A channel has an owner and waiters (the counted resource) and the tag of the request in progress (the driver), with the message under way
and the interrupt of its answer. `loop` is the main loop: interrupts first (`hw`), and only when there are none one look at the pipe (`soft`).
`on` is what the other two cores have enabled, `owed` what the HSM core has put off and under whose tag, `pipe` its notifications. A notification may come
before the answers of the request it is about, or after them. The Disable of `VflrFsm` has tag 0, which is nobody's: its notification is looked at and stays at the head of the pipe (`NobodyTakes`).
The pipe has room for one notification of each function and drops one more. `Errs` are channels whose core may refuse a request, `Garbled` those whose answers may be beyond decoding,
`EnableFails` lets `enable()` fail for want of an admin queue. `CntrlFsm` and `VflrFsm` look at neither errors nor, the latter, at Pending; a command ends on an error.

| Variable of `AdminControl` | In the code |
|---|---|
| `cc_en`, `ready` | `CC.EN` and `CSTS.RDY` of each function |
| `irq`, `flr` | pending interrupts by reason; functions whose reset the host waits for |
| `cntrl`, `vflr` | `CntrlFsm`, `VflrFsm`: state, active function, pending functions, the answers so far |
| `cmd` | a command that uses one channel (`OneFp`, `OneHsm`), both, for a function and its queues (`Vf`), or one while it holds the other (`Restore`) |
| `adrift` | history: functions whose last change met an error that nobody acted upon - a refusal taken for success, an answer that could not be decoded or was not waited for, a request one core had and the other's driver refused, a failed `enable()`, half a `VfRestore`. The next change of the function clears it |

`adrift` names what the code passes over (findings 16 to 19): `CoresAgree` and `Follows` are about the other functions. Three more states of the code are exceptions of the liveness properties,
each a predicate and a finding: `Deadlocked` (2), `Jammed` (a notification that nobody takes is before one that somebody waits for, 5), `LeftBehind` (`CntrlFsm` no longer waits for a request that is outstanding, 16).

`StopInterface` has one machine, `stop`, and another user of the channels, who may give a channel back before he is answered (`OtherLeaves`), as `CntrlFsm` does. After an answer that cannot be decoded
the machine asks again for the function; `Slow` lets the timer elapse, `HspFull` refuses the answer to HSP; both panic. No core refuses here: `handle_pfn_enable` has no error for a Disable.

### `PinPolicy` and `Sessions` (`P/hsm/src/partition/{pin_policy_mgr.rs,part.rs,session_table.rs,session/}`, `fsm/*_session.rs`, `fsm/ecc_*.rs`, `fsm/establish_credential.rs`)

`PinPolicy` is `PinPolicyMgr` with its counters and the time stamp counter; `tries` counts wrong PINs at one tick.

| Variable of `Sessions` | In the code |
|---|---|
| `enabled`, `cred`, `nonce` | `PartitionState::enabled`; whether a user credential is set; the nonce |
| `alloc`, `reneg`, `table` | the two masks and the entries of `HsmPartSessionTable` |
| `vault` | what lies in each vault entry: a session key, a key made in a session, nothing; `inst` names the session it was made for |
| `cmd` | the command FSM of each slot, with what it remembers between two events: id, nonce, entry |
| `fp`, `waiters`, `woken` | the FP channel as a resource |
| `uses`, `told`, `leaked` | history: how often a nonce was accepted; ids the host knows or that were lost with an answer; session keys that no id names |

| Action | Handler |
|---|---|
| `StartEstablish`, `EndEstablish` | `EstablishCredential`, with the roll-back of a failed provisioning |
| `StartOpen`, `EndOpen`, `EndReopen`, `EndOpenFails`, `EcdhFails` | `OpenSession`, `ReopenSession`: begin, the end after the ECDH with nonce, PIN policy, import of the key and the table, every failure |
| `CloseAtOnce`, `StartClose`, `Resume`, `EndClose`, `CloseFails` | `CloseSession` and `flush_session`, with the wait for the FP channel and its answer |
| `StartGen`, `GenDone`, `StartTest`, `TestFails`, `StartSign`, `KeyDone`, `KeyTimesOut` | `EccGenKey` with its pairwise test, `EccSign` |
| `OutFails`, `Done` | the response cannot be transferred (one roll-back); it has left, or is timed out |
| `Enable`, `Disable`, `Reset`, `Migrate`, `Time` | the administrative requests; the clock |

`Orderly` is the host's discipline: it uses a session once it has the answer that opened it, and closes it (or has the function disabled) when the commands that may
still leave a key in it are over. Without it two properties fail (findings 14 and 15).

## 4. Runs

| Run | Question | Instance |
|---|---|---|
| `sched_timeouts` | Do the accounts stay exact under time-outs, refused begins, fickle waiters and failing wipes? `UnitAccounting`, `CompletionReachesOwner`, `WipedBeforeReuse`, `DrainWhenEmpty` | 3 slots, 2 engines, 1 channel, 3 commands of 2 stages |
| `sched_live` | Is the wake-up protocol exact without time-outs, is every waiter served, does the drain happen? `NoLostWakeup`, `WokenFindsUnit`, `ResponseReachesOwner`, `WaiterServed`, `DrainFires` | 5 slots, 1 engine, 1 channel, 4 commands |
| `sched_unreachable` | violation of `NeverUnreachable`, finding 1 | 4 slots, 1 engine |
| `ioq` | Do table and objects agree, is a request completed by its last I/O with none in flight behind it, is its requester told through a pipe of length 1? `TableExact`, `NothingLost`, `NotifiedAtLast`, `QuietWhenComplete`, `NotificationArrives` | 1 function, 2 queue ids, 3 queue objects, 3 I/Os, 2 requests, no VF reset |
| `pipe_refines` | `NoRace`, and `Refines`: the ring implements `Fifo` | ring of 4, 3 messages |
| `vault` | Are freed blocks wiped, does the scan find what the bitmap has, is a table outside the mask empty, and is the whole a map? `FreeIsZero`, `ScanAgrees`, `OutsideClean`, `Refines` | 2 tables of 2 entries and 3 blocks, keys of 1 block and of a variable length of 2 |
| `restable` | Are the counts right through boots and half-written tables? `NeverOverdrawn`, `CountsExact` | 3 functions, 4 resources |
| `setres` | Do key tables and identities change hands cleanly, do the cores agree, is each command answered? `MasksApart`, `TablesClean`, `IdentityCurrent`, `CoresAgree`, `Answered` | 2 functions, 2 resources, 2 commands, every fault of the HSM core, 2 tenancies |
| `admin` | Do the cores agree, does nobody go on too early, does everything end, also when cores refuse, answers cannot be decoded and notifications overtake answers? `NoCircularWait`, `CoresAgree`, `DrainedBeforeDisabled`, `Follows`, `Served` | a physical and a virtual function, 1 command of three kinds, all resets, both cores refusing, undecodable answers of FP, `enable()` failing; 5 events from outside |
| `admin_circular` | violation of `NeverDeadlocked`, finding 2 | the same, `VfRestore` only |
| `stop` | Is HSP told the truth, and told at all, and when does the machine panic? `StoppedWhenTold`, `NoPanic`, `StopAnsweredAtLast` | 3 functions, another user who may leave early, notifications at any time, undecodable answers of FP, HSP without room, the timer |
| `sessions` | Do sessions, keys and ids stay together, nonce and lock-out hold? `TableVaultAgree`, `KeysOfOwnSession`, `IdsAccounted`, `NonceOnce`, `GuessesBounded` | 2 commands in flight, 2 session ids, 2 vault entries, 1 attempt, delays up to 2 |

Each property has a mutant in `PROJECT.json`: a plausible bug in one mapped definition that makes the
property fail in the same run.

**Bounds.** `MaxArrivals` commands arrive and a command goes through at most `MaxStages` resources; both
are guards of `RxReady` and `NextStage`. Three commands are enough for an owner, a waiter and the
one that takes the unit between them or reuses a tag; with 3 slots (one the clean-up FSM's) tags are
reused from the third command on. Two engines let one be wiped while the other is in use. In
`IoQueues` two queues of a function and two I/Os are the least where the two reference counts differ,
a third queue object is a re-created queue, and a third I/O keeps an earlier life of the function in flight. `Reqs`
bounds the requests, `PipeLen` the notification pipe, because the code drops what a full pipe refuses. A ring of four slots wraps in every phase, and three distinct messages
fill it. In the vault three blocks leave a hole of one between, before or behind keys of one and two blocks, so that a scan fails although
enough blocks are free; `MaxUse` engines have a key open. Four resources among three functions are the least where a function owns a set with gaps.
`MaxTenancy` bounds the resets of a partition: two are needed for anything to survive one. In `AdminControl` one command beside the two machines
gives three users of two channels; `MaxQueues` bounds the queues `VfStart` and `VfStop` find, and `MaxEvents` what comes from outside (switches, resets, commands, refusals, undecodable answers):
five are enough to enable a function, put its disable off, have a reset or a command beside it and an error in one of them. `CoresAgree`, `DrainedBeforeDisabled` and `NoCircularWait` were also
run with seven events and with two commands. In `Sessions` two commands in flight are the least that interfere;
one session id is being closed or re-opened while the other is opened; nonces and names of sessions are reused once nothing carries them, so that
four and five of them stand for any number. `MaxTime` bounds the clock; a roll-over of the longest delay needs more of it than the run has, and is covered by the proof.

**Deadlock** is checked in `restable` and `admin_circular`. Elsewhere the system may rightly stop: the arrivals are used up, the host is silent, the time has ended,
or the firmware has panicked. The deadlock of interest, two machines that wait for each other, is a property (`NoCircularWait`, `NeverDeadlocked`).

**Fairness.** `CmdScheduler!LiveSpec` assumes `WF(Core \/ Serve)`: the loop never rests while it has an
event, and the hardware and the peer cores answer what was started. Which event comes first is left open; the priorities
of the loop are one of the orders. It is stated for the build without time-outs (`disable_io_timeout_handling`) and without a hung engine,
where nothing else ends a wait. `IoQueues!LiveSpec` assumes `WF` of each I/O's retirement (hardware answers, or the
tick ends it) and of `Receive`. `SetResource!LiveSpec` has `WF` of every handler of the HSM core, of its engine events and of the admin core's events; none of the host.
`AdminControl!LiveSpec` and `StopInterface!LiveSpec` have `WF` of the answers, of the drained I/Os and of each handler, and `SF(Poll)`:
the main loop looks at the pipe only when no interrupt is pending, and interrupts do not keep it away for ever. `StopInterface` also has
`SF(StopAnswered(c, TRUE))`: not every answer is beyond decoding. Refusals and answers beyond decoding have no fairness; they may happen or not.

## 5. Findings

The first two have a run that expects the violation. The others were met while modelling, and are reproduced by the change named with
them; the models of the runs exclude them by an assumption or name them in the property.

1. `sched_unreachable` (`hsm_fsm.rs:106`). Nothing takes a timed-out command's tag out of a
   resource's waiter queue. The tag is reused, the wake-up reaches the new command, which needs
   no resource: `unreachable!()`.
2. `admin_circular` (`vf_restore.rs:214`). `VfRestore` keeps FP's channel while it asks for the HSM core's; `CntrlFsm` asks for both at once, has the latter and waits for the
   former. Nobody has a timer.
3. `res_cleanup_fsm.rs:67`. The comment says the clean-up FSM always returns pending; a wipe
   that cannot start returns its error before that, and `CmdSlot::on_event` retires the FSM (`CleanupAlwaysRunning` in `sched_timeouts`).
4. `hsm_fsm.rs:909`. The comment promises the notification with the last I/O of the *function*; the code
   counts the references to *one request's* context. VFLR completes on a Pending answer, the function
   comes back, and the next delete or disable completes while an I/O of the former life is in flight (`Vflr = TRUE` in `ioq`: `QuietWhenComplete`).
5. `vflr.rs:326`. VFLR's request has no tag, so its notification names slot 0, where nobody
   waits. The admin loop only peeks the pipe; the notifications behind it are never reached (`Vflr = TRUE` in `ioq`: `NotificationArrives`; `Follows` and `Served` without `Jammed` in `admin`).
6. `key_store.rs:279`. A tag of a disabled key can be given again; when that key is enabled, two keys have it (`TagUnique`, with an `Ids` that has a tag above 0, in `vault`).
7. `mgr.rs:205`. A count reduced to something above 0 takes tables from a partition with their keys in them (`Liberties = {"shrink"}`: `TablesClean`).
8. `set_res.rs:196`. The mask is read when the message is sent: the 0 of a command that waits is overtaken by the next command and the reset does not happen (`Liberties = {"pipeline"}`: `TablesClean`).
9. `part.rs:2025`. A reset of the physical function during an initialisation lets it store the identity of the tenancy before (`Liberties = {"flr"}`: `IdentityCurrent`).
10. `mgr.rs:97`. The counts are taken before a table with a wrong CRC is thrown away (`CountsExact` without `~stale` in `restable`); they err to fewer free resources, `NeverOverdrawn` holds.
11. `part_init.rs:287`. When the test's signature fails (or, `part_init.rs:208-212` and `251`, the staged key is not as expected), the FSM ends without an answer; `SetRes` and its channel wait for ever (`Answered` without `Abandoned`).
12. `stop_interface.rs:340`. A notification that comes before the answer that announces it clears a bit that is set afterwards; HSP is never answered (`StopAnsweredAtLast` without `Forsaken`).
13. `part.rs:718`. A woken close whose session has gone fails before it takes the channel; the waiters behind it are not woken (`Fickle = TRUE` in `sched_live`: `NoLostWakeup`).
14. `app_sess/ecc.rs:456`. A key generation ends after its session was closed; the key stays, under an id that the next session gets (`Orderly = FALSE` in `sessions`: `KeysOfOwnSession`).
15. `app_sess/mod.rs:622`. The roll-back of such a generation deletes by entry number, where another session's key may lie (`Orderly = FALSE`: `TableVaultAgree`).

16. `cntrl.rs:364`. `CntrlFsm` takes a notification in any state and completes the change before both answers are there: `CSTS.RDY` is not cleared, the channels go back with a request outstanding, the
   late answer finds the machine idle, and the driver refuses every later request on that channel (`Follows` and `Served` without `LeftBehind` in `admin`).
17. `cntrl.rs:376`. A failed `enable()` is only logged: both cores have the function enabled, `CSTS.RDY` stays 0 (`CoresAgree` without `adrift`, with `EnableFails` alone).
18. `cntrl.rs:275`, `stop_interface.rs:253`. The status of an answer is compared with Pending only; an error counts as a valid answer (`CoresAgree` without `adrift`, with `Errs` alone).
19. `vf_restore.rs:246`. A `VfRestore` that FP obeyed and the HSM core refuses leaves the function enabled on FP alone (the same).
20. `set_res.rs:203`. The table has been changed when the channel refuses the request; the HSM core does not hear of a release, and the next owner of a table gets it while the last has it (`Faults` with `"busy"` in `setres`: `MasksApart`).

Two things are kept in history variables of `Sessions` because the code does them and nothing says it should not: a Reopen that is refused after its import leaves the session key behind
(`leaked`), and an id whose answer is timed out, or whose roll-back finds no session, stays allocated (`told`).

## 6. What is proved

For every value of the constants that satisfies the named assumptions of the modules
(`SlotsAssumption`, `UnitsAssumption`, ...; no bound on slots, engines, queues, I/Os, ring, tables or commands).

**`CmdSchedulerProofs`**: `TypeCorrect`, `TagsAccounted`, `UnitsAccounted`, `EnginesWiped`,
`DrainsWhenEmpty`, `CompletionsReachOwners`, and for the build of `sched_live` (`Calm`: no time-outs, no failed wipes)
`ResponsesReachOwners`, `TheWokenFindUnits`, and `NoWakeupLost` if moreover `~Fickle`. The inductive invariant is
`IInv == TypeOK /\ TagAccounting /\ UnitAccounting /\ IdleOwnsNothing /\ CopyUsedUp`.
`TagAccounting` alone is inductive only with types. `UnitAccounting` is not: a slot that is emptied must give up all it
owned (`IdleOwnsNothing`: an empty slot and the clean-up FSM hold no unit), and the copy of the clean-up queue must be
empty outside its pass (`CopyUsedUp`), or a pass begun with leftovers would lose engines. The two
action properties follow from it: an engine joins `free` only in `WipeDone`, whose guard puts it in
`pka_state`; the code tests the *occupancy bits* before it drains, and `TagAccounting` turns that into a statement about slots.
`CompletionsReachOwners` adds `Homing`: wherever an engine is while its driver holds a tag - with a command, in the clean-up queue, in the copy, in the wipe - the tag is
the one that place accounts for; after a time-out it may for a while be that of an empty slot or of the successor, but then the clean-up pass comes before the next
interrupt. It needs `FreeIdle` (the driver of a free engine holds no tag) and no hypothesis on the build. The three others rest on `CalmInv`: who stands in a
queue waits for that very resource, stands in one queue, and is the only one woken for it (`QueueOK`); a wake-up under way has a unit to find, and, if `~Fickle`, a resource with waiters has
no free unit but the one a wake-up is under way for (`GrantOK`); a tag a driver holds is that of the command that holds the unit (`RunInv`); and no wake-up for an
engine outlasts the call of `on_event` that queued it (`PassInv`), so that no new command takes the engine in between. With time-outs the last three are false: finding 1; with
`Fickle`, `NoLostWakeup` is: finding 13.

**`IoQueuesProofs`**: `QueueTypes`, `TablesAgree`, `CompletedAtLast`, and under the assumption `~Vflr`
`CompletedQuiet` and `PipeNeverFull`. `IInv` adds to `TypeOK` and `TableExact` that `owed` is exactly the set of I/Os that hold a
queue with the request's context (`OwedExact`), that a request is Pending exactly while it is owed something
(`PendingOwed`), and that the pipe names only answered requests (`PipeAnswered`). The two comparisons with 1 in `retire_io` then mean
`owed = {}`. `SInv` adds what VFLR breaks: a context in use belongs to the requester that holds
the channel (`ChannelOwns`), so there is one notification at most (`OneNotification`), and while it is under way the table has no queue the request was about (`ChannelCleared`).

**`SimplexPipeProofs`**: `PipeTypes`, `NeverRaces`, `RoomKept`, `ImplementsFifo`. `IInv` is the three
invariants with `SenderReady` (the slot at `pi` holds the message about to be published) and `ReceiverReady` (the local copy is the slot at `ci`).
The index arithmetic is done once, in `UsedRange`, `Publishes` and `Advances`; every step is then a step of `Fifo` or leaves `Contents`, `answer` and `got` alone.

**`KeyStoreProofs`**: `StoreTypes`, `KeysApart`, `BitmapExact`, `FreedIsWiped`, `HandedOverEmpty`, `ImplementsMap`, `ScanFindsTheFirstFit`.
`IInv == TypeOK /\ Sized /\ NoOverlap /\ UsedExact /\ FreeIsZero /\ OutsideClean`. The length of a variable-length key is data in its own first block, so `Sized`
(every key's run has a positive length, read back or not, and lies in its table) must hold together with `NoOverlap`, or an
operation on one key would change the extent of another. An added key takes blocks outside the bitmap, by `UsedExact` outside all runs; a removed one gives up
exactly its run and wipes it. The refinement follows: the reading of a key depends on its entry and its run alone, and each operation is `Store`, `Switch`, `Drop`, `Clear`, `Use`, `Release` or a stutter.
`ScanFindsTheFirstFit` is about a recursive function: that the recursion has a solution (`ScanExists`), and what the scan knows after each block (`Knows`: free blocks so far, the run of free blocks it is in
and that it cannot be longer to the left, no fit behind it), are shown by induction over the set of block numbers (`UpTo`, from the least counterexample).

**`SetResourceProofs`**, first of the table alone: `CountsAreExact`, `NothingOverdrawn`. `TableInv` adds `Charged` to types and `CountsExact`: what all functions are charged with,
as a set of pairs (function, number), and what counts as free make up `NR`. This is kept also by a boot that takes the counts from a table it then throws away, from where `CountsExact`
no longer holds. Then of `SetResource`: `IdentityIsCurrent`, if `"flr" \notin Liberties`; `MasksStayApart`, `TablesComeClean`, `BothCoresAgree`, if `Liberties = {}` and `"busy" \notin Faults`. Each hypothesis is needed
(findings 7 to 9 and 20). `IdentityInv` says whose request and answer are in the channel (`TalkOK`) and that the material an initialisation carries is of the present tenancy (`MakingOK`), which a reset of a partition cannot
outdate because it is itself a request on that channel. `TablesInv` carries the two cores' views of a table between the admin core's decision and the HSM core's: a partition
has more than its function owns only until a release of it has been seen, and the release of a table is seen before the grant of it to the next owner (`Within`, `ReleaseFirst`),
because both wait in one first-in first-out queue.

**`AdminControlProofs`**: `OnlyRestoreWaitsInACircle`, whatever cores refuse, garble or put off and in any order of answers and notifications. `ChannelsInv` says of each machine and command in each of its states which
channels it holds or waits for - also when it has left a request behind or its request was refused - and that two users that wait in both queues stand in the same order in them (`NoCross`); a circle then needs a user that holds one
channel when it joins the other queue, and only `Restore` does.

**`StopInterfaceProofs`**: `NoPanicOfItsOwn` (an action property), and if `"Hsm" \notin Garbled` `ToldOnceStopped`. `MachineInv` says for each state of the machine where it stands in both channels, and that a tag in a channel it
has is its own only while it waits for the answer; a refused request is then always another's, left behind. `ToldInv` adds that a function that is asked about is pending, current or off on both cores (`Covered`) and that what the HSM core has put off is known to the machine or announced by the answer
under way (`Heard`). With an answer of the HSM core that cannot be decoded this fails, and so does `StoppedWhenTold`: the machine asks again, the function is disabled by then, and the second answer says nothing of what was put off.

**`SessionsProofs`**: of the policy `PolicyTypes`, `GuessingBounded`; of the partition `NonceAcceptedOnce`, `PartitionGuessesBounded`, `NoIdLost`, and if `Orderly` `TableAndVaultAgree`, `KeysDieWithTheirSession`.
`GuessesBounded` needs `Tracked`: as long as no delay has been earned, the attempts
count every wrong PIN of this tick; once one has, a wrong PIN of this tick means that the lock-out ends later, so that no further PIN is compared. The bound is carried over: every step of `Sessions` is a step of the PIN policy or
leaves it alone. `NonceInv` adds to `NonceOnce` that the present nonce has not been accepted; a new nonce is one that no command carries, and exists by a count (`FreshIsFresh`: more nonces than commands).
`AccountInv` says that an id the host does not know is that of an `Open` that has succeeded and not yet answered. `SessionsInv` adds to the two properties that the key a command has made, or an engine works with, stays where it was and is no other command's (`KeysHeld`,
`MakersApart`), that a command that makes a key for a session has that session alive (`MakersLive`), and that who closes a session closes it alone, with its key disabled (`ClosingAlone`). The last two are
what an orderly host gives; without it findings 14 and 15 break them.

**Only model-checked**: the liveness properties (`WaiterServed`, `DrainFires`, `NotificationArrives`, `Answered`, `Follows`, `Served`, `StopAnsweredAtLast`),
which are out of the prover's reach, and `CoresAgree` and `DrainedBeforeDisabled` of `AdminControl`. The hypotheses `Calm`, `Liberties = {}`, `"busy" \notin Faults`, `Orderly` and `"Hsm" \notin Garbled` are the constants of the runs that check the same property;
what the code does without them is in section 5, and for the last in the paragraph on `StopInterfaceProofs`.

## 7. Assumptions of the models

* One core's accesses to shared memory take effect in program order (`SimplexPipe`); `send` has the `dmb`, `recv` has none and relies on it.
* Behaviours start when both cores have constructed their pipe; each constructor sets both indices to 0.
* The heap has room for a queue object whenever `CreateSq` happens, and the scheduler for its FSMs (except in `SetResource`, where the lack of a slot is a fault).
* A PKA error of a wipe panics (as in the code) and ends the behaviour.
* What the hardware and the peers of the HSM core do is a free choice of answers, errors and silence (`CmdScheduler`, `SetResource`, `Sessions`); in the liveness runs they answer. In `AdminControl` both cores may refuse (`Errs`) and FP's answers may be beyond
  decoding (`Garbled`); in `StopInterface` the latter, and nobody refuses.
* A new nonce is one that no request in flight carries: 32 random bytes do not repeat.
* The host is orderly with sessions (`Orderly`), resources (`Liberties = {}`), and in `sched_live` no woken command changes its mind (`Fickle = FALSE`); what happens otherwise is in section 5.
* An answer of the HSM core can be decoded by the admin core: both are built from one definition of the messages. (Without it `DrainedBeforeDisabled` and `StoppedWhenTold` fail: the machine does not learn that its request was put off.)
* The channel takes the requests of `SetRes` (`"busy" \notin Faults`); finding 20 is what happens after finding 16.
* The driver switches a function on or off again only when `CSTS.RDY` has followed, as NVMe asks, or has failed to (`adrift`).

## 8. Abstractions

Data is reduced to what the properties tell apart: certificates and payloads do not appear, messages are
opaque in `SimplexPipe`, a key is an opaque blob laid out over blocks in `KeyStore` and a name in `Sessions`. A command's result is success or error. Time appears
as ticks, and as the time stamp counter in `PinPolicy`. Each module has of the partition what it is about: queues and `enabled` in `IoQueues`, tables and identity in `SetResource`,
credential, sessions and keys in `Sessions`. `Sessions` has one partition: partitions share engines and channels, which are `CmdScheduler`'s, and no
session state. A request that is refused when it is decoded changes nothing and is no action.

## 9. Not modelled

`PROJECT.json` lists every part. In short: cryptography, key formats, DER/X.509, wire codecs and register drivers have no
control state of their own; crash dump, logging and profiling run beside or after the program; the fast path (`fp/`) and the
service processor (`core/`, `projects/microsoft/hsp/`) are other processors' firmware and appear as the
far end of an IPC channel; the event loop's priorities are covered by leaving the order open. Most of the repository's lines are generated register
definitions and the service processor's libraries.

Left for later, with the hazards they are to answer: the two DMA phases of `HsmFsm`; the IPC rings' indices and the event channel (a second
PCIe reset while the first is unanswered panics the admin core, `pcie.rs:129`); self-tests pending on a busy engine; `ChangePin`; the restore of partitions and queues after a
warm boot; the allocation of queues inside a resource; the saved context of a migrated function.
