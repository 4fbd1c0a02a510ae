# Verification of t2-touchid-linux

TLA+ models of the parts of `t2-touchid-linux` whose correctness depends on the
order in which things happen: what is durable when a process stops, when a reply
is lost, when the machine loses power or reboots, and when two of those meet.

Source paths below are relative to the repository; the Python and C sources are
in its `src/` directory.

## 1. The system

Touch ID on a T2 Mac lives in the Secure Enclave (SEP). The SEP holds the
fingerprint identities, and the host keeps encrypted copies of the SEP's state
("Catacomb" components: `user_*.cat`, `master.cat`, `biolockout.cat`). Linux
talks to the SEP over the Bridge network connection (biometric commands and
events) and over a PCI mailbox (keybags, ACM contexts). Changing an identity is a
mutation of two parties that cannot be committed together, so each mutation is
journaled: intents before commands, observations after them, and a final proof
(E3), repeated after a reboot (E4), that the SEP and the host agree.

### Inventory

| Component | State it keeps | Operations | What is hard |
|---|---|---|---|
| Catacomb host store (`t2_catacomb_store.py`) | root files, `prepare/`, `commit/` | begin_stage, stage_component, cross_commit_boundary, recover, discard_prepare, reads | a stop between any two system calls; unsynced calls lost or reordered by a power loss |
| Mutation journal file (`t2_mutation_journal.py`) | append-only, hash-chained records | create, append, read | torn tail, lock, concurrent append |
| Persistence tracker (`t2_enrollment_persistence_journal.py`) | plan, current batch and component, staged hashes, freeze | one milestone per `CATACOMB_` record | legal orders of intents and observations, resuming after a freeze |
| Enrollment journal (`t2_enrollment_journal.py`) | phase, identity, pending event, snapshot | one milestone per record | the legal histories, including recovered ones |
| Enrollment operation (`t2_enrollment_operation.py`, `_protocol.py`) | reducer, journal head | start, continue, cancel, events | events racing a cancel, lost replies |
| Persistence operation, finalizer (`t2_enrollment_persistence_operation.py`, `_finalizer.py`) | none beyond the journal and the store | prepare, complete, stage, confirm, commit, read back | order of the host commit and the SEP confirm |
| Reconciliation (`t2_enrollment_reconciliation.py`) | none | classify, classify_post_reboot | which states a recovery may accept |
| Enrollment front end (`t2-touchid-enroll-test.py`) | operation lock, journals on disk | enroll, reconcile, recover identity, recover local transaction, verify post-reboot | a recovery interrupted in its turn; recovering the wrong thing |
| Mutation registry (`t2_mutation_registry.py`) | none (reads all journals) | scan, blocks_new_mutation | one journal kind overlooking another |
| Identity deletion, rename, Catacomb sync, external deletion | one journal kind each | intent, dispatch, save, reconcile, recover | as for enrollment, with their own phases |
| Post-reboot reconciler | none | verify the pending E4s at boot | bounded retries; which journal it picks |
| fprintd daemon (`t2-fprintd.py`) | claim, verify/enroll/delete tasks, claim expiry, finger state | Claim, Release, Verify*, Enroll*, Delete*, sender departure | asyncio interleavings at every await |
| fprintd workers and their protocol | request and event sequence of a privileged subprocess | start, stop, events, result | a worker that dies, hangs or answers late |
| ACM context, SEP kernel transport, AKS tool | one kernel context; one mailbox exchange | create, bind, delete; send, receive | timeouts with a late reply, process death with a live context |
| Bridge connection | one socket, a connection generation | lease, command, event queue | a poisoned connection; events between replies |
| User mapping, activation, broker, reconciliation | mapping files, activation journal, IPC session | admin updates, activation, requests | crash recovery; requests against a stale mapping |
| Codec, oracle, diagnostics | none | pure functions, read-only reports | formats only |

Every component, with what is left out of it, is listed in `PROJECT.json`.

### How they interact

A front-end command takes the operation lock, scans the journals, connects, and
reads the SEP twice. The coordinator writes the baseline and runs the operation;
each step appends to the journal before and after it talks to the SEP. The
finalizer saves the SEP's components through the persistence operation, which
drives the host store and the same journal; it ends with the E3 read-back. A
process that stops anywhere leaves a journal, perhaps a `prepare/` or `commit/`
in the store, and an SEP that goes on by itself. Recovery commands start from
those three and nothing else. The registry keeps other mutations out meanwhile.

## 2. Modules

`CatacombStore` is the store by itself, one action per system call.
`AtomicStore` is what it promises. The proofs are in modules of their own:
`CatacombStoreProofs`, `CatacombPowerProofs`, `MutationJournalProofs`,
`UserAccessProofs`, `SepTransportProofs`, `FprintdProofs`, `EnrollmentProofs` and
`IdentityProofs`.
`PersistenceJournal` and `EnrollmentJournal` are the two journal state machines
as pure operators: each milestone maps a history to the set of histories after
it, which is empty when the code would refuse the record. `Enrollment` is the
system around them: the commands, the store at the grain of its transactions,
the SEP, and the faults. `IdentityJournals` and `IdentityManagement` are the same
for the three mutations of `t2-touchid-manage`. `Fprintd` is the D-Bus daemon.
`MutationJournal` is the file under every journal. `UserAccess` is who may do what:
the mapping file, the commands that change it and the broker that authorises a
request. `SepTransport` is the kernel driver of the mailbox with its users.

### CatacombStore

| Model | Code |
|---|---|
| `fs` | the tree a process sees: `root`, `prepare`, `commit`, and which of the two directories exist |
| `disk` | the trees that a power loss may leave |
| `pc`, `cur` | the next system call of the process, and the name it works on |
| `batch`, `known` | the names and the returned hashes that the caller has journaled |
| `gen`, `base` | ghosts: the generation being staged and the root it started from |

A file is absent, torn, or the component of one generation; a hash comparison is
a comparison of generations and `validate_component` rejects a torn file.
Staging creates, writes, syncs the file and syncs the directory in four steps.
`Fsync` makes the tree the process sees the only one a power loss may leave.

The file system is external. Two assumptions are checked separately. With
`Reorder = FALSE` unsynced calls reach the disk in order, as on a journalling
file system in its usual mode. With `Reorder = TRUE` any subset of the unsynced
calls may be lost, which is what POSIX allows.

`RecoverPrepare`, `RecoverCommit` and `RecoverClean` are what the recovery
commands do with the directories they find. A root that the interrupted
transaction had already replaced owes a post-reboot proof before the registry
lets another transaction begin, hence `await_reboot`.

### PersistenceJournal and EnrollmentJournal

The tracker's `batches` are the two plans the finalizer uses: `user`, `master`
and then `biolockout` after a success, `biolockout` alone after a failure. A
history keeps the fields that later milestones look at; digests, lengths, UUIDs
and connection generations are left out because one process repeats the same ones
and a later process always has fresh ones.

### Enrollment

`proc` is the one running command (it holds the operation lock) and where it
stands between two journal records: `send` before a dispatch, `ok`, `refused`
or `lost` after it, `run` otherwise. The journal's phase is the rest of the
program counter, as in the code. `sep` is the SEP: its identities, the
components it wants saved, and a scan that may go on after the process is gone.
`sent` is a history variable used only by properties.

`Dispatch` sends a command whose reply may be lost before or after the SEP acts.
`Crash` stops a process between any two steps. `Reboot` also ends it, and may or
may not restart the SEP; a restarted SEP holds what the host root holds.

Abstractions: the SEP's Catacomb hash is a function of its identities; the stages
start, continue and cancel of an unknown outcome are one ("active"), since
nothing tells them apart later; the bio-lockout component has a version of its
own; the first enrollment on a machine without a Catacomb, the milestone
`E2_IDENTITY_READBACK_OBSERVED` (no command writes it), and the ACM
authorization before the baseline are left out.

### Fprintd

| Model | Code |
|---|---|
| `dev` | the attributes of `FprintDevice`: claim, `verify_task`, `deletion_task`, the enrollment client, `claim_expiry_task`, finger-needed |
| `timers` | the expiry coroutines that are alive, each with the claim it was started for |
| `vop` | the verification operations (tasks of their own) and where each waits |
| `worker` | the enrollment workers' tasks |
| `call` | the calls of each sender that have not returned, and what each waits for |
| `lock`, `claimq` | the holder of the backend's operation lock and its process; the queue for `claim_lock` |
| `client` | what the daemon can still see of a sender: its bus name, its process, its session |

An action is what the event loop does from one event until every task waits
again. A continuation that is due (the process is dead, the awaited task is over)
runs before the loop looks for events, except for calls that had already arrived:
`Quiet` says when nothing is due. All tasks that wait for one task wake in the same
turn. Every wait of a handler is a place where it may be overtaken: `Claim` has the
steps `Claim`, `ClaimLocked`, `Collected`; `VerifyStart` has `VerifyStart`, `Queue`
(the operation lock), `StartProjection`, `Projected`; stopping a verification has
`StopVerification`, `CancelVerifyTask`, `VerificationStopped`. A stopped process
may have finished its work before the signal only when `LateSuccess` is TRUE.

Abstractions: the result of a projection or a match is a choice; the cached bridge
port is a probe that may fail once and be repeated; the caller pinning is the
outcome "the evidence about the sender is gone".

### IdentityJournals and IdentityManagement

`IdentityJournals` has the milestones of the rename, delete and sync journals over
`PersistenceJournal`'s identity-metadata plan (the user component alone). The three
kinds share one record: `action` is the journaled recovery direction, `rboot` the
boot of the recovery, `forward` whether a save has started afresh on another
connection, `settled` the boot that E4 is compared with, `commit` and `attempted`
the host commit and the single recovery of a sync.

| Model | Code |
|---|---|
| `BeginRename`, `BeginDelete`, `BeginCatacombSync`, `Intend` | `run_rename`, `run_delete`, `run_user_catacomb_sync` up to the intent |
| `IntendDelete` .. `FreezeDelete` | `t2_identity_delete_operation.run`: the command, its status, the read-back that decides |
| `PlanPersistence` .. `FreezeSave` | `t2_identity_rename_operation.run` and `t2_identity_delete_persistence.run`, which make the same steps and differ in how a failed `begin_stage` ends |
| `BeginSync` .. `FreezeSync` | the loop of `run_user_catacomb_sync`: user with an early confirm, then master |
| `RecoverRename`, `RecoverDelete`, `DiscardLocal`, `RollLocalForward`, `NothingLocal`, `Conclude*`, `SaveForward`, `RefuseRecovery` | `run_recovery`, `run_delete_recovery` and the two `classify` functions |
| `RecoverSync` | `recover-catacomb-sync` |
| `VerifyRename`, `VerifyDelete`, `ReconcileAtBoot` | the two post-reboot verifications and `t2_post_reboot_reconciler.run`, whose mapping and readiness gates are assumed open |

`host.user` is the committed user component as the properties see it: a version
(its hash), the identities, the label and the adaptive update in its templates.
`Match` is a match that adapts a template. Whether a delete command deletes and
what it replies are unrelated choices. A failed file operation (`FreezeSave`) may have
done nothing, a part or all of its work.

Abstractions: one user; a label is the number of the operation that wrote it,
whichever identity it is for; the
SEP's hash is its identities and adaptive update; configuration, capabilities and
the mapping generation are constant. `MaxOps` bounds the mutations, of which a
deletion, which has the most states, counts as two; `MaxExports` bounds how often a
recovery saves forward. As in `Enrollment`, a restarted SEP is assumed to hold what the host root
holds; nothing in the repository loads the store into the SEP, so this is an
assumption about the firmware. It has one consequence: a SEP restart while
`commit/` is pending, followed by the roll forward, leaves a host that is newer
than the SEP, which is why `UpdateKept` and `ClosedTruthfully` compare the
updates in one direction, and with the roots of the baselines too (section 3).

### MutationJournal

| Model | Code |
|---|---|
| `exists`, `lines`, `disk` | the name in the directory, the lines of the file, the lines a power loss keeps |
| `lock` | the exclusive `flock` of `append` (`read` takes and drops a shared one within a step) |
| `ReadHistory`, `CreateFile` | `read` followed by a checked append; `create` with `O_EXCL` |
| `LockFile`, `PlanRecord`, `WriteFirst`, `WriteRest`, `SyncFile`, `SyncDirectory`, `Fail` | the calls of `append`, in order; an error or a kill closes the file |

A line is `whole`, `part` of a record, `unterminated` (all of the record, not its
newline: still JSON, so it still validates) or `joined` with the record after it. A
record is a number; its `previous` stands for the hash, its `seen` for the history
the caller decided on, which the expected count and hash pin.

### UserAccess

| Model | Code |
|---|---|
| `file`, `durable` | `users.json` as read, and as a power loss may leave it |
| `mapLock`, `opLock` | the mapping lock (a process waits) and the operation lock (a process fails) |
| `BeginBind`, `CollectAuthority`, `LoadBind`, `LoadRebind`, `RecheckDraft`, `LoadDisable` | `bind_disabled`, `rebind_disabled`, `disable` |
| `PublishRename`, `PublishSync` | `_publish` up to the rename; the directory sync and the read-back |
| `EnterLive`, `Collects`, `CollectsSame` | a live session: its lock and connection, its first and later collections |
| `LoadEnable` .. `EnableSecond` | `enable_reconciled` |
| `LoadServe` .. `ServeBound` | `run_self_service`, from the mapping to the hand-off |
| `ReturnInventory`, `PrepareMaterial`, `AllowDispatch`, `Enroll`, `Delete` | the consumers: inventory, enrollment, deletion |
| `Manage` | any other command that changes the Catacomb under the operation lock |

`catacomb` is the reconciled pair of host and SEP: a version and whether the two
agree. The account generation, the keybag digest, the configured Apple user, the
state of a keybag alias, the bridge connection and the caller change under the
commands. The readiness bits are five alias states (`ready`, `locked`, `absent`,
`lockout`, `mismatch`). A check that fails is `Fail`, which any step may take. What a
mutation does inside is `Enrollment` and `IdentityManagement`: here it changes the
Catacomb in one step (`Mutate`) or, when its process is stopped there, not at all. That a
SEP scan goes on after its process was killed, perhaps while another command holds the
operation lock, is in `Enrollment` and not in this module. The consumers' checks for a
blocking journal (`mutation_blocked`), for capacity and of the projection are left out,
so `PrepareMaterial` may go on where the code would stop.

### SepTransport

| Model | Code |
|---|---|
| `driver` | `struct t2_sep_transport`: how far the probe came, the device nodes, the opener, the generation, `poisoned`, the context on record |
| `call` | the exchange that holds `exchange_lock`, and how many foreign replies it has popped |
| `outbox`, `inbox`, `body` | requests not answered yet, the reply queue, and whose answer an endpoint's buffer holds |
| `ProbeSends`, `Expose` | `t2_sep_probe`: the registrations, the negotiation, the device nodes |
| `Open`, `GetInfo`, `Send`, `Refused`, `Release` | open, the ioctls up to the mailbox, their refusals, release with its cleanup |
| `Receive`, `ReceiveTimesOut`, `Complete`, `GiveUp` | the matching loops and what follows a reply or its absence |
| `AfterReply`, `AfterFailure`, `Consume`, `Killed` | `lifecycle_test`, `policy_preflight_test`, `with_authorized_context`, and a process that dies in them |

The enclave is external. It answers each endpoint in order, at any time or never,
and writes the body of an answer before it posts the reply. A reply has a shape
(`ok`, `error`, `short`, `long`, `odd`, `oversize`, `unbound`) in place of its bytes;
an oversize one may answer any ACM command and poisons the endpoint.
A send that times out posts nothing, but an AKS request has used its number.

## 3. Runs

| Run | Question | Bounds |
|---|---|---|
| `store_crashes` | Do stops between any two calls, and a power loss on an ordered file system, leave a store whose recovery gives the old or the whole new batch? Does recovery end? Does the store implement `AtomicStore`? | three names, as in the code; two transactions, so that one starts from what another left; three stops, so that a recovery of a recovery is interrupted |
| `store_power` | Are the fsyncs enough when unsynced calls may be lost in any order? | three names, two transactions, two power losses; no process stops (see the observations below) |
| `enrollment_once` | With every lost reply, stop, recovery and reboot: no command is sent twice, a disagreement of SEP and host always blocks, master is confirmed only after the host commit, recovery follows the journal, commands end, a success is verified | one enrollment; three boots: one for the enrollment, one for a recovery, one for its proof; two events before the terminal one, so that a second event can follow a continue or a cancel; capacity one, so that a start is also refused |
| `fprintd_clients` | Does the daemon keep going, and does finger-needed follow what runs, when two clients call and one leaves? | two senders, one call each at a time, one of them may enroll and delete, one may leave; two timers, so that an old one meets a new one |
| `fprintd_pipelined` | Does a client that does not wait for answers ever get two operations, or one its claim does not cover? Do its calls return, and does its claim end when it leaves? | one sender, two calls at a time, one timer |
| `enrollment_twice` | Does a second enrollment respect what the first left behind? | two enrollments, two boots, terminal events only |
| `user_access` | While an authorised request runs, is its mapping the one in the file? Does a revocation that was reported survive? Is a mapping enabled only on evidence that still holds, and a mutation anchored on the Catacomb it was authorised for? Do commands end? | two processes and two commands, which is where every conflict between two commands shows; two Linux and two Apple users; one change outside, stop or power loss; a grant that expires with one tick of the clock |
| `journal_appends` | Does an acknowledged record stay readable, and was every record decided on the records before it? Do appends end? | three processes and five appends, so that several are decided on one head; two power losses, so that one falls on what another left |
| `sep_sessions` | Is anybody handed an answer to another request? Does the driver lose a context without giving the endpoint up? Does the consumer run only under an authorised context? Do sessions end? | one authorising, one testing and one keybag process; few transaction numbers and skipped replies, so that both limits are met; one message nobody asked for |
| `identity_mutations` | With every lost reply, stop and recovery of a rename, a deletion or a sync: is a delete sent once, does the SEP ever believe saved a deletion that the host lacks or an update that it never had, does a disagreement always block, is a mutation closed with the outcome it had, does recovery follow the journal, do commands end? | a deletion, or a rename or sync after another, since what the first left behind matters to the second; two identities, as a deletion keeps one; three boots, so that each of two mutations can meet a SEP restart and the first can be verified; one adaptive match, before, between or after them; four files, so that a recovery saves forward and is itself recovered |

Deadlock is checked in `fprintd_clients`, since a daemon must not stop for good. The
other runs do not check it: their bounds end every behaviour, and a store that waits
for an operator may stop.

Two runs are expected to fail, each with one property that a document of the
repository states; `PROJECT.json` quotes them under "findings".

* `late_projection`: `_stop_verification` resets `verify_task` after two waits; a
  projection that had succeeded when it was sent SIGTERM has by then made its
  verification the `verify_task`, which cleanup forgets.
* `wedged_deletion`: a recovery that saves a deletion forward moves its journal
  from `OUTCOME_UNKNOWN` to `SEP_DELETED`. When it stops there, the journal has a
  recovery direction already, so no new intent is legal, and `classify` wants
  `OUTCOME_UNKNOWN`: no command can close the journal, and it blocks all others.

The latter fails closed: it keeps something from happening and does not let SEP and
host disagree silently (`DisagreementBlocks`).

More observations, without a run.

Store and journals. Recovery rolls a `commit/` forward without first syncing the
rename that created it, so after a process stop an old component is unlinked while
the boundary is not durable (`t2_catacomb_store.py` 316), although the comment at lines
306-308 wants it persisted "before any old root component can be unlinked". One stop is
enough for TLC to refute `BoundaryIsDurable`, which is therefore a property of the
process that crosses the boundary and goes on. On an ordered file system the store is
atomic all the same (`store_crashes`); when unsynced calls may be lost in any order the
unlink can survive the rename, and `BatchAtomic` fails too. `ReadIsDurable` fails with
two stops even on an ordered file system: the second one falls after the last promotion
and before its sync, the next recovery finds an empty `commit/` and removes it, and a
reader then accepts a root that a power loss may take back. That is why `store_power`
has no process stops. A journal whose last newline was lost validates; the next append
succeeds on the same line, is acknowledged, and the file cannot be read afterwards
("invalid journal JSON"): `AcknowledgedIntact` names this exception, which blocks
all mutations and costs at most that last record.

Daemon. Each expiry coroutine resets `claim_expiry_task` when it ends, also when that
names another claim's timer; a Release during an enrollment leaves such a coroutine
behind, and a later claim of a living client ends early (`t2-fprintd.py` 912, 1068).
`backend.cancel()` may end a listing of another client.

Transport. When the first registration times out the probe frees the buffers
(`t2_sep_transport.c` 1048), and an enclave that answers late has then registered
memory the driver no longer owns; the model has this state and no property excludes
it. AKS replies are told apart by 255 transaction numbers, so a stale reply matches
only when exactly a round of requests has been numbered in between (`OwnReply`).

Mutations. `UNFINISHED_PHASES` of the enrollment front end has no `TERMINAL_WITNESS`,
so an enrollment stopped there does not keep another one from starting. E4 of an enrollment or a rename wants a boot other
than the baseline's, so one recovered on a later boot is verified on that same boot
(a deletion compares with the boot of its first recovery, so one that is recovered again
on a later boot is verified on that boot too). A recovered rename or save may commit older
templates than the host holds: a first rename stops after its boundary, the SEP restarts
with the root before it, recovery rolls the file forward and the rename is verified; a
second rename then exports the SEP's older templates, stops after its own boundary, the
SEP restarts with the newer root, and recovery rolls the older file forward. `classify`
accepts it, since the committed outcome compares files and not the SEP's hash
(`t2_identity_rename_recovery.py` 177). The newer update is then in the SEP and in the
second rename's baseline, which is what `Kept` says. An enrollment reconciled by
`E3_PERSISTENCE_READBACK_RECOVERED` never recorded the attestation digest that E4
replays, so its E4 is refused. A rename that stops in `BASELINE`, and a sync that
stops in `BASELINE`, `INTENT` or `HOST_COMMITTED`, block and have no recovery
command. A `begin_stage` that fails after its `mkdir` closes a rename or a sync as
aborted and leaves a `prepare/` that every later command refuses and none removes.
A save that froze in `host-commit` with `commit/` present is refused by recovery,
because its tracker is no longer at the commit intent. A match while a journal is
open changes the SEP's state; recovery and E4 then refuse, and the sync that would
save it is blocked, until the SEP restarts.
A no-change proof keeps the
identity of a journal whose save was discarded, and the journal then waits for an
E4 that cannot come. `VerifyStop` and `EnrollStop` cancel the claim's expiry before
they fail with `NoActionInProgress` (`t2-fprintd.py` 924 and 1071; the comment at
1030 says a failed call must not leave an immortal claim).

### Fairness

`CatacombStore!FairSpec`: weak fairness of the roll forward and of recovery. The
process that has begun either keeps running unless it stops, and an operator
repeats recovery until nothing is left; `RecoveryTerminates` excludes a torn
staged file, which `discard_prepare` refuses for ever. `Enrollment!FairSpec`:
weak fairness of the running command, of the SEP ending a scan (it times out, and
the operation polls with a timeout), and of the boot-time verification service.
Starting, cancelling, recovering, losing replies and crashing are not fair.
`IdentityManagement!FairSpec`: weak fairness of the running command alone.
`UserAccess!Fairness`: weak fairness of each process. `flock` gives the lock to a
process that waits (at most two contend here), polkit answers or times out, and a
check that does not hold raises. `MutationJournal!FairSpec`: weak fairness of a
process that has begun an append. `SepTransport!FairSpec`: weak fairness of the host
as a whole, driver and processes together; the enclave owes nothing, since every wait
of the driver has a timeout. `Fprintd!Fairness`: the event loop runs what is due, processes end, timers fire, the
bus reports a lost name, and an enrollment worker that was told to stop does.
Clients owe nothing: they may call, leave or stay silent.

## 4. Proofs

`CatacombStoreProofs` proves, for every set of names and all bounds, under
`~Reorder`: `StoreTypeCorrect`, `StoreBatchAtomic` and `StoreCommitRecoverable`
(`Spec => []TypeOK`, `[]BatchAtomic`, `[]CommitRecoverable`). The assumptions
are the ones named in `CatacombStore`: names are integers (their order is the
`sorted()` of the code) and the bounds are natural numbers.

`BatchAtomic` is not inductive: it speaks of what recovery would find, and says
nothing about why an incomplete `prepare/` may be discarded. `StoreInv` adds
`Shapes`, that every tree in `disk` or `fs` is one of four shapes (unchanged, prepared, crossed,
replaced); `NewGeneration`, that the staged generation is newer than anything in
the base; `NothingLeft`, that a process between transactions has a clean tree on
every disk; and `Position`, what each value of `pc` knows of `fs` and `disk`
(for example that `roll` is reached only with a valid `commit/`). The proof has
one lemma per group of actions; `ShapesSuffice` derives the properties.

`StoreOnlyTornIsRefused` (`Spec => []OnlyTornIsRefused`, also under `~Reorder`) covers
what `CatacombPowerProofs` cannot, any number of process stops. It needs `Staged`
besides `StoreInv`: on every tree that has a `prepare/`, a name whose hash was returned
is either the staged generation or gone, because a discard has begun (`Keeps`); it is
there as long as staging goes on, and the name that is being written is not one of them.

`MutationJournalProofs` proves, for every set of processes, every way to cut a line
and all bounds, `JournalDecided` and `JournalAcknowledged` (`Spec =>
[]DecidedOnHistory` and `Spec => []AcknowledgedIntact`). The assumptions are those of
`MutationJournal`: a line that is cut is a part of it or lacks its newline, and the
bounds are natural numbers. Neither property is inductive. `JournalInv` adds
`SyncedPrefix`, that the synced lines begin the file and may since only have been
joined; `Exclusive` and `Writing`, that the holder of the lock alone is past its
checks, and what it knows there (every acknowledged record is on a whole, synced line
and is smaller than its own, so a joined line is the last); `Numbered`, that a
process has a larger number than every record it has seen; and `Named`, that an
acknowledged record is in a file whose name is durable. There is one lemma per
action; `RemainsShape` says what a power loss leaves.

The refinement. `StoreRefinement` (`CatacombStoreProofs`) shows that under `~Reorder`
the store implements `AtomicStore`: a staged batch is invisible, and becomes the root
in one step, the rename of `prepare/` to `commit/`. Every other call of a transaction or
a recovery is a stutter or, for an fsync, a `Harden`. `Known` is what that needs beyond
`StoreInv`: the tree the process sees is one a power loss may leave, and as long as it
has not crossed no tree on the disk has.

Power losses without order. `CatacombPowerProofs` proves `PowerBatchAtomic`,
`PowerCommitRecoverable`, `PowerOnlyTornIsRefused` and `PowerReadIsDurable` for either
value of `Reorder`, with `MaxCrash = 0`: power may be lost at any point and any number of
times, but a process does not stop by itself. The hypothesis is needed: a process that
stops before it has synced the boundary is followed by a recovery that unlinks old
components over a rename that is not durable (the observations in section 3). With it, `PowerInv` says for each `pc` what every tree
that a power loss may leave looks like (`TreeAt`) and what the process itself sees
(`VisibleAt`): after an fsync the two are the same, and between two fsyncs they differ in
the few calls made since, in any combination.

User access. `UserAccessProofs` proves `BrokerAuthorityStable`,
`MappingAcknowledgedIsDurable`, `BrokerMaterialIsReconciled` and
`MappingEnabledOnEvidence` for every number of processes, users, commands, stops and
changes outside. The argument is the two locks: what a process has read under the
mapping lock changes only by itself until it releases it, and the Catacomb changes
only under the operation lock. The invariant is one predicate per process (`Good`:
where it may be, which locks it holds there, what it has read, what it is about to
publish, what it has seen of the Catacomb), so that a step has to be checked against
the process that takes it and against one other. Proving `EnabledOnEvidence` showed
that the model's readiness check looked at one capability where `_require_ready` goes through all
of the mapping's; the model now does too.

The mailbox. `SepTransportProofs` proves `SepOwnReply`, `SepContextAccounted` and
`SepConsumerAuthorized` for any processes, sessions, transaction numbers and skipped
replies. None is inductive. The invariant says in which order the messages of an
endpoint can be (`Mail`), and what is outstanding on ACM: nothing between exchanges of
an endpoint that is not poisoned (`Quiet`), and during one its request or its only
reply, whose `Outcome` ties the reply to what the enclave holds by then (`Waiting`).
For AKS, `Round` shows that two requests with the same number are a whole round of the
counter apart. The assumptions are those of `SepTransport`: the processes are distinct
from the driver, and the counter has at least one number. Writing the proof showed
that two guards of `ReplyAction` overlapped for an error reply to a create, which TLC
resolves by the order of the cases; they are now disjoint.

The daemon. `FprintdProofs` proves `FprintdOperationBound`, `FprintdOneOperation` and
`FprintdFingerNeeded` for any clients, any number
of outstanding calls and any number of timers, under one hypothesis, `~LateSuccess`: a
process that `T2Backend.cancel` sent SIGTERM to does not report success. The code does
not guarantee it; the run `late_projection` shows what happens without it. What runs is what the
device refers to only because of what each suspended task may rely on when it resumes, and that
is the rest of the invariant `Inv`: `Stopping` (a stopper that has read `verify_task`
cancels whatever runs, one that has joined finds nothing), `Holding` (a deletion keeps
its reference, a `Claim` past its first wait keeps `claim_lock`), `Timing` (a grace
timer belongs to an operation that has ended), `Queueing` (who holds and who waits for the
operation lock) and `Ahead`. The last is there for `FingerNeeded`: an `EnrollStart`
whose projection fails resets finger-needed whatever runs by then, and this is harmless
because it queued before the `VerifyStart` on record, whose verification therefore has
not begun. There is one lemma per action, each with one step per part of `Inv`. For the
proof the model numbers a new operation with any free number instead of the least, and
has a guard that one is free (`FreshOps`, `FreshWorkers`); the reachable states are the
same.

Enrollment. `EnrollmentProofs` proves `EnrollmentOneUnfinished`,
`EnrollmentPendingSnapshotHolds`, `EnrollmentDisagreementBlocks`,
`EnrollmentConfirmedIsDurable`, `EnrollmentNoReplay` and the action property
`EnrollmentRecoveryFollowsJournal`, for any number of enrollments, boots, events and
identities. The first three rest on `Inv`, which says which operation may have a command
(`Alone`: the open one, or a baseline that is not open yet), where that command stands
(`Command`), who may still change the SEP (`Scan`: a scan is under way only while the
one open journal is in a phase that expects it, also when its command was killed), and
what follows when no journal blocks (`Agreeing`). `ConfirmedIsDurable` and
`RecoveryFollowsJournal` need `SaveInv`, which adds the save: the tracker's shape (`Tracker`: the journaled hashes are those of the
components staged so far, only the user component is confirmed early, only a whole batch
is committed), what `prepare/` or `commit/` holds at each place of the command
(`Shelved`), that a local recovery has journaled the direction of the directory that is
still there (`Directed`), that a journaled commit is of the files that are there, also
after its command was killed (`Commits`), and what the command knows of the SEP's
identities (`Knows`: the baseline's and the one of this operation, which is in the host
root once the first batch has crossed). `StepInv` and `StepSaved` hold the argument for
every step that writes a record; the lemmas on the milestones (`ScanMilestones`,
`SaveMilestones`, `MoveTracks`, `ConfirmTracks`, `FinalTracks`, ...) say what each record
makes of a history or of a tracker. `NoReplay` is about a history variable, so an
invariant has to say what the journal knows of it: `ReplayInv` has every command that was
sent behind the journal's place (`Past`): a start behind the first phases, a continue up
to the last event that the journal has continued, a cancel behind its intent, and the
commands of the save behind the component and the phase of the tracker. While the command
stands at "send" the one it is about to send is not behind it yet. Every record moves the
place onward (`Onward`), and no recovery leads back to "send". The three invariants were
checked by TLC on the two instances first.

Mutations. `IdentityProofs` proves `IdentityDeletedOnce`, `IdentityCleanMeansSaved`,
`IdentityDisagreementBlocks`, `IdentityUpdateKept` and the action properties
`IdentityClosedTruthfully` and `IdentityRecoveryFollowsJournal`, for any number of
mutations, boots, matches and recoveries. The first rests on `Once`: no delete command has been sent before the intent to send it is
journaled, nor while the command that journaled it stands at "send", and no record of a
deletion leads back there; a forward save starts from `SEP_DELETED`. The next two need the
whole way of a deletion. `Ids(c)` names the one operation `c` that may be open (`Sole`);
without one, and during a rename or a sync, both sides have the same identities; during a
deletion each side has the baseline's or the survivors, and if only the SEP has deleted it
still wants saving (`Sides`). The final confirm, which ends that, is safe because of
`SavingFine`: the survivors are staged before the boundary and in the root after it, at
every place of a save by this process. `Tracked` ties the tracker's phase to the directory
that must be there, so that nothing is staged outside a transaction and a new mutation
starts with an empty `pend`. `Ids` was checked by TLC on instances with two mutations of
each pair of kinds. The proof attempt for an earlier, stronger property, that the host has
the SEP's adaptive update unless a journal blocks, led to the history of two renames in
section 3; TLC confirmed it, the properties now say what the code does (`UpdateKept`,
`Kept`), and the run has two mutations.

`UpdateKept` and the two action properties rest on `WellInv`, which adds `WellFor(c)` for
the same one open operation. Adaptive updates are numbered as matches are, and `Ages`, `SavesWell` and
`SyncsWell` say which of the SEP, the root and the staged file has the later one at each
place of a save: a file that this process has staged holds the SEP's update, because no
match runs meanwhile, and one that a recovery rolls forward is no older than the root
unless the root is the baseline's. `Held` says that the host has what the SEP believes
saved; the one exception, `Lagging`, is a sync between its early confirm and the host
commit, whose journal blocks and, without a journaled host commit, is taken up by no
recovery. A mutation is closed truthfully because `Untouched` names the histories under
which the root is still the baseline's (nothing planned or staged yet, or no delete command
saved), `Contents` keeps labels to renames and identities to deletions, and `Settled` keeps
what the read-back saw until it is recorded. Files follow the journal because of `Stands`:
a recovery at `prepare/` has journaled that it discards, one at `commit/` has the commit
intent of the very file, and a promotion comes from `commit/` alone. TLC checked `WellFor`
on the instance of `IdentityManagement_mutations` and on one with two matches.

Only model-checked: liveness (`CommandEnds` and the other leads-to properties: the prover
has no fairness), and `BoundaryIsDurable`, which holds only where no process stops. The store with process stops and `Reorder` together is in neither, because the observation in
section 3 is about it. `TypeOK` of `Fprintd`, `Enrollment` and `IdentityManagement` states
the types and the bounds of the queues; TLC finds it true on the instances of their runs,
which do not list it.

## 5. Plan

Done in the order of importance; each later module reuses the ones before it.

1. Done: the store, the journals and their file, enrollment, rename, deletion and
   sync, the daemon, user access, the SEP transport.
2. `UserActivation`: the journaled unlocking of a keybag alias, which begins where the
   broker's `activate` authority ends, and its recovery.
3. External deletion as a fourth kind of `IdentityManagement`, and the registry across
   enrollment and these kinds.
4. The workers' launchers and socket protocol; the bridge lease.
5. Proofs: done for every safety invariant and action property that the passing runs
   check but `BoundaryIsDurable`, and for the refinement; each new kind or component brings its own, with one
   more case in the invariants of the modules that it extends.

## 6. Not modelled

Byte formats have no control state and are better served by tests with fixtures:
`t2_catacomb_codec.py`, `bridge-xpc-probe.py`'s parsing, `t2-aks-tool.c`'s encoding,
the wire encodings of the broker and the workers. Diagnostics only read. The
installation, boot and PAM scripts run once, in an order that systemd fixes. The
one-time provisioning of a store, the read-only preflight gates, the unbinding of the
driver, and the post-reboot material of the live session are left out of the modules
that otherwise cover their components; `PROJECT.json` says so for each.
