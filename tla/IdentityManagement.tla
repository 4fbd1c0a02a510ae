------------------------- MODULE IdentityManagement -------------------------
(***************************************************************************)
(* t2-touchid-manage: renaming a label, deleting one identity, saving an   *)
(* adaptive template update, recovering each of them when it stopped, and  *)
(* verifying a rename or a deletion after a reboot.                        *)
(*                                                                         *)
(* One command runs at a time: it holds the operation lock, as a match     *)
(* does.  A process may stop between any two steps, a command's reply may  *)
(* be lost and its status proves nothing, a file operation may fail, the   *)
(* machine may reboot, and a reboot may also restart the SEP.              *)
(*                                                                         *)
(* External: the SEP.  It keeps the identities, whether a component wants  *)
(* saving, and the latest adaptive update of the templates, which a match  *)
(* may make.  Restarted, it holds what the host had committed.             *)
(***************************************************************************)
EXTENDS IdentityJournals

CONSTANTS
    Kinds,       \* the commands that are used, of rename, delete and sync
    Identities,  \* the identities enrolled at the beginning
    MaxOps,      \* bound: mutations begun, a deletion counting twice
    MaxBoot,     \* bound: boots
    MaxMatch,    \* bound: matches that adapt a template
    MaxExports   \* bound: files made before a recovery saves once more

ASSUME ManagementAssumption ==
    /\ Kinds \subseteq {"rename", "delete", "sync"}
    /\ IsFiniteSet(Identities) /\ Identities # {}
    /\ MaxOps \in Nat /\ MaxBoot \in Nat \ {0} /\ MaxMatch \in Nat /\ MaxExports \in Nat

VARIABLES
    jr,          \* the journals, in the order of their operations
    proc,        \* the running command: its operation and where it stands
    host,        \* the committed root of the host store
    pend,        \* prepare/ or commit/ of the host store
    sep,         \* the SEP
    boot,        \* the number of this Linux boot
    matches,     \* the adaptive updates so far
    exports,     \* the files made so far: every one has another hash
    dispatched   \* history: how often each operation sent its delete command

vars == <<jr, proc, host, pend, sep, boot, matches, exports, dispatched>>
store == <<host, pend, exports>>
outside == <<boot, matches>>

Idle == [cmd |-> "none", op |-> 0, at |-> "none"]
NoPending == [dir |-> "none", user |-> NoFile, master |-> 0, torn |-> FALSE]
Prepare == [NoPending EXCEPT !.dir = "prepare"]

hist == jr[proc.op]
saved == hist.persistence

(* The Catacomb hash of the SEP. *)
Hash == <<sep.ids, sep.adapted>>

-----------------------------------------------------------------------------
(* The registry of mutation journals. *)

(* Mutant: an ambiguous outcome does not block. *)
MutComplete(kind) ==
    CASE kind = "rename" -> {"ABORTED", "POST_REBOOT_VERIFIED", "OUTCOME_UNKNOWN"}
      [] kind = "delete" -> {"BASELINE", "ABORTED", "POST_REBOOT_VERIFIED", "OUTCOME_UNKNOWN"}
      [] kind = "sync" -> {"RECONCILED", "ABORTED", "OUTCOME_UNKNOWN"}

Complete(kind) ==
    CASE kind = "rename" -> {"ABORTED", "POST_REBOOT_VERIFIED"}
      [] kind = "delete" -> {"BASELINE", "ABORTED", "POST_REBOOT_VERIFIED"}
      [] kind = "sync" -> {"RECONCILED", "ABORTED"}

Blocks(h) == h.phase \notin Complete(h.kind)
Blocking == {o \in DOMAIN jr : Blocks(jr[o])}

-----------------------------------------------------------------------------
(* Steps of the running process. *)

At(kind, phase, at) ==
    /\ proc.cmd # "none"
    /\ hist.kind = kind /\ hist.phase = phase
    /\ proc.at = at

Saving(phase, at) ==
    /\ proc.cmd # "none"
    /\ hist.kind \in DOMAIN SaveStarts
    /\ hist.phase \in {SaveStarts[hist.kind], "PERSISTING"}
    /\ saved.phase = phase
    /\ proc.at = at

(* append_checked: the record is written if the journal accepts it. *)
Journal(H) == \E h \in H : jr' = [jr EXCEPT ![proc.op] = h]
Goto(at) == proc' = [proc EXCEPT !.at = at]
Exit == proc' = Idle

Record(H, at) ==
    /\ Journal(H)
    /\ Goto(at)
    /\ UNCHANGED <<store, sep, outside, dispatched>>

RecordAndExit(H) ==
    /\ Journal(H)
    /\ Exit
    /\ UNCHANGED <<store, sep, outside, dispatched>>

(* A step on the files alone. *)
OnFiles(at) == Goto(at) /\ UNCHANGED <<jr, sep, outside, dispatched>>

(* A command to the SEP.  The reply may be lost before or after it acts. *)
Dispatch(sepAfter) ==
    /\ \/ sep' = sepAfter /\ \E at \in {"ok", "lost"} : Goto(at)
       \/ UNCHANGED sep /\ Goto("lost")
    /\ UNCHANGED <<jr, store, outside, dispatched>>

-----------------------------------------------------------------------------
(* run_rename, run_delete and run_user_catacomb_sync: the baseline. *)

(* summarize: the archive and the SEP hold the same identities. *)
Summarized == sep.ids = host.user.ids

(* What counts towards the bound: a deletion, which has most states, twice. *)
Cost(kind) == IF kind = "delete" THEN 2 ELSE 1
Begun == Len(jr) + Cardinality({o \in DOMAIN jr : jr[o].kind = "delete"})

(* No mutation and no local transaction is open, and a baseline is written. *)
Begin(kind) ==
    /\ kind \in Kinds
    /\ proc = Idle
    /\ Begun + Cost(kind) <= MaxOps
    /\ Blocking = {}
    /\ pend.dir = "none"
    /\ Summarized
    /\ jr' = Append(jr, Opened(kind, boot, host, Hash))
    /\ proc' = [cmd |-> "run", op |-> Len(jr) + 1, at |-> "run"]
    /\ dispatched' = Append(dispatched, 0)
    /\ UNCHANGED <<store, sep, outside>>

BeginRename == Begin("rename")

(* One identity must remain. *)
BeginDelete == Begin("delete") /\ Cardinality(sep.ids) > 1

(* The user component wants saving and nothing else does. *)
BeginCatacombSync == Begin("sync") /\ sep.dirty = {"user"}

IntendRename == At("rename", "BASELINE", "run") /\ Record(RenameIntent(hist), "run")

IntendDeletion ==
    /\ At("delete", "BASELINE", "run")
    /\ \E id \in host.user.ids : Record(DeleteIntent(hist, id), "run")

IntendSync == At("sync", "BASELINE", "run") /\ Record(SyncIntent(hist), "begin")

-----------------------------------------------------------------------------
(* t2_identity_delete_operation.run *)

IntendDelete == At("delete", "INTENT", "run") /\ Record(DispatchIntent(hist), "send")

Erased == [sep EXCEPT !.ids = @ \ {hist.target}, !.dirty = @ \cup {"user"}]

(* Whether it deletes and what it replies are unrelated. *)
DispatchDelete ==
    /\ At("delete", "DISPATCH_INTENT", "send")
    /\ sep' \in {sep, Erased}
    /\ \E reply \in {"ok", "refused", "lost"} : Goto(reply)
    /\ dispatched' = [dispatched EXCEPT ![proc.op] = @ + 1]
    /\ UNCHANGED <<jr, store, outside>>

ObserveDelete ==
    \E reply \in {"ok", "refused"} :
        /\ At("delete", "DISPATCH_INTENT", reply)
        /\ Record(CommandObserved(hist, reply), "run")

Survivors(h) == h.base.user.ids \ {h.target}

AdoptAbsence ==
    /\ At("delete", "COMMAND_OBSERVED", "run")
    /\ sep.ids = Survivors(hist)
    /\ Record(SepAbsenceObserved(hist), "run")

ConcludeNotPerformed ==
    /\ At("delete", "COMMAND_OBSERVED", "run")
    /\ sep.ids = hist.base.user.ids
    /\ Hash = hist.hash
    /\ RecordAndExit(NotPerformed(hist))

(* _freeze: no reply, no inventory, or an inventory that proves neither. *)
FreezeDelete ==
    /\ \/ At("delete", "DISPATCH_INTENT", "lost")
       \/ At("delete", "COMMAND_OBSERVED", "run")
    /\ RecordAndExit(DeleteOutcomeUnknown(hist))

-----------------------------------------------------------------------------
(* The save of the user component, for a rename or a deletion. *)

PlanPersistence ==
    /\ Saving("NOT_STARTED", "run")
    /\ Record(Saved(hist, Plan(saved, MetadataPlan), hist.file), "begin")

BeginStage ==
    /\ Saving("COMPONENT_READY", "begin")
    /\ pend.dir = "none"
    /\ pend' = Prepare
    /\ OnFiles("run")
    /\ UNCHANGED <<host, exports>>

(* begin_stage failed, perhaps after it had made the directory.  A rename   *)
(* is aborted, as nothing was sent to the SEP.                              *)
FailBeginStage(kind, H) ==
    /\ Saving("COMPONENT_READY", "begin")
    /\ hist.kind = kind
    /\ pend' \in {pend, Prepare}
    /\ Journal(H)
    /\ Exit
    /\ UNCHANGED <<host, exports, sep, outside, dispatched>>

AbortRename == FailBeginStage("rename", RenameAborted(hist))
FailDeleteStage == FailBeginStage("delete", DeleteOutcomeUnknown(hist))

SaveStep(T, at) == Record(Saved(hist, T, hist.file), at)

IntendPrepare   == Saving("COMPONENT_READY", "run") /\ SaveStep(PrepareIntent(saved), "send")
DispatchPrepare == Saving("PREPARE_INTENT", "send") /\ Dispatch(sep)
ObservePrepare  == Saving("PREPARE_INTENT", "ok") /\ SaveStep(Prepared(saved), "run")
IntendComplete  == Saving("PREPARED", "run") /\ SaveStep(CompleteIntent(saved), "send")
DispatchComplete == Saving("COMPLETE_INTENT", "send") /\ Dispatch(sep)
CaptureBlob     == Saving("COMPLETE_INTENT", "ok") /\ SaveStep(BlobCaptured(saved), "run")

(* bind_secure_blob, or replace_secure_data: the planned identities and     *)
(* labels around the SEP's templates.                                       *)
Encoded ==
    [ver |-> exports + 1,
     ids |-> IF hist.kind = "delete" THEN host.user.ids \ {hist.target} ELSE host.user.ids,
     label |-> IF hist.kind = "rename" THEN proc.op ELSE host.user.label,
     adapted |-> sep.adapted]

(* stage_component: the file exists before all its bytes are durable. *)
CreateStaged ==
    /\ Saving("SECURE_BLOB_CAPTURED", "run")
    /\ pend' = [pend EXCEPT !.torn = TRUE]
    /\ OnFiles("staging")
    /\ UNCHANGED <<host, exports>>

StageComponent ==
    /\ Saving("SECURE_BLOB_CAPTURED", "staging")
    /\ pend' = [pend EXCEPT !.torn = FALSE, !.user = Encoded]
    /\ exports' = exports + 1
    /\ OnFiles("staged")
    /\ UNCHANGED host

RecordStaged ==
    /\ Saving("SECURE_BLOB_CAPTURED", "staged")
    /\ Record(Saved(hist, HostStaged(saved), pend.user), "run")

IntendCommit == Saving("HOST_STAGED", "run") /\ SaveStep(CommitIntent(saved), "cross")

(* cross_commit_boundary: the rename, then the promotion of the files. *)
CrossBoundary ==
    /\ Saving("BATCH_COMMIT_INTENT", "cross")
    /\ pend' = [pend EXCEPT !.dir = "commit"]
    /\ OnFiles("promote")
    /\ UNCHANGED <<host, exports>>

Promoted ==
    [user |-> IF pend.user = NoFile THEN host.user ELSE pend.user,
     master |-> IF pend.master = 0 THEN host.master ELSE pend.master]

(* Mutant: commit/ is emptied and its file is not moved to the root. *)
MutRollForward ==
    /\ Saving("BATCH_COMMIT_INTENT", "promote")
    /\ pend' = NoPending
    /\ OnFiles("crossed")
    /\ UNCHANGED <<host, exports>>

RollForward ==
    /\ Saving("BATCH_COMMIT_INTENT", "promote")
    /\ host' = Promoted
    /\ pend' = NoPending
    /\ OnFiles("crossed")
    /\ UNCHANGED exports

RecordCommitted == Saving("BATCH_COMMIT_INTENT", "crossed") /\ SaveStep(Committed(saved), "run")
IntendFinalConfirm ==
    Saving("BATCH_COMMITTED", "run") /\ SaveStep(FinalConfirmIntent(saved), "send")

Cleaned(component) == [sep EXCEPT !.dirty = @ \ {component}]

DispatchFinalConfirm == Saving("FINAL_CONFIRM_INTENT", "send") /\ Dispatch(Cleaned("user"))
ObserveFinalConfirm ==
    Saving("FINAL_CONFIRM_INTENT", "ok") /\ SaveStep(FinalConfirmed(saved), "run")

(* The root holds the journaled file and is otherwise as in the baseline. *)
CommittedRoot(h) ==
    /\ StagedUser(h)
    /\ host = [h.base EXCEPT !.user = h.file]

Target(h) == IF h.kind = "delete" THEN Survivors(h) ELSE h.base.user.ids

(* The read-back that follows the final confirm. *)
Attest(kind) ==
    /\ Saving("ATTESTATION_READY", "run")
    /\ hist.kind = kind
    /\ CommittedRoot(hist) /\ host.user # hist.base.user
    /\ Summarized /\ sep.ids = Target(hist)
    /\ sep.dirty = {}
    /\ SaveStep(Attested(saved), "run")

AttestRename == Attest("rename") /\ host.user.label = proc.op
AttestDelete == Attest("delete")

ReconcileRename ==
    At("rename", "PERSISTENCE_READY", "run") /\ RecordAndExit(RenameReconciled(hist))
ReconcileDelete ==
    At("delete", "PERSISTENCE_READY", "run") /\ RecordAndExit(DeleteReconciled(hist))

(* _freeze: the intent was journaled, and its command or file operation may *)
(* have failed halfway.                                                     *)
FreezeSave ==
    LET Frozen(stage, possible) ==
            RecordAndExit(Saved(hist, Freeze(saved, stage, possible), hist.file))
    IN  \/ \E at \in {"ok", "lost"} : Saving("PREPARE_INTENT", at) /\ Frozen("prepare", FALSE)
        \/ \E at \in {"ok", "lost"} : Saving("COMPLETE_INTENT", at) /\ Frozen("complete", FALSE)
        \/ Saving("SECURE_BLOB_CAPTURED", "run") /\ Frozen("encode", FALSE)
        \/ \E at \in {"run", "staging", "staged"} :
              Saving("SECURE_BLOB_CAPTURED", at) /\ Frozen("host-stage", FALSE)
        \/ \E at \in {"cross", "promote", "crossed"} :
              Saving("BATCH_COMMIT_INTENT", at) /\ Frozen("host-commit", TRUE)
        \/ \E at \in {"ok", "lost"} :
              Saving("FINAL_CONFIRM_INTENT", at) /\ Frozen("final-confirm", TRUE)
        \/ Saving("ATTESTATION_READY", "run") /\ Frozen("readback", TRUE)

-----------------------------------------------------------------------------
(* run_user_catacomb_sync: the user component, then master.  The journal    *)
(* only has the intent and the host commit; at says where the loop stands.  *)

BeginSync ==
    /\ At("sync", "INTENT", "begin")
    /\ pend' = Prepare
    /\ OnFiles("export")
    /\ UNCHANGED <<host, exports>>

FailBeginSync ==
    /\ At("sync", "INTENT", "begin")
    /\ pend' \in {pend, Prepare}
    /\ Journal(IF hist.attempted THEN SyncOutcomeUnknown(hist) ELSE SyncAborted(hist))
    /\ Exit
    /\ UNCHANGED <<host, exports, sep, outside, dispatched>>

(* prepare and complete have replied, and the file is being written. *)
ExportSync ==
    /\ At("sync", "INTENT", "export")
    /\ pend' = [pend EXCEPT !.torn = TRUE]
    /\ OnFiles("staging")
    /\ UNCHANGED <<host, exports>>

StageSync ==
    /\ At("sync", "INTENT", "staging")
    /\ IF pend.user = NoFile
       THEN pend' = [pend EXCEPT !.torn = FALSE, !.user = Encoded] /\ OnFiles("confirm")
       ELSE pend' = [pend EXCEPT !.torn = FALSE, !.master = exports + 1] /\ OnFiles("cross")
    /\ exports' = exports + 1
    /\ UNCHANGED host

(* The early confirm of the user component, before the host commits it. *)
ConfirmSyncUser == At("sync", "INTENT", "confirm") /\ Dispatch(Cleaned("user"))
NextSyncComponent == At("sync", "INTENT", "ok") /\ OnFiles("export") /\ UNCHANGED store

CrossSync ==
    /\ At("sync", "INTENT", "cross")
    /\ pend' = [pend EXCEPT !.dir = "commit"]
    /\ OnFiles("promote")
    /\ UNCHANGED <<host, exports>>

PromoteSync ==
    /\ At("sync", "INTENT", "promote")
    /\ host' = Promoted
    /\ pend' = NoPending
    /\ OnFiles("crossed")
    /\ UNCHANGED exports

RecordSyncCommitted ==
    At("sync", "INTENT", "crossed") /\ Record(SyncHostCommitted(hist, host), "confirm")

ConfirmSyncMaster == At("sync", "HOST_COMMITTED", "confirm") /\ Dispatch(Cleaned("master"))

ReconcileSync ==
    /\ At("sync", "HOST_COMMITTED", "ok")
    /\ sep.dirty = {} /\ Summarized
    /\ RecordAndExit(SyncReconciled(hist, host))

(* The handler of every exception after begin_stage. *)
FreezeSync ==
    /\ \/ \E at \in {"export", "staging", "confirm", "ok", "lost", "cross", "promote", "crossed"} :
             At("sync", "INTENT", at)
       \/ \E at \in {"confirm", "ok", "lost"} : At("sync", "HOST_COMMITTED", at)
    /\ RecordAndExit(SyncOutcomeUnknown(hist))

-----------------------------------------------------------------------------
(* run_recovery and run_delete_recovery. *)

Interrupted(kind) ==
    {o \in DOMAIN jr :
        /\ jr[o].kind = kind
        /\ jr[o].phase \in
              CASE kind = "rename" ->
                       {"INTENT", "PERSISTING", "PERSISTENCE_READY", "OUTCOME_UNKNOWN"}
                [] kind = "delete" -> InterruptedDelete
                [] kind = "sync" -> {"OUTCOME_UNKNOWN"}}

ObservedAction ==
    CASE pend.dir = "prepare" -> "prepare-discarded"
      [] pend.dir = "commit" -> "commit-rolled-forward"
      [] OTHER -> "no-local-transaction"

(* A direction is journaled once, or again when a forward save has frozen   *)
(* with a local transaction.                                                *)
NeedsIntent(h) ==
    \/ h.action = "none"
    \/ /\ h.kind = "delete" /\ h.phase = "OUTCOME_UNKNOWN"
       /\ h.forward /\ pend.dir # "none"

(* run_recovery and run_delete_recovery up to the files: the sole           *)
(* interrupted journal of the kind, the legal directions, and the intent I. *)
RecoverLocal(kind, o, I) ==
    /\ proc = Idle
    /\ jr[o].kind = kind
    /\ Interrupted(kind) = {o}
    /\ pend.dir # "none" => jr[o].persistence.batch # 0
    /\ pend.dir = "commit" =>
          StagedUser(jr[o]) /\ jr[o].persistence.phase = "BATCH_COMMIT_INTENT"
    /\ IF NeedsIntent(jr[o])
       THEN \E h \in I : jr' = [jr EXCEPT ![o] = h]
       ELSE /\ ObservedAction \in {jr[o].action, "no-local-transaction"}
            /\ UNCHANGED jr
    /\ proc' = [cmd |-> "recover", op |-> o, at |-> "local"]
    /\ UNCHANGED <<store, sep, outside, dispatched>>

RecoverRename ==
    \E o \in DOMAIN jr :
        RecoverLocal("rename", o, RenameRecoveryIntent(jr[o], ObservedAction))

(* Mutant: the files are touched before the direction is journaled. *)
MutRecoverDelete ==
    \E o \in DOMAIN jr :
        /\ proc = Idle
        /\ jr[o].kind = "delete"
        /\ Interrupted("delete") = {o}
        /\ proc' = [cmd |-> "recover", op |-> o, at |-> "local"]
        /\ UNCHANGED <<jr, store, sep, outside, dispatched>>

RecoverDelete ==
    \E o \in DOMAIN jr :
        RecoverLocal("delete", o, DeleteRecoveryIntent(jr[o], ObservedAction, boot))

(* discard_prepare refuses a file that is torn or is not the journaled one. *)
DiscardLocal ==
    /\ proc.at = "local"
    /\ pend.dir = "prepare"
    /\ ~pend.torn
    /\ StagedUser(hist) => pend.user = hist.file
    /\ pend' = NoPending
    /\ OnFiles("inspect")
    /\ UNCHANGED <<host, exports>>

RollLocalForward ==
    /\ proc.at = "local"
    /\ pend.dir = "commit"
    /\ pend.user = hist.file
    /\ host' = Promoted
    /\ pend' = NoPending
    /\ OnFiles("inspect")
    /\ UNCHANGED exports

NothingLocal ==
    /\ proc.at = "local"
    /\ pend.dir = "none"
    /\ OnFiles("inspect")
    /\ UNCHANGED store

Unchanged(h) ==
    /\ host = h.base /\ Hash = h.hash
    /\ sep.ids = h.base.user.ids
    /\ sep.dirty = {}
    /\ h.action # "commit-rolled-forward"

(* The save's file is there, and the direction does not contradict it. *)
Persisted(h) ==
    /\ CommittedRoot(h)
    /\ Summarized /\ sep.ids = Target(h)
    /\ h.action # "prepare-discarded" \/ h.forward

Inspecting(kind) == At(kind, "OUTCOME_UNKNOWN", "inspect")

(* Mutant: a recovery takes a clean SEP for an unchanged one. *)
MutConcludeRename ==
    /\ Inspecting("rename")
    /\ sep.dirty = {}
    /\ RecordAndExit(RenameRecovered(hist, FALSE))

ConcludeRename ==
    /\ Inspecting("rename")
    /\ \/ Unchanged(hist) /\ RecordAndExit(RenameRecovered(hist, FALSE))
       \/ /\ Persisted(hist) /\ sep.dirty = {} /\ host.user.label = proc.op
          /\ RecordAndExit(RenameRecovered(hist, TRUE))

ConcludeDelete ==
    /\ Inspecting("delete")
    /\ \/ Unchanged(hist) /\ RecordAndExit(DeleteRecovered(hist, FALSE))
       \/ Persisted(hist) /\ sep.dirty = {} /\ RecordAndExit(DeleteRecovered(hist, TRUE))

(* The SEP has deleted and its save is missing, or not confirmed: the save  *)
(* runs again on this connection.                                           *)
SaveForward ==
    /\ Inspecting("delete")
    /\ exports < MaxExports
    /\ sep.dirty = {"user"}
    /\ \/ /\ host = hist.base /\ sep.ids = Survivors(hist)
          /\ Record(RecoveryAbsenceObserved(hist, "baseline"), "run")
       \/ /\ Persisted(hist)
          /\ Record(RecoveryAbsenceObserved(hist, "survivors"), "run")

(* The files or the fresh inventory are refused, or there is no connection. *)
RefuseRecovery ==
    /\ proc.at \in {"local", "inspect"}
    /\ Exit
    /\ UNCHANGED <<jr, store, sep, outside, dispatched>>

(* recover-catacomb-sync *)
RecoverSync ==
    \E o \in DOMAIN jr :
        /\ proc = Idle
        /\ jr[o].kind = "sync"
        /\ Interrupted("sync") = {o}
        /\ pend.dir = "none"
        /\ Summarized
        /\ \/ /\ sep.dirty = {}
              /\ \E h \in SyncRecoveredClean(jr[o], host) : jr' = [jr EXCEPT ![o] = h]
              /\ UNCHANGED proc
           \/ /\ sep.dirty = {"user"}
              /\ exports < MaxExports
              /\ \E h \in SyncRecoveryIntent(jr[o], host) : jr' = [jr EXCEPT ![o] = h]
              /\ proc' = [cmd |-> "recover", op |-> o, at |-> "begin"]
        /\ UNCHANGED <<store, sep, outside, dispatched>>

-----------------------------------------------------------------------------
(* verify-post-reboot, verify-delete-post-reboot, and the boot-time service. *)

AwaitingReboot(kind) == {o \in DOMAIN jr : jr[o].kind = kind /\ jr[o].phase = "RECONCILED"}

(* verify_post_reboot: what was committed has survived. *)
Preserved(h) ==
    /\ pend.dir = "none"
    /\ CommittedRoot(h)
    /\ Summarized /\ sep.ids = Target(h)
    /\ sep.dirty = {}

ProvePostReboot(o, H) ==
    /\ Preserved(jr[o])
    /\ \E h \in H : jr' = [jr EXCEPT ![o] = h]
    /\ UNCHANGED <<proc, store, sep, outside, dispatched>>

VerifyRename ==
    /\ proc = Idle
    /\ \E o \in AwaitingReboot("rename") :
          /\ AwaitingReboot("rename") = {o}
          /\ ProvePostReboot(o, RenameVerified(jr[o], boot))

VerifyDelete ==
    /\ proc = Idle
    /\ \E o \in AwaitingReboot("delete") :
          /\ AwaitingReboot("delete") = {o}
          /\ ProvePostReboot(o, DeleteVerified(jr[o], boot))

(* _pending_candidate: the only journal that waits, and that blocks. *)
Candidates == AwaitingReboot("rename") \cup AwaitingReboot("delete")

ReconcileAtBoot ==
    /\ proc = Idle
    /\ Cardinality(Blocking) = 1
    /\ \E o \in Candidates :
          /\ Candidates = {o}
          /\ ProvePostReboot(o, IF jr[o].kind = "rename" THEN RenameVerified(jr[o], boot)
                                                         ELSE DeleteVerified(jr[o], boot))

-----------------------------------------------------------------------------
(* The SEP and the faults. *)

(* A successful match may adapt a template, which then wants saving. *)
Match ==
    /\ proc = Idle
    /\ matches < MaxMatch
    /\ matches' = matches + 1
    /\ sep' = [sep EXCEPT !.adapted = matches + 1, !.dirty = @ \cup {"user"}]
    /\ UNCHANGED <<jr, proc, store, boot, dispatched>>

Crash ==
    /\ proc # Idle
    /\ Exit
    /\ UNCHANGED <<jr, store, sep, outside, dispatched>>

Restarted == [ids |-> host.user.ids, dirty |-> {}, adapted |-> host.user.adapted]

Reboot ==
    /\ boot < MaxBoot
    /\ boot' = boot + 1
    /\ Exit
    /\ sep' \in {sep, Restarted}
    /\ UNCHANGED <<jr, store, matches, dispatched>>

-----------------------------------------------------------------------------
Init ==
    /\ jr = <<>> /\ dispatched = <<>>
    /\ proc = Idle
    /\ host = [user |-> [ver |-> 1, ids |-> Identities, label |-> 0, adapted |-> 0],
               master |-> 1]
    /\ pend = NoPending
    /\ sep = [ids |-> Identities, dirty |-> {}, adapted |-> 0]
    /\ boot = 1 /\ matches = 0 /\ exports = 1

Intend == IntendRename \/ IntendDeletion \/ IntendSync

Delete == IntendDelete \/ DispatchDelete \/ ObserveDelete \/ AdoptAbsence
          \/ ConcludeNotPerformed \/ FreezeDelete

Save ==
    \/ PlanPersistence \/ BeginStage \/ AbortRename \/ FailDeleteStage
    \/ IntendPrepare \/ DispatchPrepare \/ ObservePrepare
    \/ IntendComplete \/ DispatchComplete \/ CaptureBlob
    \/ CreateStaged \/ StageComponent \/ RecordStaged
    \/ IntendCommit \/ CrossBoundary \/ RollForward \/ RecordCommitted
    \/ IntendFinalConfirm \/ DispatchFinalConfirm \/ ObserveFinalConfirm
    \/ AttestRename \/ AttestDelete \/ ReconcileRename \/ ReconcileDelete \/ FreezeSave

Sync ==
    \/ BeginSync \/ FailBeginSync \/ ExportSync \/ StageSync \/ ConfirmSyncUser
    \/ NextSyncComponent \/ CrossSync \/ PromoteSync \/ RecordSyncCommitted
    \/ ConfirmSyncMaster \/ ReconcileSync \/ FreezeSync

Resolve ==
    \/ DiscardLocal \/ RollLocalForward \/ NothingLocal
    \/ ConcludeRename \/ ConcludeDelete \/ SaveForward \/ RefuseRecovery

Next ==
    \/ BeginRename \/ BeginDelete \/ BeginCatacombSync
    \/ Intend \/ Delete \/ Save \/ Sync
    \/ RecoverRename \/ RecoverDelete \/ Resolve \/ RecoverSync
    \/ VerifyRename \/ VerifyDelete \/ ReconcileAtBoot
    \/ Match \/ Crash \/ Reboot

Spec == Init /\ [][Next]_vars

(* A command that runs goes on running. *)
FairSpec == Spec /\ WF_vars(Intend \/ Delete \/ Save \/ Sync \/ Resolve)

-----------------------------------------------------------------------------
(* Properties. *)

Phases ==
    {"BASELINE", "INTENT", "DISPATCH_INTENT", "COMMAND_OBSERVED", "SEP_DELETED", "PERSISTING",
     "PERSISTENCE_READY", "HOST_COMMITTED", "RECONCILED", "ABORTED", "OUTCOME_UNKNOWN",
     "POST_REBOOT_VERIFIED"}

Files ==
    [ver : 0..exports, ids : SUBSET Identities, label : 0..MaxOps, adapted : 0..MaxMatch]
Roots == [user : Files, master : 0..exports]

TypeOK ==
    /\ Len(jr) <= MaxOps
    /\ \A o \in DOMAIN jr :
          /\ jr[o].kind \in Kinds /\ jr[o].phase \in Phases
          /\ jr[o].base \in Roots /\ jr[o].file \in Files
          /\ jr[o].persistence \in Trackers
          /\ jr[o].action \in RecoveryActions \cup {"none"}
          /\ jr[o].boot \in 1..boot /\ jr[o].rboot \in 0..boot /\ jr[o].settled \in 0..boot
    /\ proc.op \in 0..Len(jr)
    /\ host \in Roots
    /\ pend \in [dir : {"none", "prepare", "commit"}, user : Files,
                 master : 0..exports, torn : BOOLEAN]
    /\ sep \in [ids : SUBSET Identities, dirty : SUBSET {"user", "master"},
                adapted : 0..matches]
    /\ boot \in 1..MaxBoot /\ matches \in 0..MaxMatch
    /\ exports \in 1..(MaxExports + 2 * MaxOps)

(* A delete command is sent once, however often the deletion stops and is   *)
(* recovered: recovery saves what the SEP has done and never asks again.    *)
DeletedOnce == \A o \in DOMAIN dispatched : dispatched[o] <= 1

(* A deletion that the SEP believes saved is in the host's root, or else a  *)
(* restart would bring the identity back: the final confirm follows the     *)
(* host commit, also when a recovery saves once more.                       *)
CleanMeansSaved == "user" \notin sep.dirty => host.user.ids \subseteq sep.ids

(* The SEP and the host never have other identities without a journal that  *)
(* blocks every new mutation.                                               *)
DisagreementBlocks == sep.ids # host.user.ids => Blocking # {}

(* The host holds the adaptive update of the SEP or a later one, or did     *)
(* when a mutation began: a recovered save may commit older templates than  *)
(* the host's, which a restarted SEP has meanwhile loaded.                  *)
Kept == \E r \in {host} \cup {jr[o].base : o \in DOMAIN jr} : sep.adapted <= r.user.adapted

(* The SEP never believes an adaptive update saved that the host never had, *)
(* without a journal that blocks: the early confirm of a sync comes before  *)
(* the host commit, and only the journal knows of a stop in between.        *)
UpdateKept == "user" \notin sep.dirty /\ ~Kept => Blocking # {}

(* A mutation is closed with the outcome that it had: aborted, with the     *)
(* host's files and the SEP's identities of its baseline; reconciled, with  *)
(* the label, the absence or the update in the files, none of the SEP's     *)
(* updates missing there, and the SEP agreeing.                             *)
ClosedTruthfully ==
    [][\A o \in DOMAIN jr :
          LET h == jr'[o]
          IN  /\ h.phase = "ABORTED" /\ jr[o].phase # "ABORTED" =>
                    host = h.base /\ sep.ids = h.base.user.ids
              /\ h.phase = "RECONCILED" /\ jr[o].phase # "RECONCILED" =>
                    /\ sep.dirty = {} /\ sep.ids = host.user.ids
                    /\ Kept
                    /\ host.user.label = IF h.kind = "rename" THEN o ELSE h.base.user.label
                    /\ host.user.ids = Target(h)]_vars

(* Files are promoted, and prepare/ is removed, only in a direction that    *)
(* was journaled before: the commit intent of exactly these files, the      *)
(* intent of a sync, or the recovery's own intent.                          *)
RecoveryFollowsJournal ==
    [][/\ pend.dir = "prepare" /\ pend'.dir = "none" =>
             \E o \in Blocking : jr[o].action = "prepare-discarded"
       /\ host' # host =>
             \E o \in Blocking :
                 \/ jr[o].kind = "sync" /\ jr[o].phase = "INTENT"
                 \/ /\ jr[o].persistence.phase = "BATCH_COMMIT_INTENT"
                    /\ jr[o].file = host'.user]_vars

(* Every command ends: no append that it makes is refused by its journal,   *)
(* and every reply and every observation is handled.                        *)
CommandEnds == proc # Idle ~> proc = Idle

(* "An interrupted or ambiguous operation therefore leaves a journal that   *)
(* must be reconciled with a recover* subcommand": one that blocks and does *)
(* not wait for its reboot is one that a recovery can still conclude.       *)
InterruptedIsRecoverable ==
    proc = Idle =>
        \A o \in Blocking :
            \/ jr[o].phase = "RECONCILED"
            \/ /\ o \in Interrupted(jr[o].kind)
               /\ jr[o].kind \in DOMAIN SaveStarts =>
                     jr[o].action = "none" \/ jr[o].phase = "OUTCOME_UNKNOWN"
=============================================================================
