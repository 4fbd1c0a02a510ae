-------------------------- MODULE IdentityJournals --------------------------
(***************************************************************************)
(* The typed histories of the mutations that t2-touchid-manage makes:      *)
(* renaming a label (t2_identity_rename_journal.py), deleting one identity *)
(* (t2_identity_delete_journal.py) and saving an adaptive template update  *)
(* (t2_catacomb_sync_journal.py).                                          *)
(*                                                                         *)
(* As in EnrollmentJournal, a milestone is the set of histories after it,  *)
(* empty when validate_history refuses the record.  The three kinds share  *)
(* one record, of which each uses its own fields.  What a read-back must   *)
(* have seen is a condition of the caller's action.                        *)
(***************************************************************************)
EXTENDS PersistenceJournal

(* A user component: its hash, the identities and the label that it holds,  *)
(* and the adaptive update of the templates in its secure blob.             *)
NoFile == [ver |-> 0, ids |-> {}, label |-> 0, adapted |-> 0]

RecoveryActions == {"prepare-discarded", "commit-rolled-forward", "no-local-transaction"}

(* BASELINE_RECONCILED: the boot, the host components and the SEP's hash.   *)
Opened(kind, boot, host, hash) ==
    [kind |-> kind, phase |-> "BASELINE", boot |-> boot, base |-> host, hash |-> hash,
     target |-> 0, status |-> "none", persistence |-> NotStarted, file |-> NoFile,
     action |-> "none", rboot |-> 0, forward |-> FALSE, settled |-> 0,
     commit |-> <<>>, attempted |-> FALSE]

Moved(h, phases, phase) == Only(h.phase \in phases, [h EXCEPT !.phase = phase])

(* The phase that a tracker gives the whole history. *)
SavePhase(t) ==
    CASE t.phase = "COMPLETE" -> "PERSISTENCE_READY"
      [] t.phase = "OUTCOME_UNKNOWN" -> "OUTCOME_UNKNOWN"
      [] OTHER -> "PERSISTING"

(* A CATACOMB_ milestone; T is what the tracker makes of it, and file the   *)
(* component whose hash is journaled, which a tracker keeps.                *)
SaveStarts == [rename |-> "INTENT", delete |-> "SEP_DELETED"]
Saved(h, T, file) ==
    {[h EXCEPT !.persistence = t, !.phase = SavePhase(t), !.file = file] :
        t \in {u \in T : h.phase \in {SaveStarts[h.kind], "PERSISTING"}}}

-----------------------------------------------------------------------------
(* Renaming. *)

(* Which identity gets the label is left out: every one is renamed alike. *)
RenameIntent(h) == Moved(h, {"BASELINE"}, "INTENT")

RenameAborted(h) ==
    Only(h.phase = "PERSISTING" /\ h.persistence.phase = "COMPONENT_READY",
         [h EXCEPT !.phase = "ABORTED"])

RenameReconciled(h) == Moved(h, {"PERSISTENCE_READY"}, "RECONCILED")

RenameRecoveryIntent(h, action) ==
    Only(/\ h.phase \in {"INTENT", "PERSISTING", "PERSISTENCE_READY", "OUTCOME_UNKNOWN"}
         /\ h.action = "none",
         [h EXCEPT !.phase = "OUTCOME_UNKNOWN", !.action = action])

RenameRecovered(h, committed) ==
    Only(/\ h.phase = "OUTCOME_UNKNOWN"
         /\ h.action # "none"
         /\ committed \/ h.action # "commit-rolled-forward",
         [h EXCEPT !.phase = IF committed THEN "RECONCILED" ELSE "ABORTED"])

(* The boot differs from that of the baseline. *)
RenameVerified(h, boot) ==
    Only(h.phase = "RECONCILED" /\ boot # h.boot,
         [h EXCEPT !.phase = "POST_REBOOT_VERIFIED"])

-----------------------------------------------------------------------------
(* Deleting one identity. *)

DeleteIntent(h, id) ==
    Only(h.phase = "BASELINE" /\ Cardinality(h.base.user.ids) > 1 /\ id \in h.base.user.ids,
         [h EXCEPT !.phase = "INTENT", !.target = id])

DispatchIntent(h) == Moved(h, {"INTENT"}, "DISPATCH_INTENT")

CommandObserved(h, status) ==
    Only(h.phase = "DISPATCH_INTENT",
         [h EXCEPT !.phase = "COMMAND_OBSERVED", !.status = status])

SepAbsenceObserved(h) == Moved(h, {"COMMAND_OBSERVED"}, "SEP_DELETED")

NotPerformed(h) ==
    Only(h.phase = "COMMAND_OBSERVED" /\ h.status # "ok", [h EXCEPT !.phase = "ABORTED"])

DeleteOutcomeUnknown(h) ==
    Moved(h, {"DISPATCH_INTENT", "COMMAND_OBSERVED", "SEP_DELETED", "PERSISTING",
              "PERSISTENCE_READY"}, "OUTCOME_UNKNOWN")

InterruptedDelete ==
    {"INTENT", "DISPATCH_INTENT", "COMMAND_OBSERVED", "SEP_DELETED", "PERSISTING",
     "PERSISTENCE_READY", "OUTCOME_UNKNOWN"}

(* The first recovery, or a retry of a forward save that froze. *)
DeleteRecoveryIntent(h, action, boot) ==
    Only(\/ h.action = "none" /\ h.phase \in InterruptedDelete
         \/ h.action # "none" /\ h.phase = "OUTCOME_UNKNOWN" /\ h.forward,
         [h EXCEPT !.phase = "OUTCOME_UNKNOWN", !.action = action, !.rboot = boot])

StagedUser(h) == h.persistence.staged = {"user"}

(* Mutant: the recovery goes back to the intent, and so to the command. *)
MutRecoveryAbsenceObserved(h, archive) ==
    Only(h.phase = "OUTCOME_UNKNOWN",
         [h EXCEPT !.phase = "INTENT", !.persistence = NotStarted, !.forward = TRUE])

(* The SEP has deleted and the save starts afresh on another connection,    *)
(* from the baseline archive or from the journaled survivors.               *)
RecoveryAbsenceObserved(h, archive) ==
    Only(/\ h.phase = "OUTCOME_UNKNOWN"
         /\ h.action # "none"
         /\ archive = "baseline" => h.action # "commit-rolled-forward"
         /\ archive = "survivors" =>
               /\ StagedUser(h)
               /\ h.action # "prepare-discarded" \/ h.forward,
         [h EXCEPT !.phase = "SEP_DELETED", !.persistence = NotStarted,
                   !.file = NoFile, !.forward = TRUE])

DeleteRecovered(h, committed) ==
    Only(/\ h.phase = "OUTCOME_UNKNOWN"
         /\ h.action # "none"
         /\ IF committed THEN StagedUser(h) ELSE h.action # "commit-rolled-forward",
         IF committed
         THEN [h EXCEPT !.phase = "RECONCILED", !.settled = h.rboot]
         ELSE [h EXCEPT !.phase = "ABORTED"])

DeleteReconciled(h) ==
    Only(h.phase = "PERSISTENCE_READY",
         [h EXCEPT !.phase = "RECONCILED",
                   !.settled = IF h.rboot # 0 THEN h.rboot ELSE h.boot])

DeleteVerified(h, boot) ==
    Only(h.phase = "RECONCILED" /\ boot # h.settled,
         [h EXCEPT !.phase = "POST_REBOOT_VERIFIED"])

-----------------------------------------------------------------------------
(* Saving an adaptive update. *)

SyncIntent(h) == Moved(h, {"BASELINE"}, "INTENT")
SyncAborted(h) == Moved(h, {"INTENT"}, "ABORTED")

SyncHostCommitted(h, host) ==
    Only(h.phase = "INTENT", [h EXCEPT !.phase = "HOST_COMMITTED", !.commit = <<host>>])

SyncReconciled(h, host) ==
    Only(h.phase = "HOST_COMMITTED" /\ h.commit = <<host>>, [h EXCEPT !.phase = "RECONCILED"])

(* Mutant: an ambiguity is only accepted before the host commit. *)
MutSyncOutcomeUnknown(h) == Moved(h, {"INTENT"}, "OUTCOME_UNKNOWN")

SyncOutcomeUnknown(h) == Moved(h, {"INTENT", "HOST_COMMITTED"}, "OUTCOME_UNKNOWN")

(* Both recoveries want the host as it was committed, once. *)
SyncRecoverable(h, host) ==
    /\ h.phase = "OUTCOME_UNKNOWN"
    /\ ~h.attempted
    /\ h.commit = <<host>>

SyncRecoveryIntent(h, host) ==
    Only(SyncRecoverable(h, host),
         [h EXCEPT !.phase = "INTENT", !.commit = <<>>, !.attempted = TRUE])

SyncRecoveredClean(h, host) ==
    Only(SyncRecoverable(h, host), [h EXCEPT !.phase = "RECONCILED", !.attempted = TRUE])
=============================================================================
