------------------------- MODULE EnrollmentJournal -------------------------
(***************************************************************************)
(* The typed history of one enrollment (t2_enrollment_journal.py).         *)
(*                                                                         *)
(* validate_history replays the records of a journal file; append_checked  *)
(* replays them with the new record before it writes it.  A history is     *)
(* what the replay keeps.  Each operator is one milestone: the set of      *)
(* histories after it, empty when the record is refused.                   *)
(*                                                                         *)
(* Evidence that the caller must have proved (what a read-back saw) is a   *)
(* condition of the caller's action; the fields that bind every record to  *)
(* the same account, mapping and connection are left out.                  *)
(***************************************************************************)
EXTENDS PersistenceJournal

EnrollmentPhases ==
    {"BASELINE", "ABORTED_BEFORE_START", "START_INTENT", "ACTIVE",
     "CONTINUE_INTENT", "CANCEL_INTENT", "CANCEL_REQUESTED", "TERMINAL_WITNESS",
     "TERMINAL_IDENTITY", "TERMINAL_FAILURE", "PERSISTING", "PERSISTENCE_READY",
     "RECONCILED", "POST_REBOOT_VERIFIED", "OUTCOME_UNKNOWN"}

(* "active" also stands for the stages start, continue and cancel, which    *)
(* nothing tells apart later on.                                            *)
InterruptedStages == {"active", "terminal"}
LocalStages == {"local-prepare-discarded", "local-commit-rolled-forward"}

NoIdentity == 0

(* BASELINE_RECONCILED: the boot, the host components and the identities   *)
(* that were found at E0.                                                  *)
Baseline(boot, host, ids) ==
    [phase |-> "BASELINE", boot |-> boot, host |-> host, ids |-> ids,
     last |-> 0, pending |-> 0, identity |-> NoIdentity, failed |-> FALSE,
     unknown |-> "none", persistence |-> NotStarted, snapshot |-> <<>>]

From(h, phases, result) == Only(h.phase \in phases, result)
Running == {"ACTIVE", "CANCEL_REQUESTED"}

AbortedBeforeStart(h) ==
    From(h, {"BASELINE"}, [h EXCEPT !.phase = "ABORTED_BEFORE_START"])

StartIntent(h) == From(h, {"BASELINE"}, [h EXCEPT !.phase = "START_INTENT"])
StartObserved(h) == From(h, {"START_INTENT"}, [h EXCEPT !.phase = "ACTIVE"])
StartRejected(h) ==
    From(h, {"START_INTENT"},
         [h EXCEPT !.phase = "TERMINAL_FAILURE", !.failed = TRUE])

ContinueIntent(h, seq) ==
    Only(h.phase = "ACTIVE" /\ seq > h.last,
         [h EXCEPT !.phase = "CONTINUE_INTENT", !.pending = seq])
ContinueObserved(h) ==
    From(h, {"CONTINUE_INTENT"},
         [h EXCEPT !.phase = "ACTIVE", !.last = h.pending, !.pending = 0])

CancelIntent(h) == From(h, {"ACTIVE"}, [h EXCEPT !.phase = "CANCEL_INTENT"])
CancelObserved(h) ==
    From(h, {"CANCEL_INTENT"}, [h EXCEPT !.phase = "CANCEL_REQUESTED"])

(* The three terminal events of E2. *)
TerminalIdentity(h, seq, id) ==
    Only(h.phase \in Running /\ seq > h.last,
         [h EXCEPT !.phase = "TERMINAL_IDENTITY", !.identity = id, !.last = seq])
ResultWitnessed(h, seq) ==
    Only(h.phase \in Running /\ seq > h.last,
         [h EXCEPT !.phase = "TERMINAL_WITNESS", !.last = seq])
TerminalFailure(h, seq) ==
    Only(h.phase \in Running /\ seq > h.last,
         [h EXCEPT !.phase = "TERMINAL_FAILURE", !.failed = TRUE, !.last = seq])

(* The identity is taken from a stable read-back, not from the event. *)
WitnessReadback(h, id) ==
    From(h, {"TERMINAL_WITNESS"},
         [h EXCEPT !.phase = "TERMINAL_IDENTITY", !.identity = id])
RecoveryReadback(h, id) ==
    Only(h.phase = "OUTCOME_UNKNOWN" /\ h.unknown = "terminal",
         [h EXCEPT !.phase = "TERMINAL_IDENTITY", !.identity = id])

(* The phase that a tracker gives the whole history. *)
PhaseOf(t, recovered) ==
    CASE t.phase = "COMPLETE" -> "PERSISTENCE_READY"
      [] t.phase = "OUTCOME_UNKNOWN" -> "OUTCOME_UNKNOWN"
      [] OTHER -> IF recovered THEN "TERMINAL_IDENTITY" ELSE "PERSISTING"

(* A CATACOMB_ milestone; T is what the tracker makes of it. *)
Persist(h, T) ==
    {[h EXCEPT !.persistence = t, !.phase = PhaseOf(t, FALSE)] :
        t \in {u \in T : /\ h.identity # NoIdentity \/ h.failed
                         /\ h.phase \in {"TERMINAL_IDENTITY", "TERMINAL_FAILURE",
                                         "PERSISTING"}}}

(* The plan of a failed enrollment is the bio-lockout component alone. *)
PlanSave(h) ==
    Persist(h, Plan(h.persistence,
                    IF h.identity = NoIdentity /\ h.failed THEN FailurePlan ELSE IdentityPlan))

RecoverEarlyConfirm(h) ==
    {[h EXCEPT !.persistence = t, !.phase = PhaseOf(t, TRUE)] :
        t \in {u \in EarlyConfirmRecovered(h.persistence) :
                   h.identity # NoIdentity /\ h.phase = "OUTCOME_UNKNOWN"}}

(* Mutant: the reconciled snapshot is not kept. *)
MutReconciled(h, added, snapshot) ==
    Only(/\ h.phase \in {"PERSISTENCE_READY", "TERMINAL_FAILURE"}
         /\ IF h.phase = "PERSISTENCE_READY" /\ h.identity # NoIdentity
            THEN added = {h.identity} ELSE added = {},
         [h EXCEPT !.phase = "RECONCILED"])

(* E3.  added is the identity that the read-back found beside the baseline. *)
Reconciled(h, added, snapshot) ==
    Only(/\ h.phase \in {"PERSISTENCE_READY", "TERMINAL_FAILURE"}
         /\ IF h.phase = "PERSISTENCE_READY" /\ h.identity # NoIdentity
            THEN added = {h.identity} ELSE added = {},
         [h EXCEPT !.phase = "RECONCILED", !.snapshot = snapshot])

(* An ambiguous read-back after both batches were saved. *)
ReadbackUnknown(h) ==
    /\ h.phase = "OUTCOME_UNKNOWN"
    /\ h.persistence.phase = "OUTCOME_UNKNOWN"
    /\ h.persistence.stage = "readback"
    /\ h.persistence.commitPossible

(* E3_PERSISTENCE_READBACK_RECOVERED, or E3_RECOVERY_NO_CHANGE_RECONCILED. *)
RecoveryReconciled(h, added, snapshot) ==
    Only(/\ h.phase = "OUTCOME_UNKNOWN"
         /\ IF ReadbackUnknown(h) /\ h.identity # NoIdentity
            THEN added = {h.identity} ELSE added = {},
         [h EXCEPT !.phase = "RECONCILED", !.snapshot = snapshot])

(* E4. *)
PostRebootVerified(h, boot, snapshot) ==
    Only(/\ h.phase = "RECONCILED"
         /\ h.identity # NoIdentity
         /\ boot # h.boot
         /\ snapshot = h.snapshot,
         [h EXCEPT !.phase = "POST_REBOOT_VERIFIED"])

(* ENROLL_OUTCOME_UNKNOWN. *)
OutcomeUnknown(h, stage) ==
    Only(\/ /\ h.phase \in {"START_INTENT", "ACTIVE", "CONTINUE_INTENT",
                            "CANCEL_INTENT", "CANCEL_REQUESTED", "TERMINAL_WITNESS"}
            /\ stage \in InterruptedStages
         \/ h.phase = "PERSISTING" /\ stage \in LocalStages,
         [h EXCEPT !.phase = "OUTCOME_UNKNOWN", !.unknown = stage])
=============================================================================
