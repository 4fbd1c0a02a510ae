------------------------ MODULE PersistenceJournal ------------------------
(***************************************************************************)
(* The tracker that replays the CATACOMB_ milestones of a mutation journal *)
(* (t2_enrollment_persistence_journal.py).                                 *)
(*                                                                         *)
(* A save is planned once, as batches of components.  Every component is   *)
(* prepared, completed and staged; all but the last of a batch are then    *)
(* confirmed to the SEP, and the last one only after the host has          *)
(* committed the batch.  Every command has an intent before it and an      *)
(* observation after it.                                                   *)
(*                                                                         *)
(* Each operator is one milestone: the set of trackers after it, empty     *)
(* when the milestone is refused.  Digests, lengths and the connection     *)
(* generation that the evidence repeats are left out: within one process   *)
(* they agree, and a later process has a fresh generation.                 *)
(***************************************************************************)
EXTENDS Integers, Sequences, FiniteSets

Names == {"user", "master", "biolockout"}

IdentityPlan == << <<"user", "master">>, <<"biolockout">> >>
FailurePlan == << <<"biolockout">> >>
MetadataPlan == << <<"user">> >>    \* a rename or a single deletion

PersistencePhases ==
    {"NOT_STARTED", "COMPONENT_READY", "PREPARE_INTENT", "PREPARED",
     "COMPLETE_INTENT", "SECURE_BLOB_CAPTURED", "HOST_STAGED", "CONFIRM_INTENT",
     "BATCH_COMMIT_INTENT", "BATCH_COMMITTED", "FINAL_CONFIRM_INTENT",
     "ATTESTATION_READY", "COMPLETE", "OUTCOME_UNKNOWN"}

FreezeStages ==
    {"prepare", "complete", "encode", "host-stage", "early-confirm",
     "host-commit", "final-confirm", "readback"}

Trackers ==
    [phase : PersistencePhases,
     batches : {<<>>, IdentityPlan, FailurePlan, MetadataPlan},
     batch : 0..2, component : 0..2,    \* 1-based; 0 before the plan
     staged : SUBSET Names,             \* the names with a journaled hash
     stage : FreezeStages \cup {"none"},
     commitPossible : BOOLEAN,
     attested : BOOLEAN]                \* reconciliation_snapshot_sha256 is set

NotStarted ==
    [phase |-> "NOT_STARTED", batches |-> <<>>, batch |-> 0, component |-> 0,
     staged |-> {}, stage |-> "none", commitPossible |-> FALSE, attested |-> FALSE]

Only(condition, result) == IF condition THEN {result} ELSE {}

CurrentBatch(t) == t.batches[t.batch]
Current(t) == CurrentBatch(t)[t.component]
BatchNames(t) == {CurrentBatch(t)[i] : i \in DOMAIN CurrentBatch(t)}
FinalComponent(t) == t.component = Len(CurrentBatch(t))

(* A milestone that only moves the phase. *)
Advance(t, from, to) == Only(t.phase = from, [t EXCEPT !.phase = to])

(* CATACOMB_PERSISTENCE_PLAN.  The kind of mutation allows one of the plans. *)
Plan(t, batches) ==
    Only(t.phase = "NOT_STARTED",
         [t EXCEPT !.phase = "COMPONENT_READY", !.batches = batches,
                   !.batch = 1, !.component = 1])

PrepareIntent(t)  == Advance(t, "COMPONENT_READY", "PREPARE_INTENT")
Prepared(t)       == Advance(t, "PREPARE_INTENT", "PREPARED")
CompleteIntent(t) == Advance(t, "PREPARED", "COMPLETE_INTENT")
BlobCaptured(t)   == Advance(t, "COMPLETE_INTENT", "SECURE_BLOB_CAPTURED")

HostStaged(t) ==
    Only(t.phase = "SECURE_BLOB_CAPTURED",
         [t EXCEPT !.phase = "HOST_STAGED", !.staged = @ \cup {Current(t)}])

ConfirmIntent(t) ==
    Only(t.phase = "HOST_STAGED" /\ ~FinalComponent(t),
         [t EXCEPT !.phase = "CONFIRM_INTENT"])

Confirmed(t) ==
    Only(t.phase = "CONFIRM_INTENT",
         [t EXCEPT !.phase = "COMPONENT_READY", !.component = @ + 1])

CommitIntent(t) ==
    Only(t.phase = "HOST_STAGED" /\ FinalComponent(t),
         [t EXCEPT !.phase = "BATCH_COMMIT_INTENT"])

Committed(t) == Advance(t, "BATCH_COMMIT_INTENT", "BATCH_COMMITTED")
FinalConfirmIntent(t) == Advance(t, "BATCH_COMMITTED", "FINAL_CONFIRM_INTENT")

(* The next batch begins, or the save is ready to be attested. *)
FinalConfirmed(t) ==
    Only(t.phase = "FINAL_CONFIRM_INTENT",
         IF t.batch < Len(t.batches)
         THEN [t EXCEPT !.phase = "COMPONENT_READY", !.batch = @ + 1,
                        !.component = 1, !.staged = {}]
         ELSE [t EXCEPT !.phase = "ATTESTATION_READY"])

Attested(t) ==
    Only(t.phase = "ATTESTATION_READY",
         [t EXCEPT !.phase = "COMPLETE", !.attested = TRUE])

(* CATACOMB_PERSISTENCE_OUTCOME_UNKNOWN. *)
Freeze(t, stage, commitPossible) ==
    Only(t.phase \notin {"NOT_STARTED", "COMPONENT_READY", "COMPLETE",
                         "OUTCOME_UNKNOWN"},
         [t EXCEPT !.phase = "OUTCOME_UNKNOWN", !.stage = stage,
                   !.commitPossible = commitPossible])

(* Mutant: the component that was confirmed is not passed over. *)
MutEarlyConfirmRecovered(t) ==
    Only(/\ t.phase = "OUTCOME_UNKNOWN"
         /\ t.stage = "early-confirm"
         /\ ~t.commitPossible
         /\ Current(t) \in t.staged
         /\ ~FinalComponent(t),
         [t EXCEPT !.phase = "COMPONENT_READY", !.stage = "none"])

(* A fresh connection has proved that an ambiguous early confirm arrived. *)
EarlyConfirmRecovered(t) ==
    Only(/\ t.phase = "OUTCOME_UNKNOWN"
         /\ t.stage = "early-confirm"
         /\ ~t.commitPossible
         /\ Current(t) \in t.staged
         /\ ~FinalComponent(t),
         [t EXCEPT !.phase = "COMPONENT_READY", !.component = @ + 1,
                   !.stage = "none"])
=============================================================================
