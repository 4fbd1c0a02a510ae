---------------------------- MODULE Enrollment ----------------------------
(***************************************************************************)
(* Enrolling one fingerprint: the broker's commands, the SEP, the host     *)
(* store and the journals that survive a crash.                            *)
(*                                                                         *)
(* One command runs at a time (it holds the operation lock).  "enroll"     *)
(* takes a baseline, drives the SEP's scan, saves the new identity on the  *)
(* host and reconciles; the other commands recover from an enrollment that *)
(* stopped.  A process may stop between any two steps, a reply may be      *)
(* lost, the machine may reboot, and a reboot may also restart the SEP.    *)
(*                                                                         *)
(* External: the SEP.  It keeps its identities and which components it     *)
(* wants saved; it goes on scanning when the process is gone, until the    *)
(* next connection; restarted, it holds what the host had committed.  Its  *)
(* Catacomb hash is a function of its identities.                          *)
(***************************************************************************)
EXTENDS EnrollmentJournal, Functions

CONSTANTS
    MaxOps,     \* bound: enrollments begun
    MaxBoot,    \* bound: boots
    MaxEvents,  \* bound: events of one scan before its terminal event
    Capacity    \* identities the SEP can hold

ASSUME EnrollmentAssumption ==
    /\ MaxOps \in Nat /\ MaxBoot \in Nat \ {0} /\ MaxEvents \in Nat
    /\ Capacity \in Nat

VARIABLES
    jr,         \* the journals, in the order of their operations
    proc,       \* the running command: its operation and where it stands
    host,       \* the committed root of the host store
    pend,       \* prepare/ or commit/ of the host store
    sep,        \* the SEP
    events,     \* service events that the connection has queued
    boot,       \* the number of this Linux boot
    sent        \* history: the commands dispatched for each operation

vars == <<jr, proc, host, pend, sep, events, boot, sent>>
store == <<host, pend>>
outside == <<sep, events, sent>>

(* An identity that was enrolled before the first of these operations. *)
Original == MaxOps + 1

Idle == [cmd |-> "none", op |-> 0, at |-> "none"]
NoPending == [dir |-> "none", files |-> {}, torn |-> FALSE]

hist == jr[proc.op]
saved == hist.persistence

-----------------------------------------------------------------------------
(* Steps of the running process. *)

At(phase, at) == proc.cmd # "none" /\ hist.phase = phase /\ proc.at = at
Saving(phase, at) ==
    /\ proc.cmd # "none"
    /\ hist.phase \in {"TERMINAL_IDENTITY", "TERMINAL_FAILURE", "PERSISTING"}
    /\ saved.phase = phase
    /\ proc.at = at

(* append_checked: the record is written if the journal accepts it. *)
Journal(H) == \E h \in H : jr' = [jr EXCEPT ![proc.op] = h]
Goto(at) == proc' = [proc EXCEPT !.at = at]
Exit == proc' = Idle /\ events' = <<>>

Record(H, at) ==
    /\ Journal(H)
    /\ Goto(at)
    /\ UNCHANGED <<store, outside, boot>>

RecordAndExit(H) ==
    /\ Journal(H)
    /\ Exit
    /\ UNCHANGED <<store, sep, boot, sent>>

(* A command to the SEP.  The reply may be lost before or after it acts. *)
Dispatch(command, sepAfter) ==
    /\ sent' = [sent EXCEPT ![proc.op] = Append(@, command)]
    /\ \/ sep' = sepAfter /\ \E at \in {"ok", "lost"} : Goto(at)
       \/ UNCHANGED sep /\ Goto("lost")
    /\ UNCHANGED <<jr, store, events, boot>>

Replied == {"ok", "refused", "lost"}

-----------------------------------------------------------------------------
(* require_no_unfinished_enrollment and the journals it reads. *)

UnfinishedPhases ==
    {"START_INTENT", "ACTIVE", "CONTINUE_INTENT", "CANCEL_INTENT",
     "CANCEL_REQUESTED", "TERMINAL_IDENTITY", "TERMINAL_FAILURE", "PERSISTING",
     "PERSISTENCE_READY", "OUTCOME_UNKNOWN"}

Unfinished == {o \in DOMAIN jr : jr[o].phase \in UnfinishedPhases}

PendingPostReboot ==
    {o \in DOMAIN jr : jr[o].phase = "RECONCILED" /\ jr[o].identity # NoIdentity}

(* Mutant: a reconciled enrollment does not wait for its reboot. *)
MutNoUnfinished == Unfinished = {} /\ pend.dir = "none"

NoUnfinished ==
    /\ Unfinished = {}
    /\ PendingPostReboot = {}
    /\ pend.dir = "none"

(* The registry's verdict, by which every other mutation is refused. *)
Blocks(h) ==
    ~ \/ h.phase \in {"BASELINE", "ABORTED_BEFORE_START", "POST_REBOOT_VERIFIED"}
      \/ h.phase = "RECONCILED" /\ h.identity = NoIdentity

(* A new connection ends the scan of an earlier one. *)
Connected == [sep EXCEPT !.scan = 0, !.seq = 0]

(* build_baseline: the SEP and the host agree on the identities. *)
BuildBaseline == sep.ids = host.ids

Enroll ==
    /\ proc = Idle
    /\ Len(jr) < MaxOps
    /\ NoUnfinished
    /\ BuildBaseline
    /\ jr' = Append(jr, Baseline(boot, host, sep.ids))
    /\ sent' = Append(sent, <<>>)
    /\ sep' = Connected
    /\ events' = <<>>
    /\ proc' = [cmd |-> "enroll", op |-> Len(jr) + 1, at |-> "run"]
    /\ UNCHANGED <<store, boot>>

-----------------------------------------------------------------------------
(* EnrollmentOperation.run: E1 and E2. *)

(* require_start_ready refuses a full SEP; the baseline stays behind. *)
CapacityExhausted ==
    /\ At("BASELINE", "run")
    /\ Cardinality(hist.ids) >= Capacity
    /\ Exit
    /\ UNCHANGED <<jr, store, sep, boot, sent>>

(* The sleep inhibitor is gone or the user cancelled during authorization. *)
AbortBeforeStart ==
    /\ At("BASELINE", "run")
    /\ RecordAndExit(AbortedBeforeStart(hist))

(* Mutant: the command is sent before its intent is journaled. *)
MutIntendStart ==
    /\ At("BASELINE", "run")
    /\ sep' = [sep EXCEPT !.scan = proc.op]
    /\ Goto("send")
    /\ UNCHANGED <<jr, store, events, boot, sent>>

IntendStart ==
    /\ At("BASELINE", "run")
    /\ Cardinality(hist.ids) < Capacity
    /\ Record(StartIntent(hist), "send")

DispatchStart ==
    /\ At("START_INTENT", "send")
    /\ \/ Dispatch(<<"start">>, [sep EXCEPT !.scan = proc.op])
       \/ /\ sent' = [sent EXCEPT ![proc.op] = Append(@, <<"start">>)]
          /\ Goto("refused")
          /\ UNCHANGED <<jr, store, sep, events, boot>>

ObserveStart ==
    \/ At("START_INTENT", "ok") /\ Record(StartObserved(hist), "run")
    \/ At("START_INTENT", "refused") /\ Record(StartRejected(hist), "run")

RequestCancel == At("ACTIVE", "run") /\ Record(CancelIntent(hist), "send")

DispatchCancel ==
    At("CANCEL_INTENT", "send") /\ Dispatch(<<"cancel">>, sep)

ObserveCancel ==
    At("CANCEL_INTENT", "ok") /\ Record(CancelObserved(hist), "run")

DispatchContinue ==
    /\ At("CONTINUE_INTENT", "send")
    /\ Dispatch(<<"continue", hist.pending>>, sep)

ObserveContinue ==
    At("CONTINUE_INTENT", "ok") /\ Record(ContinueObserved(hist), "run")

(* _outcome_unknown: a transport error, or a journal error after dispatch. *)
ReplyUnknown ==
    /\ proc.at \in Replied
    /\ hist.phase \in {"START_INTENT", "CANCEL_INTENT", "CONTINUE_INTENT"}
    /\ RecordAndExit(OutcomeUnknown(hist, "active"))

(* The connection is lost, a callback fails, the event limit is reached, or *)
(* the intent to continue or to cancel cannot be written.                   *)
LoopUnknown ==
    /\ proc.at = "run"
    /\ hist.phase \in Running
    /\ RecordAndExit(OutcomeUnknown(hist, "active"))

(* The next event, after parse_service_event and the reducer's accept. *)
Arrived(kinds) ==
    /\ proc.at = "run"
    /\ hist.phase \in Running
    /\ events # <<>>
    /\ Head(events).kind \in kinds

RecordEvent(H, at) ==
    /\ Journal(H)
    /\ Goto(at)
    /\ events' = Tail(events)
    /\ UNCHANGED <<store, sep, boot, sent>>

IgnoreEvent ==
    /\ \/ Arrived({"ambient"})
       \/ Arrived({"feedback"}) /\ hist.phase = "ACTIVE"
    /\ events' = Tail(events)
    /\ UNCHANGED <<jr, proc, store, sep, boot, sent>>

AcceptProgress ==
    /\ Arrived({"progress"})
    /\ hist.phase = "ACTIVE"
    /\ RecordEvent(ContinueIntent(hist, Head(events).seq), "send")

(* Mutant: a failed scan is not taken as the end of the operation. *)
MutAcceptTerminal ==
    LET seq == Head(events).seq
    IN  \/ /\ Arrived({"identity"})
           /\ RecordEvent(TerminalIdentity(hist, seq, proc.op), "run")
        \/ Arrived({"witness"}) /\ RecordEvent(ResultWitnessed(hist, seq), "run")

AcceptTerminal ==
    LET seq == Head(events).seq
    IN  \/ /\ Arrived({"identity"})
           /\ RecordEvent(TerminalIdentity(hist, seq, proc.op), "run")
        \/ Arrived({"witness"}) /\ RecordEvent(ResultWitnessed(hist, seq), "run")
        \/ Arrived({"failed"}) /\ RecordEvent(TerminalFailure(hist, seq), "run")

(* The reducer freezes: a malformed, repeated or late event, or anything *)
(* but a terminal event after the cancel.                                *)
RejectEvent ==
    /\ \/ Arrived({"malformed"})
       \/ Arrived({"feedback", "progress"}) /\ hist.phase = "CANCEL_REQUESTED"
    /\ RecordAndExit(OutcomeUnknown(hist, "terminal"))

(* The record of a terminal event cannot be written. *)
TerminalUnrecorded ==
    /\ Arrived({"identity", "witness", "failed"})
    /\ RecordAndExit(OutcomeUnknown(hist, "terminal"))

-----------------------------------------------------------------------------
(* Read-backs (t2_enrollment_reconciliation). *)

Snapshot == [host |-> host, ids |-> sep.ids]
Added(h) == sep.ids \ h.ids

(* _classify_observed_identity: one addition in the SEP, an unchanged host. *)
ObservedIdentity(h) ==
    /\ host = h.host
    /\ h.ids \subseteq sep.ids
    /\ Cardinality(Added(h)) = 1

(* classify, for a save that ended with an identity ... *)
SuccessMatches(h) ==
    /\ Added(h) = {h.identity}
    /\ host.ids # h.host.ids
    /\ host.biolockout # h.host.biolockout
    /\ host.master > h.host.master

(* ... for the bio-lockout refresh of a failed enrollment ... *)
FailureMatches(h) ==
    /\ Added(h) = {}
    /\ host.ids = h.host.ids
    /\ host.master = h.host.master
    /\ sep.ids = h.ids

(* ... and for anything else, which must have changed nothing. *)
NoChangeMatches(h) == Added(h) = {} /\ host = h.host /\ sep.ids = h.ids

classify(h, saveDone) ==
    /\ pend.dir = "none"
    /\ host.ids = sep.ids
    /\ h.ids \subseteq sep.ids
    /\ CASE saveDone /\ h.identity # NoIdentity -> SuccessMatches(h)
         [] saveDone /\ h.identity = NoIdentity -> FailureMatches(h)
         [] ~saveDone -> NoChangeMatches(h)

-----------------------------------------------------------------------------
(* BuiltinEnrollmentFinalizer. *)

AdoptWitness ==
    /\ At("TERMINAL_WITNESS", "run")
    /\ ObservedIdentity(hist)
    /\ \E id \in Added(hist) : Record(WitnessReadback(hist, id), "run")

WitnessUnknown ==
    /\ At("TERMINAL_WITNESS", "run")
    /\ RecordAndExit(OutcomeUnknown(hist, "terminal"))

(* The plan of a successful scan follows the SEP's save list, which must   *)
(* want exactly the user component saved besides master.                   *)
PlanPersistence ==
    /\ Saving("NOT_STARTED", "run")
    /\ pend.dir = "none"
    /\ hist.identity # NoIdentity => "user" \in sep.dirty
    /\ Record(PlanSave(hist), "run")

(* The finalizer refuses the outcome: a store with a transaction, another   *)
(* save list, or a clock behind master's.  Its journal stays terminal.      *)
RefusePlan ==
    /\ Saving("NOT_STARTED", "run")
    /\ pend.dir # "none" \/ hist.identity # NoIdentity
    /\ Exit
    /\ UNCHANGED <<jr, store, sep, boot, sent>>

BeginStage ==
    /\ Saving("COMPONENT_READY", "run")
    /\ saved.component = 1
    /\ pend.dir = "none"
    /\ pend' = [NoPending EXCEPT !.dir = "prepare"]
    /\ UNCHANGED <<jr, proc, host, outside, boot>>

IntendPrepare ==
    /\ Saving("COMPONENT_READY", "run")
    /\ pend.dir = "prepare"
    /\ Record(Persist(hist, PrepareIntent(saved)), "send")

DispatchPrepare ==
    /\ Saving("PREPARE_INTENT", "send")
    /\ Dispatch(<<"prepare", Current(saved)>>, sep)

ObservePrepare ==
    /\ Saving("PREPARE_INTENT", "ok")
    /\ Record(Persist(hist, Prepared(saved)), "run")

IntendComplete ==
    /\ Saving("PREPARED", "run")
    /\ Record(Persist(hist, CompleteIntent(saved)), "send")

DispatchComplete ==
    /\ Saving("COMPLETE_INTENT", "send")
    /\ Dispatch(<<"complete", Current(saved)>>, sep)

CaptureBlob ==
    /\ Saving("COMPLETE_INTENT", "ok")
    /\ Record(Persist(hist, BlobCaptured(saved)), "run")

(* stage_component: the file exists before all its bytes are durable. *)
CreateStaged ==
    /\ Saving("SECURE_BLOB_CAPTURED", "run")
    /\ pend' = [pend EXCEPT !.torn = TRUE]
    /\ Goto("staging")
    /\ UNCHANGED <<jr, host, outside, boot>>

StageComponent ==
    /\ Saving("SECURE_BLOB_CAPTURED", "staging")
    /\ pend' = [pend EXCEPT !.torn = FALSE, !.files = @ \cup {Current(saved)}]
    /\ Goto("staged")
    /\ UNCHANGED <<jr, host, outside, boot>>

RecordStaged ==
    /\ Saving("SECURE_BLOB_CAPTURED", "staged")
    /\ Record(Persist(hist, HostStaged(saved)), "run")

IntendConfirm ==
    /\ Saving("HOST_STAGED", "run")
    /\ Record(Persist(hist, ConfirmIntent(saved)), "send")

Cleaned == [sep EXCEPT !.dirty = @ \ {Current(saved)}]

DispatchConfirm ==
    /\ Saving("CONFIRM_INTENT", "send")
    /\ Dispatch(<<"confirm", Current(saved)>>, Cleaned)

ObserveConfirm ==
    /\ Saving("CONFIRM_INTENT", "ok")
    /\ Record(Persist(hist, Confirmed(saved)), "run")

(* Mutant: the commit is journaled and left to a later recovery. *)
MutIntendCommit ==
    /\ Saving("HOST_STAGED", "run")
    /\ Record(Persist(hist, CommitIntent(saved)), "crossed")

IntendCommit ==
    /\ Saving("HOST_STAGED", "run")
    /\ Record(Persist(hist, CommitIntent(saved)), "cross")

(* cross_commit_boundary: the rename, then the promotion of the files. *)
CrossBoundary ==
    /\ Saving("BATCH_COMMIT_INTENT", "cross")
    /\ pend' = [pend EXCEPT !.dir = "commit"]
    /\ Goto("promote")
    /\ UNCHANGED <<jr, host, outside, boot>>

Promoted(h) ==
    [ids |-> IF "user" \in pend.files THEN host.ids \cup {h.identity} ELSE host.ids,
     master |-> IF "master" \in pend.files THEN host.master + 1 ELSE host.master,
     biolockout |-> IF "biolockout" \in pend.files THEN proc.op ELSE host.biolockout]

RollForward ==
    /\ Saving("BATCH_COMMIT_INTENT", "promote")
    /\ host' = Promoted(hist)
    /\ pend' = NoPending
    /\ Goto("crossed")
    /\ UNCHANGED <<jr, outside, boot>>

RecordCommitted ==
    /\ Saving("BATCH_COMMIT_INTENT", "crossed")
    /\ Record(Persist(hist, Committed(saved)), "run")

IntendFinalConfirm ==
    /\ Saving("BATCH_COMMITTED", "run")
    /\ Record(Persist(hist, FinalConfirmIntent(saved)), "send")

DispatchFinalConfirm ==
    /\ Saving("FINAL_CONFIRM_INTENT", "send")
    /\ Dispatch(<<"confirm", Current(saved)>>, Cleaned)

ObserveFinalConfirm ==
    /\ Saving("FINAL_CONFIRM_INTENT", "ok")
    /\ Record(Persist(hist, FinalConfirmed(saved)), "run")

Attest ==
    /\ Saving("ATTESTATION_READY", "run")
    /\ classify(hist, TRUE)
    /\ Record(Persist(hist, Attested(saved)), "run")

(* append_reconciled with the snapshots of the read-back just made: E3. *)
ReconcileE3 ==
    /\ At("PERSISTENCE_READY", "run")
    /\ Journal(Reconciled(hist, Added(hist), Snapshot))
    /\ Exit
    /\ UNCHANGED <<store, sep, boot, sent>>

(* _freeze.  Where the phase is left by an intent that was journaled and   *)
(* whose command, or file operation, may have failed halfway.              *)
FreezeSave ==
    LET Frozen(stage, possible) ==
            RecordAndExit(Persist(hist, Freeze(saved, stage, possible)))
    IN  \/ \E at \in Replied : Saving("PREPARE_INTENT", at) /\ Frozen("prepare", FALSE)
        \/ \E at \in Replied : Saving("COMPLETE_INTENT", at) /\ Frozen("complete", FALSE)
        \/ Saving("SECURE_BLOB_CAPTURED", "run") /\ Frozen("encode", FALSE)
        \/ \E at \in {"run", "staging", "staged"} :
              Saving("SECURE_BLOB_CAPTURED", at) /\ Frozen("host-stage", FALSE)
        \/ \E at \in Replied :
              Saving("CONFIRM_INTENT", at) /\ Frozen("early-confirm", FALSE)
        \/ \E at \in {"cross", "promote", "crossed"} :
              Saving("BATCH_COMMIT_INTENT", at) /\ Frozen("host-commit", TRUE)
        \/ \E at \in Replied :
              Saving("FINAL_CONFIRM_INTENT", at) /\ Frozen("final-confirm", TRUE)
        \/ Saving("ATTESTATION_READY", "run") /\ Frozen("readback", TRUE)

-----------------------------------------------------------------------------
(* The recovery commands.  Each wants exactly one unfinished journal. *)

Sole(S, o) == S = {o}

(* --reconcile-outcome-unknown *)
ReconcileOutcomeUnknown ==
    \E o \in DOMAIN jr :
        /\ proc = Idle
        /\ Sole(Unfinished, o)
        /\ classify(jr[o], ReadbackUnknown(jr[o]))
        /\ \E h \in RecoveryReconciled(jr[o], Added(jr[o]), Snapshot) :
              jr' = [jr EXCEPT ![o] = h]
        /\ sep' = Connected
        /\ UNCHANGED <<proc, store, events, boot, sent>>

RecoverCommand(o) ==
    /\ proc = Idle
    /\ Sole(Unfinished, o)
    /\ jr[o].phase = "OUTCOME_UNKNOWN"
    /\ jr[o].unknown = "terminal"
    /\ ObservedIdentity(jr[o])
    /\ proc' = [cmd |-> "observe", op |-> o, at |-> "run"]
    /\ sep' = Connected
    /\ UNCHANGED <<store, events, boot, sent>>

EarlyConfirmPending(t) ==
    /\ t.phase = "OUTCOME_UNKNOWN"
    /\ t.stage = "early-confirm"
    /\ ~t.commitPossible
    /\ t.batch = 1 /\ t.component = 1
    /\ Cardinality(t.staged) = 1

(* --recover-observed-identity: the SEP holds one identity more than the    *)
(* host, and the command goes on to save it ...                             *)
RecoverObservedIdentity ==
    \E o \in DOMAIN jr :
        /\ RecoverCommand(o)
        /\ ~EarlyConfirmPending(jr[o].persistence)
        /\ pend.dir = "none"
        /\ \E id \in Added(jr[o]) : \E h \in RecoveryReadback(jr[o], id) :
              jr' = [jr EXCEPT ![o] = h]

(* ... or the save had stopped at the early confirm, which has arrived, and *)
(* goes on with master.                                                     *)
ResumeEarlyConfirm ==
    \E o \in DOMAIN jr :
        /\ RecoverCommand(o)
        /\ EarlyConfirmPending(jr[o].persistence)
        /\ pend = [dir |-> "prepare", files |-> jr[o].persistence.staged, torn |-> FALSE]
        /\ Added(jr[o]) = {jr[o].identity}
        /\ sep.dirty = {"master"}
        /\ \E h \in RecoverEarlyConfirm(jr[o]) : jr' = [jr EXCEPT ![o] = h]

(* --recover-local-transaction: the direction is journaled first. *)
LocalStage(dir) ==
    IF dir = "prepare" THEN "local-prepare-discarded" ELSE "local-commit-rolled-forward"

(* Mutant: the files are touched before the direction is journaled. *)
MutRecoverLocal ==
    \E o \in DOMAIN jr :
        /\ proc = Idle
        /\ Sole(Unfinished, o)
        /\ jr[o].phase \in {"PERSISTING", "OUTCOME_UNKNOWN"}
        /\ pend.dir # "none"
        /\ proc' = [cmd |-> "local", op |-> o, at |-> "local"]
        /\ UNCHANGED <<jr, store, outside, boot>>

RecoverLocal ==
    \E o \in DOMAIN jr :
        LET h == jr[o]
            t == h.persistence
            stage == LocalStage(pend.dir)
        IN  /\ proc = Idle
            /\ Sole(Unfinished, o)
            /\ h.phase \in {"PERSISTING", "OUTCOME_UNKNOWN"}
            /\ pend.dir # "none"
            /\ t.batch # 0
            /\ pend.dir = "commit" =>
                  t.staged = BatchNames(t) /\ t.phase = "BATCH_COMMIT_INTENT"
            /\ \/ \E g \in OutcomeUnknown(h, stage) : jr' = [jr EXCEPT ![o] = g]
               \/ h.phase = "OUTCOME_UNKNOWN" /\ h.unknown = stage /\ UNCHANGED jr
            /\ proc' = [cmd |-> "local", op |-> o, at |-> "local"]
            /\ UNCHANGED <<store, outside, boot>>

DiscardLocal ==
    /\ proc.at = "local"
    /\ pend.dir = "prepare"
    /\ ~pend.torn
    /\ pend' = NoPending
    /\ Exit
    /\ UNCHANGED <<jr, host, sep, boot, sent>>

(* A torn file is not schema-valid: the discard refuses it. *)
RefuseDiscard ==
    /\ proc.at = "local"
    /\ pend.dir = "prepare"
    /\ pend.torn
    /\ Exit
    /\ UNCHANGED <<jr, store, sep, boot, sent>>

RollLocalForward ==
    /\ proc.at = "local"
    /\ pend.dir = "commit"
    /\ host' = Promoted(hist)
    /\ pend' = NoPending
    /\ Exit
    /\ UNCHANGED <<jr, sep, boot, sent>>

(* --verify-post-reboot, and the boot-time reconciler: classify is run as  *)
(* if the save had just been attested, so it also wants its digest.        *)
PostRebootAccepts(o) ==
    /\ Sole(PendingPostReboot, o)
    /\ classify(jr[o], TRUE)
    /\ jr[o].persistence.attested

VerifyPostReboot ==
    \E o \in DOMAIN jr :
        /\ proc = Idle
        /\ PostRebootAccepts(o)
        /\ \E h \in PostRebootVerified(jr[o], boot, Snapshot) :
              jr' = [jr EXCEPT ![o] = h]
        /\ sep' = Connected
        /\ UNCHANGED <<proc, store, events, boot, sent>>

-----------------------------------------------------------------------------
(* The SEP and the faults. *)

(* An event reaches the connection that is there, if any. *)
Emit(kind) ==
    events' = IF proc = Idle THEN <<>>
              ELSE Append(events, [kind |-> kind, seq |-> sep.seq + 1])

SepEvent ==
    /\ proc # Idle
    /\ sep.scan # 0
    /\ sep.seq < MaxEvents
    /\ \E kind \in {"ambient", "feedback", "progress", "malformed"} : Emit(kind)
    /\ sep' = [sep EXCEPT !.seq = @ + 1]
    /\ UNCHANGED <<jr, proc, store, boot, sent>>

(* A result whose embedded user is another one may belong to another user, *)
(* and a failure may still have added an identity.                         *)
SepFinish ==
    /\ sep.scan # 0
    /\ \E kind \in {"identity", "witness", "failed"}, added \in BOOLEAN :
          /\ kind = "identity" => added
          /\ Emit(kind)
          /\ sep' = [sep EXCEPT !.scan = 0,
                                !.ids = IF added THEN @ \cup {sep.scan} ELSE @,
                                !.dirty = IF added THEN {"user", "master"} ELSE @]
    /\ UNCHANGED <<jr, proc, store, boot, sent>>

Crash ==
    /\ proc # Idle
    /\ Exit
    /\ UNCHANGED <<jr, store, sep, boot, sent>>

Reboot ==
    /\ boot < MaxBoot
    /\ boot' = boot + 1
    /\ Exit
    /\ sep' \in {Connected, [ids |-> host.ids, dirty |-> {}, scan |-> 0, seq |-> 0]}
    /\ UNCHANGED <<jr, store, sent>>

-----------------------------------------------------------------------------
Init ==
    /\ jr = <<>> /\ sent = <<>>
    /\ proc = Idle
    /\ \E ids \in SUBSET {Original} :
          /\ host = [ids |-> ids, master |-> 0, biolockout |-> 0]
          /\ sep = [ids |-> ids, dirty |-> {}, scan |-> 0, seq |-> 0]
    /\ pend = NoPending
    /\ events = <<>>
    /\ boot = 1

Operate ==
    \/ CapacityExhausted \/ AbortBeforeStart \/ IntendStart \/ DispatchStart
    \/ ObserveStart \/ DispatchCancel \/ ObserveCancel
    \/ DispatchContinue \/ ObserveContinue \/ ReplyUnknown
    \/ IgnoreEvent \/ AcceptProgress \/ AcceptTerminal \/ RejectEvent

Save ==
    \/ AdoptWitness \/ WitnessUnknown \/ PlanPersistence \/ RefusePlan \/ BeginStage
    \/ IntendPrepare \/ DispatchPrepare \/ ObservePrepare
    \/ IntendComplete \/ DispatchComplete \/ CaptureBlob
    \/ CreateStaged \/ StageComponent \/ RecordStaged
    \/ IntendConfirm \/ DispatchConfirm \/ ObserveConfirm
    \/ IntendCommit \/ CrossBoundary \/ RollForward \/ RecordCommitted
    \/ IntendFinalConfirm \/ DispatchFinalConfirm \/ ObserveFinalConfirm
    \/ Attest \/ ReconcileE3 \/ FreezeSave

FinishLocal == DiscardLocal \/ RefuseDiscard \/ RollLocalForward

Recover ==
    \/ ReconcileOutcomeUnknown \/ RecoverObservedIdentity \/ ResumeEarlyConfirm
    \/ RecoverLocal \/ VerifyPostReboot

Interrupt == RequestCancel \/ LoopUnknown \/ TerminalUnrecorded \/ Crash \/ Reboot

Next ==
    \/ Enroll \/ Operate \/ Save \/ FinishLocal \/ Recover
    \/ SepEvent \/ SepFinish \/ Interrupt

Spec == Init /\ [][Next]_vars

(* A command that runs goes on running, a scan ends (the SEP times it out), *)
(* and the boot-time service verifies what it can.                          *)
FairSpec ==
    /\ Spec
    /\ WF_vars(Operate \/ Save \/ FinishLocal)
    /\ WF_vars(SepFinish)
    /\ WF_vars(VerifyPostReboot)

-----------------------------------------------------------------------------
(* Properties. *)

Identities == 1..Original
HostType == [ids : SUBSET Identities, master : 0..MaxOps, biolockout : 0..MaxOps]

HistoryOK(h) ==
    /\ h.phase \in EnrollmentPhases
    /\ h.boot \in 1..MaxBoot
    /\ h.host \in HostType
    /\ h.ids \subseteq Identities
    /\ h.last \in 0..(MaxEvents + 1) /\ h.pending \in 0..MaxEvents
    /\ h.identity \in 1..MaxOps \cup {NoIdentity}
    /\ h.failed \in BOOLEAN
    /\ h.unknown \in InterruptedStages \cup LocalStages \cup {"none"}
    /\ h.persistence \in Trackers
    /\ h.persistence.batch \in 0..Len(h.persistence.batches)

TypeOK ==
    /\ Len(jr) <= MaxOps /\ \A o \in DOMAIN jr : HistoryOK(jr[o])
    /\ proc.op \in 0..Len(jr)
    /\ host \in HostType
    /\ pend \in [dir : {"none", "prepare", "commit"}, files : SUBSET Names, torn : BOOLEAN]
    /\ sep \in [ids : SUBSET Identities, dirty : SUBSET Names, scan : 0..MaxOps, seq : 0..MaxEvents]
    /\ boot \in 1..MaxBoot

(* However often commands stop and are recovered, no command of an         *)
(* operation reaches the SEP twice: no second start, no component prepared,*)
(* completed or confirmed again, no event continued again.                 *)
NoReplay == \A o \in DOMAIN sent : IsInjective(sent[o])

(* The SEP and the host never disagree on the identities unless a journal  *)
(* is there that blocks every new mutation until it is reconciled: intents *)
(* are durable before their commands, also for a scan that ends after the  *)
(* process is gone.                                                        *)
DisagreementBlocks ==
    host.ids # sep.ids => \E o \in DOMAIN jr : Blocks(jr[o])

(* The SEP is told that master is saved only when the host root holds every *)
(* identity of the SEP: the final confirm follows the host commit.          *)
ConfirmedIsDurable == "master" \notin sep.dirty => sep.ids \subseteq host.ids

(* At most one journal is unfinished or waits for its reboot; the recovery *)
(* commands refuse any other number.                                       *)
OneUnfinished == Cardinality(Unfinished \cup PendingPostReboot) <= 1

(* A transaction of the host store is resolved only in the direction that  *)
(* the journal recorded first: prepare/ is discarded after                 *)
(* local-prepare-discarded, and files are promoted after a commit intent.  *)
RecoveryFollowsJournal ==
    [][/\ pend.dir = "prepare" /\ pend'.dir = "none" =>
             \E o \in Unfinished : jr[o].unknown = "local-prepare-discarded"
       /\ host' # host =>
             \E o \in Unfinished : /\ jr[o].persistence.phase = "BATCH_COMMIT_INTENT"
                                   /\ jr[o].persistence.staged = pend.files]_vars

(* What a reconciled identity waits to have verified after the reboot stays *)
(* as it was: "a pending E4 blocks another enrollment so later mutations    *)
(* cannot invalidate its snapshot".                                         *)
PendingSnapshotHolds == \A o \in PendingPostReboot : Snapshot = jr[o].snapshot

(* Every command ends: no append that it makes is refused by the journal,  *)
(* and every event and reply is handled.                                   *)
CommandEnds == proc # Idle ~> proc = Idle

(* A save that was attested and reconciled is verified once the machine    *)
(* has rebooted: nothing later invalidates its snapshot.                   *)
SuccessIsVerified ==
    \A o \in 1..MaxOps :
        (/\ o \in DOMAIN jr
         /\ jr[o].phase = "RECONCILED" /\ jr[o].persistence.attested
         /\ jr[o].identity # NoIdentity
         /\ boot # jr[o].boot)
        ~> o \in DOMAIN jr /\ jr[o].phase = "POST_REBOOT_VERIFIED"

=============================================================================
