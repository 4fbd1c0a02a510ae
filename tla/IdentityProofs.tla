--------------------------- MODULE IdentityProofs ---------------------------
(***************************************************************************)
(* Theorems about IdentityManagement.                                      *)
(*                                                                         *)
(* That a delete command is sent once is not inductive: it says nothing of *)
(* an operation that has sent none.  Once adds that none is sent before    *)
(* the intent to dispatch it is journaled, nor while the command that      *)
(* journaled it has yet to send it, and that no record of a deletion leads *)
(* back there.  Only the command that wrote the intent can stand at        *)
(* "send" under it: a recovery takes the journal up elsewhere.             *)
(*                                                                         *)
(* That the SEP and the host agree, or else a journal blocks and the SEP   *)
(* knows what is not saved, needs the whole way of a deletion.  Ids(c)     *)
(* names the one operation c that may be open.  Without it both sides have *)
(* the same identities; a rename or a sync keeps them so, as what it has   *)
(* staged has the root's; and a deletion has the baseline's identities or  *)
(* the survivors on each side, with the survivors staged, and then in the  *)
(* root, at the steps of the save that come before the final confirm.      *)
(*                                                                         *)
(* That no adaptive update is lost, that a mutation is closed with its     *)
(* outcome and that files follow the journal need more of c: WellFor(c).   *)
(* Updates are numbered, and at every step of a save it says which of the  *)
(* SEP, the root and the staged file has the later one (Ages, SavesWell,   *)
(* SyncsWell).  Held says that the host has every update the SEP believes  *)
(* saved; it fails only for a sync between its early confirm and the host  *)
(* commit (Lagging), whose journal blocks and has no host commit, without  *)
(* which no recovery takes it up.  Untouched says when the root is still   *)
(* the baseline's, Contents and Settled what else it holds, and Stands     *)
(* that a recovery at the files goes the way that the journal names.       *)
(***************************************************************************)
EXTENDS IdentityManagement, SequenceTheorems, TLAPS

\* The fields of a history that the argument looks at.
History(h) == {"kind", "phase", "base", "target", "persistence", "file"} \subseteq DOMAIN h

\* The journals and the counters, and the operation of the running command.
Lists ==
    /\ \E S : jr \in Seq(S)
    /\ dispatched \in Seq({0, 1}) /\ Len(dispatched) = Len(jr)
    /\ \A o \in DOMAIN jr : History(jr[o])
Command ==
    /\ {"cmd", "op", "at"} \subseteq DOMAIN proc
    /\ proc = Idle \/ proc.op \in DOMAIN jr

\* The delete command of the operation has yet to be sent.
Unsent(o) ==
    /\ jr[o].kind = "delete"
    /\ \/ jr[o].phase \in {"BASELINE", "INTENT"}
       \/ jr[o].phase = "DISPATCH_INTENT" /\ proc.op = o /\ proc.at = "send"

Once == Lists /\ Command /\ \A o \in DOMAIN jr : Unsent(o) => dispatched[o] = 0

-----------------------------------------------------------------------------
(* Steps on one journal. *)

\* A list has room for one more value.
LEMMA Wider ==
    ASSUME NEW S, NEW s \in Seq(S), NEW h
    PROVE  s \in Seq(S \cup {h}) /\ h \in S \cup {h}
<1>1. s \in [1 .. Len(s) -> S] /\ Len(s) \in Nat
  OBVIOUS
<1> DEFINE R == S \cup {h}
<1>2. s \in [1 .. Len(s) -> R]
  BY <1>1
<1> HIDE DEF R
<1>3. s \in Seq(R)
  BY <1>1, <1>2, SeqDef
<1> QED BY <1>3 DEF R

\* The domains of the two lists are the same.
LEMMA SameOperations == ASSUME Lists PROVE DOMAIN dispatched = DOMAIN jr
<1>1. PICK S : jr \in Seq(S)
  BY DEF Lists
<1> QED BY <1>1 DEF Lists

\* The operation o gets the record h, and the command goes on with o or ends.
Wrote(o, h) ==
    /\ o \in DOMAIN jr /\ jr' = [jr EXCEPT ![o] = h] /\ dispatched' = dispatched
    /\ History(h) /\ h.kind = jr[o].kind
    /\ proc' = Idle \/ ({"cmd", "op", "at"} \subseteq DOMAIN proc' /\ proc'.op = o)

\* Such a step leads to no unsent command but from one.
LEMMA WroteOnce ==
    ASSUME Once, NEW o, NEW h, Wrote(o, h), Unsent(o)' => dispatched[o] = 0
    PROVE  Once'
<1>1. PICK S : jr \in Seq(S)
  BY DEF Once, Lists
<1>2. PICK R : R = S \cup {h}
  OBVIOUS
<1>3. jr \in Seq(R) /\ h \in R /\ o \in 1 .. Len(jr)
  BY <1>1, <1>2, Wider DEF Wrote
<1>4. /\ jr' \in Seq(R) /\ Len(jr') = Len(jr) /\ DOMAIN jr' = DOMAIN jr /\ jr'[o] = h
      /\ \A p \in DOMAIN jr : p # o => jr'[p] = jr[p]
  <2>1. jr' = [jr EXCEPT ![o] = h]
    BY DEF Wrote
  <2> QED BY <1>3, <2>1, ExceptSeq
<1>5. Lists'
  BY <1>4 DEF Once, Lists, Wrote
<1>6. Command'
  BY <1>4 DEF Wrote, Command, Idle
<1>7. ASSUME NEW p \in DOMAIN jr, p # o, Unsent(p)'
      PROVE  dispatched[p] = 0
  <2>1. ~(proc'.op = p /\ proc'.at = "send")
    BY <1>7 DEF Wrote, Idle
  <2>2. Unsent(p)
    BY <1>4, <1>7, <2>1 DEF Unsent
  <2> QED BY <1>7, <2>2 DEF Once
<1>8. \A p \in DOMAIN jr' : Unsent(p)' => dispatched'[p] = 0
  BY <1>4, <1>7 DEF Wrote
<1> QED BY <1>5, <1>6, <1>8 DEF Once

\* The journals stay, and the command goes on, but not to send, or ends.
LEMMA StayOnce ==
    ASSUME Once, UNCHANGED <<jr, dispatched>>,
           \/ proc' = Idle
           \/ {"cmd", "op", "at"} \subseteq DOMAIN proc' /\ proc'.op \in DOMAIN jr /\ proc'.at # "send"
    PROVE  Once'
<1>1. Lists' /\ Command'
  BY DEF Once, Lists, Command, Idle
<1>2. \A o \in DOMAIN jr : Unsent(o)' => Unsent(o)
  BY DEF Unsent, Idle
<1> QED BY <1>1, <1>2 DEF Once

\* A record of H keeps what the operation is, and if it comes before the
\* delete command, so does the history that it is appended to.
Passes(h, H) ==
    \A g \in H :
        /\ History(g) /\ g.kind = h.kind /\ g.base = h.base
        /\ g.target = h.target \/ h.phase = "BASELINE"
        /\ g.phase \in {"BASELINE", "INTENT", "DISPATCH_INTENT"} =>
              h.phase \in {"BASELINE", "INTENT"} \/ h.kind = "sync"

\* The milestones of a rename, ...
LEMMA RenamePasses ==
    ASSUME NEW h, History(h), NEW action, NEW committed \in BOOLEAN, NEW b
    PROVE  /\ Passes(h, RenameIntent(h)) /\ Passes(h, RenameAborted(h))
           /\ Passes(h, RenameReconciled(h)) /\ Passes(h, RenameRecoveryIntent(h, action))
           /\ Passes(h, RenameRecovered(h, committed)) /\ Passes(h, RenameVerified(h, b))
<1>1. Passes(h, RenameIntent(h))
  BY DEF Passes, History, RenameIntent, Moved, Only
<1>2. Passes(h, RenameAborted(h)) /\ Passes(h, RenameReconciled(h))
  BY DEF Passes, History, RenameAborted, RenameReconciled, Moved, Only
<1>3. Passes(h, RenameRecoveryIntent(h, action))
  BY DEF Passes, History, RenameRecoveryIntent, Only
<1>4. Passes(h, RenameRecovered(h, committed))
  BY DEF Passes, History, RenameRecovered, Only
<1>5. Passes(h, RenameVerified(h, b))
  BY DEF Passes, History, RenameVerified, Only
<1> QED BY <1>1, <1>2, <1>3, <1>4, <1>5

\* ... of a deletion, ...
LEMMA DeletePasses ==
    ASSUME NEW h, History(h), NEW id, NEW status, NEW action, NEW archive,
           NEW committed \in BOOLEAN, NEW b
    PROVE  /\ Passes(h, DeleteIntent(h, id)) /\ Passes(h, DispatchIntent(h))
           /\ Passes(h, CommandObserved(h, status)) /\ Passes(h, SepAbsenceObserved(h))
           /\ Passes(h, NotPerformed(h)) /\ Passes(h, DeleteOutcomeUnknown(h))
           /\ Passes(h, DeleteRecoveryIntent(h, action, b))
           /\ Passes(h, RecoveryAbsenceObserved(h, archive))
           /\ Passes(h, DeleteRecovered(h, committed)) /\ Passes(h, DeleteReconciled(h))
           /\ Passes(h, DeleteVerified(h, b))
<1>1. Passes(h, DeleteIntent(h, id))
  BY DEF Passes, History, DeleteIntent, Only
<1>2. Passes(h, DispatchIntent(h))
  BY DEF Passes, History, DispatchIntent, Moved, Only
<1>3. Passes(h, CommandObserved(h, status))
  BY DEF Passes, History, CommandObserved, Only
<1>4. Passes(h, SepAbsenceObserved(h)) /\ Passes(h, DeleteOutcomeUnknown(h))
  BY DEF Passes, History, SepAbsenceObserved, DeleteOutcomeUnknown, Moved, Only
<1>5. Passes(h, NotPerformed(h))
  BY DEF Passes, History, NotPerformed, Only
<1>6. Passes(h, DeleteRecoveryIntent(h, action, b))
  BY DEF Passes, History, DeleteRecoveryIntent, Only
<1>7. Passes(h, RecoveryAbsenceObserved(h, archive))
  BY DEF Passes, History, RecoveryAbsenceObserved, Only
<1>8. Passes(h, DeleteRecovered(h, committed))
  <2>1. \A g \in DeleteRecovered(h, committed) :
            \/ g = [h EXCEPT !.phase = "RECONCILED", !.settled = h.rboot]
            \/ g = [h EXCEPT !.phase = "ABORTED"]
    BY DEF DeleteRecovered, Only
  <2> QED BY <2>1 DEF Passes, History
<1>9. Passes(h, DeleteReconciled(h))
  <2>1. \A g \in DeleteReconciled(h) : \E x : g = [h EXCEPT !.phase = "RECONCILED", !.settled = x]
    BY DEF DeleteReconciled, Only
  <2> QED BY <2>1 DEF Passes, History
<1>10. Passes(h, DeleteVerified(h, b))
  BY DEF Passes, History, DeleteVerified, Only
<1> QED BY <1>1, <1>2, <1>3, <1>4, <1>5, <1>6, <1>7, <1>8, <1>9, <1>10

\* ... of a sync, ...
LEMMA SyncPasses ==
    ASSUME NEW h, History(h), NEW root
    PROVE  /\ Passes(h, SyncIntent(h)) /\ Passes(h, SyncAborted(h))
           /\ Passes(h, SyncHostCommitted(h, root)) /\ Passes(h, SyncReconciled(h, root))
           /\ Passes(h, SyncOutcomeUnknown(h)) /\ Passes(h, SyncRecoveredClean(h, root))
           /\ h.kind = "sync" => Passes(h, SyncRecoveryIntent(h, root))
<1>1. Passes(h, SyncIntent(h)) /\ Passes(h, SyncAborted(h)) /\ Passes(h, SyncOutcomeUnknown(h))
  BY DEF Passes, History, SyncIntent, SyncAborted, SyncOutcomeUnknown, Moved, Only
<1>2. Passes(h, SyncHostCommitted(h, root))
  BY DEF Passes, History, SyncHostCommitted, Only
<1>3. Passes(h, SyncReconciled(h, root))
  BY DEF Passes, History, SyncReconciled, Only
<1>4. Passes(h, SyncRecoveredClean(h, root))
  BY DEF Passes, History, SyncRecoveredClean, Only
<1>5. h.kind = "sync" => Passes(h, SyncRecoveryIntent(h, root))
  BY DEF Passes, History, SyncRecoveryIntent, Only
<1> QED BY <1>1, <1>2, <1>3, <1>4, <1>5

\* ... and of a save.
LEMMA SavePasses ==
    ASSUME NEW h, History(h), NEW T, NEW file
    PROVE  Passes(h, Saved(h, T, file))
<1>1. SUFFICES ASSUME NEW g \in Saved(h, T, file)
               PROVE  /\ History(g) /\ g.kind = h.kind /\ g.base = h.base /\ g.target = h.target
                      /\ g.phase \notin {"BASELINE", "INTENT", "DISPATCH_INTENT"}
  BY DEF Passes
<1>2. PICK t \in T : g = [h EXCEPT !.persistence = t, !.phase = SavePhase(t), !.file = file]
  BY DEF Saved
<1>3. PICK x : x = SavePhase(t)
  OBVIOUS
<1>4. x \in {"PERSISTENCE_READY", "OUTCOME_UNKNOWN", "PERSISTING"}
  BY <1>3 DEF SavePhase
<1>5. /\ g.phase = x /\ g.kind = h.kind /\ g.base = h.base /\ g.target = h.target
      /\ DOMAIN g = DOMAIN h
  <2>1. g = [h EXCEPT !.persistence = t, !.phase = x, !.file = file]
    BY <1>2, <1>3
  <2> QED BY <2>1 DEF History
<1> QED BY <1>4, <1>5 DEF History

\* A record that passes preserves the invariant.
LEMMA PassesOnce ==
    ASSUME Once, NEW o \in DOMAIN jr, NEW H, Passes(jr[o], H),
           \E h \in H : jr' = [jr EXCEPT ![o] = h], dispatched' = dispatched,
           proc' = Idle \/ ({"cmd", "op", "at"} \subseteq DOMAIN proc' /\ proc'.op = o)
    PROVE  Once'
<1>1. PICK h \in H : jr' = [jr EXCEPT ![o] = h]
  OBVIOUS
<1>2. /\ History(h) /\ h.kind = jr[o].kind
      /\ h.phase \in {"BASELINE", "INTENT", "DISPATCH_INTENT"} =>
            jr[o].phase \in {"BASELINE", "INTENT"} \/ jr[o].kind = "sync"
  BY DEF Passes
<1>3. Wrote(o, h)
  BY <1>1, <1>2 DEF Wrote
<1>4. jr'[o] = h
  <2>1. PICK S : jr \in Seq(S)
    BY DEF Once, Lists
  <2> QED BY <1>1, <2>1
<1>5. Unsent(o)' => Unsent(o)
  BY <1>2, <1>4 DEF Unsent
<1> QED BY <1>3, <1>5, WroteOnce DEF Once

\* A command that stands somewhere has an operation.
Busy == proc.cmd # "none" \/ proc.at # "none"

LEMMA BusyFacts ==
    ASSUME Once, Busy
    PROVE  /\ proc # Idle /\ {"cmd", "op", "at"} \subseteq DOMAIN proc
           /\ proc.op \in DOMAIN jr /\ History(hist)
<1>1. Idle.cmd = "none" /\ Idle.at = "none"
  BY DEF Idle
<1>2. proc # Idle
  BY <1>1 DEF Busy
<1>3. {"cmd", "op", "at"} \subseteq DOMAIN proc /\ proc.op \in DOMAIN jr
  BY <1>2 DEF Once, Command
<1>4. History(jr[proc.op])
  BY <1>3 DEF Once, Lists
<1> QED BY <1>2, <1>3, <1>4 DEF hist

\* It writes a record, and goes on or ends.
LEMMA RecordOnce ==
    ASSUME Once, Busy, NEW H, Passes(hist, H), Journal(H), dispatched' = dispatched,
           Exit \/ \E at : Goto(at)
    PROVE  Once'
<1>1. proc.op \in DOMAIN jr /\ {"cmd", "op", "at"} \subseteq DOMAIN proc
  BY BusyFacts
<1>2. proc' = Idle \/ ({"cmd", "op", "at"} \subseteq DOMAIN proc' /\ proc'.op = proc.op)
  BY <1>1 DEF Exit, Goto
<1> QED BY <1>1, <1>2, PassesOnce DEF Journal, hist

\* It writes no record, and goes on, but not to send, or ends.
LEMMA GoesOnce ==
    ASSUME Once, UNCHANGED <<jr, dispatched>>,
           Exit \/ (Busy /\ \E at : at # "send" /\ Goto(at))
    PROVE  Once'
<1>1. CASE Exit
  BY <1>1, StayOnce DEF Exit
<1>2. CASE Busy /\ \E at : at # "send" /\ Goto(at)
  <2>1. PICK at : at # "send" /\ Goto(at)
    BY <1>2
  <2>2. {"cmd", "op", "at"} \subseteq DOMAIN proc /\ proc.op \in DOMAIN jr
    BY <1>2, BusyFacts
  <2>3. DOMAIN proc' = DOMAIN proc /\ proc'.op = proc.op /\ proc'.at = at
    BY <2>1, <2>2 DEF Goto
  <2> QED BY <2>1, <2>2, <2>3, StayOnce
<1> QED BY <1>1, <1>2

-----------------------------------------------------------------------------
(* The actions. *)

\* A new operation has sent nothing.
LEMMA BeginOnce ==
    ASSUME Once, NEW kind, Begin(kind)
    PROVE  Once'
<1>1. PICK S : jr \in Seq(S)
  BY DEF Once, Lists
<1>2. PICK h : h = Opened(kind, boot, host, Hash)
  OBVIOUS
<1>3. PICK R : R = S \cup {h}
  OBVIOUS
<1>4. jr \in Seq(R) /\ h \in R
  BY <1>1, <1>3, Wider
<1>5. /\ jr' = Append(jr, h) /\ dispatched' = Append(dispatched, 0)
      /\ proc' = [cmd |-> "run", op |-> Len(jr) + 1, at |-> "run"]
  BY <1>2 DEF Begin
<1>6. History(h)
  BY <1>2 DEF History, Opened
<1>7. dispatched \in Seq({0, 1}) /\ Len(dispatched) = Len(jr)
  BY DEF Once, Lists
<1>8. /\ jr' \in Seq(R) /\ Len(jr') = Len(jr) + 1 /\ Len(jr) \in Nat
      /\ jr'[Len(jr) + 1] = h
      /\ \A o \in 1 .. Len(jr) : jr'[o] = jr[o]
      /\ DOMAIN jr = 1 .. Len(jr) /\ DOMAIN jr' = 1 .. Len(jr) + 1
  BY <1>4, <1>5
<1>9. /\ dispatched' \in Seq({0, 1}) /\ Len(dispatched') = Len(dispatched) + 1
      /\ dispatched'[Len(jr) + 1] = 0
      /\ \A o \in 1 .. Len(jr) : dispatched'[o] = dispatched[o]
  BY <1>5, <1>7
<1>10. \A o \in DOMAIN jr' : o = Len(jr) + 1 \/ o \in DOMAIN jr
  BY <1>8
<1>11. Lists'
  <2>1. \A o \in DOMAIN jr' : History(jr'[o])
    BY <1>6, <1>8, <1>10 DEF Once, Lists
  <2> QED BY <1>7, <1>8, <1>9, <2>1 DEF Lists
<1>12. Command'
  <2>1. Len(jr) + 1 \in DOMAIN jr'
    BY <1>8
  <2> QED BY <1>5, <2>1 DEF Command
<1>13. \A o \in DOMAIN jr : Unsent(o)' => Unsent(o)
  BY <1>5, <1>8 DEF Unsent
<1> QED BY <1>8, <1>9, <1>10, <1>11, <1>12, <1>13 DEF Once

\* The intents of a run.
LEMMA IntendOnce == ASSUME Once, Intend PROVE Once'
<1>1. Busy
  BY DEF Busy, Intend, IntendRename, IntendDeletion, IntendSync, At
<1>2. History(hist)
  BY <1>1, BusyFacts
<1>3. /\ Record(RenameIntent(hist), "run") => Once'
      /\ \A id : Record(DeleteIntent(hist, id), "run") => Once'
  BY <1>1, <1>2, RecordOnce, RenamePasses, DeletePasses DEF Record
<1>4. Record(SyncIntent(hist), "begin") => Once'
  BY <1>1, <1>2, RecordOnce, SyncPasses DEF Record
<1> QED BY <1>3, <1>4 DEF Intend, IntendRename, IntendDeletion, IntendSync

\* The two forms of a record.
LEMMA RecordsOnce ==
    ASSUME Once, Busy, NEW H, NEW at, Passes(hist, H)
    PROVE  (Record(H, at) => Once') /\ (RecordAndExit(H) => Once')
BY RecordOnce DEF Record, RecordAndExit

\* The delete command is sent where none was.
LEMMA DispatchDeleteOnce == ASSUME Once, DispatchDelete PROVE Once'
<1>1. Busy /\ hist.kind = "delete" /\ hist.phase = "DISPATCH_INTENT" /\ proc.at = "send"
  BY DEF DispatchDelete, At, Busy
<1>2. PICK o : o = proc.op
  OBVIOUS
<1>3. {"cmd", "op", "at"} \subseteq DOMAIN proc /\ o \in DOMAIN jr
  BY <1>1, <1>2, BusyFacts
<1>4. Unsent(o)
  BY <1>1, <1>2 DEF Unsent, hist
<1>5. dispatched[o] = 0
  BY <1>3, <1>4 DEF Once
<1>6. /\ jr' = jr /\ dispatched' = [dispatched EXCEPT ![o] = dispatched[o] + 1]
      /\ \E reply \in {"ok", "refused", "lost"} : Goto(reply)
  BY <1>2 DEF DispatchDelete
<1>7. DOMAIN proc' = DOMAIN proc /\ proc'.op = o /\ proc'.at # "send"
  BY <1>2, <1>3, <1>6 DEF Goto
<1>8. dispatched \in Seq({0, 1}) /\ Len(dispatched) = Len(jr) /\ o \in 1 .. Len(dispatched)
  BY <1>3, SameOperations DEF Once, Lists
<1>9. dispatched' = [dispatched EXCEPT ![o] = 1]
  BY <1>5, <1>6
<1>10. /\ dispatched' \in Seq({0, 1}) /\ Len(dispatched') = Len(dispatched)
       /\ \A p \in 1 .. Len(dispatched) : p # o => dispatched'[p] = dispatched[p]
  BY <1>8, <1>9, ExceptSeq
<1>11. Lists'
  BY <1>6, <1>8, <1>10 DEF Once, Lists
<1>12. Command'
  BY <1>3, <1>6, <1>7 DEF Command
<1>13. ASSUME NEW p \in DOMAIN jr, Unsent(p)'
       PROVE  Unsent(p) /\ p # o
  <2>1. jr'[p].phase # "DISPATCH_INTENT"
    BY <1>7, <1>13 DEF Unsent
  <2>2. p # o
    BY <1>1, <1>2, <1>6, <2>1 DEF hist
  <2> QED BY <1>6, <1>13, <2>1, <2>2 DEF Unsent
<1>14. DOMAIN jr = 1 .. Len(dispatched)
  BY <1>8, SameOperations DEF Once
<1>15. \A p \in DOMAIN jr' : Unsent(p)' => dispatched'[p] = 0
  BY <1>6, <1>10, <1>13, <1>14 DEF Once
<1> QED BY <1>11, <1>12, <1>15 DEF Once

\* The run of a deletion.
LEMMA DeleteOnce == ASSUME Once, Delete PROVE Once'
<1>1. Busy
  BY DEF Busy, Delete, IntendDelete, DispatchDelete, ObserveDelete, AdoptAbsence,
         ConcludeNotPerformed, FreezeDelete, At
<1>2. History(hist)
  BY <1>1, BusyFacts
<1>3. /\ Passes(hist, DispatchIntent(hist)) /\ Passes(hist, SepAbsenceObserved(hist))
      /\ Passes(hist, NotPerformed(hist)) /\ Passes(hist, DeleteOutcomeUnknown(hist))
      /\ \A reply : Passes(hist, CommandObserved(hist, reply))
  BY <1>2, DeletePasses
<1>4. CASE IntendDelete \/ AdoptAbsence \/ ConcludeNotPerformed \/ FreezeDelete
  BY <1>1, <1>3, <1>4, RecordsOnce
     DEF IntendDelete, AdoptAbsence, ConcludeNotPerformed, FreezeDelete
<1>5. CASE ObserveDelete
  <2>1. PICK reply : Record(CommandObserved(hist, reply), "run")
    BY <1>5 DEF ObserveDelete
  <2> QED BY <1>1, <1>3, <2>1, RecordsOnce
<1> QED BY <1>4, <1>5, DispatchDeleteOnce DEF Delete

\* A step on the files, or a command to the SEP, of the running command.
LEMMA FilesOnce ==
    ASSUME Once, Busy, NEW at, at # "send"
    PROVE  OnFiles(at) => Once'
BY GoesOnce DEF OnFiles

LEMMA DispatchOnce == ASSUME Once, Busy, NEW s PROVE Dispatch(s) => Once'
BY GoesOnce DEF Dispatch

\* Its save.
LEMMA SaveOnce == ASSUME Once, Save PROVE Once'
<1>1. Busy
  BY DEF Busy, Save, PlanPersistence, BeginStage, AbortRename, FailDeleteStage, FailBeginStage,
         IntendPrepare, DispatchPrepare, ObservePrepare, IntendComplete, DispatchComplete,
         CaptureBlob, CreateStaged, StageComponent, RecordStaged, IntendCommit, CrossBoundary,
         RollForward, RecordCommitted, IntendFinalConfirm, DispatchFinalConfirm,
         ObserveFinalConfirm, AttestRename, AttestDelete, Attest, ReconcileRename,
         ReconcileDelete, FreezeSave, Saving, At
<1>2. History(hist)
  BY <1>1, BusyFacts
<1>3. /\ \A T, file : Passes(hist, Saved(hist, T, file))
      /\ Passes(hist, RenameAborted(hist)) /\ Passes(hist, RenameReconciled(hist))
      /\ Passes(hist, DeleteOutcomeUnknown(hist)) /\ Passes(hist, DeleteReconciled(hist))
  BY <1>2, SavePasses, RenamePasses, DeletePasses
<1>4. ASSUME NEW T, NEW file, NEW at
      PROVE  /\ Record(Saved(hist, T, file), at) => Once'
             /\ RecordAndExit(Saved(hist, T, file)) => Once'
  BY <1>1, <1>3, RecordsOnce
<1>5. CASE BeginStage \/ CreateStaged \/ StageComponent \/ CrossBoundary \/ RollForward
  BY <1>1, <1>5, FilesOnce
     DEF BeginStage, CreateStaged, StageComponent, CrossBoundary, RollForward
<1>6. CASE DispatchPrepare \/ DispatchComplete \/ DispatchFinalConfirm
  BY <1>1, <1>6, DispatchOnce DEF DispatchPrepare, DispatchComplete, DispatchFinalConfirm
<1>7. CASE AbortRename \/ FailDeleteStage
  BY <1>1, <1>3, <1>7, RecordOnce DEF AbortRename, FailDeleteStage, FailBeginStage
<1>8. CASE ReconcileRename \/ ReconcileDelete
  BY <1>1, <1>3, <1>8, RecordsOnce DEF ReconcileRename, ReconcileDelete
<1>9. CASE FreezeSave
  BY <1>4, <1>9 DEF FreezeSave
<1>10. CASE \/ PlanPersistence \/ IntendPrepare \/ ObservePrepare \/ IntendComplete \/ CaptureBlob
            \/ RecordStaged \/ IntendCommit \/ RecordCommitted \/ IntendFinalConfirm
            \/ ObserveFinalConfirm \/ AttestRename \/ AttestDelete
  BY <1>4, <1>10
     DEF PlanPersistence, IntendPrepare, ObservePrepare, IntendComplete, CaptureBlob,
         RecordStaged, IntendCommit, RecordCommitted, IntendFinalConfirm, ObserveFinalConfirm,
         AttestRename, AttestDelete, Attest, SaveStep
<1> QED BY <1>5, <1>6, <1>7, <1>8, <1>9, <1>10 DEF Save

\* A sync.
LEMMA SyncOnce == ASSUME Once, Sync PROVE Once'
<1>1. Busy
  BY DEF Busy, Sync, BeginSync, FailBeginSync, ExportSync, StageSync, ConfirmSyncUser,
         NextSyncComponent, CrossSync, PromoteSync, RecordSyncCommitted, ConfirmSyncMaster,
         ReconcileSync, FreezeSync, At
<1>2. History(hist)
  BY <1>1, BusyFacts
<1>3. /\ Passes(hist, SyncAborted(hist)) /\ Passes(hist, SyncOutcomeUnknown(hist))
      /\ Passes(hist, SyncHostCommitted(hist, host)) /\ Passes(hist, SyncReconciled(hist, host))
  BY <1>2, SyncPasses
<1>4. CASE \/ BeginSync \/ ExportSync \/ StageSync \/ NextSyncComponent \/ CrossSync \/ PromoteSync
  BY <1>1, <1>4, FilesOnce
     DEF BeginSync, ExportSync, StageSync, NextSyncComponent, CrossSync, PromoteSync
<1>5. CASE ConfirmSyncUser \/ ConfirmSyncMaster
  BY <1>1, <1>5, DispatchOnce DEF ConfirmSyncUser, ConfirmSyncMaster
<1>6. CASE FailBeginSync
  <2>1. PICK H : H = IF hist.attempted THEN SyncOutcomeUnknown(hist) ELSE SyncAborted(hist)
    OBVIOUS
  <2>2. Passes(hist, H)
    BY <1>3, <2>1
  <2>3. Journal(H) /\ Exit /\ dispatched' = dispatched
    BY <1>6, <2>1 DEF FailBeginSync
  <2> QED BY <1>1, <2>2, <2>3, RecordOnce
<1>7. CASE RecordSyncCommitted \/ ReconcileSync \/ FreezeSync
  BY <1>1, <1>3, <1>7, RecordsOnce DEF RecordSyncCommitted, ReconcileSync, FreezeSync
<1> QED BY <1>4, <1>5, <1>6, <1>7 DEF Sync

\* A recovery takes up an operation, and stands elsewhere than at its command.
LEMMA RecoverLocalOnce ==
    ASSUME Once, NEW kind, NEW o \in DOMAIN jr, NEW I, RecoverLocal(kind, o, I),
           Passes(jr[o], I)
    PROVE  Once'
<1>1. /\ proc' = [cmd |-> "recover", op |-> o, at |-> "local"] /\ dispatched' = dispatched
      /\ (\E h \in I : jr' = [jr EXCEPT ![o] = h]) \/ jr' = jr
  BY DEF RecoverLocal
<1>2. {"cmd", "op", "at"} \subseteq DOMAIN proc' /\ proc'.op = o /\ proc'.at # "send"
  BY <1>1
<1>3. CASE \E h \in I : jr' = [jr EXCEPT ![o] = h]
  BY <1>1, <1>2, <1>3, PassesOnce
<1>4. CASE jr' = jr
  BY <1>1, <1>2, <1>4, StayOnce
<1> QED BY <1>1, <1>3, <1>4

LEMMA RecoverOnce == ASSUME Once, RecoverRename \/ RecoverDelete PROVE Once'
<1>1. \A o \in DOMAIN jr : History(jr[o])
  BY DEF Once, Lists
<1>2. CASE RecoverRename
  <2>1. PICK o \in DOMAIN jr :
            RecoverLocal("rename", o, RenameRecoveryIntent(jr[o], ObservedAction))
    BY <1>2 DEF RecoverRename
  <2>2. Passes(jr[o], RenameRecoveryIntent(jr[o], ObservedAction))
    BY <1>1, RenamePasses
  <2> QED BY <2>1, <2>2, RecoverLocalOnce
<1>3. CASE RecoverDelete
  <2>1. PICK o \in DOMAIN jr :
            RecoverLocal("delete", o, DeleteRecoveryIntent(jr[o], ObservedAction, boot))
    BY <1>3 DEF RecoverDelete
  <2>2. Passes(jr[o], DeleteRecoveryIntent(jr[o], ObservedAction, boot))
    BY <1>1, DeletePasses
  <2> QED BY <2>1, <2>2, RecoverLocalOnce
<1> QED BY <1>2, <1>3

LEMMA RecoverSyncOnce == ASSUME Once, RecoverSync PROVE Once'
<1>1. PICK o \in DOMAIN jr :
          /\ proc = Idle /\ jr[o].kind = "sync" /\ dispatched' = dispatched
          /\ \/ /\ \E h \in SyncRecoveredClean(jr[o], host) : jr' = [jr EXCEPT ![o] = h]
                /\ proc' = proc
             \/ /\ \E h \in SyncRecoveryIntent(jr[o], host) : jr' = [jr EXCEPT ![o] = h]
                /\ proc' = [cmd |-> "recover", op |-> o, at |-> "begin"]
  BY DEF RecoverSync
<1>2. History(jr[o])
  BY DEF Once, Lists
<1>3. /\ Passes(jr[o], SyncRecoveredClean(jr[o], host))
      /\ Passes(jr[o], SyncRecoveryIntent(jr[o], host))
  BY <1>1, <1>2, SyncPasses
<1>4. proc' = Idle \/ ({"cmd", "op", "at"} \subseteq DOMAIN proc' /\ proc'.op = o)
  BY <1>1
<1> QED BY <1>1, <1>3, <1>4, PassesOnce

\* The rest of a recovery.
LEMMA ResolveOnce == ASSUME Once, Resolve PROVE Once'
<1>1. Busy
  BY DEF Busy, Resolve, DiscardLocal, RollLocalForward, NothingLocal, ConcludeRename,
         ConcludeDelete, SaveForward, RefuseRecovery, Inspecting, At
<1>2. History(hist)
  BY <1>1, BusyFacts
<1>3. /\ Passes(hist, RenameRecovered(hist, TRUE)) /\ Passes(hist, RenameRecovered(hist, FALSE))
      /\ Passes(hist, DeleteRecovered(hist, TRUE)) /\ Passes(hist, DeleteRecovered(hist, FALSE))
      /\ \A archive : Passes(hist, RecoveryAbsenceObserved(hist, archive))
  BY <1>2, RenamePasses, DeletePasses
<1>4. CASE DiscardLocal \/ RollLocalForward \/ NothingLocal
  BY <1>1, <1>4, FilesOnce DEF DiscardLocal, RollLocalForward, NothingLocal
<1>5. CASE ConcludeRename \/ ConcludeDelete
  BY <1>1, <1>3, <1>5, RecordsOnce DEF ConcludeRename, ConcludeDelete
<1>6. CASE SaveForward
  BY <1>1, <1>3, <1>6, RecordsOnce DEF SaveForward
<1>7. CASE RefuseRecovery
  BY <1>7, GoesOnce DEF RefuseRecovery
<1> QED BY <1>4, <1>5, <1>6, <1>7 DEF Resolve

\* A verification after a reboot, which no command runs beside.
LEMMA VerifyOnce ==
    ASSUME Once, VerifyRename \/ VerifyDelete \/ ReconcileAtBoot
    PROVE  Once'
<1>1. proc = Idle
  BY DEF VerifyRename, VerifyDelete, ReconcileAtBoot
<1>2. PICK o \in DOMAIN jr : \/ ProvePostReboot(o, RenameVerified(jr[o], boot))
                             \/ ProvePostReboot(o, DeleteVerified(jr[o], boot))
  BY DEF VerifyRename, VerifyDelete, ReconcileAtBoot, Candidates, AwaitingReboot
<1>3. History(jr[o])
  BY DEF Once, Lists
<1>4. Passes(jr[o], RenameVerified(jr[o], boot)) /\ Passes(jr[o], DeleteVerified(jr[o], boot))
  BY <1>3, RenamePasses, DeletePasses
<1> QED BY <1>1, <1>2, <1>4, PassesOnce DEF ProvePostReboot

-----------------------------------------------------------------------------
LEMMA InitOnce == Init => Once
<1> SUFFICES ASSUME Init PROVE Once
  OBVIOUS
<1>1. jr = <<>> /\ dispatched = <<>> /\ proc = Idle
  BY DEF Init
<1>2. jr \in Seq({}) /\ DOMAIN jr = {} /\ dispatched \in Seq({0, 1}) /\ Len(dispatched) = Len(jr)
  BY <1>1
<1> QED BY <1>1, <1>2 DEF Once, Lists, Command, Idle

LEMMA NextOnce == Once /\ [Next]_vars => Once'
<1> SUFFICES ASSUME Once, [Next]_vars PROVE Once'
  OBVIOUS
<1>1. CASE BeginRename \/ BeginDelete \/ BeginCatacombSync
  BY <1>1, BeginOnce DEF BeginRename, BeginDelete, BeginCatacombSync
<1>2. CASE Match \/ Crash \/ Reboot
  <2>1. jr' = jr /\ dispatched' = dispatched /\ proc' = Idle
    BY <1>2 DEF Match, Crash, Reboot, Exit
  <2> QED BY <2>1, StayOnce
<1>3. CASE UNCHANGED vars
  BY <1>3 DEF vars, Once, Lists, Command, Unsent
<1> QED BY <1>1, <1>2, <1>3, IntendOnce, DeleteOnce, SaveOnce, SyncOnce, RecoverOnce,
           ResolveOnce, RecoverSyncOnce, VerifyOnce
        DEF Next

\* run_delete and run_delete_recovery: however often a deletion stops, by a
\* crash, a reboot, a lost reply or a failed save, and is recovered, its
\* delete command has been sent to the SEP at most once.
THEOREM IdentityDeletedOnce == Spec => []DeletedOnce
<1>1. Once => DeletedOnce
  <2> SUFFICES ASSUME Once, NEW o \in DOMAIN dispatched PROVE dispatched[o] <= 1
    BY DEF DeletedOnce
  <2>1. dispatched \in Seq({0, 1})
    BY DEF Once, Lists
  <2>2. dispatched[o] \in {0, 1}
    BY <2>1
  <2> QED BY <2>2
<1> QED BY <1>1, InitOnce, NextOnce, PTL DEF Spec

-----------------------------------------------------------------------------
(* The identities of the SEP and of the host.  At most one operation, c, is *)
(* open or runs; what holds of it is Fine, and without one they agree.      *)

Agree == sep.ids = host.user.ids

\* What a deletion may be in before it is closed, and until its save.
Middle ==
    {"BASELINE", "INTENT", "DISPATCH_INTENT", "COMMAND_OBSERVED", "SEP_DELETED", "PERSISTING",
     "PERSISTENCE_READY", "OUTCOME_UNKNOWN"}
Early == {"BASELINE", "INTENT", "DISPATCH_INTENT", "COMMAND_OBSERVED"}

\* Both sides have the identities of the baseline or the survivors, and if
\* only the SEP has deleted, it knows that it is not saved.
Sides(h) ==
    /\ sep.ids \in {h.base.user.ids, Survivors(h)}
    /\ host.user.ids \in {h.base.user.ids, Survivors(h)}
    /\ host.user.ids \subseteq sep.ids \/ "user" \in sep.dirty

\* The survivors are in pend, and then in the root.
StagedAt(p, at) ==
    \/ p = "SECURE_BLOB_CAPTURED" /\ at = "staged"
    \/ p = "HOST_STAGED"
    \/ p = "BATCH_COMMIT_INTENT" /\ at # "crossed"
CrossedAt(p, at) ==
    \/ p = "BATCH_COMMIT_INTENT" /\ at = "crossed"
    \/ p \in {"BATCH_COMMITTED", "FINAL_CONFIRM_INTENT"}

\* A save in this process.
SavingFine(h, at) ==
    /\ sep.ids = Survivors(h)
    /\ StagedAt(h.persistence.phase, at) => pend.user # NoFile
    /\ CrossedAt(h.persistence.phase, at) => host.user.ids = Survivors(h)

\* The save of one component, user: its tracker, and where prepare/ or
\* commit/ must be there.
Tracker(t) ==
    /\ {"phase", "batches", "batch"} \subseteq DOMAIN t
    /\ t.phase # "NOT_STARTED" => t.batches = MetadataPlan /\ t.batch = 1
NeedsAt(p, at) ==
    \/ p \in {"PREPARE_INTENT", "PREPARED", "COMPLETE_INTENT", "SECURE_BLOB_CAPTURED"}
    \/ p = "COMPONENT_READY" /\ at = "run"
Needs(h, at) ==
    IF h.kind = "sync"
    THEN /\ h.phase = "INTENT"
         /\ at \in {"export", "staging", "confirm", "ok", "lost", "cross", "promote"}
    ELSE h.phase = "PERSISTING" /\ NeedsAt(h.persistence.phase, at)
Tracked(h, at) ==
    /\ h.kind # "sync" =>
          /\ Tracker(h.persistence)
          /\ h.phase \in Early \cup {"SEP_DELETED"} => h.persistence.phase = "NOT_STARTED"
    /\ at \notin {"none", "local", "inspect"} /\ Needs(h, at) => pend.dir # "none"

DeleteFine(h, at) ==
    /\ h.phase = "BASELINE" => Agree
    /\ h.phase \in Early => /\ host.user.ids = h.base.user.ids
                            /\ pend.user = NoFile
    /\ h.phase \in Middle => /\ h.phase # "BASELINE" => Sides(h)
                             /\ pend.user = NoFile \/ pend.user.ids = Survivors(h)
    /\ h.phase \notin Middle => Agree
    /\ at # "none" => h.phase \in Middle
    /\ at \notin {"none", "local", "inspect"} =>
          /\ h.phase \in {"SEP_DELETED", "PERSISTING"} => SavingFine(h, at)
          /\ h.phase = "PERSISTENCE_READY" => Agree

OtherFine == Agree /\ (pend.user = NoFile \/ pend.user.ids = host.user.ids)

Fine(h, at) == Tracked(h, at) /\ IF h.kind = "delete" THEN DeleteFine(h, at) ELSE OtherFine

\* The fields of the records outside the journals.
Shapes ==
    /\ {"ids", "dirty", "adapted"} \subseteq DOMAIN sep
    /\ {"dir", "user", "master", "torn"} \subseteq DOMAIN pend
    /\ pend.dir = "none" => pend.user = NoFile
    /\ exports \in Nat

Sole(c) ==
    /\ \A o \in DOMAIN jr : o # c => ~Blocks(jr[o])
    /\ proc = Idle \/ proc.op = c

Ids(c) == Shapes /\ Sole(c) /\ IF c \in DOMAIN jr THEN Fine(jr[c], proc.at) ELSE Agree

-----------------------------------------------------------------------------
\* What is fine only looks at the SEP, the root and the staged file.
LEMMA SameFine ==
    ASSUME NEW h, NEW at, UNCHANGED <<sep, host, pend>>
    PROVE  Fine(h, at)' <=> Fine(h, at)
BY DEF Fine, Tracked, DeleteFine, OtherFine, SavingFine, Sides, Agree, Survivors

\* The operation c gets the record h.
LEMMA WroteIds ==
    ASSUME Once, NEW c \in DOMAIN jr, Ids(c), NEW h, jr' = [jr EXCEPT ![c] = h],
           proc' = Idle \/ proc'.op = c, Shapes', NEW at, proc'.at = at, Fine(h, at)'
    PROVE  Ids(c)'
<1>1. PICK S : jr \in Seq(S)
  BY DEF Once, Lists
<1>2. DOMAIN jr' = DOMAIN jr /\ jr'[c] = h /\ \A o \in DOMAIN jr : o # c => jr'[o] = jr[o]
  BY <1>1
<1>3. Sole(c)'
  BY <1>2 DEF Ids, Sole, Blocks, Complete
<1>4. Fine(jr[c], proc.at)'
  <2>1. jr'[c] = h /\ proc'.at = at
    BY <1>2
  <2> QED BY <2>1 DEF Fine, Tracked, DeleteFine, OtherFine, SavingFine, Sides, Agree, Survivors
<1> QED BY <1>2, <1>3, <1>4 DEF Ids

\* The journals stay.
LEMMA StayIds ==
    ASSUME NEW c \in DOMAIN jr, Ids(c), jr' = jr, proc' = Idle \/ proc'.op = c, Shapes',
           NEW h, h = jr[c], NEW at, proc'.at = at, Fine(h, at)'
    PROVE  Ids(c)'
<1>1. Sole(c)'
  BY DEF Ids, Sole, Blocks, Complete
<1>2. Fine(jr[c], proc.at)'
  BY DEF Fine, Tracked, DeleteFine, OtherFine, SavingFine, Sides, Agree, Survivors
<1> QED BY <1>1, <1>2 DEF Ids

\* The running command's operation is c.
LEMMA BusyIds ==
    ASSUME Once, NEW c, Ids(c), Busy
    PROVE  /\ c \in DOMAIN jr /\ proc.op = c /\ hist = jr[c] /\ History(hist)
           /\ {"cmd", "op", "at"} \subseteq DOMAIN proc /\ Shapes /\ Fine(hist, proc.at)
<1>1. /\ proc # Idle /\ {"cmd", "op", "at"} \subseteq DOMAIN proc
      /\ proc.op \in DOMAIN jr /\ History(hist)
  BY BusyFacts
<1>2. proc.op = c
  BY <1>1 DEF Ids, Sole
<1>3. hist = jr[c]
  BY <1>2 DEF hist
<1> QED BY <1>1, <1>2, <1>3 DEF Ids

\* It writes a record that is fine.
LEMMA RecordIds ==
    ASSUME Once, NEW c, Ids(c), Busy, NEW H, Journal(H),
           NEW at, Goto(at) \/ (Exit /\ at = "none"),
           UNCHANGED <<sep, host, pend, exports>>, \A g \in H : Fine(g, at)
    PROVE  Ids(c)'
<1>1. /\ c \in DOMAIN jr /\ proc.op = c /\ {"cmd", "op", "at"} \subseteq DOMAIN proc /\ Shapes
  BY BusyIds
<1>2. PICK h \in H : jr' = [jr EXCEPT ![c] = h]
  BY <1>1 DEF Journal
<1>3. Fine(h, at)'
  BY SameFine
<1>4. Shapes'
  BY <1>1 DEF Shapes
<1>5. proc'.at = at /\ (proc' = Idle \/ proc'.op = c)
  BY <1>1 DEF Goto, Exit, Idle
<1> QED BY <1>1, <1>2, <1>3, <1>4, <1>5, WroteIds

\* It goes on without a record.
LEMMA GoesIds ==
    ASSUME Once, NEW c, Ids(c), Busy, jr' = jr, NEW at, Goto(at) \/ (Exit /\ at = "none"),
           Shapes', NEW h, h = jr[c], Fine(h, at)'
    PROVE  Ids(c)'
<1>1. c \in DOMAIN jr /\ proc.op = c /\ {"cmd", "op", "at"} \subseteq DOMAIN proc
  BY BusyIds
<1>2. proc'.at = at /\ (proc' = Idle \/ proc'.op = c)
  BY <1>1 DEF Goto, Exit, Idle
<1> QED BY <1>1, <1>2, StayIds

\* A record of a rename or a sync.
LEMMA OtherRecords ==
    ASSUME NEW h, NEW at1, Fine(h, at1), h.kind # "delete", NEW H, Passes(h, H), NEW at2,
           \A g \in H : Tracked(g, at2)
    PROVE  \A g \in H : Fine(g, at2)
BY DEF Passes, Fine

\* The running command's record, in the two forms.
LEMMA RecordsIds ==
    ASSUME Once, NEW c, Ids(c), Busy, NEW H, NEW at,
           hist.kind = "delete" => \A g \in H : Fine(g, at),
           hist.kind # "delete" => Passes(hist, H) /\ \A g \in H : Tracked(g, at)
    PROVE  /\ Record(H, at) => Ids(c)'
           /\ at = "none" => (RecordAndExit(H) => Ids(c)')
<1>1. Fine(hist, proc.at)
  BY BusyIds
<1>2. \A g \in H : Fine(g, at)
  BY <1>1, OtherRecords
<1>3. ASSUME Record(H, at) PROVE Ids(c)'
  <2>1. Journal(H) /\ Goto(at) /\ UNCHANGED <<sep, host, pend, exports>>
    BY <1>3 DEF Record, store
  <2> QED BY <1>2, <2>1, RecordIds
<1>4. ASSUME at = "none", RecordAndExit(H) PROVE Ids(c)'
  <2>1. Journal(H) /\ Exit /\ UNCHANGED <<sep, host, pend, exports>>
    BY <1>4 DEF RecordAndExit, store
  <2> QED BY <1>2, <1>4, <2>1, RecordIds
<1> QED BY <1>3, <1>4

\* A record that keeps the tracker.
LEMMA MovedTracked ==
    ASSUME NEW h, NEW at1, Tracked(h, at1), NEW g, NEW at2, g.kind = h.kind,
           g.persistence = h.persistence,
           \/ h.kind # "sync" /\ h.phase \in Early /\ g.phase \in Early \cup {"SEP_DELETED"}
           \/ h.kind # "sync" /\ g.phase \notin Early \cup {"SEP_DELETED", "PERSISTING"}
           \/ h.kind = "sync" /\ (g.phase # "INTENT" \/ at2 \in {"begin", "none"})
    PROVE  Tracked(g, at2)
BY DEF Tracked, Needs, Early

\* Such a record of the running rename or sync.
Turns(h, H, phase) ==
    \A g \in H : g.kind = h.kind /\ g.persistence = h.persistence /\ g.phase = phase

LEMMA TurnsIds ==
    ASSUME Once, NEW c, Ids(c), Busy, hist.kind # "delete", NEW H, NEW phase, NEW at,
           Passes(hist, H), Turns(hist, H, phase),
           \/ hist.kind # "sync" /\ hist.phase \in Early /\ phase \in Early \cup {"SEP_DELETED"}
           \/ hist.kind # "sync" /\ phase \notin Early \cup {"SEP_DELETED", "PERSISTING"}
           \/ hist.kind = "sync" /\ (phase # "INTENT" \/ at \in {"begin", "none"})
    PROVE  /\ \A g \in H : Fine(g, at)
           /\ Record(H, at) => Ids(c)'
           /\ at = "none" => (RecordAndExit(H) => Ids(c)')
<1>1. Fine(hist, proc.at)
  BY BusyIds
<1>2. Tracked(hist, proc.at)
  BY <1>1 DEF Fine
<1>3. ASSUME NEW g \in H PROVE Tracked(g, at)
  <2>1. g.kind = hist.kind /\ g.persistence = hist.persistence /\ g.phase = phase
    BY DEF Turns
  <2> QED BY <1>2, <2>1, MovedTracked
<1>4. \A g \in H : Fine(g, at)
  BY <1>1, <1>3, OtherRecords
<1> QED BY <1>3, <1>4, RecordsIds

\* A record that keeps the save.
LEMMA MovedFine ==
    ASSUME NEW h, NEW at1, Fine(h, at1), h.kind = "delete", NEW g, NEW at2,
           g.kind = h.kind, g.base = h.base, g.target = h.target,
           g.persistence = h.persistence
    PROVE  /\ h.phase \in {"INTENT", "DISPATCH_INTENT"} /\ at2 # "none"
              /\ g.phase \in {"DISPATCH_INTENT", "COMMAND_OBSERVED"} => Fine(g, at2)
           /\ h.phase \in Middle \ {"BASELINE"} /\ g.phase = "OUTCOME_UNKNOWN" => Fine(g, at2)
           /\ h.phase = "COMMAND_OBSERVED" /\ g.phase = "SEP_DELETED"
              /\ sep.ids = Survivors(h) => Fine(g, at2)
           /\ Agree /\ at2 = "none" /\ g.phase \notin Middle => Fine(g, at2)
<1>1. Survivors(g) = Survivors(h)
  BY DEF Survivors
<1>2. DeleteFine(h, at1) /\ Tracker(h.persistence)
  BY DEF Fine, Tracked
<1>0. /\ g.phase \in {"DISPATCH_INTENT", "COMMAND_OBSERVED", "SEP_DELETED"} /\ h.phase \in Early
         => Tracked(g, at2) /\ h.persistence.phase = "NOT_STARTED"
      /\ g.phase \notin Early \cup {"SEP_DELETED", "PERSISTING"} => Tracked(g, at2)
  BY <1>2 DEF Fine, Tracked, Needs
<1>3. ASSUME h.phase \in {"INTENT", "DISPATCH_INTENT"}, at2 # "none",
             g.phase \in {"DISPATCH_INTENT", "COMMAND_OBSERVED"}
      PROVE  DeleteFine(g, at2)
  BY <1>1, <1>2, <1>3 DEF DeleteFine, Sides, Middle, Early
<1>4. ASSUME h.phase \in Middle \ {"BASELINE"}, g.phase = "OUTCOME_UNKNOWN"
      PROVE  DeleteFine(g, at2)
  BY <1>1, <1>2, <1>4 DEF DeleteFine, Sides, Middle, Early
<1>5. ASSUME h.phase = "COMMAND_OBSERVED", g.phase = "SEP_DELETED", sep.ids = Survivors(h)
      PROVE  DeleteFine(g, at2)
  BY <1>0, <1>1, <1>2, <1>5 DEF DeleteFine, SavingFine, StagedAt, CrossedAt, Sides, Middle, Early
<1>6. ASSUME Agree, at2 = "none", g.phase \notin Middle
      PROVE  DeleteFine(g, at2)
  BY <1>2, <1>6 DEF DeleteFine, Middle, Early
<1> QED BY <1>0, <1>3, <1>4, <1>5, <1>6 DEF Fine, Middle, Early

\* The trackers of T have a phase in P.
Gives(T, P) == \A t \in T : Tracker(t) /\ t.phase \in P

LEMMA TrackersGive ==
    ASSUME NEW t, Tracker(t), NEW stage, NEW possible
    PROVE  /\ Gives(Plan(t, MetadataPlan), {"COMPONENT_READY"})
           /\ Gives(PrepareIntent(t), {"PREPARE_INTENT"}) /\ Gives(Prepared(t), {"PREPARED"})
           /\ Gives(CompleteIntent(t), {"COMPLETE_INTENT"})
           /\ Gives(BlobCaptured(t), {"SECURE_BLOB_CAPTURED"})
           /\ Gives(HostStaged(t), {"HOST_STAGED"})
           /\ Gives(CommitIntent(t), {"BATCH_COMMIT_INTENT"})
           /\ Gives(Committed(t), {"BATCH_COMMITTED"})
           /\ Gives(FinalConfirmIntent(t), {"FINAL_CONFIRM_INTENT"})
           /\ Gives(FinalConfirmed(t), {"ATTESTATION_READY"})
           /\ Gives(Attested(t), {"COMPLETE"})
           /\ Gives(Freeze(t, stage, possible), {"OUTCOME_UNKNOWN"})
<1>1. ASSUME NEW from, from # "NOT_STARTED", NEW to PROVE Gives(Advance(t, from, to), {to})
  BY <1>1 DEF Gives, Tracker, Advance, Only
<1>2. Gives(Plan(t, MetadataPlan), {"COMPONENT_READY"})
  BY DEF Gives, Tracker, Plan, Only
<1>3. Gives(HostStaged(t), {"HOST_STAGED"})
  BY DEF Gives, Tracker, HostStaged, Only
<1>4. Gives(CommitIntent(t), {"BATCH_COMMIT_INTENT"})
  BY DEF Gives, Tracker, CommitIntent, Only
<1>5. Gives(FinalConfirmed(t), {"ATTESTATION_READY"})
  <2>1. Len(MetadataPlan) = 1
    BY DEF MetadataPlan
  <2>2. t.phase = "FINAL_CONFIRM_INTENT" => ~(t.batch < Len(t.batches))
    <3>1. SUFFICES ASSUME t.phase = "FINAL_CONFIRM_INTENT" PROVE ~(t.batch < Len(t.batches))
      OBVIOUS
    <3>2. t.phase # "NOT_STARTED"
      BY <3>1
    <3>3. t.batches = MetadataPlan /\ t.batch = 1
      BY <3>2 DEF Tracker
    <3>4. Len(t.batches) = 1
      BY <2>1, <3>3
    <3>5. ~(1 < Len(t.batches))
      BY <3>4
    <3> QED BY <3>3, <3>5, Zenon
  <2>3. \A u \in FinalConfirmed(t) : /\ u = [t EXCEPT !.phase = "ATTESTATION_READY"]
                                     /\ t.phase = "FINAL_CONFIRM_INTENT"
    BY <2>2 DEF FinalConfirmed, Only
  <2> QED BY <2>3 DEF Gives, Tracker
<1>6. Gives(Attested(t), {"COMPLETE"})
  BY DEF Gives, Tracker, Attested, Only
<1>7. Gives(Freeze(t, stage, possible), {"OUTCOME_UNKNOWN"})
  BY DEF Gives, Tracker, Freeze, Only
<1> QED BY <1>1, <1>2, <1>3, <1>4, <1>5, <1>6, <1>7
        DEF PrepareIntent, Prepared, CompleteIntent, BlobCaptured, Committed, FinalConfirmIntent

\* What a record of the save is.
LEMMA SavedFacts ==
    ASSUME NEW h, History(h), NEW T, NEW file, NEW g \in Saved(h, T, file)
    PROVE  /\ g.persistence \in T /\ g.phase = SavePhase(g.persistence)
           /\ g.kind = h.kind /\ g.base = h.base /\ g.target = h.target
<1>1. PICK t \in T : g = [h EXCEPT !.persistence = t, !.phase = SavePhase(t), !.file = file]
  BY DEF Saved
<1>2. PICK x : x = SavePhase(t)
  OBVIOUS
<1>3. g = [h EXCEPT !.persistence = t, !.phase = x, !.file = file]
  BY <1>1, <1>2
<1>4. /\ g.persistence = t /\ g.phase = x
      /\ g.kind = h.kind /\ g.base = h.base /\ g.target = h.target
  BY <1>3 DEF History
<1> QED BY <1>2, <1>4

\* A save goes on: what is staged or committed after it was so before.
Follows(P, at2, phase, at1) ==
    \A p \in P : /\ p \notin {"COMPLETE", "OUTCOME_UNKNOWN"}
                 /\ StagedAt(p, at2) => StagedAt(phase, at1)
                 /\ CrossedAt(p, at2) => CrossedAt(phase, at1)
                 /\ NeedsAt(p, at2) => NeedsAt(phase, at1)

LEMMA SavedTracked ==
    ASSUME NEW h, History(h), NEW at1, Tracked(h, at1), h.kind # "sync",
           at1 \notin {"none", "local", "inspect"},
           h.phase \in Early \cup {"SEP_DELETED", "PERSISTING"},
           NEW T, NEW P, Gives(T, P), NEW file, NEW at2, Follows(P, at2, h.persistence.phase, at1)
    PROVE  \A g \in Saved(h, T, file) : Tracked(g, at2)
<1> SUFFICES ASSUME NEW g \in Saved(h, T, file) PROVE Tracked(g, at2)
  OBVIOUS
<1>1. /\ g.persistence \in T /\ g.phase = SavePhase(g.persistence)
      /\ g.kind = h.kind /\ g.base = h.base /\ g.target = h.target
  BY SavedFacts
<1>2. PICK t : t = g.persistence
  OBVIOUS
<1>3. Tracker(t) /\ t.phase \in P
  BY <1>1, <1>2 DEF Gives
<1>4. g.phase = "PERSISTING"
  BY <1>1, <1>2, <1>3 DEF SavePhase, Follows
<1>5. NeedsAt(t.phase, at2) => pend.dir # "none"
  <2>1. ~NeedsAt("NOT_STARTED", at1)
    BY DEF NeedsAt
  <2>2. NeedsAt(h.persistence.phase, at1) => h.phase = "PERSISTING"
    BY <2>1 DEF Tracked
  <2> QED BY <1>3, <2>2 DEF Tracked, Needs, Follows
<1> QED BY <1>1, <1>2, <1>3, <1>4, <1>5 DEF Tracked, Needs, Early

LEMMA SavedFine ==
    ASSUME NEW h, History(h), NEW at1, Fine(h, at1), h.kind = "delete",
           at1 \notin {"none", "local", "inspect"}, h.phase \in {"SEP_DELETED", "PERSISTING"},
           NEW T, NEW P, Gives(T, P), NEW file, NEW at2, at2 # "none",
           Follows(P, at2, h.persistence.phase, at1)
    PROVE  \A g \in Saved(h, T, file) : Fine(g, at2)
<1> SUFFICES ASSUME NEW g \in Saved(h, T, file) PROVE Fine(g, at2)
  OBVIOUS
<1>1. /\ g.persistence \in T /\ g.phase = SavePhase(g.persistence)
      /\ g.kind = h.kind /\ g.base = h.base /\ g.target = h.target
  BY SavedFacts
<1>2. PICK t : t = g.persistence
  OBVIOUS
<1>3. Tracker(t) /\ t.phase \in P
  BY <1>1, <1>2 DEF Gives
<1>4. g.phase = "PERSISTING"
  BY <1>1, <1>2, <1>3 DEF SavePhase, Follows
<1>5. Survivors(g) = Survivors(h)
  BY <1>1 DEF Survivors
<1>6. DeleteFine(h, at1)
  BY DEF Fine
<1>7. SavingFine(g, at2)
  BY <1>2, <1>3, <1>5, <1>6 DEF DeleteFine, SavingFine, Follows
<1>8. Sides(g) /\ (pend.user = NoFile \/ pend.user.ids = Survivors(g))
  BY <1>1, <1>5, <1>6 DEF DeleteFine, Sides, Middle
<1>9. Tracked(h, at1)
  BY DEF Fine
<1>10. Tracked(g, at2)
  BY <1>9, SavedTracked DEF Early
<1> QED BY <1>1, <1>4, <1>7, <1>8, <1>10 DEF Fine, DeleteFine, Middle, Early

\* A save that ends, attested or frozen.
LEMMA EndedTracked ==
    ASSUME NEW h, History(h), NEW T, NEW file, NEW at,
           Gives(T, {"COMPLETE"}) \/ Gives(T, {"OUTCOME_UNKNOWN"})
    PROVE  \A g \in Saved(h, T, file) : Tracked(g, at)
<1> SUFFICES ASSUME NEW g \in Saved(h, T, file) PROVE Tracked(g, at)
  OBVIOUS
<1>1. g.persistence \in T /\ g.phase = SavePhase(g.persistence)
  BY SavedFacts
<1>2. PICK t : t = g.persistence
  OBVIOUS
<1>3. Tracker(t) /\ t.phase \in {"COMPLETE", "OUTCOME_UNKNOWN"}
  BY <1>1, <1>2 DEF Gives
<1>4. g.phase \in {"PERSISTENCE_READY", "OUTCOME_UNKNOWN"}
  BY <1>1, <1>2, <1>3 DEF SavePhase
<1> QED BY <1>2, <1>3, <1>4 DEF Tracked, Needs, Early

LEMMA EndedFine ==
    ASSUME NEW h, History(h), NEW at1, Fine(h, at1), h.kind = "delete",
           h.phase \in {"SEP_DELETED", "PERSISTING"}, NEW T, NEW file, NEW at2,
           \/ Gives(T, {"COMPLETE"}) /\ Agree
           \/ Gives(T, {"OUTCOME_UNKNOWN"})
    PROVE  \A g \in Saved(h, T, file) : Fine(g, at2)
<1> SUFFICES ASSUME NEW g \in Saved(h, T, file) PROVE Fine(g, at2)
  OBVIOUS
<1>1. /\ g.persistence \in T /\ g.phase = SavePhase(g.persistence)
      /\ g.kind = h.kind /\ g.base = h.base /\ g.target = h.target
  BY SavedFacts
<1>2. PICK t : t = g.persistence
  OBVIOUS
<1>3. Tracker(t) /\ (t.phase = "OUTCOME_UNKNOWN" \/ (t.phase = "COMPLETE" /\ Agree))
  BY <1>1, <1>2 DEF Gives
<1>4. g.phase = "OUTCOME_UNKNOWN" \/ (g.phase = "PERSISTENCE_READY" /\ Agree)
  BY <1>1, <1>2, <1>3 DEF SavePhase
<1>5. Survivors(g) = Survivors(h)
  BY <1>1 DEF Survivors
<1>6. DeleteFine(h, at1)
  BY DEF Fine
<1>7. Sides(g) /\ (pend.user = NoFile \/ pend.user.ids = Survivors(g))
  BY <1>1, <1>5, <1>6 DEF DeleteFine, Sides, Middle
<1>8. Tracked(g, at2)
  BY EndedTracked
<1> QED BY <1>1, <1>4, <1>7, <1>8 DEF Fine, DeleteFine, Middle, Early

-----------------------------------------------------------------------------
(* The actions, once more. *)

\* The intents of a run.
LEMMA IntendIds == ASSUME Once, NEW c, Ids(c), Intend PROVE Ids(c)'
<1>1. Busy
  BY DEF Busy, Intend, IntendRename, IntendDeletion, IntendSync, At
<1>2. History(hist) /\ Fine(hist, proc.at)
  BY <1>1, BusyIds
<1>3. CASE IntendRename
  <2>1. Record(RenameIntent(hist), "run")
    BY <1>3 DEF IntendRename
  <2>2. /\ hist.kind = "rename" /\ hist.phase = "BASELINE"
        /\ Passes(hist, RenameIntent(hist))
    BY <1>2, <1>3, RenamePasses DEF IntendRename, At
  <2>3. Turns(hist, RenameIntent(hist), "INTENT")
    BY <1>2 DEF Turns, RenameIntent, Moved, Only, History
  <2> QED BY <1>1, <2>1, <2>2, <2>3, TurnsIds DEF Early
<1>4. CASE IntendSync
  <2>1. hist.kind = "sync" /\ Passes(hist, SyncIntent(hist)) /\ Record(SyncIntent(hist), "begin")
    BY <1>2, <1>4, SyncPasses DEF IntendSync, At
  <2>2. Turns(hist, SyncIntent(hist), "INTENT")
    BY <1>2 DEF Turns, SyncIntent, Moved, Only, History
  <2> QED BY <1>1, <2>1, <2>2, TurnsIds
<1>5. CASE IntendDeletion
  <2>1. PICK id : Record(DeleteIntent(hist, id), "run")
    BY <1>5 DEF IntendDeletion
  <2>2. hist.kind = "delete" /\ hist.phase = "BASELINE"
    BY <1>5 DEF IntendDeletion, At
  <2>3. DeleteFine(hist, proc.at)
    BY <1>2, <2>2 DEF Fine
  <2>4. ASSUME NEW g \in DeleteIntent(hist, id) PROVE Fine(g, "run")
    <3>1. g = [hist EXCEPT !.phase = "INTENT", !.target = id]
      BY <2>4 DEF DeleteIntent, Only
    <3>2. /\ g.phase = "INTENT" /\ g.kind = "delete" /\ g.base = hist.base
          /\ g.persistence = hist.persistence
      BY <1>2, <2>2, <3>1 DEF History
    <3>3. Sides(g)
      BY <2>2, <2>3, <3>2 DEF DeleteFine, Early, Sides, Agree
    <3>4. Tracked(hist, proc.at)
      BY <1>2 DEF Fine
    <3>5. Tracked(g, "run")
      BY <2>2, <3>2, <3>4, MovedTracked DEF Early
    <3> QED BY <2>2, <2>3, <3>2, <3>3, <3>5 DEF Fine, DeleteFine, Middle, Early
  <2> QED BY <1>1, <2>1, <2>2, <2>4, RecordsIds
<1> QED BY <1>3, <1>4, <1>5 DEF Intend

\* What a record of a deletion outside its save keeps.
Moves(h, H, phase) ==
    \A g \in H : /\ g.kind = h.kind /\ g.base = h.base /\ g.target = h.target
                 /\ g.persistence = h.persistence /\ g.phase = phase

LEMMA DeleteMoves ==
    ASSUME NEW h, History(h), NEW status, NEW action, NEW b
    PROVE  /\ Moves(h, DispatchIntent(h), "DISPATCH_INTENT")
           /\ Moves(h, CommandObserved(h, status), "COMMAND_OBSERVED")
           /\ Moves(h, SepAbsenceObserved(h), "SEP_DELETED")
           /\ Moves(h, NotPerformed(h), "ABORTED")
           /\ Moves(h, DeleteOutcomeUnknown(h), "OUTCOME_UNKNOWN")
           /\ Moves(h, DeleteRecoveryIntent(h, action, b), "OUTCOME_UNKNOWN")
           /\ Moves(h, DeleteRecovered(h, FALSE), "ABORTED")
           /\ Moves(h, DeleteRecovered(h, TRUE), "RECONCILED")
           /\ Moves(h, DeleteReconciled(h), "RECONCILED")
           /\ Moves(h, DeleteVerified(h, b), "POST_REBOOT_VERIFIED")
<1>1. Moves(h, DispatchIntent(h), "DISPATCH_INTENT") /\ Moves(h, SepAbsenceObserved(h), "SEP_DELETED")
  BY DEF Moves, DispatchIntent, SepAbsenceObserved, Moved, Only, History
<1>2. Moves(h, CommandObserved(h, status), "COMMAND_OBSERVED")
  BY DEF Moves, CommandObserved, Only, History
<1>3. Moves(h, NotPerformed(h), "ABORTED")
  BY DEF Moves, NotPerformed, Only, History
<1>4. Moves(h, DeleteOutcomeUnknown(h), "OUTCOME_UNKNOWN")
  BY DEF Moves, DeleteOutcomeUnknown, Moved, Only, History
<1>5. Moves(h, DeleteRecoveryIntent(h, action, b), "OUTCOME_UNKNOWN")
  BY DEF Moves, DeleteRecoveryIntent, Only, History
<1>6. Moves(h, DeleteRecovered(h, FALSE), "ABORTED")
  <2>1. \A g \in DeleteRecovered(h, FALSE) : g = [h EXCEPT !.phase = "ABORTED"]
    BY DEF DeleteRecovered, Only
  <2> QED BY <2>1 DEF Moves, History
<1>7. Moves(h, DeleteRecovered(h, TRUE), "RECONCILED")
  <2>1. \A g \in DeleteRecovered(h, TRUE) :
            g = [h EXCEPT !.phase = "RECONCILED", !.settled = h.rboot]
    BY DEF DeleteRecovered, Only
  <2> QED BY <2>1 DEF Moves, History
<1>8. Moves(h, DeleteReconciled(h), "RECONCILED")
  <2>1. \A g \in DeleteReconciled(h) : \E x : g = [h EXCEPT !.phase = "RECONCILED", !.settled = x]
    BY DEF DeleteReconciled, Only
  <2> QED BY <2>1 DEF Moves, History
<1>9. Moves(h, DeleteVerified(h, b), "POST_REBOOT_VERIFIED")
  BY DEF Moves, DeleteVerified, Only, History
<1> QED BY <1>1, <1>2, <1>3, <1>4, <1>5, <1>6, <1>7, <1>8, <1>9

\* Such a record of the running deletion.
LEMMA MovesIds ==
    ASSUME Once, NEW c, Ids(c), Busy, hist.kind = "delete", NEW H, NEW phase, NEW at,
           Moves(hist, H, phase),
           \/ /\ hist.phase \in {"INTENT", "DISPATCH_INTENT"} /\ at # "none"
              /\ phase \in {"DISPATCH_INTENT", "COMMAND_OBSERVED"}
           \/ hist.phase \in Middle \ {"BASELINE"} /\ phase = "OUTCOME_UNKNOWN"
           \/ /\ hist.phase = "COMMAND_OBSERVED" /\ phase = "SEP_DELETED"
              /\ sep.ids = Survivors(hist)
           \/ Agree /\ at = "none" /\ phase \notin Middle
    PROVE  /\ \A g \in H : Fine(g, at)
           /\ Record(H, at) => Ids(c)'
           /\ at = "none" => (RecordAndExit(H) => Ids(c)')
<1>1. Fine(hist, proc.at)
  BY BusyIds
<1>2. ASSUME NEW g \in H PROVE Fine(g, at)
  BY <1>1, MovedFine DEF Moves
<1> QED BY <1>2, RecordsIds

\* The run of a deletion.
LEMMA DeleteIds == ASSUME Once, NEW c, Ids(c), Delete PROVE Ids(c)'
<1>1. Busy /\ hist.kind = "delete"
  BY DEF Busy, Delete, IntendDelete, DispatchDelete, ObserveDelete, AdoptAbsence,
         ConcludeNotPerformed, FreezeDelete, At
<1>2. /\ History(hist) /\ Fine(hist, proc.at) /\ Shapes /\ hist = jr[c]
  BY <1>1, BusyIds
<1>3. DeleteFine(hist, proc.at)
  BY <1>1, <1>2 DEF Fine
<1>4. CASE IntendDelete
  BY <1>1, <1>2, <1>4, DeleteMoves, MovesIds DEF IntendDelete, At
<1>5. CASE ObserveDelete
  <2>1. PICK reply : Record(CommandObserved(hist, reply), "run")
    BY <1>5 DEF ObserveDelete
  <2>2. hist.phase = "DISPATCH_INTENT"
    BY <1>5 DEF ObserveDelete, At
  <2> QED BY <1>1, <1>2, <2>1, <2>2, DeleteMoves, MovesIds
<1>6. CASE AdoptAbsence
  BY <1>1, <1>2, <1>6, DeleteMoves, MovesIds DEF AdoptAbsence, At
<1>7. CASE ConcludeNotPerformed
  <2>1. Agree
    BY <1>3, <1>7 DEF ConcludeNotPerformed, At, DeleteFine, Early, Agree
  <2> QED BY <1>1, <1>2, <1>7, <2>1, DeleteMoves, MovesIds DEF ConcludeNotPerformed, Middle
<1>8. CASE FreezeDelete
  <2>1. hist.phase \in Middle \ {"BASELINE"}
    BY <1>8 DEF FreezeDelete, At, Middle
  <2> QED BY <1>1, <1>2, <1>8, <2>1, DeleteMoves, MovesIds DEF FreezeDelete
<1>9. CASE DispatchDelete
  <2>1. hist.phase = "DISPATCH_INTENT" /\ sep' \in {sep, Erased} /\ jr' = jr
        /\ host' = host /\ pend' = pend /\ exports' = exports
    BY <1>9 DEF DispatchDelete, At, store
  <2>2. PICK at \in {"ok", "refused", "lost"} : Goto(at)
    BY <1>9 DEF DispatchDelete
  <2>3. PICK h : h = jr[c]
    OBVIOUS
  <2>4. /\ DeleteFine(h, proc.at) /\ h.kind = "delete" /\ h.phase = "DISPATCH_INTENT"
        /\ Tracked(h, proc.at)
    BY <1>1, <1>2, <1>3, <2>1, <2>3 DEF Fine
  <2>7. Tracked(h, at) /\ Tracked(h, at)'
    BY <2>4 DEF Tracked, Needs
  <2>5. CASE sep' = sep
    <3>1. Shapes'
      BY <1>2, <2>1, <2>5 DEF Shapes
    <3>2. Fine(h, at)
      BY <2>2, <2>4, <2>7 DEF Fine, DeleteFine, Middle
    <3>3. Fine(h, at)'
      BY <2>1, <2>5, <3>2, SameFine
    <3> QED BY <1>1, <2>1, <2>2, <2>3, <3>1, <3>3, GoesIds
  <2>6. CASE sep' = Erased
    <3>1. /\ sep'.ids = sep.ids \ {h.target} /\ "user" \in sep'.dirty
          /\ DOMAIN sep' = DOMAIN sep
      BY <1>2, <2>3, <2>6 DEF Erased, Shapes
    <3>2. Shapes'
      BY <1>2, <2>1, <3>1 DEF Shapes
    <3>3. sep'.ids = Survivors(h)
      BY <2>4, <3>1 DEF DeleteFine, Sides, Survivors, Middle
    <3>4. Sides(h)'
      BY <2>1, <2>4, <3>1, <3>3 DEF DeleteFine, Sides, Survivors, Early
    <3>5. Fine(h, at)'
      BY <2>1, <2>2, <2>4, <2>7, <3>4 DEF Fine, DeleteFine, Middle, Early, Survivors
    <3> QED BY <1>1, <2>1, <2>2, <2>3, <3>2, <3>5, GoesIds
  <2> QED BY <2>1, <2>5, <2>6
<1> QED BY <1>4, <1>5, <1>6, <1>7, <1>8, <1>9 DEF Delete

\* A save stands before one of its steps.
LEMMA SavingFacts ==
    ASSUME NEW phase, NEW at, Saving(phase, at)
    PROVE  /\ Busy /\ proc.at = at /\ hist.persistence.phase = phase
           /\ hist.kind = "delete" => hist.phase \in {"SEP_DELETED", "PERSISTING"}
           /\ hist.kind # "sync" /\ hist.phase \in Early \cup {"SEP_DELETED", "PERSISTING"}
<1>1. /\ DOMAIN SaveStarts = {"rename", "delete"}
      /\ SaveStarts["delete"] = "SEP_DELETED" /\ SaveStarts["rename"] = "INTENT"
  BY DEF SaveStarts
<1> QED BY <1>1 DEF Saving, Busy, saved, Early

\* It writes its next record.
LEMMA SaveStepIds ==
    ASSUME Once, NEW c, Ids(c), NEW phase, NEW at1, at1 \notin {"none", "local", "inspect"},
           Saving(phase, at1), NEW T, NEW P, NEW file, NEW at2, at2 # "none",
           Gives(T, P), Follows(P, at2, phase, at1)
    PROVE  Record(Saved(hist, T, file), at2) => Ids(c)'
<1>1. /\ Busy /\ proc.at = at1 /\ hist.persistence.phase = phase
      /\ hist.kind = "delete" => hist.phase \in {"SEP_DELETED", "PERSISTING"}
      /\ hist.kind # "sync" /\ hist.phase \in Early \cup {"SEP_DELETED", "PERSISTING"}
  BY SavingFacts
<1>2. History(hist) /\ Fine(hist, at1)
  BY <1>1, BusyIds
<1>3. Passes(hist, Saved(hist, T, file))
  BY <1>2, SavePasses
<1>4. hist.kind = "delete" => \A g \in Saved(hist, T, file) : Fine(g, at2)
  BY <1>1, <1>2, SavedFine
<1>5. Tracked(hist, at1)
  BY <1>2 DEF Fine
<1>6. \A g \in Saved(hist, T, file) : Tracked(g, at2)
  BY <1>1, <1>2, <1>5, SavedTracked
<1> QED BY <1>1, <1>3, <1>4, <1>6, RecordsIds

\* The tracker of a save.
LEMMA SavingTracker ==
    ASSUME Once, NEW c, Ids(c), NEW phase, NEW at, Saving(phase, at)
    PROVE  Tracker(saved)
<1>1. Busy /\ hist.kind # "sync"
  BY SavingFacts
<1>2. Fine(hist, proc.at)
  BY <1>1, BusyIds
<1> QED BY <1>1, <1>2 DEF Fine, Tracked, saved

\* The records of a save that goes on.
SaveRecord ==
    \/ PlanPersistence \/ IntendPrepare \/ ObservePrepare \/ IntendComplete \/ CaptureBlob
    \/ RecordStaged \/ IntendCommit \/ RecordCommitted \/ IntendFinalConfirm
    \/ ObserveFinalConfirm

LEMMA SaveRecordIds == ASSUME Once, NEW c, Ids(c), SaveRecord PROVE Ids(c)'
<1>1. PICK phase, at : Saving(phase, at)
  BY DEF SaveRecord, PlanPersistence, IntendPrepare, ObservePrepare, IntendComplete, CaptureBlob,
         RecordStaged, IntendCommit, RecordCommitted, IntendFinalConfirm, ObserveFinalConfirm
<1>2. /\ Gives(Plan(saved, MetadataPlan), {"COMPONENT_READY"})
      /\ Gives(PrepareIntent(saved), {"PREPARE_INTENT"}) /\ Gives(Prepared(saved), {"PREPARED"})
      /\ Gives(CompleteIntent(saved), {"COMPLETE_INTENT"})
      /\ Gives(BlobCaptured(saved), {"SECURE_BLOB_CAPTURED"})
      /\ Gives(HostStaged(saved), {"HOST_STAGED"})
      /\ Gives(CommitIntent(saved), {"BATCH_COMMIT_INTENT"})
      /\ Gives(Committed(saved), {"BATCH_COMMITTED"})
      /\ Gives(FinalConfirmIntent(saved), {"FINAL_CONFIRM_INTENT"})
      /\ Gives(FinalConfirmed(saved), {"ATTESTATION_READY"})
  BY <1>1, SavingTracker, TrackersGive
<1>3. CASE PlanPersistence
  <2>1. /\ Saving("NOT_STARTED", "run")
        /\ Record(Saved(hist, Plan(saved, MetadataPlan), hist.file), "begin")
    BY <1>3 DEF PlanPersistence
  <2>2. Follows({"COMPONENT_READY"}, "begin", "NOT_STARTED", "run")
    BY DEF Follows, StagedAt, CrossedAt, NeedsAt
  <2> QED BY <1>2, <2>1, <2>2, SaveStepIds
<1>4. CASE IntendPrepare
  <2>1. /\ Saving("COMPONENT_READY", "run")
        /\ Record(Saved(hist, PrepareIntent(saved), hist.file), "send")
    BY <1>4 DEF IntendPrepare, SaveStep
  <2>2. Follows({"PREPARE_INTENT"}, "send", "COMPONENT_READY", "run")
    BY DEF Follows, StagedAt, CrossedAt, NeedsAt
  <2> QED BY <1>2, <2>1, <2>2, SaveStepIds
<1>5. CASE ObservePrepare
  <2>1. Saving("PREPARE_INTENT", "ok") /\ Record(Saved(hist, Prepared(saved), hist.file), "run")
    BY <1>5 DEF ObservePrepare, SaveStep
  <2>2. Follows({"PREPARED"}, "run", "PREPARE_INTENT", "ok")
    BY DEF Follows, StagedAt, CrossedAt, NeedsAt
  <2> QED BY <1>2, <2>1, <2>2, SaveStepIds
<1>6. CASE IntendComplete
  <2>1. Saving("PREPARED", "run") /\ Record(Saved(hist, CompleteIntent(saved), hist.file), "send")
    BY <1>6 DEF IntendComplete, SaveStep
  <2>2. Follows({"COMPLETE_INTENT"}, "send", "PREPARED", "run")
    BY DEF Follows, StagedAt, CrossedAt, NeedsAt
  <2> QED BY <1>2, <2>1, <2>2, SaveStepIds
<1>7. CASE CaptureBlob
  <2>1. Saving("COMPLETE_INTENT", "ok") /\ Record(Saved(hist, BlobCaptured(saved), hist.file), "run")
    BY <1>7 DEF CaptureBlob, SaveStep
  <2>2. Follows({"SECURE_BLOB_CAPTURED"}, "run", "COMPLETE_INTENT", "ok")
    BY DEF Follows, StagedAt, CrossedAt, NeedsAt
  <2> QED BY <1>2, <2>1, <2>2, SaveStepIds
<1>8. CASE RecordStaged
  <2>1. /\ Saving("SECURE_BLOB_CAPTURED", "staged")
        /\ Record(Saved(hist, HostStaged(saved), pend.user), "run")
    BY <1>8 DEF RecordStaged
  <2>2. Follows({"HOST_STAGED"}, "run", "SECURE_BLOB_CAPTURED", "staged")
    BY DEF Follows, StagedAt, CrossedAt, NeedsAt
  <2> QED BY <1>2, <2>1, <2>2, SaveStepIds
<1>9. CASE IntendCommit
  <2>1. Saving("HOST_STAGED", "run") /\ Record(Saved(hist, CommitIntent(saved), hist.file), "cross")
    BY <1>9 DEF IntendCommit, SaveStep
  <2>2. Follows({"BATCH_COMMIT_INTENT"}, "cross", "HOST_STAGED", "run")
    BY DEF Follows, StagedAt, CrossedAt, NeedsAt
  <2> QED BY <1>2, <2>1, <2>2, SaveStepIds
<1>10. CASE RecordCommitted
  <2>1. /\ Saving("BATCH_COMMIT_INTENT", "crossed")
        /\ Record(Saved(hist, Committed(saved), hist.file), "run")
    BY <1>10 DEF RecordCommitted, SaveStep
  <2>2. Follows({"BATCH_COMMITTED"}, "run", "BATCH_COMMIT_INTENT", "crossed")
    BY DEF Follows, StagedAt, CrossedAt, NeedsAt
  <2> QED BY <1>2, <2>1, <2>2, SaveStepIds
<1>11. CASE IntendFinalConfirm
  <2>1. /\ Saving("BATCH_COMMITTED", "run")
        /\ Record(Saved(hist, FinalConfirmIntent(saved), hist.file), "send")
    BY <1>11 DEF IntendFinalConfirm, SaveStep
  <2>2. Follows({"FINAL_CONFIRM_INTENT"}, "send", "BATCH_COMMITTED", "run")
    BY DEF Follows, StagedAt, CrossedAt, NeedsAt
  <2> QED BY <1>2, <2>1, <2>2, SaveStepIds
<1>12. CASE ObserveFinalConfirm
  <2>1. /\ Saving("FINAL_CONFIRM_INTENT", "ok")
        /\ Record(Saved(hist, FinalConfirmed(saved), hist.file), "run")
    BY <1>12 DEF ObserveFinalConfirm, SaveStep
  <2>2. Follows({"ATTESTATION_READY"}, "run", "FINAL_CONFIRM_INTENT", "ok")
    BY DEF Follows, StagedAt, CrossedAt, NeedsAt
  <2> QED BY <1>2, <2>1, <2>2, SaveStepIds
<1> QED BY <1>3, <1>4, <1>5, <1>6, <1>7, <1>8, <1>9, <1>10, <1>11, <1>12 DEF SaveRecord

\* The records that end a save.
LEMMA SaveEndIds ==
    ASSUME Once, NEW c, Ids(c),
           AttestRename \/ AttestDelete \/ ReconcileRename \/ ReconcileDelete \/ FreezeSave
    PROVE  Ids(c)'
<1>1. Busy
  BY DEF Busy, AttestRename, AttestDelete, Attest, ReconcileRename, ReconcileDelete, FreezeSave,
         Saving, At
<1>2. History(hist) /\ Fine(hist, proc.at)
  BY <1>1, BusyIds
<1>3. ASSUME NEW T, NEW file, NEW at, NEW phase, NEW place, Saving(phase, place),
             (Gives(T, {"COMPLETE"}) /\ Agree) \/ Gives(T, {"OUTCOME_UNKNOWN"})
      PROVE  /\ Record(Saved(hist, T, file), at) => Ids(c)'
             /\ at = "none" => (RecordAndExit(Saved(hist, T, file)) => Ids(c)')
  <2>1. Passes(hist, Saved(hist, T, file))
    BY <1>2, SavePasses
  <2>2. hist.kind = "delete" => hist.phase \in {"SEP_DELETED", "PERSISTING"}
    BY <1>3, SavingFacts
  <2>3. hist.kind = "delete" => \A g \in Saved(hist, T, file) : Fine(g, at)
    BY <1>2, <1>3, <2>2, EndedFine
  <2>4. \A g \in Saved(hist, T, file) : Tracked(g, at)
    BY <1>2, <1>3, EndedTracked
  <2> QED BY <1>1, <2>1, <2>3, <2>4, RecordsIds
<1>4. CASE AttestRename \/ AttestDelete
  <2>1. /\ Saving("ATTESTATION_READY", "run") /\ Agree
        /\ Record(Saved(hist, Attested(saved), hist.file), "run")
    BY <1>4 DEF AttestRename, AttestDelete, Attest, SaveStep, Summarized, Agree
  <2>2. Gives(Attested(saved), {"COMPLETE"})
    BY <2>1, SavingTracker, TrackersGive
  <2> QED BY <1>3, <2>1, <2>2
<1>5. CASE FreezeSave
  <2>1. PICK stage, possible, phase, place :
            /\ Saving(phase, place)
            /\ RecordAndExit(Saved(hist, Freeze(saved, stage, possible), hist.file))
    BY <1>5 DEF FreezeSave
  <2>2. Gives(Freeze(saved, stage, possible), {"OUTCOME_UNKNOWN"})
    BY <2>1, SavingTracker, TrackersGive
  <2> QED BY <1>3, <2>1, <2>2
<1>6. CASE ReconcileRename
  <2>1. /\ hist.kind = "rename" /\ Passes(hist, RenameReconciled(hist))
        /\ RecordAndExit(RenameReconciled(hist))
    BY <1>2, <1>6, RenamePasses DEF ReconcileRename, At
  <2>2. Turns(hist, RenameReconciled(hist), "RECONCILED")
    BY <1>2 DEF Turns, RenameReconciled, Moved, Only, History
  <2> QED BY <1>1, <2>1, <2>2, TurnsIds DEF Early
<1>7. CASE ReconcileDelete
  <2>1. /\ hist.kind = "delete" /\ hist.phase = "PERSISTENCE_READY" /\ proc.at = "run"
        /\ RecordAndExit(DeleteReconciled(hist))
    BY <1>7 DEF ReconcileDelete, At
  <2>2. Agree
    BY <1>2, <2>1 DEF Fine, DeleteFine
  <2>3. Moves(hist, DeleteReconciled(hist), "RECONCILED")
    BY <1>2, DeleteMoves
  <2> QED BY <1>1, <2>1, <2>2, <2>3, MovesIds DEF Middle
<1> QED BY <1>4, <1>5, <1>6, <1>7

\* A step on the files.
LEMMA FilesIds ==
    ASSUME Once, NEW c, Ids(c), Busy, NEW at, OnFiles(at), NEW h, h = hist,
           {"dir", "user", "master", "torn"} \subseteq DOMAIN pend', exports' \in Nat,
           pend'.dir = "none" => pend'.user = NoFile, Fine(h, at)'
    PROVE  Ids(c)'
<1>1. h = jr[c] /\ Shapes
  BY BusyIds
<1>2. jr' = jr /\ Goto(at) /\ sep' = sep
  BY DEF OnFiles
<1>3. Shapes'
  BY <1>1, <1>2 DEF Shapes
<1> QED BY <1>1, <1>2, <1>3, GoesIds

\* What is left to show of it, in a save.
LEMMA SaveFilesIds ==
    ASSUME Once, NEW c, Ids(c), NEW phase, NEW at1, at1 \notin {"none", "local", "inspect"},
           Saving(phase, at1), NEW at2, OnFiles(at2),
           {"dir", "user", "master", "torn"} \subseteq DOMAIN pend', exports' \in Nat,
           pend'.dir = "none" => pend'.user = NoFile /\ ~NeedsAt(phase, at2),
           hist.kind # "delete" => OtherFine',
           hist.kind = "delete" /\ sep.ids = Survivors(hist) =>
              /\ host'.user.ids \in {hist.base.user.ids, Survivors(hist)}
              /\ pend'.user = NoFile \/ pend'.user.ids = Survivors(hist)
              /\ StagedAt(phase, at2) => pend'.user # NoFile
              /\ CrossedAt(phase, at2) => host'.user.ids = Survivors(hist),
           host'.user.ids \subseteq sep.ids \/ host' = host \/ hist.kind # "delete"
    PROVE  Ids(c)'
<1>1. /\ Busy /\ proc.at = at1 /\ hist.persistence.phase = phase
      /\ hist.kind = "delete" => hist.phase \in {"SEP_DELETED", "PERSISTING"}
  BY SavingFacts
<1>2. PICK h : h = hist
  OBVIOUS
<1>3. Fine(h, at1)
  BY <1>1, <1>2, BusyIds
<1>4. sep' = sep
  BY DEF OnFiles
<1>7. Tracked(h, at2)'
  <2>1. hist.kind # "sync"
    BY SavingFacts
  <2> QED BY <1>1, <1>2, <1>3, <2>1 DEF Fine, Tracked, Needs
<1>5. CASE h.kind # "delete"
  <2>1. Fine(h, at2)'
    BY <1>2, <1>5, <1>7 DEF Fine
  <2> QED BY <1>1, <1>2, <2>1, FilesIds
<1>6. CASE h.kind = "delete"
  <2>1. DeleteFine(h, at1) /\ h.phase \in {"SEP_DELETED", "PERSISTING"}
    BY <1>1, <1>2, <1>3, <1>6 DEF Fine
  <2>2. sep.ids = Survivors(h) /\ Sides(h)
    BY <2>1 DEF DeleteFine, SavingFine, Middle
  <2>3. /\ host'.user.ids \in {h.base.user.ids, Survivors(h)}
        /\ pend'.user = NoFile \/ pend'.user.ids = Survivors(h)
        /\ StagedAt(phase, at2) => pend'.user # NoFile
        /\ CrossedAt(phase, at2) => host'.user.ids = Survivors(h)
    BY <1>2, <1>6, <2>2
  <2>4. Sides(h)'
    BY <1>2, <1>4, <1>6, <2>2, <2>3 DEF Sides, Survivors
  <2>5. SavingFine(h, at2)'
    BY <1>1, <1>2, <1>4, <2>2, <2>3 DEF SavingFine, Survivors
  <2>6. (pend.user = NoFile \/ pend.user.ids = Survivors(h))'
    BY <2>3 DEF Survivors
  <2>7. DeleteFine(h, at2)'
    BY <2>1, <2>2, <2>4, <2>5, <2>6 DEF DeleteFine, Middle, Early
  <2>8. Fine(h, at2)'
    BY <1>6, <1>7, <2>7 DEF Fine
  <2> QED BY <1>1, <1>2, <2>8, FilesIds
<1> QED BY <1>5, <1>6

\* The file that a save makes.
LEMMA EncodedFacts ==
    ASSUME exports \in Nat
    PROVE  /\ Encoded # NoFile /\ exports + 1 \in Nat
           /\ hist.kind = "delete" => Encoded.ids = host.user.ids \ {hist.target}
           /\ hist.kind # "delete" => Encoded.ids = host.user.ids
<1>1. Encoded.ver = exports + 1 /\ NoFile.ver = 0
  BY DEF Encoded, NoFile
<1>2. Encoded # NoFile /\ exports + 1 \in Nat
  BY <1>1
<1> QED BY <1>2 DEF Encoded

LEMMA PendingFacts ==
    /\ {"dir", "user", "master", "torn"} \subseteq DOMAIN NoPending
    /\ {"dir", "user", "master", "torn"} \subseteq DOMAIN Prepare
    /\ NoPending.user = NoFile /\ Prepare.user = NoFile /\ Prepare.dir # "none"
BY DEF NoPending, Prepare

\* The steps of a save on the files.
LEMMA SaveHostIds ==
    ASSUME Once, NEW c, Ids(c),
           BeginStage \/ CreateStaged \/ StageComponent \/ CrossBoundary \/ RollForward
    PROVE  Ids(c)'
<1>1. Busy
  BY DEF Busy, BeginStage, CreateStaged, StageComponent, CrossBoundary, RollForward, Saving
<1>2. Shapes /\ Fine(hist, proc.at)
  BY <1>1, BusyIds
<1>3. hist.kind # "delete" => OtherFine
  BY <1>2 DEF Fine
<1>4. ASSUME hist.kind = "delete", NEW phase, NEW at, at \notin {"none", "local", "inspect"},
             Saving(phase, at)
      PROVE  /\ host.user.ids \in {hist.base.user.ids, Survivors(hist)}
             /\ pend.user = NoFile \/ pend.user.ids = Survivors(hist)
             /\ StagedAt(phase, at) => pend.user # NoFile
             /\ CrossedAt(phase, at) => host.user.ids = Survivors(hist)
             /\ sep.ids = Survivors(hist)
  BY <1>2, <1>4, SavingFacts DEF Fine, DeleteFine, SavingFine, Sides, Middle
<1>10. ASSUME NEW phase, NEW at, at \notin {"none", "local", "inspect"}, Saving(phase, at),
              NeedsAt(phase, at)
       PROVE  pend.dir # "none"
  <2>1. /\ proc.at = at /\ hist.persistence.phase = phase /\ hist.kind # "sync"
        /\ hist.phase \in Early \cup {"SEP_DELETED", "PERSISTING"}
    BY <1>10, SavingFacts
  <2>2. Tracked(hist, at)
    BY <1>2, <2>1 DEF Fine
  <2>3. phase # "NOT_STARTED"
    BY <1>10 DEF NeedsAt
  <2> QED BY <1>10, <2>1, <2>2, <2>3 DEF Tracked, Needs
<1>5. CASE BeginStage
  <2>1. /\ Saving("COMPONENT_READY", "begin") /\ OnFiles("run")
        /\ pend' = Prepare /\ host' = host /\ exports' = exports
    BY <1>5 DEF BeginStage
  <2>2. OtherFine => OtherFine'
    BY <2>1, PendingFacts DEF OtherFine, Agree, OnFiles
  <2> QED BY <1>2, <1>3, <1>4, <2>1, <2>2, PendingFacts, SaveFilesIds
          DEF Shapes, StagedAt, CrossedAt
<1>6. CASE CreateStaged
  <2>1. /\ Saving("SECURE_BLOB_CAPTURED", "run") /\ OnFiles("staging")
        /\ pend' = [pend EXCEPT !.torn = TRUE] /\ host' = host /\ exports' = exports
    BY <1>6 DEF CreateStaged
  <2>2. DOMAIN pend' = DOMAIN pend /\ pend'.user = pend.user /\ pend'.dir = pend.dir
    BY <1>2, <2>1 DEF Shapes
  <2>3. OtherFine => OtherFine'
    BY <2>1, <2>2 DEF OtherFine, Agree, OnFiles
  <2>4. pend.dir # "none"
    BY <1>10, <2>1 DEF NeedsAt
  <2> QED BY <1>2, <1>3, <1>4, <2>1, <2>2, <2>3, <2>4, SaveFilesIds
          DEF Shapes, StagedAt, CrossedAt
<1>7. CASE StageComponent
  <2>1. /\ Saving("SECURE_BLOB_CAPTURED", "staging") /\ OnFiles("staged")
        /\ pend' = [pend EXCEPT !.torn = FALSE, !.user = Encoded] /\ host' = host
        /\ exports' = exports + 1
    BY <1>7 DEF StageComponent
  <2>2. exports \in Nat
    BY <1>2 DEF Shapes
  <2>3. PICK e : e = Encoded
    OBVIOUS
  <2>4. DOMAIN pend' = DOMAIN pend /\ pend'.user = e /\ pend'.dir = pend.dir
    <3>1. pend' = [pend EXCEPT !.torn = FALSE, !.user = e]
      BY <2>1, <2>3
    <3> QED BY <1>2, <3>1 DEF Shapes
  <2>5. pend.dir # "none"
    BY <1>10, <2>1 DEF NeedsAt
  <2>6. /\ e # NoFile /\ exports + 1 \in Nat
        /\ hist.kind = "delete" => e.ids = host.user.ids \ {hist.target}
        /\ hist.kind # "delete" => e.ids = host.user.ids
    BY <2>2, <2>3, EncodedFacts
  <2>7. OtherFine /\ hist.kind # "delete" => OtherFine'
    BY <2>1, <2>4, <2>6 DEF OtherFine, Agree, OnFiles
  <2>8. hist.kind = "delete" => /\ e.ids = Survivors(hist)
                                /\ host.user.ids \in {hist.base.user.ids, Survivors(hist)}
    BY <1>4, <2>1, <2>6 DEF Survivors
  <2>9. ~CrossedAt("SECURE_BLOB_CAPTURED", "staged")
    BY DEF CrossedAt
  <2> QED BY <1>2, <1>3, <2>1, <2>4, <2>5, <2>6, <2>7, <2>8, <2>9, SaveFilesIds DEF Shapes
<1>8. CASE CrossBoundary
  <2>1. /\ Saving("BATCH_COMMIT_INTENT", "cross") /\ OnFiles("promote")
        /\ pend' = [pend EXCEPT !.dir = "commit"] /\ host' = host /\ exports' = exports
    BY <1>8 DEF CrossBoundary
  <2>2. DOMAIN pend' = DOMAIN pend /\ pend'.user = pend.user /\ pend'.dir = "commit"
    BY <1>2, <2>1 DEF Shapes
  <2>3. OtherFine => OtherFine'
    BY <2>1, <2>2 DEF OtherFine, Agree, OnFiles
  <2> QED BY <1>2, <1>3, <1>4, <2>1, <2>2, <2>3, SaveFilesIds DEF Shapes, StagedAt, CrossedAt
<1>9. CASE RollForward
  <2>1. /\ Saving("BATCH_COMMIT_INTENT", "promote") /\ OnFiles("crossed")
        /\ pend' = NoPending /\ host' = Promoted /\ exports' = exports
    BY <1>9 DEF RollForward
  <2>2. host'.user = IF pend.user = NoFile THEN host.user ELSE pend.user
    BY <2>1 DEF Promoted
  <2>3. OtherFine => OtherFine'
    BY <2>1, <2>2, PendingFacts DEF OtherFine, Agree, OnFiles
  <2>4. hist.kind = "delete" => host'.user.ids = Survivors(hist) /\ sep.ids = Survivors(hist)
    BY <1>4, <2>1, <2>2 DEF StagedAt
  <2> QED BY <1>2, <1>3, <2>1, <2>3, <2>4, PendingFacts, SaveFilesIds
          DEF Shapes, StagedAt, NeedsAt
<1> QED BY <1>5, <1>6, <1>7, <1>8, <1>9

\* A command to the SEP, which keeps the identities.
LEMMA SaveDispatchIds ==
    ASSUME Once, NEW c, Ids(c), DispatchPrepare \/ DispatchComplete \/ DispatchFinalConfirm
    PROVE  Ids(c)'
<1>1. PICK phase \in {"PREPARE_INTENT", "COMPLETE_INTENT", "FINAL_CONFIRM_INTENT"} :
          /\ Saving(phase, "send")
          /\ sep' = sep \/ (sep' = Cleaned("user") /\ phase = "FINAL_CONFIRM_INTENT")
          /\ \E at \in {"ok", "lost"} : Goto(at)
          /\ jr' = jr /\ host' = host /\ pend' = pend /\ exports' = exports
  BY DEF DispatchPrepare, DispatchComplete, DispatchFinalConfirm, Dispatch, store
<1>2. PICK at \in {"ok", "lost"} : Goto(at)
  BY <1>1
<1>3. /\ Busy /\ proc.at = "send" /\ hist.persistence.phase = phase /\ hist.kind # "sync"
      /\ hist.kind = "delete" => hist.phase \in {"SEP_DELETED", "PERSISTING"}
  BY <1>1, SavingFacts
<1>4. PICK h : h = jr[c]
  OBVIOUS
<1>5. h = hist /\ Shapes /\ Fine(h, "send")
  BY <1>3, <1>4, BusyIds
<1>6. /\ sep'.ids = sep.ids /\ DOMAIN sep' = DOMAIN sep
      /\ sep'.dirty = sep.dirty \/ phase = "FINAL_CONFIRM_INTENT"
  BY <1>1, <1>5 DEF Cleaned, Shapes
<1>7. Shapes'
  BY <1>1, <1>5, <1>6 DEF Shapes
<1>8. /\ StagedAt(phase, at) => StagedAt(phase, "send")
      /\ CrossedAt(phase, at) => CrossedAt(phase, "send")
      /\ NeedsAt(phase, at) => NeedsAt(phase, "send")
      /\ CrossedAt("FINAL_CONFIRM_INTENT", "send")
  BY <1>1 DEF StagedAt, CrossedAt, NeedsAt
<1>9. Tracked(h, at)'
  BY <1>1, <1>3, <1>5, <1>8 DEF Fine, Tracked, Needs
<1>10. CASE h.kind # "delete"
  <2>1. OtherFine'
    BY <1>1, <1>5, <1>6, <1>10 DEF Fine, OtherFine, Agree
  <2>2. Fine(h, at)'
    BY <1>9, <1>10, <2>1 DEF Fine
  <2> QED BY <1>1, <1>2, <1>3, <1>4, <1>7, <2>2, GoesIds
<1>11. CASE h.kind = "delete"
  <2>1. DeleteFine(h, "send") /\ h.phase \in {"SEP_DELETED", "PERSISTING"}
    BY <1>3, <1>5, <1>11 DEF Fine
  <2>2. SavingFine(h, "send") /\ Sides(h)
    BY <2>1 DEF DeleteFine, Middle
  <2>3. SavingFine(h, at)'
    BY <1>1, <1>3, <1>5, <1>6, <1>8, <2>2 DEF SavingFine, Survivors
  <2>4. Sides(h)'
    <3>1. phase = "FINAL_CONFIRM_INTENT" => host.user.ids \subseteq sep.ids
      BY <1>3, <1>5, <1>8, <2>2 DEF SavingFine
    <3> QED BY <1>1, <1>6, <2>2, <3>1 DEF Sides, Survivors
  <2>5. DeleteFine(h, at)'
    BY <1>1, <1>2, <2>1, <2>3, <2>4 DEF DeleteFine, Middle, Early, Survivors
  <2>6. Fine(h, at)'
    BY <1>9, <1>11, <2>5 DEF Fine
  <2> QED BY <1>1, <1>2, <1>3, <1>4, <1>7, <2>6, GoesIds
<1> QED BY <1>10, <1>11

\* begin_stage fails, with prepare/ or without it.
LEMMA FailStageIds ==
    ASSUME Once, NEW c, Ids(c), AbortRename \/ FailDeleteStage
    PROVE  Ids(c)'
<1>1. PICK H, phase :
          /\ Saving("COMPONENT_READY", "begin") /\ pend' \in {pend, Prepare} /\ Journal(H) /\ Exit
          /\ host' = host /\ exports' = exports /\ sep' = sep
          /\ \/ H = RenameAborted(hist) /\ hist.kind = "rename" /\ phase = "ABORTED"
             \/ H = DeleteOutcomeUnknown(hist) /\ hist.kind = "delete" /\ phase = "OUTCOME_UNKNOWN"
  BY DEF AbortRename, FailDeleteStage, FailBeginStage
<1>2. Busy /\ (hist.kind = "delete" => hist.phase \in {"SEP_DELETED", "PERSISTING"})
  BY <1>1, SavingFacts
<1>3. /\ c \in DOMAIN jr /\ proc.op = c /\ History(hist) /\ Shapes /\ Fine(hist, proc.at)
  BY <1>2, BusyIds
<1>4. \A g \in H : Fine(g, "none") /\ g.phase = phase /\ g.kind = hist.kind
  <2>1. CASE hist.kind = "rename"
    <3>1. Passes(hist, H) /\ Turns(hist, H, "ABORTED")
      BY <1>1, <1>3, <2>1, RenamePasses DEF Turns, RenameAborted, Only, History
    <3>2. \A g \in H : Fine(g, "none")
      BY <1>2, <2>1, <3>1, TurnsIds DEF Early
    <3> QED BY <1>1, <2>1, <3>1, <3>2 DEF Turns
  <2>2. CASE hist.kind = "delete"
    <3>1. Moves(hist, H, "OUTCOME_UNKNOWN")
      BY <1>1, <1>3, <2>2, DeleteMoves
    <3>2. \A g \in H : Fine(g, "none")
      BY <1>2, <2>2, <3>1, MovesIds DEF Middle
    <3> QED BY <1>1, <2>2, <3>1, <3>2 DEF Moves
  <2> QED BY <1>1, <2>1, <2>2
<1>5. PICK g \in H : jr' = [jr EXCEPT ![c] = g]
  BY <1>1, <1>3 DEF Journal
<1>6. Shapes'
  BY <1>1, <1>3, PendingFacts DEF Shapes
<1>7. Fine(g, "none")'
  <2>1. Fine(g, "none") /\ g.phase = phase /\ g.kind = hist.kind
    BY <1>4
  <2>2. pend'.user = pend.user \/ pend'.user = NoFile
    BY <1>1, PendingFacts
  <2>3. g.kind = "delete" => g.phase = "OUTCOME_UNKNOWN"
    BY <1>1, <2>1
  <2>4. Tracked(g, "none")'
    BY <2>1 DEF Fine, Tracked
  <2>5. CASE g.kind # "delete"
    BY <1>1, <2>1, <2>2, <2>4, <2>5 DEF Fine, OtherFine, Agree
  <2>6. CASE g.kind = "delete"
    <3>1. DeleteFine(g, "none")
      BY <2>1, <2>6 DEF Fine
    <3>2. DeleteFine(g, "none")'
      BY <1>1, <2>2, <2>3, <2>6, <3>1 DEF DeleteFine, Sides, Middle, Early, Survivors
    <3> QED BY <2>4, <2>6, <3>2 DEF Fine
  <2> QED BY <2>5, <2>6
<1>8. proc' = Idle /\ proc'.at = "none"
  BY <1>1 DEF Exit, Idle
<1> QED BY <1>3, <1>5, <1>6, <1>7, <1>8, WroteIds

LEMMA SaveIds == ASSUME Once, NEW c, Ids(c), Save PROVE Ids(c)'
BY SaveRecordIds, SaveEndIds, SaveHostIds, SaveDispatchIds, FailStageIds DEF Save, SaveRecord

\* The milestones of a sync.
LEMMA SyncTurns ==
    ASSUME NEW h, History(h), NEW root
    PROVE  /\ Turns(h, SyncAborted(h), "ABORTED")
           /\ Turns(h, SyncOutcomeUnknown(h), "OUTCOME_UNKNOWN")
           /\ Turns(h, SyncHostCommitted(h, root), "HOST_COMMITTED")
           /\ Turns(h, SyncReconciled(h, root), "RECONCILED")
           /\ Turns(h, SyncRecoveredClean(h, root), "RECONCILED")
           /\ Turns(h, SyncRecoveryIntent(h, root), "INTENT")
<1>1. Turns(h, SyncAborted(h), "ABORTED") /\ Turns(h, SyncOutcomeUnknown(h), "OUTCOME_UNKNOWN")
  BY DEF Turns, SyncAborted, SyncOutcomeUnknown, Moved, Only, History
<1>2. Turns(h, SyncHostCommitted(h, root), "HOST_COMMITTED")
  BY DEF Turns, SyncHostCommitted, Only, History
<1>3. Turns(h, SyncReconciled(h, root), "RECONCILED")
  BY DEF Turns, SyncReconciled, Only, History
<1>4. Turns(h, SyncRecoveredClean(h, root), "RECONCILED")
  BY DEF Turns, SyncRecoveredClean, Only, History
<1>5. Turns(h, SyncRecoveryIntent(h, root), "INTENT")
  BY DEF Turns, SyncRecoveryIntent, Only, History
<1> QED BY <1>1, <1>2, <1>3, <1>4, <1>5

\* A sync stands before one of its steps.
LEMMA SyncFacts ==
    ASSUME Once, NEW c, Ids(c), NEW phase, NEW at, At("sync", phase, at)
    PROVE  /\ Busy /\ hist.kind = "sync" /\ hist.phase = phase /\ proc.at = at
           /\ History(hist) /\ Shapes /\ OtherFine
           /\ Needs(hist, at) /\ at \notin {"none", "local", "inspect"} => pend.dir # "none"
<1>1. Busy /\ hist.kind = "sync" /\ hist.phase = phase /\ proc.at = at
  BY DEF At, Busy
<1> QED BY <1>1, BusyIds DEF Fine, Tracked

\* What is left to show of a step on the files, in a sync.
LEMMA SyncFilesIds ==
    ASSUME Once, NEW c, Ids(c), NEW at1, At("sync", "INTENT", at1), NEW at2, OnFiles(at2),
           {"dir", "user", "master", "torn"} \subseteq DOMAIN pend', exports' \in Nat,
           \/ pend'.dir # "none"
           \/ pend'.user = NoFile /\ at2 = "crossed",
           OtherFine'
    PROVE  Ids(c)'
<1>1. /\ Busy /\ hist.kind = "sync"
  BY SyncFacts
<1>2. PICK h : h = hist
  OBVIOUS
<1>3. Tracked(h, at2)'
  BY <1>1, <1>2 DEF Tracked, Needs
<1>4. Fine(h, at2)'
  BY <1>1, <1>2, <1>3 DEF Fine
<1> QED BY <1>1, <1>2, <1>4, FilesIds

\* The steps of a sync on the files.
LEMMA SyncHostIds ==
    ASSUME Once, NEW c, Ids(c),
           BeginSync \/ ExportSync \/ StageSync \/ NextSyncComponent \/ CrossSync \/ PromoteSync
    PROVE  Ids(c)'
<1>1. CASE BeginSync
  <2>1. /\ At("sync", "INTENT", "begin") /\ OnFiles("export")
        /\ pend' = Prepare /\ host' = host /\ exports' = exports
    BY <1>1 DEF BeginSync
  <2>2. Shapes /\ OtherFine
    BY <2>1, SyncFacts
  <2>3. OtherFine'
    BY <2>1, <2>2, PendingFacts DEF OtherFine, Agree, OnFiles
  <2> QED BY <2>1, <2>2, <2>3, PendingFacts, SyncFilesIds DEF Shapes
<1>2. CASE ExportSync
  <2>1. /\ At("sync", "INTENT", "export") /\ OnFiles("staging")
        /\ pend' = [pend EXCEPT !.torn = TRUE] /\ host' = host /\ exports' = exports
    BY <1>2 DEF ExportSync
  <2>2. Shapes /\ OtherFine /\ pend.dir # "none"
    BY <2>1, SyncFacts DEF Needs
  <2>3. DOMAIN pend' = DOMAIN pend /\ pend'.user = pend.user /\ pend'.dir = pend.dir
    BY <2>1, <2>2 DEF Shapes
  <2>4. OtherFine'
    BY <2>1, <2>2, <2>3 DEF OtherFine, Agree, OnFiles
  <2> QED BY <2>1, <2>2, <2>3, <2>4, SyncFilesIds DEF Shapes
<1>3. CASE StageSync
  <2>1. /\ At("sync", "INTENT", "staging") /\ host' = host /\ exports' = exports + 1
        /\ \/ pend' = [pend EXCEPT !.torn = FALSE, !.user = Encoded] /\ OnFiles("confirm")
           \/ pend' = [pend EXCEPT !.torn = FALSE, !.master = exports + 1] /\ OnFiles("cross")
    BY <1>3 DEF StageSync
  <2>2. Shapes /\ OtherFine /\ pend.dir # "none" /\ hist.kind = "sync"
    BY <2>1, SyncFacts DEF Needs
  <2>3. exports \in Nat /\ exports + 1 \in Nat
    BY <2>2 DEF Shapes
  <2>4. PICK e, n : e = Encoded /\ n = exports + 1
    OBVIOUS
  <2>5. e.ids = host.user.ids
    BY <2>2, <2>3, <2>4, EncodedFacts
  <2>6. /\ \/ pend' = [pend EXCEPT !.torn = FALSE, !.user = e]
           \/ pend' = [pend EXCEPT !.torn = FALSE, !.master = n]
        /\ OnFiles("confirm") \/ OnFiles("cross")
    BY <2>1, <2>4
  <2>7. /\ DOMAIN pend' = DOMAIN pend /\ pend'.user \in {pend.user, e} /\ pend'.dir = pend.dir
    BY <2>2, <2>6 DEF Shapes
  <2>8. OtherFine'
    BY <2>1, <2>2, <2>5, <2>6, <2>7 DEF OtherFine, Agree, OnFiles
  <2> QED BY <2>1, <2>2, <2>3, <2>6, <2>7, <2>8, SyncFilesIds DEF Shapes
<1>4. CASE NextSyncComponent
  <2>1. /\ At("sync", "INTENT", "ok") /\ OnFiles("export")
        /\ pend' = pend /\ host' = host /\ exports' = exports
    BY <1>4 DEF NextSyncComponent, store
  <2>2. Shapes /\ OtherFine /\ pend.dir # "none"
    BY <2>1, SyncFacts DEF Needs
  <2>3. OtherFine'
    BY <2>1, <2>2 DEF OtherFine, Agree, OnFiles
  <2> QED BY <2>1, <2>2, <2>3, SyncFilesIds DEF Shapes
<1>5. CASE CrossSync
  <2>1. /\ At("sync", "INTENT", "cross") /\ OnFiles("promote")
        /\ pend' = [pend EXCEPT !.dir = "commit"] /\ host' = host /\ exports' = exports
    BY <1>5 DEF CrossSync
  <2>2. Shapes /\ OtherFine
    BY <2>1, SyncFacts
  <2>3. DOMAIN pend' = DOMAIN pend /\ pend'.user = pend.user /\ pend'.dir = "commit"
    BY <2>1, <2>2 DEF Shapes
  <2>4. OtherFine'
    BY <2>1, <2>2, <2>3 DEF OtherFine, Agree, OnFiles
  <2> QED BY <2>1, <2>2, <2>3, <2>4, SyncFilesIds DEF Shapes
<1>6. CASE PromoteSync
  <2>1. /\ At("sync", "INTENT", "promote") /\ OnFiles("crossed")
        /\ pend' = NoPending /\ host' = Promoted /\ exports' = exports
    BY <1>6 DEF PromoteSync
  <2>2. Shapes /\ OtherFine
    BY <2>1, SyncFacts
  <2>3. host'.user = IF pend.user = NoFile THEN host.user ELSE pend.user
    BY <2>1 DEF Promoted
  <2>4. OtherFine'
    BY <2>1, <2>2, <2>3, PendingFacts DEF OtherFine, Agree, OnFiles
  <2> QED BY <2>1, <2>2, <2>4, PendingFacts, SyncFilesIds DEF Shapes
<1> QED BY <1>1, <1>2, <1>3, <1>4, <1>5, <1>6

\* The confirms of a sync.
LEMMA SyncConfirmIds ==
    ASSUME Once, NEW c, Ids(c), ConfirmSyncUser \/ ConfirmSyncMaster
    PROVE  Ids(c)'
<1>1. PICK phase, component :
          /\ At("sync", phase, "confirm") /\ phase \in {"INTENT", "HOST_COMMITTED"}
          /\ sep' = sep \/ sep' = Cleaned(component)
          /\ \E at \in {"ok", "lost"} : Goto(at)
          /\ jr' = jr /\ host' = host /\ pend' = pend /\ exports' = exports
  BY DEF ConfirmSyncUser, ConfirmSyncMaster, Dispatch, store
<1>2. PICK at \in {"ok", "lost"} : Goto(at)
  BY <1>1
<1>3. PICK h : h = jr[c]
  OBVIOUS
<1>4. /\ Busy /\ hist.kind = "sync" /\ hist.phase = phase /\ Shapes /\ OtherFine
      /\ phase = "INTENT" => pend.dir # "none"
  BY <1>1, SyncFacts DEF Needs
<1>5. h = hist
  BY <1>3, <1>4, BusyIds
<1>6. sep'.ids = sep.ids /\ DOMAIN sep' = DOMAIN sep
  BY <1>1, <1>4 DEF Cleaned, Shapes
<1>7. Shapes' /\ OtherFine'
  BY <1>1, <1>4, <1>6 DEF Shapes, OtherFine, Agree
<1>8. Tracked(h, at)'
  BY <1>1, <1>4, <1>5 DEF Tracked, Needs
<1>9. Fine(h, at)'
  BY <1>4, <1>5, <1>7, <1>8 DEF Fine
<1> QED BY <1>1, <1>2, <1>3, <1>4, <1>7, <1>9, GoesIds

LEMMA SyncIds == ASSUME Once, NEW c, Ids(c), Sync PROVE Ids(c)'
<1>1. CASE FailBeginSync
  <2>1. /\ At("sync", "INTENT", "begin") /\ pend' \in {pend, Prepare} /\ Exit
        /\ host' = host /\ exports' = exports /\ sep' = sep
        /\ Journal(SyncOutcomeUnknown(hist)) \/ Journal(SyncAborted(hist))
    BY <1>1 DEF FailBeginSync
  <2>2. /\ Busy /\ hist.kind = "sync" /\ History(hist) /\ Shapes
    BY <2>1, SyncFacts
  <2>3. PICK H, phase :
            /\ Journal(H) /\ Passes(hist, H) /\ Turns(hist, H, phase)
            /\ phase \in {"OUTCOME_UNKNOWN", "ABORTED"}
    BY <2>1, <2>2, SyncPasses, SyncTurns
  <2>4. c \in DOMAIN jr /\ proc.op = c
    BY <2>2, BusyIds
  <2>5. PICK g \in H : jr' = [jr EXCEPT ![c] = g]
    BY <2>3, <2>4 DEF Journal
  <2>6. Fine(g, "none") /\ g.kind = "sync"
    <3>1. \A k \in H : Fine(k, "none")
      BY <2>2, <2>3, TurnsIds
    <3> QED BY <2>2, <2>3, <3>1 DEF Turns
  <2>7. pend'.user = pend.user \/ pend'.user = NoFile
    BY <2>1, PendingFacts
  <2>8. Fine(g, "none")'
    BY <2>1, <2>6, <2>7 DEF Fine, Tracked, OtherFine, Agree
  <2>9. Shapes'
    BY <2>1, <2>2, PendingFacts DEF Shapes
  <2>10. proc' = Idle /\ proc'.at = "none"
    BY <2>1 DEF Exit, Idle
  <2> QED BY <2>4, <2>5, <2>8, <2>9, <2>10, WroteIds
<1>2. CASE RecordSyncCommitted \/ ReconcileSync \/ FreezeSync
  <2>1. PICK phase, at : At("sync", phase, at)
    BY <1>2 DEF RecordSyncCommitted, ReconcileSync, FreezeSync
  <2>2. Busy /\ hist.kind = "sync" /\ History(hist)
    BY <2>1, SyncFacts
  <2>3. CASE RecordSyncCommitted
    <3>1. /\ Passes(hist, SyncHostCommitted(hist, host))
          /\ Turns(hist, SyncHostCommitted(hist, host), "HOST_COMMITTED")
      BY <2>2, SyncPasses, SyncTurns
    <3> QED BY <2>2, <2>3, <3>1, TurnsIds DEF RecordSyncCommitted
  <2>4. CASE ReconcileSync
    <3>1. /\ Passes(hist, SyncReconciled(hist, host))
          /\ Turns(hist, SyncReconciled(hist, host), "RECONCILED")
      BY <2>2, SyncPasses, SyncTurns
    <3> QED BY <2>2, <2>4, <3>1, TurnsIds DEF ReconcileSync
  <2>5. CASE FreezeSync
    <3>1. /\ Passes(hist, SyncOutcomeUnknown(hist))
          /\ Turns(hist, SyncOutcomeUnknown(hist), "OUTCOME_UNKNOWN")
      BY <2>2, SyncPasses, SyncTurns
    <3> QED BY <2>2, <2>5, <3>1, TurnsIds DEF FreezeSync
  <2> QED BY <1>2, <2>3, <2>4, <2>5
<1> QED BY <1>1, <1>2, SyncHostIds, SyncConfirmIds DEF Sync

\* A process that has stopped, or that is recovering, is held to less.
LEMMA ElsewhereFine ==
    ASSUME NEW h, NEW at1, Fine(h, at1), NEW at2 \in {"none", "local", "inspect"},
           at2 = "none" \/ h.kind # "delete" \/ h.phase \in Middle
    PROVE  Fine(h, at2)
<1>1. Tracked(h, at2)
  BY DEF Fine, Tracked
<1>2. h.kind = "delete" => DeleteFine(h, at2)
  BY DEF Fine, DeleteFine
<1> QED BY <1>1, <1>2 DEF Fine

\* A journal that blocks is the open one.
LEMMA BlocksSole ==
    ASSUME NEW c, Ids(c), NEW o \in DOMAIN jr, Blocks(jr[o])
    PROVE  o = c
BY DEF Ids, Sole

\* A recovery takes it up.
LEMMA RecoverLocalIds ==
    ASSUME Once, NEW c, Ids(c), NEW o \in DOMAIN jr, NEW I, NEW kind, RecoverLocal(kind, o, I),
           \/ kind = "rename" /\ Passes(jr[o], I) /\ Turns(jr[o], I, "OUTCOME_UNKNOWN")
           \/ kind = "delete" /\ Moves(jr[o], I, "OUTCOME_UNKNOWN")
    PROVE  Ids(c)'
<1>1. /\ proc = Idle /\ jr[o].kind = kind /\ Interrupted(kind) = {o}
      /\ proc' = [cmd |-> "recover", op |-> o, at |-> "local"]
      /\ (\E g \in I : jr' = [jr EXCEPT ![o] = g]) \/ jr' = jr
      /\ sep' = sep /\ host' = host /\ pend' = pend /\ exports' = exports
  BY DEF RecoverLocal, store
<1>2. PICK h : h = jr[o]
  OBVIOUS
<1>3. /\ kind = "rename" =>
            h.phase \in {"INTENT", "PERSISTING", "PERSISTENCE_READY", "OUTCOME_UNKNOWN"}
      /\ kind = "delete" => h.phase \in InterruptedDelete
  BY <1>1, <1>2 DEF Interrupted
<1>4. Blocks(jr[o])
  BY <1>1, <1>2, <1>3 DEF Blocks, Complete, InterruptedDelete
<1>5. o = c
  BY <1>4, BlocksSole
<1>6. proc.at = "none" /\ proc'.op = c /\ proc'.at = "local"
  BY <1>1, <1>5 DEF Idle
<1>7. Shapes /\ Fine(h, "none")
  BY <1>2, <1>5, <1>6 DEF Ids
<1>8. Shapes'
  BY <1>1, <1>7 DEF Shapes
<1>9. kind = "delete" => h.phase \in Middle \ {"BASELINE"}
  BY <1>3 DEF Middle, InterruptedDelete
<1>10. ASSUME NEW g \in I PROVE Fine(g, "local")
  <2>1. CASE kind = "rename"
    <3>1. /\ g.kind = h.kind /\ g.persistence = h.persistence /\ g.phase = "OUTCOME_UNKNOWN"
      BY <1>2, <2>1 DEF Turns
    <3>2. Tracked(h, "none") /\ OtherFine
      BY <1>1, <1>2, <1>7, <2>1 DEF Fine
    <3>3. Tracked(g, "local")
      BY <1>1, <1>2, <2>1, <3>1, <3>2, MovedTracked DEF Early
    <3> QED BY <1>1, <1>2, <2>1, <3>1, <3>2, <3>3 DEF Fine
  <2>2. CASE kind = "delete"
    <3>1. /\ g.kind = h.kind /\ g.base = h.base /\ g.target = h.target
          /\ g.persistence = h.persistence /\ g.phase = "OUTCOME_UNKNOWN"
      BY <1>2, <2>2 DEF Moves
    <3> QED BY <1>1, <1>2, <1>7, <1>9, <2>2, <3>1, MovedFine
  <2> QED BY <2>1, <2>2
<1>11. CASE \E g \in I : jr' = [jr EXCEPT ![o] = g]
  <2>1. PICK g \in I : jr' = [jr EXCEPT ![c] = g]
    BY <1>5, <1>11
  <2>2. Fine(g, "local")
    BY <1>10
  <2>3. Fine(g, "local")'
    BY <1>1, <2>2, SameFine
  <2> QED BY <1>5, <1>6, <1>8, <2>1, <2>3, WroteIds
<1>12. CASE jr' = jr
  <2>1. Fine(h, "local")
    BY <1>1, <1>2, <1>7, <1>9, ElsewhereFine
  <2>2. Fine(h, "local")'
    BY <1>1, <2>1, SameFine
  <2> QED BY <1>2, <1>5, <1>6, <1>8, <1>12, <2>2, StayIds
<1> QED BY <1>1, <1>11, <1>12

LEMMA RecoverIds == ASSUME Once, NEW c, Ids(c), RecoverRename \/ RecoverDelete PROVE Ids(c)'
<1>1. \A o \in DOMAIN jr : History(jr[o])
  BY DEF Once, Lists
<1>2. CASE RecoverRename
  <2>1. PICK o \in DOMAIN jr :
            RecoverLocal("rename", o, RenameRecoveryIntent(jr[o], ObservedAction))
    BY <1>2 DEF RecoverRename
  <2>2. PICK h, action : h = jr[o] /\ action = ObservedAction
    OBVIOUS
  <2>3. History(h)
    BY <1>1, <2>2
  <2>4. Passes(h, RenameRecoveryIntent(h, action))
    BY <2>3, RenamePasses
  <2>5. Turns(h, RenameRecoveryIntent(h, action), "OUTCOME_UNKNOWN")
    BY <2>3 DEF Turns, RenameRecoveryIntent, Only, History
  <2> QED BY <2>1, <2>2, <2>4, <2>5, RecoverLocalIds
<1>3. CASE RecoverDelete
  <2>1. PICK o \in DOMAIN jr :
            RecoverLocal("delete", o, DeleteRecoveryIntent(jr[o], ObservedAction, boot))
    BY <1>3 DEF RecoverDelete
  <2>2. Moves(jr[o], DeleteRecoveryIntent(jr[o], ObservedAction, boot), "OUTCOME_UNKNOWN")
    BY <1>1, DeleteMoves
  <2> QED BY <2>1, <2>2, RecoverLocalIds
<1> QED BY <1>2, <1>3

LEMMA RecoverSyncIds == ASSUME Once, NEW c, Ids(c), RecoverSync PROVE Ids(c)'
<1>1. PICK o \in DOMAIN jr :
          /\ proc = Idle /\ jr[o].kind = "sync" /\ Interrupted("sync") = {o}
          /\ \/ /\ \E g \in SyncRecoveredClean(jr[o], host) : jr' = [jr EXCEPT ![o] = g]
                /\ proc' = proc
             \/ /\ \E g \in SyncRecoveryIntent(jr[o], host) : jr' = [jr EXCEPT ![o] = g]
                /\ proc' = [cmd |-> "recover", op |-> o, at |-> "begin"]
          /\ sep' = sep /\ host' = host /\ pend' = pend /\ exports' = exports
  BY DEF RecoverSync, store
<1>2. PICK h : h = jr[o]
  OBVIOUS
<1>3. h.phase = "OUTCOME_UNKNOWN" /\ History(h) /\ h.kind = "sync"
  BY <1>1, <1>2 DEF Interrupted, Once, Lists
<1>4. Blocks(jr[o])
  BY <1>2, <1>3 DEF Blocks, Complete
<1>5. o = c
  BY <1>4, BlocksSole
<1>6. proc.at = "none"
  BY <1>1 DEF Idle
<1>7. Shapes /\ Fine(h, "none")
  BY <1>2, <1>5, <1>6 DEF Ids
<1>8. Shapes'
  BY <1>1, <1>7 DEF Shapes
<1>9. Tracked(h, "none") /\ OtherFine
  BY <1>3, <1>7 DEF Fine
<1>10. PICK g, at :
          /\ jr' = [jr EXCEPT ![c] = g] /\ at \in {"none", "begin"} /\ proc'.at = at
          /\ proc' = Idle \/ proc'.op = c
          /\ g \in SyncRecoveredClean(h, host) \/ g \in SyncRecoveryIntent(h, host)
  <2>1. CASE proc' = proc
    BY <1>1, <1>2, <1>5, <1>6, <2>1
  <2>2. CASE proc' = [cmd |-> "recover", op |-> o, at |-> "begin"]
    BY <1>1, <1>2, <1>5, <2>2
  <2> QED BY <1>1, <2>1, <2>2
<1>11. g.kind = "sync" /\ g.persistence = h.persistence
  BY <1>3, <1>10, SyncTurns DEF Turns
<1>12. Tracked(g, at)
  BY <1>3, <1>9, <1>10, <1>11, MovedTracked
<1>13. Fine(g, at)
  BY <1>9, <1>11, <1>12 DEF Fine
<1>14. Fine(g, at)'
  BY <1>1, <1>13, SameFine
<1> QED BY <1>5, <1>8, <1>10, <1>14, WroteIds

\* The files of a recovery.
LEMMA ResolveFilesIds ==
    ASSUME Once, NEW c, Ids(c), DiscardLocal \/ RollLocalForward \/ NothingLocal
    PROVE  Ids(c)'
<1>1. Busy /\ proc.at = "local" /\ OnFiles("inspect")
  BY DEF Busy, DiscardLocal, RollLocalForward, NothingLocal
<1>2. PICK h : h = hist
  OBVIOUS
<1>3. Shapes /\ Fine(h, "local")
  BY <1>1, <1>2, BusyIds
<1>4. sep' = sep
  BY <1>1 DEF OnFiles
<1>5. Tracked(h, "inspect")'
  BY <1>3 DEF Fine, Tracked
<1>6. CASE NothingLocal
  <2>1. pend' = pend /\ host' = host /\ exports' = exports
    BY <1>6 DEF NothingLocal, store
  <2>2. h.kind = "delete" => h.phase \in Middle
    BY <1>3 DEF Fine, DeleteFine
  <2>3. Fine(h, "inspect")
    BY <1>3, <2>2, ElsewhereFine
  <2>4. Fine(h, "inspect")'
    BY <1>4, <2>1, <2>3, SameFine
  <2> QED BY <1>1, <1>2, <1>3, <2>1, <2>4, FilesIds DEF Shapes
<1>7. CASE DiscardLocal \/ RollLocalForward
  <2>1. /\ pend' = NoPending /\ exports' = exports
        /\ host' = host \/ host' = Promoted
    BY <1>7 DEF DiscardLocal, RollLocalForward
  <2>2. host'.user = host.user \/ (host'.user = pend.user /\ pend.user # NoFile)
    BY <2>1 DEF Promoted
  <2>3. CASE h.kind # "delete"
    <3>1. OtherFine'
      BY <1>3, <1>4, <2>1, <2>2, <2>3, PendingFacts DEF Fine, OtherFine, Agree
    <3>2. Fine(h, "inspect")'
      BY <1>5, <2>3, <3>1 DEF Fine
    <3> QED BY <1>1, <1>2, <1>3, <2>1, <3>2, PendingFacts, FilesIds DEF Shapes
  <2>4. CASE h.kind = "delete"
    <3>1. DeleteFine(h, "local")
      BY <1>3, <2>4 DEF Fine
    <3>2. /\ h.phase \in Middle
          /\ h.phase \in Early => host'.user = host.user
          /\ host'.user = host.user \/ host'.user.ids = Survivors(h)
      BY <2>2, <3>1 DEF DeleteFine
    <3>3. h.phase # "BASELINE" => Sides(h)'
      BY <1>4, <3>1, <3>2 DEF DeleteFine, Sides, Survivors
    <3>4. DeleteFine(h, "inspect")'
      BY <1>4, <2>1, <3>1, <3>2, <3>3, PendingFacts DEF DeleteFine, Agree, Early
    <3>5. Fine(h, "inspect")'
      BY <1>5, <2>4, <3>4 DEF Fine
    <3> QED BY <1>1, <1>2, <1>3, <2>1, <3>5, PendingFacts, FilesIds DEF Shapes
  <2> QED BY <2>3, <2>4
<1> QED BY <1>6, <1>7

\* Its end, or a save once more.
LEMMA ResolveIds == ASSUME Once, NEW c, Ids(c), Resolve PROVE Ids(c)'
<1>1. Busy
  BY DEF Busy, Resolve, DiscardLocal, RollLocalForward, NothingLocal, ConcludeRename,
         ConcludeDelete, SaveForward, RefuseRecovery, Inspecting, At
<1>2. History(hist) /\ Shapes /\ Fine(hist, proc.at) /\ hist = jr[c]
  BY <1>1, BusyIds
<1>3. CASE ConcludeRename
  <2>1. PICK committed \in BOOLEAN : RecordAndExit(RenameRecovered(hist, committed))
    BY <1>3 DEF ConcludeRename
  <2>2. hist.kind = "rename"
    BY <1>3 DEF ConcludeRename, Inspecting, At
  <2>3. PICK phase : phase = IF committed THEN "RECONCILED" ELSE "ABORTED"
    OBVIOUS
  <2>4. phase \notin Early \cup {"SEP_DELETED", "PERSISTING"}
    BY <2>3 DEF Early
  <2>5. Turns(hist, RenameRecovered(hist, committed), phase)
    <3>1. \A g \in RenameRecovered(hist, committed) : g = [hist EXCEPT !.phase = phase]
      BY <2>3 DEF RenameRecovered, Only
    <3> QED BY <1>2, <3>1 DEF Turns, History
  <2>6. Passes(hist, RenameRecovered(hist, committed))
    BY <1>2, RenamePasses
  <2> QED BY <1>1, <2>1, <2>2, <2>4, <2>5, <2>6, TurnsIds
<1>4. CASE ConcludeDelete
  <2>1. /\ hist.kind = "delete" /\ Agree
        /\ \/ RecordAndExit(DeleteRecovered(hist, FALSE))
           \/ RecordAndExit(DeleteRecovered(hist, TRUE))
    BY <1>4 DEF ConcludeDelete, Inspecting, At, Unchanged, Persisted, Summarized, Agree
  <2>2. /\ Moves(hist, DeleteRecovered(hist, FALSE), "ABORTED")
        /\ Moves(hist, DeleteRecovered(hist, TRUE), "RECONCILED")
    BY <1>2, DeleteMoves
  <2>3. "ABORTED" \notin Middle /\ "RECONCILED" \notin Middle
    BY DEF Middle
  <2> QED BY <1>1, <2>1, <2>2, <2>3, MovesIds
<1>5. CASE SaveForward
  <2>1. PICK archive : Record(RecoveryAbsenceObserved(hist, archive), "run")
    BY <1>5 DEF SaveForward
  <2>2. /\ hist.kind = "delete" /\ hist.phase = "OUTCOME_UNKNOWN"
        /\ sep.ids = Survivors(hist)
    BY <1>5 DEF SaveForward, Inspecting, At, Persisted, Target
  <2>3. ASSUME NEW g \in RecoveryAbsenceObserved(hist, archive) PROVE Fine(g, "run")
    <3>1. g = [hist EXCEPT !.phase = "SEP_DELETED", !.persistence = NotStarted,
                           !.file = NoFile, !.forward = TRUE]
      BY <2>3 DEF RecoveryAbsenceObserved, Only
    <3>2. /\ g.kind = hist.kind /\ g.base = hist.base /\ g.target = hist.target
          /\ g.phase = "SEP_DELETED" /\ g.persistence = NotStarted
      BY <1>2, <3>1 DEF History
    <3>3. Tracker(NotStarted) /\ NotStarted.phase = "NOT_STARTED"
      BY DEF Tracker, NotStarted
    <3>4. Tracked(g, "run")
      BY <3>2, <3>3 DEF Tracked, Needs
    <3>5. Survivors(g) = Survivors(hist)
      BY <3>2 DEF Survivors
    <3>6. Sides(hist) /\ (pend.user = NoFile \/ pend.user.ids = Survivors(hist))
      BY <1>2, <2>2 DEF Fine, DeleteFine, Middle
    <3>7. SavingFine(g, "run")
      BY <2>2, <3>2, <3>3, <3>5 DEF SavingFine, StagedAt, CrossedAt
    <3>8. DeleteFine(g, "run")
      BY <3>2, <3>5, <3>6, <3>7 DEF DeleteFine, Sides, Middle, Early
    <3> QED BY <2>2, <3>2, <3>4, <3>8 DEF Fine
  <2> QED BY <1>1, <2>1, <2>2, <2>3, RecordsIds
<1>6. CASE RefuseRecovery
  <2>1. Exit /\ jr' = jr /\ sep' = sep /\ host' = host /\ pend' = pend /\ exports' = exports
    BY <1>6 DEF RefuseRecovery, store
  <2>2. PICK h : h = jr[c]
    OBVIOUS
  <2>3. Fine(h, "none")
    BY <1>2, <2>2, ElsewhereFine
  <2>4. Fine(h, "none")'
    BY <2>1, <2>3, SameFine
  <2>5. Shapes'
    BY <1>2, <2>1 DEF Shapes
  <2> QED BY <1>1, <2>1, <2>2, <2>4, <2>5, GoesIds
<1> QED BY <1>3, <1>4, <1>5, <1>6, ResolveFilesIds DEF Resolve

\* A verification after a reboot.
LEMMA VerifyIds ==
    ASSUME Once, NEW c, Ids(c), VerifyRename \/ VerifyDelete \/ ReconcileAtBoot
    PROVE  Ids(c)'
<1>1. proc = Idle
  BY DEF VerifyRename, VerifyDelete, ReconcileAtBoot
<1>2. PICK o \in DOMAIN jr :
          /\ jr[o].phase = "RECONCILED"
          /\ \/ jr[o].kind = "rename" /\ ProvePostReboot(o, RenameVerified(jr[o], boot))
             \/ jr[o].kind = "delete" /\ ProvePostReboot(o, DeleteVerified(jr[o], boot))
  BY DEF VerifyRename, VerifyDelete, ReconcileAtBoot, Candidates, AwaitingReboot
<1>3. PICK h : h = jr[o]
  OBVIOUS
<1>4. Blocks(jr[o]) /\ History(h)
  BY <1>2, <1>3 DEF Blocks, Complete, Once, Lists
<1>5. o = c
  BY <1>4, BlocksSole
<1>6. proc.at = "none"
  BY <1>1 DEF Idle
<1>7. Shapes /\ Fine(h, "none")
  BY <1>3, <1>5, <1>6 DEF Ids
<1>8. PICK g : /\ jr' = [jr EXCEPT ![c] = g]
               /\ \/ h.kind = "rename" /\ g \in RenameVerified(h, boot)
                  \/ h.kind = "delete" /\ g \in DeleteVerified(h, boot)
  BY <1>2, <1>3, <1>5 DEF ProvePostReboot
<1>9. /\ sep' = sep /\ host' = host /\ pend' = pend /\ exports' = exports /\ proc' = proc
  BY <1>2 DEF ProvePostReboot, store
<1>10. Shapes'
  BY <1>7, <1>9 DEF Shapes
<1>11. Fine(g, "none")
  <2>1. CASE h.kind = "rename"
    <3>1. g = [h EXCEPT !.phase = "POST_REBOOT_VERIFIED"]
      BY <1>8, <2>1 DEF RenameVerified, Only
    <3>2. g.kind = "rename" /\ g.persistence = h.persistence /\ g.phase = "POST_REBOOT_VERIFIED"
      BY <1>4, <2>1, <3>1 DEF History
    <3>3. Tracked(h, "none") /\ OtherFine
      BY <1>7, <2>1 DEF Fine
    <3>4. Tracked(g, "none")
      BY <2>1, <3>2, <3>3, MovedTracked DEF Early
    <3> QED BY <3>2, <3>3, <3>4 DEF Fine
  <2>2. CASE h.kind = "delete"
    <3>1. Moves(h, DeleteVerified(h, boot), "POST_REBOOT_VERIFIED")
      BY <1>4, DeleteMoves
    <3>2. /\ g.kind = h.kind /\ g.base = h.base /\ g.target = h.target
          /\ g.persistence = h.persistence /\ g.phase = "POST_REBOOT_VERIFIED"
      BY <1>8, <2>2, <3>1 DEF Moves
    <3>3. Agree
      BY <1>2, <1>3, <1>7, <2>2 DEF Fine, DeleteFine, Middle
    <3>4. g.phase \notin Middle
      BY <3>2 DEF Middle
    <3> QED BY <1>7, <2>2, <3>2, <3>3, <3>4, MovedFine
  <2> QED BY <1>8, <2>1, <2>2
<1>12. Fine(g, "none")'
  BY <1>9, <1>11, SameFine
<1> QED BY <1>1, <1>5, <1>6, <1>8, <1>9, <1>10, <1>12, WroteIds

\* A mutation begins where none is open and both sides agree.
LEMMA BeginIds ==
    ASSUME Once, NEW d, Ids(d), NEW kind, Begin(kind), kind \in {"rename", "delete", "sync"},
           NEW c, c = Len(jr) + 1
    PROVE  Ids(c)'
<1>1. PICK S : jr \in Seq(S)
  BY DEF Once, Lists
<1>2. PICK h : h = Opened(kind, boot, host, Hash)
  OBVIOUS
<1>3. PICK R : R = S \cup {h}
  OBVIOUS
<1>4. jr \in Seq(R) /\ h \in R
  BY <1>1, <1>3, Wider
<1>5. /\ jr' = Append(jr, h) /\ proc' = [cmd |-> "run", op |-> c, at |-> "run"]
      /\ Blocking = {} /\ pend.dir = "none" /\ Agree
      /\ sep' = sep /\ host' = host /\ pend' = pend /\ exports' = exports
  BY <1>2 DEF Begin, Summarized, Agree, store
<1>6. /\ jr'[c] = h /\ \A o \in DOMAIN jr' : o # c => o \in DOMAIN jr /\ jr'[o] = jr[o]
      /\ c \in DOMAIN jr'
  BY <1>4, <1>5
<1>7. Shapes /\ Shapes' /\ pend.user = NoFile
  BY <1>5 DEF Ids, Shapes
<1>8. Sole(c)'
  <2>1. \A o \in DOMAIN jr : ~Blocks(jr[o])
    BY <1>5 DEF Blocking
  <2>2. \A o \in DOMAIN jr' : o # c => ~Blocks(jr'[o])
    BY <1>6, <2>1
  <2>3. (\A o \in DOMAIN jr : o # c => ~Blocks(jr[o]))'
    BY <2>2 DEF Blocks, Complete
  <2> QED BY <1>5, <2>3 DEF Sole
<1>9. /\ h.kind = kind /\ h.phase = "BASELINE" /\ h.base = host /\ h.persistence = NotStarted
  BY <1>2 DEF Opened
<1>10. Tracked(h, "run")
  <2>1. Tracker(NotStarted) /\ NotStarted.phase = "NOT_STARTED"
    BY DEF Tracker, NotStarted
  <2> QED BY <1>9, <2>1 DEF Tracked, Needs
<1>11. DeleteFine(h, "run")
  BY <1>5, <1>7, <1>9 DEF DeleteFine, Middle, Early
<1>12. Fine(h, "run")
  BY <1>5, <1>7, <1>10, <1>11 DEF Fine, OtherFine
<1>13. Fine(h, "run")'
  BY <1>5, <1>12, SameFine
<1>14. Fine(jr[c], proc.at)'
  <2>1. jr'[c] = h /\ proc'.at = "run"
    BY <1>5, <1>6
  <2> QED BY <1>13, <2>1 DEF Fine, Tracked, DeleteFine, OtherFine, SavingFine, Sides, Agree, Survivors
<1> QED BY <1>6, <1>7, <1>8, <1>14 DEF Ids

\* A match, which makes the SEP want saving, a stop, and a reboot, after which
\* the SEP may have the identities of the root.
LEMMA FaultIds == ASSUME Once, NEW c, Ids(c), Match \/ Crash \/ Reboot PROVE Ids(c)'
<1>1. /\ jr' = jr /\ proc' = Idle /\ host' = host /\ pend' = pend /\ exports' = exports
      /\ \/ sep' = sep \/ sep' = Restarted
         \/ sep' = [sep EXCEPT !.adapted = matches + 1, !.dirty = @ \cup {"user"}]
  BY DEF Match, Crash, Reboot, Exit, store
<1>2. Shapes /\ Sole(c)
  BY DEF Ids
<1>3. proc'.at = "none"
  BY <1>1 DEF Idle
<1>4. /\ {"ids", "dirty", "adapted"} \subseteq DOMAIN sep'
      /\ \/ sep'.ids = sep.ids /\ sep.dirty \subseteq sep'.dirty
         \/ sep'.ids = host.user.ids
  <2>1. CASE sep' = [sep EXCEPT !.adapted = matches + 1, !.dirty = @ \cup {"user"}]
    <3>1. PICK m : m = matches + 1
      OBVIOUS
    <3>2. sep' = [sep EXCEPT !.adapted = m, !.dirty = sep.dirty \cup {"user"}]
      BY <1>2, <2>1, <3>1 DEF Shapes
    <3> QED BY <1>2, <3>2 DEF Shapes
  <2>2. CASE sep' = sep \/ sep' = Restarted
    BY <1>2, <2>2 DEF Shapes, Restarted
  <2> QED BY <1>1, <2>1, <2>2
<1>5. Shapes'
  BY <1>1, <1>2, <1>4 DEF Shapes
<1>6. Agree => Agree'
  BY <1>1, <1>4 DEF Agree
<1>7. CASE c \notin DOMAIN jr
  <2>1. Sole(c)'
    BY <1>1, <1>2 DEF Sole, Blocks, Complete
  <2>2. Agree
    BY <1>7 DEF Ids
  <2> QED BY <1>1, <1>5, <1>6, <1>7, <2>1, <2>2 DEF Ids
<1>8. CASE c \in DOMAIN jr
  <2>1. PICK h : h = jr[c]
    OBVIOUS
  <2>2. Fine(h, proc.at)
    BY <1>8, <2>1 DEF Ids
  <2>3. Fine(h, "none")
    BY <2>2, ElsewhereFine
  <2>4. Tracked(h, "none")'
    BY <2>3 DEF Fine, Tracked
  <2>5. CASE h.kind # "delete"
    <3>1. OtherFine'
      BY <1>1, <1>6, <2>3, <2>5 DEF Fine, OtherFine
    <3>2. Fine(h, "none")'
      BY <2>4, <2>5, <3>1 DEF Fine
    <3> QED BY <1>1, <1>3, <1>5, <1>8, <2>1, <3>2, StayIds
  <2>6. CASE h.kind = "delete"
    <3>1. DeleteFine(h, "none")
      BY <2>3, <2>6 DEF Fine
    <3>2. Sides(h) => Sides(h)'
      BY <1>1, <1>4 DEF Sides, Survivors
    <3>3. DeleteFine(h, "none")'
      BY <1>1, <1>6, <3>1, <3>2 DEF DeleteFine, Survivors
    <3>4. Fine(h, "none")'
      BY <2>4, <2>6, <3>3 DEF Fine
    <3> QED BY <1>1, <1>3, <1>5, <1>8, <2>1, <3>4, StayIds
  <2> QED BY <2>5, <2>6
<1> QED BY <1>7, <1>8

-----------------------------------------------------------------------------
IdsInv == Once /\ \E c : Ids(c)

LEMMA InitIds == Init => IdsInv
<1> SUFFICES ASSUME Init PROVE IdsInv
  OBVIOUS
<1>1. jr = <<>> /\ proc = Idle /\ pend = NoPending /\ exports = 1
  BY DEF Init
<1>2. /\ host.user.ids = Identities /\ sep.ids = Identities
      /\ {"ids", "dirty", "adapted"} \subseteq DOMAIN sep
  BY DEF Init
<1>3. Shapes
  BY <1>1, <1>2, PendingFacts DEF Shapes
<1>4. DOMAIN jr = {}
  BY <1>1
<1>5. Ids(0)
  BY <1>1, <1>2, <1>3, <1>4 DEF Ids, Sole, Agree
<1> QED BY <1>5, InitOnce DEF IdsInv

LEMMA NextIds == IdsInv /\ [Next]_vars => IdsInv'
<1> SUFFICES ASSUME IdsInv, [Next]_vars PROVE IdsInv'
  OBVIOUS
<1>1. Once /\ Once'
  BY NextOnce DEF IdsInv
<1>2. PICK c : Ids(c)
  BY DEF IdsInv
<1>3. SUFFICES \E d : Ids(d)'
  BY <1>1 DEF IdsInv
<1>4. CASE BeginRename \/ BeginDelete \/ BeginCatacombSync
  <2>1. PICK kind \in {"rename", "delete", "sync"} : Begin(kind)
    BY <1>4 DEF BeginRename, BeginDelete, BeginCatacombSync
  <2>2. PICK d : d = Len(jr) + 1
    OBVIOUS
  <2>3. Ids(d)'
    BY <1>1, <1>2, <2>1, <2>2, BeginIds
  <2> QED BY <2>3
<1>5. CASE UNCHANGED vars
  <2>1. jr' = jr /\ proc' = proc /\ sep' = sep /\ host' = host /\ pend' = pend /\ exports' = exports
    BY <1>5 DEF vars
  <2>2. Ids(c)'
    BY <1>2, <2>1 DEF Ids, Shapes, Sole, Blocks, Complete, Fine, Tracked, DeleteFine, OtherFine,
                      SavingFine, Sides, Agree, Survivors
  <2> QED BY <2>2
<1>6. CASE \/ Intend \/ Delete \/ Save \/ Sync \/ RecoverRename \/ RecoverDelete \/ Resolve
           \/ RecoverSync \/ VerifyRename \/ VerifyDelete \/ ReconcileAtBoot
           \/ Match \/ Crash \/ Reboot
  <2>1. Ids(c)'
    BY <1>1, <1>2, <1>6, IntendIds, DeleteIds, SaveIds, SyncIds, RecoverIds, ResolveIds,
       RecoverSyncIds, VerifyIds, FaultIds
  <2> QED BY <2>1
<1> QED BY <1>4, <1>5, <1>6 DEF Next

\* What is fine of a deletion that both sides do not agree on.
LEMMA Disagrees ==
    ASSUME NEW c, Ids(c), ~Agree
    PROVE  /\ c \in DOMAIN jr /\ jr[c].kind = "delete" /\ Sides(jr[c])
           /\ jr[c].phase \in Middle \ {"BASELINE"}
<1>1. c \in DOMAIN jr /\ Fine(jr[c], proc.at)
  BY DEF Ids
<1>2. jr[c].kind = "delete" /\ DeleteFine(jr[c], proc.at)
  BY <1>1 DEF Fine, OtherFine
<1> QED BY <1>1, <1>2 DEF DeleteFine

\* t2_identity_delete_persistence.run: the SEP is told that its deletion is
\* saved only when the host's root has no identity that the SEP lacks, for
\* every number of deletions, renames, syncs, reboots and matches.
THEOREM IdentityCleanMeansSaved == Spec => []CleanMeansSaved
<1>1. IdsInv => CleanMeansSaved
  <2> SUFFICES ASSUME IdsInv, "user" \notin sep.dirty PROVE host.user.ids \subseteq sep.ids
    BY DEF CleanMeansSaved
  <2>1. PICK c : Ids(c)
    BY DEF IdsInv
  <2>2. CASE Agree
    BY <2>2 DEF Agree
  <2>3. CASE ~Agree
    BY <2>1, <2>3, Disagrees DEF Sides
  <2> QED BY <2>2, <2>3
<1> QED BY <1>1, InitIds, NextIds, PTL DEF Spec

\* blocks_new_mutation, which every command asks first: whenever the SEP and the host have other
\* identities, a journal is there that keeps every new mutation from starting.
THEOREM IdentityDisagreementBlocks == Spec => []DisagreementBlocks
<1>1. IdsInv => DisagreementBlocks
  <2> SUFFICES ASSUME IdsInv, sep.ids # host.user.ids PROVE Blocking # {}
    BY DEF DisagreementBlocks
  <2>1. PICK c : Ids(c)
    BY DEF IdsInv
  <2>2. ~Agree
    BY DEF Agree
  <2>3. c \in DOMAIN jr /\ jr[c].kind = "delete" /\ jr[c].phase \in Middle \ {"BASELINE"}
    BY <2>1, <2>2, Disagrees
  <2>4. Blocks(jr[c])
    BY <2>3 DEF Blocks, Complete, Middle
  <2> QED BY <2>3, <2>4 DEF Blocking
<1> QED BY <1>1, InitIds, NextIds, PTL DEF Spec

-----------------------------------------------------------------------------
(* The adaptive updates, the outcome of a mutation and the files. *)

\* The running command is not a recovery that looks at what is there.
Drives(at) == at \notin {"none", "local", "inspect"}

\* Adaptive updates are numbered as the matches are.
Levels ==
    /\ matches \in Nat /\ sep.adapted \in 0 .. matches
    /\ host.user.adapted \in 0 .. matches /\ pend.user.adapted \in 0 .. matches

\* While the SEP wants the user component saved, it has the latest update,
\* unless the root is still the baseline's; and what a rename or a deletion has
\* staged is no older than the root, or the root no later than the baseline.
Ages(h) ==
    /\ "user" \in sep.dirty =>
          /\ host = h.base \/ host.user.adapted <= sep.adapted
          /\ pend.user = NoFile \/ pend.user.adapted <= sep.adapted
    /\ h.kind # "sync" /\ pend.user # NoFile =>
          \/ host.user.adapted <= pend.user.adapted
          \/ host.user.adapted <= h.base.user.adapted

\* No update that the SEP believes saved is missing in the host; and the sync
\* that has confirmed one early and has not committed it yet.
Held == "user" \in sep.dirty \/ Kept
Lagging(h, at) ==
    /\ h.kind = "sync" /\ h.commit = <<>>
    /\ h.phase = "OUTCOME_UNKNOWN" \/ (h.phase = "INTENT" /\ at \notin {"begin", "crossed"})

\* Only a rename changes the label and only a deletion the identities, in the
\* root as in the file that would be promoted.
Contents(h) ==
    /\ h.kind # "rename" =>
          /\ host.user.label = h.base.user.label
          /\ pend.user = NoFile \/ pend.user.label = h.base.user.label
    /\ h.kind # "delete" => host.user.ids = h.base.user.ids
    /\ h.kind # "sync" /\ pend.dir = "commit" => pend.user # NoFile

\* The operation has not promoted anything.
Untouched(h, at) ==
    \/ h.phase = "BASELINE"
    \/ h.kind = "rename" /\ h.persistence.phase \in {"NOT_STARTED", "COMPONENT_READY"}
    \/ h.kind = "delete" /\ h.phase \in Early
    \/ h.kind = "sync" /\ h.phase = "INTENT" /\ at = "begin" /\ ~h.attempted

\* What the read-back after a save has seen, and nothing changes since.
Settled(h, c) ==
    /\ sep.dirty = {} /\ Agree /\ host.user.ids = Target(h)
    /\ h.kind = "rename" => host.user.label = c

\* A save in this process: the file that it has staged holds the SEP's update and
\* is the journaled one, and once promoted the root has that update.
SavesWell(h, at) ==
    /\ host.user.adapted <= sep.adapted \/ host.user.adapted <= h.base.user.adapted
    /\ StagedAt(h.persistence.phase, at) =>
          /\ pend.user # NoFile /\ pend.user.adapted = sep.adapted
          /\ h.persistence.phase # "SECURE_BLOB_CAPTURED" => pend.user = h.file
    /\ CrossedAt(h.persistence.phase, at) => sep.adapted <= host.user.adapted

\* The same of a sync, whose journal does not name the file.
SyncsWell(at) ==
    /\ pend.user = NoFile \/ pend.user.adapted = sep.adapted
    /\ at \in {"cross", "promote"} => pend.user # NoFile
    /\ at = "crossed" => sep.adapted <= host.user.adapted

\* A rename or a deletion up to the end of its save.
Saves(h) == h.kind # "sync" /\ h.phase \in Early \cup {"SEP_DELETED", "PERSISTING"}

\* What is known where the running command stands.
Stands(h, at, c) ==
    /\ at = "promote" => pend.dir = "commit"
    /\ at = "local" =>
          /\ Blocks(h) /\ h.kind # "sync"
          /\ pend.dir = "prepare" => h.action = "prepare-discarded"
          /\ pend.dir = "commit" => h.persistence.phase = "BATCH_COMMIT_INTENT"
    /\ Drives(at) =>
          /\ Saves(h) => SavesWell(h, at)
          /\ h.kind = "sync" /\ h.phase \in {"BASELINE", "INTENT"} => SyncsWell(at)
          /\ h.kind # "sync" /\ h.phase = "PERSISTENCE_READY" => Settled(h, c)

\* What holds of the open operation, and without one.
Well(h, at, c) ==
    /\ {"action", "attempted", "commit"} \subseteq DOMAIN h
    /\ h.kind = "sync" /\ h.phase \in {"BASELINE", "INTENT"} => h.commit = <<>>
    /\ h.base.user.adapted \in 0 .. matches
    /\ Ages(h) /\ Contents(h)
    /\ Held \/ Lagging(h, at)
    /\ Untouched(h, at) => host = h.base
    /\ Stands(h, at, c)

WellFor(c) == Levels /\ IF c \in DOMAIN jr THEN Well(jr[c], proc.at, c) ELSE Held

-----------------------------------------------------------------------------
\* What a mutation began with stays, and so does what is kept.
LEMMA KeptOn ==
    ASSUME host' = host, sep'.adapted = sep.adapted,
           \A o \in DOMAIN jr : o \in DOMAIN jr' /\ jr'[o].base = jr[o].base
    PROVE  (Kept => Kept') /\ (Kept /\ sep.dirty \subseteq sep'.dirty => Held')
<1>1. ASSUME Kept PROVE Kept'
  <2>1. PICK r \in {host} \cup {jr[o].base : o \in DOMAIN jr} : sep.adapted <= r.user.adapted
    BY <1>1 DEF Kept
  <2>2. r \in {host'} \cup {jr'[o].base : o \in DOMAIN jr'}
    BY <2>1
  <2> QED BY <2>1, <2>2 DEF Kept
<1> QED BY <1>1 DEF Held

LEMMA SameWell ==
    ASSUME NEW h, NEW at, NEW c, UNCHANGED <<sep, host, pend, matches>>, Kept => Kept'
    PROVE  (Well(h, at, c) => Well(h, at, c)') /\ (Levels => Levels')
<1>1. Held => Held'
  BY DEF Held
<1>2. Stands(h, at, c) => Stands(h, at, c)'
  BY DEF Stands, Blocks, Complete, Drives, Saves, SavesWell, SyncsWell, Settled, Agree, Target,
         Survivors
<1>3. Ages(h)' <=> Ages(h)
  BY DEF Ages
<1>4. Contents(h)' <=> Contents(h)
  BY DEF Contents
<1>5. Untouched(h, at)' <=> Untouched(h, at)
  BY DEF Untouched
<1>6. Lagging(h, at)' <=> Lagging(h, at)
  BY DEF Lagging
<1> QED BY <1>1, <1>2, <1>3, <1>4, <1>5, <1>6 DEF Well, Levels

\* The state after a step, seen through the history that it leaves.
LEMMA WellAt ==
    ASSUME NEW c, c \in DOMAIN jr', NEW h, jr'[c] = h, NEW at, proc'.at = at, Levels',
           Well(h, at, c)'
    PROVE  WellFor(c)'
<1>1. (Ages(jr[c]) /\ Contents(jr[c]))'
  BY DEF Well, Ages, Contents
<1>2. (Held \/ Lagging(jr[c], proc.at))' /\ (Untouched(jr[c], proc.at) => host = jr[c].base)'
  BY DEF Well, Lagging, Untouched
<1>3. (Stands(jr[c], proc.at, c))'
  <2>1. Stands(h, at, c)'
    BY DEF Well
  <2> QED BY <2>1 DEF Stands, Blocks, Complete, Drives, Saves, SavesWell, SyncsWell, Settled,
                      Target, Survivors
<1>4. (Well(jr[c], proc.at, c))'
  BY <1>1, <1>2, <1>3 DEF Well
<1> QED BY <1>4 DEF WellFor

\* The running command's operation.
LEMMA BusyWell ==
    ASSUME Once, NEW c, Ids(c), WellFor(c), Busy
    PROVE  /\ c \in DOMAIN jr /\ proc.op = c /\ hist = jr[c] /\ History(hist)
           /\ {"cmd", "op", "at"} \subseteq DOMAIN proc /\ Shapes /\ Fine(hist, proc.at)
           /\ Well(hist, proc.at, c) /\ Levels
<1>1. c \in DOMAIN jr /\ hist = jr[c]
  BY BusyIds
<1> QED BY <1>1, BusyIds DEF WellFor

\* The operation c gets the record g, and the rest stays.
LEMMA WroteWell ==
    ASSUME Once, NEW c \in DOMAIN jr, WellFor(c), NEW g, jr' = [jr EXCEPT ![c] = g],
           g.base = jr[c].base, UNCHANGED <<sep, host, pend, matches>>,
           NEW at, proc'.at = at, Well(g, at, c)
    PROVE  WellFor(c)'
<1>1. PICK S : jr \in Seq(S)
  BY DEF Once, Lists
<1>2. DOMAIN jr' = DOMAIN jr /\ jr'[c] = g /\ \A o \in DOMAIN jr : o # c => jr'[o] = jr[o]
  BY <1>1
<1>3. Kept => Kept'
  BY <1>2, KeptOn
<1>4. Well(g, at, c)' /\ Levels'
  BY <1>3, SameWell DEF WellFor
<1> QED BY <1>2, <1>4, WellAt

LEMMA RecordWell ==
    ASSUME Once, NEW c, Ids(c), WellFor(c), Busy, NEW H, Journal(H), Passes(hist, H),
           NEW at, Goto(at) \/ (Exit /\ at = "none"),
           UNCHANGED <<sep, host, pend, matches>>, \A g \in H : Well(g, at, c)
    PROVE  WellFor(c)'
<1>1. /\ c \in DOMAIN jr /\ proc.op = c /\ {"cmd", "op", "at"} \subseteq DOMAIN proc
      /\ hist = jr[c]
  BY BusyWell
<1>2. PICK g \in H : jr' = [jr EXCEPT ![c] = g]
  BY <1>1 DEF Journal
<1>3. g.base = jr[c].base
  BY <1>1 DEF Passes
<1>4. proc'.at = at
  BY <1>1 DEF Goto, Exit, Idle
<1> QED BY <1>1, <1>2, <1>3, <1>4, WroteWell

LEMMA RecordsWell ==
    ASSUME Once, NEW c, Ids(c), WellFor(c), Busy, NEW H, Passes(hist, H), NEW at,
           \A g \in H : Well(g, at, c)
    PROVE  /\ Record(H, at) => WellFor(c)'
           /\ at = "none" => (RecordAndExit(H) => WellFor(c)')
<1>1. ASSUME Record(H, at) PROVE WellFor(c)'
  <2>1. Journal(H) /\ Goto(at) /\ UNCHANGED <<sep, host, pend, matches>>
    BY <1>1 DEF Record, store, outside
  <2> QED BY <2>1, RecordWell
<1>2. ASSUME at = "none", RecordAndExit(H) PROVE WellFor(c)'
  <2>1. Journal(H) /\ Exit /\ UNCHANGED <<sep, host, pend, matches>>
    BY <1>2 DEF RecordAndExit, store, outside
  <2> QED BY <1>2, <2>1, RecordWell
<1> QED BY <1>1, <1>2

\* What a record must show: the rest follows from the baseline that it keeps.
Onto(h, at1, g, at2, c) ==
    /\ g.kind = h.kind /\ g.base = h.base /\ DOMAIN g = DOMAIN h
    /\ g.kind = "sync" /\ g.phase \in {"BASELINE", "INTENT"} => g.commit = <<>>
    /\ Held \/ Lagging(g, at2)
    /\ Untouched(g, at2) => Untouched(h, at1)
    /\ Stands(g, at2, c)

LEMMA OntoWell ==
    ASSUME NEW h, NEW at1, NEW g, NEW at2, NEW c, Well(h, at1, c), Onto(h, at1, g, at2, c)
    PROVE  Well(g, at2, c)
<1>1. Ages(g) /\ Contents(g)
  BY DEF Well, Onto, Ages, Contents
<1> QED BY <1>1 DEF Well, Onto

\* A history of which no command runs.
LEMMA IdleStands == ASSUME NEW h, NEW c PROVE Stands(h, "none", c)
BY DEF Stands, Drives

\* All the fields that are looked at.
Whole(h) == History(h) /\ {"action", "attempted", "commit"} \subseteq DOMAIN h

\* A record that changes the phase, and nothing that matters here but the target.
Alike(h, H, phase) ==
    \A g \in H : /\ DOMAIN g = DOMAIN h /\ g.kind = h.kind /\ g.base = h.base
                 /\ g.persistence = h.persistence /\ g.file = h.file
                 /\ g.commit = h.commit /\ g.attempted = h.attempted /\ g.phase = phase

LEMMA RenameAlike ==
    ASSUME NEW h, Whole(h), NEW action, NEW b
    PROVE  /\ Alike(h, RenameIntent(h), "INTENT") /\ Alike(h, RenameAborted(h), "ABORTED")
           /\ Alike(h, RenameReconciled(h), "RECONCILED")
           /\ Alike(h, RenameRecoveryIntent(h, action), "OUTCOME_UNKNOWN")
           /\ Alike(h, RenameRecovered(h, FALSE), "ABORTED")
           /\ Alike(h, RenameRecovered(h, TRUE), "RECONCILED")
           /\ Alike(h, RenameVerified(h, b), "POST_REBOOT_VERIFIED")
<1>1. Alike(h, RenameIntent(h), "INTENT") /\ Alike(h, RenameReconciled(h), "RECONCILED")
  BY DEF Alike, Whole, History, RenameIntent, RenameReconciled, Moved, Only
<1>2. Alike(h, RenameAborted(h), "ABORTED")
  BY DEF Alike, Whole, History, RenameAborted, Only
<1>3. Alike(h, RenameRecoveryIntent(h, action), "OUTCOME_UNKNOWN")
  BY DEF Alike, Whole, History, RenameRecoveryIntent, Only
<1>4. Alike(h, RenameRecovered(h, FALSE), "ABORTED")
  <2>1. \A g \in RenameRecovered(h, FALSE) : g = [h EXCEPT !.phase = "ABORTED"]
    BY DEF RenameRecovered, Only
  <2> QED BY <2>1 DEF Alike, Whole, History
<1>5. Alike(h, RenameRecovered(h, TRUE), "RECONCILED")
  <2>1. \A g \in RenameRecovered(h, TRUE) : g = [h EXCEPT !.phase = "RECONCILED"]
    BY DEF RenameRecovered, Only
  <2> QED BY <2>1 DEF Alike, Whole, History
<1>6. Alike(h, RenameVerified(h, b), "POST_REBOOT_VERIFIED")
  BY DEF Alike, Whole, History, RenameVerified, Only
<1> QED BY <1>1, <1>2, <1>3, <1>4, <1>5, <1>6

LEMMA DeleteAlike ==
    ASSUME NEW h, Whole(h), NEW id, NEW status, NEW action, NEW b
    PROVE  /\ Alike(h, DeleteIntent(h, id), "INTENT")
           /\ Alike(h, DispatchIntent(h), "DISPATCH_INTENT")
           /\ Alike(h, CommandObserved(h, status), "COMMAND_OBSERVED")
           /\ Alike(h, SepAbsenceObserved(h), "SEP_DELETED")
           /\ Alike(h, NotPerformed(h), "ABORTED")
           /\ Alike(h, DeleteOutcomeUnknown(h), "OUTCOME_UNKNOWN")
           /\ Alike(h, DeleteRecoveryIntent(h, action, b), "OUTCOME_UNKNOWN")
           /\ Alike(h, DeleteRecovered(h, FALSE), "ABORTED")
           /\ Alike(h, DeleteRecovered(h, TRUE), "RECONCILED")
           /\ Alike(h, DeleteReconciled(h), "RECONCILED")
           /\ Alike(h, DeleteVerified(h, b), "POST_REBOOT_VERIFIED")
<1>1. Alike(h, DeleteIntent(h, id), "INTENT")
  BY DEF Alike, Whole, History, DeleteIntent, Only
<1>2. Alike(h, DispatchIntent(h), "DISPATCH_INTENT") /\ Alike(h, SepAbsenceObserved(h), "SEP_DELETED")
  BY DEF Alike, Whole, History, DispatchIntent, SepAbsenceObserved, Moved, Only
<1>3. Alike(h, CommandObserved(h, status), "COMMAND_OBSERVED")
  BY DEF Alike, Whole, History, CommandObserved, Only
<1>4. Alike(h, NotPerformed(h), "ABORTED")
  BY DEF Alike, Whole, History, NotPerformed, Only
<1>5. Alike(h, DeleteOutcomeUnknown(h), "OUTCOME_UNKNOWN")
  BY DEF Alike, Whole, History, DeleteOutcomeUnknown, Moved, Only
<1>6. Alike(h, DeleteRecoveryIntent(h, action, b), "OUTCOME_UNKNOWN")
  BY DEF Alike, Whole, History, DeleteRecoveryIntent, Only
<1>7. Alike(h, DeleteRecovered(h, FALSE), "ABORTED")
  <2>1. \A g \in DeleteRecovered(h, FALSE) : g = [h EXCEPT !.phase = "ABORTED"]
    BY DEF DeleteRecovered, Only
  <2> QED BY <2>1 DEF Alike, Whole, History
<1>8. Alike(h, DeleteRecovered(h, TRUE), "RECONCILED")
  <2>1. \A g \in DeleteRecovered(h, TRUE) :
            g = [h EXCEPT !.phase = "RECONCILED", !.settled = h.rboot]
    BY DEF DeleteRecovered, Only
  <2> QED BY <2>1 DEF Alike, Whole, History
<1>9. Alike(h, DeleteReconciled(h), "RECONCILED")
  <2>1. \A g \in DeleteReconciled(h) : \E x : g = [h EXCEPT !.phase = "RECONCILED", !.settled = x]
    BY DEF DeleteReconciled, Only
  <2> QED BY <2>1 DEF Alike, Whole, History
<1>10. Alike(h, DeleteVerified(h, b), "POST_REBOOT_VERIFIED")
  BY DEF Alike, Whole, History, DeleteVerified, Only
<1> QED BY <1>1, <1>2, <1>3, <1>4, <1>5, <1>6, <1>7, <1>8, <1>9, <1>10

LEMMA SyncAlike ==
    ASSUME NEW h, Whole(h), NEW root
    PROVE  /\ Alike(h, SyncIntent(h), "INTENT") /\ Alike(h, SyncAborted(h), "ABORTED")
           /\ Alike(h, SyncReconciled(h, root), "RECONCILED")
           /\ Alike(h, SyncOutcomeUnknown(h), "OUTCOME_UNKNOWN")
<1>1. /\ Alike(h, SyncIntent(h), "INTENT") /\ Alike(h, SyncAborted(h), "ABORTED")
      /\ Alike(h, SyncOutcomeUnknown(h), "OUTCOME_UNKNOWN")
  BY DEF Alike, Whole, History, SyncIntent, SyncAborted, SyncOutcomeUnknown, Moved, Only
<1>2. Alike(h, SyncReconciled(h, root), "RECONCILED")
  BY DEF Alike, Whole, History, SyncReconciled, Only
<1> QED BY <1>1, <1>2

\* A record with which the command ends.
LEMMA EndsWell ==
    ASSUME NEW h, NEW at, NEW c, Well(h, at, c), NEW H, NEW phase, Alike(h, H, phase),
           phase \notin Early, Held \/ phase = "OUTCOME_UNKNOWN"
    PROVE  \A g \in H : Well(g, "none", c)
<1> SUFFICES ASSUME NEW g \in H PROVE Well(g, "none", c)
  OBVIOUS
<1>1. /\ DOMAIN g = DOMAIN h /\ g.kind = h.kind /\ g.base = h.base /\ g.phase = phase
      /\ g.persistence = h.persistence /\ g.commit = h.commit
  BY DEF Alike
<1>2. Held \/ Lagging(g, "none")
  BY <1>1 DEF Well, Lagging
<1>3. Untouched(g, "none") => Untouched(h, at)
  BY <1>1 DEF Untouched, Early
<1>4. Stands(g, "none", c)
  BY IdleStands
<1>5. Onto(h, at, g, "none", c)
  BY <1>1, <1>2, <1>3, <1>4 DEF Onto, Early
<1> QED BY <1>5, OntoWell

\* A record of a rename or a deletion before its save.
LEMMA EarlyWell ==
    ASSUME NEW h, NEW at1, NEW c, Well(h, at1, c), Tracked(h, at1), Drives(at1),
           h.kind \in {"rename", "delete"}, h.phase \in Early,
           NEW H, NEW phase \in Early \cup {"SEP_DELETED"}, Alike(h, H, phase),
           NEW at2 \in {"run", "send"}
    PROVE  \A g \in H : Well(g, at2, c)
<1> SUFFICES ASSUME NEW g \in H PROVE Well(g, at2, c)
  OBVIOUS
<1>1. /\ DOMAIN g = DOMAIN h /\ g.kind = h.kind /\ g.base = h.base /\ g.phase = phase
      /\ g.persistence = h.persistence
  BY DEF Alike
<1>2. Held
  BY DEF Well, Lagging
<1>3. h.persistence.phase = "NOT_STARTED"
  BY DEF Tracked
<1>4. Untouched(h, at1)
  BY <1>3 DEF Untouched
<1>5. SavesWell(h, at1)
  BY DEF Well, Stands, Saves
<1>6. SavesWell(g, at2)
  BY <1>1, <1>3, <1>5 DEF SavesWell, StagedAt, CrossedAt
<1>7. Stands(g, at2, c)
  BY <1>1, <1>6 DEF Stands, Early
<1>8. Onto(h, at1, g, at2, c)
  BY <1>1, <1>2, <1>4, <1>7 DEF Onto
<1> QED BY <1>8, OntoWell

\* The running command, once more.
LEMMA BusyWhole ==
    ASSUME Once, NEW c, Ids(c), WellFor(c), Busy
    PROVE  Whole(hist) /\ Well(hist, proc.at, c) /\ Tracked(hist, proc.at)
BY BusyWell DEF Whole, Well, Fine

LEMMA IntendWell == ASSUME Once, NEW c, Ids(c), WellFor(c), Intend PROVE WellFor(c)'
<1>1. Busy
  BY DEF Busy, Intend, IntendRename, IntendDeletion, IntendSync, At
<1>2. Whole(hist) /\ History(hist) /\ Well(hist, proc.at, c) /\ Tracked(hist, proc.at) /\ Shapes
  BY <1>1, BusyWhole, BusyWell
<1>3. CASE IntendRename
  <2>1. /\ Record(RenameIntent(hist), "run") /\ hist.kind = "rename" /\ hist.phase = "BASELINE"
        /\ proc.at = "run"
    BY <1>3 DEF IntendRename, At
  <2>2. Alike(hist, RenameIntent(hist), "INTENT") /\ Passes(hist, RenameIntent(hist))
    BY <1>2, RenameAlike, RenamePasses
  <2>3. \A g \in RenameIntent(hist) : Well(g, "run", c)
    BY <1>2, <2>1, <2>2, EarlyWell DEF Early, Drives
  <2> QED BY <1>1, <2>1, <2>2, <2>3, RecordsWell
<1>4. CASE IntendDeletion
  <2>1. PICK id : Record(DeleteIntent(hist, id), "run")
    BY <1>4 DEF IntendDeletion
  <2>2. hist.kind = "delete" /\ hist.phase = "BASELINE" /\ proc.at = "run"
    BY <1>4 DEF IntendDeletion, At
  <2>3. Alike(hist, DeleteIntent(hist, id), "INTENT") /\ Passes(hist, DeleteIntent(hist, id))
    BY <1>2, DeleteAlike, DeletePasses
  <2>4. \A g \in DeleteIntent(hist, id) : Well(g, "run", c)
    BY <1>2, <2>2, <2>3, EarlyWell DEF Early, Drives
  <2> QED BY <1>1, <2>1, <2>3, <2>4, RecordsWell
<1>5. CASE IntendSync
  <2>1. /\ Record(SyncIntent(hist), "begin") /\ hist.kind = "sync" /\ hist.phase = "BASELINE"
        /\ proc.at = "run"
    BY <1>5 DEF IntendSync, At
  <2>2. Alike(hist, SyncIntent(hist), "INTENT") /\ Passes(hist, SyncIntent(hist))
    BY <1>2, SyncAlike, SyncPasses
  <2>3. ASSUME NEW g \in SyncIntent(hist) PROVE Well(g, "begin", c)
    <3>1. /\ DOMAIN g = DOMAIN hist /\ g.kind = hist.kind /\ g.base = hist.base
          /\ g.phase = "INTENT" /\ g.commit = hist.commit
      BY <2>2 DEF Alike
    <3>2. Held /\ hist.commit = <<>> /\ SyncsWell("run")
      BY <1>2, <2>1 DEF Well, Lagging, Stands, Drives
    <3>3. Stands(g, "begin", c)
      BY <2>1, <3>1, <3>2 DEF Stands, Drives, Saves, SyncsWell
    <3>4. Onto(hist, proc.at, g, "begin", c)
      BY <2>1, <3>1, <3>2, <3>3 DEF Onto, Untouched
    <3> QED BY <1>2, <3>4, OntoWell
  <2> QED BY <1>1, <2>1, <2>2, <2>3, RecordsWell
<1> QED BY <1>3, <1>4, <1>5 DEF Intend

\* A step of the running command that writes no record.
LEMMA GoesWell ==
    ASSUME Once, NEW c, Ids(c), WellFor(c), Busy, jr' = jr, matches' = matches,
           NEW at, Goto(at) \/ (Exit /\ at = "none"), NEW h, h = hist,
           Levels', Ages(h)', Contents(h)', Held' \/ Lagging(h, at),
           Untouched(h, at) => host' = h.base, Stands(h, at, c)'
    PROVE  WellFor(c)'
<1>1. /\ c \in DOMAIN jr /\ h = jr[c] /\ {"cmd", "op", "at"} \subseteq DOMAIN proc
      /\ Well(h, proc.at, c)
  BY BusyWell
<1>2. proc'.at = at
  BY <1>1 DEF Goto, Exit, Idle
<1>3. (Held \/ Lagging(h, at))' /\ (Untouched(h, at) => host = h.base)'
  BY DEF Lagging, Untouched
<1>4. Well(h, at, c)'
  BY <1>1, <1>3 DEF Well
<1> QED BY <1>1, <1>2, <1>4, WellAt

\* Such a step that leaves the files.
LEMMA SepGoesWell ==
    ASSUME Once, NEW c, Ids(c), WellFor(c), Busy, UNCHANGED <<jr, matches, host, pend>>,
           NEW at, Goto(at) \/ (Exit /\ at = "none"), NEW h, h = hist,
           sep'.adapted = sep.adapted,
           "user" \in sep'.dirty =>
              "user" \in sep.dirty \/ (host = h.base /\ pend.user = NoFile),
           Held' \/ Lagging(h, at), Untouched(h, at) => Untouched(h, proc.at),
           Stands(h, at, c)'
    PROVE  WellFor(c)'
<1>1. Well(h, proc.at, c) /\ Levels
  BY BusyWell
<1>2. Levels'
  BY <1>1 DEF Levels
<1>3. Ages(h)'
  BY <1>1 DEF Well, Ages
<1>4. Contents(h)'
  BY <1>1 DEF Well, Contents
<1>5. Untouched(h, at) => host' = h.base
  BY <1>1 DEF Well
<1> QED BY <1>2, <1>3, <1>4, <1>5, GoesWell

\* Where the SEP still has what it had, or wants saving, what is kept stays so.
LEMMA HeldOn ==
    ASSUME Held, UNCHANGED <<jr, host>>, sep'.adapted = sep.adapted,
           "user" \in sep.dirty => "user" \in sep'.dirty
    PROVE  Held'
<1>1. Kept => Kept'
  BY KeptOn
<1> QED BY <1>1 DEF Held

\* The run of a deletion.
LEMMA DispatchDeleteWell ==
    ASSUME Once, NEW c, Ids(c), WellFor(c), DispatchDelete PROVE WellFor(c)'
<1>1. /\ Busy /\ hist.kind = "delete" /\ hist.phase = "DISPATCH_INTENT" /\ proc.at = "send"
      /\ sep' \in {sep, Erased} /\ UNCHANGED <<jr, matches, host, pend>>
  BY DEF DispatchDelete, At, Busy, store, outside
<1>2. PICK at \in {"ok", "refused", "lost"} : Goto(at)
  BY DEF DispatchDelete
<1>3. PICK h : h = hist
  OBVIOUS
<1>4. Well(h, "send", c) /\ Tracked(h, "send") /\ Shapes /\ Fine(h, "send")
  BY <1>1, <1>3, BusyWhole, BusyWell
<1>5. /\ sep'.adapted = sep.adapted
      /\ sep' = sep \/ "user" \in sep'.dirty
  BY <1>1, <1>4 DEF Erased, Shapes
<1>6. Untouched(h, at) /\ Untouched(h, "send")
  BY <1>1, <1>3 DEF Untouched, Early
<1>7. host = h.base /\ pend.user = NoFile
  BY <1>1, <1>3, <1>4, <1>6 DEF Well, Fine, DeleteFine, Early
<1>8. h.persistence.phase = "NOT_STARTED"
  BY <1>1, <1>3, <1>4 DEF Tracked, Early
<1>9. Held'
  <2>1. Held
    BY <1>1, <1>3, <1>4 DEF Well, Lagging
  <2> QED BY <1>1, <1>5, <2>1, HeldOn DEF Held
<1>10. Stands(h, at, c)'
  <2>1. SavesWell(h, "send")
    BY <1>1, <1>3, <1>4 DEF Well, Stands, Drives, Saves, Early
  <2>2. SavesWell(h, at)'
    BY <1>1, <1>5, <1>8, <2>1 DEF SavesWell, StagedAt, CrossedAt
  <2> QED BY <1>1, <1>2, <1>3, <2>2 DEF Stands
<1> QED BY <1>1, <1>2, <1>3, <1>5, <1>6, <1>7, <1>9, <1>10, SepGoesWell

LEMMA DeleteWell == ASSUME Once, NEW c, Ids(c), WellFor(c), Delete PROVE WellFor(c)'
<1>1. Busy /\ hist.kind = "delete"
  BY DEF Busy, Delete, IntendDelete, DispatchDelete, ObserveDelete, AdoptAbsence,
         ConcludeNotPerformed, FreezeDelete, At
<1>2. Whole(hist) /\ History(hist) /\ Well(hist, proc.at, c) /\ Tracked(hist, proc.at)
  BY <1>1, BusyWhole DEF Whole
<1>3. Held
  BY <1>1, <1>2 DEF Well, Lagging
<1>4. ASSUME NEW H, NEW phase \in Early \cup {"SEP_DELETED"}, Alike(hist, H, phase),
             Passes(hist, H), hist.phase \in Early, Drives(proc.at), NEW at \in {"run", "send"},
             Record(H, at)
      PROVE  WellFor(c)'
  <2>1. \A g \in H : Well(g, at, c)
    BY <1>1, <1>2, <1>4, EarlyWell
  <2> QED BY <1>1, <1>4, <2>1, RecordsWell
<1>5. ASSUME NEW H, NEW phase, phase \notin Early, Alike(hist, H, phase),
             Passes(hist, H), RecordAndExit(H)
      PROVE  WellFor(c)'
  <2>1. \A g \in H : Well(g, "none", c)
    BY <1>2, <1>3, <1>5, EndsWell
  <2> QED BY <1>1, <1>5, <2>1, RecordsWell
<1>6. /\ "INTENT" \in Early /\ "DISPATCH_INTENT" \in Early /\ "COMMAND_OBSERVED" \in Early
      /\ "ABORTED" \notin Early /\ "OUTCOME_UNKNOWN" \notin Early
  BY DEF Early
<1>7. CASE IntendDelete
  <2>1. /\ Record(DispatchIntent(hist), "send") /\ hist.phase = "INTENT" /\ Drives(proc.at)
    BY <1>7 DEF IntendDelete, At, Drives
  <2>2. /\ Alike(hist, DispatchIntent(hist), "DISPATCH_INTENT")
        /\ Passes(hist, DispatchIntent(hist))
    BY <1>2, DeleteAlike, DeletePasses
  <2> QED BY <1>4, <1>6, <2>1, <2>2
<1>8. CASE ObserveDelete
  <2>1. PICK reply : /\ Record(CommandObserved(hist, reply), "run")
                     /\ hist.phase = "DISPATCH_INTENT" /\ Drives(proc.at)
    BY <1>8 DEF ObserveDelete, At, Drives
  <2>2. /\ Alike(hist, CommandObserved(hist, reply), "COMMAND_OBSERVED")
        /\ Passes(hist, CommandObserved(hist, reply))
    BY <1>2, DeleteAlike, DeletePasses
  <2> QED BY <1>4, <1>6, <2>1, <2>2
<1>9. CASE AdoptAbsence
  <2>1. /\ Record(SepAbsenceObserved(hist), "run") /\ hist.phase = "COMMAND_OBSERVED"
        /\ Drives(proc.at)
    BY <1>9 DEF AdoptAbsence, At, Drives
  <2>2. /\ Alike(hist, SepAbsenceObserved(hist), "SEP_DELETED")
        /\ Passes(hist, SepAbsenceObserved(hist))
    BY <1>2, DeleteAlike, DeletePasses
  <2> QED BY <1>4, <1>6, <2>1, <2>2
<1>10. CASE ConcludeNotPerformed
  <2>1. Alike(hist, NotPerformed(hist), "ABORTED") /\ Passes(hist, NotPerformed(hist))
    BY <1>2, DeleteAlike, DeletePasses
  <2> QED BY <1>5, <1>6, <1>10, <2>1 DEF ConcludeNotPerformed
<1>11. CASE FreezeDelete
  <2>1. /\ Alike(hist, DeleteOutcomeUnknown(hist), "OUTCOME_UNKNOWN")
        /\ Passes(hist, DeleteOutcomeUnknown(hist))
    BY <1>2, DeleteAlike, DeletePasses
  <2> QED BY <1>5, <1>6, <1>11, <2>1 DEF FreezeDelete
<1> QED BY <1>7, <1>8, <1>9, <1>10, <1>11, DispatchDeleteWell DEF Delete

\* A record of the save, in full.
LEMMA SavedWhole ==
    ASSUME NEW h, Whole(h), NEW T, NEW file, NEW g \in Saved(h, T, file)
    PROVE  /\ g.persistence \in T /\ g.phase = SavePhase(g.persistence) /\ g.file = file
           /\ g.kind = h.kind /\ g.base = h.base /\ g.target = h.target
           /\ DOMAIN g = DOMAIN h /\ g.commit = h.commit
<1>1. PICK t \in T : g = [h EXCEPT !.persistence = t, !.phase = SavePhase(t), !.file = file]
  BY DEF Saved
<1>2. PICK x : x = SavePhase(t)
  OBVIOUS
<1>3. g = [h EXCEPT !.persistence = t, !.phase = x, !.file = file]
  BY <1>1, <1>2
<1>4. /\ g.persistence = t /\ g.phase = x /\ g.file = file
      /\ g.kind = h.kind /\ g.base = h.base /\ g.target = h.target
      /\ DOMAIN g = DOMAIN h /\ g.commit = h.commit
  BY <1>3 DEF Whole, History
<1> QED BY <1>2, <1>4

\* What is known where a save stands.
LEMMA SavingWell ==
    ASSUME Once, NEW c, Ids(c), WellFor(c), NEW phase, NEW at, Saving(phase, at), Drives(at)
    PROVE  /\ Busy /\ proc.at = at /\ Whole(hist) /\ Well(hist, at, c) /\ Levels /\ Shapes
           /\ hist.persistence.phase = phase /\ hist.kind # "sync" /\ Saves(hist)
           /\ SavesWell(hist, at) /\ Held /\ Tracker(saved)
           /\ phase # "NOT_STARTED" => hist.phase = "PERSISTING"
<1>1. /\ Busy /\ proc.at = at /\ hist.persistence.phase = phase
      /\ hist.kind # "sync" /\ hist.phase \in Early \cup {"SEP_DELETED", "PERSISTING"}
  BY SavingFacts
<1>2. Whole(hist) /\ Well(hist, at, c) /\ Levels /\ Shapes /\ Tracked(hist, at)
  BY <1>1, BusyWhole, BusyWell
<1>3. Saves(hist) /\ SavesWell(hist, at)
  BY <1>1, <1>2 DEF Saves, Well, Stands
<1>4. Held
  BY <1>1, <1>2 DEF Well, Lagging
<1>5. phase # "NOT_STARTED" => hist.phase = "PERSISTING"
  BY <1>1, <1>2 DEF Tracked
<1> QED BY <1>1, <1>2, <1>3, <1>4, <1>5, SavingTracker

\* The save writes its next record.
LEMMA SaveStepWell ==
    ASSUME Once, NEW c, Ids(c), WellFor(c), NEW phase, NEW at1, Saving(phase, at1), Drives(at1),
           NEW T, NEW p, Gives(T, {p}), NEW file, NEW at2, Drives(at2), at2 # "promote",
           Follows({p}, at2, phase, at1), p # "NOT_STARTED",
           p = "COMPONENT_READY" => phase = "NOT_STARTED",
           \/ file = pend.user
           \/ phase # "SECURE_BLOB_CAPTURED" /\ file = hist.file
           \/ p \notin {"HOST_STAGED", "BATCH_COMMIT_INTENT"}
    PROVE  Record(Saved(hist, T, file), at2) => WellFor(c)'
<1>1. /\ Busy /\ proc.at = at1 /\ Whole(hist) /\ Well(hist, at1, c)
      /\ hist.persistence.phase = phase /\ hist.kind # "sync" /\ Saves(hist)
      /\ SavesWell(hist, at1) /\ Held
  BY SavingWell
<1>2. Passes(hist, Saved(hist, T, file))
  BY <1>1, SavePasses DEF Whole
<1>3. ASSUME NEW g \in Saved(hist, T, file) PROVE Well(g, at2, c)
  <2>1. /\ g.persistence \in T /\ g.phase = SavePhase(g.persistence) /\ g.file = file
        /\ g.kind = hist.kind /\ g.base = hist.base /\ DOMAIN g = DOMAIN hist
    BY <1>1, SavedWhole
  <2>2. g.persistence.phase = p
    BY <2>1 DEF Gives
  <2>3. p \notin {"COMPLETE", "OUTCOME_UNKNOWN"}
    BY DEF Follows
  <2>4. g.phase = "PERSISTING"
    <3>1. PICK t : t = g.persistence
      OBVIOUS
    <3> QED BY <2>1, <2>2, <2>3, <3>1 DEF SavePhase
  <2>5. SavesWell(g, at2)
    <3>1. (StagedAt(p, at2) => StagedAt(phase, at1)) /\ (CrossedAt(p, at2) => CrossedAt(phase, at1))
      BY DEF Follows
    <3>2. StagedAt(p, at2) /\ p # "SECURE_BLOB_CAPTURED" => pend.user = file
      BY <1>1, <3>1 DEF SavesWell, StagedAt
    <3> QED BY <1>1, <2>1, <2>2, <3>1, <3>2 DEF SavesWell
  <2>6. Stands(g, at2, c)
    BY <1>1, <2>1, <2>4, <2>5 DEF Stands, Drives
  <2>7. Untouched(g, at2) => Untouched(hist, at1)
    BY <1>1, <2>1, <2>2, <2>4 DEF Untouched, Early
  <2>8. Onto(hist, at1, g, at2, c)
    BY <1>1, <2>1, <2>6, <2>7 DEF Onto
  <2> QED BY <1>1, <2>8, OntoWell
<1> QED BY <1>1, <1>2, <1>3, RecordsWell

LEMMA SaveRecordWell == ASSUME Once, NEW c, Ids(c), WellFor(c), SaveRecord PROVE WellFor(c)'
<1>1. PICK phase, at : Saving(phase, at)
  BY DEF SaveRecord, PlanPersistence, IntendPrepare, ObservePrepare, IntendComplete, CaptureBlob,
         RecordStaged, IntendCommit, RecordCommitted, IntendFinalConfirm, ObserveFinalConfirm
<1>2. /\ Gives(Plan(saved, MetadataPlan), {"COMPONENT_READY"})
      /\ Gives(PrepareIntent(saved), {"PREPARE_INTENT"}) /\ Gives(Prepared(saved), {"PREPARED"})
      /\ Gives(CompleteIntent(saved), {"COMPLETE_INTENT"})
      /\ Gives(BlobCaptured(saved), {"SECURE_BLOB_CAPTURED"})
      /\ Gives(HostStaged(saved), {"HOST_STAGED"})
      /\ Gives(CommitIntent(saved), {"BATCH_COMMIT_INTENT"})
      /\ Gives(Committed(saved), {"BATCH_COMMITTED"})
      /\ Gives(FinalConfirmIntent(saved), {"FINAL_CONFIRM_INTENT"})
      /\ Gives(FinalConfirmed(saved), {"ATTESTATION_READY"})
  BY <1>1, SavingTracker, TrackersGive
<1>0. Drives("run") /\ Drives("begin") /\ Drives("send") /\ Drives("ok") /\ Drives("cross")
      /\ Drives("crossed") /\ Drives("staged")
  BY DEF Drives
<1>3. CASE PlanPersistence
  <2>1. /\ Saving("NOT_STARTED", "run")
        /\ Record(Saved(hist, Plan(saved, MetadataPlan), hist.file), "begin")
    BY <1>3 DEF PlanPersistence
  <2>2. Follows({"COMPONENT_READY"}, "begin", "NOT_STARTED", "run")
    BY DEF Follows, StagedAt, CrossedAt, NeedsAt
  <2> QED BY <1>0, <1>2, <2>1, <2>2, SaveStepWell
<1>4. CASE IntendPrepare
  <2>1. /\ Saving("COMPONENT_READY", "run")
        /\ Record(Saved(hist, PrepareIntent(saved), hist.file), "send")
    BY <1>4 DEF IntendPrepare, SaveStep
  <2>2. Follows({"PREPARE_INTENT"}, "send", "COMPONENT_READY", "run")
    BY DEF Follows, StagedAt, CrossedAt, NeedsAt
  <2> QED BY <1>0, <1>2, <2>1, <2>2, SaveStepWell
<1>5. CASE ObservePrepare
  <2>1. Saving("PREPARE_INTENT", "ok") /\ Record(Saved(hist, Prepared(saved), hist.file), "run")
    BY <1>5 DEF ObservePrepare, SaveStep
  <2>2. Follows({"PREPARED"}, "run", "PREPARE_INTENT", "ok")
    BY DEF Follows, StagedAt, CrossedAt, NeedsAt
  <2> QED BY <1>0, <1>2, <2>1, <2>2, SaveStepWell
<1>6. CASE IntendComplete
  <2>1. Saving("PREPARED", "run") /\ Record(Saved(hist, CompleteIntent(saved), hist.file), "send")
    BY <1>6 DEF IntendComplete, SaveStep
  <2>2. Follows({"COMPLETE_INTENT"}, "send", "PREPARED", "run")
    BY DEF Follows, StagedAt, CrossedAt, NeedsAt
  <2> QED BY <1>0, <1>2, <2>1, <2>2, SaveStepWell
<1>7. CASE CaptureBlob
  <2>1. Saving("COMPLETE_INTENT", "ok") /\ Record(Saved(hist, BlobCaptured(saved), hist.file), "run")
    BY <1>7 DEF CaptureBlob, SaveStep
  <2>2. Follows({"SECURE_BLOB_CAPTURED"}, "run", "COMPLETE_INTENT", "ok")
    BY DEF Follows, StagedAt, CrossedAt, NeedsAt
  <2> QED BY <1>0, <1>2, <2>1, <2>2, SaveStepWell
<1>8. CASE RecordStaged
  <2>1. /\ Saving("SECURE_BLOB_CAPTURED", "staged")
        /\ Record(Saved(hist, HostStaged(saved), pend.user), "run")
    BY <1>8 DEF RecordStaged
  <2>2. Follows({"HOST_STAGED"}, "run", "SECURE_BLOB_CAPTURED", "staged")
    BY DEF Follows, StagedAt, CrossedAt, NeedsAt
  <2> QED BY <1>0, <1>2, <2>1, <2>2, SaveStepWell
<1>9. CASE IntendCommit
  <2>1. Saving("HOST_STAGED", "run") /\ Record(Saved(hist, CommitIntent(saved), hist.file), "cross")
    BY <1>9 DEF IntendCommit, SaveStep
  <2>2. Follows({"BATCH_COMMIT_INTENT"}, "cross", "HOST_STAGED", "run")
    BY DEF Follows, StagedAt, CrossedAt, NeedsAt
  <2> QED BY <1>0, <1>2, <2>1, <2>2, SaveStepWell
<1>10. CASE RecordCommitted
  <2>1. /\ Saving("BATCH_COMMIT_INTENT", "crossed")
        /\ Record(Saved(hist, Committed(saved), hist.file), "run")
    BY <1>10 DEF RecordCommitted, SaveStep
  <2>2. Follows({"BATCH_COMMITTED"}, "run", "BATCH_COMMIT_INTENT", "crossed")
    BY DEF Follows, StagedAt, CrossedAt, NeedsAt
  <2> QED BY <1>0, <1>2, <2>1, <2>2, SaveStepWell
<1>11. CASE IntendFinalConfirm
  <2>1. /\ Saving("BATCH_COMMITTED", "run")
        /\ Record(Saved(hist, FinalConfirmIntent(saved), hist.file), "send")
    BY <1>11 DEF IntendFinalConfirm, SaveStep
  <2>2. Follows({"FINAL_CONFIRM_INTENT"}, "send", "BATCH_COMMITTED", "run")
    BY DEF Follows, StagedAt, CrossedAt, NeedsAt
  <2> QED BY <1>0, <1>2, <2>1, <2>2, SaveStepWell
<1>12. CASE ObserveFinalConfirm
  <2>1. /\ Saving("FINAL_CONFIRM_INTENT", "ok")
        /\ Record(Saved(hist, FinalConfirmed(saved), hist.file), "run")
    BY <1>12 DEF ObserveFinalConfirm, SaveStep
  <2>2. Follows({"ATTESTATION_READY"}, "run", "FINAL_CONFIRM_INTENT", "ok")
    BY DEF Follows, StagedAt, CrossedAt, NeedsAt
  <2> QED BY <1>0, <1>2, <2>1, <2>2, SaveStepWell
<1> QED BY <1>3, <1>4, <1>5, <1>6, <1>7, <1>8, <1>9, <1>10, <1>11, <1>12 DEF SaveRecord

\* The records that end a save.
LEMMA SaveEndWell ==
    ASSUME Once, NEW c, Ids(c), WellFor(c),
           AttestRename \/ AttestDelete \/ ReconcileRename \/ ReconcileDelete \/ FreezeSave
    PROVE  WellFor(c)'
<1>1. Busy /\ hist.kind # "sync"
  <2>1. CASE ReconcileRename \/ ReconcileDelete
    BY <2>1 DEF Busy, ReconcileRename, ReconcileDelete, At
  <2>2. CASE AttestRename \/ AttestDelete \/ FreezeSave
    <3>1. PICK phase, place : Saving(phase, place)
      BY <2>2 DEF AttestRename, AttestDelete, Attest, FreezeSave
    <3> QED BY <3>1, SavingFacts
  <2> QED BY <2>1, <2>2
<1>2. Whole(hist) /\ History(hist) /\ Well(hist, proc.at, c) /\ Levels
  BY <1>1, BusyWhole, BusyWell
<1>3. Held
  BY <1>1, <1>2 DEF Well, Lagging
<1>4. CASE AttestRename \/ AttestDelete
  <2>1. /\ Saving("ATTESTATION_READY", "run") /\ Agree /\ sep.dirty = {}
        /\ sep.ids = Target(hist) /\ (hist.kind = "rename" => host.user.label = proc.op)
        /\ Record(Saved(hist, Attested(saved), hist.file), "run")
    BY <1>4 DEF AttestRename, AttestDelete, Attest, SaveStep, Summarized, Agree
  <2>2. Gives(Attested(saved), {"COMPLETE"})
    BY <2>1, SavingTracker, TrackersGive
  <2>3. Passes(hist, Saved(hist, Attested(saved), hist.file))
    BY <1>2, SavePasses
  <2>4. ASSUME NEW g \in Saved(hist, Attested(saved), hist.file) PROVE Well(g, "run", c)
    <3>1. /\ g.persistence \in Attested(saved) /\ g.phase = SavePhase(g.persistence)
          /\ g.kind = hist.kind /\ g.base = hist.base /\ g.target = hist.target
          /\ DOMAIN g = DOMAIN hist
      BY <1>2, SavedWhole
    <3>2. PICK t : t = g.persistence
      OBVIOUS
    <3>3. t.phase = "COMPLETE"
      BY <2>2, <3>1, <3>2 DEF Gives
    <3>4. g.phase = "PERSISTENCE_READY"
      BY <3>1, <3>2, <3>3 DEF SavePhase
    <3>5. Target(g) = Target(hist)
      BY <3>1 DEF Target, Survivors
    <3>6. Settled(g, c)
      BY <1>1, <2>1, <3>1, <3>5, BusyWell DEF Settled, Agree
    <3>7. Stands(g, "run", c)
      BY <1>1, <3>1, <3>4, <3>6 DEF Stands, Saves, Early
    <3>8. Untouched(g, "run") => Untouched(hist, proc.at)
      BY <1>1, <3>1, <3>2, <3>3, <3>4 DEF Untouched, Early
    <3>9. Onto(hist, proc.at, g, "run", c)
      BY <1>1, <1>3, <3>1, <3>7, <3>8 DEF Onto
    <3> QED BY <1>2, <3>9, OntoWell
  <2> QED BY <1>1, <2>1, <2>3, <2>4, RecordsWell
<1>5. CASE FreezeSave
  <2>1. PICK stage, possible, phase, place :
            /\ Saving(phase, place)
            /\ RecordAndExit(Saved(hist, Freeze(saved, stage, possible), hist.file))
    BY <1>5 DEF FreezeSave
  <2>2. PICK T : T = Freeze(saved, stage, possible)
    OBVIOUS
  <2>3. Gives(T, {"OUTCOME_UNKNOWN"})
    BY <2>1, <2>2, SavingTracker, TrackersGive
  <2>4. Passes(hist, Saved(hist, T, hist.file))
    BY <1>2, SavePasses
  <2>5. ASSUME NEW g \in Saved(hist, T, hist.file) PROVE Well(g, "none", c)
    <3>1. /\ g.persistence \in T /\ g.phase = SavePhase(g.persistence)
          /\ g.kind = hist.kind /\ g.base = hist.base /\ DOMAIN g = DOMAIN hist
      BY <1>2, SavedWhole
    <3>2. PICK t : t = g.persistence
      OBVIOUS
    <3>3. t.phase = "OUTCOME_UNKNOWN"
      BY <2>3, <3>1, <3>2 DEF Gives
    <3>4. g.phase = "OUTCOME_UNKNOWN"
      BY <3>1, <3>2, <3>3 DEF SavePhase
    <3>5. Untouched(g, "none") => Untouched(hist, proc.at)
      BY <1>1, <3>1, <3>2, <3>3, <3>4 DEF Untouched, Early
    <3>6. Stands(g, "none", c)
      BY IdleStands
    <3>7. Onto(hist, proc.at, g, "none", c)
      BY <1>1, <1>3, <3>1, <3>5, <3>6 DEF Onto
    <3> QED BY <1>2, <3>7, OntoWell
  <2> QED BY <1>1, <2>1, <2>2, <2>4, <2>5, RecordsWell
<1>6. CASE ReconcileRename \/ ReconcileDelete
  <2>1. PICK H : /\ RecordAndExit(H) /\ H \in {RenameReconciled(hist), DeleteReconciled(hist)}
    BY <1>6 DEF ReconcileRename, ReconcileDelete
  <2>2. Alike(hist, H, "RECONCILED") /\ Passes(hist, H)
    BY <1>2, <2>1, RenameAlike, DeleteAlike, RenamePasses, DeletePasses
  <2>3. \A g \in H : Well(g, "none", c)
    BY <1>2, <1>3, <2>2, EndsWell DEF Early
  <2> QED BY <1>1, <2>1, <2>2, <2>3, RecordsWell
<1> QED BY <1>4, <1>5, <1>6

\* The levels of what is pending.
LEMMA PendingLevels ==
    /\ NoFile.adapted = 0 /\ NoPending.user = NoFile /\ Prepare.user = NoFile
    /\ NoPending.dir = "none" /\ Prepare.dir = "prepare"
BY DEF NoPending, Prepare, NoFile

\* The steps of a save on the files.
LEMMA SaveStageWell ==
    ASSUME Once, NEW c, Ids(c), WellFor(c), BeginStage \/ CreateStaged \/ CrossBoundary
    PROVE  WellFor(c)'
<1>1. PICK phase, at1, at2 :
          /\ Saving(phase, at1) /\ Drives(at1) /\ OnFiles(at2) /\ host' = host
          /\ \/ /\ phase = "COMPONENT_READY" /\ at1 = "begin" /\ at2 = "run" /\ pend' = Prepare
             \/ /\ phase = "SECURE_BLOB_CAPTURED" /\ at1 = "run" /\ at2 = "staging"
                /\ pend' = [pend EXCEPT !.torn = TRUE]
             \/ /\ phase = "BATCH_COMMIT_INTENT" /\ at1 = "cross" /\ at2 = "promote"
                /\ pend' = [pend EXCEPT !.dir = "commit"]
  BY DEF BeginStage, CreateStaged, CrossBoundary, Drives
<1>2. PICK h : h = hist
  OBVIOUS
<1>3. /\ Busy /\ proc.at = at1 /\ Well(h, at1, c) /\ Levels /\ Shapes
      /\ h.persistence.phase = phase /\ h.kind # "sync" /\ Saves(h)
      /\ SavesWell(h, at1) /\ Held
  BY <1>1, <1>2, SavingWell
<1>4. sep' = sep /\ jr' = jr /\ matches' = matches /\ Goto(at2)
  BY <1>1 DEF OnFiles, outside
<1>5. /\ pend'.user \in {pend.user, NoFile}
      /\ at2 = "run" => pend'.user = NoFile /\ pend'.dir = "prepare"
      /\ at2 = "staging" => pend'.user = pend.user /\ pend'.dir = pend.dir
      /\ at2 = "promote" => /\ pend'.user = pend.user /\ pend'.dir = "commit"
                            /\ pend.user # NoFile /\ pend.user = h.file
                            /\ pend.user.adapted = sep.adapted
  BY <1>1, <1>3, PendingLevels DEF Shapes, SavesWell, StagedAt
<1>6. Levels'
  BY <1>1, <1>3, <1>4, <1>5, PendingLevels DEF Levels
<1>7. Ages(h)' /\ Contents(h)'
  BY <1>1, <1>3, <1>4, <1>5 DEF Well, Ages, Contents
<1>8. Held'
  BY <1>1, <1>3, <1>4, HeldOn
<1>9. Untouched(h, at2) => host' = h.base
  BY <1>1, <1>3 DEF Well, Untouched
<1>10. SavesWell(h, at2)'
  BY <1>1, <1>3, <1>4, <1>5 DEF SavesWell, StagedAt, CrossedAt
<1>11. Stands(h, at2, c)'
  BY <1>1, <1>3, <1>5, <1>10 DEF Stands, Saves, Early
<1> QED BY <1>2, <1>3, <1>4, <1>6, <1>7, <1>8, <1>9, <1>11, GoesWell

\* The file gets the templates of the SEP, and keeps the label unless renamed.
LEMMA EncodedLevels ==
    /\ Encoded.adapted = sep.adapted
    /\ hist.kind # "rename" => Encoded.label = host.user.label
BY DEF Encoded

LEMMA StageWell == ASSUME Once, NEW c, Ids(c), WellFor(c), StageComponent PROVE WellFor(c)'
<1>1. /\ Saving("SECURE_BLOB_CAPTURED", "staging") /\ Drives("staging") /\ OnFiles("staged")
      /\ pend' = [pend EXCEPT !.torn = FALSE, !.user = Encoded] /\ host' = host
  BY DEF StageComponent, Drives
<1>2. PICK h : h = hist
  OBVIOUS
<1>3. /\ Busy /\ proc.at = "staging" /\ Well(h, "staging", c) /\ Levels /\ Shapes
      /\ h.persistence.phase = "SECURE_BLOB_CAPTURED" /\ h.kind # "sync" /\ Saves(h)
      /\ SavesWell(h, "staging") /\ Held
  BY <1>1, <1>2, SavingWell
<1>4. sep' = sep /\ jr' = jr /\ matches' = matches /\ Goto("staged")
  BY <1>1 DEF OnFiles, outside
<1>5. PICK e : e = Encoded
  OBVIOUS
<1>6. e # NoFile /\ e.adapted = sep.adapted /\ (h.kind # "rename" => e.label = host.user.label)
  BY <1>2, <1>3, <1>5, EncodedFacts, EncodedLevels DEF Shapes
<1>7. pend'.user = e /\ pend'.dir = pend.dir
  <2>1. pend' = [pend EXCEPT !.torn = FALSE, !.user = e]
    BY <1>1, <1>5
  <2> QED BY <1>3, <2>1 DEF Shapes
<1>8. Levels'
  BY <1>1, <1>3, <1>4, <1>6, <1>7 DEF Levels
<1>9. Ages(h)'
  BY <1>1, <1>3, <1>4, <1>6, <1>7 DEF Well, Ages, SavesWell, Levels
<1>10. Contents(h)'
  BY <1>1, <1>3, <1>6, <1>7 DEF Well, Contents
<1>11. Held'
  BY <1>1, <1>3, <1>4, HeldOn
<1>12. Untouched(h, "staged") => host' = h.base
  BY <1>1, <1>3 DEF Well, Untouched
<1>13. SavesWell(h, "staged")'
  BY <1>1, <1>3, <1>4, <1>6, <1>7 DEF SavesWell, CrossedAt
<1>14. Stands(h, "staged", c)'
  BY <1>3, <1>13 DEF Stands, Saves, Early
<1> QED BY <1>2, <1>3, <1>4, <1>8, <1>9, <1>10, <1>11, <1>12, <1>14, GoesWell

\* What is staged becomes the root.
LEMMA PromotedAges ==
    ASSUME NEW c \in DOMAIN jr, NEW h, h = jr[c], NEW at, Well(h, at, c), Levels,
           host' = Promoted, pend' = NoPending, sep' = sep, matches' = matches, jr' = jr,
           pend.user # NoFile, h.kind # "delete" => pend.user.ids = host.user.ids
    PROVE  /\ host'.user = pend.user /\ Levels' /\ Ages(h)' /\ Contents(h)'
           /\ Held /\ h.kind # "sync" => Held'
<1>1. host'.user = pend.user /\ pend'.user = NoFile /\ pend'.dir = "none"
  BY PendingLevels DEF Promoted
<1>2. Levels'
  BY <1>1, PendingLevels DEF Levels
<1>3. Ages(h)'
  BY <1>1 DEF Well, Ages
<1>4. Contents(h)'
  BY <1>1 DEF Well, Contents
<1>5. ASSUME Kept, h.kind # "sync" PROVE Kept'
  <2>1. PICK r \in {host} \cup {jr[o].base : o \in DOMAIN jr} : sep.adapted <= r.user.adapted
    BY <1>5 DEF Kept
  <2>2. h.base \in {host'} \cup {jr'[o].base : o \in DOMAIN jr'}
    OBVIOUS
  <2>3. CASE r = host
    <3>1. \/ host.user.adapted <= pend.user.adapted
          \/ host.user.adapted <= h.base.user.adapted
      BY <1>5 DEF Well, Ages
    <3>2. sep.adapted \in Nat /\ host.user.adapted \in Nat /\ pend.user.adapted \in Nat
          /\ h.base.user.adapted \in Nat
      BY DEF Levels, Well
    <3>3. sep.adapted <= host'.user.adapted \/ sep.adapted <= h.base.user.adapted
      BY <1>1, <2>1, <2>3, <3>1, <3>2
    <3> QED BY <2>2, <3>3 DEF Kept
  <2>4. CASE r # host
    BY <2>1, <2>4 DEF Kept
  <2> QED BY <2>3, <2>4
<1> QED BY <1>1, <1>2, <1>3, <1>4, <1>5 DEF Held

LEMMA RollForwardWell == ASSUME Once, NEW c, Ids(c), WellFor(c), RollForward PROVE WellFor(c)'
<1>1. /\ Saving("BATCH_COMMIT_INTENT", "promote") /\ Drives("promote") /\ OnFiles("crossed")
      /\ host' = Promoted /\ pend' = NoPending
  BY DEF RollForward, Drives
<1>2. PICK h : h = hist
  OBVIOUS
<1>3. /\ Busy /\ proc.at = "promote" /\ Well(h, "promote", c) /\ Levels
      /\ h.persistence.phase = "BATCH_COMMIT_INTENT" /\ h.kind # "sync" /\ Saves(h)
      /\ SavesWell(h, "promote") /\ Held /\ h.phase = "PERSISTING"
  BY <1>1, <1>2, SavingWell
<1>4. c \in DOMAIN jr /\ h = jr[c] /\ Fine(h, "promote")
  BY <1>2, <1>3, BusyWell
<1>5. sep' = sep /\ jr' = jr /\ matches' = matches /\ Goto("crossed")
  BY <1>1 DEF OnFiles, outside
<1>6. pend.user # NoFile /\ pend.user.adapted = sep.adapted
  BY <1>3 DEF SavesWell, StagedAt
<1>7. h.kind # "delete" => pend.user.ids = host.user.ids
  BY <1>4, <1>6 DEF Fine, OtherFine
<1>8. host'.user = pend.user /\ Levels' /\ Ages(h)' /\ Contents(h)' /\ Held'
  BY <1>1, <1>3, <1>4, <1>5, <1>6, <1>7, PromotedAges
<1>9. ~Untouched(h, "crossed")
  BY <1>3 DEF Untouched, Early
<1>10. SavesWell(h, "crossed")'
  <2>1. sep.adapted \in Nat
    BY <1>3 DEF Levels
  <2> QED BY <1>3, <1>5, <1>6, <1>8, <2>1 DEF SavesWell, StagedAt
<1>11. Stands(h, "crossed", c)'
  BY <1>3, <1>10 DEF Stands, Saves, Early
<1> QED BY <1>2, <1>3, <1>5, <1>8, <1>9, <1>11, GoesWell

\* The commands of a save to the SEP.
LEMMA SaveDispatchWell ==
    ASSUME Once, NEW c, Ids(c), WellFor(c), DispatchPrepare \/ DispatchComplete \/ DispatchFinalConfirm
    PROVE  WellFor(c)'
<1>1. PICK phase \in {"PREPARE_INTENT", "COMPLETE_INTENT", "FINAL_CONFIRM_INTENT"} :
          /\ Saving(phase, "send") /\ Drives("send")
          /\ sep' = sep \/ (sep' = Cleaned("user") /\ phase = "FINAL_CONFIRM_INTENT")
          /\ \E at \in {"ok", "lost"} : Goto(at)
          /\ jr' = jr /\ host' = host /\ pend' = pend /\ matches' = matches
  BY DEF DispatchPrepare, DispatchComplete, DispatchFinalConfirm, Dispatch, store, outside, Drives
<1>2. PICK at \in {"ok", "lost"} : Goto(at)
  BY <1>1
<1>3. PICK h : h = hist
  OBVIOUS
<1>4. /\ Busy /\ proc.at = "send" /\ Well(h, "send", c) /\ Levels /\ Shapes
      /\ h.persistence.phase = phase /\ h.kind # "sync" /\ Saves(h)
      /\ SavesWell(h, "send") /\ Held
  BY <1>1, <1>3, SavingWell
<1>5. /\ sep'.adapted = sep.adapted /\ sep'.dirty \subseteq sep.dirty
      /\ sep' = sep \/ phase = "FINAL_CONFIRM_INTENT"
  BY <1>1, <1>4 DEF Cleaned, Shapes
<1>6. SavesWell(h, at)'
  BY <1>1, <1>4, <1>5 DEF SavesWell, StagedAt, CrossedAt
<1>7. Stands(h, at, c)'
  BY <1>2, <1>4, <1>6 DEF Stands, Saves, Early
<1>8. Held'
  <2>1. CASE sep' = sep
    BY <1>1, <1>4, <2>1, HeldOn
  <2>2. CASE phase = "FINAL_CONFIRM_INTENT"
    <3>1. sep'.adapted <= host'.user.adapted
      BY <1>1, <1>4, <1>5, <2>2 DEF SavesWell, CrossedAt
    <3> QED BY <3>1 DEF Held, Kept
  <2> QED BY <1>5, <2>1, <2>2
<1>9. Untouched(h, at) => Untouched(h, proc.at)
  BY <1>4 DEF Untouched
<1> QED BY <1>1, <1>2, <1>3, <1>4, <1>5, <1>7, <1>8, <1>9, SepGoesWell

\* A command that ends has perhaps made prepare/.
LEMMA PreparedWell ==
    ASSUME Once, NEW c, Ids(c), WellFor(c), Busy, NEW H, NEW phase, Alike(hist, H, phase),
           phase \notin Early, Held \/ phase = "OUTCOME_UNKNOWN", Passes(hist, H), Journal(H),
           Exit, UNCHANGED <<host, sep, matches>>, pend' \in {pend, Prepare}
    PROVE  WellFor(c)'
<1>1. /\ c \in DOMAIN jr /\ proc.op = c /\ hist = jr[c] /\ Well(hist, proc.at, c) /\ Levels
  BY BusyWell
<1>2. PICK g \in H : jr' = [jr EXCEPT ![c] = g]
  BY <1>1 DEF Journal
<1>3. Well(g, "none", c)
  BY <1>1, EndsWell
<1>4. g.base = jr[c].base
  BY <1>1 DEF Passes
<1>5. proc'.at = "none"
  BY DEF Exit, Idle
<1>6. CASE pend' = pend
  BY <1>1, <1>2, <1>3, <1>4, <1>5, <1>6, WroteWell
<1>7. CASE pend' = Prepare
  <2>1. PICK S : jr \in Seq(S)
    BY DEF Once, Lists
  <2>2. DOMAIN jr' = DOMAIN jr /\ jr'[c] = g /\ \A o \in DOMAIN jr : o # c => jr'[o] = jr[o]
    BY <1>1, <1>2, <2>1
  <2>3. Kept => Kept'
    BY <1>4, <2>2, KeptOn
  <2>4. Levels'
    BY <1>1, <1>7, PendingLevels DEF Levels
  <2>5. Ages(g)' /\ Contents(g)'
    BY <1>3, <1>7, PendingLevels DEF Well, Ages, Contents
  <2>6. (Held \/ Lagging(g, "none"))' /\ (Untouched(g, "none") => host = g.base)'
    BY <1>3, <2>3 DEF Well, Held, Lagging, Untouched
  <2>7. Stands(g, "none", c)'
    BY DEF Stands, Drives
  <2>8. Well(g, "none", c)'
    BY <1>3, <2>5, <2>6, <2>7 DEF Well
  <2> QED BY <1>1, <1>5, <2>2, <2>4, <2>8, WellAt
<1> QED BY <1>6, <1>7

LEMMA FailStageWell ==
    ASSUME Once, NEW c, Ids(c), WellFor(c), AbortRename \/ FailDeleteStage
    PROVE  WellFor(c)'
<1>1. PICK H :
          /\ Saving("COMPONENT_READY", "begin") /\ pend' \in {pend, Prepare} /\ Journal(H) /\ Exit
          /\ host' = host /\ sep' = sep /\ matches' = matches
          /\ H \in {RenameAborted(hist), DeleteOutcomeUnknown(hist)}
  BY DEF AbortRename, FailDeleteStage, FailBeginStage, outside
<1>2. Busy /\ Whole(hist) /\ Held
  BY <1>1, SavingWell DEF Drives
<1>3. Alike(hist, H, "ABORTED") \/ Alike(hist, H, "OUTCOME_UNKNOWN")
  BY <1>1, <1>2, RenameAlike, DeleteAlike
<1>4. Passes(hist, H)
  BY <1>1, <1>2, RenamePasses, DeletePasses DEF Whole
<1>5. "ABORTED" \notin Early /\ "OUTCOME_UNKNOWN" \notin Early
  BY DEF Early
<1> QED BY <1>1, <1>2, <1>3, <1>4, <1>5, PreparedWell

LEMMA SaveWell == ASSUME Once, NEW c, Ids(c), WellFor(c), Save PROVE WellFor(c)'
BY SaveRecordWell, SaveEndWell, SaveStageWell, StageWell, RollForwardWell, SaveDispatchWell,
   FailStageWell
   DEF Save, SaveRecord

\* What is known where a sync stands.
LEMMA SyncWellFacts ==
    ASSUME Once, NEW c, Ids(c), WellFor(c), NEW phase, NEW at, At("sync", phase, at)
    PROVE  /\ Busy /\ proc.at = at /\ Whole(hist) /\ Well(hist, at, c) /\ Levels /\ Shapes
           /\ hist.kind = "sync" /\ hist.phase = phase /\ OtherFine
           /\ Held \/ Lagging(hist, at)
           /\ phase = "INTENT" => hist.commit = <<>>
           /\ phase = "INTENT" /\ Drives(at) => SyncsWell(at)
<1>1. Busy /\ hist.kind = "sync" /\ hist.phase = phase /\ proc.at = at /\ OtherFine /\ Shapes
  BY SyncFacts
<1>2. Whole(hist) /\ Well(hist, at, c) /\ Levels
  BY <1>1, BusyWhole, BusyWell
<1> QED BY <1>1, <1>2 DEF Well, Stands

\* The steps of a sync on the files before they are promoted.
LEMMA SyncStageWell ==
    ASSUME Once, NEW c, Ids(c), WellFor(c),
           BeginSync \/ ExportSync \/ StageSync \/ NextSyncComponent \/ CrossSync
    PROVE  WellFor(c)'
<1>1. PICK e, n : e = Encoded /\ n = exports + 1
  OBVIOUS
<1>2. PICK at1, at2 :
          /\ At("sync", "INTENT", at1) /\ Drives(at1) /\ OnFiles(at2) /\ host' = host
          /\ \/ at2 = "export" /\ pend' = Prepare
             \/ at2 = "staging" /\ pend' = [pend EXCEPT !.torn = TRUE]
             \/ at2 = "confirm" /\ pend' = [pend EXCEPT !.torn = FALSE, !.user = e]
             \/ /\ at2 = "cross" /\ pend.user # NoFile
                /\ pend' = [pend EXCEPT !.torn = FALSE, !.master = n]
             \/ at2 = "export" /\ pend' = pend
             \/ at2 = "promote" /\ at1 = "cross" /\ pend' = [pend EXCEPT !.dir = "commit"]
  <2>1. CASE BeginSync \/ ExportSync \/ NextSyncComponent \/ CrossSync
    BY <2>1 DEF BeginSync, ExportSync, NextSyncComponent, CrossSync, Drives, store
  <2>2. CASE StageSync
    BY <1>1, <2>2 DEF StageSync, Drives
  <2> QED BY <2>1, <2>2
<1>3. PICK h : h = hist
  OBVIOUS
<1>4. /\ Busy /\ proc.at = at1 /\ Well(h, at1, c) /\ Levels /\ Shapes /\ h.kind = "sync"
      /\ h.phase = "INTENT" /\ h.commit = <<>> /\ SyncsWell(at1)
  BY <1>2, <1>3, SyncWellFacts
<1>5. sep' = sep /\ jr' = jr /\ matches' = matches /\ Goto(at2)
  BY <1>2 DEF OnFiles, outside
<1>6. e # NoFile /\ e.adapted = sep.adapted /\ e.label = host.user.label
  BY <1>1, <1>3, <1>4, EncodedFacts, EncodedLevels DEF Shapes
<1>7. /\ pend'.user \in {NoFile, pend.user, e}
      /\ at2 \in {"cross", "promote"} => pend'.user = pend.user /\ pend.user # NoFile
      /\ at2 = "promote" => pend'.dir = "commit"
  <2>1. CASE at2 = "export"
    BY <1>2, <2>1, PendingLevels
  <2>2. CASE at2 # "export"
    BY <1>2, <1>4, <2>2 DEF Shapes, SyncsWell
  <2> QED BY <2>1, <2>2
<1>8. Levels'
  BY <1>2, <1>4, <1>5, <1>6, <1>7, PendingLevels DEF Levels
<1>9. Ages(h)'
  BY <1>2, <1>4, <1>5, <1>6, <1>7 DEF Well, Ages, Levels
<1>10. Contents(h)'
  BY <1>2, <1>4, <1>6, <1>7 DEF Well, Contents
<1>11. Lagging(h, at2) /\ ~Untouched(h, at2)
  BY <1>2, <1>4 DEF Lagging, Untouched
<1>12. SyncsWell(at2)'
  BY <1>2, <1>4, <1>5, <1>6, <1>7 DEF SyncsWell
<1>13. Stands(h, at2, c)'
  BY <1>2, <1>4, <1>7, <1>12 DEF Stands, Saves
<1> QED BY <1>3, <1>4, <1>5, <1>8, <1>9, <1>10, <1>11, <1>13, GoesWell

LEMMA PromoteSyncWell == ASSUME Once, NEW c, Ids(c), WellFor(c), PromoteSync PROVE WellFor(c)'
<1>1. /\ At("sync", "INTENT", "promote") /\ Drives("promote") /\ OnFiles("crossed")
      /\ host' = Promoted /\ pend' = NoPending
  BY DEF PromoteSync, Drives
<1>2. PICK h : h = hist
  OBVIOUS
<1>3. /\ Busy /\ proc.at = "promote" /\ Well(h, "promote", c) /\ Levels /\ OtherFine
      /\ h.kind = "sync" /\ h.phase = "INTENT" /\ SyncsWell("promote")
  BY <1>1, <1>2, SyncWellFacts
<1>4. c \in DOMAIN jr /\ h = jr[c]
  BY <1>2, <1>3, BusyWell
<1>5. sep' = sep /\ jr' = jr /\ matches' = matches /\ Goto("crossed")
  BY <1>1 DEF OnFiles, outside
<1>6. pend.user # NoFile /\ pend.user.adapted = sep.adapted /\ pend.user.ids = host.user.ids
  BY <1>3 DEF SyncsWell, OtherFine
<1>7. host'.user = pend.user /\ Levels' /\ Ages(h)' /\ Contents(h)'
  BY <1>1, <1>3, <1>4, <1>5, <1>6, PromotedAges
<1>8. sep'.adapted <= host'.user.adapted
  BY <1>3, <1>5, <1>6, <1>7 DEF Levels
<1>9. Held'
  BY <1>8 DEF Held, Kept
<1>10. ~Untouched(h, "crossed")
  BY <1>3 DEF Untouched
<1>11. Stands(h, "crossed", c)'
  BY <1>1, <1>3, <1>8, PendingLevels DEF Stands, Saves, SyncsWell
<1> QED BY <1>2, <1>3, <1>5, <1>7, <1>9, <1>10, <1>11, GoesWell

\* The confirms of a sync: the first comes before the host has the update.
LEMMA SyncConfirmWell ==
    ASSUME Once, NEW c, Ids(c), WellFor(c), ConfirmSyncUser \/ ConfirmSyncMaster
    PROVE  WellFor(c)'
<1>1. PICK phase, component :
          /\ At("sync", phase, "confirm")
          /\ \/ phase = "INTENT"
             \/ phase = "HOST_COMMITTED" /\ component = "master"
          /\ sep' = sep \/ sep' = Cleaned(component)
          /\ \E at \in {"ok", "lost"} : Goto(at)
          /\ jr' = jr /\ host' = host /\ pend' = pend /\ matches' = matches
  BY DEF ConfirmSyncUser, ConfirmSyncMaster, Dispatch, store, outside
<1>2. PICK at \in {"ok", "lost"} : Goto(at)
  BY <1>1
<1>3. PICK h : h = hist
  OBVIOUS
<1>4. /\ Busy /\ proc.at = "confirm" /\ Well(h, "confirm", c) /\ Levels /\ Shapes
      /\ h.kind = "sync" /\ h.phase = phase /\ (Held \/ Lagging(h, "confirm"))
      /\ phase = "INTENT" => h.commit = <<>> /\ SyncsWell("confirm")
  BY <1>1, <1>3, SyncWellFacts DEF Drives
<1>5. /\ sep'.adapted = sep.adapted /\ sep'.dirty \subseteq sep.dirty
      /\ phase = "INTENT" \/ ("user" \in sep.dirty => "user" \in sep'.dirty)
  BY <1>1, <1>4 DEF Cleaned, Shapes
<1>6. Held' \/ Lagging(h, at)
  <2>1. CASE phase = "INTENT"
    BY <1>2, <1>4, <2>1 DEF Lagging
  <2>2. CASE phase = "HOST_COMMITTED"
    <3>1. Held
      BY <1>4, <2>2 DEF Lagging
    <3> QED BY <1>1, <1>5, <2>2, <3>1, HeldOn
  <2> QED BY <1>1, <2>1, <2>2
<1>7. ~Untouched(h, at)
  BY <1>1, <1>2, <1>4 DEF Untouched
<1>8. Stands(h, at, c)'
  BY <1>1, <1>2, <1>4, <1>5 DEF Stands, Saves, SyncsWell
<1> QED BY <1>1, <1>2, <1>3, <1>4, <1>5, <1>6, <1>7, <1>8, SepGoesWell

LEMMA SyncWell == ASSUME Once, NEW c, Ids(c), WellFor(c), Sync PROVE WellFor(c)'
<1>1. CASE FailBeginSync
  <2>1. /\ At("sync", "INTENT", "begin") /\ pend' \in {pend, Prepare} /\ Exit
        /\ host' = host /\ matches' = matches /\ sep' = sep
        /\ Journal(SyncOutcomeUnknown(hist)) \/ Journal(SyncAborted(hist))
    BY <1>1 DEF FailBeginSync, outside
  <2>2. Busy /\ Whole(hist) /\ Held
    BY <2>1, SyncWellFacts DEF Lagging
  <2>3. PICK H, phase :
            /\ Journal(H) /\ Passes(hist, H) /\ Alike(hist, H, phase)
            /\ phase \in {"OUTCOME_UNKNOWN", "ABORTED"}
    BY <2>1, <2>2, SyncPasses, SyncAlike DEF Whole
  <2>4. phase \notin Early
    BY <2>3 DEF Early
  <2> QED BY <2>1, <2>2, <2>3, <2>4, PreparedWell
<1>2. CASE RecordSyncCommitted
  <2>1. /\ At("sync", "INTENT", "crossed")
        /\ Record(SyncHostCommitted(hist, host), "confirm")
    BY <1>2 DEF RecordSyncCommitted
  <2>2. Busy /\ Whole(hist) /\ Held /\ Well(hist, "crossed", c) /\ hist.kind = "sync"
    BY <2>1, SyncWellFacts DEF Lagging
  <2>3. Passes(hist, SyncHostCommitted(hist, host))
    BY <2>2, SyncPasses DEF Whole
  <2>4. ASSUME NEW g \in SyncHostCommitted(hist, host) PROVE Well(g, "confirm", c)
    <3>1. /\ DOMAIN g = DOMAIN hist /\ g.kind = hist.kind /\ g.base = hist.base
          /\ g.phase = "HOST_COMMITTED"
      BY <2>2 DEF Whole, History, SyncHostCommitted, Only
    <3>2. ~Untouched(g, "confirm") /\ Stands(g, "confirm", c)
      BY <2>2, <3>1 DEF Untouched, Stands, Saves
    <3>3. Onto(hist, "crossed", g, "confirm", c)
      BY <2>2, <3>1, <3>2 DEF Onto
    <3> QED BY <2>2, <3>3, OntoWell
  <2> QED BY <2>1, <2>2, <2>3, <2>4, RecordsWell
<1>3. CASE ReconcileSync \/ FreezeSync
  <2>1. PICK phase, at : At("sync", phase, at) /\ (ReconcileSync => phase = "HOST_COMMITTED")
    BY <1>3 DEF ReconcileSync, FreezeSync, At
  <2>2. /\ Busy /\ Whole(hist) /\ Well(hist, proc.at, c)
        /\ ReconcileSync => Held
    BY <2>1, SyncWellFacts DEF Lagging
  <2>3. PICK H, to :
            /\ RecordAndExit(H) /\ Passes(hist, H) /\ Alike(hist, H, to)
            /\ to = "OUTCOME_UNKNOWN" \/ (to = "RECONCILED" /\ Held)
    BY <1>3, <2>2, SyncPasses, SyncAlike DEF Whole, ReconcileSync, FreezeSync
  <2>4. to \notin Early
    BY <2>3 DEF Early
  <2>5. \A g \in H : Well(g, "none", c)
    BY <2>2, <2>3, <2>4, EndsWell
  <2> QED BY <2>2, <2>3, <2>5, RecordsWell
<1> QED BY <1>1, <1>2, <1>3, SyncStageWell, PromoteSyncWell, SyncConfirmWell DEF Sync

\* The interrupted journal that a recovery takes up is the open one.
LEMMA InterruptedSole ==
    ASSUME Once, NEW c, Ids(c), WellFor(c), proc = Idle, NEW o \in DOMAIN jr,
           NEW kind \in {"rename", "delete", "sync"}, jr[o].kind = kind, Interrupted(kind) = {o}
    PROVE  /\ o = c /\ Whole(jr[c]) /\ Well(jr[c], "none", c) /\ Levels /\ Blocks(jr[c])
           /\ Shapes /\ Fine(jr[c], "none")
           /\ kind = "sync" => jr[c].phase = "OUTCOME_UNKNOWN"
<1>1. PICK h : h = jr[o]
  OBVIOUS
<1>2. /\ kind = "rename" =>
            h.phase \in {"INTENT", "PERSISTING", "PERSISTENCE_READY", "OUTCOME_UNKNOWN"}
      /\ kind = "delete" => h.phase \in InterruptedDelete
      /\ kind = "sync" => h.phase = "OUTCOME_UNKNOWN"
  BY <1>1 DEF Interrupted
<1>3. Blocks(jr[o])
  BY <1>1, <1>2 DEF Blocks, Complete, InterruptedDelete
<1>4. o = c
  BY <1>3, BlocksSole
<1>5. proc.at = "none"
  BY DEF Idle
<1>6. Well(jr[c], "none", c) /\ Levels /\ Shapes /\ Fine(jr[c], "none")
  BY <1>4, <1>5 DEF WellFor, Ids
<1>7. Whole(jr[c])
  BY <1>4, <1>6 DEF Whole, Well, Once, Lists
<1> QED BY <1>1, <1>2, <1>3, <1>4, <1>6, <1>7

\* A recovery takes it up: its direction is the journaled one.
LEMMA RecoverLocalWell ==
    ASSUME Once, NEW c \in DOMAIN jr, Ids(c), WellFor(c), NEW kind \in {"rename", "delete"},
           NEW I, RecoverLocal(kind, c, I), NEW action, action = ObservedAction,
           Alike(jr[c], I, "OUTCOME_UNKNOWN"), \A g \in I : g.action = action
    PROVE  WellFor(c)'
<1>1. /\ proc = Idle /\ jr[c].kind = kind /\ Interrupted(kind) = {c}
      /\ proc' = [cmd |-> "recover", op |-> c, at |-> "local"]
      /\ \/ \E g \in I : jr' = [jr EXCEPT ![c] = g]
         \/ jr' = jr /\ action \in {jr[c].action, "no-local-transaction"}
      /\ pend.dir = "commit" => jr[c].persistence.phase = "BATCH_COMMIT_INTENT"
      /\ UNCHANGED <<sep, host, pend, matches>>
  BY DEF RecoverLocal, store, outside
<1>2. PICK h : h = jr[c]
  OBVIOUS
<1>3. Well(h, "none", c) /\ Levels /\ Blocks(h) /\ h.kind = kind
  BY <1>1, <1>2, InterruptedSole
<1>4. pend.dir = "prepare" => action = "prepare-discarded"
  BY DEF ObservedAction
<1>5. Held
  BY <1>3 DEF Well, Lagging
<1>6. ASSUME NEW g, DOMAIN g = DOMAIN h, g.kind = h.kind, g.base = h.base,
             g.persistence = h.persistence,
             g.phase = h.phase \/ g.phase = "OUTCOME_UNKNOWN",
             action \in {g.action, "no-local-transaction"}
      PROVE  Well(g, "local", c)
  <2>1. Blocks(g)
    BY <1>3, <1>6 DEF Blocks, Complete
  <2>2. Stands(g, "local", c)
    BY <1>1, <1>2, <1>3, <1>4, <1>6, <2>1 DEF Stands, Drives
  <2>3. Untouched(g, "local") => Untouched(h, "none")
    BY <1>3, <1>6 DEF Untouched, Early
  <2>4. Onto(h, "none", g, "local", c)
    BY <1>3, <1>5, <1>6, <2>2, <2>3 DEF Onto
  <2> QED BY <1>3, <2>4, OntoWell
<1>7. proc'.at = "local"
  BY <1>1
<1>8. CASE \E g \in I : jr' = [jr EXCEPT ![c] = g]
  <2>1. PICK g \in I : jr' = [jr EXCEPT ![c] = g]
    BY <1>8
  <2>2. /\ DOMAIN g = DOMAIN h /\ g.kind = h.kind /\ g.base = h.base
        /\ g.persistence = h.persistence /\ g.phase = "OUTCOME_UNKNOWN" /\ g.action = action
    BY <1>2 DEF Alike
  <2>3. Well(g, "local", c)
    BY <1>6, <2>2
  <2> QED BY <1>1, <1>2, <1>7, <2>1, <2>2, <2>3, WroteWell
<1>9. CASE jr' = jr /\ action \in {jr[c].action, "no-local-transaction"}
  <2>1. Well(h, "local", c)
    BY <1>2, <1>6, <1>9
  <2>2. Kept => Kept'
    BY <1>1, <1>9, KeptOn
  <2>3. Well(h, "local", c)' /\ Levels'
    BY <1>1, <1>3, <2>1, <2>2, SameWell
  <2> QED BY <1>2, <1>7, <1>9, <2>3, WellAt
<1> QED BY <1>1, <1>8, <1>9

LEMMA RecoverWell ==
    ASSUME Once, NEW c, Ids(c), WellFor(c), RecoverRename \/ RecoverDelete
    PROVE  WellFor(c)'
<1>1. PICK action : action = ObservedAction
  OBVIOUS
<1>2. CASE RecoverRename
  <2>1. PICK o \in DOMAIN jr : RecoverLocal("rename", o, RenameRecoveryIntent(jr[o], action))
    BY <1>1, <1>2 DEF RecoverRename
  <2>2. proc = Idle /\ jr[o].kind = "rename" /\ Interrupted("rename") = {o}
    BY <2>1 DEF RecoverLocal
  <2>3. o = c /\ Whole(jr[c])
    BY <2>2, InterruptedSole
  <2>4. PICK h : h = jr[c]
    OBVIOUS
  <2>5. Alike(h, RenameRecoveryIntent(h, action), "OUTCOME_UNKNOWN")
    BY <2>3, <2>4, RenameAlike
  <2>6. \A g \in RenameRecoveryIntent(h, action) : g.action = action
    BY <2>3, <2>4 DEF RenameRecoveryIntent, Only, Whole
  <2> QED BY <1>1, <2>1, <2>3, <2>4, <2>5, <2>6, RecoverLocalWell
<1>3. CASE RecoverDelete
  <2>1. PICK o \in DOMAIN jr : RecoverLocal("delete", o, DeleteRecoveryIntent(jr[o], action, boot))
    BY <1>1, <1>3 DEF RecoverDelete
  <2>2. proc = Idle /\ jr[o].kind = "delete" /\ Interrupted("delete") = {o}
    BY <2>1 DEF RecoverLocal
  <2>3. o = c /\ Whole(jr[c])
    BY <2>2, InterruptedSole
  <2>4. PICK h : h = jr[c]
    OBVIOUS
  <2>5. Alike(h, DeleteRecoveryIntent(h, action, boot), "OUTCOME_UNKNOWN")
    BY <2>3, <2>4, DeleteAlike
  <2>6. \A g \in DeleteRecoveryIntent(h, action, boot) : g.action = action
    BY <2>3, <2>4 DEF DeleteRecoveryIntent, Only, Whole
  <2> QED BY <1>1, <2>1, <2>3, <2>4, <2>5, <2>6, RecoverLocalWell
<1> QED BY <1>2, <1>3

\* The recovery of a sync: the host committed what the journal names.
LEMMA RecoverSyncWell == ASSUME Once, NEW c, Ids(c), WellFor(c), RecoverSync PROVE WellFor(c)'
<1>1. PICK o \in DOMAIN jr :
          /\ proc = Idle /\ jr[o].kind = "sync" /\ Interrupted("sync") = {o}
          /\ pend.dir = "none"
          /\ \/ /\ \E g \in SyncRecoveredClean(jr[o], host) : jr' = [jr EXCEPT ![o] = g]
                /\ proc' = proc
             \/ /\ \E g \in SyncRecoveryIntent(jr[o], host) : jr' = [jr EXCEPT ![o] = g]
                /\ proc' = [cmd |-> "recover", op |-> o, at |-> "begin"]
          /\ UNCHANGED <<sep, host, pend, matches>>
  BY DEF RecoverSync, store, outside
<1>2. /\ o = c /\ Whole(jr[c]) /\ Well(jr[c], "none", c) /\ Shapes
      /\ jr[c].phase = "OUTCOME_UNKNOWN"
  BY <1>1, InterruptedSole
<1>3. PICK h : h = jr[c]
  OBVIOUS
<1>4. pend.user = NoFile
  BY <1>1, <1>2 DEF Shapes
<1>5. PICK g, at :
          /\ jr' = [jr EXCEPT ![c] = g] /\ proc'.at = at
          /\ \/ at = "none" /\ g \in SyncRecoveredClean(h, host)
             \/ at = "begin" /\ g \in SyncRecoveryIntent(h, host)
  <2>1. CASE proc' = proc /\ \E g \in SyncRecoveredClean(jr[o], host) : jr' = [jr EXCEPT ![o] = g]
    BY <1>1, <1>2, <1>3, <2>1 DEF Idle
  <2>2. CASE /\ proc' = [cmd |-> "recover", op |-> o, at |-> "begin"]
             /\ \E g \in SyncRecoveryIntent(jr[o], host) : jr' = [jr EXCEPT ![o] = g]
    BY <1>2, <1>3, <2>2
  <2> QED BY <1>1, <2>1, <2>2
<1>6. h.commit = <<host>> /\ h.commit # <<>>
  BY <1>5 DEF SyncRecoveredClean, SyncRecoveryIntent, SyncRecoverable, Only
<1>7. Held
  BY <1>2, <1>3, <1>6 DEF Well, Lagging
<1>8. /\ DOMAIN g = DOMAIN h /\ g.kind = h.kind /\ g.base = h.base
      /\ at = "none" => g.phase = "RECONCILED"
      /\ at = "begin" => g.phase = "INTENT" /\ g.commit = <<>> /\ g.attempted = TRUE
  <2>1. CASE at = "none"
    <3>1. g = [h EXCEPT !.phase = "RECONCILED", !.attempted = TRUE]
      BY <1>5, <2>1 DEF SyncRecoveredClean, Only
    <3> QED BY <1>2, <1>3, <2>1, <3>1 DEF Whole, History
  <2>2. CASE at = "begin"
    <3>1. g = [h EXCEPT !.phase = "INTENT", !.commit = <<>>, !.attempted = TRUE]
      BY <1>5, <2>2 DEF SyncRecoveryIntent, Only
    <3> QED BY <1>2, <1>3, <2>2, <3>1 DEF Whole, History
  <2> QED BY <1>5, <2>1, <2>2
<1>9. h.kind = "sync"
  BY <1>1, <1>2, <1>3
<1>10. ~Untouched(g, at)
  BY <1>5, <1>8, <1>9 DEF Untouched
<1>11. Stands(g, at, c)
  BY <1>4, <1>5, <1>8, <1>9 DEF Stands, Drives, Saves, SyncsWell
<1>12. Onto(h, "none", g, at, c)
  BY <1>5, <1>7, <1>8, <1>10, <1>11 DEF Onto
<1>13. Well(g, at, c)
  BY <1>2, <1>3, <1>12, OntoWell
<1> QED BY <1>1, <1>2, <1>3, <1>5, <1>8, <1>13, WroteWell

\* Where a recovery looks, nothing more is asked of it.
LEMMA InspectStands == ASSUME NEW h, NEW c PROVE Stands(h, "inspect", c)
BY DEF Stands, Drives

\* The files of a recovery.
LEMMA ResolveFilesWell ==
    ASSUME Once, NEW c, Ids(c), WellFor(c),
           DiscardLocal \/ RollLocalForward \/ NothingLocal \/ RefuseRecovery
    PROVE  WellFor(c)'
<1>1. PICK at \in {"none", "inspect"} :
          /\ Busy /\ proc.at \in {"local", "inspect"} /\ UNCHANGED <<jr, sep, matches>>
          /\ Goto(at) \/ (Exit /\ at = "none")
          /\ \/ host' = host /\ (pend' = pend \/ pend' = NoPending)
             \/ /\ proc.at = "local" /\ pend.dir = "commit"
                /\ host' = Promoted /\ pend' = NoPending
  <2>1. CASE RefuseRecovery
    BY <2>1 DEF RefuseRecovery, Busy, store, outside
  <2>2. CASE DiscardLocal \/ RollLocalForward \/ NothingLocal
    BY <2>2 DEF DiscardLocal, RollLocalForward, NothingLocal, OnFiles, Busy, store, outside
  <2> QED BY <2>1, <2>2
<1>2. PICK h : h = hist
  OBVIOUS
<1>3. /\ c \in DOMAIN jr /\ h = jr[c] /\ Well(h, proc.at, c) /\ Levels /\ Fine(h, proc.at)
  BY <1>1, <1>2, BusyWell
<1>4. Stands(h, at, c)'
  BY <1>1 DEF Stands, Drives
<1>5. CASE host' = host /\ (pend' = pend \/ pend' = NoPending)
  <2>1. pend'.user \in {pend.user, NoFile} /\ (pend'.dir = "commit" => pend' = pend)
    BY <1>5, PendingLevels
  <2>2. Levels'
    BY <1>1, <1>3, <1>5, <2>1, PendingLevels DEF Levels
  <2>3. Ages(h)'
    BY <1>1, <1>3, <1>5, <2>1 DEF Well, Ages
  <2>4. Contents(h)'
    BY <1>3, <1>5, <2>1 DEF Well, Contents
  <2>5. Held => Held'
    BY <1>1, <1>5, HeldOn
  <2>6. Lagging(h, proc.at) => Lagging(h, at)
    BY <1>1 DEF Lagging
  <2>7. Untouched(h, at) => host' = h.base
    BY <1>1, <1>3, <1>5 DEF Well, Untouched
  <2> QED BY <1>1, <1>2, <1>3, <1>4, <2>2, <2>3, <2>4, <2>5, <2>6, <2>7, GoesWell DEF Well
<1>6. CASE /\ proc.at = "local" /\ pend.dir = "commit"
           /\ host' = Promoted /\ pend' = NoPending
  <2>1. h.kind # "sync" /\ h.persistence.phase = "BATCH_COMMIT_INTENT" /\ pend.user # NoFile
    BY <1>3, <1>6 DEF Well, Stands, Contents
  <2>2. h.kind # "delete" => pend.user.ids = host.user.ids
    BY <1>3, <2>1 DEF Fine, OtherFine
  <2>3. Held
    BY <1>3, <2>1 DEF Well, Lagging
  <2>4. Levels' /\ Ages(h)' /\ Contents(h)' /\ Held'
    BY <1>1, <1>3, <1>6, <2>1, <2>2, <2>3, PromotedAges
  <2>5. ~Untouched(h, at)
    BY <1>3, <2>1 DEF Untouched, Fine, Tracked, Early
  <2> QED BY <1>1, <1>2, <1>4, <2>4, <2>5, GoesWell
<1> QED BY <1>1, <1>5, <1>6

\* Its end, or a save once more.
LEMMA SaveForwardWell == ASSUME Once, NEW c, Ids(c), WellFor(c), SaveForward PROVE WellFor(c)'
<1>1. PICK archive : Record(RecoveryAbsenceObserved(hist, archive), "run")
  BY DEF SaveForward
<1>2. Busy /\ hist.kind = "delete" /\ proc.at = "inspect" /\ sep.dirty = {"user"}
  BY DEF SaveForward, Inspecting, At, Busy
<1>3. PICK h : h = hist
  OBVIOUS
<1>4. Whole(h) /\ Well(h, "inspect", c) /\ Levels
  BY <1>2, <1>3, BusyWhole, BusyWell
<1>5. Passes(h, RecoveryAbsenceObserved(h, archive))
  BY <1>4, DeletePasses DEF Whole
<1>6. ASSUME NEW g \in RecoveryAbsenceObserved(h, archive) PROVE Well(g, "run", c)
  <2>1. g = [h EXCEPT !.phase = "SEP_DELETED", !.persistence = NotStarted,
                      !.file = NoFile, !.forward = TRUE]
    BY <1>6 DEF RecoveryAbsenceObserved, Only
  <2>2. /\ DOMAIN g = DOMAIN h /\ g.kind = "delete" /\ h.kind = "delete" /\ g.base = h.base
        /\ g.phase = "SEP_DELETED" /\ g.persistence = NotStarted
    BY <1>2, <1>3, <1>4, <2>1 DEF Whole, History
  <2>3. NotStarted.phase = "NOT_STARTED"
    BY DEF NotStarted
  <2>4. SavesWell(g, "run")
    <3>1. host.user.adapted <= sep.adapted \/ host.user.adapted <= h.base.user.adapted
      <4>1. host.user.adapted \in Nat /\ (host = h.base \/ host.user.adapted <= sep.adapted)
        BY <1>2, <1>4 DEF Well, Ages, Levels
      <4> QED BY <4>1
    <3> QED BY <2>2, <2>3, <3>1 DEF SavesWell, StagedAt, CrossedAt
  <2>5. Stands(g, "run", c) /\ ~Untouched(g, "run")
    BY <2>2, <2>4 DEF Stands, Untouched, Early
  <2>6. Held
    BY <1>2 DEF Held
  <2>7. Onto(h, "inspect", g, "run", c)
    BY <2>2, <2>5, <2>6 DEF Onto
  <2> QED BY <1>4, <2>7, OntoWell
<1> QED BY <1>1, <1>2, <1>3, <1>5, <1>6, RecordsWell

LEMMA ResolveWell == ASSUME Once, NEW c, Ids(c), WellFor(c), Resolve PROVE WellFor(c)'
<1>1. CASE ConcludeRename \/ ConcludeDelete
  <2>1. Busy /\ hist.kind # "sync"
    BY <1>1 DEF ConcludeRename, ConcludeDelete, Inspecting, At, Busy
  <2>2. Whole(hist) /\ Well(hist, proc.at, c)
    BY <2>1, BusyWhole
  <2>3. Held
    BY <2>1, <2>2 DEF Well, Lagging
  <2>4. PICK H, to : RecordAndExit(H) /\ Passes(hist, H) /\ Alike(hist, H, to)
                     /\ to \in {"ABORTED", "RECONCILED"}
    <3>1. CASE ConcludeRename
      <4>1. PICK committed \in BOOLEAN : RecordAndExit(RenameRecovered(hist, committed))
        BY <3>1 DEF ConcludeRename
      <4>2. Passes(hist, RenameRecovered(hist, committed))
        BY <2>2, RenamePasses DEF Whole
      <4>3. \/ Alike(hist, RenameRecovered(hist, committed), "ABORTED")
            \/ Alike(hist, RenameRecovered(hist, committed), "RECONCILED")
        BY <2>2, RenameAlike
      <4> QED BY <4>1, <4>2, <4>3
    <3>2. CASE ConcludeDelete
      <4>1. PICK committed \in BOOLEAN : RecordAndExit(DeleteRecovered(hist, committed))
        BY <3>2 DEF ConcludeDelete
      <4>2. Passes(hist, DeleteRecovered(hist, committed))
        BY <2>2, DeletePasses DEF Whole
      <4>3. \/ Alike(hist, DeleteRecovered(hist, committed), "ABORTED")
            \/ Alike(hist, DeleteRecovered(hist, committed), "RECONCILED")
        BY <2>2, DeleteAlike
      <4> QED BY <4>1, <4>2, <4>3
    <3> QED BY <1>1, <3>1, <3>2
  <2>5. to \notin Early
    BY <2>4 DEF Early
  <2>6. \A g \in H : Well(g, "none", c)
    BY <2>2, <2>3, <2>4, <2>5, EndsWell
  <2> QED BY <2>1, <2>4, <2>6, RecordsWell
<1> QED BY <1>1, ResolveFilesWell, SaveForwardWell DEF Resolve

\* A verification after a reboot.
LEMMA VerifyWell ==
    ASSUME Once, NEW c, Ids(c), WellFor(c), VerifyRename \/ VerifyDelete \/ ReconcileAtBoot
    PROVE  WellFor(c)'
<1>1. proc = Idle
  BY DEF VerifyRename, VerifyDelete, ReconcileAtBoot
<1>2. PICK o \in DOMAIN jr :
          /\ jr[o].phase = "RECONCILED"
          /\ \/ jr[o].kind = "rename" /\ ProvePostReboot(o, RenameVerified(jr[o], boot))
             \/ jr[o].kind = "delete" /\ ProvePostReboot(o, DeleteVerified(jr[o], boot))
  BY DEF VerifyRename, VerifyDelete, ReconcileAtBoot, Candidates, AwaitingReboot
<1>3. Blocks(jr[o])
  BY <1>2 DEF Blocks, Complete
<1>4. o = c
  BY <1>3, BlocksSole
<1>5. PICK h : h = jr[c]
  OBVIOUS
<1>6. proc.at = "none" /\ c \in DOMAIN jr
  BY <1>1, <1>4 DEF Idle
<1>7. Well(h, "none", c) /\ Whole(h) /\ h.kind # "sync"
  BY <1>2, <1>4, <1>5, <1>6 DEF WellFor, Whole, Well, Once, Lists
<1>8. Held
  BY <1>7 DEF Well, Lagging
<1>9. PICK H : /\ ProvePostReboot(c, H) /\ Alike(h, H, "POST_REBOOT_VERIFIED")
  BY <1>2, <1>4, <1>5, <1>7, RenameAlike, DeleteAlike
<1>10. \A g \in H : Well(g, "none", c)
  BY <1>7, <1>8, <1>9, EndsWell DEF Early
<1>11. PICK g \in H : jr' = [jr EXCEPT ![c] = g]
  BY <1>9 DEF ProvePostReboot
<1>12. UNCHANGED <<sep, host, pend, matches>> /\ proc' = proc
  BY <1>9 DEF ProvePostReboot, store, outside
<1>13. g.base = jr[c].base /\ Well(g, "none", c)
  BY <1>5, <1>9, <1>10, <1>11 DEF Alike
<1> QED BY <1>6, <1>11, <1>12, <1>13, WroteWell

\* Where no journal blocks, the host holds every update that the SEP believes
\* saved.
LEMMA ClearHeld == ASSUME NEW c, WellFor(c), Blocking = {} PROVE Held
<1>1. CASE c \in DOMAIN jr
  <2>1. ~Blocks(jr[c])
    BY <1>1 DEF Blocking
  <2>2. ~Lagging(jr[c], proc.at)
    BY <2>1 DEF Lagging, Blocks, Complete
  <2> QED BY <1>1, <2>2 DEF WellFor, Well
<1> QED BY <1>1 DEF WellFor

\* A mutation begins.
LEMMA BeginWell ==
    ASSUME Once, NEW d, Ids(d), WellFor(d), NEW kind, Begin(kind),
           kind \in {"rename", "delete", "sync"}, NEW c, c = Len(jr) + 1
    PROVE  WellFor(c)'
<1>1. PICK S : jr \in Seq(S)
  BY DEF Once, Lists
<1>2. PICK h : h = Opened(kind, boot, host, Hash)
  OBVIOUS
<1>3. PICK R : R = S \cup {h}
  OBVIOUS
<1>4. jr \in Seq(R) /\ h \in R
  BY <1>1, <1>3, Wider
<1>5. /\ jr' = Append(jr, h) /\ proc' = [cmd |-> "run", op |-> c, at |-> "run"]
      /\ Blocking = {} /\ pend.dir = "none"
      /\ UNCHANGED <<sep, host, pend, matches>>
  BY <1>2 DEF Begin, store, outside
<1>6. /\ c \in DOMAIN jr' /\ jr'[c] = h
      /\ \A o \in DOMAIN jr : o \in DOMAIN jr' /\ jr'[o] = jr[o]
  BY <1>4, <1>5
<1>7. pend.user = NoFile
  BY <1>5 DEF Ids, Shapes
<1>8. /\ h.kind = kind /\ h.phase = "BASELINE" /\ h.base = host /\ h.persistence = NotStarted
      /\ h.commit = <<>> /\ {"action", "attempted", "commit"} \subseteq DOMAIN h
  BY <1>2 DEF Opened
<1>9. Levels /\ Held
  BY <1>5, ClearHeld DEF WellFor
<1>10. NotStarted.phase = "NOT_STARTED" /\ host.user.adapted \in Nat
       /\ h.base.user.adapted \in 0 .. matches
  BY <1>8, <1>9 DEF NotStarted, Levels
<1>11. Ages(h) /\ Contents(h)
  BY <1>5, <1>7, <1>8 DEF Ages, Contents
<1>12. SavesWell(h, "run") /\ SyncsWell("run")
  BY <1>7, <1>8, <1>10 DEF SavesWell, SyncsWell, StagedAt, CrossedAt
<1>13. Stands(h, "run", c)
  BY <1>8, <1>12 DEF Stands
<1>14. Well(h, "run", c)
  BY <1>8, <1>9, <1>10, <1>11, <1>13 DEF Well
<1>15. Kept => Kept'
  BY <1>5, <1>6, KeptOn
<1>16. Well(h, "run", c)' /\ Levels'
  BY <1>5, <1>9, <1>14, <1>15, SameWell
<1>17. proc'.at = "run"
  BY <1>5
<1> QED BY <1>6, <1>16, <1>17, WellAt

\* A match, a stop, and a reboot.
LEMMA FaultWell == ASSUME Once, NEW c, Ids(c), WellFor(c), Match \/ Crash \/ Reboot PROVE WellFor(c)'
<1>1. PICK m : m = matches + 1
  OBVIOUS
<1>2. /\ jr' = jr /\ proc' = Idle /\ host' = host /\ pend' = pend
      /\ \/ sep' = sep /\ matches' = matches
         \/ sep' = Restarted /\ matches' = matches
         \/ sep' = [sep EXCEPT !.adapted = m, !.dirty = @ \cup {"user"}] /\ matches' = m
  BY <1>1 DEF Match, Crash, Reboot, Exit, store, outside
<1>3. Shapes /\ Levels
  BY DEF Ids, WellFor
<1>4. PICK a, D : a = sep'.adapted /\ D = sep'.dirty
  OBVIOUS
<1>5. \/ matches' = matches /\ a = sep.adapted /\ D = sep.dirty
      \/ matches' = matches /\ a = host.user.adapted /\ D = {}
      \/ matches' = matches + 1 /\ a = matches + 1 /\ "user" \in D
  <2>1. CASE sep' = [sep EXCEPT !.adapted = m, !.dirty = @ \cup {"user"}] /\ matches' = m
    BY <1>1, <1>3, <1>4, <2>1 DEF Shapes
  <2>2. CASE matches' = matches /\ (sep' = sep \/ sep' = Restarted)
    BY <1>4, <2>2 DEF Restarted
  <2> QED BY <1>2, <2>1, <2>2
<1>6. /\ matches \in Nat /\ sep.adapted \in 0 .. matches
      /\ host.user.adapted \in 0 .. matches /\ pend.user.adapted \in 0 .. matches
  BY <1>3 DEF Levels
<1>7. Levels'
  BY <1>2, <1>4, <1>5, <1>6 DEF Levels
<1>8. Held => Held'
  <2>1. CASE a = sep.adapted /\ D = sep.dirty
    BY <1>2, <1>4, <2>1, HeldOn
  <2>2. CASE a = host.user.adapted
    <3>1. Kept'
      BY <1>2, <1>4, <1>6, <2>2 DEF Kept
    <3> QED BY <3>1 DEF Held
  <2>3. CASE "user" \in D
    BY <1>4, <2>3 DEF Held
  <2> QED BY <1>5, <2>1, <2>2, <2>3
<1>9. CASE c \notin DOMAIN jr
  BY <1>2, <1>7, <1>8, <1>9 DEF WellFor
<1>10. CASE c \in DOMAIN jr
  <2>1. PICK h : h = jr[c]
    OBVIOUS
  <2>2. Well(h, proc.at, c)
    BY <1>10, <2>1 DEF WellFor
  <2>3. Ages(h)'
    <3>1. "user" \in D =>
             /\ host = h.base \/ host.user.adapted <= a
             /\ pend.user = NoFile \/ pend.user.adapted <= a
      BY <1>5, <1>6, <2>2 DEF Well, Ages
    <3> QED BY <1>2, <1>4, <2>2, <3>1 DEF Well, Ages
  <2>4. Contents(h)'
    BY <1>2, <2>2 DEF Well, Contents
  <2>5. (Held \/ Lagging(h, "none"))'
    BY <1>8, <2>2 DEF Well, Lagging
  <2>6. (Untouched(h, "none") => host = h.base)'
    BY <1>2, <2>2 DEF Well, Untouched
  <2>7. Stands(h, "none", c)'
    BY DEF Stands, Drives
  <2>8. h.base.user.adapted \in 0 .. matches'
    BY <1>5, <1>6, <2>2 DEF Well
  <2>9. Well(h, "none", c)'
    BY <2>2, <2>3, <2>4, <2>5, <2>6, <2>7, <2>8 DEF Well
  <2>10. proc'.at = "none"
    BY <1>2 DEF Idle
  <2> QED BY <1>2, <1>7, <1>10, <2>1, <2>9, <2>10, WellAt
<1> QED BY <1>9, <1>10

-----------------------------------------------------------------------------
WellInv == Once /\ \E c : Ids(c) /\ WellFor(c)

LEMMA InitWell == Init => WellInv
<1> SUFFICES ASSUME Init PROVE WellInv
  OBVIOUS
<1>1. jr = <<>> /\ proc = Idle /\ pend = NoPending /\ exports = 1 /\ matches = 0
  BY DEF Init
<1>2. /\ host.user.ids = Identities /\ sep.ids = Identities
      /\ {"ids", "dirty", "adapted"} \subseteq DOMAIN sep
      /\ host.user.adapted = 0 /\ sep.adapted = 0
  BY DEF Init
<1>3. Shapes
  BY <1>1, <1>2, PendingFacts DEF Shapes
<1>4. DOMAIN jr = {}
  BY <1>1
<1>5. Ids(0)
  BY <1>1, <1>2, <1>3, <1>4 DEF Ids, Sole, Agree
<1>6. Levels
  BY <1>1, <1>2, PendingLevels DEF Levels
<1>7. WellFor(0)
  BY <1>2, <1>4, <1>6 DEF WellFor, Held, Kept
<1> QED BY <1>5, <1>7, InitOnce DEF WellInv

LEMMA StepWell ==
    ASSUME Once, NEW c, Ids(c), WellFor(c),
           \/ Intend \/ Delete \/ Save \/ Sync \/ RecoverRename \/ RecoverDelete \/ Resolve
           \/ RecoverSync \/ VerifyRename \/ VerifyDelete \/ ReconcileAtBoot
           \/ Match \/ Crash \/ Reboot
    PROVE  Ids(c)' /\ WellFor(c)'
<1>1. Ids(c)'
  BY IntendIds, DeleteIds, SaveIds, SyncIds, RecoverIds, ResolveIds, RecoverSyncIds, VerifyIds,
     FaultIds
<1>2. WellFor(c)'
  BY IntendWell, DeleteWell, SaveWell, SyncWell, RecoverWell, ResolveWell, RecoverSyncWell,
     VerifyWell, FaultWell
<1> QED BY <1>1, <1>2

LEMMA NextWell == WellInv /\ [Next]_vars => WellInv'
<1> SUFFICES ASSUME WellInv, [Next]_vars PROVE WellInv'
  OBVIOUS
<1>1. Once /\ Once'
  BY NextOnce DEF WellInv
<1>2. PICK c : Ids(c) /\ WellFor(c)
  BY DEF WellInv
<1>3. SUFFICES \E d : Ids(d)' /\ WellFor(d)'
  BY <1>1 DEF WellInv
<1>4. CASE BeginRename \/ BeginDelete \/ BeginCatacombSync
  <2>1. PICK kind \in {"rename", "delete", "sync"} : Begin(kind)
    BY <1>4 DEF BeginRename, BeginDelete, BeginCatacombSync
  <2>2. PICK d : d = Len(jr) + 1
    OBVIOUS
  <2>3. Ids(d)' /\ WellFor(d)'
    BY <1>1, <1>2, <2>1, <2>2, BeginIds, BeginWell
  <2> QED BY <2>3
<1>5. CASE UNCHANGED vars
  <2>1. /\ jr' = jr /\ proc' = proc /\ exports' = exports
        /\ UNCHANGED <<sep, host, pend, matches>>
    BY <1>5 DEF vars
  <2>2. Ids(c)'
    BY <1>2, <2>1 DEF Ids, Shapes, Sole, Blocks, Complete, Fine, Tracked, DeleteFine, OtherFine,
                      SavingFine, Sides, Agree, Survivors
  <2>3. Kept => Kept'
    BY <2>1, KeptOn
  <2>4. CASE c \in DOMAIN jr
    <3>1. PICK h, at : h = jr[c] /\ at = proc.at
      OBVIOUS
    <3>2. Well(h, at, c) /\ Levels
      BY <1>2, <2>4, <3>1 DEF WellFor
    <3>3. Well(h, at, c)' /\ Levels'
      BY <2>1, <2>3, <3>2, SameWell
    <3>4. WellFor(c)'
      BY <2>1, <2>4, <3>1, <3>3, WellAt
    <3> QED BY <2>2, <3>4
  <2>5. CASE c \notin DOMAIN jr
    <3>1. WellFor(c)'
      BY <1>2, <2>1, <2>3, <2>5 DEF WellFor, Held, Levels
    <3> QED BY <2>2, <3>1
  <2> QED BY <2>4, <2>5
<1>6. CASE \/ Intend \/ Delete \/ Save \/ Sync \/ RecoverRename \/ RecoverDelete \/ Resolve
           \/ RecoverSync \/ VerifyRename \/ VerifyDelete \/ ReconcileAtBoot
           \/ Match \/ Crash \/ Reboot
  <2>1. Ids(c)' /\ WellFor(c)'
    BY <1>1, <1>2, <1>6, StepWell
  <2> QED BY <2>1
<1> QED BY <1>4, <1>5, <1>6 DEF Next

\* run_user_catacomb_sync confirms the user component to the SEP before the
\* host commits it: for every number of mutations, matches, stops and reboots,
\* an update that the SEP believes saved and the host never had is behind a
\* journal that blocks.
THEOREM IdentityUpdateKept == Spec => []UpdateKept
<1>1. WellInv => UpdateKept
  <2> SUFFICES ASSUME WellInv, "user" \notin sep.dirty, ~Kept PROVE Blocking # {}
    BY DEF UpdateKept
  <2>1. PICK c : WellFor(c)
    BY DEF WellInv
  <2>2. ~Held
    BY DEF Held
  <2> QED BY <2>1, <2>2, ClearHeld
<1> QED BY <1>1, InitWell, NextWell, PTL DEF Spec

-----------------------------------------------------------------------------
(* What a step may never do. *)

\* A record that closes a mutation has its true outcome.
Truth(g, o) ==
    /\ g.phase = "ABORTED" => host = g.base /\ sep.ids = g.base.user.ids
    /\ g.phase = "RECONCILED" =>
          /\ sep.dirty = {} /\ sep.ids = host.user.ids
          /\ Kept
          /\ host.user.label = IF g.kind = "rename" THEN o ELSE g.base.user.label
          /\ host.user.ids = Target(g)
Truly(H, o) == \A g \in H : Truth(g, o)

\* Records that close nothing, that abort, and that reconcile.
LEMMA OpenTruly ==
    ASSUME NEW h, NEW H, NEW phase, Alike(h, H, phase), phase \notin {"ABORTED", "RECONCILED"}, NEW o
    PROVE  Truly(H, o)
BY DEF Truly, Truth, Alike

LEMMA AbortsTruly ==
    ASSUME NEW h, NEW H, Alike(h, H, "ABORTED"), host = h.base, sep.ids = h.base.user.ids, NEW o
    PROVE  Truly(H, o)
BY DEF Truly, Truth, Alike

LEMMA ReconcilesTruly ==
    ASSUME NEW c, NEW h, NEW at, Well(h, at, c), NEW g, g.kind = h.kind, g.base = h.base,
           g.target = h.target, g.phase = "RECONCILED", Settled(h, c), Held
    PROVE  Truth(g, c)
<1>1. Target(g) = Target(h)
  BY DEF Target, Survivors
<1>2. Kept
  BY DEF Held, Settled
<1> QED BY <1>1, <1>2 DEF Truth, Settled, Well, Contents, Agree

LEMMA AlikeTruly ==
    ASSUME NEW c, NEW h, NEW at, Well(h, at, c), NEW H, Alike(h, H, "RECONCILED"), Passes(h, H),
           h.phase # "BASELINE", Settled(h, c), Held
    PROVE  Truly(H, c)
<1> SUFFICES ASSUME NEW g \in H PROVE Truth(g, c)
  BY DEF Truly
<1>1. /\ g.kind = h.kind /\ g.base = h.base /\ g.target = h.target /\ g.phase = "RECONCILED"
  BY DEF Alike, Passes
<1> QED BY <1>1, ReconcilesTruly

LEMMA SavedTruly ==
    ASSUME NEW h, Whole(h), NEW T, NEW file, NEW o PROVE Truly(Saved(h, T, file), o)
<1> SUFFICES ASSUME NEW g \in Saved(h, T, file) PROVE Truth(g, o)
  BY DEF Truly
<1>1. PICK t : g.phase = SavePhase(t)
  BY SavedWhole
<1>2. SavePhase(t) \in {"PERSISTENCE_READY", "OUTCOME_UNKNOWN", "PERSISTING"}
  BY DEF SavePhase
<1> QED BY <1>1, <1>2 DEF Truth

\* A step that writes no record, or one of these.
Truthful(c) == jr' = jr \/ \E g : Truth(g, c) /\ jr' = [jr EXCEPT ![c] = g]

LEMMA JournalTruthful ==
    ASSUME Once, NEW c, Ids(c), WellFor(c), Busy, NEW H, Journal(H), Truly(H, c)
    PROVE  Truthful(c)
<1>1. proc.op = c
  BY BusyWell
<1> QED BY <1>1 DEF Journal, Truly, Truthful

\* Before the first record that a save or the SEP has changed anything with.
LEMMA UntouchedTruly ==
    ASSUME NEW c, NEW h, NEW at, Well(h, at, c), Untouched(h, at), OtherFine,
           NEW H, Alike(h, H, "ABORTED")
    PROVE  Truly(H, c)
<1>1. host = h.base /\ sep.ids = h.base.user.ids
  BY DEF Well, OtherFine, Agree
<1> QED BY <1>1, AbortsTruly

LEMMA RunTruthful ==
    ASSUME Once, NEW c, Ids(c), WellFor(c), Intend \/ Delete PROVE Truthful(c)
<1>1. Busy
  BY DEF Busy, Intend, IntendRename, IntendDeletion, IntendSync, Delete, IntendDelete,
         DispatchDelete, ObserveDelete, AdoptAbsence, ConcludeNotPerformed, FreezeDelete, At
<1>2. PICK h : h = hist
  OBVIOUS
<1>3. Whole(h) /\ Well(h, proc.at, c)
  BY <1>1, <1>2, BusyWhole
<1>4. CASE DispatchDelete
  BY <1>4 DEF DispatchDelete, Truthful
<1>5. CASE ConcludeNotPerformed
  <2>1. /\ h.kind = "delete" /\ h.phase = "COMMAND_OBSERVED" /\ sep.ids = h.base.user.ids
        /\ Journal(NotPerformed(h))
    BY <1>2, <1>5 DEF ConcludeNotPerformed, At, RecordAndExit
  <2>2. host = h.base
    BY <1>3, <2>1 DEF Well, Untouched, Early
  <2>3. Truly(NotPerformed(h), c)
    BY <1>3, <2>1, <2>2, DeleteAlike, AbortsTruly
  <2> QED BY <1>1, <2>1, <2>3, JournalTruthful
<1>6. CASE Intend \/ IntendDelete \/ ObserveDelete \/ AdoptAbsence \/ FreezeDelete
  <2>1. PICK id, reply :
            \/ Journal(RenameIntent(h)) \/ Journal(DeleteIntent(h, id)) \/ Journal(SyncIntent(h))
            \/ Journal(DispatchIntent(h)) \/ Journal(CommandObserved(h, reply))
            \/ Journal(SepAbsenceObserved(h)) \/ Journal(DeleteOutcomeUnknown(h))
    BY <1>2, <1>6 DEF Intend, IntendRename, IntendDeletion, IntendSync, IntendDelete,
                      ObserveDelete, AdoptAbsence, FreezeDelete, Record, RecordAndExit
  <2>2. /\ Alike(h, RenameIntent(h), "INTENT") /\ Alike(h, SyncIntent(h), "INTENT")
        /\ Alike(h, DeleteIntent(h, id), "INTENT")
        /\ Alike(h, DispatchIntent(h), "DISPATCH_INTENT")
        /\ Alike(h, CommandObserved(h, reply), "COMMAND_OBSERVED")
        /\ Alike(h, SepAbsenceObserved(h), "SEP_DELETED")
        /\ Alike(h, DeleteOutcomeUnknown(h), "OUTCOME_UNKNOWN")
    BY <1>3, RenameAlike, DeleteAlike, SyncAlike
  <2> QED BY <1>1, <2>1, <2>2, OpenTruly, JournalTruthful
<1> QED BY <1>4, <1>5, <1>6 DEF Delete

LEMMA SaveTruthful == ASSUME Once, NEW c, Ids(c), WellFor(c), Save PROVE Truthful(c)
<1>1. Busy
  <2>1. CASE ReconcileRename \/ ReconcileDelete
    BY <2>1 DEF Busy, ReconcileRename, ReconcileDelete, At
  <2>2. CASE ~(ReconcileRename \/ ReconcileDelete)
    <3>1. PICK phase, place : Saving(phase, place)
      BY <2>2 DEF Save, PlanPersistence, BeginStage, AbortRename, FailDeleteStage, FailBeginStage,
                  IntendPrepare, DispatchPrepare, ObservePrepare, IntendComplete,
                  DispatchComplete, CaptureBlob, CreateStaged, StageComponent, RecordStaged,
                  IntendCommit, CrossBoundary, RollForward, RecordCommitted, IntendFinalConfirm,
                  DispatchFinalConfirm, ObserveFinalConfirm, AttestRename, AttestDelete, Attest,
                  FreezeSave
    <3> QED BY <3>1, SavingFacts
  <2> QED BY <2>1, <2>2
<1>2. PICK h : h = hist
  OBVIOUS
<1>3. Whole(h) /\ History(h) /\ Well(h, proc.at, c) /\ Fine(h, proc.at)
  BY <1>1, <1>2, BusyWhole, BusyWell
<1>4. ASSUME NEW T, NEW file, Journal(Saved(hist, T, file)) PROVE Truthful(c)
  BY <1>1, <1>2, <1>3, <1>4, SavedTruly, JournalTruthful
<1>5. CASE SaveRecord
  <2>1. PICK T, file : Journal(Saved(hist, T, file))
    BY <1>5 DEF SaveRecord, PlanPersistence, IntendPrepare, ObservePrepare, IntendComplete,
                CaptureBlob, RecordStaged, IntendCommit, RecordCommitted, IntendFinalConfirm,
                ObserveFinalConfirm, SaveStep, Record
  <2> QED BY <1>4, <2>1
<1>6. CASE AttestRename \/ AttestDelete \/ FreezeSave
  <2>1. PICK T, file : Journal(Saved(hist, T, file))
    <3>1. CASE AttestRename \/ AttestDelete
      BY <3>1 DEF AttestRename, AttestDelete, Attest, SaveStep, Record
    <3>2. CASE FreezeSave
      BY <3>2 DEF FreezeSave, RecordAndExit
    <3> QED BY <1>6, <3>1, <3>2
  <2> QED BY <1>4, <2>1
<1>7. CASE \/ BeginStage \/ DispatchPrepare \/ DispatchComplete \/ CreateStaged \/ StageComponent
           \/ CrossBoundary \/ RollForward \/ DispatchFinalConfirm
  BY <1>7 DEF BeginStage, DispatchPrepare, DispatchComplete, CreateStaged, StageComponent,
              CrossBoundary, RollForward, DispatchFinalConfirm, Dispatch, OnFiles, Truthful
<1>8. CASE AbortRename
  <2>1. /\ Journal(RenameAborted(h)) /\ h.kind = "rename"
        /\ h.persistence.phase = "COMPONENT_READY"
    BY <1>2, <1>8 DEF AbortRename, FailBeginStage, Saving, saved
  <2>2. Untouched(h, proc.at) /\ OtherFine
    BY <1>3, <2>1 DEF Untouched, Fine
  <2>3. Truly(RenameAborted(h), c)
    BY <1>3, <2>2, RenameAlike, UntouchedTruly
  <2> QED BY <1>1, <2>1, <2>3, JournalTruthful
<1>9. CASE FailDeleteStage
  <2>1. Journal(DeleteOutcomeUnknown(h))
    BY <1>2, <1>9 DEF FailDeleteStage, FailBeginStage
  <2>2. Truly(DeleteOutcomeUnknown(h), c)
    BY <1>3, DeleteAlike, OpenTruly
  <2> QED BY <1>1, <2>1, <2>2, JournalTruthful
<1>10. CASE ReconcileRename \/ ReconcileDelete
  <2>1. /\ h.kind \in {"rename", "delete"} /\ h.phase = "PERSISTENCE_READY" /\ proc.at = "run"
        /\ Journal(RenameReconciled(h)) \/ Journal(DeleteReconciled(h))
    BY <1>2, <1>10 DEF ReconcileRename, ReconcileDelete, At, RecordAndExit
  <2>2. Settled(h, c) /\ Held
    BY <1>3, <2>1 DEF Well, Stands, Drives, Lagging
  <2>3. Truly(RenameReconciled(h), c)
    BY <1>3, <2>1, <2>2, RenameAlike, RenamePasses, AlikeTruly
  <2>4. Truly(DeleteReconciled(h), c)
    BY <1>3, <2>1, <2>2, DeleteAlike, DeletePasses, AlikeTruly
  <2> QED BY <1>1, <2>1, <2>3, <2>4, JournalTruthful
<1> QED BY <1>5, <1>6, <1>7, <1>8, <1>9, <1>10 DEF Save, SaveRecord

\* What a sync that has committed leaves is settled once the SEP is clean.
LEMMA SyncSettled ==
    ASSUME NEW c, NEW h, NEW at, Well(h, at, c), h.kind = "sync", sep.dirty = {}, Summarized
    PROVE  Settled(h, c)
BY DEF Well, Contents, Settled, Summarized, Agree, Target

LEMMA SyncTruthful == ASSUME Once, NEW c, Ids(c), WellFor(c), Sync PROVE Truthful(c)
<1>1. PICK phase, at : At("sync", phase, at)
  BY DEF Sync, BeginSync, FailBeginSync, ExportSync, StageSync, ConfirmSyncUser,
         NextSyncComponent, CrossSync, PromoteSync, RecordSyncCommitted, ConfirmSyncMaster,
         ReconcileSync, FreezeSync
<1>2. PICK h : h = hist
  OBVIOUS
<1>3. Busy /\ Whole(h) /\ History(h) /\ Well(h, proc.at, c) /\ h.kind = "sync" /\ OtherFine
  BY <1>1, <1>2, SyncWellFacts DEF Whole
<1>4. CASE \/ BeginSync \/ ExportSync \/ StageSync \/ ConfirmSyncUser \/ NextSyncComponent
           \/ CrossSync \/ PromoteSync \/ ConfirmSyncMaster
  BY <1>4 DEF BeginSync, ExportSync, StageSync, ConfirmSyncUser, NextSyncComponent, CrossSync,
              PromoteSync, ConfirmSyncMaster, Dispatch, OnFiles, Truthful
<1>5. CASE FailBeginSync
  <2>1. CASE h.attempted
    <3>1. Journal(SyncOutcomeUnknown(h))
      BY <1>2, <1>5, <2>1 DEF FailBeginSync
    <3> QED BY <1>3, <3>1, SyncAlike, OpenTruly, JournalTruthful
  <2>2. CASE ~h.attempted
    <3>1. Journal(SyncAborted(h)) /\ h.phase = "INTENT" /\ proc.at = "begin"
      BY <1>2, <1>5, <2>2 DEF FailBeginSync, At
    <3>2. Untouched(h, proc.at)
      BY <1>3, <2>2, <3>1 DEF Untouched
    <3>3. Truly(SyncAborted(h), c)
      BY <1>3, <3>2, SyncAlike, UntouchedTruly
    <3> QED BY <1>3, <3>1, <3>3, JournalTruthful
  <2> QED BY <2>1, <2>2
<1>6. CASE RecordSyncCommitted
  <2>1. Journal(SyncHostCommitted(h, host))
    BY <1>2, <1>6 DEF RecordSyncCommitted, Record
  <2>2. \A g \in SyncHostCommitted(h, host) : g.phase = "HOST_COMMITTED"
    BY <1>3 DEF SyncHostCommitted, Only, Whole, History
  <2>3. Truly(SyncHostCommitted(h, host), c)
    BY <2>2 DEF Truly, Truth
  <2> QED BY <1>3, <2>1, <2>3, JournalTruthful
<1>7. CASE ReconcileSync
  <2>1. /\ Journal(SyncReconciled(h, host)) /\ h.phase = "HOST_COMMITTED"
        /\ sep.dirty = {} /\ Summarized
    BY <1>2, <1>7 DEF ReconcileSync, At, RecordAndExit
  <2>2. Settled(h, c) /\ Held
    BY <1>3, <2>1, SyncSettled DEF Well, Lagging
  <2>3. Alike(h, SyncReconciled(h, host), "RECONCILED") /\ Passes(h, SyncReconciled(h, host))
    BY <1>3, SyncAlike, SyncPasses
  <2>4. Truly(SyncReconciled(h, host), c)
    BY <1>3, <2>1, <2>2, <2>3, AlikeTruly
  <2> QED BY <1>3, <2>1, <2>4, JournalTruthful
<1>8. CASE FreezeSync
  <2>1. Journal(SyncOutcomeUnknown(h))
    BY <1>2, <1>8 DEF FreezeSync, RecordAndExit
  <2> QED BY <1>3, <2>1, SyncAlike, OpenTruly, JournalTruthful
<1> QED BY <1>4, <1>5, <1>6, <1>7, <1>8 DEF Sync

LEMMA ResolveTruthful == ASSUME Once, NEW c, Ids(c), WellFor(c), Resolve PROVE Truthful(c)
<1>1. CASE DiscardLocal \/ RollLocalForward \/ NothingLocal \/ RefuseRecovery
  BY <1>1 DEF DiscardLocal, RollLocalForward, NothingLocal, RefuseRecovery, OnFiles, Truthful
<1>2. CASE ConcludeRename \/ ConcludeDelete \/ SaveForward
  <2>1. Busy /\ hist.kind # "sync" /\ hist.phase = "OUTCOME_UNKNOWN"
    BY <1>2 DEF ConcludeRename, ConcludeDelete, SaveForward, Inspecting, At, Busy
  <2>2. PICK h : h = hist
    OBVIOUS
  <2>3. Whole(h) /\ History(h) /\ Well(h, proc.at, c) /\ proc.op = c
    BY <2>1, <2>2, BusyWhole, BusyWell
  <2>4. Held
    BY <2>1, <2>2, <2>3 DEF Well, Lagging
  <2>5. CASE SaveForward
    <3>1. PICK archive : Journal(RecoveryAbsenceObserved(h, archive))
      BY <2>2, <2>5 DEF SaveForward, Record
    <3>2. \A g \in RecoveryAbsenceObserved(h, archive) : g.phase = "SEP_DELETED"
      BY <2>3 DEF RecoveryAbsenceObserved, Only, Whole, History
    <3>3. Truly(RecoveryAbsenceObserved(h, archive), c)
      BY <3>2 DEF Truly, Truth
    <3> QED BY <2>1, <3>1, <3>3, JournalTruthful
  <2>6. CASE /\ Unchanged(h)
             /\ Journal(RenameRecovered(h, FALSE)) \/ Journal(DeleteRecovered(h, FALSE))
    <3>1. host = h.base /\ sep.ids = h.base.user.ids
      BY <2>6 DEF Unchanged
    <3>2. Truly(RenameRecovered(h, FALSE), c) /\ Truly(DeleteRecovered(h, FALSE), c)
      BY <2>3, <3>1, RenameAlike, DeleteAlike, AbortsTruly
    <3> QED BY <2>1, <2>6, <3>2, JournalTruthful
  <2>7. CASE /\ Persisted(h) /\ sep.dirty = {}
             /\ \/ h.kind = "rename" /\ host.user.label = c /\ Journal(RenameRecovered(h, TRUE))
                \/ h.kind = "delete" /\ Journal(DeleteRecovered(h, TRUE))
    <3>1. Settled(h, c)
      BY <2>7 DEF Persisted, Summarized, Settled, Agree
    <3>2. Alike(h, RenameRecovered(h, TRUE), "RECONCILED") /\ Passes(h, RenameRecovered(h, TRUE))
      BY <2>3, RenameAlike, RenamePasses
    <3>3. Alike(h, DeleteRecovered(h, TRUE), "RECONCILED") /\ Passes(h, DeleteRecovered(h, TRUE))
      BY <2>3, DeleteAlike, DeletePasses
    <3>4. Truly(RenameRecovered(h, TRUE), c) /\ Truly(DeleteRecovered(h, TRUE), c)
      BY <2>1, <2>2, <2>3, <2>4, <3>1, <3>2, <3>3, AlikeTruly
    <3> QED BY <2>1, <2>7, <3>4, JournalTruthful
  <2>8. CASE ConcludeRename \/ ConcludeDelete
    BY <2>2, <2>3, <2>6, <2>7, <2>8 DEF ConcludeRename, ConcludeDelete, Inspecting, At,
                                        RecordAndExit
  <2> QED BY <1>2, <2>5, <2>8
<1> QED BY <1>1, <1>2 DEF Resolve

LEMMA RecoverTruthful ==
    ASSUME Once, NEW c, Ids(c), WellFor(c), RecoverRename \/ RecoverDelete \/ RecoverSync
    PROVE  Truthful(c)
<1>1. CASE RecoverRename \/ RecoverDelete
  <2>1. PICK o \in DOMAIN jr, kind \in {"rename", "delete"} :
            \E I, action :
                /\ RecoverLocal(kind, o, I)
                /\ \/ I = RenameRecoveryIntent(jr[o], action)
                   \/ I = DeleteRecoveryIntent(jr[o], action, boot)
    BY <1>1 DEF RecoverRename, RecoverDelete
  <2>2. proc = Idle /\ jr[o].kind = kind /\ Interrupted(kind) = {o}
    BY <2>1 DEF RecoverLocal
  <2>3. o = c /\ Whole(jr[c])
    BY <2>2, InterruptedSole
  <2>4. PICK I, action :
            /\ RecoverLocal(kind, c, I)
            /\ \/ I = RenameRecoveryIntent(jr[c], action)
               \/ I = DeleteRecoveryIntent(jr[c], action, boot)
    BY <2>1, <2>3
  <2>5. Truly(I, c)
    <3>1. Alike(jr[c], RenameRecoveryIntent(jr[c], action), "OUTCOME_UNKNOWN")
      BY <2>3, RenameAlike
    <3>2. Alike(jr[c], DeleteRecoveryIntent(jr[c], action, boot), "OUTCOME_UNKNOWN")
      BY <2>3, DeleteAlike
    <3> QED BY <2>4, <3>1, <3>2, OpenTruly
  <2>6. jr' = jr \/ \E g \in I : jr' = [jr EXCEPT ![c] = g]
    BY <2>4 DEF RecoverLocal
  <2>7. ASSUME NEW g \in I, jr' = [jr EXCEPT ![c] = g] PROVE Truthful(c)
    BY <2>5, <2>7 DEF Truthful, Truly
  <2> QED BY <2>6, <2>7 DEF Truthful
<1>2. CASE RecoverSync
  <2>1. PICK o \in DOMAIN jr :
            /\ proc = Idle /\ jr[o].kind = "sync" /\ Interrupted("sync") = {o} /\ Summarized
            /\ \/ /\ sep.dirty = {}
                  /\ \E g \in SyncRecoveredClean(jr[o], host) : jr' = [jr EXCEPT ![o] = g]
               \/ \E g \in SyncRecoveryIntent(jr[o], host) : jr' = [jr EXCEPT ![o] = g]
    BY <1>2 DEF RecoverSync
  <2>2. o = c /\ Whole(jr[c]) /\ Well(jr[c], "none", c)
    BY <2>1, InterruptedSole
  <2>3. PICK h : h = jr[c]
    OBVIOUS
  <2>4. CASE sep.dirty = {} /\ \E g \in SyncRecoveredClean(jr[o], host) : jr' = [jr EXCEPT ![o] = g]
    <3>1. PICK g \in SyncRecoveredClean(h, host) : jr' = [jr EXCEPT ![c] = g]
      BY <2>2, <2>3, <2>4
    <3>2. /\ g = [h EXCEPT !.phase = "RECONCILED", !.attempted = TRUE]
          /\ h.commit = <<host>> /\ h.commit # <<>>
      BY <3>1 DEF SyncRecoveredClean, SyncRecoverable, Only
    <3>3. /\ g.kind = h.kind /\ g.base = h.base /\ g.target = h.target /\ g.phase = "RECONCILED"
      BY <2>2, <2>3, <3>2 DEF Whole, History
    <3>4. Settled(h, c)
      BY <2>1, <2>2, <2>3, <2>4, SyncSettled
    <3>5. Held
      BY <2>2, <2>3, <3>2 DEF Well, Lagging
    <3>6. Truth(g, c)
      BY <2>2, <2>3, <3>3, <3>4, <3>5, ReconcilesTruly
    <3> QED BY <3>1, <3>6 DEF Truthful
  <2>5. CASE \E g \in SyncRecoveryIntent(jr[o], host) : jr' = [jr EXCEPT ![o] = g]
    <3>1. PICK g \in SyncRecoveryIntent(h, host) : jr' = [jr EXCEPT ![c] = g]
      BY <2>2, <2>3, <2>5
    <3>2. g.phase = "INTENT"
      BY <2>2, <2>3, <3>1 DEF SyncRecoveryIntent, Only, Whole, History
    <3> QED BY <3>1, <3>2 DEF Truthful, Truth
  <2> QED BY <2>1, <2>4, <2>5
<1> QED BY <1>1, <1>2

LEMMA VerifyTruthful ==
    ASSUME Once, NEW c, Ids(c), WellFor(c), VerifyRename \/ VerifyDelete \/ ReconcileAtBoot
    PROVE  Truthful(c)
<1>1. PICK o \in DOMAIN jr :
          /\ jr[o].phase = "RECONCILED"
          /\ \/ jr[o].kind = "rename" /\ ProvePostReboot(o, RenameVerified(jr[o], boot))
             \/ jr[o].kind = "delete" /\ ProvePostReboot(o, DeleteVerified(jr[o], boot))
  BY DEF VerifyRename, VerifyDelete, ReconcileAtBoot, Candidates, AwaitingReboot
<1>2. Blocks(jr[o])
  BY <1>1 DEF Blocks, Complete
<1>3. o = c
  BY <1>2, BlocksSole
<1>4. Whole(jr[c])
  BY <1>1, <1>3 DEF WellFor, Whole, Well, Once, Lists
<1>5. Truly(RenameVerified(jr[c], boot), c) /\ Truly(DeleteVerified(jr[c], boot), c)
  <2>1. Alike(jr[c], RenameVerified(jr[c], boot), "POST_REBOOT_VERIFIED")
    BY <1>4, RenameAlike
  <2>2. Alike(jr[c], DeleteVerified(jr[c], boot), "POST_REBOOT_VERIFIED")
    BY <1>4, DeleteAlike
  <2> QED BY <2>1, <2>2, OpenTruly
<1>6. PICK g : /\ jr' = [jr EXCEPT ![c] = g]
               /\ g \in RenameVerified(jr[c], boot) \/ g \in DeleteVerified(jr[c], boot)
  BY <1>1, <1>3 DEF ProvePostReboot
<1> QED BY <1>5, <1>6 DEF Truly, Truthful

\* A journal whose phase a step changes is closed truthfully.
LEMMA ClosesTruthfully ==
    ASSUME WellInv, Next, NEW o \in DOMAIN jr, jr'[o].phase # jr[o].phase
    PROVE  Truth(jr'[o], o)
<1>1. Once
  BY DEF WellInv
<1>2. PICK c : Ids(c) /\ WellFor(c)
  BY DEF WellInv
<1>3. PICK S : jr \in Seq(S)
  BY <1>1 DEF Once, Lists
<1>4. ASSUME Truthful(c) PROVE Truth(jr'[o], o)
  <2>1. PICK g : Truth(g, c) /\ jr' = [jr EXCEPT ![c] = g]
    BY <1>4 DEF Truthful
  <2>2. o = c /\ jr'[o] = g
    BY <1>3, <2>1
  <2> QED BY <2>1, <2>2
<1>5. CASE BeginRename \/ BeginDelete \/ BeginCatacombSync
  <2>1. PICK kind : jr' = Append(jr, Opened(kind, boot, host, Hash))
    BY <1>5 DEF BeginRename, BeginDelete, BeginCatacombSync, Begin
  <2>2. PICK h : h = Opened(kind, boot, host, Hash)
    OBVIOUS
  <2>3. PICK R : R = S \cup {h}
    OBVIOUS
  <2>4. jr \in Seq(R) /\ h \in R
    BY <1>3, <2>3, Wider
  <2>5. jr'[o] = jr[o]
    BY <2>1, <2>2, <2>4
  <2> QED BY <2>5
<1>6. CASE Intend \/ Delete \/ Save \/ Sync \/ Resolve
  BY <1>1, <1>2, <1>4, <1>6, RunTruthful, SaveTruthful, SyncTruthful, ResolveTruthful
<1>7. CASE \/ RecoverRename \/ RecoverDelete \/ RecoverSync
           \/ VerifyRename \/ VerifyDelete \/ ReconcileAtBoot
  BY <1>1, <1>2, <1>4, <1>7, RecoverTruthful, VerifyTruthful
<1>8. CASE Match \/ Crash \/ Reboot
  BY <1>8 DEF Match, Crash, Reboot
<1> QED BY <1>5, <1>6, <1>7, <1>8 DEF Next

\* run_rename, run_delete, run_user_catacomb_sync and their recoveries: a
\* mutation is closed as aborted only with the files and the identities of its
\* baseline, and as reconciled only with its effect in the files, the SEP
\* agreeing and none of its updates missing, for every number of mutations,
\* matches, stops, lost replies and reboots.
THEOREM IdentityClosedTruthfully == Spec => ClosedTruthfully
<1>1. ASSUME WellInv, Next, NEW o \in DOMAIN jr, NEW h, h = jr'[o], h.phase # jr[o].phase
      PROVE  Truth(h, o)
  BY <1>1, ClosesTruthfully
<1>2. WellInv /\ [Next]_vars =>
      [\A o \in DOMAIN jr :
          LET h == jr'[o]
          IN  /\ h.phase = "ABORTED" /\ jr[o].phase # "ABORTED" =>
                    host = h.base /\ sep.ids = h.base.user.ids
              /\ h.phase = "RECONCILED" /\ jr[o].phase # "RECONCILED" =>
                    /\ sep.dirty = {} /\ sep.ids = host.user.ids
                    /\ Kept
                    /\ host.user.label = IF h.kind = "rename" THEN o ELSE h.base.user.label
                    /\ host.user.ids = Target(h)]_vars
  <2> SUFFICES ASSUME WellInv, Next, NEW o \in DOMAIN jr, NEW h, h = jr'[o],
                      h.phase # jr[o].phase
               PROVE  Truth(h, o)
    BY DEF Truth
  <2> QED BY <1>1
<1> QED BY <1>2, InitWell, NextWell, PTL DEF Spec, ClosedTruthfully

\* Which steps touch the files: a promotion, the removal of prepare/ by a
\* recovery, and those that leave the root and what is prepared.
LEMMA FilesStay ==
    ASSUME Shapes, [Next]_vars, ~RollForward, ~PromoteSync, ~RollLocalForward, ~DiscardLocal
    PROVE  host' = host /\ (pend.dir = "prepare" => pend'.dir # "none")
<1>1. Prepare.dir = "prepare"
  BY PendingLevels
<1>2. CASE UNCHANGED store
  BY <1>2 DEF store
<1>3. CASE Intend \/ Delete
  BY <1>3 DEF Intend, IntendRename, IntendDeletion, IntendSync, Delete, IntendDelete,
              DispatchDelete, ObserveDelete, AdoptAbsence, ConcludeNotPerformed, FreezeDelete,
              Record, RecordAndExit, store
<1>4. CASE Save
  <2>1. CASE BeginStage \/ AbortRename \/ FailDeleteStage
    BY <1>1, <2>1 DEF BeginStage, AbortRename, FailDeleteStage, FailBeginStage
  <2>2. CASE CreateStaged \/ CrossBoundary
    BY <2>2 DEF CreateStaged, CrossBoundary, Shapes
  <2>3. CASE StageComponent
    <3>1. PICK e : e = Encoded
      OBVIOUS
    <3> QED BY <2>3, <3>1 DEF StageComponent, Shapes
  <2>4. CASE SaveRecord \/ AttestRename \/ AttestDelete \/ ReconcileRename \/ ReconcileDelete
    BY <2>4 DEF SaveRecord, PlanPersistence, IntendPrepare, ObservePrepare, IntendComplete,
                CaptureBlob, RecordStaged, IntendCommit, RecordCommitted, IntendFinalConfirm,
                ObserveFinalConfirm, AttestRename, AttestDelete, Attest, ReconcileRename,
                ReconcileDelete, SaveStep, Record, RecordAndExit, store
  <2>5. CASE FreezeSave
    BY <2>5 DEF FreezeSave, RecordAndExit, store
  <2>6. CASE DispatchPrepare \/ DispatchComplete \/ DispatchFinalConfirm
    BY <2>6 DEF DispatchPrepare, DispatchComplete, DispatchFinalConfirm, Dispatch, store
  <2> QED BY <1>4, <2>1, <2>2, <2>3, <2>4, <2>5, <2>6 DEF Save, SaveRecord
<1>5. CASE Sync
  <2>1. CASE BeginSync \/ FailBeginSync
    BY <1>1, <2>1 DEF BeginSync, FailBeginSync
  <2>2. CASE ExportSync \/ CrossSync
    BY <2>2 DEF ExportSync, CrossSync, Shapes
  <2>3. CASE StageSync
    <3>1. PICK e, n : e = Encoded /\ n = exports + 1
      OBVIOUS
    <3> QED BY <2>3, <3>1 DEF StageSync, Shapes
  <2>4. CASE ConfirmSyncUser \/ ConfirmSyncMaster \/ NextSyncComponent
    BY <2>4 DEF ConfirmSyncUser, ConfirmSyncMaster, NextSyncComponent, Dispatch, store
  <2>5. CASE RecordSyncCommitted \/ ReconcileSync \/ FreezeSync
    BY <2>5 DEF RecordSyncCommitted, ReconcileSync, FreezeSync, Record, RecordAndExit, store
  <2> QED BY <1>5, <2>1, <2>2, <2>3, <2>4, <2>5 DEF Sync
<1>6. CASE Resolve
  BY <1>6 DEF Resolve, NothingLocal, ConcludeRename, ConcludeDelete, SaveForward, RefuseRecovery,
              Record, RecordAndExit, store
<1>7. CASE \/ BeginRename \/ BeginDelete \/ BeginCatacombSync
           \/ RecoverRename \/ RecoverDelete \/ RecoverSync
           \/ VerifyRename \/ VerifyDelete \/ ReconcileAtBoot \/ Match \/ Crash \/ Reboot
           \/ UNCHANGED vars
  BY <1>7 DEF BeginRename, BeginDelete, BeginCatacombSync, Begin, RecoverRename, RecoverDelete,
              RecoverLocal, RecoverSync, VerifyRename, VerifyDelete, ReconcileAtBoot,
              ProvePostReboot, Match, Crash, Reboot, store, vars
<1> QED BY <1>3, <1>4, <1>5, <1>6, <1>7 DEF Next

\* run_recovery, run_delete_recovery and the saves: files are promoted, and
\* prepare/ is removed, only in a direction that a journal, one that still
\* blocks, has named before.
THEOREM IdentityRecoveryFollowsJournal == Spec => RecoveryFollowsJournal
<1>1. ASSUME WellInv, [Next]_vars
      PROVE  /\ pend.dir = "prepare" /\ pend'.dir = "none" =>
                   \E o \in Blocking : jr[o].action = "prepare-discarded"
             /\ host' # host =>
                   \E o \in Blocking :
                       \/ jr[o].kind = "sync" /\ jr[o].phase = "INTENT"
                       \/ /\ jr[o].persistence.phase = "BATCH_COMMIT_INTENT"
                          /\ jr[o].file = host'.user
  <2>1. Once
    BY <1>1 DEF WellInv
  <2>2. PICK c : Ids(c) /\ WellFor(c)
    BY <1>1 DEF WellInv
  <2>3. Shapes
    BY <2>2 DEF Ids
  <2>4. PICK h : h = jr[c]
    OBVIOUS
  <2>5. ASSUME c \in DOMAIN jr, Blocks(h) PROVE c \in Blocking
    BY <2>4, <2>5 DEF Blocking
  <2>6. CASE RollForward
    <3>1. /\ Saving("BATCH_COMMIT_INTENT", "promote") /\ Drives("promote")
          /\ host' = Promoted
      BY <2>6 DEF RollForward, Drives
    <3>2. /\ Busy /\ proc.at = "promote" /\ Well(hist, "promote", c)
          /\ hist.persistence.phase = "BATCH_COMMIT_INTENT" /\ hist.kind # "sync"
          /\ SavesWell(hist, "promote") /\ hist.phase = "PERSISTING"
      BY <2>1, <2>2, <3>1, SavingWell
    <3>3. c \in DOMAIN jr /\ hist = h
      BY <2>1, <2>2, <2>4, <3>2, BusyWell
    <3>4. hist.kind \in {"rename", "delete"}
      BY <3>1 DEF Saving, SaveStarts
    <3>5. pend.dir = "commit" /\ pend.user # NoFile /\ pend.user = h.file
      BY <3>2, <3>3 DEF Well, Stands, SavesWell, StagedAt
    <3>6. host'.user = h.file
      BY <3>1, <3>5 DEF Promoted
    <3>7. Blocks(h)
      BY <3>2, <3>3, <3>4 DEF Blocks, Complete
    <3> QED BY <2>4, <2>5, <3>2, <3>3, <3>5, <3>6, <3>7
  <2>7. CASE PromoteSync
    <3>1. At("sync", "INTENT", "promote")
      BY <2>7 DEF PromoteSync
    <3>2. /\ Busy /\ Well(hist, "promote", c) /\ hist.kind = "sync" /\ hist.phase = "INTENT"
      BY <2>1, <2>2, <3>1, SyncWellFacts
    <3>3. c \in DOMAIN jr /\ hist = h
      BY <2>1, <2>2, <2>4, <3>2, BusyWell
    <3>4. pend.dir = "commit"
      BY <3>2 DEF Well, Stands
    <3>5. Blocks(h)
      BY <3>2, <3>3 DEF Blocks, Complete
    <3> QED BY <2>4, <2>5, <3>2, <3>3, <3>4, <3>5
  <2>8. CASE RollLocalForward \/ DiscardLocal
    <3>1. /\ Busy /\ proc.at = "local"
          /\ \/ pend.dir = "prepare" /\ host' = host
             \/ pend.dir = "commit" /\ host' = Promoted /\ pend.user = hist.file
      BY <2>8 DEF RollLocalForward, DiscardLocal, Busy
    <3>2. Well(hist, "local", c) /\ c \in DOMAIN jr /\ hist = h
      BY <2>1, <2>2, <2>4, <3>1, BusyWell
    <3>3. /\ Blocks(h) /\ h.kind # "sync"
          /\ pend.dir = "prepare" => h.action = "prepare-discarded"
          /\ pend.dir = "commit" => h.persistence.phase = "BATCH_COMMIT_INTENT"
      BY <3>2 DEF Well, Stands
    <3>4. pend.dir = "commit" => host'.user = h.file
      BY <3>1, <3>2, <3>3 DEF Well, Contents, Promoted
    <3> QED BY <2>4, <2>5, <3>1, <3>2, <3>3, <3>4
  <2> QED BY <1>1, <2>3, <2>6, <2>7, <2>8, FilesStay
<1>2. WellInv /\ [Next]_vars =>
      [/\ pend.dir = "prepare" /\ pend'.dir = "none" =>
             \E o \in Blocking : jr[o].action = "prepare-discarded"
       /\ host' # host =>
             \E o \in Blocking :
                 \/ jr[o].kind = "sync" /\ jr[o].phase = "INTENT"
                 \/ /\ jr[o].persistence.phase = "BATCH_COMMIT_INTENT"
                    /\ jr[o].file = host'.user]_vars
  BY <1>1
<1> QED BY <1>2, InitWell, NextWell, PTL DEF Spec, RecoveryFollowsJournal

=============================================================================
