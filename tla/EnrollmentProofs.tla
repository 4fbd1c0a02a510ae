-------------------------- MODULE EnrollmentProofs --------------------------
(***************************************************************************)
(* Theorems about Enrollment.                                              *)
(*                                                                         *)
(* None of the properties is inductive.  That a second journal is never    *)
(* unfinished needs to know where a running command stands: its baseline   *)
(* does not count as unfinished yet, and a new one may be taken as soon as *)
(* the command is gone.  That a snapshot holds and that a disagreement     *)
(* blocks needs to know who may still change the SEP: a scan is under way  *)
(* only while the one open journal is in a phase that expects it, also     *)
(* when its command was killed, and nothing is known to have ended the     *)
(* scan but a new connection, its last event, or a reboot.  This is Inv.   *)
(*                                                                         *)
(* That the SEP is told of nothing that is not durable, and that files are *)
(* resolved as the journal says, needs the save as well: which components  *)
(* the tracker has staged, which files are there while the command stands  *)
(* at each place, and which identities the SEP can hold by then.  This is  *)
(* SaveInv, which adds to Inv.                                             *)
(*                                                                         *)
(* That no command is sent twice needs to know what a journal has passed:  *)
(* the start and the cancel, the events it has continued, the components   *)
(* before the current one, and of that one the commands up to the last     *)
(* intent, unless the command stands just before sending it.  ReplayInv    *)
(* says that all that was sent is past; every milestone keeps it past, and *)
(* what a step sends is not past yet.                                      *)
(*                                                                         *)
(* StepInv is the argument common to all steps, and StepSaved the same for *)
(* SaveInv: one operation, open or with the running command, gets a new    *)
(* record, and the SEP, the host, its files and the command are left as    *)
(* the record's phase requires.                                            *)
(***************************************************************************)
EXTENDS Enrollment, FiniteSetTheorems, SequenceTheorems, TLAPS

\* The journal is unfinished, or waits for its reboot.
Open(h) == h.phase \in UnfinishedPhases \/ (h.phase = "RECONCILED" /\ h.identity # NoIdentity)

\* The command that runs is of operation o.
Runs(o) == proc.cmd # "none" /\ proc.op = o

\* The phases in which a command may run ...
Working ==
    {"BASELINE", "START_INTENT", "ACTIVE", "CONTINUE_INTENT", "CANCEL_INTENT",
     "CANCEL_REQUESTED", "TERMINAL_WITNESS", "TERMINAL_IDENTITY", "TERMINAL_FAILURE",
     "PERSISTING", "PERSISTENCE_READY", "OUTCOME_UNKNOWN"}

\* ... and those in which the SEP may be scanning.
ScanPhases ==
    {"START_INTENT", "ACTIVE", "CONTINUE_INTENT", "CANCEL_INTENT", "CANCEL_REQUESTED",
     "OUTCOME_UNKNOWN"}

Places ==
    {"none", "run", "send", "ok", "refused", "lost", "local", "staging", "staged", "cross",
     "promote", "crossed"}

Terminal == {"identity", "witness", "failed"}

\* A sequence, whatever its elements are.
Image(s) == {s[i] : i \in DOMAIN s}
Listed(s) == s \in Seq(Image(s))

\* The fields of a history that the argument looks at.
Fields ==
    {"phase", "boot", "host", "ids", "last", "pending", "identity", "failed", "unknown",
     "persistence", "snapshot"}

History(h) ==
    /\ Fields \subseteq DOMAIN h
    /\ h.phase \in EnrollmentPhases
    /\ "phase" \in DOMAIN h.persistence

\* What the argument needs to know of the types.
Types ==
    /\ Listed(jr) /\ \A o \in DOMAIN jr : History(jr[o])
    /\ proc \in [cmd : {"none", "enroll", "observe", "local"}, op : Nat, at : Places]
    /\ {"ids", "scan"} \subseteq DOMAIN sep
    /\ Listed(events)

\* At most one operation is open or has the running command.
Alone ==
    \A o, p \in DOMAIN jr :
        (Open(jr[o]) \/ Runs(o)) /\ (Open(jr[p]) \/ Runs(p)) => o = p

\* Where the running command stands.  Until its start is sent there is no scan
\* and no event; after the attestation the host and the SEP agree.
Command ==
    \/ proc = Idle
    \/ /\ proc.cmd # "none" /\ proc.op \in DOMAIN jr
       /\ hist.phase \in Working
       /\ proc.at = "local" => hist.phase = "OUTCOME_UNKNOWN"
       /\ \/ hist.phase = "BASELINE"
          \/ hist.phase = "START_INTENT" /\ proc.at \in {"send", "refused"}
          => sep.scan = 0 /\ events = <<>>
       /\ hist.phase = "PERSISTENCE_READY" => host.ids = sep.ids

\* A scan belongs to the open operation, and its terminal event is its last.
Scan ==
    /\ sep.scan # 0 => \A o \in DOMAIN jr :
           Open(jr[o]) \/ Runs(o) => jr[o].phase \in ScanPhases
    /\ \A i \in DOMAIN events : events[i].kind \in Terminal => sep.scan = 0

\* A reconciled snapshot holds, and what no journal blocks is settled.
Agreeing ==
    /\ \A o \in PendingPostReboot : jr[o].snapshot = Snapshot /\ host.ids = sep.ids
    /\ (\A o \in DOMAIN jr : ~Blocks(jr[o])) => host.ids = sep.ids /\ sep.scan = 0

Inv == Types /\ Alone /\ Command /\ Scan /\ Agreeing

-----------------------------------------------------------------------------
(* Journals and their records. *)

\* One element of a list is replaced.
LEMMA ListedExcept ==
    ASSUME NEW s, Listed(s), NEW o \in DOMAIN s, NEW h
    PROVE  LET r == [s EXCEPT ![o] = h] IN
           /\ Listed(r) /\ DOMAIN r = DOMAIN s /\ r[o] = h
           /\ \A p \in DOMAIN s : p # o => r[p] = s[p]
<1> DEFINE r == [s EXCEPT ![o] = h]
<1>1. /\ s \in Seq(Image(s)) /\ Len(s) \in Nat /\ DOMAIN s = 1 .. Len(s)
  BY DEF Listed
<1>2. /\ DOMAIN r = DOMAIN s /\ r[o] = h /\ \A p \in DOMAIN s : p # o => r[p] = s[p]
  BY <1>1
<1>3. r \in [1 .. Len(s) -> Image(r)]
  <2>1. \A p \in DOMAIN r : r[p] \in Image(r)
    BY DEF Image
  <2>2. r = [p \in DOMAIN r |-> r[p]]
    BY <1>1
  <2> HIDE DEF r
  <2> QED BY <1>1, <1>2, <2>1, <2>2
<1> HIDE DEF r
<1>4. r \in Seq(Image(r))
  BY <1>1, <1>3, SeqDef
<1> QED BY <1>2, <1>4 DEF Listed, r

\* A list grows by one element.
LEMMA ListedAppend ==
    ASSUME NEW s, Listed(s), NEW h
    PROVE  LET r == Append(s, h) IN
           /\ Listed(r) /\ DOMAIN r = DOMAIN s \cup {Len(s) + 1} /\ r[Len(s) + 1] = h
           /\ Len(s) + 1 \notin DOMAIN s /\ \A p \in DOMAIN s : r[p] = s[p]
<1> DEFINE r == Append(s, h)
           S == Image(s) \cup {h}
<1>1. s \in Seq(Image(s)) /\ Len(s) \in Nat /\ DOMAIN s = 1 .. Len(s)
  BY DEF Listed
<1>2. s \in Seq(S)
  <2>1. Image(s) \subseteq S
    OBVIOUS
  <2> HIDE DEF S
  <2> QED BY <1>1, <2>1, SeqDef
<1> HIDE DEF S
<1>3. h \in S
  BY DEF S
<1>4. /\ r \in Seq(S) /\ Len(r) = Len(s) + 1 /\ r[Len(s) + 1] = h
      /\ \A p \in 1 .. Len(s) : r[p] = s[p]
  BY <1>2, <1>3, AppendProperties
<1> HIDE DEF r
<1>5. DOMAIN r = DOMAIN s \cup {Len(s) + 1} /\ Len(s) + 1 \notin DOMAIN s
  BY <1>1, <1>4
<1>6. r \in [1 .. Len(r) -> Image(r)]
  BY <1>1, <1>4 DEF Image
<1>7. r \in Seq(Image(r))
  BY <1>1, <1>4, <1>6, SeqDef
<1> QED BY <1>1, <1>4, <1>5, <1>7 DEF Listed, r

\* A list loses its first element.
LEMMA ListedTail ==
    ASSUME NEW s, Listed(s), s # <<>>
    PROVE  /\ Listed(Tail(s)) /\ 1 \in DOMAIN s /\ Head(s) = s[1]
           /\ \A i \in DOMAIN Tail(s) : i + 1 \in DOMAIN s /\ Tail(s)[i] = s[i + 1]
<1>1. s \in Seq(Image(s)) /\ Len(s) \in Nat /\ DOMAIN s = 1 .. Len(s) /\ Len(s) # 0
  BY EmptySeq DEF Listed
<1> DEFINE r == Tail(s)
<1>2. /\ r \in Seq(Image(s)) /\ Len(r) = Len(s) - 1 /\ Head(s) = s[1]
      /\ \A i \in 1 .. Len(r) : r[i] = s[i + 1]
  BY <1>1, HeadTailProperties
<1> HIDE DEF r
<1>3. DOMAIN r = 1 .. Len(r) /\ Len(r) \in Nat
  BY <1>1, <1>2
<1>4. r \in [1 .. Len(r) -> Image(r)]
  <2>1. \A i \in DOMAIN r : r[i] \in Image(r)
    BY DEF Image
  <2> QED BY <1>2, <1>3, <2>1
<1>5. r \in Seq(Image(r))
  BY <1>3, <1>4, SeqDef
<1> QED BY <1>1, <1>2, <1>3, <1>5 DEF Listed, r

\* An empty list.
LEMMA ListedEmpty == Listed(<<>>) /\ DOMAIN <<>> = {}
BY DEF Listed, Image

\* At the start there is no journal, no command, and one view of the identities.
LEMMA InitInv == Init => Inv
<1>1. SUFFICES ASSUME Init PROVE Inv
  OBVIOUS
<1>2. jr = <<>> /\ events = <<>> /\ proc = Idle
  BY <1>1 DEF Init
<1>3. DOMAIN jr = {} /\ DOMAIN events = {} /\ Listed(jr) /\ Listed(events)
  BY <1>2, ListedEmpty
<1>4. PICK ids \in SUBSET {Original} :
          /\ host = [ids |-> ids, master |-> 0, biolockout |-> 0]
          /\ sep = [ids |-> ids, dirty |-> {}, scan |-> 0, seq |-> 0]
  BY <1>1 DEF Init
<1>5. host.ids = sep.ids /\ sep.scan = 0 /\ {"ids", "scan"} \subseteq DOMAIN sep
  BY <1>4
<1>6. Types
  BY <1>2, <1>3, <1>5 DEF Types, Idle, Places
<1> QED BY <1>2, <1>3, <1>5, <1>6 DEF Inv, Alone, Command, Scan, Agreeing, PendingPostReboot

\* A step on the operation o, which is open or has the running command, leaves the
\* record h in its journal.
Steps(o, h) ==
    /\ o \in DOMAIN jr /\ (Open(jr[o]) \/ Runs(o))
    /\ jr' = [jr EXCEPT ![o] = h]
    /\ History(h)

\* The command of the operation goes on, or there is none.
GoesOn(o, h) ==
    /\ proc' \in [cmd : {"enroll", "observe", "local"}, op : {o}, at : Places]
    /\ h.phase \in Working
    /\ proc'.at = "local" => h.phase = "OUTCOME_UNKNOWN"
    /\ \/ h.phase = "BASELINE"
       \/ h.phase = "START_INTENT" /\ proc'.at \in {"send", "refused"}
       => sep'.scan = 0 /\ events' = <<>>
    /\ h.phase = "PERSISTENCE_READY" => host'.ids = sep'.ids
    /\ sep'.scan # 0 => h.phase \in ScanPhases
Ends(h) == proc' = Idle /\ (sep'.scan # 0 /\ Open(h) => h.phase \in ScanPhases)

\* What the step makes of the SEP and the host.
Leaves(o, h) ==
    /\ {"ids", "scan"} \subseteq DOMAIN sep'
    /\ Listed(events')
    /\ \A i \in DOMAIN events' : events'[i].kind \in Terminal => sep'.scan = 0
    /\ h.phase = "RECONCILED" /\ h.identity # NoIdentity =>
          h.snapshot = Snapshot' /\ host'.ids = sep'.ids
    /\ ~Blocks(h) =>
          \/ host'.ids = sep'.ids /\ sep'.scan = 0
          \/ ~Blocks(jr[o]) /\ host'.ids = host.ids /\ sep'.ids = sep.ids /\ sep'.scan = sep.scan

\* Such a step preserves the invariant.
LEMMA StepInv ==
    ASSUME Inv, NEW op, NEW h, Steps(op, h), GoesOn(op, h) \/ Ends(h), Leaves(op, h)
    PROVE  Inv'
<1>1. /\ Listed(jr') /\ DOMAIN jr' = DOMAIN jr /\ jr'[op] = h
      /\ \A p \in DOMAIN jr : p # op => jr'[p] = jr[p]
  BY ListedExcept DEF Inv, Types, Steps
<1>2. op \in DOMAIN jr /\ (Open(jr[op]) \/ Runs(op)) /\ op \in Nat
  BY SMT DEF Steps, Inv, Types, Listed
<1>3. \A p \in DOMAIN jr : p # op => ~Open(jr[p])
  BY <1>2 DEF Inv, Alone
<1>4. \A p \in DOMAIN jr : Runs(p)' => p = op
  BY DEF GoesOn, Ends, Runs, Idle
<1>5. Types'
  <2>1. proc' \in [cmd : {"none", "enroll", "observe", "local"}, op : Nat, at : Places]
    <3>1. CASE GoesOn(op, h)
      BY <1>2, <3>1 DEF GoesOn
    <3>2. CASE Ends(h)
      BY <3>2 DEF Ends, Idle, Places
    <3> QED BY <3>1, <3>2
  <2> QED BY <1>1, <2>1 DEF Types, Inv, Leaves, Steps
<1>6. Alone'
  BY <1>1, <1>3, <1>4 DEF Alone, Open
<1>7. Command'
  <2>1. CASE GoesOn(op, h)
    <3>1. proc'.cmd # "none" /\ proc'.op = op
      BY <2>1 DEF GoesOn
    <3>2. hist' = h
      BY <1>1, <3>1 DEF hist
    <3> QED BY <1>1, <1>2, <2>1, <3>1, <3>2 DEF Command, GoesOn
  <2>2. CASE Ends(h)
    BY <2>2 DEF Command, Ends
  <2> QED BY <2>1, <2>2
<1>8. Scan'
  <2>1. \A p \in DOMAIN jr : p # op => ~Open(jr[p])' /\ ~Runs(p)'
    BY <1>1, <1>3, <1>4 DEF Open
  <2>2. sep'.scan # 0 /\ (Open(jr[op])' \/ Runs(op)') => jr'[op].phase \in ScanPhases
    BY <1>1 DEF GoesOn, Ends, Open, Runs, Idle
  <2> QED BY <1>1, <2>1, <2>2 DEF Scan, Leaves
<1>9. Agreeing'
  <2>1. \A p \in PendingPostReboot' : p = op
    BY <1>1, <1>3 DEF PendingPostReboot, Open
  <2>2. \A p \in PendingPostReboot' : jr'[p].snapshot = Snapshot' /\ host'.ids = sep'.ids
    BY <1>1, <2>1 DEF PendingPostReboot, Leaves
  <2>3. (\A p \in DOMAIN jr' : ~Blocks(jr'[p])) => host'.ids = sep'.ids /\ sep'.scan = 0
    <3>1. SUFFICES ASSUME \A p \in DOMAIN jr' : ~Blocks(jr'[p])
                   PROVE  host'.ids = sep'.ids /\ sep'.scan = 0
      OBVIOUS
    <3>2. ~Blocks(h)
      BY <1>1, <1>2, <3>1
    <3>3. CASE ~Blocks(jr[op]) /\ host'.ids = host.ids /\ sep'.ids = sep.ids /\ sep'.scan = sep.scan
      <4>1. \A p \in DOMAIN jr : ~Blocks(jr[p])
        BY <1>1, <1>2, <3>1, <3>3
      <4> QED BY <3>3, <4>1 DEF Inv, Agreeing
    <3> QED BY <3>2, <3>3 DEF Leaves
  <2> QED BY <2>2, <2>3 DEF Agreeing, Blocks
<1> QED BY <1>5, <1>6, <1>7, <1>8, <1>9 DEF Inv

-----------------------------------------------------------------------------
(* What each milestone makes of a history and of a tracker. *)

\* Every record of H is a history in one of the phases P.
Makes(H, P) == \A g \in H : History(g) /\ g.phase \in P

\* The milestones of a scan.
LEMMA ScanMilestones ==
    ASSUME NEW h, History(h), NEW seq, NEW id, NEW stage
    PROVE  /\ Makes(AbortedBeforeStart(h), {"ABORTED_BEFORE_START"})
           /\ Makes(StartIntent(h), {"START_INTENT"})
           /\ Makes(StartObserved(h), {"ACTIVE"})
           /\ Makes(StartRejected(h), {"TERMINAL_FAILURE"})
           /\ Makes(ContinueIntent(h, seq), {"CONTINUE_INTENT"})
           /\ Makes(ContinueObserved(h), {"ACTIVE"})
           /\ Makes(CancelIntent(h), {"CANCEL_INTENT"})
           /\ Makes(CancelObserved(h), {"CANCEL_REQUESTED"})
           /\ Makes(TerminalIdentity(h, seq, id), {"TERMINAL_IDENTITY"})
           /\ Makes(ResultWitnessed(h, seq), {"TERMINAL_WITNESS"})
           /\ Makes(TerminalFailure(h, seq), {"TERMINAL_FAILURE"})
           /\ Makes(WitnessReadback(h, id), {"TERMINAL_IDENTITY"})
           /\ Makes(RecoveryReadback(h, id), {"TERMINAL_IDENTITY"})
           /\ Makes(OutcomeUnknown(h, stage), {"OUTCOME_UNKNOWN"})
<1>1. Makes(AbortedBeforeStart(h), {"ABORTED_BEFORE_START"})
  BY DEF Makes, AbortedBeforeStart, From, Only, History, Fields, EnrollmentPhases
<1>2. Makes(StartIntent(h), {"START_INTENT"})
  BY DEF Makes, StartIntent, From, Only, History, Fields, EnrollmentPhases
<1>3. Makes(StartObserved(h), {"ACTIVE"})
  BY DEF Makes, StartObserved, From, Only, History, Fields, EnrollmentPhases
<1>4. Makes(StartRejected(h), {"TERMINAL_FAILURE"})
  BY DEF Makes, StartRejected, From, Only, History, Fields, EnrollmentPhases
<1>5. Makes(ContinueIntent(h, seq), {"CONTINUE_INTENT"})
  BY DEF Makes, ContinueIntent, From, Only, History, Fields, EnrollmentPhases
<1>6. Makes(ContinueObserved(h), {"ACTIVE"})
  BY DEF Makes, ContinueObserved, From, Only, History, Fields, EnrollmentPhases
<1>7. Makes(CancelIntent(h), {"CANCEL_INTENT"})
  BY DEF Makes, CancelIntent, From, Only, History, Fields, EnrollmentPhases
<1>8. Makes(CancelObserved(h), {"CANCEL_REQUESTED"})
  BY DEF Makes, CancelObserved, From, Only, History, Fields, EnrollmentPhases
<1>9. Makes(TerminalIdentity(h, seq, id), {"TERMINAL_IDENTITY"})
  BY DEF Makes, TerminalIdentity, From, Only, History, Fields, EnrollmentPhases
<1>10. Makes(ResultWitnessed(h, seq), {"TERMINAL_WITNESS"})
  BY DEF Makes, ResultWitnessed, From, Only, History, Fields, EnrollmentPhases
<1>11. Makes(TerminalFailure(h, seq), {"TERMINAL_FAILURE"})
  BY DEF Makes, TerminalFailure, From, Only, History, Fields, EnrollmentPhases
<1>12. Makes(WitnessReadback(h, id), {"TERMINAL_IDENTITY"})
  BY DEF Makes, WitnessReadback, From, Only, History, Fields, EnrollmentPhases
<1>13. Makes(RecoveryReadback(h, id), {"TERMINAL_IDENTITY"})
  BY DEF Makes, RecoveryReadback, From, Only, History, Fields, EnrollmentPhases
<1>14. Makes(OutcomeUnknown(h, stage), {"OUTCOME_UNKNOWN"})
  BY DEF Makes, OutcomeUnknown, From, Only, History, Fields, EnrollmentPhases
<1> QED
  BY <1>1, <1>2, <1>3, <1>4, <1>5, <1>6, <1>7, <1>8, <1>9, <1>10, <1>11, <1>12, <1>13, <1>14

\* Every tracker of T has a phase, and none but an attested one is complete.
Tracks(T) == \A t \in T : "phase" \in DOMAIN t
Saves(T) == \A t \in T : "phase" \in DOMAIN t /\ t.phase # "COMPLETE"

\* The milestones of a save.
LEMMA SaveMilestones ==
    ASSUME NEW t, "phase" \in DOMAIN t, NEW batches, NEW stage, NEW possible
    PROVE  /\ Saves(Plan(t, batches)) /\ Saves(PrepareIntent(t)) /\ Saves(Prepared(t))
           /\ Saves(CompleteIntent(t)) /\ Saves(BlobCaptured(t)) /\ Saves(HostStaged(t))
           /\ Saves(ConfirmIntent(t)) /\ Saves(Confirmed(t)) /\ Saves(CommitIntent(t))
           /\ Saves(Committed(t)) /\ Saves(FinalConfirmIntent(t)) /\ Saves(FinalConfirmed(t))
           /\ Saves(Freeze(t, stage, possible)) /\ Saves(EarlyConfirmRecovered(t))
           /\ Tracks(Attested(t))
<1>1. Saves(Plan(t, batches))
  BY DEF Saves, Plan, Only
<1>2. /\ Saves(PrepareIntent(t)) /\ Saves(Prepared(t)) /\ Saves(CompleteIntent(t))
      /\ Saves(BlobCaptured(t)) /\ Saves(Committed(t)) /\ Saves(FinalConfirmIntent(t))
  BY DEF Saves, PrepareIntent, Prepared, CompleteIntent, BlobCaptured, Committed,
         FinalConfirmIntent, Advance, Only
<1>3. Saves(HostStaged(t))
  BY DEF Saves, HostStaged, Only
<1>4. Saves(ConfirmIntent(t)) /\ Saves(CommitIntent(t))
  BY DEF Saves, ConfirmIntent, CommitIntent, Only
<1>5. Saves(Confirmed(t))
  BY DEF Saves, Confirmed, Only
<1>6. Saves(FinalConfirmed(t))
  BY DEF Saves, FinalConfirmed, Only
<1>7. Saves(Freeze(t, stage, possible))
  BY DEF Saves, Freeze, Only
<1>8. Saves(EarlyConfirmRecovered(t))
  BY DEF Saves, EarlyConfirmRecovered, Only
<1>9. Tracks(Attested(t))
  BY DEF Tracks, Attested, Only
<1> QED BY <1>1, <1>2, <1>3, <1>4, <1>5, <1>6, <1>7, <1>8, <1>9

\* A save gives the history the phase of its tracker.
LEMMA PersistMakes ==
    ASSUME NEW h, History(h), NEW T, Tracks(T)
    PROVE  /\ Makes(Persist(h, T), {"PERSISTING", "OUTCOME_UNKNOWN", "PERSISTENCE_READY"})
           /\ Saves(T) => Makes(Persist(h, T), {"PERSISTING", "OUTCOME_UNKNOWN"})
<1>1. SUFFICES ASSUME NEW g \in Persist(h, T)
               PROVE  /\ History(g)
                      /\ g.phase \in {"PERSISTING", "OUTCOME_UNKNOWN", "PERSISTENCE_READY"}
                      /\ Saves(T) => g.phase \in {"PERSISTING", "OUTCOME_UNKNOWN"}
  BY DEF Makes
<1>2. PICK t \in T : g = [h EXCEPT !.persistence = t, !.phase = PhaseOf(t, FALSE)]
  BY <1>1 DEF Persist
<1>3. PICK x : x = PhaseOf(t, FALSE)
  OBVIOUS
<1>4. /\ x \in {"PERSISTING", "OUTCOME_UNKNOWN", "PERSISTENCE_READY"}
      /\ Saves(T) => x \in {"PERSISTING", "OUTCOME_UNKNOWN"}
  BY <1>3 DEF PhaseOf, Saves
<1>5. g = [h EXCEPT !.persistence = t, !.phase = x] /\ "phase" \in DOMAIN t
  BY <1>2, <1>3 DEF Tracks
<1>6. g.phase = x /\ g.persistence = t /\ DOMAIN g = DOMAIN h
  BY <1>5 DEF History, Fields
<1>7. x \in EnrollmentPhases
  BY <1>4 DEF EnrollmentPhases
<1> QED BY <1>4, <1>5, <1>6, <1>7 DEF History

\* A resumed save goes on from its recovered tracker.
LEMMA EarlyMakes ==
    ASSUME NEW h, History(h)
    PROVE  Makes(RecoverEarlyConfirm(h), {"TERMINAL_IDENTITY", "OUTCOME_UNKNOWN"})
<1>1. SUFFICES ASSUME NEW g \in RecoverEarlyConfirm(h)
               PROVE  History(g) /\ g.phase \in {"TERMINAL_IDENTITY", "OUTCOME_UNKNOWN"}
  BY DEF Makes
<1>2. PICK t \in EarlyConfirmRecovered(h.persistence) :
          g = [h EXCEPT !.persistence = t, !.phase = PhaseOf(t, TRUE)]
  BY <1>1 DEF RecoverEarlyConfirm
<1>3. "phase" \in DOMAIN t /\ t.phase # "COMPLETE"
  BY SaveMilestones DEF History, Saves
<1>4. PICK x : x = PhaseOf(t, TRUE)
  OBVIOUS
<1>5. x \in {"TERMINAL_IDENTITY", "OUTCOME_UNKNOWN"}
  BY <1>3, <1>4 DEF PhaseOf
<1>6. g = [h EXCEPT !.persistence = t, !.phase = x]
  BY <1>2, <1>4
<1>7. g.phase = x /\ g.persistence = t /\ DOMAIN g = DOMAIN h
  BY <1>6 DEF History, Fields
<1> QED BY <1>3, <1>5, <1>7 DEF History, EnrollmentPhases

\* E3 keeps the snapshot of its read-back, and the identity.
LEMMA ReconciledMakes ==
    ASSUME NEW h, History(h), NEW added, NEW snapshot,
           NEW g \in Reconciled(h, added, snapshot) \cup RecoveryReconciled(h, added, snapshot)
    PROVE  History(g) /\ g.phase = "RECONCILED" /\ g.snapshot = snapshot /\ g.identity = h.identity
BY DEF Reconciled, RecoveryReconciled, Only, History, Fields, EnrollmentPhases

\* E4 leaves the rest of the history.
LEMMA VerifiedMakes ==
    ASSUME NEW h, History(h), NEW b, NEW snapshot
    PROVE  Makes(PostRebootVerified(h, b, snapshot), {"POST_REBOOT_VERIFIED"})
BY DEF Makes, PostRebootVerified, Only, History, Fields, EnrollmentPhases

\* A baseline is a history.
LEMMA BaselineMakes ==
    ASSUME NEW b, NEW root, NEW ids
    PROVE  History(Baseline(b, root, ids)) /\ Baseline(b, root, ids).phase = "BASELINE"
BY DEF Baseline, NotStarted, History, Fields, EnrollmentPhases

-----------------------------------------------------------------------------
(* The running command. *)

\* What holds of the operation of the running command.
LEMMA RunningFacts ==
    ASSUME Inv, proc.cmd # "none"
    PROVE  /\ proc.op \in DOMAIN jr /\ History(hist) /\ hist.phase \in Working
           /\ sep.scan # 0 => hist.phase \in ScanPhases
           /\ "phase" \in DOMAIN hist.persistence
           /\ proc.at = "local" => hist.phase = "OUTCOME_UNKNOWN"
           /\ \/ hist.phase = "BASELINE"
              \/ hist.phase = "START_INTENT" /\ proc.at \in {"send", "refused"}
              => sep.scan = 0 /\ events = <<>>
           /\ hist.phase = "PERSISTENCE_READY" => host.ids = sep.ids
<1>1. proc # Idle
  BY DEF Idle
<1>2. proc.op \in DOMAIN jr /\ Runs(proc.op)
  BY <1>1 DEF Inv, Command, Runs
<1>3. History(hist)
  BY <1>2 DEF Inv, Types, hist
<1>4. sep.scan # 0 => hist.phase \in ScanPhases
  BY <1>2 DEF Inv, Scan, hist
<1> QED BY <1>1, <1>2, <1>3, <1>4 DEF Inv, Command, History

\* A command stands somewhere only while it runs.
LEMMA StandsRuns ==
    ASSUME Inv, proc.at # "none"
    PROVE  proc.cmd # "none"
BY DEF Inv, Command, Idle

\* The events that are left after one is taken are as they were.
LEMMA TailEvents ==
    ASSUME Inv, events' = events \/ (events # <<>> /\ events' = Tail(events))
    PROVE  /\ Listed(events')
           /\ \A i \in DOMAIN events' : events'[i].kind \in Terminal => sep.scan = 0
<1>1. CASE events' = events
  BY <1>1 DEF Inv, Types, Scan
<1>2. CASE events # <<>> /\ events' = Tail(events)
  <2>1. /\ Listed(events')
        /\ \A i \in DOMAIN events' : i + 1 \in DOMAIN events /\ events'[i] = events[i + 1]
    BY <1>2, ListedTail DEF Inv, Types
  <2> QED BY <2>1 DEF Inv, Scan
<1> QED BY <1>1, <1>2

\* A record is written and the command goes on.
Wrote(H, at) ==
    /\ Journal(H) /\ Goto(at)
    /\ UNCHANGED <<host, sep>>
    /\ events' = events \/ (events # <<>> /\ events' = Tail(events))

\* It preserves the invariant if the phases of the milestone fit the SEP and the host.
LEMMA WroteInv ==
    ASSUME Inv, proc.cmd # "none",
           NEW P \in SUBSET (Working \ {"BASELINE"}), NEW H, Makes(H, P),
           NEW at \in Places \ {"local"}, Wrote(H, at),
           "PERSISTENCE_READY" \in P => host.ids = sep.ids,
           "START_INTENT" \in P => sep.scan = 0 /\ events = <<>>,
           sep.scan # 0 => P \subseteq ScanPhases
    PROVE  Inv'
<1>1. PICK h \in H : jr' = [jr EXCEPT ![proc.op] = h]
  BY DEF Wrote, Journal
<1>2. History(h) /\ h.phase \in P /\ h.phase \in Working /\ h.phase # "BASELINE"
  BY DEF Makes
<1>3. Steps(proc.op, h)
  BY <1>1, <1>2, RunningFacts DEF Steps, Runs
<1>4. /\ proc' = [proc EXCEPT !.at = at]
      /\ proc \in [cmd : {"none", "enroll", "observe", "local"}, op : Nat, at : Places]
  BY DEF Wrote, Goto, Inv, Types
<1>5. proc' \in [cmd : {"enroll", "observe", "local"}, op : {proc.op}, at : Places] /\ proc'.at = at
  BY <1>4
<1>6. sep' = sep /\ host' = host
  BY DEF Wrote
<1>7. GoesOn(proc.op, h)
  <2>1. h.phase = "START_INTENT" => events' = <<>>
    BY <1>2 DEF Wrote
  <2> QED BY <1>2, <1>5, <1>6, <2>1 DEF GoesOn
<1>8. Leaves(proc.op, h)
  <2>1. Blocks(h) /\ h.phase # "RECONCILED"
    BY <1>2 DEF Blocks, Working
  <2>2. /\ Listed(events')
        /\ \A i \in DOMAIN events' : events'[i].kind \in Terminal => sep.scan = 0
    BY TailEvents DEF Wrote
  <2> QED BY <1>6, <2>1, <2>2 DEF Leaves, hist, Inv, Types
<1> QED BY <1>3, <1>7, <1>8, StepInv

\* ... when the milestone has one phase.
Fits(p, at) ==
    /\ p \in Working \ {"BASELINE"} /\ at \in Places \ {"local"}
    /\ p = "PERSISTENCE_READY" => host.ids = sep.ids
    /\ p = "START_INTENT" => sep.scan = 0 /\ events = <<>>
    /\ sep.scan # 0 => p \in ScanPhases

\* A record of one phase preserves the invariant.
LEMMA WroteOneInv ==
    ASSUME Inv, proc.cmd # "none", NEW p, NEW H, Makes(H, {p}), NEW at, Wrote(H, at), Fits(p, at)
    PROVE  Inv'
<1>1. {p} \in SUBSET (Working \ {"BASELINE"})
  BY DEF Fits
<1>2. PICK P : P = {p}
  OBVIOUS
<1> QED BY <1>1, <1>2, WroteInv DEF Fits

\* A record is written and the command ends.
LEMMA WroteLastInv ==
    ASSUME Inv, proc.cmd # "none", NEW H, RecordAndExit(H),
           \/ Makes(H, {"PERSISTING", "OUTCOME_UNKNOWN"}) /\ (sep.scan # 0 => Makes(H, {"OUTCOME_UNKNOWN"}))
           \/ Makes(H, {"ABORTED_BEFORE_START"}) /\ hist.phase = "BASELINE"
    PROVE  Inv'
<1>1. PICK h \in H : jr' = [jr EXCEPT ![proc.op] = h]
  BY DEF RecordAndExit, Journal
<1>2. /\ History(h)
      /\ \/ h.phase \in {"PERSISTING", "OUTCOME_UNKNOWN"} /\ (sep.scan # 0 => h.phase = "OUTCOME_UNKNOWN")
         \/ h.phase = "ABORTED_BEFORE_START" /\ hist.phase = "BASELINE"
  BY DEF Makes
<1>3. Steps(proc.op, h)
  BY <1>1, <1>2, RunningFacts DEF Steps, Runs
<1>4. sep' = sep /\ host' = host /\ proc' = Idle /\ events' = <<>>
  BY DEF RecordAndExit, Exit, store
<1>5. Ends(h)
  BY <1>2, <1>4 DEF Ends, Open, UnfinishedPhases, ScanPhases
<1>6. Leaves(proc.op, h)
  <2>1. h.phase # "RECONCILED"
    BY <1>2
  <2>2. Blocks(h) \/ ~Blocks(hist)
    BY <1>2 DEF Blocks
  <2>3. Listed(events') /\ DOMAIN events' = {}
    BY <1>4, ListedEmpty
  <2> QED BY <1>4, <2>1, <2>2, <2>3 DEF Leaves, hist, Inv, Types
<1> QED BY <1>3, <1>5, <1>6, StepInv

\* A step that leaves the journals.
LEMMA StayInv ==
    ASSUME Inv, proc.cmd # "none", UNCHANGED jr, GoesOn(proc.op, hist) \/ Ends(hist), Leaves(proc.op, hist)
    PROVE  Inv'
<1>1. proc.op \in DOMAIN jr /\ History(hist)
  BY RunningFacts
<1>2. jr = [jr EXCEPT ![proc.op] = hist]
  <2>1. Listed(jr) /\ jr \in Seq(Image(jr))
    BY DEF Inv, Types, Listed
  <2> QED BY <1>1, <2>1 DEF hist
<1>3. Steps(proc.op, hist)
  BY <1>1, <1>2 DEF Steps, Runs
<1> QED BY <1>3, StepInv

\* The phases of a save.
SavePhases == {"TERMINAL_IDENTITY", "TERMINAL_FAILURE", "PERSISTING"}

\* The command goes on, with its connection and its journal as they are.
LEMMA MovesInv ==
    ASSUME Inv, proc.cmd # "none", UNCHANGED <<jr, sep>>,
           host' = host \/ hist.phase \in SavePhases,
           \/ proc' = proc
           \/ \E at \in Places \ {"local", "send", "refused"} : Goto(at)
           \/ hist.phase = "START_INTENT" /\ proc.at = "send" /\ Goto("refused"),
           events' = events \/ (events # <<>> /\ events' = Tail(events))
    PROVE  Inv'
<1>1. proc \in [cmd : {"none", "enroll", "observe", "local"}, op : Nat, at : Places]
  BY DEF Inv, Types
<1>2. /\ proc' \in [cmd : {"enroll", "observe", "local"}, op : {proc.op}, at : Places]
      /\ \/ proc'.at = proc.at
         \/ proc'.at \notin {"local", "send", "refused"}
         \/ proc'.at = "refused" /\ hist.phase = "START_INTENT" /\ proc.at = "send"
  <2>1. CASE proc' = proc
    BY <1>1, <2>1
  <2>2. CASE \E at \in Places \ {"local", "send", "refused"} : Goto(at)
    <3>1. PICK at \in Places \ {"local", "send", "refused"} : proc' = [proc EXCEPT !.at = at]
      BY <2>2 DEF Goto
    <3> QED BY <1>1, <3>1
  <2>3. CASE hist.phase = "START_INTENT" /\ proc.at = "send" /\ Goto("refused")
    <3>1. proc' = [proc EXCEPT !.at = "refused"]
      BY <2>3 DEF Goto
    <3> QED BY <1>1, <2>3, <3>1 DEF Places
  <2> QED BY <2>1, <2>2, <2>3
<1>3. sep' = sep
  OBVIOUS
<1>4. GoesOn(proc.op, hist)
  <2>1. events = <<>> => events' = <<>>
    OBVIOUS
  <2>2. hist.phase = "PERSISTENCE_READY" => host' = host
    BY DEF SavePhases
  <2> QED BY <1>2, <1>3, <2>1, <2>2, RunningFacts DEF GoesOn
<1>5. Leaves(proc.op, hist)
  <2>1. hist.phase # "RECONCILED" /\ (host' = host \/ Blocks(hist))
    BY RunningFacts DEF Working, SavePhases, Blocks
  <2>2. /\ Listed(events')
        /\ \A i \in DOMAIN events' : events'[i].kind \in Terminal => sep.scan = 0
    BY TailEvents
  <2> QED BY <1>3, <2>1, <2>2 DEF Leaves, hist, Inv, Types
<1> QED BY <1>4, <1>5, StayInv

\* A command reaches the SEP, or is lost, and its reply is waited for.
LEMMA DispatchInv ==
    ASSUME Inv, proc.cmd # "none", proc.at = "send", NEW command, NEW after,
           Dispatch(command, after),
           hist.phase \in Working \ {"BASELINE", "OUTCOME_UNKNOWN"},
           {"ids", "scan"} \subseteq DOMAIN after, after.ids = sep.ids,
           after.scan = sep.scan \/ hist.phase = "START_INTENT"
    PROVE  Inv'
<1>1. proc \in [cmd : {"none", "enroll", "observe", "local"}, op : Nat, at : Places]
  BY DEF Inv, Types
<1>2. PICK at \in {"ok", "lost"} : proc' = [proc EXCEPT !.at = at]
  BY DEF Dispatch, Goto
<1>3. proc' \in [cmd : {"enroll", "observe", "local"}, op : {proc.op}, at : Places] /\ proc'.at = at
  BY <1>1, <1>2 DEF Places
<1>4. jr' = jr /\ host' = host /\ events' = events /\ (sep' = sep \/ sep' = after)
  BY DEF Dispatch, store
<1>5. sep'.ids = sep.ids /\ {"ids", "scan"} \subseteq DOMAIN sep'
  BY <1>4 DEF Inv, Types
<1>6. sep'.scan = sep.scan \/ hist.phase = "START_INTENT"
  BY <1>4
<1>7. GoesOn(proc.op, hist)
  <2>1. sep'.scan # 0 => hist.phase \in ScanPhases
    BY <1>6, RunningFacts DEF ScanPhases
  <2> QED BY <1>2, <1>3, <1>4, <1>5, <2>1, RunningFacts DEF GoesOn
<1>8. Leaves(proc.op, hist)
  <2>1. hist.phase # "RECONCILED" /\ Blocks(hist)
    BY DEF Working, Blocks
  <2>2. \A i \in DOMAIN events' : events'[i].kind \in Terminal => sep'.scan = 0
    <3>1. CASE hist.phase = "START_INTENT"
      <4>1. events' = <<>>
        BY <1>4, <3>1, RunningFacts
      <4> QED BY <4>1, ListedEmpty
    <3>2. CASE hist.phase # "START_INTENT"
      BY <1>4, <1>6, <3>2 DEF Inv, Scan
    <3> QED BY <3>1, <3>2
  <2> QED BY <1>4, <1>5, <2>1, <2>2 DEF Leaves, hist, Inv, Types
<1> QED BY <1>4, <1>7, <1>8, StayInv

\* The command ends, or is stopped.
LEMMA ExitInv ==
    ASSUME Inv, proc.cmd # "none", UNCHANGED <<jr, sep>>, Exit,
           host' = host \/ hist.phase = "OUTCOME_UNKNOWN"
    PROVE  Inv'
<1>1. jr' = jr /\ sep' = sep /\ proc' = Idle /\ events' = <<>>
  BY DEF Exit
<1>2. Ends(hist)
  BY <1>1, RunningFacts DEF Ends
<1>3. Leaves(proc.op, hist)
  <2>1. hist.phase # "RECONCILED" /\ (host' = host \/ Blocks(hist))
    BY RunningFacts DEF Working, Blocks
  <2>2. Listed(events') /\ DOMAIN events' = {}
    BY <1>1, ListedEmpty
  <2> QED BY <1>1, <2>1, <2>2 DEF Leaves, hist, Inv, Types
<1> QED BY <1>1, <1>2, <1>3, StayInv

-----------------------------------------------------------------------------
(* The steps of a scan. *)

\* Record and RecordEvent write a record and go on.
LEMMA Writes ==
    ASSUME NEW H, NEW at,
           \/ Record(H, at)
           \/ events # <<>> /\ RecordEvent(H, at)
    PROVE  Wrote(H, at)
BY DEF Record, RecordEvent, Wrote, store, outside

\* E1: the baseline, its start and the reply to it.
LEMMA StartInv ==
    ASSUME Inv, CapacityExhausted \/ AbortBeforeStart \/ IntendStart \/ DispatchStart \/ ObserveStart
    PROVE  Inv'
<1>0. /\ proc.cmd # "none"
      /\ \/ hist.phase = "BASELINE"
         \/ hist.phase = "START_INTENT"
  BY DEF CapacityExhausted, AbortBeforeStart, IntendStart, DispatchStart, ObserveStart, At
<1>h. History(hist)
  BY <1>0, RunningFacts
<1>1. CASE CapacityExhausted
  BY <1>0, <1>1, ExitInv DEF CapacityExhausted, store
<1>2. CASE AbortBeforeStart
  <2>1. Makes(AbortedBeforeStart(hist), {"ABORTED_BEFORE_START"})
    BY <1>h, ScanMilestones
  <2>2. hist.phase = "BASELINE" /\ RecordAndExit(AbortedBeforeStart(hist))
    BY <1>2 DEF AbortBeforeStart, At
  <2> QED BY <1>0, <2>1, <2>2, WroteLastInv
<1>3. CASE IntendStart
  <2>1. Makes(StartIntent(hist), {"START_INTENT"})
    BY <1>h, ScanMilestones
  <2>2. Wrote(StartIntent(hist), "send") /\ hist.phase = "BASELINE"
    BY <1>3, Writes DEF IntendStart, At
  <2>3. sep.scan = 0 /\ events = <<>>
    BY <1>0, <2>2, RunningFacts
  <2>4. Fits("START_INTENT", "send")
    BY <1>0, <2>1, <2>2, <2>3 DEF Fits, Working, Places, ScanPhases
  <2> QED BY <1>0, <2>1, <2>2, <2>3, <2>4, WroteOneInv
<1>4. CASE DispatchStart
  <2>0. hist.phase = "START_INTENT" /\ proc.at = "send"
    BY <1>4 DEF DispatchStart, At
  <2>1. CASE Dispatch(<<"start">>, [sep EXCEPT !.scan = proc.op])
    <3>1. PICK after : after = [sep EXCEPT !.scan = proc.op]
      OBVIOUS
    <3>2. {"ids", "scan"} \subseteq DOMAIN after /\ after.ids = sep.ids
      BY <3>1 DEF Inv, Types
    <3> QED BY <1>0, <2>0, <2>1, <3>1, <3>2, DispatchInv DEF Working
  <2>2. CASE Goto("refused") /\ UNCHANGED <<jr, store, sep, events, boot>>
    BY <1>0, <2>0, <2>2, MovesInv DEF store
  <2> QED BY <1>4, <2>1, <2>2 DEF DispatchStart
<1>5. CASE ObserveStart
  <2>1. CASE At("START_INTENT", "ok") /\ Record(StartObserved(hist), "run")
    <3>1. Makes(StartObserved(hist), {"ACTIVE"})
      BY <1>h, ScanMilestones
    <3>2. Wrote(StartObserved(hist), "run")
      BY <2>1, Writes
    <3>3. Fits("ACTIVE", "run")
      BY <1>0, <3>1, <3>2 DEF Fits, Working, Places, ScanPhases
    <3> QED BY <1>0, <3>1, <3>2, <3>3, WroteOneInv
  <2>2. CASE At("START_INTENT", "refused") /\ Record(StartRejected(hist), "run")
    <3>1. Makes(StartRejected(hist), {"TERMINAL_FAILURE"})
      BY <1>h, ScanMilestones
    <3>2. Wrote(StartRejected(hist), "run")
      BY <2>2, Writes
    <3>3. sep.scan = 0
      BY <1>0, <2>2, RunningFacts DEF At
    <3>4. Fits("TERMINAL_FAILURE", "run")
      BY <1>0, <3>1, <3>2, <3>3 DEF Fits, Working, Places, ScanPhases
    <3> QED BY <1>0, <3>1, <3>2, <3>3, <3>4, WroteOneInv
  <2> QED BY <1>5, <2>1, <2>2 DEF ObserveStart
<1> QED BY <1>1, <1>2, <1>3, <1>4, <1>5

\* The cancel and the continue of an active scan, and their replies.
LEMMA CommandsInv ==
    ASSUME Inv,
           RequestCancel \/ DispatchCancel \/ ObserveCancel \/ DispatchContinue \/ ObserveContinue
    PROVE  Inv'
<1>0. proc.cmd # "none"
  BY DEF RequestCancel, DispatchCancel, ObserveCancel, DispatchContinue, ObserveContinue, At
<1>h. History(hist) /\ {"ids", "scan"} \subseteq DOMAIN sep
  BY <1>0, RunningFacts DEF Inv, Types
<1>1. CASE RequestCancel
  <2>1. Makes(CancelIntent(hist), {"CANCEL_INTENT"})
    BY <1>h, ScanMilestones
  <2>2. Wrote(CancelIntent(hist), "send")
    BY <1>1, Writes DEF RequestCancel
  <2>3. Fits("CANCEL_INTENT", "send")
    BY <1>0, <2>1, <2>2 DEF Fits, Working, Places, ScanPhases
  <2> QED BY <1>0, <2>1, <2>2, <2>3, WroteOneInv
<1>2. CASE DispatchCancel
  BY <1>0, <1>h, <1>2, DispatchInv DEF DispatchCancel, At, Working
<1>3. CASE ObserveCancel
  <2>1. Makes(CancelObserved(hist), {"CANCEL_REQUESTED"})
    BY <1>h, ScanMilestones
  <2>2. Wrote(CancelObserved(hist), "run")
    BY <1>3, Writes DEF ObserveCancel
  <2>3. Fits("CANCEL_REQUESTED", "run")
    BY <1>0, <2>1, <2>2 DEF Fits, Working, Places, ScanPhases
  <2> QED BY <1>0, <2>1, <2>2, <2>3, WroteOneInv
<1>4. CASE DispatchContinue
  BY <1>0, <1>h, <1>4, DispatchInv DEF DispatchContinue, At, Working
<1>5. CASE ObserveContinue
  <2>1. Makes(ContinueObserved(hist), {"ACTIVE"})
    BY <1>h, ScanMilestones
  <2>2. Wrote(ContinueObserved(hist), "run")
    BY <1>5, Writes DEF ObserveContinue
  <2>3. Fits("ACTIVE", "run")
    BY <1>0, <2>1, <2>2 DEF Fits, Working, Places, ScanPhases
  <2> QED BY <1>0, <2>1, <2>2, <2>3, WroteOneInv
<1> QED BY <1>1, <1>2, <1>3, <1>4, <1>5

\* The outcome is not known.
LEMMA UnknownInv ==
    ASSUME Inv, ReplyUnknown \/ LoopUnknown \/ RejectEvent \/ TerminalUnrecorded \/ WitnessUnknown
    PROVE  Inv'
<1>1. proc.cmd # "none"
  BY StandsRuns
     DEF ReplyUnknown, LoopUnknown, RejectEvent, TerminalUnrecorded, WitnessUnknown, Replied,
         Arrived, At
<1>2. PICK stage : RecordAndExit(OutcomeUnknown(hist, stage))
  BY DEF ReplyUnknown, LoopUnknown, RejectEvent, TerminalUnrecorded, WitnessUnknown
<1>3. Makes(OutcomeUnknown(hist, stage), {"OUTCOME_UNKNOWN"})
  BY <1>1, RunningFacts, ScanMilestones
<1>4. Makes(OutcomeUnknown(hist, stage), {"PERSISTING", "OUTCOME_UNKNOWN"})
  BY <1>3 DEF Makes
<1> QED BY <1>1, <1>2, <1>3, <1>4, WroteLastInv

\* The events of the scan.
LEMMA EventsInv ==
    ASSUME Inv, IgnoreEvent \/ AcceptProgress \/ AcceptTerminal
    PROVE  Inv'
<1>0. proc.cmd # "none" /\ events # <<>>
  BY StandsRuns DEF IgnoreEvent, AcceptProgress, AcceptTerminal, Arrived
<1>h. History(hist)
  BY <1>0, RunningFacts
<1>1. CASE IgnoreEvent
  BY <1>0, <1>1, MovesInv DEF IgnoreEvent, store
<1>2. CASE AcceptProgress
  <2>1. Makes(ContinueIntent(hist, Head(events).seq), {"CONTINUE_INTENT"})
    BY <1>h, ScanMilestones
  <2>2. Wrote(ContinueIntent(hist, Head(events).seq), "send")
    BY <1>0, <1>2, Writes DEF AcceptProgress
  <2>3. Fits("CONTINUE_INTENT", "send")
    BY <1>0, <2>1, <2>2 DEF Fits, Working, Places, ScanPhases
  <2> QED BY <1>0, <2>1, <2>2, <2>3, WroteOneInv
<1>3. CASE AcceptTerminal
  <2>1. PICK seq : seq = Head(events).seq
    OBVIOUS
  <2>2. Head(events).kind \in Terminal
    BY <1>3 DEF AcceptTerminal, Arrived, Terminal
  <2>3. sep.scan = 0
    <3>1. 1 \in DOMAIN events /\ Head(events) = events[1]
      BY <1>0, ListedTail DEF Inv, Types
    <3> QED BY <2>2, <3>1 DEF Inv, Scan
  <2>4. /\ Makes(TerminalIdentity(hist, seq, proc.op), {"TERMINAL_IDENTITY"})
        /\ Makes(ResultWitnessed(hist, seq), {"TERMINAL_WITNESS"})
        /\ Makes(TerminalFailure(hist, seq), {"TERMINAL_FAILURE"})
    BY <1>h, ScanMilestones
  <2>5. \/ RecordEvent(TerminalIdentity(hist, seq, proc.op), "run")
        \/ RecordEvent(ResultWitnessed(hist, seq), "run")
        \/ RecordEvent(TerminalFailure(hist, seq), "run")
    BY <1>3, <2>1 DEF AcceptTerminal
  <2>6. PICK p \in {"TERMINAL_IDENTITY", "TERMINAL_WITNESS", "TERMINAL_FAILURE"} :
            \E H : Makes(H, {p}) /\ RecordEvent(H, "run")
    BY <2>4, <2>5
  <2>7. PICK H : Makes(H, {p}) /\ RecordEvent(H, "run")
    BY <2>6
  <2>8. Wrote(H, "run")
    BY <1>0, <2>7, Writes
  <2>9. Fits(p, "run")
    BY <1>0, <2>3, <2>6, <2>7, <2>8 DEF Fits, Working, Places, ScanPhases
  <2> QED BY <1>0, <2>3, <2>6, <2>7, <2>8, <2>9, WroteOneInv
<1> QED BY <1>1, <1>2, <1>3

-----------------------------------------------------------------------------
(* The steps of a save. *)

\* A save runs when the scan is over.
LEMMA SavingFacts ==
    ASSUME Inv, NEW phase, NEW at, Saving(phase, at)
    PROVE  /\ proc.cmd # "none" /\ proc.at = at /\ hist.phase \in SavePhases /\ sep.scan = 0
           /\ History(hist) /\ "phase" \in DOMAIN saved
<1>1. proc.cmd # "none" /\ proc.at = at /\ hist.phase \in SavePhases
  BY DEF Saving, SavePhases
<1> QED BY <1>1, RunningFacts DEF SavePhases, ScanPhases, saved

\* A milestone of the save is written.
LEMMA SaveWroteInv ==
    ASSUME Inv, NEW phase, NEW at, Saving(phase, at), NEW T, Saves(T),
           NEW to \in Places \ {"local"}, Record(Persist(hist, T), to)
    PROVE  Inv'
<1>1. /\ proc.cmd # "none" /\ sep.scan = 0
      /\ Makes(Persist(hist, T), {"PERSISTING", "OUTCOME_UNKNOWN"})
  BY SavingFacts, PersistMakes DEF Saves, Tracks
<1>2. Wrote(Persist(hist, T), to)
  BY Writes
<1>3. {"PERSISTING", "OUTCOME_UNKNOWN"} \in SUBSET (Working \ {"BASELINE"})
  BY DEF Working
<1>4. PICK P : P = {"PERSISTING", "OUTCOME_UNKNOWN"}
  OBVIOUS
<1> QED BY <1>1, <1>2, <1>3, <1>4, WroteInv

\* Its milestones that lead to no read-back.
LEMMA SaveRecordsInv ==
    ASSUME Inv,
           \/ PlanPersistence \/ IntendPrepare \/ ObservePrepare \/ IntendComplete \/ CaptureBlob
           \/ RecordStaged \/ IntendConfirm \/ ObserveConfirm \/ IntendCommit \/ RecordCommitted
           \/ IntendFinalConfirm \/ ObserveFinalConfirm
    PROVE  Inv'
<1>1. CASE PlanPersistence
  <2>1. Saving("NOT_STARTED", "run") /\ Record(PlanSave(hist), "run")
    BY <1>1 DEF PlanPersistence
  <2>2. PICK T : PlanSave(hist) = Persist(hist, T) /\ Saves(T)
    BY <2>1, SavingFacts, SaveMilestones DEF PlanSave, saved
  <2> QED BY <2>1, <2>2, SaveWroteInv DEF Places
<1>2. CASE IntendPrepare
  BY <1>2, SavingFacts, SaveMilestones, SaveWroteInv DEF IntendPrepare, Places
<1>3. CASE ObservePrepare
  BY <1>3, SavingFacts, SaveMilestones, SaveWroteInv DEF ObservePrepare, Places
<1>4. CASE IntendComplete
  BY <1>4, SavingFacts, SaveMilestones, SaveWroteInv DEF IntendComplete, Places
<1>5. CASE CaptureBlob
  BY <1>5, SavingFacts, SaveMilestones, SaveWroteInv DEF CaptureBlob, Places
<1>6. CASE RecordStaged
  BY <1>6, SavingFacts, SaveMilestones, SaveWroteInv DEF RecordStaged, Places
<1>7. CASE IntendConfirm
  BY <1>7, SavingFacts, SaveMilestones, SaveWroteInv DEF IntendConfirm, Places
<1>8. CASE ObserveConfirm
  BY <1>8, SavingFacts, SaveMilestones, SaveWroteInv DEF ObserveConfirm, Places
<1>9. CASE IntendCommit
  BY <1>9, SavingFacts, SaveMilestones, SaveWroteInv DEF IntendCommit, Places
<1>10. CASE RecordCommitted
  BY <1>10, SavingFacts, SaveMilestones, SaveWroteInv DEF RecordCommitted, Places
<1>11. CASE IntendFinalConfirm
  BY <1>11, SavingFacts, SaveMilestones, SaveWroteInv DEF IntendFinalConfirm, Places
<1>12. CASE ObserveFinalConfirm
  BY <1>12, SavingFacts, SaveMilestones, SaveWroteInv DEF ObserveFinalConfirm, Places
<1> QED BY <1>1, <1>2, <1>3, <1>4, <1>5, <1>6, <1>7, <1>8, <1>9, <1>10, <1>11, <1>12

\* The commands of the save.
LEMMA SaveDispatchInv ==
    ASSUME Inv, DispatchPrepare \/ DispatchComplete \/ DispatchConfirm \/ DispatchFinalConfirm
    PROVE  Inv'
<1>1. PICK phase : Saving(phase, "send")
  BY DEF DispatchPrepare, DispatchComplete, DispatchConfirm, DispatchFinalConfirm
<1>2. proc.cmd # "none" /\ proc.at = "send" /\ hist.phase \in SavePhases
  BY <1>1, SavingFacts
<1>3. hist.phase \in Working \ {"BASELINE", "OUTCOME_UNKNOWN"}
  BY <1>2 DEF SavePhases, Working
<1>4. PICK after \in {sep, Cleaned} : \E command : Dispatch(command, after)
  BY DEF DispatchPrepare, DispatchComplete, DispatchConfirm, DispatchFinalConfirm
<1>5. {"ids", "scan"} \subseteq DOMAIN sep
  BY DEF Inv, Types
<1>6. {"ids", "scan"} \subseteq DOMAIN after /\ after.ids = sep.ids /\ after.scan = sep.scan
  <2>1. CASE after = sep
    BY <1>5, <2>1
  <2>2. CASE after = Cleaned
    BY <1>5, <2>2 DEF Cleaned
  <2> QED BY <1>4, <2>1, <2>2
<1> QED BY <1>2, <1>3, <1>4, <1>6, DispatchInv

\* The steps of the save on the host.
LEMMA SaveHostInv ==
    ASSUME Inv,
           RefusePlan \/ BeginStage \/ CreateStaged \/ StageComponent \/ CrossBoundary \/ RollForward
    PROVE  Inv'
<1>0. PICK phase, at : Saving(phase, at)
  BY DEF RefusePlan, BeginStage, CreateStaged, StageComponent, CrossBoundary, RollForward
<1>1. proc.cmd # "none" /\ hist.phase \in SavePhases
  BY <1>0, SavingFacts
<1>2. CASE RefusePlan
  BY <1>1, <1>2, ExitInv DEF RefusePlan, store
<1>3. CASE BeginStage
  BY <1>1, <1>3, MovesInv DEF BeginStage, outside
<1>4. CASE CreateStaged \/ StageComponent \/ CrossBoundary \/ RollForward
  <2>1. PICK to \in {"staging", "staged", "promote", "crossed"} : Goto(to)
    BY <1>4 DEF CreateStaged, StageComponent, CrossBoundary, RollForward
  <2>2. UNCHANGED <<jr, sep, events>>
    BY <1>4 DEF CreateStaged, StageComponent, CrossBoundary, RollForward, outside
  <2> QED BY <1>1, <2>1, <2>2, MovesInv DEF Places
<1> QED BY <1>2, <1>3, <1>4

\* The save is frozen.
LEMMA FreezeInv ==
    ASSUME Inv, FreezeSave
    PROVE  Inv'
<1>1. PICK phase, at, stage, possible :
          Saving(phase, at) /\ RecordAndExit(Persist(hist, Freeze(saved, stage, possible)))
  BY Zenon DEF FreezeSave
<1>2. /\ proc.cmd # "none" /\ sep.scan = 0
      /\ Makes(Persist(hist, Freeze(saved, stage, possible)), {"PERSISTING", "OUTCOME_UNKNOWN"})
  BY <1>1, SavingFacts, SaveMilestones, PersistMakes DEF Saves, Tracks
<1> QED BY <1>1, <1>2, WroteLastInv

\* The witness's read-back, the attestation and E3.
LEMMA ReadBackInv ==
    ASSUME Inv, AdoptWitness \/ Attest \/ ReconcileE3
    PROVE  Inv'
<1>1. CASE AdoptWitness
  <2>1. proc.cmd # "none" /\ hist.phase = "TERMINAL_WITNESS"
    BY <1>1 DEF AdoptWitness, At
  <2>2. PICK id : Record(WitnessReadback(hist, id), "run")
    BY <1>1 DEF AdoptWitness
  <2>3. Makes(WitnessReadback(hist, id), {"TERMINAL_IDENTITY"}) /\ sep.scan = 0
    BY <2>1, RunningFacts, ScanMilestones DEF ScanPhases
  <2>4. Wrote(WitnessReadback(hist, id), "run")
    BY <2>2, Writes
  <2>5. PICK H : H = WitnessReadback(hist, id)
    OBVIOUS
  <2>6. Fits("TERMINAL_IDENTITY", "run")
    BY <2>1, <2>3, <2>4, <2>5 DEF Fits, Working, Places, ScanPhases
  <2> QED BY <2>1, <2>3, <2>4, <2>5, <2>6, WroteOneInv
<1>2. CASE Attest
  <2>1. Saving("ATTESTATION_READY", "run") /\ host.ids = sep.ids
    BY <1>2 DEF Attest, classify
  <2>2. Wrote(Persist(hist, Attested(saved)), "run")
    BY <1>2, Writes DEF Attest
  <2>3. PICK P : P = {"PERSISTING", "OUTCOME_UNKNOWN", "PERSISTENCE_READY"}
    OBVIOUS
  <2>4. Makes(Persist(hist, Attested(saved)), P) /\ proc.cmd # "none" /\ sep.scan = 0
    BY <2>1, <2>3, SavingFacts, SaveMilestones, PersistMakes
  <2>5. P \in SUBSET (Working \ {"BASELINE"}) /\ "START_INTENT" \notin P
    BY <2>3 DEF Working
  <2> QED BY <2>1, <2>2, <2>4, <2>5, WroteInv DEF Places
<1>3. CASE ReconcileE3
  <2>1. proc.cmd # "none" /\ hist.phase = "PERSISTENCE_READY"
    BY <1>3 DEF ReconcileE3, At
  <2>2. History(hist) /\ sep.scan = 0 /\ host.ids = sep.ids /\ proc.op \in DOMAIN jr
    BY <2>1, RunningFacts DEF ScanPhases
  <2>3. PICK h \in Reconciled(hist, Added(hist), Snapshot) : jr' = [jr EXCEPT ![proc.op] = h]
    BY <1>3 DEF ReconcileE3, Journal
  <2>4. History(h) /\ h.phase = "RECONCILED" /\ h.snapshot = Snapshot
    BY <2>2, <2>3, ReconciledMakes
  <2>5. proc' = Idle /\ events' = <<>> /\ sep' = sep /\ host' = host
    BY <1>3 DEF ReconcileE3, Exit, store
  <2>6. Steps(proc.op, h)
    BY <2>1, <2>2, <2>3, <2>4 DEF Steps, Runs
  <2>7. Ends(h)
    BY <2>2, <2>5 DEF Ends
  <2>8. Leaves(proc.op, h)
    <3>1. Snapshot' = Snapshot
      BY <2>5 DEF Snapshot
    <3>2. Listed(events') /\ DOMAIN events' = {}
      BY <2>5, ListedEmpty
    <3> QED BY <2>2, <2>4, <2>5, <3>1, <3>2 DEF Leaves, hist, Inv, Types
  <2> QED BY <2>6, <2>7, <2>8, StepInv
<1> QED BY <1>1, <1>2, <1>3

-----------------------------------------------------------------------------
(* Recovery. *)

\* The commands that finish what --recover-local-transaction began.
LEMMA FinishLocalInv ==
    ASSUME Inv, FinishLocal
    PROVE  Inv'
<1>1. proc.at = "local"
  BY DEF FinishLocal, DiscardLocal, RefuseDiscard, RollLocalForward
<1>2. proc.cmd # "none" /\ hist.phase = "OUTCOME_UNKNOWN"
  BY <1>1, StandsRuns, RunningFacts
<1>3. Exit /\ UNCHANGED <<jr, sep>>
  BY DEF FinishLocal, DiscardLocal, RefuseDiscard, RollLocalForward, store
<1> QED BY <1>2, <1>3, ExitInv

\* A new connection keeps the SEP's identities.
LEMMA ConnectedFacts ==
    ASSUME Inv
    PROVE  {"ids", "scan"} \subseteq DOMAIN Connected /\ Connected.ids = sep.ids /\ Connected.scan = 0
BY DEF Inv, Types, Connected

\* An open operation is taken up: its journal is open and no command runs.
Takes(o) == o \in DOMAIN jr /\ Open(jr[o]) /\ proc = Idle

\* The sole unfinished or pending operation is taken up.
LEMMA SoleTakes ==
    ASSUME NEW o \in DOMAIN jr, proc = Idle, Sole(Unfinished, o) \/ Sole(PendingPostReboot, o)
    PROVE  Takes(o)
<1>1. o \in Unfinished \/ o \in PendingPostReboot
  BY DEF Sole
<1> QED BY <1>1 DEF Takes, Open, Unfinished, PendingPostReboot

\* It is reconciled or verified, and no command is left.
LEMMA SettlesInv ==
    ASSUME Inv, NEW o, Takes(o), NEW h, History(h), jr' = [jr EXCEPT ![o] = h],
           \/ h.phase = "RECONCILED" /\ h.snapshot = Snapshot
           \/ h.phase = "POST_REBOOT_VERIFIED",
           host.ids = sep.ids, sep' = Connected, UNCHANGED <<proc, host, events>>
    PROVE  Inv'
<1>1. Steps(o, h)
  BY DEF Steps, Takes
<1>2. {"ids", "scan"} \subseteq DOMAIN sep' /\ sep'.ids = sep.ids /\ sep'.scan = 0
  BY ConnectedFacts
<1>3. Ends(h)
  BY <1>2 DEF Ends, Takes
<1>4. Snapshot' = Snapshot
  BY <1>2 DEF Snapshot
<1>5. Leaves(o, h)
  BY <1>2, <1>4 DEF Leaves, Inv, Types
<1> QED BY <1>1, <1>3, <1>5, StepInv

\* It is taken up by a command that goes on.
LEMMA TakesUpInv ==
    ASSUME Inv, NEW o, Takes(o), NEW h, History(h), jr' = [jr EXCEPT ![o] = h],
           UNCHANGED <<host, events>>,
           \/ /\ h.phase \in {"TERMINAL_IDENTITY", "OUTCOME_UNKNOWN"} /\ sep' = Connected
              /\ proc' = [cmd |-> "observe", op |-> o, at |-> "run"]
           \/ /\ h.phase = "OUTCOME_UNKNOWN" /\ sep' = sep
              /\ proc' = [cmd |-> "local", op |-> o, at |-> "local"]
    PROVE  Inv'
<1>1. Steps(o, h)
  BY DEF Steps, Takes
<1>2. /\ {"ids", "scan"} \subseteq DOMAIN sep'
      /\ sep'.scan = 0 \/ (h.phase = "OUTCOME_UNKNOWN" /\ sep' = sep)
  BY ConnectedFacts DEF Inv, Types
<1>3. GoesOn(o, h)
  <2>1. /\ proc' \in [cmd : {"enroll", "observe", "local"}, op : {o}, at : Places]
        /\ proc'.at = "local" => h.phase = "OUTCOME_UNKNOWN"
    BY DEF Places
  <2>2. h.phase \in {"TERMINAL_IDENTITY", "OUTCOME_UNKNOWN"}
    OBVIOUS
  <2> QED BY <1>2, <2>1, <2>2 DEF GoesOn, Working, ScanPhases
<1>4. Leaves(o, h)
  <2>1. Blocks(h) /\ h.phase # "RECONCILED"
    BY DEF Blocks
  <2> QED BY <1>2, <2>1 DEF Leaves, Inv, Types, Scan
<1> QED BY <1>1, <1>3, <1>4, StepInv

\* The recovery commands.
LEMMA RecoverInv ==
    ASSUME Inv, Recover
    PROVE  Inv'
<1>0. \A o \in DOMAIN jr : History(jr[o])
  BY DEF Inv, Types
<1>1. CASE ReconcileOutcomeUnknown
  <2>1. PICK o \in DOMAIN jr :
            /\ proc = Idle /\ Sole(Unfinished, o)
            /\ classify(jr[o], ReadbackUnknown(jr[o]))
            /\ \E h \in RecoveryReconciled(jr[o], Added(jr[o]), Snapshot) :
                  jr' = [jr EXCEPT ![o] = h]
            /\ sep' = Connected
            /\ UNCHANGED <<proc, store, events, boot, sent>>
    BY <1>1, Zenon DEF ReconcileOutcomeUnknown
  <2>2. PICK h \in RecoveryReconciled(jr[o], Added(jr[o]), Snapshot) : jr' = [jr EXCEPT ![o] = h]
    BY <2>1, Zenon
  <2>3. History(h) /\ h.phase = "RECONCILED" /\ h.snapshot = Snapshot
    BY <1>0, <2>2, ReconciledMakes
  <2>4. host.ids = sep.ids /\ Takes(o)
    BY <2>1, SoleTakes DEF classify
  <2> QED BY <2>1, <2>2, <2>3, <2>4, SettlesInv DEF store
<1>2. CASE RecoverObservedIdentity
  <2>1. PICK o \in DOMAIN jr :
            /\ RecoverCommand(o)
            /\ \E id \in Added(jr[o]) : \E h \in RecoveryReadback(jr[o], id) :
                  jr' = [jr EXCEPT ![o] = h]
    BY <1>2, Zenon DEF RecoverObservedIdentity
  <2>2. PICK id \in Added(jr[o]) : \E h \in RecoveryReadback(jr[o], id) : jr' = [jr EXCEPT ![o] = h]
    BY <2>1, Zenon
  <2>3. PICK h \in RecoveryReadback(jr[o], id) : jr' = [jr EXCEPT ![o] = h]
    BY <2>2, Zenon
  <2>4. History(h) /\ h.phase = "TERMINAL_IDENTITY"
    BY <1>0, <2>3, ScanMilestones DEF Makes
  <2>5. Takes(o)
    BY <2>1, SoleTakes DEF RecoverCommand
  <2> QED BY <2>1, <2>3, <2>4, <2>5, TakesUpInv DEF RecoverCommand, store
<1>3. CASE ResumeEarlyConfirm
  <2>1. PICK o \in DOMAIN jr :
            RecoverCommand(o) /\ \E h \in RecoverEarlyConfirm(jr[o]) : jr' = [jr EXCEPT ![o] = h]
    BY <1>3, Zenon DEF ResumeEarlyConfirm
  <2>2. PICK h \in RecoverEarlyConfirm(jr[o]) : jr' = [jr EXCEPT ![o] = h]
    BY <2>1, Zenon
  <2>3. History(h) /\ h.phase \in {"TERMINAL_IDENTITY", "OUTCOME_UNKNOWN"}
    BY <1>0, <2>2, EarlyMakes DEF Makes
  <2>4. Takes(o)
    BY <2>1, SoleTakes DEF RecoverCommand
  <2> QED BY <2>1, <2>2, <2>3, <2>4, TakesUpInv DEF RecoverCommand, store
<1>4. CASE RecoverLocal
  <2>1. PICK o \in DOMAIN jr :
            /\ proc = Idle /\ Sole(Unfinished, o)
            /\ \/ \E g \in OutcomeUnknown(jr[o], LocalStage(pend.dir)) : jr' = [jr EXCEPT ![o] = g]
               \/ jr[o].phase = "OUTCOME_UNKNOWN" /\ UNCHANGED jr
            /\ proc' = [cmd |-> "local", op |-> o, at |-> "local"]
            /\ UNCHANGED <<store, outside, boot>>
    BY <1>4, Zenon DEF RecoverLocal
  <2>2. Takes(o)
    BY <2>1, SoleTakes
  <2>3. PICK g : History(g) /\ g.phase = "OUTCOME_UNKNOWN" /\ jr' = [jr EXCEPT ![o] = g]
    <3>1. CASE \E g \in OutcomeUnknown(jr[o], LocalStage(pend.dir)) : jr' = [jr EXCEPT ![o] = g]
      <4>1. PICK g \in OutcomeUnknown(jr[o], LocalStage(pend.dir)) : jr' = [jr EXCEPT ![o] = g]
        BY <3>1, Zenon
      <4>2. History(g) /\ g.phase = "OUTCOME_UNKNOWN"
        BY <1>0, <4>1, ScanMilestones DEF Makes
      <4> QED BY <4>1, <4>2
    <3>2. CASE jr[o].phase = "OUTCOME_UNKNOWN" /\ UNCHANGED jr
      <4>1. jr \in Seq(Image(jr))
        BY DEF Inv, Types, Listed
      <4>2. jr = [jr EXCEPT ![o] = jr[o]]
        BY <4>1
      <4> QED BY <1>0, <3>2, <4>2
    <3> QED BY <2>1, <3>1, <3>2
  <2> QED BY <2>1, <2>2, <2>3, TakesUpInv DEF store, outside
<1>5. CASE VerifyPostReboot
  <2>1. PICK o \in DOMAIN jr :
            /\ proc = Idle /\ PostRebootAccepts(o)
            /\ \E h \in PostRebootVerified(jr[o], boot, Snapshot) : jr' = [jr EXCEPT ![o] = h]
            /\ sep' = Connected
            /\ UNCHANGED <<proc, store, events, boot, sent>>
    BY <1>5, Zenon DEF VerifyPostReboot
  <2>2. PICK h \in PostRebootVerified(jr[o], boot, Snapshot) : jr' = [jr EXCEPT ![o] = h]
    BY <2>1, Zenon
  <2>3. History(h) /\ h.phase = "POST_REBOOT_VERIFIED"
    BY <1>0, <2>2, VerifiedMakes DEF Makes
  <2>4. host.ids = sep.ids /\ Takes(o)
    BY <2>1, SoleTakes DEF PostRebootAccepts, classify
  <2> QED BY <2>1, <2>2, <2>3, <2>4, SettlesInv DEF store
<1> QED BY <1>1, <1>2, <1>3, <1>4, <1>5 DEF Recover

-----------------------------------------------------------------------------
(* A new enrollment, the SEP, and the faults. *)

\* A baseline is taken: no other journal is open, and the connection is new.
LEMMA EnrollInv ==
    ASSUME Inv, Enroll
    PROVE  Inv'
<1>0. PICK op : op = Len(jr) + 1
  OBVIOUS
<1>1. PICK h : h = Baseline(boot, host, sep.ids)
  OBVIOUS
<1>2. History(h) /\ h.phase = "BASELINE"
  BY <1>1, BaselineMakes
<1>3. /\ jr' = Append(jr, h) /\ proc = Idle /\ sep' = Connected /\ events' = <<>>
      /\ proc' = [cmd |-> "enroll", op |-> op, at |-> "run"] /\ host' = host
      /\ Unfinished = {} /\ PendingPostReboot = {} /\ sep.ids = host.ids
  BY <1>0, <1>1 DEF Enroll, NoUnfinished, BuildBaseline, store
<1>4. /\ Listed(jr') /\ DOMAIN jr' = DOMAIN jr \cup {op} /\ jr'[op] = h
      /\ op \notin DOMAIN jr /\ \A p \in DOMAIN jr : jr'[p] = jr[p]
  BY <1>0, <1>3, ListedAppend DEF Inv, Types
<1>5. op \in Nat
  BY <1>0 DEF Inv, Types, Listed
<1>6. \A p \in DOMAIN jr : ~Open(jr[p])
  BY <1>3 DEF Unfinished, PendingPostReboot, Open
<1>7. \A p \in DOMAIN jr' : Open(jr[p])' \/ Runs(p)' => p = op
  BY <1>3, <1>4, <1>6 DEF Open, Runs
<1>8. {"ids", "scan"} \subseteq DOMAIN sep' /\ sep'.ids = sep.ids /\ sep'.scan = 0
  BY <1>3, ConnectedFacts
<1>9. Listed(events') /\ DOMAIN events' = {}
  BY <1>3, ListedEmpty
<1>10. Types'
  <2>1. proc' \in [cmd : {"none", "enroll", "observe", "local"}, op : Nat, at : Places]
    BY <1>3, <1>5 DEF Places
  <2> QED BY <1>2, <1>4, <1>8, <1>9, <2>1 DEF Types, Inv
<1>11. Alone'
  BY <1>7 DEF Alone
<1>12. Command'
  <2>1. proc'.cmd # "none" /\ proc'.op = op /\ proc'.at # "local"
    BY <1>3
  <2>2. hist' = h
    BY <1>4, <2>1 DEF hist
  <2> QED BY <1>2, <1>3, <1>4, <1>8, <2>1, <2>2 DEF Command, Working
<1>13. Scan'
  BY <1>8, <1>9 DEF Scan
<1>14. Agreeing'
  <2>1. PendingPostReboot' = {}
    BY <1>2, <1>4, <1>6 DEF PendingPostReboot, Open
  <2> QED BY <1>3, <1>8, <2>1 DEF Agreeing
<1> QED BY <1>10, <1>11, <1>12, <1>13, <1>14 DEF Inv

\* An event of the scan, or its end.
LEMMA ScanInv ==
    ASSUME Inv, UNCHANGED <<jr, proc, host>>, sep.scan # 0,
           {"ids", "scan"} \subseteq DOMAIN sep', sep'.scan = 0 \/ sep'.scan = sep.scan,
           Listed(events'),
           \A i \in DOMAIN events' : events'[i].kind \in Terminal => sep'.scan = 0
    PROVE  Inv'
<1>1. \A o \in DOMAIN jr : Open(jr[o]) \/ Runs(o) => jr[o].phase \in ScanPhases
  BY DEF Inv, Scan
<1>2. jr' = jr /\ proc' = proc /\ host' = host /\ \A o : Runs(o)' = Runs(o)
  BY DEF Runs
<1>3. Types'
  BY <1>2 DEF Inv, Types
<1>4. Alone'
  BY <1>2 DEF Inv, Alone
<1>5. Command'
  <2>1. CASE proc = Idle
    BY <1>2, <2>1 DEF Command
  <2>2. CASE proc # Idle
    <3>1. hist' = hist
      BY <1>2 DEF hist
    <3>2. proc.cmd # "none" /\ proc.op \in DOMAIN jr
      BY <2>2 DEF Inv, Command
    <3>3. hist.phase \in ScanPhases
      BY <3>2, RunningFacts
    <3> QED BY <1>2, <3>1, <3>2, <3>3, RunningFacts DEF Command, ScanPhases
  <2> QED BY <2>1, <2>2
<1>6. Scan'
  BY <1>1, <1>2 DEF Scan
<1>7. Agreeing'
  <2>1. PendingPostReboot' = {}
    BY <1>1, <1>2 DEF PendingPostReboot, Open, ScanPhases
  <2>2. ~ \A o \in DOMAIN jr : ~Blocks(jr[o])
    BY DEF Inv, Agreeing
  <2> QED BY <1>2, <2>1, <2>2 DEF Agreeing
<1> QED BY <1>3, <1>4, <1>5, <1>6, <1>7 DEF Inv

\* The SEP's own steps.
LEMMA SepInv ==
    ASSUME Inv, SepEvent \/ SepFinish
    PROVE  Inv'
<1>0. {"ids", "scan"} \subseteq DOMAIN sep /\ sep.scan # 0 /\ UNCHANGED <<jr, proc, host>>
  BY DEF Inv, Types, SepEvent, SepFinish, store
<1>1. ASSUME NEW kind, Emit(kind)
      PROVE  /\ Listed(events')
             /\ (\E i \in DOMAIN events' : events'[i].kind \in Terminal) => kind \in Terminal
  <2>1. CASE proc = Idle
    BY <1>1, <2>1, ListedEmpty DEF Emit
  <2>2. CASE proc # Idle
    <3>1. PICK e : e = [kind |-> kind, seq |-> sep.seq + 1]
      OBVIOUS
    <3>2. events' = Append(events, e) /\ e.kind = kind /\ Listed(events)
      BY <1>1, <2>2, <3>1 DEF Emit, Inv, Types
    <3>3. /\ Listed(events') /\ DOMAIN events' = DOMAIN events \cup {Len(events) + 1}
          /\ events'[Len(events) + 1] = e /\ \A i \in DOMAIN events : events'[i] = events[i]
      BY <3>2, ListedAppend
    <3>4. \A i \in DOMAIN events : events[i].kind \notin Terminal
      BY <1>0 DEF Inv, Scan
    <3> QED BY <3>2, <3>3, <3>4
  <2> QED BY <2>1, <2>2
<1>2. CASE SepEvent
  <2>1. PICK kind \in {"ambient", "feedback", "progress", "malformed"} : Emit(kind)
    BY <1>2 DEF SepEvent
  <2>2. kind \notin Terminal
    BY DEF Terminal
  <2>3. sep' = [sep EXCEPT !.seq = @ + 1]
    BY <1>2 DEF SepEvent
  <2>4. {"ids", "scan"} \subseteq DOMAIN sep' /\ sep'.scan = sep.scan
    BY <1>0, <2>3
  <2> QED BY <1>0, <1>1, <2>1, <2>2, <2>4, ScanInv
<1>3. CASE SepFinish
  <2>1. PICK kind, ids, dirty :
            Emit(kind) /\ sep' = [sep EXCEPT !.scan = 0, !.ids = ids, !.dirty = dirty]
    BY <1>3, Zenon DEF SepFinish
  <2>2. {"ids", "scan"} \subseteq DOMAIN sep' /\ sep'.scan = 0
    BY <1>0, <2>1
  <2> QED BY <1>0, <1>1, <2>1, <2>2, ScanInv
<1> QED BY <1>2, <1>3

\* The command is killed, or the machine restarts.
LEMMA FaultInv ==
    ASSUME Inv, Crash \/ Reboot
    PROVE  Inv'
<1>1. CASE Crash
  <2>1. proc.cmd # "none"
    BY <1>1 DEF Crash, Inv, Command
  <2> QED BY <1>1, <2>1, ExitInv DEF Crash, store
<1>2. CASE Reboot
  <2>1. jr' = jr /\ host' = host /\ proc' = Idle /\ events' = <<>>
    BY <1>2 DEF Reboot, Exit, store
  <2>2. /\ {"ids", "scan"} \subseteq DOMAIN sep' /\ sep'.scan = 0
        /\ sep'.ids = sep.ids \/ sep'.ids = host.ids
    BY <1>2, ConnectedFacts DEF Reboot
  <2>3. Listed(events') /\ DOMAIN events' = {}
    BY <2>1, ListedEmpty
  <2>4. Types'
    BY <2>1, <2>2, <2>3 DEF Inv, Types, Idle, Places
  <2>5. Alone'
    BY <2>1 DEF Inv, Alone, Runs, Idle
  <2>6. Command' /\ Scan'
    BY <2>1, <2>2, <2>3 DEF Command, Scan
  <2>7. Agreeing'
    <3>1. PendingPostReboot' = PendingPostReboot
      BY <2>1 DEF PendingPostReboot
    <3>2. host.ids = sep.ids => Snapshot' = Snapshot
      BY <2>1, <2>2 DEF Snapshot
    <3> QED BY <2>1, <2>2, <3>1, <3>2 DEF Inv, Agreeing
  <2> QED BY <2>4, <2>5, <2>6, <2>7 DEF Inv
<1> QED BY <1>1, <1>2

\* Nothing happens.
LEMMA StutterInv ==
    ASSUME Inv, UNCHANGED vars
    PROVE  Inv'
<1>1. jr' = jr /\ proc' = proc /\ host' = host /\ sep' = sep /\ events' = events
  BY DEF vars
<1>2. Types' /\ Alone' /\ Command' /\ Scan'
  BY <1>1 DEF Inv, Types, Alone, Runs, Command, Scan, hist
<1>3. Agreeing'
  BY <1>1 DEF Inv, Agreeing, PendingPostReboot, Snapshot
<1> QED BY <1>2, <1>3 DEF Inv

\* Every step preserves the invariant.
LEMMA NextInv == Inv /\ [Next]_vars => Inv'
<1>1. SUFFICES ASSUME Inv, [Next]_vars PROVE Inv'
  OBVIOUS
<1>2. CASE Enroll
  BY <1>1, <1>2, EnrollInv
<1>3. CASE Operate
  BY <1>1, <1>3, StartInv, CommandsInv, UnknownInv, EventsInv DEF Operate
<1>4. CASE Save
  BY <1>1, <1>4, ReadBackInv, UnknownInv, SaveRecordsInv, SaveDispatchInv, SaveHostInv, FreezeInv
     DEF Save
<1>5. CASE FinishLocal
  BY <1>1, <1>5, FinishLocalInv
<1>6. CASE Recover
  BY <1>1, <1>6, RecoverInv
<1>7. CASE SepEvent \/ SepFinish
  BY <1>1, <1>7, SepInv
<1>8. CASE Interrupt
  BY <1>1, <1>8, CommandsInv, UnknownInv, FaultInv DEF Interrupt
<1>9. CASE UNCHANGED vars
  BY <1>1, <1>9, StutterInv
<1> QED BY <1>1, <1>2, <1>3, <1>4, <1>5, <1>6, <1>7, <1>8, <1>9 DEF Next

-----------------------------------------------------------------------------

\* The invariant holds in every behaviour.
LEMMA SpecInv == Spec => []Inv
BY InitInv, NextInv, PTL DEF Spec

\* At most one journal is unfinished or waits for its reboot (OneUnfinished),
\* for any number of enrollments, boots, events and identities: what
\* require_no_unfinished_enrollment looks at before a baseline is taken is
\* enough, also for a command that is killed between two records and for the
\* recovery commands, which take up the journal that they find.
THEOREM EnrollmentOneUnfinished == Spec => []OneUnfinished
<1>1. ASSUME Inv PROVE OneUnfinished
  <2>1. PICK S : S = Unfinished \cup PendingPostReboot
    OBVIOUS
  <2>2. \A o, p \in S : o = p
    BY <1>1, <2>1 DEF Inv, Alone, Open, Unfinished, PendingPostReboot
  <2>3. CASE S = {}
    BY <2>1, <2>3, FS_EmptySet DEF OneUnfinished
  <2>4. CASE S # {}
    <3>1. PICK o : S = {o}
      BY <2>2, <2>4
    <3> QED BY <2>1, <3>1, FS_Singleton DEF OneUnfinished
  <2> QED BY <2>3, <2>4
<1>2. Inv => OneUnfinished
  BY <1>1
<1> QED BY <1>2, SpecInv, PTL

\* What a reconciled identity waits to have verified after the reboot stays as
\* it was (PendingSnapshotHolds): no scan is left to end, no command changes the
\* host, and a SEP that restarts finds the identities it had.
THEOREM EnrollmentPendingSnapshotHolds == Spec => []PendingSnapshotHolds
<1>1. Inv => PendingSnapshotHolds
  BY DEF Inv, Agreeing, PendingSnapshotHolds
<1> QED BY <1>1, SpecInv, PTL

\* The SEP and the host disagree on the identities only while a journal blocks
\* every other mutation (DisagreementBlocks): the intent to start is durable
\* before the start is sent, and a scan that outlives its command ends under a
\* journal that is not settled.
THEOREM EnrollmentDisagreementBlocks == Spec => []DisagreementBlocks
<1>1. Inv => DisagreementBlocks
  BY DEF Inv, Agreeing, DisagreementBlocks
<1> QED BY <1>1, SpecInv, PTL

-----------------------------------------------------------------------------
(* The save: the tracker, the files in prepare/ or commit/, and what of it   *)
(* the SEP has been told.                                                    *)

\* Where a save may be: in the identity plan's two batches, or in the refresh.
Early(t) == t.batches = IdentityPlan /\ t.batch = 1 /\ t.component = 1
Placed(t) ==
    \/ t.batches = IdentityPlan /\ t.batch = 1 /\ t.component \in {1, 2}
    \/ t.batches = IdentityPlan /\ t.batch = 2 /\ t.component = 1
    \/ t.batches = FailurePlan /\ t.batch = 1 /\ t.component = 1

TrackerFields ==
    {"phase", "batches", "batch", "component", "staged", "stage", "commitPossible", "attested"}

\* The components of the batch that come before the current one.
Before(t) == IF t.component = 1 THEN {} ELSE {"user"}

BeforeStaging ==
    {"COMPONENT_READY", "PREPARE_INTENT", "PREPARED", "COMPLETE_INTENT", "SECURE_BLOB_CAPTURED"}
AfterStaging == {"HOST_STAGED", "CONFIRM_INTENT", "BATCH_COMMIT_INTENT"}
Concluding == {"BATCH_COMMIT_INTENT", "BATCH_COMMITTED", "FINAL_CONFIRM_INTENT"}

\* The journaled hashes are those of the components staged so far; only the user
\* component is confirmed early, and only a whole batch is committed.
Tracker(t) ==
    /\ TrackerFields \subseteq DOMAIN t
    /\ t.phase = "NOT_STARTED" => t.staged = {} /\ t.batches = <<>>
    /\ t.phase # "NOT_STARTED" => Placed(t)
    /\ t.phase \in BeforeStaging => t.staged = Before(t)
    /\ t.phase \in AfterStaging => t.staged = Before(t) \cup {Current(t)}
    /\ t.phase = "CONFIRM_INTENT" \/ (t.phase = "OUTCOME_UNKNOWN" /\ t.stage = "early-confirm") =>
          Early(t) /\ t.staged = {"user"}
    /\ t.phase \in Concluding => ~Early(t)

\* What a place says of the component and of its batch.
LEMMA Places3 ==
    ASSUME NEW t, Placed(t)
    PROVE  /\ Early(t) => Current(t) = "user" /\ ~FinalComponent(t)
           /\ ~Early(t) => FinalComponent(t)
           /\ Current(t) = "master" => t.batches = IdentityPlan /\ t.batch = 1 /\ t.component = 2
           /\ t.batches = IdentityPlan /\ t.batch = 1 /\ t.component = 2 => Current(t) = "master"
<1>1. CASE t.batches = IdentityPlan /\ t.batch = 1 /\ t.component = 1
  <2>1. CurrentBatch(t) = <<"user", "master">>
    BY <1>1 DEF CurrentBatch, IdentityPlan
  <2> QED BY <1>1, <2>1 DEF Early, Current, FinalComponent
<1>2. CASE t.batches = IdentityPlan /\ t.batch = 1 /\ t.component = 2
  <2>1. CurrentBatch(t) = <<"user", "master">>
    BY <1>2 DEF CurrentBatch, IdentityPlan
  <2> QED BY <1>2, <2>1 DEF Early, Current, FinalComponent
<1>3. CASE \/ t.batches = IdentityPlan /\ t.batch = 2 /\ t.component = 1
           \/ t.batches = FailurePlan /\ t.batch = 1 /\ t.component = 1
  <2>1. CurrentBatch(t) = <<"biolockout">>
    BY <1>3 DEF CurrentBatch, IdentityPlan, FailurePlan
  <2>2. Current(t) = "biolockout" /\ FinalComponent(t)
    BY <1>3, <2>1 DEF Current, FinalComponent
  <2>3. ~Early(t)
    BY <1>3 DEF Early, IdentityPlan, FailurePlan
  <2> QED BY <1>3, <2>2, <2>3 DEF IdentityPlan, FailurePlan
<1> QED BY <1>1, <1>2, <1>3 DEF Placed

\* A milestone that moves nothing but the phase.
SamePlace(t, u) ==
    /\ DOMAIN u = DOMAIN t
    /\ u.batches = t.batches /\ u.batch = t.batch /\ u.component = t.component

\* What depends on the place alone stays.
LEMMA SamePlaceFacts ==
    ASSUME NEW t, NEW u, SamePlace(t, u)
    PROVE  /\ Placed(t) => Placed(u)
           /\ Early(t) <=> Early(u)
           /\ Before(u) = Before(t) /\ Current(u) = Current(t) /\ FinalComponent(u) = FinalComponent(t)
BY DEF SamePlace, Placed, Early, Before, Current, CurrentBatch, FinalComponent

\* A phase is changed.
LEMMA AdvanceTracks ==
    ASSUME NEW t, Tracker(t), NEW to, NEW u, u = [t EXCEPT !.phase = to]
    PROVE  SamePlace(t, u) /\ u.phase = to /\ u.staged = t.staged /\ u.stage = t.stage
BY DEF Tracker, TrackerFields, SamePlace

\* The milestones that move the phase alone.
MovesTo(t, T, from, to) ==
    \A u \in T : /\ Tracker(u) /\ SamePlace(t, u) /\ u.staged = t.staged
                 /\ t.phase = from /\ u.phase = to

\* They keep the tracker's shape: only the user component is confirmed early, and
\* only the last component of a batch leads to its commit.
LEMMA MoveTracks ==
    ASSUME NEW t, Tracker(t)
    PROVE  /\ MovesTo(t, PrepareIntent(t), "COMPONENT_READY", "PREPARE_INTENT")
           /\ MovesTo(t, Prepared(t), "PREPARE_INTENT", "PREPARED")
           /\ MovesTo(t, CompleteIntent(t), "PREPARED", "COMPLETE_INTENT")
           /\ MovesTo(t, BlobCaptured(t), "COMPLETE_INTENT", "SECURE_BLOB_CAPTURED")
           /\ MovesTo(t, ConfirmIntent(t), "HOST_STAGED", "CONFIRM_INTENT")
           /\ MovesTo(t, CommitIntent(t), "HOST_STAGED", "BATCH_COMMIT_INTENT")
           /\ MovesTo(t, Committed(t), "BATCH_COMMIT_INTENT", "BATCH_COMMITTED")
           /\ MovesTo(t, FinalConfirmIntent(t), "BATCH_COMMITTED", "FINAL_CONFIRM_INTENT")
<1>1. ASSUME NEW from \in BeforeStaging, NEW to \in BeforeStaging, from # "NOT_STARTED"
      PROVE  MovesTo(t, Advance(t, from, to), from, to)
  <2>1. SUFFICES ASSUME t.phase = from, NEW u, u = [t EXCEPT !.phase = to]
                 PROVE  Tracker(u) /\ SamePlace(t, u) /\ u.staged = t.staged /\ u.phase = to
    BY DEF MovesTo, Advance, Only
  <2>2. SamePlace(t, u) /\ u.phase = to /\ u.staged = t.staged
    BY <2>1, AdvanceTracks
  <2>3. Placed(u) /\ Before(u) = Before(t)
    BY <1>1, <2>1, <2>2, SamePlaceFacts DEF Tracker
  <2> QED BY <1>1, <2>1, <2>2, <2>3
          DEF Tracker, SamePlace, BeforeStaging, AfterStaging, Concluding
<1>2. ASSUME NEW from \in Concluding, NEW to \in {"BATCH_COMMITTED", "FINAL_CONFIRM_INTENT"}
      PROVE  MovesTo(t, Advance(t, from, to), from, to)
  <2>1. SUFFICES ASSUME t.phase = from, NEW u, u = [t EXCEPT !.phase = to]
                 PROVE  Tracker(u) /\ SamePlace(t, u) /\ u.staged = t.staged /\ u.phase = to
    BY DEF MovesTo, Advance, Only
  <2>2. SamePlace(t, u) /\ u.phase = to /\ u.staged = t.staged
    BY <2>1, AdvanceTracks
  <2>3. Placed(u) /\ ~Early(u)
    BY <1>2, <2>1, <2>2, SamePlaceFacts DEF Tracker, Concluding
  <2> QED BY <1>2, <2>1, <2>2, <2>3
          DEF Tracker, SamePlace, BeforeStaging, AfterStaging, Concluding
<1>3. ASSUME NEW to \in {"CONFIRM_INTENT", "BATCH_COMMIT_INTENT"},
             FinalComponent(t) <=> to = "BATCH_COMMIT_INTENT", t.phase = "HOST_STAGED",
             NEW u, u = [t EXCEPT !.phase = to]
      PROVE  Tracker(u) /\ SamePlace(t, u) /\ u.staged = t.staged /\ u.phase = to
  <2>1. SamePlace(t, u) /\ u.phase = to /\ u.staged = t.staged
    BY <1>3, AdvanceTracks
  <2>2. Placed(t) /\ t.staged = Before(t) \cup {Current(t)}
    BY <1>3 DEF Tracker, AfterStaging
  <2>3. Placed(u) /\ (Early(u) <=> Early(t)) /\ u.staged = Before(u) \cup {Current(u)}
    BY <2>1, <2>2, SamePlaceFacts
  <2>4. Early(t) <=> to = "CONFIRM_INTENT"
    BY <1>3, <2>2, Places3
  <2>5. Early(t) => t.staged = {"user"}
    BY <2>2, Places3 DEF Early, Before
  <2> QED BY <1>3, <2>1, <2>2, <2>3, <2>4, <2>5
          DEF Tracker, SamePlace, BeforeStaging, AfterStaging, Concluding
<1>4. MovesTo(t, ConfirmIntent(t), "HOST_STAGED", "CONFIRM_INTENT")
  BY <1>3 DEF MovesTo, ConfirmIntent, Only
<1>5. MovesTo(t, CommitIntent(t), "HOST_STAGED", "BATCH_COMMIT_INTENT")
  BY <1>3 DEF MovesTo, CommitIntent, Only
<1>6. /\ MovesTo(t, PrepareIntent(t), "COMPONENT_READY", "PREPARE_INTENT")
      /\ MovesTo(t, Prepared(t), "PREPARE_INTENT", "PREPARED")
      /\ MovesTo(t, CompleteIntent(t), "PREPARED", "COMPLETE_INTENT")
      /\ MovesTo(t, BlobCaptured(t), "COMPLETE_INTENT", "SECURE_BLOB_CAPTURED")
  BY <1>1 DEF PrepareIntent, Prepared, CompleteIntent, BlobCaptured, BeforeStaging
<1>7. /\ MovesTo(t, Committed(t), "BATCH_COMMIT_INTENT", "BATCH_COMMITTED")
      /\ MovesTo(t, FinalConfirmIntent(t), "BATCH_COMMITTED", "FINAL_CONFIRM_INTENT")
  BY <1>2 DEF Committed, FinalConfirmIntent, Concluding
<1> QED BY <1>4, <1>5, <1>6, <1>7

\* The plan is journaled.
LEMMA PlanTracks ==
    ASSUME NEW t, Tracker(t), NEW batches \in {IdentityPlan, FailurePlan}, NEW u \in Plan(t, batches)
    PROVE  Tracker(u) /\ u.phase = "COMPONENT_READY" /\ u.batches = batches /\ u.component = 1
           /\ t.phase = "NOT_STARTED" /\ u.staged = {}
<1>1. /\ t.phase = "NOT_STARTED" /\ TrackerFields \subseteq DOMAIN t /\ t.staged = {}
      /\ u = [t EXCEPT !.phase = "COMPONENT_READY", !.batches = batches, !.batch = 1, !.component = 1]
  BY DEF Plan, Only, Tracker
<1>2. /\ DOMAIN u = DOMAIN t /\ u.phase = "COMPONENT_READY" /\ u.batches = batches
      /\ u.batch = 1 /\ u.component = 1 /\ u.staged = t.staged
  BY <1>1 DEF TrackerFields
<1> QED BY <1>1, <1>2 DEF Tracker, Placed, Before, BeforeStaging, AfterStaging, Concluding

\* The hash of a staged component is journaled.
LEMMA StageTracks ==
    ASSUME NEW t, Tracker(t), NEW u \in HostStaged(t)
    PROVE  /\ Tracker(u) /\ SamePlace(t, u) /\ u.staged = t.staged \cup {Current(t)}
           /\ u.phase = "HOST_STAGED" /\ t.phase = "SECURE_BLOB_CAPTURED"
<1>0. PICK c : c = Current(t)
  OBVIOUS
<1>1. /\ t.phase = "SECURE_BLOB_CAPTURED" /\ TrackerFields \subseteq DOMAIN t
      /\ u = [t EXCEPT !.phase = "HOST_STAGED", !.staged = @ \cup {c}]
  BY <1>0 DEF HostStaged, Only, Tracker
<1>2. SamePlace(t, u) /\ u.phase = "HOST_STAGED" /\ u.staged = t.staged \cup {c}
  BY <1>1 DEF TrackerFields, SamePlace
<1>3. Placed(u) /\ Before(u) = t.staged /\ Current(u) = c
  BY <1>0, <1>1, <1>2, SamePlaceFacts DEF Tracker, BeforeStaging
<1> QED BY <1>0, <1>1, <1>2, <1>3 DEF Tracker, SamePlace, BeforeStaging, AfterStaging, Concluding

\* The early confirm is observed, or recovered: the next component is master.
LEMMA ConfirmTracks ==
    ASSUME NEW t, Tracker(t), NEW u \in Confirmed(t) \cup EarlyConfirmRecovered(t)
    PROVE  /\ Tracker(u) /\ u.phase = "COMPONENT_READY" /\ u.staged = t.staged /\ Early(t)
           /\ u.component = 2 /\ u.batches = IdentityPlan /\ u.batch = 1
<1>1. /\ Early(t) /\ t.staged = {"user"} /\ TrackerFields \subseteq DOMAIN t
      /\ \/ u = [t EXCEPT !.phase = "COMPONENT_READY", !.component = @ + 1]
         \/ u = [t EXCEPT !.phase = "COMPONENT_READY", !.component = @ + 1, !.stage = "none"]
  BY DEF Confirmed, EarlyConfirmRecovered, Only, Tracker
<1>2. /\ DOMAIN u = DOMAIN t /\ u.phase = "COMPONENT_READY" /\ u.batches = t.batches
      /\ u.batch = t.batch /\ u.component = t.component + 1 /\ u.staged = t.staged
  <2>1. CASE u = [t EXCEPT !.phase = "COMPONENT_READY", !.component = @ + 1]
    BY <1>1, <2>1 DEF TrackerFields
  <2>2. CASE u = [t EXCEPT !.phase = "COMPONENT_READY", !.component = @ + 1, !.stage = "none"]
    BY <1>1, <2>2 DEF TrackerFields
  <2> QED BY <1>1, <2>1, <2>2
<1>3. u.component = 2
  BY <1>1, <1>2 DEF Early
<1> QED BY <1>1, <1>2, <1>3 DEF Tracker, Early, Placed, Before, BeforeStaging, AfterStaging, Concluding

\* The final confirm is observed: the next batch, or the read-back.
LEMMA FinalTracks ==
    ASSUME NEW t, Tracker(t), NEW u \in FinalConfirmed(t)
    PROVE  /\ Tracker(u) /\ u.batches = t.batches
           /\ \/ u.phase = "COMPONENT_READY" /\ u.component = 1 /\ u.batch = 2 /\ u.staged = {}
              \/ u.phase = "ATTESTATION_READY"
<1>1. t.phase = "FINAL_CONFIRM_INTENT" /\ TrackerFields \subseteq DOMAIN t /\ Placed(t) /\ ~Early(t)
  BY DEF FinalConfirmed, Only, Tracker, Concluding
<1>2. CASE t.batch < Len(t.batches)
  <2>1. u = [t EXCEPT !.phase = "COMPONENT_READY", !.batch = @ + 1, !.component = 1, !.staged = {}]
    BY <1>1, <1>2 DEF FinalConfirmed, Only
  <2>2. /\ DOMAIN u = DOMAIN t /\ u.phase = "COMPONENT_READY" /\ u.batches = t.batches
        /\ u.batch = t.batch + 1 /\ u.component = 1 /\ u.staged = {}
    BY <1>1, <2>1 DEF TrackerFields
  <2>3. Len(IdentityPlan) = 2 /\ Len(FailurePlan) = 1
    BY DEF IdentityPlan, FailurePlan
  <2>4. t.batches = IdentityPlan /\ t.batch = 1
    <3>0. PICK n, b : n = Len(t.batches) /\ b = t.batch /\ b < n
      BY <1>2
    <3>1. ~(t.batches = FailurePlan /\ t.batch = 1)
      <4>1. n = 1 /\ b = 1 => FALSE
        BY <3>0
      <4> QED BY <2>3, <3>0, <4>1, Zenon
    <3>2. ~(t.batches = IdentityPlan /\ t.batch = 2)
      <4>1. n = 2 /\ b = 2 => FALSE
        BY <3>0
      <4> QED BY <2>3, <3>0, <4>1, Zenon
    <3> QED BY <1>1, <3>1, <3>2 DEF Placed
  <2> QED BY <1>1, <2>2, <2>4 DEF Tracker, Placed, Early, Before, BeforeStaging, AfterStaging, Concluding
<1>3. CASE ~(t.batch < Len(t.batches))
  <2>1. u = [t EXCEPT !.phase = "ATTESTATION_READY"]
    BY <1>1, <1>3 DEF FinalConfirmed, Only
  <2>2. SamePlace(t, u) /\ u.phase = "ATTESTATION_READY"
    BY <2>1, AdvanceTracks
  <2>3. Placed(u)
    BY <1>1, <2>2, SamePlaceFacts
  <2> QED BY <1>1, <2>2, <2>3 DEF Tracker, SamePlace, BeforeStaging, AfterStaging, Concluding
<1> QED BY <1>2, <1>3

\* The read-back is attested.
LEMMA AttestTracks ==
    ASSUME NEW t, Tracker(t), NEW u \in Attested(t)
    PROVE  Tracker(u) /\ u.phase = "COMPLETE" /\ u.batches = t.batches
<1>1. /\ t.phase = "ATTESTATION_READY" /\ TrackerFields \subseteq DOMAIN t /\ Placed(t)
      /\ u = [t EXCEPT !.phase = "COMPLETE", !.attested = TRUE]
  BY DEF Attested, Only, Tracker
<1>2. SamePlace(t, u) /\ u.phase = "COMPLETE"
  BY <1>1 DEF TrackerFields, SamePlace
<1>3. Placed(u)
  BY <1>1, <1>2, SamePlaceFacts
<1> QED BY <1>1, <1>2, <1>3 DEF Tracker, SamePlace, BeforeStaging, AfterStaging, Concluding

\* The save is frozen, as an early confirm only after its intent.
LEMMA FreezeTracks ==
    ASSUME NEW t, Tracker(t), NEW stage, NEW possible, NEW u \in Freeze(t, stage, possible),
           stage = "early-confirm" => t.phase = "CONFIRM_INTENT"
    PROVE  Tracker(u) /\ u.phase = "OUTCOME_UNKNOWN"
<1>1. /\ t.phase # "NOT_STARTED" /\ TrackerFields \subseteq DOMAIN t /\ Placed(t)
      /\ u = [t EXCEPT !.phase = "OUTCOME_UNKNOWN", !.stage = stage, !.commitPossible = possible]
  BY DEF Freeze, Only, Tracker
<1>2. SamePlace(t, u) /\ u.phase = "OUTCOME_UNKNOWN" /\ u.stage = stage /\ u.staged = t.staged
  BY <1>1 DEF TrackerFields, SamePlace
<1>3. Placed(u) /\ (Early(u) <=> Early(t))
  BY <1>1, <1>2, SamePlaceFacts
<1>4. stage = "early-confirm" => Early(t) /\ t.staged = {"user"}
  BY DEF Tracker
<1> QED BY <1>1, <1>2, <1>3, <1>4 DEF Tracker, SamePlace, BeforeStaging, AfterStaging, Concluding

\* The phases before the end of a scan is known.
Beginning ==
    {"BASELINE", "START_INTENT", "ACTIVE", "CONTINUE_INTENT", "CANCEL_INTENT",
     "CANCEL_REQUESTED", "TERMINAL_WITNESS"}

\* A save begins after the scan, and a scan whose end is unknown has no save
\* under way.
Linked(h) ==
    /\ Tracker(h.persistence)
    /\ h.phase \in Beginning => h.persistence.phase = "NOT_STARTED" /\ h.identity = NoIdentity
    /\ h.phase = "OUTCOME_UNKNOWN" /\ h.unknown = "terminal" =>
          h.persistence.phase \in {"NOT_STARTED", "OUTCOME_UNKNOWN"}

\* What the directory of the transaction holds while the command saves.
Holds(p, dir, files) == p.dir = dir /\ p.files = files

Shelved(t, at, p) ==
    /\ t.phase = "COMPONENT_READY" =>
          Holds(p, "prepare", t.staged) \/ (p.dir = "none" /\ t.component = 1)
    /\ t.phase \in {"PREPARE_INTENT", "PREPARED", "COMPLETE_INTENT", "HOST_STAGED",
                    "CONFIRM_INTENT"} => Holds(p, "prepare", t.staged)
    /\ t.phase = "SECURE_BLOB_CAPTURED" =>
          \/ at \in {"run", "staging"} /\ Holds(p, "prepare", t.staged)
          \/ at = "staged" /\ Holds(p, "prepare", t.staged \cup {Current(t)})
    /\ t.phase = "BATCH_COMMIT_INTENT" =>
          \/ at = "cross" /\ Holds(p, "prepare", t.staged)
          \/ at = "promote" /\ Holds(p, "commit", t.staged)
          \/ at = "crossed" /\ p.dir = "none"
    /\ t.phase \in {"BATCH_COMMITTED", "FINAL_CONFIRM_INTENT"} => p.dir = "none"

\* The direction of a local recovery is the one that is journaled.
Directed(h, p) ==
    /\ p.dir # "none" /\ h.unknown = LocalStage(p.dir)
    /\ p.dir = "commit" => h.persistence.phase = "BATCH_COMMIT_INTENT"

\* The first batch of a new identity is in the host root.
Crossed(t, at) ==
    /\ t.batches = IdentityPlan /\ t.batch = 1
    /\ \/ t.phase \in {"BATCH_COMMITTED", "FINAL_CONFIRM_INTENT"}
       \/ t.phase = "BATCH_COMMIT_INTENT" /\ at = "crossed"

\* What a command that runs knows of the SEP's identities.
Knows(o, h, at, root, s) ==
    /\ h.phase \in Beginning => s.ids \subseteq h.ids \cup {o} /\ s.scan \in {0, o}
    /\ h.phase \in SavePhases /\ (h.identity # NoIdentity \/ h.persistence.batches = IdentityPlan) =>
          s.ids \subseteq h.ids \cup {h.identity}
    /\ h.phase \in SavePhases /\ Crossed(h.persistence, at) => h.identity \in root.ids

Stands(o, h, at, p, root, s) ==
    /\ h.phase \in SavePhases => Shelved(h.persistence, at, p)
    /\ at = "local" => Directed(h, p)
    /\ Knows(o, h, at, root, s)

\* A journaled commit is of the files that are there, if any are.
Commits(t, p) == t.phase = "BATCH_COMMIT_INTENT" => p.dir = "none" \/ p.files = t.staged

Shapes ==
    /\ "dirty" \in DOMAIN sep /\ IsFiniteSet(sep.ids) /\ IsFiniteSet(host.ids)
    /\ {"dir", "files"} \subseteq DOMAIN pend

SaveInv ==
    /\ Inv /\ Shapes
    /\ \A o \in DOMAIN jr : Linked(jr[o]) /\ jr[o].ids \subseteq host.ids
    /\ \A o \in DOMAIN jr : Open(jr[o]) \/ Runs(o) => Commits(jr[o].persistence, pend)
    /\ proc.cmd # "none" => Stands(proc.op, hist, proc.at, pend, host, sep)
    /\ ConfirmedIsDurable

\* A step on the operation o, which is open or has the running command.
Leads(o, h) ==
    /\ Linked(h) /\ h.ids = jr[o].ids /\ host.ids \subseteq host'.ids
    /\ Commits(h.persistence, pend')
    /\ \/ proc' = Idle
       \/ proc'.op = o /\ Stands(o, h, proc'.at, pend', host', sep')
    /\ ConfirmedIsDurable' /\ Shapes'

\* Such a step preserves the invariant.
LEMMA StepSaved ==
    ASSUME SaveInv, Inv', NEW o, NEW h, Steps(o, h), Leads(o, h)
    PROVE  SaveInv'
<1>1. /\ DOMAIN jr' = DOMAIN jr /\ jr'[o] = h
      /\ \A p \in DOMAIN jr : p # o => jr'[p] = jr[p]
  BY ListedExcept DEF SaveInv, Inv, Types, Steps
<1>2. o \in DOMAIN jr /\ (Open(jr[o]) \/ Runs(o))
  BY DEF Steps
<1>3. \A p \in DOMAIN jr' : Linked(jr'[p]) /\ jr'[p].ids \subseteq host'.ids
  BY <1>1, <1>2 DEF SaveInv, Leads
<1>4. \A p \in DOMAIN jr' : Open(jr'[p]) \/ Runs(p)' => p = o
  <2>1. \A p \in DOMAIN jr : p # o => ~Open(jr[p])
    BY <1>2 DEF SaveInv, Inv, Alone
  <2> QED BY <1>1, <2>1 DEF Leads, Runs, Idle
<1>5. \A p \in DOMAIN jr' : Open(jr'[p]) \/ Runs(p)' => Commits(jr'[p].persistence, pend')
  BY <1>1, <1>4 DEF Leads
<1>6. proc'.cmd # "none" => Stands(proc'.op, hist', proc'.at, pend', host', sep')
  BY <1>1 DEF Leads, Idle, hist
<1> QED BY <1>3, <1>5, <1>6 DEF SaveInv, Leads

\* The record is the only thing that changes, and the command goes on or ends.
LEMMA WroteSaved ==
    ASSUME SaveInv, Inv', proc.cmd # "none", NEW H, Journal(H), UNCHANGED <<host, pend, sep>>,
           \A h \in H : /\ History(h) /\ Linked(h) /\ h.ids = hist.ids
                        /\ Commits(h.persistence, pend)
                        /\ \/ proc' = Idle
                           \/ /\ proc'.op = proc.op
                              /\ Stands(proc.op, h, proc'.at, pend, host, sep)
    PROVE  SaveInv'
<1>1. PICK h \in H : jr' = [jr EXCEPT ![proc.op] = h]
  BY DEF Journal
<1>2. proc.op \in DOMAIN jr
  BY RunningFacts DEF SaveInv
<1>3. Steps(proc.op, h)
  BY <1>1, <1>2 DEF Steps, Runs
<1>4. ConfirmedIsDurable' /\ Shapes'
  BY DEF SaveInv, Shapes, ConfirmedIsDurable
<1>5. Leads(proc.op, h)
  <2>1. h.ids = jr[proc.op].ids
    BY DEF hist
  <2> QED BY <1>4, <2>1 DEF Leads
<1> QED BY <1>3, <1>5, StepSaved

\* The journals stay.
LEMMA StaySaved ==
    ASSUME SaveInv, Inv', proc.cmd # "none", UNCHANGED jr, host.ids \subseteq host'.ids,
           Commits(saved, pend'),
           \/ proc' = Idle
           \/ proc'.op = proc.op /\ Stands(proc.op, hist, proc'.at, pend', host', sep'),
           ConfirmedIsDurable', Shapes'
    PROVE  SaveInv'
<1>1. proc.op \in DOMAIN jr /\ History(hist)
  BY RunningFacts DEF SaveInv
<1>2. jr = [jr EXCEPT ![proc.op] = hist]
  <2>1. Listed(jr) /\ jr \in Seq(Image(jr))
    BY DEF SaveInv, Inv, Types, Listed
  <2> QED BY <1>1, <2>1 DEF hist
<1>3. Steps(proc.op, hist)
  BY <1>1, <1>2 DEF Steps, Runs
<1>4. Leads(proc.op, hist)
  <2>1. hist = jr[proc.op] /\ Linked(hist)
    BY <1>1 DEF hist, SaveInv
  <2> QED BY <2>1 DEF Leads, saved
<1> QED BY <1>3, <1>4, StepSaved

\* What the milestones of a scan keep of a history.
Keeps(h, H) ==
    \A g \in H : /\ h.phase \in Beginning /\ g.ids = h.ids /\ g.persistence = h.persistence
                 /\ g.identity = h.identity
Gives(h, H, id) ==
    \A g \in H : g.ids = h.ids /\ g.persistence = h.persistence /\ g.identity = id

\* None but a result gives the history an identity.
LEMMA ScanKeeps ==
    ASSUME NEW h, History(h), NEW seq, NEW id
    PROVE  /\ Keeps(h, AbortedBeforeStart(h)) /\ Keeps(h, StartIntent(h))
           /\ Keeps(h, StartObserved(h)) /\ Keeps(h, StartRejected(h))
           /\ Keeps(h, ContinueIntent(h, seq)) /\ Keeps(h, ContinueObserved(h))
           /\ Keeps(h, CancelIntent(h)) /\ Keeps(h, CancelObserved(h))
           /\ Keeps(h, ResultWitnessed(h, seq)) /\ Keeps(h, TerminalFailure(h, seq))
           /\ Gives(h, TerminalIdentity(h, seq, id), id) /\ Gives(h, WitnessReadback(h, id), id)
           /\ Gives(h, RecoveryReadback(h, id), id)
<1>1. Keeps(h, AbortedBeforeStart(h)) /\ Keeps(h, StartIntent(h)) /\ Keeps(h, StartObserved(h))
  BY DEF Keeps, Beginning, AbortedBeforeStart, StartIntent, StartObserved, From, Only, History, Fields
<1>2. Keeps(h, StartRejected(h))
  BY DEF Keeps, Beginning, StartRejected, From, Only, History, Fields
<1>3. Keeps(h, ContinueIntent(h, seq))
  BY DEF Keeps, Beginning, ContinueIntent, From, Only, History, Fields
<1>4. Keeps(h, ContinueObserved(h))
  BY DEF Keeps, Beginning, ContinueObserved, From, Only, History, Fields
<1>5. Keeps(h, CancelIntent(h)) /\ Keeps(h, CancelObserved(h))
  BY DEF Keeps, Beginning, CancelIntent, CancelObserved, From, Only, History, Fields
<1>6. Keeps(h, ResultWitnessed(h, seq))
  BY DEF Keeps, Beginning, ResultWitnessed, Running, Only, History, Fields
<1>7. Keeps(h, TerminalFailure(h, seq))
  BY DEF Keeps, Beginning, TerminalFailure, Running, Only, History, Fields
<1>8. Gives(h, TerminalIdentity(h, seq, id), id)
  BY DEF Gives, TerminalIdentity, Only, History, Fields
<1>9. Gives(h, WitnessReadback(h, id), id)
  BY DEF Gives, WitnessReadback, From, Only, History, Fields
<1>10. Gives(h, RecoveryReadback(h, id), id)
  BY DEF Gives, RecoveryReadback, Only, History, Fields
<1> QED BY <1>1, <1>2, <1>3, <1>4, <1>5, <1>6, <1>7, <1>8, <1>9, <1>10

\* The outcome becomes unknown.
LEMMA UnknownKeeps ==
    ASSUME NEW h, History(h), Linked(h), NEW stage, NEW g \in OutcomeUnknown(h, stage)
    PROVE  /\ g.ids = h.ids /\ g.persistence = h.persistence /\ g.unknown = stage /\ Linked(g)
           /\ g.phase = "OUTCOME_UNKNOWN"
<1>1. /\ g = [h EXCEPT !.phase = "OUTCOME_UNKNOWN", !.unknown = stage]
      /\ h.phase \in Beginning \/ stage \in LocalStages
  BY DEF OutcomeUnknown, Only, Beginning
<1>2. /\ g.ids = h.ids /\ g.persistence = h.persistence /\ g.unknown = stage
      /\ g.phase = "OUTCOME_UNKNOWN"
  BY <1>1 DEF History, Fields
<1> QED BY <1>1, <1>2 DEF Linked, LocalStages, Beginning

\* A milestone of the save keeps the rest of the history.
LEMMA PersistKeeps ==
    ASSUME NEW h, History(h), Linked(h), NEW T, \A t \in T : Tracker(t), NEW g \in Persist(h, T)
    PROVE  /\ g.ids = h.ids /\ g.identity = h.identity /\ g.persistence \in T /\ Linked(g)
           /\ h.identity # NoIdentity \/ h.failed
           /\ g.phase \in SavePhases => g.persistence.phase # "COMPLETE"
<1>1. PICK t \in T : /\ g = [h EXCEPT !.persistence = t, !.phase = PhaseOf(t, FALSE)]
                     /\ h.identity # NoIdentity \/ h.failed
  BY DEF Persist
<1>2. PICK x : x = PhaseOf(t, FALSE)
  OBVIOUS
<1>3. /\ x \in {"PERSISTING", "OUTCOME_UNKNOWN", "PERSISTENCE_READY"}
      /\ x = "OUTCOME_UNKNOWN" => t.phase = "OUTCOME_UNKNOWN"
      /\ x = "PERSISTING" => t.phase # "COMPLETE"
  BY <1>2 DEF PhaseOf
<1>4. g.phase = x /\ g.persistence = t /\ g.ids = h.ids /\ g.identity = h.identity
  <2>1. g = [h EXCEPT !.persistence = t, !.phase = x]
    BY <1>1, <1>2
  <2> QED BY <2>1 DEF History, Fields
<1> QED BY <1>1, <1>3, <1>4 DEF Linked, Beginning, SavePhases

\* A resumed save.
LEMMA EarlyKeeps ==
    ASSUME NEW h, History(h), Linked(h), NEW g \in RecoverEarlyConfirm(h)
    PROVE  /\ g.ids = h.ids /\ g.identity = h.identity /\ Linked(g) /\ g.phase = "TERMINAL_IDENTITY"
           /\ g.persistence \in EarlyConfirmRecovered(h.persistence)
<1>1. PICK t \in EarlyConfirmRecovered(h.persistence) :
          g = [h EXCEPT !.persistence = t, !.phase = PhaseOf(t, TRUE)]
  BY DEF RecoverEarlyConfirm
<1>2. Tracker(t) /\ t.phase = "COMPONENT_READY"
  BY ConfirmTracks DEF Linked
<1>3. PICK x : x = PhaseOf(t, TRUE)
  OBVIOUS
<1>4. x = "TERMINAL_IDENTITY"
  BY <1>2, <1>3 DEF PhaseOf
<1>5. g.phase = x /\ g.persistence = t /\ g.ids = h.ids /\ g.identity = h.identity
  <2>1. g = [h EXCEPT !.persistence = t, !.phase = x]
    BY <1>1, <1>3
  <2> QED BY <2>1 DEF History, Fields
<1> QED BY <1>2, <1>4, <1>5 DEF Linked, Beginning

\* E3 and E4.
LEMMA SettledKeeps ==
    ASSUME NEW h, History(h), Linked(h), NEW added, NEW snapshot, NEW b,
           NEW g \in Reconciled(h, added, snapshot) \cup RecoveryReconciled(h, added, snapshot)
                        \cup PostRebootVerified(h, b, snapshot)
    PROVE  g.ids = h.ids /\ g.persistence = h.persistence /\ Linked(g)
<1>1. /\ g.ids = h.ids /\ g.persistence = h.persistence
      /\ g.phase \in {"RECONCILED", "POST_REBOOT_VERIFIED"}
  BY DEF Reconciled, RecoveryReconciled, PostRebootVerified, Only, History, Fields
<1> QED BY <1>1 DEF Linked, Beginning

-----------------------------------------------------------------------------
(* The steps of a scan, again. *)

\* What holds of the running command's save.
LEMMA RunningSaved ==
    ASSUME SaveInv, proc.cmd # "none"
    PROVE  /\ Inv /\ Shapes /\ History(hist) /\ Linked(hist) /\ hist.ids \subseteq host.ids
           /\ Stands(proc.op, hist, proc.at, pend, host, sep)
           /\ Commits(saved, pend) /\ Tracker(saved) /\ saved = hist.persistence
           /\ proc.op \in DOMAIN jr
<1>1. proc.op \in DOMAIN jr /\ History(hist) /\ Runs(proc.op)
  BY RunningFacts DEF SaveInv, Runs
<1> QED BY <1>1 DEF SaveInv, hist, saved, Linked

\* Nothing is staged before the scan is over.
LEMMA NothingSaved == ASSUME NEW t, Tracker(t), t.phase = "NOT_STARTED", NEW at, NEW p
                      PROVE  /\ Shelved(t, at, p) /\ Commits(t, p) /\ ~Crossed(t, at)
                             /\ t.batches # IdentityPlan
BY DEF Shelved, Commits, Crossed, Tracker, IdentityPlan

\* A milestone of the scan other than a result.
LEMMA KeepsSaved ==
    ASSUME SaveInv, Inv', proc.cmd # "none", NEW H, Journal(H), Keeps(hist, H),
           NEW p \in Beginning \cup {"TERMINAL_FAILURE", "ABORTED_BEFORE_START"}, Makes(H, {p}),
           UNCHANGED <<host, pend, sep>>,
           proc' = Idle \/ (proc'.op = proc.op /\ proc'.at # "local")
    PROVE  SaveInv'
<1>1. SUFFICES ASSUME NEW h \in H
               PROVE  /\ History(h) /\ Linked(h) /\ h.ids = hist.ids
                      /\ Commits(h.persistence, pend)
                      /\ proc'.at # "local" => Stands(proc.op, h, proc'.at, pend, host, sep)
  BY WroteSaved
<1>2. /\ History(h) /\ h.phase = p /\ hist.phase \in Beginning /\ h.ids = hist.ids
      /\ h.persistence = saved /\ h.identity = hist.identity
  BY DEF Makes, Keeps, saved
<1>3. /\ Tracker(saved) /\ saved.phase = "NOT_STARTED" /\ hist.identity = NoIdentity
      /\ Knows(proc.op, hist, proc.at, host, sep)
  BY <1>2, RunningSaved DEF Linked, Stands
<1>4. Linked(h)
  BY <1>2, <1>3 DEF Linked, Beginning
<1>5. /\ Shelved(saved, proc'.at, pend) /\ Commits(saved, pend) /\ ~Crossed(saved, proc'.at)
      /\ saved.batches # IdentityPlan
  BY <1>3, NothingSaved
<1>6. Knows(proc.op, h, proc'.at, host, sep)
  BY <1>2, <1>3, <1>5 DEF Knows
<1> QED BY <1>2, <1>4, <1>5, <1>6 DEF Stands

\* The result of the scan.
LEMMA GivesSaved ==
    ASSUME SaveInv, Inv', proc.cmd # "none", hist.phase \in Beginning,
           NEW H, Journal(H), NEW id, Gives(hist, H, id), Makes(H, {"TERMINAL_IDENTITY"}),
           UNCHANGED <<host, pend, sep>>, proc'.op = proc.op, proc'.at # "local",
           sep.ids \subseteq hist.ids \cup {id}
    PROVE  SaveInv'
<1>1. SUFFICES ASSUME NEW h \in H
               PROVE  /\ History(h) /\ Linked(h) /\ h.ids = hist.ids
                      /\ Commits(h.persistence, pend)
                      /\ Stands(proc.op, h, proc'.at, pend, host, sep)
  BY WroteSaved
<1>2. /\ History(h) /\ h.phase = "TERMINAL_IDENTITY" /\ h.ids = hist.ids
      /\ h.persistence = saved /\ h.identity = id
  BY DEF Makes, Gives, saved
<1>3. Tracker(saved) /\ saved.phase = "NOT_STARTED"
  BY <1>2, RunningSaved DEF Linked
<1>4. Linked(h)
  BY <1>2, <1>3 DEF Linked, Beginning
<1>5. Shelved(saved, proc'.at, pend) /\ Commits(saved, pend) /\ ~Crossed(saved, proc'.at)
  BY <1>3, NothingSaved
<1>6. Knows(proc.op, h, proc'.at, host, sep)
  BY <1>2, <1>5 DEF Knows, Beginning
<1> QED BY <1>2, <1>4, <1>5, <1>6 DEF Stands

\* The outcome is not known.
LEMMA UnknownSaved ==
    ASSUME SaveInv, Inv',
           ReplyUnknown \/ LoopUnknown \/ RejectEvent \/ TerminalUnrecorded \/ WitnessUnknown
    PROVE  SaveInv'
<1>1. proc.cmd # "none"
  BY StandsRuns
     DEF SaveInv, ReplyUnknown, LoopUnknown, RejectEvent, TerminalUnrecorded, WitnessUnknown,
         Replied, Arrived, At
<1>2. PICK stage : RecordAndExit(OutcomeUnknown(hist, stage))
  BY DEF ReplyUnknown, LoopUnknown, RejectEvent, TerminalUnrecorded, WitnessUnknown
<1>3. PICK H : H = OutcomeUnknown(hist, stage)
  OBVIOUS
<1>4. Journal(H) /\ UNCHANGED <<host, pend, sep>> /\ proc' = Idle
  BY <1>2, <1>3 DEF RecordAndExit, Exit, store
<1>5. \A h \in H : History(h) /\ Linked(h) /\ h.ids = hist.ids /\ Commits(h.persistence, pend)
  <2>1. Makes(H, {"OUTCOME_UNKNOWN"})
    BY <1>1, <1>3, RunningSaved, ScanMilestones
  <2>2. \A h \in H : h.ids = hist.ids /\ h.persistence = saved /\ Linked(h)
    BY <1>1, <1>3, RunningSaved, UnknownKeeps
  <2> QED BY <1>1, <2>1, <2>2, RunningSaved DEF Makes
<1> QED BY <1>1, <1>4, <1>5, WroteSaved

\* The command ends, or is stopped.
LEMMA ExitSaved ==
    ASSUME SaveInv, Inv', proc.cmd # "none", Exit, UNCHANGED <<jr, host, pend, sep>>
    PROVE  SaveInv'
<1>1. proc' = Idle /\ Commits(saved, pend')
  BY RunningSaved DEF Exit
<1>2. ConfirmedIsDurable' /\ Shapes'
  BY DEF SaveInv, Shapes, ConfirmedIsDurable
<1> QED BY <1>1, <1>2, StaySaved

\* The command goes on in a scan, which a command of its own may have started.
LEMMA GoesOnSaved ==
    ASSUME SaveInv, Inv', proc.cmd # "none", hist.phase \in Beginning, UNCHANGED <<jr, host, pend>>,
           proc'.op = proc.op, proc'.at # "local",
           sep' = sep \/ sep' = [sep EXCEPT !.scan = proc.op]
    PROVE  SaveInv'
<1>1. {"ids", "scan"} \subseteq DOMAIN sep /\ "dirty" \in DOMAIN sep
  BY DEF SaveInv, Inv, Types, Shapes
<1>2. /\ sep'.ids = sep.ids /\ sep'.dirty = sep.dirty /\ DOMAIN sep' = DOMAIN sep
      /\ sep'.scan \in {sep.scan, proc.op}
  BY <1>1
<1>3. ConfirmedIsDurable' /\ Shapes'
  BY <1>2 DEF SaveInv, Shapes, ConfirmedIsDurable
<1>4. /\ Tracker(saved) /\ saved.phase = "NOT_STARTED" /\ hist.identity = NoIdentity
      /\ saved = hist.persistence /\ Knows(proc.op, hist, proc.at, host, sep)
  BY RunningSaved DEF Linked, Stands
<1>5. Shelved(saved, proc'.at, pend') /\ Commits(saved, pend') /\ ~Crossed(saved, proc'.at)
  BY <1>4, NothingSaved
<1>6. Stands(proc.op, hist, proc'.at, pend', host', sep')
  <2>1. hist.phase \notin SavePhases
    BY DEF Beginning, SavePhases
  <2>2. Knows(proc.op, hist, proc'.at, host', sep')
    BY <1>2, <1>4, <2>1 DEF Knows
  <2> QED BY <2>1, <2>2 DEF Stands
<1> QED BY <1>3, <1>5, <1>6, StaySaved

\* The command goes on to another place.
LEMMA GotoFacts == ASSUME Inv, NEW at, Goto(at) PROVE proc'.op = proc.op /\ proc'.at = at
BY DEF Inv, Types, Goto

\* What a record of the running command leaves alone.
LEMMA RecordFacts ==
    ASSUME Inv, NEW H, NEW at, Record(H, at) \/ RecordEvent(H, at)
    PROVE  Journal(H) /\ UNCHANGED <<host, pend, sep>> /\ proc'.op = proc.op /\ proc'.at = at
<1>1. Goto(at) /\ Journal(H) /\ UNCHANGED <<host, pend, sep>>
  BY DEF Record, RecordEvent, store, outside
<1> QED BY <1>1, GotoFacts

\* E1 and the commands of an active scan.
LEMMA StartSaved ==
    ASSUME SaveInv, Inv',
           \/ CapacityExhausted \/ AbortBeforeStart \/ IntendStart \/ DispatchStart \/ ObserveStart
           \/ RequestCancel \/ DispatchCancel \/ ObserveCancel \/ DispatchContinue \/ ObserveContinue
    PROVE  SaveInv'
<1>0. /\ proc.cmd # "none"
      /\ hist.phase \in {"BASELINE", "START_INTENT", "ACTIVE", "CANCEL_INTENT", "CONTINUE_INTENT"}
  BY DEF CapacityExhausted, AbortBeforeStart, IntendStart, DispatchStart, ObserveStart, RequestCancel,
         DispatchCancel, ObserveCancel, DispatchContinue, ObserveContinue, At
<1>1. Inv /\ History(hist) /\ hist.phase \in Beginning
  BY <1>0, RunningSaved DEF Beginning
<1>2. CASE CapacityExhausted
  BY <1>0, <1>2, ExitSaved DEF CapacityExhausted, store
<1>3. CASE AbortBeforeStart
  <2>1. /\ Makes(AbortedBeforeStart(hist), {"ABORTED_BEFORE_START"})
        /\ Keeps(hist, AbortedBeforeStart(hist))
    BY <1>1, ScanMilestones, ScanKeeps
  <2>2. Journal(AbortedBeforeStart(hist)) /\ proc' = Idle /\ UNCHANGED <<host, pend, sep>>
    BY <1>3 DEF AbortBeforeStart, RecordAndExit, Exit, store
  <2> QED BY <1>0, <2>1, <2>2, KeepsSaved
<1>4. CASE DispatchStart \/ DispatchCancel \/ DispatchContinue
  <2>1. UNCHANGED <<jr, host, pend>> /\ (sep' = sep \/ sep' = [sep EXCEPT !.scan = proc.op])
    BY <1>4 DEF DispatchStart, DispatchCancel, DispatchContinue, Dispatch, store
  <2>2. PICK at \in {"ok", "lost", "refused"} : Goto(at)
    BY <1>4 DEF DispatchStart, DispatchCancel, DispatchContinue, Dispatch
  <2>3. proc'.op = proc.op /\ proc'.at # "local"
    BY <1>1, <2>2, GotoFacts
  <2> QED BY <1>0, <1>1, <2>1, <2>3, GoesOnSaved
<1>5. ASSUME IntendStart \/ ObserveStart \/ RequestCancel \/ ObserveCancel \/ ObserveContinue
      PROVE  SaveInv'
  <2>1. /\ Makes(StartIntent(hist), {"START_INTENT"}) /\ Keeps(hist, StartIntent(hist))
        /\ Makes(StartObserved(hist), {"ACTIVE"}) /\ Keeps(hist, StartObserved(hist))
        /\ Makes(StartRejected(hist), {"TERMINAL_FAILURE"}) /\ Keeps(hist, StartRejected(hist))
        /\ Makes(CancelIntent(hist), {"CANCEL_INTENT"}) /\ Keeps(hist, CancelIntent(hist))
        /\ Makes(CancelObserved(hist), {"CANCEL_REQUESTED"}) /\ Keeps(hist, CancelObserved(hist))
        /\ Makes(ContinueObserved(hist), {"ACTIVE"}) /\ Keeps(hist, ContinueObserved(hist))
    BY <1>1, ScanMilestones, ScanKeeps
  <2>2. \E H : /\ \E at \in {"send", "run"} : Record(H, at)
               /\ Keeps(hist, H)
               /\ \E p \in Beginning \cup {"TERMINAL_FAILURE"} : Makes(H, {p})
    <3>1. CASE IntendStart
      BY <2>1, <3>1 DEF IntendStart, Beginning
    <3>2. CASE ObserveStart
      BY <2>1, <3>2 DEF ObserveStart, Beginning
    <3>3. CASE RequestCancel
      BY <2>1, <3>3 DEF RequestCancel, Beginning
    <3>4. CASE ObserveCancel
      BY <2>1, <3>4 DEF ObserveCancel, Beginning
    <3>5. CASE ObserveContinue
      BY <2>1, <3>5 DEF ObserveContinue, Beginning
    <3> QED BY <1>5, <3>1, <3>2, <3>3, <3>4, <3>5
  <2>3. PICK H : /\ \E at \in {"send", "run"} : Record(H, at)
                 /\ Keeps(hist, H)
                 /\ \E p \in Beginning \cup {"TERMINAL_FAILURE"} : Makes(H, {p})
    BY <2>2
  <2>4. PICK at \in {"send", "run"} : Record(H, at)
    BY <2>3
  <2>5. PICK p \in Beginning \cup {"TERMINAL_FAILURE"} : Makes(H, {p})
    BY <2>3
  <2>6. Journal(H) /\ UNCHANGED <<host, pend, sep>> /\ proc'.op = proc.op /\ proc'.at # "local"
    BY <1>1, <2>4, RecordFacts
  <2> QED BY <1>0, <2>3, <2>5, <2>6, KeepsSaved
<1> QED BY <1>2, <1>3, <1>4, <1>5

\* The events of the scan.
LEMMA EventsSaved ==
    ASSUME SaveInv, Inv', IgnoreEvent \/ AcceptProgress \/ AcceptTerminal
    PROVE  SaveInv'
<1>0. proc.cmd # "none" /\ hist.phase \in Beginning /\ Inv /\ proc.at = "run"
  BY StandsRuns
     DEF SaveInv, IgnoreEvent, AcceptProgress, AcceptTerminal, Arrived, Running, Beginning
<1>1. History(hist)
  BY <1>0, RunningSaved
<1>2. CASE IgnoreEvent
  BY <1>0, <1>2, GoesOnSaved DEF IgnoreEvent, store
<1>3. CASE AcceptProgress
  <2>1. PICK H : H = ContinueIntent(hist, Head(events).seq)
    OBVIOUS
  <2>2. Makes(H, {"CONTINUE_INTENT"}) /\ Keeps(hist, H)
    BY <1>1, <2>1, ScanMilestones, ScanKeeps
  <2>3. Journal(H) /\ UNCHANGED <<host, pend, sep>> /\ proc'.op = proc.op /\ proc'.at = "send"
    BY <1>0, <1>3, <2>1, RecordFacts DEF AcceptProgress
  <2> QED BY <1>0, <2>2, <2>3, KeepsSaved DEF Beginning
<1>4. CASE AcceptTerminal
  <2>1. PICK seq : seq = Head(events).seq
    OBVIOUS
  <2>2. CASE RecordEvent(TerminalIdentity(hist, seq, proc.op), "run")
    <3>1. PICK H : H = TerminalIdentity(hist, seq, proc.op)
      OBVIOUS
    <3>2. Makes(H, {"TERMINAL_IDENTITY"}) /\ Gives(hist, H, proc.op)
      BY <1>1, <3>1, ScanMilestones, ScanKeeps
    <3>3. Journal(H) /\ UNCHANGED <<host, pend, sep>> /\ proc'.op = proc.op /\ proc'.at = "run"
      BY <1>0, <2>2, <3>1, RecordFacts
    <3>4. sep.ids \subseteq hist.ids \cup {proc.op}
      BY <1>0, RunningSaved DEF Stands, Knows
    <3> QED BY <1>0, <3>2, <3>3, <3>4, GivesSaved
  <2>3. CASE RecordEvent(ResultWitnessed(hist, seq), "run")
    <3>1. PICK H : H = ResultWitnessed(hist, seq)
      OBVIOUS
    <3>2. Makes(H, {"TERMINAL_WITNESS"}) /\ Keeps(hist, H)
      BY <1>1, <3>1, ScanMilestones, ScanKeeps
    <3>3. Journal(H) /\ UNCHANGED <<host, pend, sep>> /\ proc'.op = proc.op /\ proc'.at = "run"
      BY <1>0, <2>3, <3>1, RecordFacts
    <3> QED BY <1>0, <3>2, <3>3, KeepsSaved DEF Beginning
  <2>4. CASE RecordEvent(TerminalFailure(hist, seq), "run")
    <3>1. PICK H : H = TerminalFailure(hist, seq)
      OBVIOUS
    <3>2. Makes(H, {"TERMINAL_FAILURE"}) /\ Keeps(hist, H)
      BY <1>1, <3>1, ScanMilestones, ScanKeeps
    <3>3. Journal(H) /\ UNCHANGED <<host, pend, sep>> /\ proc'.op = proc.op /\ proc'.at = "run"
      BY <1>0, <2>4, <3>1, RecordFacts
    <3> QED BY <1>0, <3>2, <3>3, KeepsSaved
  <2> QED BY <1>4, <2>1, <2>2, <2>3, <2>4 DEF AcceptTerminal
<1> QED BY <1>2, <1>3, <1>4

\* One identity has been added to a finite set.
LEMMA OneAdded ==
    ASSUME NEW h, IsFiniteSet(sep.ids), ObservedIdentity(h), NEW id \in Added(h)
    PROVE  sep.ids \subseteq h.ids \cup {id}
<1>1. PICK S : S = Added(h)
  OBVIOUS
<1>2. IsFiniteSet(S) /\ Cardinality(S) = 1
  BY <1>1, FS_Subset DEF Added, ObservedIdentity
<1>3. PICK x : S = {x}
  BY <1>2, FS_Singleton
<1> QED BY <1>1, <1>3 DEF Added

\* The witness's read-back.
LEMMA WitnessSaved ==
    ASSUME SaveInv, Inv', AdoptWitness
    PROVE  SaveInv'
<1>1. proc.cmd # "none" /\ hist.phase \in Beginning
  BY DEF AdoptWitness, At, Beginning
<1>2. PICK id \in Added(hist) : Record(WitnessReadback(hist, id), "run")
  BY DEF AdoptWitness
<1>3. PICK H : H = WitnessReadback(hist, id)
  OBVIOUS
<1>4. Makes(H, {"TERMINAL_IDENTITY"}) /\ Gives(hist, H, id)
  BY <1>1, <1>3, RunningSaved, ScanMilestones, ScanKeeps
<1>5. Journal(H) /\ UNCHANGED <<host, pend, sep>> /\ proc'.op = proc.op /\ proc'.at = "run"
  BY <1>1, <1>2, <1>3, RunningSaved, RecordFacts
<1>6. sep.ids \subseteq hist.ids \cup {id}
  BY <1>1, <1>2, RunningSaved, OneAdded DEF Shapes, AdoptWitness
<1> QED BY <1>1, <1>4, <1>5, <1>6, GivesSaved

-----------------------------------------------------------------------------
(* The steps of a save, again. *)

\* A tracker that fits the files and what the command knows.
Goes(u, to) ==
    /\ Tracker(u) /\ Commits(u, pend) /\ Shelved(u, to, pend)
    /\ u.batches = IdentityPlan => hist.identity # NoIdentity \/ saved.batches = IdentityPlan
    /\ Crossed(u, to) => Crossed(saved, proc.at)

\* A milestone of the save that gives such trackers preserves the invariant.
LEMMA SaveWroteSaved ==
    ASSUME SaveInv, Inv', NEW phase, NEW at, Saving(phase, at), NEW T, NEW to,
           \A u \in T : Goes(u, to), Record(Persist(hist, T), to), to # "local"
    PROVE  SaveInv'
<1>1. Inv /\ proc.cmd # "none" /\ hist.phase \in SavePhases
  BY SavingFacts DEF SaveInv
<1>2. PICK H : H = Persist(hist, T)
  OBVIOUS
<1>3. Journal(H) /\ UNCHANGED <<host, pend, sep>> /\ proc'.op = proc.op /\ proc'.at = to
  BY <1>1, <1>2, RecordFacts
<1>4. ASSUME NEW h \in H
      PROVE  /\ History(h) /\ Linked(h) /\ h.ids = hist.ids /\ Commits(h.persistence, pend)
             /\ Stands(proc.op, h, to, pend, host, sep)
  <2>1. History(hist) /\ Linked(hist) /\ Knows(proc.op, hist, proc.at, host, sep)
    BY <1>1, RunningSaved DEF Stands
  <2>2. Tracks(T) /\ \A u \in T : Tracker(u)
    BY DEF Goes, Tracks, Tracker, TrackerFields
  <2>3. History(h) /\ h.phase \in {"PERSISTING", "OUTCOME_UNKNOWN", "PERSISTENCE_READY"}
    BY <1>2, <1>4, <2>1, <2>2, PersistMakes DEF Makes
  <2>4. h.ids = hist.ids /\ h.identity = hist.identity /\ h.persistence \in T /\ Linked(h)
    BY <1>2, <1>4, <2>1, <2>2, PersistKeeps
  <2>5. Goes(h.persistence, to) /\ saved = hist.persistence
    BY <2>4 DEF saved
  <2>6. Knows(proc.op, h, to, host, sep)
    BY <1>1, <2>1, <2>3, <2>4, <2>5 DEF Knows, Goes, Beginning
  <2> QED BY <2>3, <2>4, <2>5, <2>6 DEF Goes, Stands
<1> QED BY <1>1, <1>3, <1>4, WroteSaved

\* What holds of the files at a step of the save.
LEMMA SavingSaved ==
    ASSUME SaveInv, NEW phase, NEW at, Saving(phase, at)
    PROVE  /\ Inv /\ proc.cmd # "none" /\ proc.at = at /\ hist.phase \in SavePhases
           /\ History(hist) /\ Linked(hist) /\ hist.ids \subseteq host.ids
           /\ Tracker(saved) /\ saved = hist.persistence /\ saved.phase = phase
           /\ Shelved(saved, at, pend) /\ Commits(saved, pend)
           /\ Knows(proc.op, hist, at, host, sep)
<1>1. Inv /\ proc.cmd # "none" /\ proc.at = at /\ hist.phase \in SavePhases /\ saved.phase = phase
  BY SavingFacts DEF SaveInv, Saving
<1> QED BY <1>1, RunningSaved DEF Stands

\* A milestone that moves the phase alone, and needs the files that are there.
LEMMA MovesGo ==
    ASSUME NEW T, NEW from, NEW to, NEW place, MovesTo(saved, T, from, to), Tracker(saved),
           \A u \in T : Commits(u, pend) /\ Shelved(u, place, pend) /\ ~Crossed(u, place)
    PROVE  \A u \in T : Goes(u, place)
BY DEF MovesTo, Goes, SamePlace

\* The milestones before the commit.
LEMMA StagingSaved ==
    ASSUME SaveInv, Inv',
           \/ IntendPrepare \/ ObservePrepare \/ IntendComplete \/ CaptureBlob \/ RecordStaged
           \/ IntendConfirm \/ IntendCommit
    PROVE  SaveInv'
<1>1. CASE IntendPrepare
  <2>1. Saving("COMPONENT_READY", "run") /\ pend.dir = "prepare"
    BY <1>1 DEF IntendPrepare
  <2>2. Tracker(saved) /\ Holds(pend, "prepare", saved.staged)
    BY <2>1, SavingSaved DEF Shelved, Holds
  <2>3. PICK T : T = PrepareIntent(saved)
    OBVIOUS
  <2>4. MovesTo(saved, T, "COMPONENT_READY", "PREPARE_INTENT")
    BY <2>2, <2>3, MoveTracks
  <2>5. \A u \in T : Goes(u, "send")
    BY <2>2, <2>4, MovesGo DEF MovesTo, Commits, Shelved, Crossed
  <2> QED BY <1>1, <2>1, <2>3, <2>5, SaveWroteSaved DEF IntendPrepare
<1>2. CASE ObservePrepare
  <2>1. Saving("PREPARE_INTENT", "ok")
    BY <1>2 DEF ObservePrepare
  <2>2. Tracker(saved) /\ Holds(pend, "prepare", saved.staged)
    BY <2>1, SavingSaved DEF Shelved
  <2>3. PICK T : T = Prepared(saved)
    OBVIOUS
  <2>4. MovesTo(saved, T, "PREPARE_INTENT", "PREPARED")
    BY <2>2, <2>3, MoveTracks
  <2>5. \A u \in T : Goes(u, "run")
    BY <2>2, <2>4, MovesGo DEF MovesTo, Commits, Shelved, Crossed
  <2> QED BY <1>2, <2>1, <2>3, <2>5, SaveWroteSaved DEF ObservePrepare
<1>3. CASE IntendComplete
  <2>1. Saving("PREPARED", "run")
    BY <1>3 DEF IntendComplete
  <2>2. Tracker(saved) /\ Holds(pend, "prepare", saved.staged)
    BY <2>1, SavingSaved DEF Shelved
  <2>3. PICK T : T = CompleteIntent(saved)
    OBVIOUS
  <2>4. MovesTo(saved, T, "PREPARED", "COMPLETE_INTENT")
    BY <2>2, <2>3, MoveTracks
  <2>5. \A u \in T : Goes(u, "send")
    BY <2>2, <2>4, MovesGo DEF MovesTo, Commits, Shelved, Crossed
  <2> QED BY <1>3, <2>1, <2>3, <2>5, SaveWroteSaved DEF IntendComplete
<1>4. CASE CaptureBlob
  <2>1. Saving("COMPLETE_INTENT", "ok")
    BY <1>4 DEF CaptureBlob
  <2>2. Tracker(saved) /\ Holds(pend, "prepare", saved.staged)
    BY <2>1, SavingSaved DEF Shelved
  <2>3. PICK T : T = BlobCaptured(saved)
    OBVIOUS
  <2>4. MovesTo(saved, T, "COMPLETE_INTENT", "SECURE_BLOB_CAPTURED")
    BY <2>2, <2>3, MoveTracks
  <2>5. \A u \in T : Goes(u, "run")
    BY <2>2, <2>4, MovesGo DEF MovesTo, Commits, Shelved, Crossed
  <2> QED BY <1>4, <2>1, <2>3, <2>5, SaveWroteSaved DEF CaptureBlob
<1>5. CASE RecordStaged
  <2>1. Saving("SECURE_BLOB_CAPTURED", "staged")
    BY <1>5 DEF RecordStaged
  <2>2. Tracker(saved) /\ Holds(pend, "prepare", saved.staged \cup {Current(saved)})
    BY <2>1, SavingSaved DEF Shelved
  <2>3. PICK T : T = HostStaged(saved)
    OBVIOUS
  <2>4. \A u \in T : Goes(u, "run")
    <3>1. SUFFICES ASSUME NEW u \in T PROVE Goes(u, "run")
      OBVIOUS
    <3>2. /\ Tracker(u) /\ u.batches = saved.batches /\ u.staged = saved.staged \cup {Current(saved)}
          /\ u.phase = "HOST_STAGED"
      BY <2>2, <2>3, <3>1, StageTracks DEF SamePlace
    <3> QED BY <2>2, <3>2 DEF Goes, Commits, Shelved, Crossed
  <2> QED BY <1>5, <2>1, <2>3, <2>4, SaveWroteSaved DEF RecordStaged
<1>6. CASE IntendConfirm
  <2>1. Saving("HOST_STAGED", "run")
    BY <1>6 DEF IntendConfirm
  <2>2. Tracker(saved) /\ Holds(pend, "prepare", saved.staged)
    BY <2>1, SavingSaved DEF Shelved
  <2>3. PICK T : T = ConfirmIntent(saved)
    OBVIOUS
  <2>4. MovesTo(saved, T, "HOST_STAGED", "CONFIRM_INTENT")
    BY <2>2, <2>3, MoveTracks
  <2>5. \A u \in T : Goes(u, "send")
    BY <2>2, <2>4, MovesGo DEF MovesTo, Commits, Shelved, Crossed
  <2> QED BY <1>6, <2>1, <2>3, <2>5, SaveWroteSaved DEF IntendConfirm
<1>7. CASE IntendCommit
  <2>1. Saving("HOST_STAGED", "run")
    BY <1>7 DEF IntendCommit
  <2>2. Tracker(saved) /\ Holds(pend, "prepare", saved.staged)
    BY <2>1, SavingSaved DEF Shelved
  <2>3. PICK T : T = CommitIntent(saved)
    OBVIOUS
  <2>4. MovesTo(saved, T, "HOST_STAGED", "BATCH_COMMIT_INTENT")
    BY <2>2, <2>3, MoveTracks
  <2>5. \A u \in T : Goes(u, "cross")
    BY <2>2, <2>4, MovesGo DEF MovesTo, Commits, Shelved, Crossed, Holds
  <2> QED BY <1>7, <2>1, <2>3, <2>5, SaveWroteSaved DEF IntendCommit
<1> QED BY <1>1, <1>2, <1>3, <1>4, <1>5, <1>6, <1>7

\* The plan, the observed confirms, the commit and the attestation.
LEMMA CommittingSaved ==
    ASSUME SaveInv, Inv',
           \/ PlanPersistence \/ ObserveConfirm \/ RecordCommitted \/ IntendFinalConfirm
           \/ ObserveFinalConfirm \/ Attest
    PROVE  SaveInv'
<1>1. CASE PlanPersistence
  <2>1. Saving("NOT_STARTED", "run") /\ pend.dir = "none" /\ Record(PlanSave(hist), "run")
    BY <1>1 DEF PlanPersistence
  <2>2. Tracker(saved) /\ saved = hist.persistence
    BY <2>1, SavingSaved
  <2>3. PICK plan \in {IdentityPlan, FailurePlan} :
            /\ PlanSave(hist) = Persist(hist, Plan(saved, plan))
            /\ hist.identity = NoIdentity /\ hist.failed => plan = FailurePlan
    BY <2>2 DEF PlanSave
  <2>4. PICK T : T = {u \in Plan(saved, plan) : hist.identity # NoIdentity \/ hist.failed}
    OBVIOUS
  <2>5. Persist(hist, Plan(saved, plan)) = Persist(hist, T)
    BY <2>4 DEF Persist
  <2>6. \A u \in T : Goes(u, "run")
    <3>1. SUFFICES ASSUME NEW u \in T PROVE Goes(u, "run")
      OBVIOUS
    <3>2. u \in Plan(saved, plan) /\ (hist.identity # NoIdentity \/ hist.failed)
      BY <2>4
    <3>3. /\ Tracker(u) /\ u.phase = "COMPONENT_READY" /\ u.batches = plan /\ u.component = 1
      BY <2>2, <3>2, PlanTracks
    <3>4. plan = IdentityPlan => hist.identity # NoIdentity
      BY <2>3, <3>2 DEF IdentityPlan, FailurePlan
    <3> QED BY <2>1, <3>3, <3>4 DEF Goes, Commits, Shelved, Crossed
  <2> QED BY <2>1, <2>3, <2>5, <2>6, SaveWroteSaved
<1>2. CASE ObserveConfirm
  <2>1. Saving("CONFIRM_INTENT", "ok")
    BY <1>2 DEF ObserveConfirm
  <2>2. Tracker(saved) /\ Holds(pend, "prepare", saved.staged)
    BY <2>1, SavingSaved DEF Shelved
  <2>3. PICK T : T = Confirmed(saved)
    OBVIOUS
  <2>4. \A u \in T : Goes(u, "run")
    <3>1. SUFFICES ASSUME NEW u \in T PROVE Goes(u, "run")
      OBVIOUS
    <3>2. Tracker(u) /\ u.phase = "COMPONENT_READY" /\ u.staged = saved.staged /\ Early(saved)
      BY <2>2, <2>3, <3>1, ConfirmTracks
    <3> QED BY <2>2, <3>2 DEF Goes, Commits, Shelved, Crossed, Early
  <2> QED BY <1>2, <2>1, <2>3, <2>4, SaveWroteSaved DEF ObserveConfirm
<1>3. CASE RecordCommitted
  <2>1. Saving("BATCH_COMMIT_INTENT", "crossed")
    BY <1>3 DEF RecordCommitted
  <2>2. /\ Tracker(saved) /\ pend.dir = "none" /\ proc.at = "crossed"
        /\ saved.phase = "BATCH_COMMIT_INTENT"
    BY <2>1, SavingSaved DEF Shelved
  <2>3. PICK T : T = Committed(saved)
    OBVIOUS
  <2>4. MovesTo(saved, T, "BATCH_COMMIT_INTENT", "BATCH_COMMITTED")
    BY <2>2, <2>3, MoveTracks
  <2>5. \A u \in T : Goes(u, "run")
    BY <2>2, <2>4 DEF MovesTo, SamePlace, Goes, Commits, Shelved, Crossed
  <2> QED BY <1>3, <2>1, <2>3, <2>5, SaveWroteSaved DEF RecordCommitted
<1>4. CASE IntendFinalConfirm
  <2>1. Saving("BATCH_COMMITTED", "run")
    BY <1>4 DEF IntendFinalConfirm
  <2>2. Tracker(saved) /\ pend.dir = "none" /\ saved.phase = "BATCH_COMMITTED"
    BY <2>1, SavingSaved DEF Shelved
  <2>3. PICK T : T = FinalConfirmIntent(saved)
    OBVIOUS
  <2>4. MovesTo(saved, T, "BATCH_COMMITTED", "FINAL_CONFIRM_INTENT")
    BY <2>2, <2>3, MoveTracks
  <2>5. \A u \in T : Goes(u, "send")
    BY <2>2, <2>4 DEF MovesTo, SamePlace, Goes, Commits, Shelved, Crossed
  <2> QED BY <1>4, <2>1, <2>3, <2>5, SaveWroteSaved DEF IntendFinalConfirm
<1>5. CASE ObserveFinalConfirm
  <2>1. Saving("FINAL_CONFIRM_INTENT", "ok")
    BY <1>5 DEF ObserveFinalConfirm
  <2>2. Tracker(saved) /\ pend.dir = "none"
    BY <2>1, SavingSaved DEF Shelved
  <2>3. PICK T : T = FinalConfirmed(saved)
    OBVIOUS
  <2>4. \A u \in T : Goes(u, "run")
    <3>1. SUFFICES ASSUME NEW u \in T PROVE Goes(u, "run")
      OBVIOUS
    <3>2. /\ Tracker(u) /\ u.batches = saved.batches
          /\ (u.phase = "COMPONENT_READY" /\ u.component = 1) \/ u.phase = "ATTESTATION_READY"
      BY <2>2, <2>3, <3>1, FinalTracks
    <3> QED BY <2>2, <3>2 DEF Goes, Commits, Shelved, Crossed
  <2> QED BY <1>5, <2>1, <2>3, <2>4, SaveWroteSaved DEF ObserveFinalConfirm
<1>6. CASE Attest
  <2>1. Saving("ATTESTATION_READY", "run")
    BY <1>6 DEF Attest
  <2>2. Tracker(saved)
    BY <2>1, SavingSaved
  <2>3. PICK T : T = Attested(saved)
    OBVIOUS
  <2>4. \A u \in T : Goes(u, "run")
    <3>1. SUFFICES ASSUME NEW u \in T PROVE Goes(u, "run")
      OBVIOUS
    <3>2. Tracker(u) /\ u.phase = "COMPLETE" /\ u.batches = saved.batches
      BY <2>2, <2>3, <3>1, AttestTracks
    <3> QED BY <3>2 DEF Goes, Commits, Shelved, Crossed
  <2> QED BY <1>6, <2>1, <2>3, <2>4, SaveWroteSaved DEF Attest
<1> QED BY <1>1, <1>2, <1>3, <1>4, <1>5, <1>6

\* A file operation of the save, or a command that is sent.
LEMMA MovesSaved ==
    ASSUME SaveInv, Inv', NEW phase, NEW at, Saving(phase, at), UNCHANGED <<jr, host>>,
           proc'.op = proc.op, proc'.at # "local", {"dir", "files"} \subseteq DOMAIN pend',
           Shelved(saved, proc'.at, pend'), Commits(saved, pend'),
           Crossed(saved, proc'.at) => Crossed(saved, at),
           sep'.ids = sep.ids, "dirty" \in DOMAIN sep', ConfirmedIsDurable'
    PROVE  SaveInv'
<1>1. /\ proc.cmd # "none" /\ hist.phase \in SavePhases /\ saved = hist.persistence
      /\ Knows(proc.op, hist, at, host, sep)
  BY SavingSaved
<1>2. Knows(proc.op, hist, proc'.at, host', sep')
  BY <1>1 DEF Knows, Beginning, SavePhases
<1>3. Stands(proc.op, hist, proc'.at, pend', host', sep')
  BY <1>1, <1>2 DEF Stands
<1>4. Shapes'
  BY DEF SaveInv, Shapes
<1> QED BY <1>1, <1>3, <1>4, StaySaved

\* The files are staged, and the directory is renamed.
LEMMA FilesSaved ==
    ASSUME SaveInv, Inv', BeginStage \/ CreateStaged \/ StageComponent \/ CrossBoundary
    PROVE  SaveInv'
<1>0. {"dir", "files"} \subseteq DOMAIN pend /\ "dirty" \in DOMAIN sep /\ Inv
  BY DEF SaveInv, Shapes
<1>1. UNCHANGED <<jr, host, sep>> /\ ConfirmedIsDurable'
  BY DEF BeginStage, CreateStaged, StageComponent, CrossBoundary, outside, SaveInv, ConfirmedIsDurable
<1>2. CASE BeginStage
  <2>1. Saving("COMPONENT_READY", "run") /\ saved.component = 1 /\ proc' = proc
    BY <1>2 DEF BeginStage
  <2>2. Tracker(saved) /\ saved.phase = "COMPONENT_READY" /\ proc.at = "run"
    BY <2>1, SavingSaved
  <2>3. saved.staged = {}
    BY <2>1, <2>2 DEF Tracker, BeforeStaging, Before
  <2>4. pend' = [NoPending EXCEPT !.dir = "prepare"]
    BY <1>2 DEF BeginStage
  <2>5. {"dir", "files"} \subseteq DOMAIN pend' /\ Holds(pend', "prepare", {})
    BY <2>4 DEF NoPending, Holds
  <2>6. Shelved(saved, proc'.at, pend') /\ Commits(saved, pend') /\ ~Crossed(saved, proc'.at)
    BY <2>2, <2>3, <2>5 DEF Shelved, Commits, Crossed
  <2> QED BY <1>0, <1>1, <2>1, <2>2, <2>5, <2>6, MovesSaved
<1>3. CASE CreateStaged
  <2>1. Saving("SECURE_BLOB_CAPTURED", "run") /\ Goto("staging")
    BY <1>3 DEF CreateStaged
  <2>2. /\ saved.phase = "SECURE_BLOB_CAPTURED" /\ Holds(pend, "prepare", saved.staged)
        /\ proc'.op = proc.op /\ proc'.at = "staging"
    BY <1>0, <2>1, SavingSaved, GotoFacts DEF Shelved
  <2>3. pend' = [pend EXCEPT !.torn = TRUE]
    BY <1>3 DEF CreateStaged
  <2>4. {"dir", "files"} \subseteq DOMAIN pend' /\ pend'.dir = pend.dir /\ pend'.files = pend.files
    BY <1>0, <2>3
  <2>5. Shelved(saved, "staging", pend') /\ Commits(saved, pend') /\ ~Crossed(saved, "staging")
    BY <2>2, <2>4 DEF Shelved, Commits, Crossed, Holds
  <2> QED BY <1>0, <1>1, <2>1, <2>2, <2>4, <2>5, MovesSaved
<1>4. CASE StageComponent
  <2>0. PICK c : c = Current(saved)
    OBVIOUS
  <2>1. Saving("SECURE_BLOB_CAPTURED", "staging") /\ Goto("staged")
    BY <1>4 DEF StageComponent
  <2>2. /\ saved.phase = "SECURE_BLOB_CAPTURED" /\ Holds(pend, "prepare", saved.staged)
        /\ proc'.op = proc.op /\ proc'.at = "staged"
    BY <1>0, <2>1, SavingSaved, GotoFacts DEF Shelved
  <2>3. pend' = [pend EXCEPT !.torn = FALSE, !.files = @ \cup {c}]
    BY <1>4, <2>0 DEF StageComponent
  <2>4. {"dir", "files"} \subseteq DOMAIN pend' /\ pend'.dir = pend.dir /\ pend'.files = pend.files \cup {c}
    BY <1>0, <2>3
  <2>5. Shelved(saved, "staged", pend') /\ Commits(saved, pend') /\ ~Crossed(saved, "staged")
    BY <2>0, <2>2, <2>4 DEF Shelved, Commits, Crossed, Holds
  <2> QED BY <1>0, <1>1, <2>1, <2>2, <2>4, <2>5, MovesSaved
<1>5. CASE CrossBoundary
  <2>1. Saving("BATCH_COMMIT_INTENT", "cross") /\ Goto("promote")
    BY <1>5 DEF CrossBoundary
  <2>2. /\ saved.phase = "BATCH_COMMIT_INTENT" /\ Holds(pend, "prepare", saved.staged)
        /\ proc'.op = proc.op /\ proc'.at = "promote"
    BY <1>0, <2>1, SavingSaved, GotoFacts DEF Shelved
  <2>3. pend' = [pend EXCEPT !.dir = "commit"]
    BY <1>5 DEF CrossBoundary
  <2>4. {"dir", "files"} \subseteq DOMAIN pend' /\ pend'.dir = "commit" /\ pend'.files = pend.files
    BY <1>0, <2>3
  <2>5. Shelved(saved, "promote", pend') /\ Commits(saved, pend') /\ ~Crossed(saved, "promote")
    BY <2>2, <2>4 DEF Shelved, Commits, Crossed, Holds
  <2> QED BY <1>0, <1>1, <2>1, <2>2, <2>4, <2>5, MovesSaved
<1> QED BY <1>2, <1>3, <1>4, <1>5

\* The promotion of the files.  A save that commits the user component commits
\* the new identity.
LEMMA PromotedFacts ==
    ASSUME NEW h, NEW root, root = Promoted(h), IsFiniteSet(host.ids)
    PROVE  /\ host.ids \subseteq root.ids /\ IsFiniteSet(root.ids)
           /\ "user" \in pend.files => h.identity \in root.ids
<1>1. root.ids = IF "user" \in pend.files THEN host.ids \cup {h.identity} ELSE host.ids
  BY DEF Promoted
<1>2. IsFiniteSet(host.ids \cup {h.identity})
  BY FS_AddElement
<1> QED BY <1>1, <1>2

\* The command that crossed the boundary promotes the files.
LEMMA RollForwardSaved ==
    ASSUME SaveInv, Inv', RollForward
    PROVE  SaveInv'
<1>1. Saving("BATCH_COMMIT_INTENT", "promote") /\ Goto("crossed")
  BY DEF RollForward
<1>2. /\ Inv /\ proc.cmd # "none" /\ hist.phase \in SavePhases /\ saved = hist.persistence
      /\ Tracker(saved) /\ saved.phase = "BATCH_COMMIT_INTENT"
      /\ Holds(pend, "commit", saved.staged) /\ Knows(proc.op, hist, "promote", host, sep)
  BY <1>1, SavingSaved DEF Shelved
<1>3. proc'.op = proc.op /\ proc'.at = "crossed"
  BY <1>1, <1>2, GotoFacts
<1>4. PICK root : root = Promoted(hist)
  OBVIOUS
<1>5. host' = root /\ pend' = NoPending /\ UNCHANGED <<jr, sep>>
  BY <1>4 DEF RollForward, outside
<1>6. /\ host.ids \subseteq root.ids /\ IsFiniteSet(root.ids)
      /\ "user" \in pend.files => hist.identity \in root.ids
  BY <1>4, PromotedFacts DEF SaveInv, Shapes
<1>7. pend'.dir = "none" /\ {"dir", "files"} \subseteq DOMAIN pend'
  BY <1>5 DEF NoPending
<1>8. Crossed(saved, "crossed") => hist.identity \in root.ids
  <2>1. SUFFICES ASSUME Crossed(saved, "crossed") PROVE "user" \in pend.files
    BY <1>6
  <2>2. Placed(saved) /\ ~Early(saved) /\ saved.staged = Before(saved) \cup {Current(saved)}
    BY <1>2 DEF Tracker, AfterStaging, Concluding
  <2>3. saved.component = 2
    BY <2>1, <2>2 DEF Crossed, Placed, Early, IdentityPlan, FailurePlan
  <2>4. "user" \in saved.staged
    BY <2>2, <2>3 DEF Before
  <2> QED BY <1>2, <2>4 DEF Holds
<1>9. Knows(proc.op, hist, "crossed", root, sep)
  BY <1>2, <1>8 DEF Knows, Beginning, SavePhases
<1>10. Shelved(saved, "crossed", pend') /\ Commits(saved, pend')
  BY <1>2, <1>7 DEF Shelved, Commits
<1>11. Stands(proc.op, hist, proc'.at, pend', host', sep')
  BY <1>2, <1>3, <1>5, <1>9, <1>10 DEF Stands
<1>12. ConfirmedIsDurable' /\ Shapes'
  BY <1>5, <1>6, <1>7 DEF SaveInv, Shapes, ConfirmedIsDurable
<1> QED BY <1>2, <1>3, <1>5, <1>6, <1>10, <1>11, <1>12, StaySaved

\* The commands of the save.  The early confirm is of the user component; when
\* the final one is of master, the new identity is in the host root.
LEMMA SaveDispatchSaved ==
    ASSUME SaveInv, Inv',
           DispatchPrepare \/ DispatchComplete \/ DispatchConfirm \/ DispatchFinalConfirm
    PROVE  SaveInv'
<1>1. PICK phase \in {"PREPARE_INTENT", "COMPLETE_INTENT", "CONFIRM_INTENT", "FINAL_CONFIRM_INTENT"} :
          Saving(phase, "send")
  BY DEF DispatchPrepare, DispatchComplete, DispatchConfirm, DispatchFinalConfirm
<1>2. /\ Inv /\ hist.phase \in SavePhases /\ saved = hist.persistence /\ saved.phase = phase
      /\ Tracker(saved) /\ Shelved(saved, "send", pend) /\ hist.ids \subseteq host.ids
      /\ Knows(proc.op, hist, "send", host, sep)
  BY <1>1, SavingSaved
<1>3. PICK c : c = Current(saved)
  OBVIOUS
<1>4. {"ids", "scan", "dirty"} \subseteq DOMAIN sep /\ {"dir", "files"} \subseteq DOMAIN pend
  BY DEF SaveInv, Inv, Types, Shapes
<1>5. /\ UNCHANGED <<jr, host, pend>>
      /\ \/ sep' = sep
         \/ phase \in {"CONFIRM_INTENT", "FINAL_CONFIRM_INTENT"} /\ sep' = [sep EXCEPT !.dirty = @ \ {c}]
  BY <1>2, <1>3
     DEF DispatchPrepare, DispatchComplete, DispatchConfirm, DispatchFinalConfirm, Dispatch, store,
         Saving, Cleaned
<1>6. PICK at \in {"ok", "lost"} : Goto(at)
  BY DEF DispatchPrepare, DispatchComplete, DispatchConfirm, DispatchFinalConfirm, Dispatch
<1>7. proc'.op = proc.op /\ proc'.at \in {"ok", "lost"}
  BY <1>2, <1>6, GotoFacts
<1>8. /\ sep'.ids = sep.ids /\ "dirty" \in DOMAIN sep'
      /\ \/ sep'.dirty = sep.dirty
         \/ phase \in {"CONFIRM_INTENT", "FINAL_CONFIRM_INTENT"} /\ sep'.dirty = sep.dirty \ {c}
  BY <1>4, <1>5
<1>9. Shelved(saved, proc'.at, pend') /\ Commits(saved, pend')
  BY <1>2, <1>5 DEF Shelved, Commits
<1>10. Crossed(saved, proc'.at) => Crossed(saved, "send")
  BY <1>2 DEF Crossed
<1>11. ConfirmedIsDurable'
  <2>1. CASE phase = "FINAL_CONFIRM_INTENT" /\ c = "master"
    <3>1. Crossed(saved, "send")
      BY <1>2, <1>3, <2>1, Places3 DEF Tracker, Crossed
    <3>2. hist.identity \in host.ids /\ sep.ids \subseteq hist.ids \cup {hist.identity}
      BY <1>2, <3>1 DEF Knows, Crossed
    <3> QED BY <1>2, <1>5, <1>8, <3>2 DEF ConfirmedIsDurable
  <2>2. CASE phase = "CONFIRM_INTENT"
    <3>1. c = "user"
      BY <1>2, <1>3, <2>2, Places3 DEF Tracker
    <3> QED BY <1>5, <1>8, <3>1 DEF SaveInv, ConfirmedIsDurable
  <2>3. CASE c # "master" \/ sep'.dirty = sep.dirty
    BY <1>5, <1>8, <2>3 DEF SaveInv, ConfirmedIsDurable
  <2> QED BY <1>8, <2>1, <2>2, <2>3
<1> QED BY <1>1, <1>4, <1>5, <1>7, <1>8, <1>9, <1>10, <1>11, MovesSaved

\* The save is refused or frozen, or E3 is journaled: the command ends.
LEMMA SaveEndsSaved ==
    ASSUME SaveInv, Inv', RefusePlan \/ FreezeSave \/ ReconcileE3
    PROVE  SaveInv'
<1>1. CASE RefusePlan
  <2>1. proc.cmd # "none"
    BY <1>1, SavingSaved DEF RefusePlan
  <2> QED BY <1>1, <2>1, ExitSaved DEF RefusePlan, store
<1>2. CASE FreezeSave
  <2>1. PICK phase, at, stage, possible :
            /\ Saving(phase, at) /\ (stage = "early-confirm" => phase = "CONFIRM_INTENT")
            /\ RecordAndExit(Persist(hist, Freeze(saved, stage, possible)))
    BY <1>2, Zenon DEF FreezeSave
  <2>2. PICK T : T = Freeze(saved, stage, possible)
    OBVIOUS
  <2>3. PICK H : H = Persist(hist, T)
    OBVIOUS
  <2>4. /\ proc.cmd # "none" /\ History(hist) /\ Linked(hist) /\ Tracker(saved)
        /\ saved.phase = phase
    BY <2>1, SavingSaved
  <2>5. \A u \in T : Tracker(u) /\ u.phase = "OUTCOME_UNKNOWN"
    BY <2>1, <2>2, <2>4, FreezeTracks
  <2>6. Journal(H) /\ UNCHANGED <<host, pend, sep>> /\ proc' = Idle
    BY <2>1, <2>2, <2>3 DEF RecordAndExit, Exit, store
  <2>7. \A h \in H : History(h) /\ Linked(h) /\ h.ids = hist.ids /\ Commits(h.persistence, pend)
    <3>1. Tracks(T)
      BY <2>5 DEF Tracks, Tracker, TrackerFields
    <3>2. \A h \in H : History(h)
      BY <2>3, <2>4, <3>1, PersistMakes DEF Makes
    <3>3. \A h \in H : h.ids = hist.ids /\ h.persistence \in T /\ Linked(h)
      BY <2>3, <2>4, <2>5, PersistKeeps
    <3> QED BY <2>5, <3>2, <3>3 DEF Commits
  <2> QED BY <2>4, <2>6, <2>7, WroteSaved
<1>3. CASE ReconcileE3
  <2>1. proc.cmd # "none"
    BY <1>3 DEF ReconcileE3, At
  <2>2. History(hist) /\ Linked(hist) /\ Commits(saved, pend) /\ saved = hist.persistence
    BY <2>1, RunningSaved
  <2>3. PICK H : H = Reconciled(hist, Added(hist), Snapshot)
    OBVIOUS
  <2>4. Journal(H) /\ UNCHANGED <<host, pend, sep>> /\ proc' = Idle
    BY <1>3, <2>3 DEF ReconcileE3, Exit, store
  <2>5. \A h \in H : History(h) /\ Linked(h) /\ h.ids = hist.ids /\ h.persistence = saved
    BY <2>2, <2>3, ReconciledMakes, SettledKeeps
  <2> QED BY <2>1, <2>2, <2>4, <2>5, WroteSaved
<1> QED BY <1>1, <1>2, <1>3

-----------------------------------------------------------------------------
(* Recovery, again. *)

\* An open operation is taken up: its journal gets a record, and the host and
\* its files stay.
LEMMA TakesSaved ==
    ASSUME SaveInv, Inv', NEW o, Takes(o), NEW h, History(h), jr' = [jr EXCEPT ![o] = h],
           Linked(h), h.ids = jr[o].ids, Commits(h.persistence, pend),
           UNCHANGED <<host, pend>>, sep' = sep \/ sep' = Connected,
           proc' = Idle \/ (proc'.op = o /\ Stands(o, h, proc'.at, pend, host, sep'))
    PROVE  SaveInv'
<1>1. Steps(o, h)
  BY DEF Steps, Takes
<1>2. {"ids", "scan", "dirty"} \subseteq DOMAIN sep
  BY DEF SaveInv, Inv, Types, Shapes
<1>3. sep'.ids = sep.ids /\ sep'.dirty = sep.dirty /\ "dirty" \in DOMAIN sep'
  BY <1>2 DEF Connected
<1>4. Shapes' /\ ConfirmedIsDurable'
  BY <1>3 DEF SaveInv, Shapes, ConfirmedIsDurable
<1> QED BY <1>1, <1>4, StepSaved DEF Leads

\* The recovery commands.
LEMMA RecoverSaved ==
    ASSUME SaveInv, Inv', Recover
    PROVE  SaveInv'
<1>0. ASSUME NEW o, Takes(o)
      PROVE  History(jr[o]) /\ Linked(jr[o]) /\ Commits(jr[o].persistence, pend)
  BY <1>0 DEF SaveInv, Inv, Types, Takes
<1>1. CASE ReconcileOutcomeUnknown
  <2>1. PICK o \in DOMAIN jr :
            /\ proc = Idle /\ Sole(Unfinished, o)
            /\ \E h \in RecoveryReconciled(jr[o], Added(jr[o]), Snapshot) :
                  jr' = [jr EXCEPT ![o] = h]
            /\ sep' = Connected
            /\ UNCHANGED <<proc, store, events, boot, sent>>
    BY <1>1, Zenon DEF ReconcileOutcomeUnknown
  <2>2. PICK h \in RecoveryReconciled(jr[o], Added(jr[o]), Snapshot) : jr' = [jr EXCEPT ![o] = h]
    BY <2>1, Zenon
  <2>3. Takes(o)
    BY <2>1, SoleTakes
  <2>4. History(h) /\ h.ids = jr[o].ids /\ h.persistence = jr[o].persistence /\ Linked(h)
    BY <1>0, <2>2, <2>3, ReconciledMakes, SettledKeeps
  <2> QED BY <1>0, <2>1, <2>2, <2>3, <2>4, TakesSaved DEF store
<1>2. CASE RecoverObservedIdentity
  <2>1. PICK o \in DOMAIN jr :
            /\ RecoverCommand(o)
            /\ \E id \in Added(jr[o]) : \E h \in RecoveryReadback(jr[o], id) :
                  jr' = [jr EXCEPT ![o] = h]
    BY <1>2, Zenon DEF RecoverObservedIdentity
  <2>2. PICK id \in Added(jr[o]) : \E h \in RecoveryReadback(jr[o], id) : jr' = [jr EXCEPT ![o] = h]
    BY <2>1, Zenon
  <2>3. PICK H : H = RecoveryReadback(jr[o], id)
    OBVIOUS
  <2>4. PICK h \in H : jr' = [jr EXCEPT ![o] = h]
    BY <2>2, <2>3, Zenon
  <2>5. Takes(o)
    BY <2>1, SoleTakes DEF RecoverCommand
  <2>6. /\ History(h) /\ h.phase = "TERMINAL_IDENTITY" /\ h.ids = jr[o].ids
        /\ h.persistence = jr[o].persistence /\ h.identity = id
    BY <1>0, <2>3, <2>4, <2>5, ScanMilestones, ScanKeeps DEF Makes, Gives
  <2>7. /\ jr[o].phase = "OUTCOME_UNKNOWN" /\ jr[o].unknown = "terminal"
        /\ proc'.op = o /\ proc'.at = "run" /\ sep' = Connected /\ UNCHANGED <<host, pend>>
    BY <2>1 DEF RecoverCommand, store
  <2>8. /\ Tracker(h.persistence) /\ h.persistence.phase \in {"NOT_STARTED", "OUTCOME_UNKNOWN"}
        /\ Linked(h)
    BY <1>0, <2>5, <2>6, <2>7 DEF Linked, Beginning
  <2>9. sep'.ids \subseteq h.ids \cup {h.identity}
    <3>1. sep'.ids = sep.ids
      BY <2>7, ConnectedFacts DEF SaveInv
    <3>2. sep.ids \subseteq jr[o].ids \cup {id}
      BY <2>1, <2>2, OneAdded DEF SaveInv, Shapes, RecoverCommand
    <3> QED BY <2>6, <3>1, <3>2
  <2>10. Stands(o, h, "run", pend, host, sep')
    BY <2>6, <2>8, <2>9 DEF Stands, Knows, Shelved, Crossed, Beginning
  <2> QED BY <1>0, <2>4, <2>5, <2>6, <2>7, <2>8, <2>10, TakesSaved
<1>3. CASE ResumeEarlyConfirm
  <2>1. PICK o \in DOMAIN jr :
            /\ RecoverCommand(o)
            /\ pend = [dir |-> "prepare", files |-> jr[o].persistence.staged, torn |-> FALSE]
            /\ Added(jr[o]) = {jr[o].identity}
            /\ \E h \in RecoverEarlyConfirm(jr[o]) : jr' = [jr EXCEPT ![o] = h]
    BY <1>3, Zenon DEF ResumeEarlyConfirm
  <2>2. PICK h \in RecoverEarlyConfirm(jr[o]) : jr' = [jr EXCEPT ![o] = h]
    BY <2>1, Zenon
  <2>3. Takes(o)
    BY <2>1, SoleTakes DEF RecoverCommand
  <2>4. /\ History(h) /\ h.ids = jr[o].ids /\ h.identity = jr[o].identity /\ Linked(h)
        /\ h.phase = "TERMINAL_IDENTITY"
        /\ h.persistence \in EarlyConfirmRecovered(jr[o].persistence)
    BY <1>0, <2>2, <2>3, EarlyMakes, EarlyKeeps DEF Makes
  <2>5. h.persistence.phase = "COMPONENT_READY" /\ h.persistence.staged = jr[o].persistence.staged
    BY <1>0, <2>3, <2>4, ConfirmTracks DEF Linked
  <2>6. proc'.op = o /\ proc'.at = "run" /\ sep' = Connected /\ UNCHANGED <<host, pend>>
    BY <2>1 DEF RecoverCommand, store
  <2>7. sep'.ids \subseteq h.ids \cup {h.identity}
    <3>1. sep'.ids = sep.ids
      BY <2>6, ConnectedFacts DEF SaveInv
    <3> QED BY <2>1, <2>4, <3>1 DEF Added
  <2>8. Holds(pend, "prepare", h.persistence.staged)
    BY <2>1, <2>5 DEF Holds
  <2>9. Stands(o, h, "run", pend, host, sep')
    BY <2>4, <2>5, <2>7, <2>8 DEF Stands, Knows, Shelved, Crossed, Beginning
  <2>10. Commits(h.persistence, pend)
    BY <2>5 DEF Commits
  <2> QED BY <2>2, <2>3, <2>4, <2>6, <2>9, <2>10, TakesSaved
<1>4. CASE RecoverLocal
  <2>1. PICK o \in DOMAIN jr :
            /\ proc = Idle /\ Sole(Unfinished, o) /\ pend.dir # "none"
            /\ pend.dir = "commit" => jr[o].persistence.phase = "BATCH_COMMIT_INTENT"
            /\ \/ \E g \in OutcomeUnknown(jr[o], LocalStage(pend.dir)) : jr' = [jr EXCEPT ![o] = g]
               \/ jr[o].phase = "OUTCOME_UNKNOWN" /\ jr[o].unknown = LocalStage(pend.dir) /\ UNCHANGED jr
            /\ proc' = [cmd |-> "local", op |-> o, at |-> "local"]
            /\ UNCHANGED <<store, outside, boot>>
    BY <1>4, Zenon DEF RecoverLocal
  <2>2. Takes(o)
    BY <2>1, SoleTakes
  <2>3. PICK h : /\ History(h) /\ Linked(h) /\ h.ids = jr[o].ids
                 /\ h.persistence = jr[o].persistence /\ h.unknown = LocalStage(pend.dir)
                 /\ h.phase = "OUTCOME_UNKNOWN" /\ jr' = [jr EXCEPT ![o] = h]
    <3>1. CASE \E g \in OutcomeUnknown(jr[o], LocalStage(pend.dir)) : jr' = [jr EXCEPT ![o] = g]
      <4>1. PICK g \in OutcomeUnknown(jr[o], LocalStage(pend.dir)) : jr' = [jr EXCEPT ![o] = g]
        BY <3>1, Zenon
      <4>2. History(g)
        BY <1>0, <2>2, <4>1, ScanMilestones DEF Makes
      <4>3. /\ g.ids = jr[o].ids /\ g.persistence = jr[o].persistence
            /\ g.unknown = LocalStage(pend.dir) /\ Linked(g) /\ g.phase = "OUTCOME_UNKNOWN"
        BY <1>0, <2>2, <4>1, UnknownKeeps
      <4> QED BY <4>1, <4>2, <4>3
    <3>2. CASE jr[o].phase = "OUTCOME_UNKNOWN" /\ jr[o].unknown = LocalStage(pend.dir) /\ UNCHANGED jr
      <4>1. jr \in Seq(Image(jr))
        BY DEF SaveInv, Inv, Types, Listed
      <4>2. jr = [jr EXCEPT ![o] = jr[o]]
        BY <4>1
      <4> QED BY <1>0, <2>2, <3>2, <4>2
    <3> QED BY <2>1, <3>1, <3>2
  <2>4. proc'.op = o /\ proc'.at = "local" /\ UNCHANGED <<host, pend, sep>>
    BY <2>1 DEF store, outside
  <2>5. Stands(o, h, "local", pend, host, sep)
    BY <2>1, <2>3 DEF Stands, Directed, Knows, Beginning, SavePhases
  <2> QED BY <1>0, <2>2, <2>3, <2>4, <2>5, TakesSaved
<1>5. CASE VerifyPostReboot
  <2>1. PICK o \in DOMAIN jr :
            /\ proc = Idle /\ PostRebootAccepts(o)
            /\ \E h \in PostRebootVerified(jr[o], boot, Snapshot) : jr' = [jr EXCEPT ![o] = h]
            /\ sep' = Connected
            /\ UNCHANGED <<proc, store, events, boot, sent>>
    BY <1>5, Zenon DEF VerifyPostReboot
  <2>2. PICK h \in PostRebootVerified(jr[o], boot, Snapshot) : jr' = [jr EXCEPT ![o] = h]
    BY <2>1, Zenon
  <2>3. Takes(o)
    BY <2>1, SoleTakes DEF PostRebootAccepts
  <2>4. History(h) /\ h.ids = jr[o].ids /\ h.persistence = jr[o].persistence /\ Linked(h)
    BY <1>0, <2>2, <2>3, VerifiedMakes, SettledKeeps DEF Makes
  <2> QED BY <1>0, <2>1, <2>2, <2>3, <2>4, TakesSaved DEF store
<1> QED BY <1>1, <1>2, <1>3, <1>4, <1>5 DEF Recover

\* The files are discarded or promoted in the journaled direction.
LEMMA FinishLocalSaved ==
    ASSUME SaveInv, Inv', FinishLocal
    PROVE  SaveInv'
<1>1. proc.cmd # "none" /\ Inv
  BY StandsRuns DEF SaveInv, FinishLocal, DiscardLocal, RefuseDiscard, RollLocalForward
<1>2. CASE RefuseDiscard
  BY <1>1, <1>2, ExitSaved DEF RefuseDiscard, store
<1>3. CASE DiscardLocal \/ RollLocalForward
  <2>1. proc' = Idle /\ pend' = NoPending /\ UNCHANGED <<jr, sep>>
    BY <1>3 DEF DiscardLocal, RollLocalForward, Exit
  <2>2. host' = host \/ host' = Promoted(hist)
    BY <1>3 DEF DiscardLocal, RollLocalForward
  <2>3. host.ids \subseteq host'.ids /\ IsFiniteSet(host'.ids)
    BY <2>2, PromotedFacts DEF SaveInv, Shapes
  <2>4. pend'.dir = "none" /\ {"dir", "files"} \subseteq DOMAIN pend'
    BY <2>1 DEF NoPending
  <2>5. Shapes' /\ ConfirmedIsDurable' /\ Commits(saved, pend')
    BY <2>1, <2>3, <2>4 DEF SaveInv, Shapes, ConfirmedIsDurable, Commits
  <2> QED BY <1>1, <2>1, <2>3, <2>5, StaySaved
<1> QED BY <1>2, <1>3 DEF FinishLocal

-----------------------------------------------------------------------------
(* A new enrollment, the SEP, and the faults, again. *)

\* At the start the SEP and the host have the same identities, and no save.
LEMMA InitSaved == Init => SaveInv
<1>1. SUFFICES ASSUME Init PROVE SaveInv
  OBVIOUS
<1>2. jr = <<>> /\ proc = Idle /\ pend = NoPending /\ Inv
  BY <1>1, InitInv DEF Init
<1>3. DOMAIN jr = {} /\ proc.cmd = "none" /\ {"dir", "files"} \subseteq DOMAIN pend
  BY <1>2 DEF Idle, NoPending
<1>4. PICK ids \in SUBSET {Original} :
          /\ host = [ids |-> ids, master |-> 0, biolockout |-> 0]
          /\ sep = [ids |-> ids, dirty |-> {}, scan |-> 0, seq |-> 0]
  BY <1>1 DEF Init
<1>5. IsFiniteSet(ids)
  BY FS_Singleton, FS_Subset
<1>6. sep.ids = ids /\ host.ids = ids /\ "dirty" \in DOMAIN sep
  BY <1>4
<1> QED BY <1>2, <1>3, <1>5, <1>6 DEF SaveInv, Shapes, ConfirmedIsDurable

\* A baseline begins with no save, and no identity but the host's.
LEMMA BaselineLinked ==
    ASSUME NEW b, NEW root, NEW ids, NEW h, h = Baseline(b, root, ids)
    PROVE  /\ Linked(h) /\ h.phase = "BASELINE" /\ h.ids = ids
           /\ h.persistence.phase = "NOT_STARTED"
<1>1. /\ h.phase = "BASELINE" /\ h.ids = ids /\ h.identity = NoIdentity
      /\ h.persistence = NotStarted
  BY DEF Baseline
<1>2. /\ TrackerFields \subseteq DOMAIN NotStarted /\ NotStarted.phase = "NOT_STARTED"
      /\ NotStarted.staged = {} /\ NotStarted.batches = <<>>
  BY DEF NotStarted, TrackerFields
<1>3. Tracker(NotStarted)
  BY <1>2 DEF Tracker, BeforeStaging, AfterStaging, Concluding
<1> QED BY <1>1, <1>2, <1>3 DEF Linked

\* A baseline is taken.
LEMMA EnrollSaved ==
    ASSUME SaveInv, Inv', Enroll
    PROVE  SaveInv'
<1>0. PICK op : op = Len(jr) + 1
  OBVIOUS
<1>1. PICK h : h = Baseline(boot, host, sep.ids)
  OBVIOUS
<1>2. Linked(h) /\ h.phase = "BASELINE" /\ h.ids = sep.ids /\ h.persistence.phase = "NOT_STARTED"
  BY <1>1, BaselineLinked
<1>3. /\ jr' = Append(jr, h) /\ proc = Idle /\ sep' = Connected /\ host' = host /\ pend' = pend
      /\ proc' = [cmd |-> "enroll", op |-> op, at |-> "run"] /\ sep.ids = host.ids
  BY <1>0, <1>1 DEF Enroll, BuildBaseline, store
<1>4. /\ DOMAIN jr' = DOMAIN jr \cup {op} /\ jr'[op] = h
      /\ op \notin DOMAIN jr /\ \A p \in DOMAIN jr : jr'[p] = jr[p]
  BY <1>0, <1>3, ListedAppend DEF SaveInv, Inv, Types
<1>5. {"ids", "scan", "dirty"} \subseteq DOMAIN sep
  BY DEF SaveInv, Inv, Types, Shapes
<1>6. sep'.ids = sep.ids /\ sep'.dirty = sep.dirty /\ sep'.scan = 0 /\ "dirty" \in DOMAIN sep'
  BY <1>3, <1>5 DEF Connected
<1>7. Shapes' /\ ConfirmedIsDurable'
  BY <1>3, <1>6 DEF SaveInv, Shapes, ConfirmedIsDurable
<1>8. \A o \in DOMAIN jr' : Linked(jr'[o]) /\ jr'[o].ids \subseteq host'.ids
  BY <1>2, <1>3, <1>4 DEF SaveInv
<1>9. \A o \in DOMAIN jr' : Open(jr'[o]) \/ Runs(o)' => Commits(jr'[o].persistence, pend')
  <2>1. \A o \in DOMAIN jr : Runs(o)' => o = op
    BY <1>3 DEF Runs
  <2>2. Commits(h.persistence, pend')
    BY <1>2 DEF Commits
  <2> QED BY <1>3, <1>4, <2>1, <2>2 DEF SaveInv
<1>10. Stands(proc'.op, hist', proc'.at, pend', host', sep')
  <2>1. proc'.op = op /\ proc'.at = "run"
    BY <1>3
  <2>2. hist' = h
    BY <1>4, <2>1 DEF hist
  <2>3. Stands(op, h, "run", pend', host', sep')
    BY <1>2, <1>6 DEF Stands, Knows, SavePhases
  <2> QED BY <2>1, <2>2, <2>3
<1> QED BY <1>7, <1>8, <1>9, <1>10 DEF SaveInv

\* The SEP's own steps: a new identity makes master unsaved.
LEMMA SepSaved ==
    ASSUME SaveInv, Inv', SepEvent \/ SepFinish
    PROVE  SaveInv'
<1>0. /\ {"ids", "scan", "dirty"} \subseteq DOMAIN sep /\ sep.scan # 0 /\ Inv
      /\ UNCHANGED <<jr, proc, host, pend>>
  BY DEF SaveInv, Inv, Types, Shapes, SepEvent, SepFinish, store
<1>1. /\ "dirty" \in DOMAIN sep' /\ sep'.scan \in {0, sep.scan}
      /\ \/ sep'.ids = sep.ids /\ sep'.dirty = sep.dirty
         \/ sep'.ids = sep.ids \cup {sep.scan} /\ sep'.dirty = {"user", "master"}
  <2>1. CASE SepEvent
    <3>1. sep' = [sep EXCEPT !.seq = @ + 1]
      BY <2>1 DEF SepEvent
    <3> QED BY <1>0, <3>1
  <2>2. CASE SepFinish
    <3>1. PICK added \in BOOLEAN :
              sep' = [sep EXCEPT !.scan = 0,
                                 !.ids = IF added THEN @ \cup {sep.scan} ELSE @,
                                 !.dirty = IF added THEN {"user", "master"} ELSE @]
      BY <2>2, Zenon DEF SepFinish
    <3>2. PICK ids, dirty :
              /\ ids = IF added THEN sep.ids \cup {sep.scan} ELSE sep.ids
              /\ dirty = IF added THEN {"user", "master"} ELSE sep.dirty
      OBVIOUS
    <3>3. sep' = [sep EXCEPT !.scan = 0, !.ids = ids, !.dirty = dirty]
      BY <3>1, <3>2
    <3>4. "dirty" \in DOMAIN sep' /\ sep'.scan = 0 /\ sep'.ids = ids /\ sep'.dirty = dirty
      BY <1>0, <3>3
    <3> QED BY <3>2, <3>4
  <2> QED BY <2>1, <2>2
<1>2. Shapes'
  <2>1. IsFiniteSet(sep.ids \cup {sep.scan}) /\ IsFiniteSet(sep.ids)
    BY FS_AddElement DEF SaveInv, Shapes
  <2> QED BY <1>0, <1>1, <2>1 DEF SaveInv, Shapes
<1>3. ConfirmedIsDurable'
  BY <1>0, <1>1 DEF SaveInv, ConfirmedIsDurable
<1>4. proc'.cmd # "none" => Stands(proc'.op, hist', proc'.at, pend', host', sep')
  <2>1. SUFFICES ASSUME proc.cmd # "none" PROVE Stands(proc.op, hist, proc.at, pend, host, sep')
    BY <1>0 DEF hist
  <2>2. hist.phase \in ScanPhases /\ Stands(proc.op, hist, proc.at, pend, host, sep)
    BY <1>0, <2>1, RunningFacts, RunningSaved
  <2>3. Knows(proc.op, hist, proc.at, host, sep')
    BY <1>0, <1>1, <2>2 DEF Stands, Knows, ScanPhases, SavePhases
  <2> QED BY <2>2, <2>3 DEF Stands
<1>5. \A o : Runs(o)' = Runs(o)
  BY <1>0 DEF Runs
<1> QED BY <1>0, <1>2, <1>3, <1>4, <1>5 DEF SaveInv

\* The command is killed, or the machine restarts.
LEMMA FaultSaved ==
    ASSUME SaveInv, Inv', Crash \/ Reboot
    PROVE  SaveInv'
<1>1. CASE Crash
  <2>1. proc.cmd # "none"
    BY <1>1 DEF Crash, SaveInv, Inv, Command
  <2> QED BY <1>1, <2>1, ExitSaved DEF Crash, store
<1>2. CASE Reboot
  <2>1. jr' = jr /\ host' = host /\ pend' = pend /\ proc' = Idle
    BY <1>2 DEF Reboot, Exit, store
  <2>2. {"ids", "scan", "dirty"} \subseteq DOMAIN sep
    BY DEF SaveInv, Inv, Types, Shapes
  <2>3. /\ "dirty" \in DOMAIN sep'
        /\ \/ sep'.ids = sep.ids /\ sep'.dirty = sep.dirty
           \/ sep'.ids = host.ids
    <3>1. CASE sep' = Connected
      BY <2>2, <3>1 DEF Connected
    <3>2. CASE sep' = [ids |-> host.ids, dirty |-> {}, scan |-> 0, seq |-> 0]
      BY <3>2
    <3> QED BY <1>2, <3>1, <3>2 DEF Reboot
  <2>4. Shapes' /\ ConfirmedIsDurable'
    BY <2>1, <2>3 DEF SaveInv, Shapes, ConfirmedIsDurable
  <2>5. proc'.cmd = "none" /\ \A o : ~Runs(o)'
    BY <2>1 DEF Idle, Runs
  <2> QED BY <2>1, <2>4, <2>5 DEF SaveInv
<1> QED BY <1>1, <1>2

\* Every step preserves the invariant.
LEMMA NextSaved == SaveInv /\ [Next]_vars => SaveInv'
<1>1. SUFFICES ASSUME SaveInv, [Next]_vars PROVE SaveInv'
  OBVIOUS
<1>0. Inv'
  BY <1>1, NextInv DEF SaveInv
<1>2. CASE Enroll
  BY <1>0, <1>1, <1>2, EnrollSaved
<1>3. CASE Operate
  BY <1>0, <1>1, <1>3, StartSaved, UnknownSaved, EventsSaved DEF Operate
<1>4. CASE Save
  BY <1>0, <1>1, <1>4, WitnessSaved, UnknownSaved, StagingSaved, CommittingSaved, FilesSaved,
     RollForwardSaved, SaveDispatchSaved, SaveEndsSaved
     DEF Save
<1>5. CASE FinishLocal
  BY <1>0, <1>1, <1>5, FinishLocalSaved
<1>6. CASE Recover
  BY <1>0, <1>1, <1>6, RecoverSaved
<1>7. CASE SepEvent \/ SepFinish
  BY <1>0, <1>1, <1>7, SepSaved
<1>8. CASE Interrupt
  BY <1>0, <1>1, <1>8, StartSaved, UnknownSaved, FaultSaved DEF Interrupt
<1>9. CASE UNCHANGED vars
  <2>1. UNCHANGED <<jr, proc, host, pend, sep>>
    BY <1>9 DEF vars
  <2>2. Shapes' /\ ConfirmedIsDurable' /\ hist' = hist /\ \A o : Runs(o)' = Runs(o)
    BY <1>1, <2>1 DEF SaveInv, Shapes, ConfirmedIsDurable, hist, Runs
  <2> QED BY <1>0, <1>1, <2>1, <2>2 DEF SaveInv
<1> QED BY <1>1, <1>2, <1>3, <1>4, <1>5, <1>6, <1>7, <1>8, <1>9 DEF Next

\* The invariant holds in every behaviour.
LEMMA SpecSaved == Spec => []SaveInv
BY InitSaved, NextSaved, PTL DEF Spec

\* The SEP is told that master is saved only when the host root holds every
\* identity of the SEP (ConfirmedIsDurable), for any number of enrollments and
\* boots: the final confirm of the first batch is sent only by a command whose
\* save has been promoted, and no identity can have been added since the
\* read-back or the event that the save is of.  A save that was interrupted is
\* resumed at master only when the read-back shows the one identity it is of.
THEOREM EnrollmentConfirmedIsDurable == Spec => []ConfirmedIsDurable
<1>1. SaveInv => ConfirmedIsDurable
  BY DEF SaveInv
<1> QED BY <1>1, SpecSaved, PTL

\* The steps that touch the host store.
LEMMA StoreSteps ==
    ASSUME [Next]_vars
    PROVE  \/ UNCHANGED <<host, pend>>
           \/ BeginStage \/ CreateStaged \/ StageComponent \/ CrossBoundary \/ RollForward
           \/ DiscardLocal \/ RollLocalForward
<1>1. CASE Enroll \/ SepEvent \/ SepFinish \/ UNCHANGED vars
  BY <1>1 DEF Enroll, SepEvent, SepFinish, vars, store
<1>2. CASE Operate
  BY <1>2 DEF Operate, CapacityExhausted, AbortBeforeStart, IntendStart, DispatchStart, ObserveStart,
              DispatchCancel, ObserveCancel, DispatchContinue, ObserveContinue, ReplyUnknown,
              IgnoreEvent, AcceptProgress, AcceptTerminal, RejectEvent, Record, RecordAndExit,
              RecordEvent, Dispatch, store
<1>3. CASE Save
  <2>1. FreezeSave => UNCHANGED store
    BY Zenon DEF FreezeSave, RecordAndExit
  <2> QED BY <1>3, <2>1
          DEF Save, AdoptWitness, WitnessUnknown, PlanPersistence, RefusePlan, IntendPrepare,
              DispatchPrepare, ObservePrepare, IntendComplete, DispatchComplete, CaptureBlob,
              RecordStaged, IntendConfirm, DispatchConfirm, ObserveConfirm, IntendCommit,
              RecordCommitted, IntendFinalConfirm, DispatchFinalConfirm, ObserveFinalConfirm, Attest,
              ReconcileE3, Record, RecordAndExit, Dispatch, store
<1>4. CASE FinishLocal
  BY <1>4 DEF FinishLocal, RefuseDiscard, store
<1>5. CASE Recover
  <2>1. UNCHANGED store
    BY <1>5, Zenon
       DEF Recover, ReconcileOutcomeUnknown, RecoverObservedIdentity, ResumeEarlyConfirm, RecoverLocal,
           VerifyPostReboot, RecoverCommand
  <2> QED BY <2>1 DEF store
<1>6. CASE Interrupt
  BY <1>6 DEF Interrupt, RequestCancel, LoopUnknown, TerminalUnrecorded, Crash, Reboot, Record,
              RecordAndExit, store
<1> QED BY <1>1, <1>2, <1>3, <1>4, <1>5, <1>6 DEF Next

\* A transaction of the host store is resolved only in the direction that the
\* journal recorded first (RecoveryFollowsJournal): a command that discards or
\* rolls forward has journaled it for the directory that is still there, and
\* files are promoted only with a commit intent whose hashes are of these files,
\* by the command that crossed the boundary or by a later recovery.
THEOREM EnrollmentRecoveryFollowsJournal == Spec => RecoveryFollowsJournal
<1>1. ASSUME SaveInv, [Next]_vars
      PROVE  /\ pend.dir = "prepare" /\ pend'.dir = "none" =>
                   \E o \in Unfinished : jr[o].unknown = "local-prepare-discarded"
             /\ host' # host =>
                   \E o \in Unfinished : /\ jr[o].persistence.phase = "BATCH_COMMIT_INTENT"
                                         /\ jr[o].persistence.staged = pend.files
  <2>0. {"dir", "files"} \subseteq DOMAIN pend /\ Inv
    BY <1>1 DEF SaveInv, Shapes
  <2>1. CASE UNCHANGED <<host, pend>>
    BY <2>1
  <2>2. CASE BeginStage \/ CreateStaged \/ StageComponent \/ CrossBoundary
    <3>1. host' = host
      BY <2>2 DEF BeginStage, CreateStaged, StageComponent, CrossBoundary
    <3>2. CASE BeginStage
      BY <3>1, <3>2 DEF BeginStage
    <3>3. CASE CreateStaged
      <4>1. pend' = [pend EXCEPT !.torn = TRUE]
        BY <3>3 DEF CreateStaged
      <4>2. pend'.dir = pend.dir
        BY <2>0, <4>1
      <4> QED BY <3>1, <4>2
    <3>4. CASE StageComponent
      <4>1. PICK c : pend' = [pend EXCEPT !.torn = FALSE, !.files = @ \cup {c}]
        BY <3>4 DEF StageComponent
      <4>2. pend'.dir = pend.dir
        BY <2>0, <4>1
      <4> QED BY <3>1, <4>2
    <3>5. CASE CrossBoundary
      <4>1. pend' = [pend EXCEPT !.dir = "commit"]
        BY <3>5 DEF CrossBoundary
      <4>2. pend'.dir = "commit"
        BY <2>0, <4>1
      <4> QED BY <3>1, <4>2
    <3> QED BY <2>2, <3>2, <3>3, <3>4, <3>5
  <2>3. CASE RollForward
    <3>1. Saving("BATCH_COMMIT_INTENT", "promote")
      BY <2>3 DEF RollForward
    <3>2. /\ proc.cmd # "none" /\ saved.phase = "BATCH_COMMIT_INTENT" /\ hist.phase \in SavePhases
          /\ Holds(pend, "commit", saved.staged)
      BY <1>1, <3>1, SavingSaved DEF Shelved
    <3>3. proc.op \in Unfinished
      BY <1>1, <3>2, RunningSaved DEF Unfinished, UnfinishedPhases, SavePhases, hist
    <3> QED BY <3>2, <3>3 DEF Holds, saved, hist
  <2>4. CASE DiscardLocal \/ RollLocalForward
    <3>1. proc.at = "local"
      BY <2>4 DEF DiscardLocal, RollLocalForward
    <3>2. proc.cmd # "none" /\ hist.phase = "OUTCOME_UNKNOWN"
      BY <2>0, <3>1, StandsRuns, RunningFacts
    <3>3. Directed(hist, pend) /\ Commits(saved, pend) /\ proc.op \in DOMAIN jr
      BY <1>1, <3>1, <3>2, RunningSaved DEF Stands
    <3>4. proc.op \in Unfinished
      BY <3>2, <3>3 DEF Unfinished, UnfinishedPhases, hist
    <3>5. pend.dir = "prepare" => jr[proc.op].unknown = "local-prepare-discarded"
      BY <3>3 DEF Directed, LocalStage, hist
    <3>6. pend.dir = "commit" => /\ jr[proc.op].persistence.phase = "BATCH_COMMIT_INTENT"
                                 /\ jr[proc.op].persistence.staged = pend.files
      BY <3>3 DEF Directed, Commits, saved, hist
    <3>7. CASE DiscardLocal
      BY <3>4, <3>5, <3>7 DEF DiscardLocal
    <3>8. CASE RollLocalForward
      BY <3>4, <3>6, <3>8 DEF RollLocalForward
    <3> QED BY <2>4, <3>7, <3>8
  <2> QED BY <1>1, <2>1, <2>2, <2>3, <2>4, StoreSteps
<1>2. SaveInv /\ [Next]_vars =>
      [/\ pend.dir = "prepare" /\ pend'.dir = "none" =>
             \E o \in Unfinished : jr[o].unknown = "local-prepare-discarded"
       /\ host' # host =>
             \E o \in Unfinished : /\ jr[o].persistence.phase = "BATCH_COMMIT_INTENT"
                                   /\ jr[o].persistence.staged = pend.files]_vars
  BY <1>1
<1> QED BY <1>2, SpecSaved, PTL DEF Spec, RecoveryFollowsJournal

-----------------------------------------------------------------------------
(* What has been sent.                                                       *)

\* A command of operation o is about to be sent.
Sending(o) == Runs(o) /\ proc.at = "send"

\* The start and the cancel are behind a history, and the events up to the last
\* that it has continued.
ScanPast(c, h, sending) ==
    /\ c[1] = "start" =>
          h.phase # "BASELINE" /\ ~(sending /\ h.phase = "START_INTENT")
    /\ c[1] = "cancel" =>
          /\ h.phase \notin {"BASELINE", "START_INTENT", "ACTIVE", "CONTINUE_INTENT"}
          /\ ~(sending /\ h.phase = "CANCEL_INTENT")
    /\ c[1] = "continue" =>
          /\ c[2] \in Nat /\ h.phase \notin {"BASELINE", "START_INTENT"}
          /\ h.phase = "ACTIVE" => c[2] <= h.last
          /\ h.phase = "CONTINUE_INTENT" => c[2] < h.pending \/ (c[2] = h.pending /\ ~sending)

\* The order of the components in both plans.
Earlier(n, m) == (n = "user" /\ m # "user") \/ (n = "master" /\ m = "biolockout")

\* The command k of the current component is still to be sent.
Awaits(k, t, sending) ==
    \/ t.phase = "COMPONENT_READY"
    \/ t.phase = "PREPARE_INTENT" /\ (k # "prepare" \/ sending)
    \/ t.phase = "PREPARED" /\ k # "prepare"
    \/ t.phase = "COMPLETE_INTENT" /\ (k = "confirm" \/ (k = "complete" /\ sending))
    \/ k = "confirm" /\ t.phase \in {"SECURE_BLOB_CAPTURED", "HOST_STAGED",
                                     "BATCH_COMMIT_INTENT", "BATCH_COMMITTED"}
    \/ k = "confirm" /\ t.phase \in {"CONFIRM_INTENT", "FINAL_CONFIRM_INTENT"} /\ sending

\* The components before the current one are behind a tracker, and of the current
\* one the commands that it does not await.
SavePast(c, t, sending) ==
    c[1] \in {"prepare", "complete", "confirm"} =>
        /\ t.phase # "NOT_STARTED"
        /\ \/ Earlier(c[2], Current(t))
           \/ c[2] = Current(t) /\ ~Awaits(c[1], t, sending)

Past(c, h, sending) == ScanPast(c, h, sending) /\ SavePast(c, h.persistence, sending)

\* The events are numbered.
Numbered ==
    /\ "seq" \in DOMAIN sep /\ sep.seq \in Nat
    /\ \A i \in DOMAIN events : events[i].seq \in Nat
    /\ \A o \in DOMAIN jr : jr[o].last \in Nat /\ jr[o].pending \in Nat

\* Whatever was sent is past.
SentPast(o) == \A i \in DOMAIN sent[o] : Past(sent[o][i], jr[o], Sending(o))

ReplayInv ==
    /\ SaveInv /\ Numbered
    /\ Listed(sent) /\ DOMAIN sent = DOMAIN jr
    /\ \A o \in DOMAIN jr : Listed(sent[o]) /\ IsInjective(sent[o]) /\ SentPast(o)

\* One history follows another when everything that is past the first is past it.
Onward(h, sending, g, after) == \A c : Past(c, h, sending) => Past(c, g, after)

\* What is past while a command is about to be sent is past when it is not.
LEMMA PastKept ==
    ASSUME NEW c, NEW h, NEW sending, NEW after, after => sending, Past(c, h, sending)
    PROVE  Past(c, h, after)
<1>1. ScanPast(c, h, after)
  BY DEF Past, ScanPast
<1>2. \A k, t : Awaits(k, t, after) => Awaits(k, t, sending)
  BY DEF Awaits
<1>3. SavePast(c, h.persistence, after)
  BY <1>2 DEF Past, SavePast
<1> QED BY <1>1, <1>3 DEF Past

\* A step that sends nothing.
LEMMA NothingSent ==
    ASSUME ReplayInv, SaveInv', Numbered', UNCHANGED sent, DOMAIN jr' = DOMAIN jr,
           \A o \in DOMAIN jr : Onward(jr[o], Sending(o), jr'[o], Sending(o)')
    PROVE  ReplayInv'
<1>1. \A o \in DOMAIN jr : SentPast(o) => SentPast(o)'
  BY DEF Onward, SentPast
<1> QED BY <1>1 DEF ReplayInv

\* ... and leaves the journals.
LEMMA JournalsStay ==
    ASSUME ReplayInv, SaveInv', Numbered', UNCHANGED <<jr, sent>>,
           proc' = proc \/ proc'.at # "send" \/ proc'.cmd = "none"
    PROVE  ReplayInv'
<1>1. \A o : Sending(o)' => Sending(o)
  BY DEF Sending, Runs
<1>2. \A o \in DOMAIN jr : Onward(jr[o], Sending(o), jr'[o], Sending(o)')
  BY <1>1, PastKept DEF Onward
<1> QED BY <1>2, NothingSent

\* ... or writes one record.
LEMMA RecordWritten ==
    ASSUME ReplayInv, SaveInv', Numbered', UNCHANGED sent,
           NEW o \in DOMAIN jr, NEW g, jr' = [jr EXCEPT ![o] = g],
           proc'.cmd = "none" \/ proc'.op = o \/ proc'.at # "send",
           Onward(jr[o], Sending(o), g, Sending(o)')
    PROVE  ReplayInv'
<1>1. /\ DOMAIN jr' = DOMAIN jr /\ jr'[o] = g
      /\ \A p \in DOMAIN jr : p # o => jr'[p] = jr[p]
  BY ListedExcept DEF ReplayInv, SaveInv, Inv, Types
<1>2. ASSUME NEW p \in DOMAIN jr, p # o
      PROVE  Onward(jr[p], Sending(p), jr'[p], Sending(p)')
  <2>1. ~Sending(p)'
    BY <1>2 DEF Sending, Runs
  <2> QED BY <1>1, <1>2, <2>1, PastKept DEF Onward
<1> QED BY <1>1, <1>2, NothingSent

\* An injective list stays so when it gets a new element.
LEMMA InjectiveAppend ==
    ASSUME NEW s, Listed(s), IsInjective(s), NEW c, \A i \in DOMAIN s : s[i] # c
    PROVE  IsInjective(Append(s, c))
<1> DEFINE r == Append(s, c)
<1>1. /\ DOMAIN r = DOMAIN s \cup {Len(s) + 1} /\ r[Len(s) + 1] = c
      /\ \A p \in DOMAIN s : r[p] = s[p]
  BY ListedAppend
<1> HIDE DEF r
<1>2. IsInjective(r)
  BY <1>1 DEF IsInjective
<1> QED BY <1>2 DEF r

\* A command is sent for the first time, and is past.
LEMMA CommandSent ==
    ASSUME ReplayInv, SaveInv', UNCHANGED <<jr, events>>, proc.cmd # "none", proc.at = "send",
           proc'.at # "send", NEW c, sent' = [sent EXCEPT ![proc.op] = Append(@, c)],
           "seq" \in DOMAIN sep', sep'.seq = sep.seq,
           ~Past(c, hist, TRUE), Past(c, hist, FALSE)
    PROVE  ReplayInv'
<1>1. PICK o : o = proc.op
  OBVIOUS
<1>2. o \in DOMAIN jr /\ Listed(sent[o]) /\ IsInjective(sent[o]) /\ SentPast(o) /\ hist = jr[o]
  BY <1>1, RunningSaved DEF ReplayInv, hist
<1>3. Sending(o) /\ \A p : ~Sending(p)'
  BY <1>1 DEF Sending, Runs
<1>4. PICK r : r = Append(sent[o], c)
  OBVIOUS
<1>5. /\ Listed(sent') /\ DOMAIN sent' = DOMAIN sent /\ sent'[o] = r
      /\ \A p \in DOMAIN sent : p # o => sent'[p] = sent[p]
  <2>1. sent' = [sent EXCEPT ![o] = r]
    BY <1>1, <1>4
  <2>2. Listed(sent) /\ o \in DOMAIN sent
    BY <1>2 DEF ReplayInv
  <2>3. ASSUME NEW q, q = [sent EXCEPT ![o] = r]
        PROVE  /\ Listed(q) /\ DOMAIN q = DOMAIN sent /\ q[o] = r
               /\ \A p \in DOMAIN sent : p # o => q[p] = sent[p]
    BY <2>2, <2>3, ListedExcept
  <2> QED BY <2>1, <2>3
<1>6. \A i \in DOMAIN sent[o] : Past(sent[o][i], hist, TRUE)
  BY <1>2, <1>3 DEF SentPast
<1>7. Listed(r) /\ IsInjective(r)
  BY <1>2, <1>4, <1>6, ListedAppend, InjectiveAppend
<1>8. \A i \in DOMAIN r : Past(r[i], hist, FALSE)
  <2>1. /\ DOMAIN r = DOMAIN sent[o] \cup {Len(sent[o]) + 1} /\ r[Len(sent[o]) + 1] = c
        /\ \A p \in DOMAIN sent[o] : r[p] = sent[o][p]
    BY <1>2, <1>4, ListedAppend
  <2> QED BY <1>6, <2>1, PastKept
<1>9. ASSUME NEW p \in DOMAIN jr
      PROVE  Listed(sent'[p]) /\ IsInjective(sent'[p]) /\ SentPast(p)'
  <2>1. CASE p = o
    <3>1. \A i \in DOMAIN r : Past(r[i], jr[o], Sending(o)')
      BY <1>2, <1>3, <1>8, PastKept
    <3>2. SentPast(o)'
      BY <1>5, <3>1 DEF SentPast
    <3> QED BY <1>5, <1>7, <2>1, <3>2
  <2>2. CASE p # o
    <3>1. SentPast(p)'
      BY <1>3, <1>5, <2>2, PastKept DEF SentPast, ReplayInv
    <3> QED BY <1>5, <2>2, <3>1 DEF ReplayInv
  <2> QED BY <2>1, <2>2
<1>10. Numbered'
  BY DEF ReplayInv, Numbered
<1> QED BY <1>5, <1>9, <1>10 DEF ReplayInv

-----------------------------------------------------------------------------
(* What each milestone leaves behind it. *)

Counts(h) == h.last \in Nat /\ h.pending \in Nat

\* Everything that was sent before the records of H is past them, also if they are
\* intents whose command is about to be sent.
Follows(h, H) == \A g \in H : Onward(h, FALSE, g, TRUE) /\ Counts(g)

\* A milestone of the scan sees no save.
LEMMA ScanOnward ==
    ASSUME NEW h, Linked(h), h.phase \in Beginning, NEW g, g.persistence = h.persistence,
           \A c : ScanPast(c, h, FALSE) => ScanPast(c, g, TRUE)
    PROVE  Onward(h, FALSE, g, TRUE)
<1>1. h.persistence.phase = "NOT_STARTED"
  BY DEF Linked
<1>2. \A c : SavePast(c, h.persistence, FALSE) => SavePast(c, g.persistence, TRUE)
  BY <1>1 DEF SavePast
<1> QED BY <1>2 DEF Onward, Past

\* A milestone after the scan is past all that the scan sent.
LEMMA SaveOnward ==
    ASSUME NEW h, h.phase \notin Beginning, NEW g, g.phase \notin Beginning, NEW after,
           \A c : SavePast(c, h.persistence, FALSE) => SavePast(c, g.persistence, after)
    PROVE  Onward(h, FALSE, g, after)
<1>1. \A c : ScanPast(c, h, FALSE) => ScanPast(c, g, after)
  BY DEF ScanPast, Beginning
<1> QED BY <1>1 DEF Onward, Past

\* One phase of the scan after another.
Passes(h, g) ==
    /\ g.persistence = h.persistence
    /\ \/ h.phase = "BASELINE" /\ g.phase \in {"ABORTED_BEFORE_START", "START_INTENT"}
       \/ h.phase = "START_INTENT" /\ g.phase \in {"ACTIVE", "TERMINAL_FAILURE"}
       \/ h.phase = "ACTIVE" /\ g.phase = "CONTINUE_INTENT" /\ g.pending > h.last
       \/ h.phase = "CONTINUE_INTENT" /\ g.phase = "ACTIVE" /\ g.last = h.pending
       \/ h.phase = "ACTIVE" /\ g.phase = "CANCEL_INTENT"
       \/ h.phase = "CANCEL_INTENT" /\ g.phase = "CANCEL_REQUESTED"
       \/ /\ h.phase \in Beginning \ {"BASELINE"}
          /\ g.phase \in {"TERMINAL_IDENTITY", "TERMINAL_WITNESS", "TERMINAL_FAILURE",
                          "OUTCOME_UNKNOWN"}

\* The milestones of a scan.
LEMMA ScanFollows ==
    ASSUME NEW h, History(h), Linked(h), Counts(h), NEW seq \in Nat, NEW id, NEW stage
    PROVE  /\ Follows(h, AbortedBeforeStart(h)) /\ Follows(h, StartIntent(h))
           /\ Follows(h, StartObserved(h)) /\ Follows(h, StartRejected(h))
           /\ Follows(h, ContinueIntent(h, seq)) /\ Follows(h, ContinueObserved(h))
           /\ Follows(h, CancelIntent(h)) /\ Follows(h, CancelObserved(h))
           /\ Follows(h, TerminalIdentity(h, seq, id)) /\ Follows(h, ResultWitnessed(h, seq))
           /\ Follows(h, TerminalFailure(h, seq)) /\ Follows(h, WitnessReadback(h, id))
           /\ h.phase \in Beginning => Follows(h, OutcomeUnknown(h, stage))
<1>0. ASSUME NEW g, Passes(h, g), Counts(g)
      PROVE  Onward(h, FALSE, g, TRUE)
  <2>1. ASSUME NEW c, ScanPast(c, h, FALSE)
        PROVE  ScanPast(c, g, TRUE)
    <3>1. c[1] = "start" => g.phase \notin {"BASELINE", "START_INTENT"}
      BY <1>0, <2>1 DEF ScanPast, Passes, Running
    <3>2. c[1] = "cancel" =>
             g.phase \notin {"BASELINE", "START_INTENT", "ACTIVE", "CONTINUE_INTENT", "CANCEL_INTENT"}
      BY <1>0, <2>1 DEF ScanPast, Passes, Running
    <3>3. c[1] = "continue" =>
             /\ c[2] \in Nat /\ g.phase \notin {"BASELINE", "START_INTENT"}
             /\ g.phase = "ACTIVE" => c[2] <= g.last
             /\ g.phase = "CONTINUE_INTENT" => c[2] < g.pending
      BY <1>0, <2>1 DEF ScanPast, Passes, Running, Counts
    <3> QED BY <3>1, <3>2, <3>3 DEF ScanPast
  <2> QED BY <1>0, <2>1, ScanOnward DEF Passes, Beginning, Running
<1>1. Follows(h, AbortedBeforeStart(h))
  <2>1. \A g \in AbortedBeforeStart(h) :
           /\ h.phase = "BASELINE" /\ g.phase = "ABORTED_BEFORE_START"
           /\ g.persistence = h.persistence /\ Counts(g)
    BY DEF AbortedBeforeStart, From, Only, History, Fields, Counts
  <2>2. \A g \in AbortedBeforeStart(h) : Passes(h, g) /\ Counts(g)
    BY <2>1 DEF Passes, Beginning, Running
  <2> QED BY <1>0, <2>2 DEF Follows
<1>2. Follows(h, StartIntent(h))
  <2>1. \A g \in StartIntent(h) :
           /\ h.phase = "BASELINE" /\ g.phase = "START_INTENT"
           /\ g.persistence = h.persistence /\ Counts(g)
    BY DEF StartIntent, From, Only, History, Fields, Counts
  <2>2. \A g \in StartIntent(h) : Passes(h, g) /\ Counts(g)
    BY <2>1 DEF Passes, Beginning, Running
  <2> QED BY <1>0, <2>2 DEF Follows
<1>3. Follows(h, StartObserved(h))
  <2>1. \A g \in StartObserved(h) :
           /\ h.phase = "START_INTENT" /\ g.phase = "ACTIVE"
           /\ g.persistence = h.persistence /\ Counts(g)
    BY DEF StartObserved, From, Only, History, Fields, Counts
  <2>2. \A g \in StartObserved(h) : Passes(h, g) /\ Counts(g)
    BY <2>1 DEF Passes, Beginning, Running
  <2> QED BY <1>0, <2>2 DEF Follows
<1>4. Follows(h, StartRejected(h))
  <2>1. \A g \in StartRejected(h) :
           /\ h.phase = "START_INTENT" /\ g.phase = "TERMINAL_FAILURE"
           /\ g.persistence = h.persistence /\ Counts(g)
    BY DEF StartRejected, From, Only, History, Fields, Counts
  <2>2. \A g \in StartRejected(h) : Passes(h, g) /\ Counts(g)
    BY <2>1 DEF Passes, Beginning, Running
  <2> QED BY <1>0, <2>2 DEF Follows
<1>5. Follows(h, ContinueIntent(h, seq))
  <2>1. \A g \in ContinueIntent(h, seq) :
           /\ h.phase = "ACTIVE" /\ g.phase = "CONTINUE_INTENT" /\ g.pending > h.last
           /\ g.persistence = h.persistence /\ Counts(g)
    BY DEF ContinueIntent, Only, History, Fields, Counts
  <2>2. \A g \in ContinueIntent(h, seq) : Passes(h, g) /\ Counts(g)
    BY <2>1 DEF Passes, Beginning, Running
  <2> QED BY <1>0, <2>2 DEF Follows
<1>6. Follows(h, ContinueObserved(h))
  <2>1. ASSUME NEW g \in ContinueObserved(h)
        PROVE  /\ h.phase = "CONTINUE_INTENT" /\ g.phase = "ACTIVE" /\ g.last = h.pending
               /\ g.persistence = h.persistence /\ Counts(g)
    <3>1. PICK n : n = h.pending
      OBVIOUS
    <3>2. h.phase = "CONTINUE_INTENT" /\ g = [h EXCEPT !.phase = "ACTIVE", !.last = n, !.pending = 0]
      BY <3>1 DEF ContinueObserved, From, Only
    <3>3. g.phase = "ACTIVE" /\ g.last = n /\ g.pending = 0 /\ g.persistence = h.persistence
      BY <3>2 DEF History, Fields
    <3> QED BY <3>1, <3>2, <3>3 DEF Counts
  <2>2. \A g \in ContinueObserved(h) : Passes(h, g) /\ Counts(g)
    BY <2>1 DEF Passes, Beginning, Running
  <2> QED BY <1>0, <2>2 DEF Follows
<1>7. Follows(h, CancelIntent(h))
  <2>1. \A g \in CancelIntent(h) :
           /\ h.phase = "ACTIVE" /\ g.phase = "CANCEL_INTENT"
           /\ g.persistence = h.persistence /\ Counts(g)
    BY DEF CancelIntent, From, Only, History, Fields, Counts
  <2>2. \A g \in CancelIntent(h) : Passes(h, g) /\ Counts(g)
    BY <2>1 DEF Passes, Beginning, Running
  <2> QED BY <1>0, <2>2 DEF Follows
<1>8. Follows(h, CancelObserved(h))
  <2>1. \A g \in CancelObserved(h) :
           /\ h.phase = "CANCEL_INTENT" /\ g.phase = "CANCEL_REQUESTED"
           /\ g.persistence = h.persistence /\ Counts(g)
    BY DEF CancelObserved, From, Only, History, Fields, Counts
  <2>2. \A g \in CancelObserved(h) : Passes(h, g) /\ Counts(g)
    BY <2>1 DEF Passes, Beginning, Running
  <2> QED BY <1>0, <2>2 DEF Follows
<1>9. Follows(h, TerminalIdentity(h, seq, id))
  <2>1. \A g \in TerminalIdentity(h, seq, id) :
           /\ h.phase \in Running /\ g.phase = "TERMINAL_IDENTITY"
           /\ g.persistence = h.persistence /\ Counts(g)
    BY DEF TerminalIdentity, Only, History, Fields, Counts
  <2>2. \A g \in TerminalIdentity(h, seq, id) : Passes(h, g) /\ Counts(g)
    BY <2>1 DEF Passes, Beginning, Running
  <2> QED BY <1>0, <2>2 DEF Follows
<1>10. Follows(h, ResultWitnessed(h, seq))
  <2>1. \A g \in ResultWitnessed(h, seq) :
           /\ h.phase \in Running /\ g.phase = "TERMINAL_WITNESS"
           /\ g.persistence = h.persistence /\ Counts(g)
    BY DEF ResultWitnessed, Only, History, Fields, Counts
  <2>2. \A g \in ResultWitnessed(h, seq) : Passes(h, g) /\ Counts(g)
    BY <2>1 DEF Passes, Beginning, Running
  <2> QED BY <1>0, <2>2 DEF Follows
<1>11. Follows(h, TerminalFailure(h, seq))
  <2>1. \A g \in TerminalFailure(h, seq) :
           /\ h.phase \in Running /\ g.phase = "TERMINAL_FAILURE"
           /\ g.persistence = h.persistence /\ Counts(g)
    BY DEF TerminalFailure, Only, History, Fields, Counts
  <2>2. \A g \in TerminalFailure(h, seq) : Passes(h, g) /\ Counts(g)
    BY <2>1 DEF Passes, Beginning, Running
  <2> QED BY <1>0, <2>2 DEF Follows
<1>12. Follows(h, WitnessReadback(h, id))
  <2>1. \A g \in WitnessReadback(h, id) :
           /\ h.phase = "TERMINAL_WITNESS" /\ g.phase = "TERMINAL_IDENTITY"
           /\ g.persistence = h.persistence /\ Counts(g)
    BY DEF WitnessReadback, From, Only, History, Fields, Counts
  <2>2. \A g \in WitnessReadback(h, id) : Passes(h, g) /\ Counts(g)
    BY <2>1 DEF Passes, Beginning, Running
  <2> QED BY <1>0, <2>2 DEF Follows
<1>13. h.phase \in Beginning => Follows(h, OutcomeUnknown(h, stage))
  <2>1. SUFFICES ASSUME h.phase \in Beginning, NEW g \in OutcomeUnknown(h, stage)
                 PROVE  Onward(h, FALSE, g, TRUE) /\ Counts(g)
    BY DEF Follows
  <2>2. g = [h EXCEPT !.phase = "OUTCOME_UNKNOWN", !.unknown = stage] /\ h.phase # "BASELINE"
    BY DEF OutcomeUnknown, Only
  <2>3. /\ g.persistence = h.persistence /\ g.phase = "OUTCOME_UNKNOWN"
        /\ g.last = h.last /\ g.pending = h.pending
    BY <2>2 DEF History, Fields
  <2>4. Passes(h, g) /\ Counts(g)
    BY <2>1, <2>2, <2>3 DEF Passes, Counts
  <2> QED BY <1>0, <2>4
<1> QED BY <1>1, <1>2, <1>3, <1>4, <1>5, <1>6, <1>7, <1>8, <1>9, <1>10, <1>11, <1>12, <1>13

\* A tracker that stays with its component and awaits no more than before.
LEMMA AdvancePast ==
    ASSUME NEW t, NEW u, SamePlace(t, u), t.phase # "NOT_STARTED", u.phase # "NOT_STARTED",
           NEW after,
           \A k \in {"prepare", "complete", "confirm"} : Awaits(k, u, after) => Awaits(k, t, FALSE),
           NEW c, SavePast(c, t, FALSE)
    PROVE  SavePast(c, u, after)
<1>1. Current(u) = Current(t)
  BY SamePlaceFacts
<1> QED BY <1>1 DEF SavePast

\* A tracker that goes on to a later component.
LEMMA NextPast ==
    ASSUME NEW t, NEW u, u.phase # "NOT_STARTED",
           Earlier(Current(t), Current(u)),
           NEW after, NEW c, SavePast(c, t, FALSE)
    PROVE  SavePast(c, u, after)
<1>1. \A x : Earlier(x, Current(t)) => Earlier(x, Current(u))
  BY DEF Earlier
<1> QED BY <1>1 DEF SavePast

\* The save's milestones: every tracker of T is past what was sent before it.
SaveFollows(t, T) == \A u \in T : \A c : SavePast(c, t, FALSE) => SavePast(c, u, TRUE)

\* The components are saved in one order, and each of their commands once.
LEMMA SaveMilestonesFollow ==
    ASSUME NEW t, Tracker(t), NEW batches \in {IdentityPlan, FailurePlan}, NEW stage, NEW possible
    PROVE  /\ SaveFollows(t, Plan(t, batches))
           /\ SaveFollows(t, PrepareIntent(t)) /\ SaveFollows(t, Prepared(t))
           /\ SaveFollows(t, CompleteIntent(t)) /\ SaveFollows(t, BlobCaptured(t))
           /\ SaveFollows(t, HostStaged(t))
           /\ SaveFollows(t, ConfirmIntent(t)) /\ SaveFollows(t, Confirmed(t))
           /\ SaveFollows(t, EarlyConfirmRecovered(t))
           /\ SaveFollows(t, CommitIntent(t)) /\ SaveFollows(t, Committed(t))
           /\ SaveFollows(t, FinalConfirmIntent(t)) /\ SaveFollows(t, FinalConfirmed(t))
           /\ SaveFollows(t, Attested(t)) /\ SaveFollows(t, Freeze(t, stage, possible))
<1>1. ASSUME NEW T, NEW from, NEW to, MovesTo(t, T, from, to),
             \/ from = "COMPONENT_READY" /\ to = "PREPARE_INTENT"
             \/ from = "PREPARE_INTENT" /\ to = "PREPARED"
             \/ from = "PREPARED" /\ to = "COMPLETE_INTENT"
             \/ from = "COMPLETE_INTENT" /\ to = "SECURE_BLOB_CAPTURED"
             \/ from = "HOST_STAGED" /\ to \in {"CONFIRM_INTENT", "BATCH_COMMIT_INTENT"}
             \/ from = "BATCH_COMMIT_INTENT" /\ to = "BATCH_COMMITTED"
             \/ from = "BATCH_COMMITTED" /\ to = "FINAL_CONFIRM_INTENT"
      PROVE  SaveFollows(t, T)
  <2>1. SUFFICES ASSUME NEW u \in T, NEW c, SavePast(c, t, FALSE)
                 PROVE  SavePast(c, u, TRUE)
    BY DEF SaveFollows
  <2>2. SamePlace(t, u) /\ t.phase = from /\ u.phase = to
    BY <1>1 DEF MovesTo
  <2>3. \A k : k \in {"prepare", "complete", "confirm"} /\ Awaits(k, u, TRUE) => Awaits(k, t, FALSE)
    BY <1>1, <2>2 DEF Awaits
  <2> QED BY <1>1, <2>1, <2>2, <2>3, AdvancePast
<1>2. /\ SaveFollows(t, PrepareIntent(t)) /\ SaveFollows(t, Prepared(t))
      /\ SaveFollows(t, CompleteIntent(t)) /\ SaveFollows(t, BlobCaptured(t))
      /\ SaveFollows(t, ConfirmIntent(t)) /\ SaveFollows(t, CommitIntent(t))
      /\ SaveFollows(t, Committed(t)) /\ SaveFollows(t, FinalConfirmIntent(t))
  BY <1>1, MoveTracks
<1>3. SaveFollows(t, Plan(t, batches))
  BY PlanTracks DEF SaveFollows, SavePast
<1>4. SaveFollows(t, HostStaged(t))
  <2>1. SUFFICES ASSUME NEW u \in HostStaged(t), NEW c, SavePast(c, t, FALSE)
                 PROVE  SavePast(c, u, TRUE)
    BY DEF SaveFollows
  <2>2. SamePlace(t, u) /\ t.phase = "SECURE_BLOB_CAPTURED" /\ u.phase = "HOST_STAGED"
    BY StageTracks
  <2>3. \A k : k \in {"prepare", "complete", "confirm"} /\ Awaits(k, u, TRUE) => Awaits(k, t, FALSE)
    BY <2>2 DEF Awaits
  <2> QED BY <2>1, <2>2, <2>3, AdvancePast
<1>5. SaveFollows(t, Confirmed(t)) /\ SaveFollows(t, EarlyConfirmRecovered(t))
  <2>1. SUFFICES ASSUME NEW u \in Confirmed(t) \cup EarlyConfirmRecovered(t), NEW c, SavePast(c, t, FALSE)
                 PROVE  SavePast(c, u, TRUE)
    BY DEF SaveFollows
  <2>2. /\ Tracker(u) /\ u.phase = "COMPONENT_READY" /\ Early(t)
        /\ u.component = 2 /\ u.batches = IdentityPlan /\ u.batch = 1
    BY ConfirmTracks
  <2>3. Placed(t) /\ Placed(u)
    BY <2>2 DEF Placed, Early
  <2>4. Current(t) = "user" /\ Current(u) = "master"
    BY <2>2, <2>3, Places3
  <2> QED BY <2>1, <2>2, <2>4, NextPast DEF Earlier
<1>6. SaveFollows(t, FinalConfirmed(t))
  <2>1. SUFFICES ASSUME NEW u \in FinalConfirmed(t), NEW c, SavePast(c, t, FALSE)
                 PROVE  SavePast(c, u, TRUE)
    BY DEF SaveFollows
  <2>2. t.phase = "FINAL_CONFIRM_INTENT" /\ TrackerFields \subseteq DOMAIN t /\ Placed(t) /\ ~Early(t)
    BY DEF FinalConfirmed, Only, Tracker, Concluding
  <2>3. CASE u.phase = "ATTESTATION_READY"
    <3>1. u = [t EXCEPT !.phase = "ATTESTATION_READY"]
      <4>1. t.batch < Len(t.batches) => u.phase = "COMPONENT_READY"
        BY <2>2 DEF FinalConfirmed, Only, TrackerFields
      <4> QED BY <2>2, <2>3, <4>1 DEF FinalConfirmed, Only
    <3>2. SamePlace(t, u)
      BY <3>1, AdvanceTracks
    <3>3. \A k : ~Awaits(k, u, TRUE)
      BY <2>3 DEF Awaits
    <3> QED BY <2>1, <2>2, <2>3, <3>2, <3>3, AdvancePast
  <2>4. CASE u.phase = "COMPONENT_READY"
    <3>1. Tracker(u) /\ u.batches = t.batches /\ u.component = 1 /\ u.batch = 2
      BY <2>4, FinalTracks
    <3>2. u.batches = IdentityPlan /\ ~Early(u) /\ Placed(u)
      BY <2>4, <3>1 DEF Tracker, Placed, Early
    <3>3. t.batch = 1 /\ t.component = 2 /\ t.batches = IdentityPlan
      <4>1. t.batch = 1
        <5>1. u = [t EXCEPT !.phase = "COMPONENT_READY", !.batch = @ + 1, !.component = 1, !.staged = {}]
          <6>1. ~(t.batch < Len(t.batches)) => u.phase = "ATTESTATION_READY"
            BY <2>2 DEF FinalConfirmed, Only, TrackerFields
          <6> QED BY <2>2, <2>4, <6>1 DEF FinalConfirmed, Only
        <5>2. u.batch = t.batch + 1
          BY <2>2, <5>1 DEF TrackerFields
        <5> QED BY <2>2, <3>1, <5>2 DEF Placed
      <4> QED BY <2>2, <3>1, <3>2, <4>1 DEF Placed, Early
    <3>4. Current(t) = "master"
      BY <2>2, <3>3, Places3
    <3>5. Current(u) = "biolockout"
      BY <3>1, <3>2 DEF Current, CurrentBatch, IdentityPlan
    <3> QED BY <2>1, <2>4, <3>4, <3>5, NextPast DEF Earlier
  <2> QED BY <2>3, <2>4, FinalTracks
<1>7. SaveFollows(t, Attested(t)) /\ SaveFollows(t, Freeze(t, stage, possible))
  <2>1. SUFFICES ASSUME NEW u \in Attested(t) \cup Freeze(t, stage, possible), NEW c, SavePast(c, t, FALSE)
                 PROVE  SavePast(c, u, TRUE)
    BY DEF SaveFollows
  <2>2. TrackerFields \subseteq DOMAIN t
    BY DEF Tracker
  <2>3. SamePlace(t, u) /\ u.phase \in {"COMPLETE", "OUTCOME_UNKNOWN"} /\ t.phase # "NOT_STARTED"
    BY <2>2 DEF Attested, Freeze, Only, SamePlace, TrackerFields
  <2>4. \A k : ~Awaits(k, u, TRUE)
    BY <2>3 DEF Awaits
  <2> QED BY <2>1, <2>3, <2>4, AdvancePast
<1> QED BY <1>2, <1>3, <1>4, <1>5, <1>6, <1>7

-----------------------------------------------------------------------------
(* What each step sends. *)

\* The events are as they were, or fewer, and the SEP still counts.
Fewer ==
    /\ events' = events \/ events' = <<>> \/ (events # <<>> /\ events' = Tail(events))
    /\ "seq" \in DOMAIN sep' /\ sep'.seq \in Nat

\* They stay numbered.
LEMMA FewerNumbered ==
    ASSUME ReplayInv, Fewer, DOMAIN jr' = DOMAIN jr, \A o \in DOMAIN jr : Counts(jr'[o])
    PROVE  Numbered'
<1>1. \A i \in DOMAIN events' : events'[i].seq \in Nat
  <2>1. CASE events' = events
    BY <2>1 DEF ReplayInv, Numbered
  <2>2. CASE events' = <<>>
    BY <2>2
  <2>3. CASE events # <<>> /\ events' = Tail(events)
    <3>1. \A i \in DOMAIN events' : i + 1 \in DOMAIN events /\ events'[i] = events[i + 1]
      BY <2>3, ListedTail DEF ReplayInv, SaveInv, Inv, Types
    <3> QED BY <3>1 DEF ReplayInv, Numbered
  <2> QED BY <2>1, <2>2, <2>3 DEF Fewer
<1> QED BY <1>1 DEF Numbered, Fewer, Counts

\* A step that leaves the journals and what was sent.
LEMMA StayReplay ==
    ASSUME ReplayInv, SaveInv', UNCHANGED <<jr, sent>>, Fewer,
           proc' = proc \/ proc'.at # "send" \/ proc'.cmd = "none"
    PROVE  ReplayInv'
<1>1. \A o \in DOMAIN jr : Counts(jr'[o])
  BY DEF ReplayInv, Numbered, Counts
<1>2. Numbered'
  BY <1>1, FewerNumbered
<1> QED BY <1>2, JournalsStay

\* A step that writes one record.
LEMMA WriteReplay ==
    ASSUME ReplayInv, SaveInv', UNCHANGED sent, Fewer,
           NEW o \in DOMAIN jr, NEW g, jr' = [jr EXCEPT ![o] = g], Counts(g),
           \/ /\ Onward(jr[o], FALSE, g, TRUE)
              /\ proc'.cmd = "none" \/ proc'.op = o
           \/ /\ Onward(jr[o], FALSE, g, FALSE)
              /\ proc'.cmd = "none" \/ proc'.at # "send"
    PROVE  ReplayInv'
<1>1. /\ DOMAIN jr' = DOMAIN jr /\ jr'[o] = g
      /\ \A p \in DOMAIN jr : p # o => jr'[p] = jr[p]
  BY ListedExcept DEF ReplayInv, SaveInv, Inv, Types
<1>2. \A p \in DOMAIN jr : Counts(jr'[p])
  BY <1>1 DEF ReplayInv, Numbered, Counts
<1>3. Numbered'
  BY <1>1, <1>2, FewerNumbered
<1>4. Onward(jr[o], Sending(o), g, Sending(o)')
  <2>1. SUFFICES ASSUME NEW c, Past(c, jr[o], Sending(o))
                 PROVE  Past(c, g, Sending(o)')
    BY DEF Onward
  <2>2. Past(c, jr[o], FALSE)
    BY <2>1, PastKept
  <2>3. CASE Onward(jr[o], FALSE, g, TRUE)
    <3>1. Past(c, g, TRUE)
      BY <2>2, <2>3 DEF Onward
    <3> QED BY <3>1, PastKept
  <2>4. CASE Onward(jr[o], FALSE, g, FALSE) /\ (proc'.cmd = "none" \/ proc'.at # "send")
    <3>1. ~Sending(o)'
      BY <2>4 DEF Sending, Runs
    <3>2. Past(c, g, FALSE)
      BY <2>2, <2>4 DEF Onward
    <3> QED BY <3>1, <3>2, PastKept
  <2> QED BY <2>3, <2>4
<1> QED BY <1>3, <1>4, RecordWritten

\* What a running command has to go on with.
LEMMA RunningReplay ==
    ASSUME ReplayInv, proc.cmd # "none"
    PROVE  /\ SaveInv /\ Inv /\ History(hist) /\ Linked(hist) /\ Tracker(saved) /\ Counts(hist)
           /\ saved = hist.persistence /\ proc.op \in DOMAIN jr /\ hist = jr[proc.op]
           /\ "seq" \in DOMAIN sep /\ sep.seq \in Nat
BY RunningSaved DEF ReplayInv, Numbered, Counts, hist

\* The command writes a milestone and goes on, or ends.
LEMMA RecordReplay ==
    ASSUME ReplayInv, SaveInv', proc.cmd # "none", NEW H, Follows(hist, H),
           \/ RecordAndExit(H)
           \/ \E at : Record(H, at) \/ (events # <<>> /\ RecordEvent(H, at))
    PROVE  ReplayInv'
<1>1. /\ Inv /\ proc.op \in DOMAIN jr /\ hist = jr[proc.op]
      /\ "seq" \in DOMAIN sep /\ sep.seq \in Nat
  BY RunningReplay
<1>2. /\ Journal(H) /\ UNCHANGED <<sep, sent>>
      /\ events' = events \/ events' = <<>> \/ (events # <<>> /\ events' = Tail(events))
  BY DEF RecordAndExit, Record, RecordEvent, Exit, outside
<1>3. proc'.cmd = "none" \/ proc'.op = proc.op
  <2>1. CASE RecordAndExit(H)
    BY <2>1 DEF RecordAndExit, Exit, Idle
  <2>2. CASE \E at : Goto(at)
    BY <1>1, <2>2, GotoFacts
  <2> QED BY <2>1, <2>2 DEF Record, RecordEvent
<1>4. PICK g \in H : jr' = [jr EXCEPT ![proc.op] = g]
  BY <1>2 DEF Journal
<1>5. Onward(jr[proc.op], FALSE, g, TRUE) /\ Counts(g)
  BY <1>1 DEF Follows
<1>6. Fewer
  BY <1>1, <1>2 DEF Fewer
<1> QED BY <1>1, <1>2, <1>3, <1>4, <1>5, <1>6, WriteReplay

\* The milestones of a scan that the command writes.
LEMMA ScanReplay ==
    ASSUME ReplayInv, SaveInv',
           \/ AbortBeforeStart \/ IntendStart \/ ObserveStart \/ RequestCancel \/ ObserveCancel
           \/ ObserveContinue \/ AdoptWitness
    PROVE  ReplayInv'
<1>1. proc.cmd # "none"
  BY DEF AbortBeforeStart, IntendStart, ObserveStart, RequestCancel, ObserveCancel, ObserveContinue,
         AdoptWitness, At
<1>2. History(hist) /\ Linked(hist) /\ Counts(hist) /\ 0 \in Nat
  BY <1>1, RunningReplay
<1>3. CASE AbortBeforeStart
  BY <1>1, <1>2, <1>3, ScanFollows, RecordReplay DEF AbortBeforeStart
<1>4. CASE IntendStart
  BY <1>1, <1>2, <1>4, ScanFollows, RecordReplay DEF IntendStart
<1>5. CASE ObserveStart
  BY <1>1, <1>2, <1>5, ScanFollows, RecordReplay DEF ObserveStart
<1>6. CASE RequestCancel
  BY <1>1, <1>2, <1>6, ScanFollows, RecordReplay DEF RequestCancel
<1>7. CASE ObserveCancel
  BY <1>1, <1>2, <1>7, ScanFollows, RecordReplay DEF ObserveCancel
<1>8. CASE ObserveContinue
  BY <1>1, <1>2, <1>8, ScanFollows, RecordReplay DEF ObserveContinue
<1>9. CASE AdoptWitness
  <2>1. PICK id : Record(WitnessReadback(hist, id), "run")
    BY <1>9 DEF AdoptWitness
  <2> QED BY <1>1, <1>2, <2>1, ScanFollows, RecordReplay
<1> QED BY <1>3, <1>4, <1>5, <1>6, <1>7, <1>8, <1>9

\* The outcome is not known.
LEMMA UnknownReplay ==
    ASSUME ReplayInv, SaveInv',
           ReplyUnknown \/ LoopUnknown \/ RejectEvent \/ TerminalUnrecorded \/ WitnessUnknown
    PROVE  ReplayInv'
<1>1. proc.cmd # "none"
  BY StandsRuns
     DEF ReplayInv, SaveInv, ReplyUnknown, LoopUnknown, RejectEvent, TerminalUnrecorded, WitnessUnknown,
         Replied, Arrived, At
<1>2. hist.phase \in Beginning
  BY DEF ReplyUnknown, LoopUnknown, RejectEvent, TerminalUnrecorded, WitnessUnknown, Arrived, At,
         Running, Beginning
<1>3. PICK stage : RecordAndExit(OutcomeUnknown(hist, stage))
  BY DEF ReplyUnknown, LoopUnknown, RejectEvent, TerminalUnrecorded, WitnessUnknown
<1>4. Follows(hist, OutcomeUnknown(hist, stage))
  BY <1>1, <1>2, RunningReplay, ScanFollows
<1> QED BY <1>1, <1>3, <1>4, RecordReplay

\* The events that the command takes.
LEMMA EventsReplay ==
    ASSUME ReplayInv, SaveInv', IgnoreEvent \/ AcceptProgress \/ AcceptTerminal
    PROVE  ReplayInv'
<1>1. /\ proc.at = "run" /\ events # <<>>
  BY DEF IgnoreEvent, AcceptProgress, AcceptTerminal, Arrived
<1>2. proc.cmd # "none"
  BY <1>1, StandsRuns DEF ReplayInv, SaveInv
<1>3. History(hist) /\ Linked(hist) /\ Counts(hist) /\ "seq" \in DOMAIN sep /\ sep.seq \in Nat
  BY <1>2, RunningReplay
<1>4. CASE IgnoreEvent
  <2>1. UNCHANGED <<jr, proc, sep, sent>> /\ events' = Tail(events)
    BY <1>4 DEF IgnoreEvent
  <2>2. Fewer
    BY <1>1, <1>3, <2>1 DEF Fewer
  <2> QED BY <2>1, <2>2, StayReplay
<1>5. PICK seq : seq = Head(events).seq
  OBVIOUS
<1>6. seq \in Nat
  BY <1>1, <1>5, ListedTail DEF ReplayInv, SaveInv, Inv, Types, Numbered
<1>7. CASE AcceptProgress
  <2>1. RecordEvent(ContinueIntent(hist, seq), "send")
    BY <1>5, <1>7 DEF AcceptProgress
  <2> QED BY <1>1, <1>2, <1>3, <1>6, <2>1, ScanFollows, RecordReplay
<1>8. CASE AcceptTerminal
  <2>1. \/ RecordEvent(TerminalIdentity(hist, seq, proc.op), "run")
        \/ RecordEvent(ResultWitnessed(hist, seq), "run")
        \/ RecordEvent(TerminalFailure(hist, seq), "run")
    BY <1>5, <1>8 DEF AcceptTerminal
  <2>2. /\ Follows(hist, TerminalIdentity(hist, seq, proc.op))
        /\ Follows(hist, ResultWitnessed(hist, seq)) /\ Follows(hist, TerminalFailure(hist, seq))
    BY <1>3, <1>6, ScanFollows
  <2> QED BY <1>1, <1>2, <2>1, <2>2, RecordReplay
<1> QED BY <1>4, <1>7, <1>8

\* A milestone of the save.
LEMMA PersistFollows ==
    ASSUME NEW h, History(h), Counts(h), h.phase \in SavePhases, NEW T, SaveFollows(h.persistence, T)
    PROVE  Follows(h, Persist(h, T))
<1>1. SUFFICES ASSUME NEW g \in Persist(h, T)
               PROVE  Onward(h, FALSE, g, TRUE) /\ Counts(g)
  BY DEF Follows
<1>2. PICK t \in T : g = [h EXCEPT !.persistence = t, !.phase = PhaseOf(t, FALSE)]
  BY DEF Persist
<1>3. PICK x : x = PhaseOf(t, FALSE)
  OBVIOUS
<1>4. x \in {"PERSISTING", "OUTCOME_UNKNOWN", "PERSISTENCE_READY"}
  BY <1>3 DEF PhaseOf
<1>5. g.phase = x /\ g.persistence = t /\ g.last = h.last /\ g.pending = h.pending
  <2>1. g = [h EXCEPT !.persistence = t, !.phase = x]
    BY <1>2, <1>3
  <2> QED BY <2>1 DEF History, Fields
<1>6. h.phase \notin Beginning /\ g.phase \notin Beginning
  BY <1>4, <1>5 DEF SavePhases, Beginning
<1>7. \A c : SavePast(c, h.persistence, FALSE) => SavePast(c, g.persistence, TRUE)
  BY <1>2, <1>5 DEF SaveFollows
<1> QED BY <1>5, <1>6, <1>7, SaveOnward DEF Counts

\* The milestones of a save that the command writes.
LEMMA SaveReplay ==
    ASSUME ReplayInv, SaveInv',
           \/ PlanPersistence \/ IntendPrepare \/ ObservePrepare \/ IntendComplete \/ CaptureBlob
           \/ RecordStaged \/ IntendConfirm \/ ObserveConfirm \/ IntendCommit \/ RecordCommitted
           \/ IntendFinalConfirm \/ ObserveFinalConfirm \/ Attest
    PROVE  ReplayInv'
<1>1. PICK phase, at : Saving(phase, at)
  BY DEF PlanPersistence, IntendPrepare, ObservePrepare, IntendComplete, CaptureBlob, RecordStaged,
         IntendConfirm, ObserveConfirm, IntendCommit, RecordCommitted, IntendFinalConfirm,
         ObserveFinalConfirm, Attest
<1>2. proc.cmd # "none" /\ hist.phase \in SavePhases
  BY <1>1, SavingFacts DEF ReplayInv, SaveInv
<1>3. History(hist) /\ Linked(hist) /\ Tracker(saved) /\ Counts(hist) /\ saved = hist.persistence
  BY <1>2, RunningReplay
<1>4. ASSUME NEW T, SaveFollows(saved, T), NEW to, Record(Persist(hist, T), to)
      PROVE  ReplayInv'
  <2>1. Follows(hist, Persist(hist, T))
    BY <1>2, <1>3, <1>4, PersistFollows
  <2> QED BY <1>2, <1>4, <2>1, RecordReplay
<1>5. PICK batches \in {IdentityPlan, FailurePlan} : PlanSave(hist) = Persist(hist, Plan(saved, batches))
  BY <1>3 DEF PlanSave
<1>6. /\ SaveFollows(saved, Plan(saved, batches))
      /\ SaveFollows(saved, PrepareIntent(saved)) /\ SaveFollows(saved, Prepared(saved))
      /\ SaveFollows(saved, CompleteIntent(saved)) /\ SaveFollows(saved, BlobCaptured(saved))
      /\ SaveFollows(saved, HostStaged(saved))
      /\ SaveFollows(saved, ConfirmIntent(saved)) /\ SaveFollows(saved, Confirmed(saved))
      /\ SaveFollows(saved, CommitIntent(saved)) /\ SaveFollows(saved, Committed(saved))
      /\ SaveFollows(saved, FinalConfirmIntent(saved)) /\ SaveFollows(saved, FinalConfirmed(saved))
      /\ SaveFollows(saved, Attested(saved))
  BY <1>3, SaveMilestonesFollow
<1>7. CASE PlanPersistence
  BY <1>4, <1>5, <1>6, <1>7 DEF PlanPersistence
<1>8. CASE IntendPrepare \/ ObservePrepare
  BY <1>4, <1>6, <1>8 DEF IntendPrepare, ObservePrepare
<1>9. CASE IntendComplete \/ CaptureBlob
  BY <1>4, <1>6, <1>9 DEF IntendComplete, CaptureBlob
<1>10. CASE RecordStaged
  BY <1>4, <1>6, <1>10 DEF RecordStaged
<1>11. CASE IntendConfirm \/ ObserveConfirm
  BY <1>4, <1>6, <1>11 DEF IntendConfirm, ObserveConfirm
<1>12. CASE IntendCommit \/ RecordCommitted
  BY <1>4, <1>6, <1>12 DEF IntendCommit, RecordCommitted
<1>13. CASE IntendFinalConfirm \/ ObserveFinalConfirm
  BY <1>4, <1>6, <1>13 DEF IntendFinalConfirm, ObserveFinalConfirm
<1>14. CASE Attest
  BY <1>4, <1>6, <1>14 DEF Attest
<1> QED BY <1>7, <1>8, <1>9, <1>10, <1>11, <1>12, <1>13, <1>14

\* The save is frozen, or reconciled.
LEMMA SaveEndsReplay ==
    ASSUME ReplayInv, SaveInv', FreezeSave \/ ReconcileE3
    PROVE  ReplayInv'
<1>1. CASE FreezeSave
  <2>1. PICK phase, at, stage, possible :
            Saving(phase, at) /\ RecordAndExit(Persist(hist, Freeze(saved, stage, possible)))
    BY <1>1, Zenon DEF FreezeSave
  <2>2. proc.cmd # "none" /\ hist.phase \in SavePhases /\ saved.phase = phase
    BY <2>1, SavingFacts DEF ReplayInv, SaveInv, Saving
  <2>3. History(hist) /\ Tracker(saved) /\ Counts(hist) /\ saved = hist.persistence
    BY <2>2, RunningReplay
  <2>4. SaveFollows(saved, Freeze(saved, stage, possible))
    BY <2>3, SaveMilestonesFollow
  <2>5. Follows(hist, Persist(hist, Freeze(saved, stage, possible)))
    BY <2>2, <2>3, <2>4, PersistFollows
  <2> QED BY <2>1, <2>2, <2>5, RecordReplay
<1>2. CASE ReconcileE3
  <2>1. /\ proc.cmd # "none" /\ hist.phase = "PERSISTENCE_READY" /\ UNCHANGED <<sep, sent>>
        /\ proc' = Idle /\ events' = <<>>
    BY <1>2 DEF ReconcileE3, At, Exit
  <2>2. PICK g \in Reconciled(hist, Added(hist), Snapshot) : jr' = [jr EXCEPT ![proc.op] = g]
    BY <1>2, Zenon DEF ReconcileE3, Journal
  <2>3. /\ History(hist) /\ Counts(hist) /\ proc.op \in DOMAIN jr /\ hist = jr[proc.op]
        /\ "seq" \in DOMAIN sep /\ sep.seq \in Nat
    BY <2>1, RunningReplay
  <2>4. /\ g.phase = "RECONCILED" /\ g.persistence = hist.persistence
        /\ g.last = hist.last /\ g.pending = hist.pending
    <3>1. PICK x : x = Snapshot
      OBVIOUS
    <3>2. g = [hist EXCEPT !.phase = "RECONCILED", !.snapshot = x]
      BY <2>2, <3>1 DEF Reconciled, Only
    <3> QED BY <2>3, <3>2 DEF History, Fields
  <2>5. Onward(hist, FALSE, g, FALSE)
    BY <2>1, <2>4, SaveOnward DEF Beginning
  <2>6. Fewer /\ Counts(g) /\ proc'.cmd = "none"
    BY <2>1, <2>3, <2>4 DEF Fewer, Counts, Idle
  <2> QED BY <2>1, <2>2, <2>3, <2>5, <2>6, WriteReplay
<1> QED BY <1>1, <1>2

\* Each command is sent where it is not past.
LEMMA DispatchReplay ==
    ASSUME ReplayInv, SaveInv',
           \/ DispatchStart \/ DispatchCancel \/ DispatchContinue
           \/ DispatchPrepare \/ DispatchComplete \/ DispatchConfirm \/ DispatchFinalConfirm
    PROVE  ReplayInv'
<1>1. proc.cmd # "none" /\ proc.at = "send"
  BY DEF DispatchStart, DispatchCancel, DispatchContinue, DispatchPrepare, DispatchComplete,
         DispatchConfirm, DispatchFinalConfirm, At, Saving
<1>2. /\ Inv /\ History(hist) /\ Linked(hist) /\ Tracker(saved) /\ Counts(hist)
      /\ saved = hist.persistence /\ "seq" \in DOMAIN sep /\ sep.seq \in Nat
  BY <1>1, RunningReplay
<1>3. ASSUME NEW c, NEW after, "seq" \in DOMAIN after, after.seq = sep.seq,
             \/ Dispatch(c, after)
             \/ /\ sent' = [sent EXCEPT ![proc.op] = Append(@, c)]
                /\ Goto("refused") /\ UNCHANGED <<jr, store, sep, events, boot>>,
             ~Past(c, hist, TRUE), Past(c, hist, FALSE)
      PROVE  ReplayInv'
  <2>1. /\ UNCHANGED <<jr, events>> /\ sent' = [sent EXCEPT ![proc.op] = Append(@, c)]
        /\ sep' = sep \/ sep' = after
        /\ \E at \in {"ok", "lost", "refused"} : Goto(at)
    BY <1>3 DEF Dispatch
  <2>2. proc'.at # "send"
    BY <1>2, <2>1, GotoFacts
  <2>3. "seq" \in DOMAIN sep' /\ sep'.seq = sep.seq
    BY <1>2, <1>3, <2>1
  <2> QED BY <1>1, <1>3, <2>1, <2>2, <2>3, CommandSent
<1>4. CASE DispatchStart
  <2>1. hist.phase = "START_INTENT"
    BY <1>4 DEF DispatchStart, At
  <2>2. PICK c : c = <<"start">>
    OBVIOUS
  <2>3. c[1] = "start"
    BY <2>2
  <2>4. ~Past(c, hist, TRUE) /\ Past(c, hist, FALSE)
    BY <2>1, <2>3 DEF Past, ScanPast, SavePast
  <2>5. PICK after : after = [sep EXCEPT !.scan = proc.op]
    OBVIOUS
  <2>6. "seq" \in DOMAIN after /\ after.seq = sep.seq
    BY <1>2, <2>5
  <2> QED BY <1>3, <1>4, <2>2, <2>4, <2>5, <2>6 DEF DispatchStart
<1>5. CASE DispatchCancel
  <2>1. hist.phase = "CANCEL_INTENT" /\ Dispatch(<<"cancel">>, sep)
    BY <1>5 DEF DispatchCancel, At
  <2>2. PICK c : c = <<"cancel">>
    OBVIOUS
  <2>3. c[1] = "cancel"
    BY <2>2
  <2>4. ~Past(c, hist, TRUE) /\ Past(c, hist, FALSE)
    BY <2>1, <2>3 DEF Past, ScanPast, SavePast
  <2> QED BY <1>2, <1>3, <2>1, <2>2, <2>4
<1>6. CASE DispatchContinue
  <2>1. hist.phase = "CONTINUE_INTENT" /\ Dispatch(<<"continue", hist.pending>>, sep)
    BY <1>6 DEF DispatchContinue, At
  <2>2. PICK c : c = <<"continue", hist.pending>>
    OBVIOUS
  <2>3. c[1] = "continue" /\ c[2] = hist.pending /\ c[2] \in Nat
    BY <1>2, <2>2 DEF Counts
  <2>4. ~Past(c, hist, TRUE) /\ Past(c, hist, FALSE)
    BY <2>1, <2>3 DEF Past, ScanPast, SavePast
  <2> QED BY <1>2, <1>3, <2>1, <2>2, <2>4
<1>7. CASE DispatchPrepare \/ DispatchComplete \/ DispatchConfirm \/ DispatchFinalConfirm
  <2>1. PICK n : n = Current(saved)
    OBVIOUS
  <2>2. PICK k \in {"prepare", "complete", "confirm"},
             phase \in {"PREPARE_INTENT", "COMPLETE_INTENT", "CONFIRM_INTENT",
                        "FINAL_CONFIRM_INTENT"},
             after \in {sep, Cleaned} :
            /\ Saving(phase, "send") /\ Dispatch(<<k, n>>, after)
            /\ \/ k = "prepare" /\ phase = "PREPARE_INTENT"
               \/ k = "complete" /\ phase = "COMPLETE_INTENT"
               \/ k = "confirm" /\ phase \in {"CONFIRM_INTENT", "FINAL_CONFIRM_INTENT"}
    BY <1>7, <2>1 DEF DispatchPrepare, DispatchComplete, DispatchConfirm, DispatchFinalConfirm
  <2>3. "seq" \in DOMAIN after /\ after.seq = sep.seq
    <3>1. CASE after = sep
      BY <1>2, <3>1
    <3>2. CASE after = Cleaned
      BY <1>2, <3>2 DEF Cleaned
    <3> QED BY <2>2, <3>1, <3>2
  <2>4. PICK c : c = <<k, n>>
    OBVIOUS
  <2>5. c[1] = k /\ c[2] = n /\ saved.phase = phase
    BY <2>2, <2>4 DEF Saving
  <2>6. Awaits(k, saved, TRUE) /\ ~Awaits(k, saved, FALSE)
    BY <2>2, <2>5 DEF Awaits
  <2>7. ~Earlier(n, n)
    BY DEF Earlier
  <2>8. ~SavePast(c, saved, TRUE)
    BY <2>1, <2>2, <2>5, <2>6, <2>7 DEF SavePast
  <2>9. SavePast(c, saved, FALSE) /\ ScanPast(c, hist, FALSE)
    BY <2>1, <2>2, <2>5, <2>6 DEF SavePast, ScanPast
  <2> QED BY <1>2, <1>3, <2>2, <2>3, <2>4, <2>8, <2>9 DEF Past
<1> QED BY <1>4, <1>5, <1>6, <1>7

\* A new connection counts from zero.
LEMMA ConnectedCounts ==
    ASSUME "seq" \in DOMAIN sep
    PROVE  "seq" \in DOMAIN Connected /\ Connected.seq = 0
BY DEF Connected

\* The steps that send nothing and leave the journals.
LEMMA HostReplay ==
    ASSUME ReplayInv, SaveInv',
           \/ CapacityExhausted \/ RefusePlan \/ BeginStage \/ CreateStaged \/ StageComponent
           \/ CrossBoundary \/ RollForward \/ FinishLocal \/ Crash \/ Reboot
    PROVE  ReplayInv'
<1>1. "seq" \in DOMAIN sep /\ sep.seq \in Nat /\ Inv
  BY DEF ReplayInv, Numbered, SaveInv
<1>2. UNCHANGED <<jr, sent>> /\ (events' = events \/ events' = <<>>)
  BY DEF CapacityExhausted, RefusePlan, BeginStage, CreateStaged, StageComponent, CrossBoundary,
         RollForward, FinishLocal, DiscardLocal, RefuseDiscard, RollLocalForward, Crash, Reboot, Exit,
         outside
<1>3. "seq" \in DOMAIN sep' /\ sep'.seq \in Nat
  <2>1. CASE sep' = sep
    BY <1>1, <2>1
  <2>2. CASE Reboot
    <3>1. sep' = Connected \/ sep' = [ids |-> host.ids, dirty |-> {}, scan |-> 0, seq |-> 0]
      BY <2>2 DEF Reboot
    <3> QED BY <1>1, <3>1, ConnectedCounts
  <2> QED BY <2>1, <2>2
          DEF CapacityExhausted, RefusePlan, BeginStage, CreateStaged, StageComponent, CrossBoundary,
              RollForward, FinishLocal, DiscardLocal, RefuseDiscard, RollLocalForward, Crash, outside
<1>4. Fewer
  BY <1>2, <1>3 DEF Fewer
<1>5. proc' = proc \/ proc'.at # "send" \/ proc'.cmd = "none"
  <2>1. CASE BeginStage
    BY <2>1 DEF BeginStage
  <2>2. CASE Exit
    BY <2>2 DEF Exit, Idle
  <2>3. CASE \E at \in {"staging", "staged", "promote", "crossed"} : Goto(at)
    BY <1>1, <2>3, GotoFacts
  <2> QED BY <2>1, <2>2, <2>3
          DEF CapacityExhausted, RefusePlan, CreateStaged, StageComponent, CrossBoundary,
              RollForward, FinishLocal, DiscardLocal, RefuseDiscard, RollLocalForward, Crash, Reboot
<1> QED BY <1>2, <1>4, <1>5, StayReplay

\* The SEP's own steps: an event gets the next number.
LEMMA SepReplay ==
    ASSUME ReplayInv, SaveInv', SepEvent \/ SepFinish
    PROVE  ReplayInv'
<1>1. "seq" \in DOMAIN sep /\ sep.seq \in Nat /\ Listed(events) /\ UNCHANGED <<jr, proc, sent>>
  BY DEF ReplayInv, Numbered, SaveInv, Inv, Types, SepEvent, SepFinish
<1>2. "seq" \in DOMAIN sep' /\ sep'.seq \in Nat
  <2>1. CASE SepEvent
    BY <1>1, <2>1 DEF SepEvent
  <2>2. CASE SepFinish
    <3>1. PICK ids, dirty : sep' = [sep EXCEPT !.scan = 0, !.ids = ids, !.dirty = dirty]
      BY <2>2 DEF SepFinish
    <3> QED BY <1>1, <3>1
  <2> QED BY <2>1, <2>2
<1>3. PICK kind : Emit(kind)
  BY DEF SepEvent, SepFinish
<1>4. \A i \in DOMAIN events' : events'[i].seq \in Nat
  <2>1. CASE events' = <<>>
    BY <2>1
  <2>2. CASE events' = Append(events, [kind |-> kind, seq |-> sep.seq + 1])
    <3>1. PICK e : e = [kind |-> kind, seq |-> sep.seq + 1]
      OBVIOUS
    <3>2. e.seq \in Nat
      BY <1>1, <3>1
    <3>3. /\ DOMAIN events' = DOMAIN events \cup {Len(events) + 1} /\ events'[Len(events) + 1] = e
          /\ \A i \in DOMAIN events : events'[i] = events[i]
      BY <1>1, <2>2, <3>1, ListedAppend
    <3> QED BY <3>2, <3>3 DEF ReplayInv, Numbered
  <2> QED BY <1>3, <2>1, <2>2 DEF Emit
<1>5. Numbered'
  BY <1>1, <1>2, <1>4 DEF ReplayInv, Numbered
<1> QED BY <1>1, <1>5, JournalsStay

\* A recovery adds a record to a journal after its scan, and sends nothing.
LEMMA RecoverReplay ==
    ASSUME ReplayInv, SaveInv', Recover
    PROVE  ReplayInv'
<1>1. /\ "seq" \in DOMAIN sep /\ sep.seq \in Nat /\ Listed(jr)
      /\ \A o \in DOMAIN jr : History(jr[o]) /\ Linked(jr[o]) /\ Counts(jr[o])
  BY DEF ReplayInv, Numbered, SaveInv, Inv, Types, Counts
<1>2. ASSUME NEW h, NEW g, History(h), Linked(h), Counts(h),
             \/ \E added, snapshot : g \in RecoveryReconciled(h, added, snapshot)
             \/ \E id : g \in RecoveryReadback(h, id)
             \/ g \in RecoverEarlyConfirm(h)
             \/ \E stage \in LocalStages : g \in OutcomeUnknown(h, stage)
             \/ \E b, snapshot : g \in PostRebootVerified(h, b, snapshot)
      PROVE  Counts(g) /\ Onward(h, FALSE, g, FALSE)
  <2>1. CASE g \in RecoverEarlyConfirm(h)
    <3>1. PICK t \in EarlyConfirmRecovered(h.persistence) :
              g = [h EXCEPT !.persistence = t, !.phase = PhaseOf(t, TRUE)]
      BY <2>1 DEF RecoverEarlyConfirm
    <3>2. PICK x : x = PhaseOf(t, TRUE)
      OBVIOUS
    <3>3. g.persistence = t /\ g.last = h.last /\ g.pending = h.pending
      <4>1. g = [h EXCEPT !.persistence = t, !.phase = x]
        BY <3>1, <3>2
      <4> QED BY <1>2, <4>1 DEF History, Fields
    <3>4. g.phase = "TERMINAL_IDENTITY" /\ h.phase = "OUTCOME_UNKNOWN"
      BY <1>2, <2>1, EarlyKeeps DEF RecoverEarlyConfirm
    <3>5. \A c : SavePast(c, h.persistence, FALSE) => SavePast(c, t, FALSE)
      <4>1. SaveFollows(h.persistence, EarlyConfirmRecovered(h.persistence))
        BY <1>2, SaveMilestonesFollow DEF Linked
      <4>2. \A c, u : SavePast(c, u, TRUE) => SavePast(c, u, FALSE)
        BY DEF SavePast, Awaits
      <4> QED BY <3>1, <4>1, <4>2 DEF SaveFollows
    <3> QED BY <1>2, <3>3, <3>4, <3>5, SaveOnward DEF Beginning, Counts
  <2>2. CASE g \notin RecoverEarlyConfirm(h)
    <3>1. /\ g.persistence = h.persistence /\ g.last = h.last /\ g.pending = h.pending
          /\ g.phase \notin Beginning
          /\ h.phase \notin Beginning
      <4>1. CASE \E added, snapshot : g \in RecoveryReconciled(h, added, snapshot)
        BY <1>2, <4>1 DEF RecoveryReconciled, Only, History, Fields, Beginning
      <4>2. CASE \E id : g \in RecoveryReadback(h, id)
        BY <1>2, <4>2 DEF RecoveryReadback, Only, History, Fields, Beginning
      <4>3. CASE \E stage \in LocalStages : g \in OutcomeUnknown(h, stage)
        BY <1>2, <4>3 DEF OutcomeUnknown, Only, History, Fields, Beginning, LocalStages, InterruptedStages
      <4>4. CASE \E b, snapshot : g \in PostRebootVerified(h, b, snapshot)
        BY <1>2, <4>4 DEF PostRebootVerified, Only, History, Fields, Beginning
      <4> QED BY <1>2, <2>2, <4>1, <4>2, <4>3, <4>4
    <3> QED BY <1>2, <3>1, SaveOnward DEF Counts
  <2> QED BY <2>1, <2>2
<1>3. UNCHANGED <<events, sent>> /\ (sep' = sep \/ sep' = Connected)
  BY DEF Recover, ReconcileOutcomeUnknown, RecoverObservedIdentity, ResumeEarlyConfirm, RecoverCommand,
         RecoverLocal, VerifyPostReboot, outside
<1>4. Fewer
  <2>1. "seq" \in DOMAIN sep' /\ sep'.seq \in Nat
    BY <1>1, <1>3, ConnectedCounts
  <2> QED BY <1>3, <2>1 DEF Fewer
<1>5. proc'.cmd = "none" \/ proc'.at # "send"
  BY DEF Recover, ReconcileOutcomeUnknown, RecoverObservedIdentity, ResumeEarlyConfirm, RecoverCommand,
         RecoverLocal, VerifyPostReboot, Idle
<1>6. ASSUME NEW o \in DOMAIN jr, NEW g, jr' = [jr EXCEPT ![o] = g],
             Counts(g), Onward(jr[o], FALSE, g, FALSE)
      PROVE  ReplayInv'
  BY <1>3, <1>4, <1>5, <1>6, WriteReplay
<1>7. CASE ReconcileOutcomeUnknown
  <2>1. PICK o \in DOMAIN jr : \E h \in RecoveryReconciled(jr[o], Added(jr[o]), Snapshot) :
                                  jr' = [jr EXCEPT ![o] = h]
    BY <1>7, Zenon DEF ReconcileOutcomeUnknown
  <2>2. PICK g \in RecoveryReconciled(jr[o], Added(jr[o]), Snapshot) : jr' = [jr EXCEPT ![o] = g]
    BY <2>1, Zenon
  <2> QED BY <1>1, <1>2, <1>6, <2>2
<1>8. CASE RecoverObservedIdentity
  <2>0. PICK o \in DOMAIN jr :
            \E id : \E h \in RecoveryReadback(jr[o], id) : jr' = [jr EXCEPT ![o] = h]
    BY <1>8, Zenon DEF RecoverObservedIdentity
  <2>1. PICK id : \E h \in RecoveryReadback(jr[o], id) : jr' = [jr EXCEPT ![o] = h]
    BY <2>0, Zenon
  <2>2. PICK g \in RecoveryReadback(jr[o], id) : jr' = [jr EXCEPT ![o] = g]
    BY <2>1, Zenon
  <2> QED BY <1>1, <1>2, <1>6, <2>2
<1>9. CASE ResumeEarlyConfirm
  <2>1. PICK o \in DOMAIN jr : \E h \in RecoverEarlyConfirm(jr[o]) : jr' = [jr EXCEPT ![o] = h]
    BY <1>9, Zenon DEF ResumeEarlyConfirm
  <2>2. PICK g \in RecoverEarlyConfirm(jr[o]) : jr' = [jr EXCEPT ![o] = g]
    BY <2>1, Zenon
  <2> QED BY <1>1, <1>2, <1>6, <2>2
<1>10. CASE RecoverLocal
  <2>1. PICK o \in DOMAIN jr :
            \/ \E g \in OutcomeUnknown(jr[o], LocalStage(pend.dir)) : jr' = [jr EXCEPT ![o] = g]
            \/ UNCHANGED jr
    BY <1>10, Zenon DEF RecoverLocal
  <2>2. CASE UNCHANGED jr
    BY <1>3, <1>4, <1>5, <2>2, StayReplay
  <2>3. CASE \E g \in OutcomeUnknown(jr[o], LocalStage(pend.dir)) : jr' = [jr EXCEPT ![o] = g]
    <3>1. PICK g \in OutcomeUnknown(jr[o], LocalStage(pend.dir)) : jr' = [jr EXCEPT ![o] = g]
      BY <2>3, Zenon
    <3>2. LocalStage(pend.dir) \in LocalStages
      BY DEF LocalStage, LocalStages
    <3> QED BY <1>1, <1>2, <1>6, <3>1, <3>2
  <2> QED BY <2>1, <2>2, <2>3
<1>11. CASE VerifyPostReboot
  <2>1. PICK o \in DOMAIN jr : \E h \in PostRebootVerified(jr[o], boot, Snapshot) : jr' = [jr EXCEPT ![o] = h]
    BY <1>11, Zenon DEF VerifyPostReboot
  <2>2. PICK g \in PostRebootVerified(jr[o], boot, Snapshot) : jr' = [jr EXCEPT ![o] = g]
    BY <2>1, Zenon
  <2> QED BY <1>1, <1>2, <1>6, <2>2
<1> QED BY <1>7, <1>8, <1>9, <1>10, <1>11 DEF Recover

\* A new operation has sent nothing.
LEMMA EnrollReplay ==
    ASSUME ReplayInv, SaveInv', Enroll
    PROVE  ReplayInv'
<1>1. PICK op : op = Len(jr) + 1
  OBVIOUS
<1>2. PICK h : h = Baseline(boot, host, sep.ids)
  OBVIOUS
<1>3. /\ jr' = Append(jr, h) /\ sent' = Append(sent, <<>>) /\ sep' = Connected /\ events' = <<>>
      /\ proc' = [cmd |-> "enroll", op |-> op, at |-> "run"]
  BY <1>1, <1>2 DEF Enroll
<1>4. /\ DOMAIN jr' = DOMAIN jr \cup {op} /\ jr'[op] = h
      /\ op \notin DOMAIN jr /\ \A p \in DOMAIN jr : jr'[p] = jr[p]
  BY <1>1, <1>3, ListedAppend DEF ReplayInv, SaveInv, Inv, Types
<1>5. Len(sent) + 1 = op
  <2>1. Len(jr) \in Nat /\ DOMAIN jr = 1 .. Len(jr) /\ Len(sent) \in Nat /\ DOMAIN sent = 1 .. Len(sent)
    BY DEF ReplayInv, SaveInv, Inv, Types, Listed
  <2> QED BY <1>1, <2>1 DEF ReplayInv
<1>6. /\ Listed(sent') /\ DOMAIN sent' = DOMAIN sent \cup {op} /\ sent'[op] = <<>>
      /\ \A p \in DOMAIN sent : sent'[p] = sent[p]
  BY <1>3, <1>5, ListedAppend DEF ReplayInv
<1>7. \A o : ~Sending(o)'
  BY <1>3 DEF Sending
<1>8. ASSUME NEW o \in DOMAIN jr'
      PROVE  Listed(sent'[o]) /\ IsInjective(sent'[o]) /\ SentPast(o)' /\ Counts(jr'[o])
  <2>1. CASE o = op
    <3>1. h.last = 0 /\ h.pending = 0
      BY <1>2 DEF Baseline
    <3> QED BY <1>4, <1>6, <2>1, <3>1, ListedEmpty DEF IsInjective, SentPast, Counts
  <2>2. CASE o # op
    <3>1. /\ o \in DOMAIN jr /\ o \in DOMAIN sent /\ sent'[o] = sent[o] /\ jr'[o] = jr[o]
          /\ Listed(sent[o]) /\ IsInjective(sent[o]) /\ SentPast(o) /\ Counts(jr[o])
      BY <1>4, <1>6, <1>8, <2>2 DEF ReplayInv, Numbered, Counts
    <3>2. SentPast(o)'
      BY <1>7, <3>1, PastKept DEF SentPast
    <3> QED BY <3>1, <3>2
  <2> QED BY <2>1, <2>2
<1>9. Numbered'
  <2>1. "seq" \in DOMAIN sep' /\ sep'.seq = 0
    BY <1>3 DEF Connected, ReplayInv, Numbered
  <2>2. DOMAIN events' = {}
    BY <1>3, ListedEmpty
  <2> QED BY <1>8, <2>1, <2>2 DEF Numbered, Counts
<1> QED BY <1>4, <1>6, <1>8, <1>9 DEF ReplayInv

\* Nothing has been sent at the start.
LEMMA InitReplay == Init => ReplayInv
<1>1. SUFFICES ASSUME Init PROVE ReplayInv
  OBVIOUS
<1>2. SaveInv /\ jr = <<>> /\ sent = <<>> /\ events = <<>>
  BY <1>1, InitSaved DEF Init
<1>3. "seq" \in DOMAIN sep /\ sep.seq = 0
  BY <1>1 DEF Init
<1> QED BY <1>2, <1>3, ListedEmpty DEF ReplayInv, Numbered

\* Nothing is sent again by any step.
LEMMA NextReplay == ReplayInv /\ [Next]_vars => ReplayInv'
<1>1. SUFFICES ASSUME ReplayInv, [Next]_vars PROVE ReplayInv'
  OBVIOUS
<1>2. SaveInv'
  BY <1>1, NextSaved DEF ReplayInv
<1>3. CASE UNCHANGED vars
  <2>1. UNCHANGED <<jr, proc, sep, events, sent>>
    BY <1>3 DEF vars
  <2>2. Numbered'
    BY <1>1, <2>1 DEF ReplayInv, Numbered
  <2> QED BY <1>1, <1>2, <2>1, <2>2, JournalsStay
<1>4. CASE Enroll
  BY <1>1, <1>2, <1>4, EnrollReplay
<1>5. CASE Operate
  BY <1>1, <1>2, <1>5, HostReplay, ScanReplay, UnknownReplay, EventsReplay, DispatchReplay DEF Operate
<1>6. CASE Save
  BY <1>1, <1>2, <1>6, HostReplay, ScanReplay, UnknownReplay, SaveReplay, SaveEndsReplay, DispatchReplay
     DEF Save
<1>7. CASE FinishLocal
  BY <1>1, <1>2, <1>7, HostReplay
<1>8. CASE Recover
  BY <1>1, <1>2, <1>8, RecoverReplay
<1>9. CASE SepEvent \/ SepFinish
  BY <1>1, <1>2, <1>9, SepReplay
<1>10. CASE Interrupt
  BY <1>1, <1>2, <1>10, HostReplay, ScanReplay, UnknownReplay DEF Interrupt
<1> QED BY <1>1, <1>3, <1>4, <1>5, <1>6, <1>7, <1>8, <1>9, <1>10 DEF Next

(* Whatever stops, is recovered or is lost, and however many operations,   *)
(* boots and events there are, no command of an operation is sent to the   *)
(* SEP twice: every dispatch is of a command that the journal has an       *)
(* intent for and has not passed.                                          *)
THEOREM EnrollmentNoReplay == Spec => []NoReplay
<1>1. ReplayInv => NoReplay
  BY DEF ReplayInv, NoReplay
<1>2. Spec => []ReplayInv
  BY InitReplay, NextReplay, PTL DEF Spec
<1> QED BY <1>1, <1>2, PTL

=============================================================================
