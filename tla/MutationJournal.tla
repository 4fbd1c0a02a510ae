--------------------------- MODULE MutationJournal ---------------------------
(***************************************************************************)
(* t2_mutation_journal: the file under every mutation journal.  A record   *)
(* is one line; it carries its sequence number and the hash of the line    *)
(* before it.  The typed journals read the file, decide on the next        *)
(* milestone and append it guarded by the head they have read.             *)
(*                                                                         *)
(* Several processes may use one file.  A write may be short, a process    *)
(* may stop or fail between any two calls, and a power loss keeps what was *)
(* synced and any part of the rest.                                        *)
(***************************************************************************)
EXTENDS Naturals, Sequences

CONSTANTS
    Procs,       \* the processes that use the journal
    NoProc,
    Tears,       \* how a line may be cut: "part" of it, or only its newline missing
    MaxRecords,  \* bound: appends begun
    MaxLosses    \* bound: power losses

ASSUME MutationJournalAssumption ==
    /\ NoProc \notin Procs
    /\ Tears \subseteq {"part", "unterminated"}
    /\ MaxRecords \in Nat /\ MaxLosses \in Nat

VARIABLES
    exists,   \* the name is in the directory: "no", "yes" or "durable"
    lines,    \* the lines of the file
    disk,     \* the lines that a power loss keeps
    lock,     \* the process that holds the exclusive lock
    proc,     \* the processes
    begun,    \* appends begun; it numbers the records
    losses,
    acked     \* history: the records whose append has returned

vars == <<exists, lines, disk, lock, proc, begun, losses, acked>>
file == <<exists, lines, disk>>

Idle == [at |-> "idle", seen |-> <<>>, record |-> 0, old |-> 0]

-----------------------------------------------------------------------------
(* validate_records: every line is JSON and continues the chain.  A last   *)
(* line without its newline is JSON as well; two records in one line, or   *)
(* a part of one, are not.                                                 *)

Legible(line) == line.state \in {"whole", "unterminated"}

(* A record names the one before it, so that it fits in one place only. *)
Chained(ls) ==
    \A i \in DOMAIN ls : ls[i].previous = IF i = 1 THEN 0 ELSE ls[i - 1].record

Valid(ls) == (\A i \in DOMAIN ls : Legible(ls[i])) /\ Chained(ls)

Records(ls) == [i \in DOMAIN ls |-> ls[i].record]
HeadRecord(ls) == IF ls = <<>> THEN 0 ELSE ls[Len(ls)].record

-----------------------------------------------------------------------------

(* An append of a new record that was decided on seen. *)
Opening(seen) == [at |-> "open", seen |-> seen, record |-> begun + 1, old |-> 0]

Goto(p, at) == proc' = [proc EXCEPT ![p].at = at]

(* read, under the shared lock, before a checked append.  A typed journal *)
(* refuses an empty history.                                              *)
ReadHistory(p) ==
    /\ proc[p] = Idle
    /\ exists # "no" /\ lock = NoProc
    /\ begun < MaxRecords
    /\ Valid(lines) /\ lines # <<>>
    /\ proc' = [proc EXCEPT ![p] = Opening(Records(lines))]
    /\ begun' = begun + 1
    /\ UNCHANGED <<file, lock, losses, acked>>

(* create: O_CREAT and O_EXCL make an empty file. *)
CreateFile(p) ==
    /\ proc[p] = Idle
    /\ exists = "no"
    /\ begun < MaxRecords
    /\ exists' = "yes"
    /\ proc' = [proc EXCEPT ![p] = Opening(<<>>)]
    /\ begun' = begun + 1
    /\ UNCHANGED <<lines, disk, lock, losses, acked>>

LockFile(p) ==
    /\ proc[p].at = "open"
    /\ lock = NoProc
    /\ lock' = p
    /\ Goto(p, "locked")
    /\ UNCHANGED <<file, begun, losses, acked>>

(* The expected record count and the expected previous hash.  create gives *)
(* neither, and nothing can be in its file.                                *)
GuardHolds(p) == Records(lines) = proc[p].seen

(* Mutant: the append is not guarded. *)
MutPlanRecord(p) ==
    /\ proc[p].at = "locked"
    /\ Valid(lines)
    /\ proc' = [proc EXCEPT ![p].old = HeadRecord(lines), ![p].at = "write"]
    /\ UNCHANGED <<file, lock, begun, losses, acked>>

(* The whole file is validated again and the record is built on its head. *)
PlanRecord(p) ==
    /\ proc[p].at = "locked"
    /\ Valid(lines)
    /\ GuardHolds(p)
    /\ proc' = [proc EXCEPT ![p].old = HeadRecord(lines), ![p].at = "write"]
    /\ UNCHANGED <<file, lock, begun, losses, acked>>

Line(p, state) ==
    [record |-> proc[p].record, previous |-> proc[p].old, seen |-> proc[p].seen, state |-> state]

(* O_APPEND puts the payload behind the last byte: behind a line without a *)
(* newline it does not begin a line of its own.                            *)
Extended(line) ==
    IF lines # <<>> /\ lines[Len(lines)].state # "whole"
    THEN [lines EXCEPT ![Len(lines)].state = "joined"]
    ELSE Append(lines, line)

(* One os.write, which may be short. *)
WriteFirst(p) ==
    /\ proc[p].at = "write"
    /\ \E state \in Tears \cup {"whole"} :
          /\ lines' = Extended(Line(p, state))
          /\ Goto(p, IF state = "whole" THEN "written" ELSE "rest")
    /\ UNCHANGED <<exists, disk, lock, begun, losses, acked>>

(* The loop writes what is left. *)
WriteRest(p) ==
    /\ proc[p].at = "rest"
    /\ lines' = IF lines[Len(lines)].state = "joined" THEN lines
                ELSE [lines EXCEPT ![Len(lines)].state = "whole"]
    /\ Goto(p, "written")
    /\ UNCHANGED <<exists, disk, lock, begun, losses, acked>>

(* Mutant: the data is not synced. *)
MutSyncFile(p) ==
    /\ proc[p].at = "written"
    /\ Goto(p, "synced")
    /\ UNCHANGED <<file, lock, begun, losses, acked>>

SyncFile(p) ==
    /\ proc[p].at = "written"
    /\ disk' = lines
    /\ Goto(p, "synced")
    /\ UNCHANGED <<exists, lines, lock, begun, losses, acked>>

(* The directory is synced and append returns the record. *)
SyncDirectory(p) ==
    /\ proc[p].at = "synced"
    /\ exists' = "durable"
    /\ acked' = acked \cup {proc[p].record}
    /\ proc' = [proc EXCEPT ![p] = Idle]
    /\ lock' = NoProc
    /\ UNCHANGED <<lines, disk, begun, losses>>

(* Mutant: the descriptor stays open after an error. *)
MutFail(p) ==
    /\ proc[p].at \notin {"idle", "open"}
    /\ proc' = [proc EXCEPT ![p] = Idle]
    /\ UNCHANGED <<file, lock, begun, losses, acked>>

(* A check that fails and an error of any call raise and close the file; a  *)
(* process that is killed leaves the same behind.                           *)
Fail(p) ==
    /\ proc[p].at \notin {"idle", "open"}
    /\ proc' = [proc EXCEPT ![p] = Idle]
    /\ lock' = NoProc
    /\ UNCHANGED <<file, begun, losses, acked>>

(* What the disk may hold of lines that were not synced: their beginning,  *)
(* the last one whole or cut.                                              *)
Remains ==
    LET kept == {SubSeq(lines, 1, n) : n \in Len(disk) .. Len(lines)}
        cut == {ls \in kept : Len(ls) > Len(disk) /\ ls[Len(ls)].state = "whole"}
    IN  {disk} \cup kept
        \cup UNION {{[ls EXCEPT ![Len(ls)].state = s] : s \in Tears} : ls \in cut}

PowerLoss ==
    /\ losses < MaxLosses
    /\ losses' = losses + 1
    /\ \E kept \in Remains, name \in {"no", "durable"} :
          /\ exists = "no" => name = "no"
          /\ exists = "durable" => name = "durable"
          /\ exists' = name
          /\ lines' = IF name = "no" THEN <<>> ELSE kept
    /\ disk' = lines'
    /\ proc' = [p \in Procs |-> Idle]
    /\ lock' = NoProc
    /\ UNCHANGED <<begun, acked>>

-----------------------------------------------------------------------------

Init ==
    /\ exists = "no" /\ lines = <<>> /\ disk = <<>>
    /\ lock = NoProc
    /\ proc = [p \in Procs |-> Idle]
    /\ begun = 0 /\ losses = 0
    /\ acked = {}

Begin(p) == ReadHistory(p) \/ CreateFile(p)

Proceed(p) ==
    \/ LockFile(p) \/ PlanRecord(p) \/ WriteFirst(p) \/ WriteRest(p)
    \/ SyncFile(p) \/ SyncDirectory(p) \/ Fail(p)

Next == PowerLoss \/ \E p \in Procs : Begin(p) \/ Proceed(p)

Spec == Init /\ [][Next]_vars

(* A process that has begun an append is scheduled, and the kernel gives the *)
(* lock to one that waits.                                                   *)
FairSpec == Spec /\ \A p \in Procs : WF_vars(Proceed(p))

-----------------------------------------------------------------------------
TypeOK ==
    /\ exists \in {"no", "yes", "durable"}
    /\ exists = "no" => lines = <<>> /\ disk = <<>>
    /\ lock \in Procs \cup {NoProc}
    /\ \A i \in DOMAIN lines : lines[i].state \in {"part", "unterminated", "whole", "joined"}
    /\ \A p \in Procs : proc[p].at \in {"idle", "open"} \/ lock = p

(* The line that holds a record. *)
Holds(ls, r) == \E i \in DOMAIN ls : ls[i].record = r /\ Legible(ls[i])

(* A record was appended to a line whose newline was missing.              *)
Joined(ls) == \E i \in DOMAIN ls : ls[i].state = "joined"

(* A record whose append has returned is in the file, can be read, and no  *)
(* power loss, short write, failed append or concurrent append takes it    *)
(* away: the intent that a command was dispatched on stays on record.      *)
(* There is one exception, in the append of t2_mutation_journal: a record  *)
(* whose newline was lost still validates, so the next append succeeds on  *)
(* the same line.  It is the last: the file cannot be read afterwards.     *)
AcknowledgedIntact ==
    \A r \in acked :
        /\ exists = "durable"
        /\ \/ Holds(lines, r) /\ Holds(disk, r)
           \/ Joined(lines) /\ \A s \in acked : s <= r

(* Every record was decided on exactly the records before it: of two       *)
(* processes that read the same head only one appends, so that no          *)
(* milestone is accepted by a check of an older history.                   *)
DecidedOnHistory ==
    \A i \in DOMAIN lines : lines[i].seen = Records(SubSeq(lines, 1, i - 1))

(* An append that waits for the lock, or holds it, ends. *)
AppendEnds == \A p \in Procs : proc[p].at # "idle" ~> proc[p].at = "idle"
=============================================================================
