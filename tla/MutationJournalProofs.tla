----------------------- MODULE MutationJournalProofs -----------------------
(***************************************************************************)
(* For any number of processes, appends and power losses, and every way to *)
(* cut a line: a record was decided on exactly the records before it, and  *)
(* a record whose append has returned stays readable.                      *)
(*                                                                         *)
(* Neither property is inductive.  JournalInv adds that the synced lines   *)
(* are a prefix of the file, that the holder of the lock alone is past     *)
(* its checks and what it knows there, and that a process has a larger     *)
(* number than every record it has seen.                                   *)
(***************************************************************************)
EXTENDS MutationJournal, TLAPS

History == UNION {[1 .. n -> Nat] : n \in Nat}
LineType == [record : Nat, previous : Nat, seen : History,
             state : {"part", "unterminated", "whole", "joined"}]
ProcType == [at : {"idle", "open", "locked", "write", "rest", "written", "synced"},
             seen : History, record : Nat, old : Nat]

Types ==
    /\ exists \in {"no", "yes", "durable"}
    /\ lines \in Seq(LineType) /\ disk \in Seq(LineType)
    /\ lock \in Procs \cup {NoProc}
    /\ proc \in [Procs -> ProcType]
    /\ begun \in Nat
    /\ acked \in SUBSET Nat

Named ==
    /\ exists = "no" => lines = <<>> /\ disk = <<>>
    /\ acked # {} => exists = "durable"
    /\ \A p \in Procs : proc[p].at # "idle" => exists # "no"

Exclusive == \A p \in Procs : proc[p].at \notin {"idle", "open"} => lock = p

(* The synced lines begin the file; of them only the last may have been    *)
(* joined since.                                                           *)
SyncedPrefix ==
    /\ Len(disk) <= Len(lines)
    /\ \A i \in 1 .. Len(disk) :
          /\ disk[i].record = lines[i].record
          /\ disk[i].seen = lines[i].seen
          /\ disk[i].state = lines[i].state \/ lines[i].state = "joined"

(* DecidedOnHistory, line by line. *)
Decided(ls) ==
    \A i \in 1 .. Len(ls) : ls[i].seen = [j \in 1 .. (i - 1) |-> ls[j].record]

(* Records are numbered in the order in which their appends began. *)
Numbered ==
    /\ \A i \in 1 .. Len(lines) : lines[i].record <= begun
    /\ \A p \in Procs :
          /\ proc[p].record <= begun
          /\ \A i \in DOMAIN proc[p].seen : proc[p].seen[i] < proc[p].record

(* The record is in the file, synced, and its line is complete. *)
Kept(r) ==
    \E i \in 1 .. Len(disk) :
        /\ lines[i].record = r /\ disk[i].record = r
        /\ lines[i].state = "whole" /\ disk[i].state = "whole"

(* What the holder of the lock knows once its checks have passed. *)
Writing(p) ==
    /\ proc[p].at \in {"write", "rest", "written", "synced"} =>
          \A r \in acked : Kept(r) /\ r < proc[p].record
    /\ proc[p].at = "write" =>
          /\ proc[p].seen = [i \in 1 .. Len(lines) |-> lines[i].record]
          /\ \A i \in 1 .. Len(lines) : lines[i].state \in {"whole", "unterminated"}
    /\ proc[p].at = "rest" =>
          /\ Len(lines) > 0
          /\ lines[Len(lines)].state # "joined" =>
                Len(lines) > Len(disk) /\ lines[Len(lines)].record = proc[p].record
    /\ proc[p].at \in {"written", "synced"} =>
          /\ Len(lines) > 0
          /\ lines[Len(lines)].state # "joined" =>
                lines[Len(lines)].record = proc[p].record /\ lines[Len(lines)].state = "whole"
    /\ proc[p].at = "synced" => disk = lines

Acked ==
    \A r \in acked :
        \/ Kept(r)
        \/ /\ \E i \in 1 .. Len(disk) : disk[i].state = "joined"
           /\ \A s \in acked : s <= r

JournalInv ==
    /\ Types /\ Named /\ Exclusive /\ SyncedPrefix /\ Decided(lines) /\ Numbered
    /\ \A p \in Procs : Writing(p)
    /\ Acked

-----------------------------------------------------------------------------
(* What the fields of a line may hold. *)
LEMMA LineFields ==
    ASSUME NEW ls \in Seq(LineType), NEW i \in 1 .. Len(ls)
    PROVE  /\ ls[i] \in LineType
           /\ ls[i].record \in Nat /\ ls[i].seen \in History
           /\ ls[i].state \in {"part", "unterminated", "whole", "joined"}
<1>1. ls[i] \in LineType
  OBVIOUS
<1> QED
  BY <1>1 DEF LineType

(* The records of a file are numbers, by position. *)
LEMMA RecordsOf ==
    ASSUME NEW ls \in Seq(LineType)
    PROVE  /\ Records(ls) = [i \in 1 .. Len(ls) |-> ls[i].record]
           /\ Records(ls) \in History
<1>1. DOMAIN ls = 1 .. Len(ls) /\ Len(ls) \in Nat
  OBVIOUS
<1>2. \A i \in 1 .. Len(ls) : ls[i].record \in Nat
  <2>1. \A i \in 1 .. Len(ls) : ls[i] \in LineType
    OBVIOUS
  <2> QED
    BY <2>1 DEF LineType
<1>3. Records(ls) \in [1 .. Len(ls) -> Nat]
  BY <1>1, <1>2 DEF Records
<1> QED
  BY <1>1, <1>3 DEF Records, History

(* A process that has read nothing has seen no record. *)
LEMMA EmptyHistory == <<>> \in History
<1>1. <<>> \in [1 .. 0 -> Nat]
  OBVIOUS
<1> QED
  BY <1>1 DEF History

(* Line by line is what DecidedOnHistory says. *)
LEMMA DecidedSuffices ==
    ASSUME lines \in Seq(LineType), Decided(lines)
    PROVE  DecidedOnHistory
<1> SUFFICES ASSUME NEW i \in 1 .. Len(lines)
             PROVE  lines[i].seen = Records(SubSeq(lines, 1, i - 1))
  BY DEF DecidedOnHistory
<1> DEFINE front == SubSeq(lines, 1, i - 1)
<1>1. /\ front \in Seq(LineType) /\ Len(front) = i - 1
      /\ \A j \in 1 .. (i - 1) : front[j] = lines[j]
  OBVIOUS
<1>2. Records(front) = [j \in 1 .. Len(front) |-> front[j].record]
  BY <1>1, RecordsOf
<1>3. Records(front) = [j \in 1 .. (i - 1) |-> lines[j].record]
  BY <1>1, <1>2
<1> QED
  BY <1>3 DEF Decided

LEMMA InitInv == Init => JournalInv
<1> SUFFICES ASSUME Init PROVE JournalInv
  OBVIOUS
<1>1. <<>> \in History
  BY EmptyHistory
<1>2. Types
  BY <1>1 DEF Init, Types, Idle, ProcType
<1> QED
  BY <1>2 DEF Init, JournalInv, Named, Exclusive, SyncedPrefix, Decided, Numbered, Writing, Acked, Idle

-----------------------------------------------------------------------------
(* Steps that leave the file alone. *)

LEMMA ReadKeeps ==
    ASSUME JournalInv, NEW p \in Procs, ReadHistory(p)
    PROVE  JournalInv'
<1> USE DEF JournalInv
<1>1. Records(lines) = [i \in 1 .. Len(lines) |-> lines[i].record] /\ Records(lines) \in History
  BY RecordsOf DEF Types
<1>2. /\ proc' = [proc EXCEPT ![p] = [at |-> "open", seen |-> Records(lines),
                                      record |-> begun + 1, old |-> 0]]
      /\ UNCHANGED <<exists, lines, disk, lock, acked>> /\ begun' = begun + 1
  BY DEF ReadHistory, Opening, file
<1>3. Types'
  BY <1>1, <1>2 DEF Types, ProcType
<1>4. Named' /\ SyncedPrefix' /\ Decided(lines)' /\ Acked'
  <2>1. exists # "no"
    BY DEF ReadHistory
  <2>2. Named'
    BY <1>2, <2>1 DEF Named
  <2> QED
    BY <1>2, <2>2 DEF SyncedPrefix, Decided, Acked, Kept
<1>5. Exclusive'
  BY <1>2 DEF Exclusive, Types
<1>6. Numbered'
  <2>1. \A i \in 1 .. Len(lines) : lines[i].record \in Nat
    BY LineFields DEF Types
  <2>2. \A i \in 1 .. Len(lines) : lines'[i].record <= begun'
    BY <1>2, <2>1 DEF Numbered, Types
  <2>3. ASSUME NEW q \in Procs
        PROVE  /\ proc'[q].record <= begun'
               /\ \A i \in DOMAIN proc'[q].seen : proc'[q].seen[i] < proc'[q].record
    <3>1. CASE q = p
      <4>1. proc'[q].record = begun + 1 /\ proc'[q].seen = Records(lines)
        BY <1>2, <3>1 DEF Types
      <4>2. \A i \in 1 .. Len(lines) : Records(lines)[i] <= begun
        BY <1>1 DEF Numbered
      <4>3. DOMAIN Records(lines) = 1 .. Len(lines)
        BY <1>1
      <4>4. \A i \in 1 .. Len(lines) : Records(lines)[i] \in Nat
        BY <1>1, <2>1
      <4> QED
        BY <1>2, <4>1, <4>2, <4>3, <4>4 DEF Types
    <3>2. CASE q # p
      <4>1. proc'[q] = proc[q] /\ proc[q].record \in Nat
        BY <1>2, <3>2 DEF Types, ProcType
      <4> QED
        BY <1>2, <4>1 DEF Numbered, Types
    <3> QED
      BY <3>1, <3>2
  <2> QED
    BY <1>2, <2>2, <2>3 DEF Numbered
<1>7. \A q \in Procs : Writing(q)'
  BY <1>2 DEF Writing, Types, Kept
<1> QED
  BY <1>3, <1>4, <1>5, <1>6, <1>7

LEMMA CreateKeeps ==
    ASSUME JournalInv, NEW p \in Procs, CreateFile(p)
    PROVE  JournalInv'
<1> USE DEF JournalInv
<1>1. /\ proc' = [proc EXCEPT ![p] = [at |-> "open", seen |-> <<>>,
                                      record |-> begun + 1, old |-> 0]]
      /\ UNCHANGED <<lines, disk, lock, acked>> /\ begun' = begun + 1
      /\ exists = "no" /\ exists' = "yes"
  BY DEF CreateFile, Opening
<1>2. <<>> \in History
  BY EmptyHistory
<1>3. Types'
  BY <1>1, <1>2 DEF Types, ProcType
<1>4. Named' /\ SyncedPrefix' /\ Decided(lines)' /\ Acked'
  BY <1>1 DEF Named, SyncedPrefix, Decided, Acked, Kept
<1>5. Exclusive'
  BY <1>1 DEF Exclusive, Types
<1>6. Numbered'
  <2>1. \A i \in 1 .. Len(lines) : lines'[i].record <= begun'
    BY <1>1, LineFields DEF Numbered, Types
  <2>2. ASSUME NEW q \in Procs
        PROVE  /\ proc'[q].record <= begun'
               /\ \A i \in DOMAIN proc'[q].seen : proc'[q].seen[i] < proc'[q].record
    <3>1. CASE q = p
      <4>1. proc'[q].record = begun + 1 /\ proc'[q].seen = <<>>
        BY <1>1, <3>1 DEF Types
      <4> QED
        BY <1>1, <4>1 DEF Types
    <3>2. CASE q # p
      <4>1. proc'[q] = proc[q] /\ proc[q].record \in Nat
        BY <1>1, <3>2 DEF Types, ProcType
      <4> QED
        BY <1>1, <4>1 DEF Numbered, Types
    <3> QED
      BY <3>1, <3>2
  <2> QED
    BY <1>1, <2>1, <2>2 DEF Numbered
<1>7. \A q \in Procs : Writing(q)'
  BY <1>1 DEF Writing, Types, Kept
<1> QED
  BY <1>3, <1>4, <1>5, <1>6, <1>7

LEMMA LockKeeps ==
    ASSUME JournalInv, NEW p \in Procs, LockFile(p)
    PROVE  JournalInv'
<1> USE DEF JournalInv
<1>1. /\ proc' = [proc EXCEPT ![p].at = "locked"]
      /\ UNCHANGED <<exists, lines, disk, acked, begun>>
      /\ lock = NoProc /\ lock' = p
  BY DEF LockFile, Goto, file
<1>2. Types'
  BY <1>1 DEF Types, ProcType
<1>3. Named' /\ SyncedPrefix' /\ Decided(lines)' /\ Acked'
  <2>1. exists # "no"
    BY DEF LockFile, Named
  <2>2. Named'
    BY <1>1, <2>1 DEF Named
  <2> QED
    BY <1>1, <2>2 DEF SyncedPrefix, Decided, Acked, Kept
<1>4. Exclusive'
  BY <1>1, MutationJournalAssumption DEF Exclusive, Types, ProcType
<1>5. Numbered'
  BY <1>1 DEF Numbered, Types, ProcType
<1>6. \A q \in Procs : Writing(q)'
  BY <1>1 DEF Writing, Types, ProcType, Kept
<1> QED
  BY <1>2, <1>3, <1>4, <1>5, <1>6

LEMMA FailKeeps ==
    ASSUME JournalInv, NEW p \in Procs, Fail(p)
    PROVE  JournalInv'
<1> USE DEF JournalInv
<1>1. /\ proc' = [proc EXCEPT ![p] = Idle]
      /\ UNCHANGED <<exists, lines, disk, acked, begun>>
      /\ lock = p /\ lock' = NoProc
  BY DEF Fail, file, Exclusive
<1>2. <<>> \in History
  BY EmptyHistory
<1>3. Types'
  BY <1>1, <1>2 DEF Types, ProcType, Idle
<1>4. Named' /\ SyncedPrefix' /\ Decided(lines)' /\ Acked'
  <2>1. exists # "no"
    BY DEF Fail, Named
  <2>2. Named'
    BY <1>1, <2>1 DEF Named
  <2> QED
    BY <1>1, <2>2 DEF SyncedPrefix, Decided, Acked, Kept
<1>5. Exclusive'
  BY <1>1, MutationJournalAssumption DEF Exclusive, Types, Idle
<1>6. Numbered'
  BY <1>1 DEF Numbered, Types, Idle
<1>7. \A q \in Procs : Writing(q)'
  BY <1>1 DEF Writing, Types, Kept, Idle
<1> QED
  BY <1>3, <1>4, <1>5, <1>6, <1>7

-----------------------------------------------------------------------------
(* A file that validates has no joined line, so every record whose append  *)
(* has returned is among those that the guard compares.                    *)
LEMMA PlanKeeps ==
    ASSUME JournalInv, NEW p \in Procs, PlanRecord(p)
    PROVE  JournalInv'
<1> USE DEF JournalInv
<1>1. /\ proc' = [proc EXCEPT ![p].old = HeadRecord(lines), ![p].at = "write"]
      /\ UNCHANGED <<exists, lines, disk, lock, acked, begun>>
      /\ proc[p].at = "locked" /\ lock = p
  BY DEF PlanRecord, file, Exclusive
<1>2. Records(lines) = [i \in 1 .. Len(lines) |-> lines[i].record] /\ Records(lines) = proc[p].seen
  BY RecordsOf DEF Types, PlanRecord, GuardHolds
<1>3. \A i \in 1 .. Len(lines) : lines[i].state \in {"whole", "unterminated"}
  BY DEF PlanRecord, Valid, Legible, Types
<1>4. HeadRecord(lines) \in Nat
  <2>1. CASE lines = <<>>
    BY <2>1 DEF HeadRecord
  <2>2. CASE lines # <<>>
    <3>1. Len(lines) \in 1 .. Len(lines)
      BY <2>2 DEF Types
    <3> QED
      BY <2>2, <3>1, LineFields DEF HeadRecord, Types
  <2> QED
    BY <2>1, <2>2
<1>5. /\ proc'[p].at = "write" /\ proc'[p].seen = proc[p].seen /\ proc'[p].record = proc[p].record
      /\ \A q \in Procs \ {p} : proc'[q] = proc[q]
  BY <1>1 DEF Types, ProcType
<1>6. Types'
  BY <1>1, <1>4 DEF Types, ProcType
<1>7. Named' /\ SyncedPrefix' /\ Decided(lines)' /\ Acked'
  BY <1>1 DEF Named, SyncedPrefix, Decided, Acked, Kept
<1>8. Exclusive'
  BY <1>1, <1>5 DEF Exclusive
<1>9. Numbered'
  BY <1>1, <1>5 DEF Numbered
<1>10. ASSUME NEW r \in acked PROVE Kept(r) /\ r < proc[p].record
  <2>1. \A i \in 1 .. Len(disk) : i \in 1 .. Len(lines) /\ disk[i].state # "joined"
    BY <1>3 DEF SyncedPrefix, Types
  <2>2. Kept(r)
    BY <2>1 DEF Acked
  <2>3. PICK i \in 1 .. Len(disk) : lines[i].record = r
    BY <2>2 DEF Kept
  <2>4. i \in DOMAIN proc[p].seen /\ proc[p].seen[i] = r
    BY <1>2, <2>1, <2>3
  <2> QED
    BY <2>2, <2>4 DEF Numbered
<1>11. \A q \in Procs : Writing(q)'
  <2>1. \A r : Kept(r)' <=> Kept(r)
    BY <1>1 DEF Kept
  <2>2. Writing(p)'
    <3>1. \A r \in acked' : Kept(r)' /\ r < proc'[p].record
      BY <1>1, <1>5, <1>10, <2>1
    <3>2. /\ proc'[p].seen = [i \in 1 .. Len(lines') |-> lines'[i].record]
          /\ \A i \in 1 .. Len(lines') : lines'[i].state \in {"whole", "unterminated"}
      BY <1>1, <1>2, <1>3, <1>5
    <3> QED
      BY <1>5, <3>1, <3>2 DEF Writing
  <2>3. ASSUME NEW q \in Procs \ {p} PROVE Writing(q)'
    <3>1. proc'[q] = proc[q] /\ proc[q].at \in {"idle", "open"}
      BY <1>1, <1>5 DEF Exclusive, Types, ProcType
    <3> QED
      BY <3>1 DEF Writing
  <2> QED
    BY <2>2, <2>3
<1> QED
  BY <1>6, <1>7, <1>8, <1>9, <1>11

LEMMA SyncFileKeeps ==
    ASSUME JournalInv, NEW p \in Procs, SyncFile(p)
    PROVE  JournalInv'
<1> USE DEF JournalInv
<1>1. /\ proc' = [proc EXCEPT ![p].at = "synced"]
      /\ disk' = lines
      /\ UNCHANGED <<exists, lines, lock, acked, begun>>
      /\ proc[p].at = "written" /\ lock = p
  BY DEF SyncFile, Goto, Exclusive
<1>2. /\ proc'[p].at = "synced" /\ proc'[p].seen = proc[p].seen /\ proc'[p].record = proc[p].record
      /\ \A q \in Procs \ {p} : proc'[q] = proc[q] /\ proc[q].at \in {"idle", "open"}
  BY <1>1 DEF Types, ProcType, Exclusive
<1>3. Types'
  BY <1>1 DEF Types, ProcType
<1>4. Named' /\ SyncedPrefix' /\ Decided(lines)'
  BY <1>1 DEF Named, SyncedPrefix, Decided, Types
<1>5. Exclusive' /\ Numbered'
  BY <1>1, <1>2 DEF Exclusive, Numbered
<1>6. \A r \in acked : Kept(r)' /\ r < proc[p].record
  <2>1. \A r \in acked : Kept(r) /\ r < proc[p].record
    BY <1>1 DEF Writing
  <2> QED
    BY <1>1, <2>1 DEF Kept, SyncedPrefix, Types
<1>7. Acked'
  BY <1>1, <1>6 DEF Acked
<1>8. \A q \in Procs : Writing(q)'
  <2>1. Writing(p)'
    BY <1>1, <1>2, <1>6 DEF Writing
  <2>2. ASSUME NEW q \in Procs \ {p} PROVE Writing(q)'
    BY <1>2 DEF Writing
  <2> QED
    BY <2>1, <2>2
<1> QED
  BY <1>3, <1>4, <1>5, <1>7, <1>8

(* The record is acknowledged.  If it joined another line it is larger     *)
(* than every record acknowledged before.                                  *)
LEMMA SyncDirectoryKeeps ==
    ASSUME JournalInv, NEW p \in Procs, SyncDirectory(p)
    PROVE  JournalInv'
<1> USE DEF JournalInv
<1>1. /\ proc' = [proc EXCEPT ![p] = Idle]
      /\ exists' = "durable" /\ acked' = acked \cup {proc[p].record}
      /\ UNCHANGED <<lines, disk, begun>>
      /\ proc[p].at = "synced" /\ lock = p /\ lock' = NoProc
  BY DEF SyncDirectory, Exclusive
<1>2. /\ proc'[p] = Idle
      /\ \A q \in Procs \ {p} : proc'[q] = proc[q] /\ proc[q].at \in {"idle", "open"}
  BY <1>1 DEF Types, ProcType, Exclusive
<1>3. Types'
  BY <1>1, EmptyHistory DEF Types, ProcType, Idle
<1>4. Named' /\ SyncedPrefix' /\ Decided(lines)'
  <2>1. lines # <<>>
    <3>1. Writing(p)
      OBVIOUS
    <3> QED
      BY <1>1, <3>1 DEF Writing, Types
  <2>2. Named'
    BY <1>1, <2>1 DEF Named
  <2>3. SyncedPrefix'
    BY <1>1 DEF SyncedPrefix
  <2>4. Decided(lines)'
    BY <1>1 DEF Decided
  <2> QED
    BY <2>2, <2>3, <2>4
<1>5. Exclusive'
  BY <1>1, <1>2 DEF Exclusive, Idle
<1>6. Numbered'
  BY <1>1, <1>2 DEF Numbered, Idle, Types
<1>7. \A q \in Procs : Writing(q)'
  BY <1>2 DEF Writing, Idle
<1>8. Acked'
  <2>1. \A r \in acked : Kept(r) /\ r < proc[p].record
    BY <1>1 DEF Writing
  <2>2. \A r \in acked : Kept(r)'
    BY <1>1, <2>1 DEF Kept
  <2>3. proc[p].record \in Nat /\ acked \subseteq Nat
    BY DEF Types, ProcType
  <2>4. /\ Len(lines) \in 1 .. Len(disk) /\ disk = lines
        /\ \/ lines[Len(lines)].state = "joined"
           \/ lines[Len(lines)].record = proc[p].record /\ lines[Len(lines)].state = "whole"
    <3>1. Writing(p) /\ Len(lines) \in Nat
      BY DEF Types
    <3> QED
      BY <1>1, <3>1 DEF Writing
  <2>5. CASE lines[Len(lines)].state = "joined"
    <3>1. \E i \in 1 .. Len(disk') : disk'[i].state = "joined"
      BY <1>1, <2>4, <2>5
    <3>2. \A s \in acked' : s <= proc[p].record
      BY <1>1, <2>1, <2>3
    <3> QED
      BY <1>1, <2>2, <3>1, <3>2 DEF Acked
  <2>6. CASE lines[Len(lines)].record = proc[p].record /\ lines[Len(lines)].state = "whole"
    <3>1. PICK rec \in Nat : rec = proc[p].record
      BY <2>3
    <3>2. Kept(rec)'
      BY <1>1, <2>4, <2>6, <3>1 DEF Kept
    <3> QED
      BY <1>1, <2>2, <3>1, <3>2 DEF Acked
  <2> QED
    BY <2>4, <2>5, <2>6
<1> QED
  BY <1>3, <1>4, <1>5, <1>6, <1>7, <1>8

-----------------------------------------------------------------------------
(* Steps that change the file. *)

States == {"part", "unterminated", "whole", "joined"}

(* The state of the last line changes and nothing else. *)
LEMMA LastLine ==
    ASSUME NEW ls \in Seq(LineType), ls # <<>>, NEW s \in States,
           NEW new, new = [ls EXCEPT ![Len(ls)].state = s]
    PROVE  /\ new \in Seq(LineType) /\ Len(new) = Len(ls)
           /\ \A i \in 1 .. Len(ls) :
                 /\ new[i].record = ls[i].record /\ new[i].seen = ls[i].seen
                 /\ new[i].state = IF i = Len(ls) THEN s ELSE ls[i].state
                 /\ i # Len(ls) => new[i] = ls[i]
<1>1. Len(ls) \in 1 .. Len(ls) /\ ls[Len(ls)] \in LineType
  OBVIOUS
<1>2. [ls[Len(ls)] EXCEPT !.state = s] \in LineType
  BY <1>1 DEF LineType, States
<1>3. new = [ls EXCEPT ![Len(ls)] = [ls[Len(ls)] EXCEPT !.state = s]]
  OBVIOUS
<1>4. new \in Seq(LineType) /\ Len(new) = Len(ls)
  BY <1>1, <1>2, <1>3
<1>5. \A i \in 1 .. Len(ls) : i # Len(ls) => new[i] = ls[i]
  BY <1>1, <1>3
<1>6. new[Len(ls)] = [ls[Len(ls)] EXCEPT !.state = s]
  BY <1>1, <1>3
<1>7. /\ new[Len(ls)].record = ls[Len(ls)].record /\ new[Len(ls)].seen = ls[Len(ls)].seen
      /\ new[Len(ls)].state = s
  BY <1>1, <1>6 DEF LineType
<1> QED
  BY <1>1, <1>4, <1>5, <1>7

(* Records and what they were decided on stay when only states change. *)
LEMMA SameRecords ==
    ASSUME NEW ls, NEW new, Len(ls) \in Nat, Len(new) \in Nat, Len(new) <= Len(ls), Decided(ls),
           \A i \in 1 .. Len(new) : new[i].record = ls[i].record /\ new[i].seen = ls[i].seen
    PROVE  Decided(new)
<1> SUFFICES ASSUME NEW i \in 1 .. Len(new)
             PROVE  new[i].seen = [j \in 1 .. (i - 1) |-> new[j].record]
  BY DEF Decided
<1>1. ls[i].seen = [j \in 1 .. (i - 1) |-> ls[j].record]
  BY DEF Decided
<1>2. \A j \in 1 .. (i - 1) : new[j].record = ls[j].record
  OBVIOUS
<1> QED
  BY <1>1, <1>2

LEMMA WriteRestKeeps ==
    ASSUME JournalInv, NEW p \in Procs, WriteRest(p)
    PROVE  JournalInv'
<1> USE DEF JournalInv
<1>1. /\ proc' = [proc EXCEPT ![p].at = "written"]
      /\ UNCHANGED <<exists, disk, lock, acked, begun>>
      /\ proc[p].at = "rest" /\ lock = p
  BY DEF WriteRest, Goto, Exclusive
<1>2. /\ proc'[p].at = "written" /\ proc'[p].seen = proc[p].seen /\ proc'[p].record = proc[p].record
      /\ \A q \in Procs \ {p} : proc'[q] = proc[q] /\ proc[q].at \in {"idle", "open"}
  BY <1>1 DEF Types, ProcType, Exclusive
<1>3. /\ Len(lines) \in Nat /\ Len(lines) > 0 /\ lines # <<>> /\ Len(disk) \in Nat
      /\ lines[Len(lines)].state # "joined" =>
            Len(lines) > Len(disk) /\ lines[Len(lines)].record = proc[p].record
      /\ \A r \in acked : Kept(r) /\ r < proc[p].record
  <2>1. Writing(p) /\ Len(lines) \in Nat /\ Len(disk) \in Nat
    BY DEF Types
  <2>2. Len(lines) > 0
    BY <1>1, <2>1 DEF Writing
  <2> QED
    BY <1>1, <2>1, <2>2 DEF Writing, Types
<1>4. /\ lines' \in Seq(LineType) /\ Len(lines') = Len(lines)
      /\ \A i \in 1 .. Len(lines) :
            /\ lines'[i].record = lines[i].record /\ lines'[i].seen = lines[i].seen
            /\ i <= Len(disk) => lines'[i] = lines[i]
      /\ lines'[Len(lines)].state # "joined" =>
            lines'[Len(lines)].record = proc[p].record /\ lines'[Len(lines)].state = "whole"
  <2>1. CASE lines[Len(lines)].state = "joined"
    <3>1. lines' = lines
      BY <2>1 DEF WriteRest
    <3> QED
      BY <2>1, <3>1 DEF Types
  <2>2. CASE lines[Len(lines)].state # "joined"
    <3>1. lines' = [lines EXCEPT ![Len(lines)].state = "whole"]
      BY <2>2 DEF WriteRest
    <3>2. lines \in Seq(LineType) /\ "whole" \in States
      BY DEF Types, States
    <3>3. /\ lines' \in Seq(LineType) /\ Len(lines') = Len(lines)
          /\ \A i \in 1 .. Len(lines) :
                /\ lines'[i].record = lines[i].record /\ lines'[i].seen = lines[i].seen
                /\ lines'[i].state = IF i = Len(lines) THEN "whole" ELSE lines[i].state
                /\ i # Len(lines) => lines'[i] = lines[i]
      BY <1>3, <3>1, <3>2, LastLine
    <3> QED
      BY <1>3, <2>2, <3>3
  <2> QED
    BY <2>1, <2>2
<1>5. Types'
  BY <1>1, <1>4 DEF Types, ProcType
<1>6. Named'
  BY <1>1, <1>3 DEF Named
<1>7. Exclusive'
  BY <1>1, <1>2 DEF Exclusive
<1>8. SyncedPrefix'
  BY <1>1, <1>3, <1>4 DEF SyncedPrefix
<1>9. Decided(lines')
  BY <1>3, <1>4, SameRecords
<1>10. Numbered'
  BY <1>1, <1>2, <1>4 DEF Numbered
<1>11. \A r \in acked : Kept(r)'
  BY <1>1, <1>3, <1>4 DEF Kept, SyncedPrefix
<1>12. Acked'
  BY <1>1, <1>11 DEF Acked
<1>13. \A q \in Procs : Writing(q)'
  <2>1. Writing(p)'
    BY <1>1, <1>2, <1>3, <1>4, <1>11 DEF Writing
  <2>2. ASSUME NEW q \in Procs \ {p} PROVE Writing(q)'
    BY <1>2 DEF Writing
  <2> QED
    BY <2>1, <2>2
<1> QED
  BY <1>5, <1>6, <1>7, <1>8, <1>9, <1>10, <1>12, <1>13 DEF Decided

(* The record gets a line of its own, or spoils the last line; a line that *)
(* is whole is never touched.                                              *)
LEMMA WriteFirstKeeps ==
    ASSUME JournalInv, NEW p \in Procs, WriteFirst(p)
    PROVE  JournalInv'
<1> USE DEF JournalInv
<1>1. PICK state \in Tears \cup {"whole"} :
         /\ lines' = Extended(Line(p, state))
         /\ proc' = [proc EXCEPT ![p].at = IF state = "whole" THEN "written" ELSE "rest"]
  BY DEF WriteFirst, Goto
<1>2. /\ UNCHANGED <<exists, disk, lock, acked, begun>>
      /\ proc[p].at = "write" /\ lock = p
  BY DEF WriteFirst, Exclusive
<1>3. /\ proc'[p].at = IF state = "whole" THEN "written" ELSE "rest"
      /\ proc'[p].seen = proc[p].seen /\ proc'[p].record = proc[p].record
      /\ \A q \in Procs \ {p} : proc'[q] = proc[q] /\ proc[q].at \in {"idle", "open"}
  BY <1>1, <1>2 DEF Types, ProcType, Exclusive
<1>4. /\ Len(lines) \in Nat /\ Len(disk) \in Nat /\ Len(disk) <= Len(lines)
      /\ proc[p].seen = [i \in 1 .. Len(lines) |-> lines[i].record]
      /\ \A r \in acked : Kept(r) /\ r < proc[p].record
  <2>1. Writing(p) /\ Len(lines) \in Nat /\ Len(disk) \in Nat
    BY DEF Types
  <2> QED
    BY <1>2, <2>1 DEF Writing, SyncedPrefix
<1>5. state \in {"part", "unterminated", "whole"}
  BY MutationJournalAssumption
(* Both forms leave the lines as they were, save that the last one may     *)
(* become joined when it was not whole.                                    *)
<1>6. /\ lines' \in Seq(LineType) /\ Len(lines') > 0 /\ Len(lines') >= Len(lines)
      /\ \A i \in 1 .. Len(lines) :
            /\ lines'[i].record = lines[i].record /\ lines'[i].seen = lines[i].seen
            /\ \/ lines'[i].state = lines[i].state
               \/ lines'[i].state = "joined" /\ lines[i].state # "whole"
      /\ \/ Len(lines') = Len(lines) /\ lines'[Len(lines')].state = "joined"
         \/ /\ Len(lines') = Len(lines) + 1
            /\ lines'[Len(lines')] = Line(p, state)
  <2>1. CASE lines # <<>> /\ lines[Len(lines)].state # "whole"
    <3>1. lines' = [lines EXCEPT ![Len(lines)].state = "joined"]
      BY <1>1, <2>1 DEF Extended
    <3>2. lines \in Seq(LineType) /\ "joined" \in States
      BY DEF Types, States
    <3>3. /\ lines' \in Seq(LineType) /\ Len(lines') = Len(lines)
          /\ \A i \in 1 .. Len(lines) :
                /\ lines'[i].record = lines[i].record /\ lines'[i].seen = lines[i].seen
                /\ lines'[i].state = IF i = Len(lines) THEN "joined" ELSE lines[i].state
                /\ i # Len(lines) => lines'[i] = lines[i]
      <4>1. lines # <<>>
        BY <2>1
      <4> HIDE DEF JournalInv
      <4> QED
        BY <3>1, <3>2, <4>1, LastLine
    <3>4. Len(lines) > 0
      BY <2>1, <3>2
    <3> QED
      BY <1>4, <2>1, <3>3, <3>4
  <2>2. CASE ~(lines # <<>> /\ lines[Len(lines)].state # "whole")
    <3>1. lines' = Append(lines, Line(p, state))
      BY <1>1, <2>2 DEF Extended
    <3>2. lines \in Seq(LineType) /\ proc[p] \in ProcType
      BY DEF Types
    <3>3. Line(p, state) \in LineType
      BY <1>5, <3>2 DEF Line, LineType, ProcType
    <3>4. /\ lines' \in Seq(LineType) /\ Len(lines') = Len(lines) + 1
          /\ lines'[Len(lines) + 1] = Line(p, state)
          /\ \A i \in 1 .. Len(lines) : lines'[i] = lines[i]
      BY <3>1, <3>2, <3>3
    <3> QED
      BY <1>4, <3>4
  <2> QED
    BY <2>1, <2>2
<1>7. Line(p, state).record = proc[p].record /\ Line(p, state).seen = proc[p].seen
      /\ Line(p, state).state = state
  BY DEF Line
<1>8. Types'
  <2>1. (IF state = "whole" THEN "written" ELSE "rest") \in {"written", "rest"}
    OBVIOUS
  <2>2. proc' \in [Procs -> ProcType]
    BY <1>1, <2>1 DEF Types, ProcType
  <2> QED
    BY <1>2, <1>6, <2>2 DEF Types
<1>9. Named'
  <2>1. exists # "no"
    BY <1>2 DEF Named
  <2> QED
    BY <1>2, <1>3, <2>1 DEF Named
<1>10. Exclusive'
  BY <1>2, <1>3 DEF Exclusive
<1>11. SyncedPrefix'
  <2>1. ASSUME NEW i \in 1 .. Len(disk)
        PROVE  /\ disk[i].record = lines'[i].record /\ disk[i].seen = lines'[i].seen
               /\ disk[i].state = lines'[i].state \/ lines'[i].state = "joined"
    <3>1. i \in 1 .. Len(lines)
      BY <1>4
    <3> QED
      BY <1>6, <3>1 DEF SyncedPrefix
  <2> QED
    BY <1>2, <1>4, <1>6, <1>8, <2>1 DEF SyncedPrefix, Types
<1>12. Decided(lines')
  <2>1. Len(lines') \in Nat
    BY <1>6
  <2>2. CASE Len(lines') = Len(lines)
    BY <1>4, <1>6, <2>1, <2>2, SameRecords
  <2>3. CASE Len(lines') = Len(lines) + 1 /\ lines'[Len(lines')] = Line(p, state)
    <3> SUFFICES ASSUME NEW i \in 1 .. Len(lines')
                 PROVE  lines'[i].seen = [j \in 1 .. (i - 1) |-> lines'[j].record]
      BY DEF Decided
    <3>1. CASE i = Len(lines')
      <4>1. lines'[i].seen = [j \in 1 .. Len(lines) |-> lines[j].record]
        BY <1>4, <1>7, <2>3, <3>1
      <4>2. i - 1 = Len(lines)
        BY <1>4, <2>3, <3>1
      <4>3. \A j \in 1 .. (i - 1) : lines'[j].record = lines[j].record
        BY <1>6, <4>2
      <4> QED
        BY <4>1, <4>2, <4>3
    <3>2. CASE i # Len(lines')
      <4>1. i \in 1 .. Len(lines)
        BY <1>4, <2>3, <3>2
      <4>2. lines'[i].seen = [j \in 1 .. (i - 1) |-> lines[j].record]
        BY <1>6, <4>1 DEF Decided
      <4>3. \A j \in 1 .. (i - 1) : lines'[j].record = lines[j].record
        BY <1>4, <1>6, <4>1
      <4> QED
        BY <4>2, <4>3
    <3> QED
      BY <3>1, <3>2
  <2> QED
    BY <1>6, <2>2, <2>3
<1>13. Numbered'
  <2>1. ASSUME NEW i \in 1 .. Len(lines') PROVE lines'[i].record <= begun
    <3>1. CASE i \in 1 .. Len(lines)
      BY <1>6, <3>1 DEF Numbered
    <3>2. CASE i \notin 1 .. Len(lines)
      <4>1. lines'[i] = Line(p, state)
        BY <1>4, <1>6, <3>2
      <4> QED
        BY <1>7, <4>1 DEF Numbered
    <3> QED
      BY <3>1, <3>2
  <2> QED
    BY <1>2, <1>3, <2>1 DEF Numbered
<1>14. ASSUME NEW r \in acked PROVE Kept(r)'
  <2>1. PICK i \in 1 .. Len(disk) :
           /\ lines[i].record = r /\ disk[i].record = r
           /\ lines[i].state = "whole" /\ disk[i].state = "whole"
    BY <1>4 DEF Kept
  <2>2. lines'[i].record = r /\ lines'[i].state = "whole"
    BY <1>4, <1>6, <2>1
  <2> QED
    BY <1>2, <2>1, <2>2 DEF Kept
<1>15. Acked'
  BY <1>2, <1>14 DEF Acked
<1>16. \A q \in Procs : Writing(q)'
  <2>1. Writing(p)'
    <3>1. \A r \in acked' : Kept(r)' /\ r < proc'[p].record
      BY <1>2, <1>3, <1>4, <1>14
    <3>2. lines'[Len(lines')].state # "joined" =>
             /\ Len(lines') > Len(disk') /\ lines'[Len(lines')].record = proc'[p].record
             /\ lines'[Len(lines')].state = state
      BY <1>2, <1>3, <1>4, <1>6, <1>7
    <3> QED
      BY <1>3, <1>5, <1>6, <3>1, <3>2 DEF Writing
  <2>2. ASSUME NEW q \in Procs \ {p} PROVE Writing(q)'
    BY <1>3 DEF Writing
  <2> QED
    BY <2>1, <2>2
<1> QED
  BY <1>8, <1>9, <1>10, <1>11, <1>12, <1>13, <1>15, <1>16 DEF Decided

(* What a power loss leaves: the records of a beginning of the file, and   *)
(* each synced line as it was synced or as it stands.                      *)
LEMMA RemainsShape ==
    ASSUME Types, SyncedPrefix, NEW ls \in Remains
    PROVE  /\ ls \in Seq(LineType) /\ Len(disk) <= Len(ls) /\ Len(ls) <= Len(lines)
           /\ \A i \in 1 .. Len(ls) : ls[i].record = lines[i].record /\ ls[i].seen = lines[i].seen
           /\ \A i \in 1 .. Len(disk) : ls[i] = disk[i] \/ ls[i] = lines[i]
<1> DEFINE kept == {SubSeq(lines, 1, n) : n \in Len(disk) .. Len(lines)}
           cut == {k \in kept : Len(k) > Len(disk) /\ k[Len(k)].state = "whole"}
<1>1. /\ lines \in Seq(LineType) /\ disk \in Seq(LineType)
      /\ Len(lines) \in Nat /\ Len(disk) \in Nat /\ Len(disk) <= Len(lines)
  BY DEF Types, SyncedPrefix
<1>2. ASSUME NEW k \in kept
      PROVE  /\ k \in Seq(LineType) /\ Len(disk) <= Len(k) /\ Len(k) <= Len(lines)
             /\ \A i \in 1 .. Len(k) : k[i] = lines[i]
  <2>1. PICK n \in Len(disk) .. Len(lines) : k = SubSeq(lines, 1, n)
    OBVIOUS
  <2>2. n \in Nat /\ Len(disk) <= n /\ n <= Len(lines)
    BY <1>1, <2>1
  <2>3. k \in Seq(LineType) /\ Len(k) = n /\ \A i \in 1 .. n : k[i] = lines[i]
    BY <1>1, <2>1, <2>2
  <2> QED
    BY <2>2, <2>3
<1>3. CASE ls = disk
  BY <1>1, <1>3 DEF SyncedPrefix
<1>4. CASE ls \in kept
  BY <1>1, <1>2, <1>4
<1>5. CASE ls \in UNION {{[k EXCEPT ![Len(k)].state = s] : s \in Tears} : k \in cut}
  <2>1. PICK k \in cut, s \in Tears : ls = [k EXCEPT ![Len(k)].state = s]
    BY <1>5, Zenon
  <2>2. /\ k \in Seq(LineType) /\ Len(disk) < Len(k) /\ Len(k) <= Len(lines)
        /\ \A i \in 1 .. Len(k) : k[i] = lines[i]
    BY <1>1, <1>2, <2>1
  <2>3. k # <<>> /\ s \in States
    BY <1>1, <2>1, <2>2, MutationJournalAssumption DEF States
  <2>4. /\ ls \in Seq(LineType) /\ Len(ls) = Len(k)
        /\ \A i \in 1 .. Len(k) :
              /\ ls[i].record = k[i].record /\ ls[i].seen = k[i].seen
              /\ i # Len(k) => ls[i] = k[i]
    <3>1. ls = [k EXCEPT ![Len(k)].state = s] /\ k \in Seq(LineType)
      BY <2>1, <2>2
    <3> HIDE DEF kept, cut
    <3> QED
      BY <2>3, <3>1, LastLine
  <2> QED
    BY <1>1, <2>2, <2>4
<1>6. ls = disk \/ ls \in kept
      \/ ls \in UNION {{[k EXCEPT ![Len(k)].state = s] : s \in Tears} : k \in cut}
  BY Zenon DEF Remains
<1> HIDE DEF kept, cut
<1> QED
  BY <1>3, <1>4, <1>5, <1>6

LEMMA PowerLossKeeps ==
    ASSUME JournalInv, PowerLoss
    PROVE  JournalInv'
<1> USE DEF JournalInv
<1>1. PICK kept \in Remains, name \in {"no", "durable"} :
         /\ exists = "durable" => name = "durable"
         /\ exists' = name
         /\ lines' = IF name = "no" THEN <<>> ELSE kept
  BY DEF PowerLoss
<1>2. /\ disk' = lines' /\ proc' = [p \in Procs |-> Idle] /\ lock' = NoProc
      /\ UNCHANGED <<begun, acked>>
  BY DEF PowerLoss
<1>3. \A p \in Procs : proc'[p] = Idle
  BY <1>2
<1>4. /\ kept \in Seq(LineType) /\ Len(disk) <= Len(kept) /\ Len(kept) <= Len(lines)
      /\ \A i \in 1 .. Len(kept) :
            kept[i].record = lines[i].record /\ kept[i].seen = lines[i].seen
      /\ \A i \in 1 .. Len(disk) : kept[i] = disk[i] \/ kept[i] = lines[i]
  BY RemainsShape
<1>5. /\ lines' \in Seq(LineType) /\ Len(lines') \in Nat /\ Len(lines') <= Len(lines)
      /\ Len(lines) \in Nat /\ Len(disk) \in Nat
      /\ \A i \in 1 .. Len(lines') :
            lines'[i].record = lines[i].record /\ lines'[i].seen = lines[i].seen
  <2>1. Len(lines) \in Nat /\ Len(disk) \in Nat
    BY DEF Types
  <2>2. CASE name = "no"
    BY <1>1, <2>1, <2>2
  <2>3. CASE name = "durable"
    BY <1>1, <1>4, <2>1, <2>3
  <2> QED
    BY <2>2, <2>3
<1>6. Types'
  <2>1. Idle \in ProcType
    BY EmptyHistory DEF Idle, ProcType
  <2> QED
    BY <1>1, <1>2, <1>5, <2>1 DEF Types
<1>7. Named'
  BY <1>1, <1>2, <1>3 DEF Named, Idle
<1>8. Exclusive'
  BY <1>3 DEF Exclusive, Idle
<1>9. SyncedPrefix'
  BY <1>2, <1>5 DEF SyncedPrefix
<1>10. Decided(lines')
  BY <1>5, SameRecords
<1>11. Numbered'
  <2>1. \A i \in 1 .. Len(lines') : lines'[i].record <= begun'
    BY <1>2, <1>5 DEF Numbered
  <2> QED
    BY <1>2, <1>3, <2>1 DEF Numbered, Idle, Types
<1>12. \A p \in Procs : Writing(p)'
  BY <1>3 DEF Writing, Idle
<1>13. Acked'
  <2> SUFFICES ASSUME NEW r \in acked
               PROVE  \/ Kept(r)'
                      \/ /\ \E i \in 1 .. Len(disk') : disk'[i].state = "joined"
                         /\ \A s \in acked : s <= r
    BY <1>2 DEF Acked
  <2>1. lines' = kept /\ disk' = kept
    BY <1>1, <1>2 DEF Named
  <2>2. CASE Kept(r)
    <3>1. PICK i \in 1 .. Len(disk) :
             /\ lines[i].record = r /\ disk[i].record = r
             /\ lines[i].state = "whole" /\ disk[i].state = "whole"
      BY <2>2 DEF Kept
    <3>2. i \in 1 .. Len(kept) /\ kept[i].record = r /\ kept[i].state = "whole"
      BY <1>4, <1>5, <3>1
    <3> QED
      BY <2>1, <3>2 DEF Kept
  <2>3. CASE /\ \E i \in 1 .. Len(disk) : disk[i].state = "joined"
             /\ \A s \in acked : s <= r
    <3>1. PICK i \in 1 .. Len(disk) : disk[i].state = "joined"
      BY <2>3
    <3>2. lines[i].state = "joined"
      BY <3>1 DEF SyncedPrefix
    <3>3. i \in 1 .. Len(kept) /\ kept[i].state = "joined"
      BY <1>4, <1>5, <3>1, <3>2
    <3> QED
      BY <2>1, <2>3, <3>3
  <2> QED
    BY <2>2, <2>3 DEF Acked
<1> QED
  BY <1>6, <1>7, <1>8, <1>9, <1>10, <1>11, <1>12, <1>13 DEF Decided

LEMMA StutterKeeps ==
    ASSUME JournalInv, UNCHANGED vars
    PROVE  JournalInv'
<1> USE DEF JournalInv
<1>1. UNCHANGED <<exists, lines, disk, lock, proc, begun, acked>>
  BY DEF vars
<1>2. Types' /\ Named' /\ Exclusive'
  BY <1>1 DEF Types, Named, Exclusive
<1>3. SyncedPrefix' /\ Numbered'
  BY <1>1 DEF SyncedPrefix, Numbered
<1>4. Decided(lines)'
  BY <1>1 DEF Decided
<1>5. \A r : Kept(r)' <=> Kept(r)
  BY <1>1 DEF Kept
<1>6. Acked'
  BY <1>1, <1>5 DEF Acked
<1>7. ASSUME NEW p \in Procs PROVE Writing(p)'
  <2>1. Writing(p)
    OBVIOUS
  <2> QED
    BY <1>1, <1>5, <2>1 DEF Writing
<1> QED
  BY <1>2, <1>3, <1>4, <1>6, <1>7

LEMMA NextKeeps == JournalInv /\ [Next]_vars => JournalInv'
<1> SUFFICES ASSUME JournalInv, [Next]_vars PROVE JournalInv'
  OBVIOUS
<1>1. CASE UNCHANGED vars
  BY <1>1, StutterKeeps
<1>2. CASE PowerLoss
  BY <1>2, PowerLossKeeps
<1>3. ASSUME NEW p \in Procs, Begin(p) PROVE JournalInv'
  BY <1>3, ReadKeeps, CreateKeeps DEF Begin
<1>4. ASSUME NEW p \in Procs, Proceed(p) PROVE JournalInv'
  BY <1>4, LockKeeps, PlanKeeps, WriteFirstKeeps, WriteRestKeeps, SyncFileKeeps,
     SyncDirectoryKeeps, FailKeeps DEF Proceed
<1> QED
  BY <1>1, <1>2, <1>3, <1>4 DEF Next

LEMMA JournalInvariant == Spec => []JournalInv
BY InitInv, NextKeeps, PTL DEF Spec

-----------------------------------------------------------------------------
(* Every record of t2_mutation_journal's file was decided on exactly the   *)
(* records before it: of any number of processes that read the same head   *)
(* one appends, and no power loss leaves a record without its history.     *)
THEOREM JournalDecided == Spec => []DecidedOnHistory
<1>1. JournalInv => DecidedOnHistory
  BY DecidedSuffices DEF JournalInv, Types
<1> QED
  BY <1>1, JournalInvariant, PTL

(* A record whose append has returned stays in the file, in memory and on  *)
(* the disk, and can be read, through short writes, failed appends, killed *)
(* processes and power losses; the one that ends the file is the largest.  *)
THEOREM JournalAcknowledged == Spec => []AcknowledgedIntact
<1>1. ASSUME JournalInv PROVE AcknowledgedIntact
  <2> SUFFICES ASSUME NEW r \in acked
               PROVE  /\ exists = "durable"
                      /\ \/ Holds(lines, r) /\ Holds(disk, r)
                         \/ Joined(lines) /\ \A s \in acked : s <= r
    BY DEF AcknowledgedIntact
  <2>1. exists = "durable"
    BY <1>1 DEF JournalInv, Named
  <2>2. /\ DOMAIN lines = 1 .. Len(lines) /\ DOMAIN disk = 1 .. Len(disk)
        /\ Len(lines) \in Nat /\ Len(disk) \in Nat /\ Len(disk) <= Len(lines)
    BY <1>1 DEF JournalInv, Types, SyncedPrefix
  <2>3. CASE Kept(r)
    BY <2>1, <2>2, <2>3 DEF Kept, Holds, Legible
  <2>4. CASE /\ \E i \in 1 .. Len(disk) : disk[i].state = "joined"
             /\ \A s \in acked : s <= r
    <3>1. PICK i \in 1 .. Len(disk) : disk[i].state = "joined"
      BY <2>4
    <3>2. lines[i].state = "joined" /\ i \in DOMAIN lines
      BY <1>1, <2>2, <3>1 DEF JournalInv, SyncedPrefix
    <3> QED
      BY <2>1, <2>4, <3>2 DEF Joined
  <2> QED
    BY <1>1, <2>3, <2>4 DEF JournalInv, Acked
<1> QED
  BY <1>1, JournalInvariant, PTL
=============================================================================
