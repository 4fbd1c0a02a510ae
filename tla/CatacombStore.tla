--------------------------- MODULE CatacombStore ---------------------------
(***************************************************************************)
(* The crash-safe host store of Catacomb components (t2_catacomb_store.py).*)
(*                                                                         *)
(* A batch of components is staged in prepare/, one durable file at a      *)
(* time; renaming prepare/ to commit/ is the irreversible boundary; the    *)
(* files of commit/ then replace those of the root one by one.  A process  *)
(* may stop between any two system calls, and the machine may lose power:  *)
(* recovery discards a prepare/ and rolls a commit/ forward.               *)
(*                                                                         *)
(* The file system is external.  Each mutating call is atomic; fs is what  *)
(* a process sees and disk the set of states a power loss may leave.  With *)
(* Reorder = FALSE unsynced calls reach the disk in order, as on a         *)
(* journalling file system; with Reorder = TRUE any of them may be lost    *)
(* while a later one is kept.  A directory fsync hardens every call made   *)
(* so far: at each fsync of this code every unsynced call touches the      *)
(* directory that is synced.                                               *)
(***************************************************************************)
EXTENDS Integers, FiniteSets

CONSTANTS
    Names,          \* component names; their numeric order is the sorted() order
    MaxGen,         \* bound: transactions begun
    MaxCrash,       \* bound: processes stopped by an exception or a signal
    MaxPowerLoss,   \* bound: power losses
    Reorder         \* may unsynced calls reach the disk out of order?

ASSUME NamesAssumption == Names \subseteq Int
ASSUME BoundsAssumption ==
    MaxGen \in Nat /\ MaxCrash \in Nat /\ MaxPowerLoss \in Nat
ASSUME ReorderAssumption == Reorder \in BOOLEAN

VARIABLES
    fs,         \* the directory tree a process sees
    disk,       \* the trees a power loss may leave behind
    pc,         \* the next call of the process that works on the store
    cur,        \* the component that process is working on
    batch,      \* expected_names of the transaction, from the journal
    known,      \* the names whose staged hash the caller has journaled
    gen,        \* the generation the transaction stages
    base,       \* the root the transaction began from
    crashes, losses

store == <<fs, disk>>
journal == <<batch, known, gen, base>>
faults == <<crashes, losses>>
vars == <<fs, disk, pc, cur, batch, known, gen, base, crashes, losses>>

-----------------------------------------------------------------------------
(* The directory tree.  A file is absent, torn (not schema-valid) or holds *)
(* the component of one generation.                                        *)

Absent == -2
Torn   == -1
Content == {Absent, Torn} \cup Nat

NoFiles == [n \in Names |-> Absent]
Entries(d) == {n \in Names : d[n] # Absent}

Tree == [dirs : SUBSET {"prepare", "commit"},
         root : [Names -> Content],
         prepare : [Names -> Content],
         commit : [Names -> Content]]

MkPrepare(s) ==
    [s EXCEPT !.dirs = @ \cup {"prepare"}, !.prepare = NoFiles]

WriteFile(s, n, c) ==
    [s EXCEPT !.prepare = [@ EXCEPT ![n] = c]]

RenamePrepare(s) ==
    [s EXCEPT !.dirs = (@ \ {"prepare"}) \cup {"commit"},
              !.commit = s.prepare,
              !.prepare = NoFiles]

UnlinkRoot(s, n) ==
    [s EXCEPT !.root = [@ EXCEPT ![n] = Absent]]

RenameComponent(s, n) ==
    [s EXCEPT !.root = [@ EXCEPT ![n] = s.commit[n]],
              !.commit = [@ EXCEPT ![n] = Absent]]

RmCommit(s) == [s EXCEPT !.dirs = @ \ {"commit"}]

RmPrepare(s) == [s EXCEPT !.dirs = @ \ {"prepare"}]

(* A call whose object is missing from a tree does nothing to that tree. *)
Exposed(Op(_), Can(_)) ==
    IF Reorder THEN {Op(s) : s \in {t \in disk : Can(t)}} ELSE {Op(fs)}

Call(Op(_), Can(_)) ==
    /\ fs' = Op(fs)
    /\ disk' = disk \cup {Op(fs)} \cup Exposed(Op, Can)

HasPrepare(s) == "prepare" \in s.dirs
HasCommit(s)  == "commit" \in s.dirs
Always(s) == TRUE

(* Mutant: the directory is opened and closed but never synced. *)
MutFsync == UNCHANGED store

(* fsync of a directory. *)
Fsync ==
    /\ disk' = {fs}
    /\ UNCHANGED fs

-----------------------------------------------------------------------------
(* Validation. *)

(* What the root holds once a commit/ that is present is rolled forward. *)
View(s) ==
    [n \in Names |-> IF HasCommit(s) /\ s.commit[n] # Absent
                     THEN s.commit[n] ELSE s.root[n]]

Post == [n \in Names |-> IF n \in batch THEN gen ELSE base[n]]

(* Every expected name, in commit/ or already in the root, has its hash. *)
CommitValid(s) ==
    /\ Entries(s.commit) \subseteq known
    /\ \A n \in known : View(s)[n] = gen

PrepareValid(s) ==
    /\ Entries(s.prepare) = known
    /\ \A n \in known : s.prepare[n] = gen

(* discard_prepare: a hash is compared where the journal has one, and every *)
(* file present must decode.                                                *)
DiscardValid(s) ==
    /\ Entries(s.prepare) \subseteq batch
    /\ \A n \in Entries(s.prepare) :
          /\ s.prepare[n] # Torn
          /\ n \in known => s.prepare[n] = gen

First(n, S) == n \in S /\ \A m \in S : n <= m

-----------------------------------------------------------------------------
(* Staging. *)

(* Mutant: the hashes of the last transaction are kept. *)
MutBeginStage(names) ==
    /\ pc = "idle"
    /\ gen < MaxGen
    /\ names # {}
    /\ fs.dirs = {}
    /\ Call(MkPrepare, Always)
    /\ batch' = names
    /\ gen' = gen + 1
    /\ base' = fs.root
    /\ pc' = "sync_begin"
    /\ UNCHANGED <<cur, known, faults>>

BeginStage(names) ==
    /\ pc = "idle"
    /\ gen < MaxGen
    /\ names # {}
    /\ fs.dirs = {}
    /\ Call(MkPrepare, Always)
    /\ batch' = names
    /\ known' = {}
    /\ gen' = gen + 1
    /\ base' = fs.root
    /\ pc' = "sync_begin"
    /\ UNCHANGED <<cur, faults>>

SyncBegin ==
    /\ pc = "sync_begin"
    /\ Fsync
    /\ pc' = "stage"
    /\ UNCHANGED <<cur, journal, faults>>

(* stage_component, one system call at a time: the file appears empty,     *)
(* then holds all the bytes, is synced, and prepare/ is synced.            *)
StageCreate(n) ==
    LET Create(s) == WriteFile(s, n, Torn)
    IN  /\ pc = "stage"
        /\ Entries(fs.prepare) \subseteq batch
        /\ n \in batch \ Entries(fs.prepare)
        /\ Call(Create, HasPrepare)
        /\ cur' = n
        /\ pc' = "write"
        /\ UNCHANGED <<journal, faults>>

StageWrite ==
    LET Write(s) == WriteFile(s, cur, gen)
        Created(s) == HasPrepare(s) /\ s.prepare[cur] # Absent
    IN  /\ pc = "write"
        /\ Call(Write, Created)
        /\ pc' = "sync_file"
        /\ UNCHANGED <<cur, journal, faults>>

(* Mutant: the hash is reported before the bytes are synced. *)
MutSyncFile ==
    /\ pc = "sync_file"
    /\ known' = known \cup {cur}
    /\ pc' = "sync_stage"
    /\ UNCHANGED <<store, cur, batch, gen, base, faults>>

(* The bytes are durable, the directory entry perhaps not yet. *)
SyncFile ==
    /\ pc = "sync_file"
    /\ disk' = {s \in disk : s.prepare[cur] # Torn}
    /\ pc' = "sync_stage"
    /\ UNCHANGED <<fs, cur, journal, faults>>

(* Mutant: prepare/ is not synced after a file was added. *)
MutSyncStage ==
    /\ pc = "sync_stage"
    /\ known' = known \cup {cur}
    /\ pc' = "stage"
    /\ UNCHANGED <<store, cur, batch, gen, base, faults>>

(* stage_component returns the hash and the caller journals it. *)
SyncStage ==
    /\ pc = "sync_stage"
    /\ Fsync
    /\ known' = known \cup {cur}
    /\ pc' = "stage"
    /\ UNCHANGED <<cur, batch, gen, base, faults>>

-----------------------------------------------------------------------------
(* The commit boundary and the roll forward. *)

CrossCommitBoundary ==
    /\ pc = "stage"
    /\ known = batch
    /\ PrepareValid(fs)
    /\ Call(RenamePrepare, HasPrepare)
    /\ pc' = "sync_cross"
    /\ UNCHANGED <<cur, journal, faults>>

(* Mutant: the boundary is not persisted before the roll forward. *)
MutSyncCross ==
    /\ pc = "sync_cross"
    /\ pc' = "validate_commit"
    /\ UNCHANGED <<store, cur, journal, faults>>

SyncCross ==
    /\ pc = "sync_cross"
    /\ Fsync
    /\ pc' = "validate_commit"
    /\ UNCHANGED <<cur, journal, faults>>

ValidateCommit ==
    /\ pc = "validate_commit"
    /\ CommitValid(fs)
    /\ pc' = "roll"
    /\ UNCHANGED <<store, cur, journal, faults>>

(* An old root file that is present must decode before it is unlinked. *)
UnlinkOld(n) ==
    LET Unlink(s) == UnlinkRoot(s, n)
    IN  /\ pc = "roll"
        /\ First(n, Entries(fs.commit))
        /\ fs.root[n] \notin {Absent, Torn}
        /\ Call(Unlink, Always)
        /\ cur' = n
        /\ pc' = "promote"
        /\ UNCHANGED <<journal, faults>>

SkipUnlink(n) ==
    /\ pc = "roll"
    /\ First(n, Entries(fs.commit))
    /\ fs.root[n] = Absent
    /\ cur' = n
    /\ pc' = "promote"
    /\ UNCHANGED <<store, journal, faults>>

Promote ==
    LET Rename(s) == RenameComponent(s, cur)
        There(s) == HasCommit(s) /\ s.commit[cur] # Absent
    IN  /\ pc = "promote"
        /\ Call(Rename, There)
        /\ pc' = "sync_commit"
        /\ UNCHANGED <<cur, journal, faults>>

SyncCommit ==
    /\ pc = "sync_commit"
    /\ Fsync
    /\ pc' = "sync_root"
    /\ UNCHANGED <<cur, journal, faults>>

SyncRoot ==
    /\ pc = "sync_root"
    /\ Fsync
    /\ pc' = "roll"
    /\ UNCHANGED <<cur, journal, faults>>

RemoveCommit ==
    LET Emptied(s) == HasCommit(s) /\ s.commit = NoFiles
    IN  /\ pc = "roll"
        /\ Entries(fs.commit) = {}
        /\ Call(RmCommit, Emptied)
        /\ pc' = "sync_removed"
        /\ UNCHANGED <<cur, journal, faults>>

(* cross_commit_boundary, or recover, returns and the caller journals it. *)
SyncRemoved ==
    /\ pc = "sync_removed"
    /\ Fsync
    /\ pc' = "idle"
    /\ UNCHANGED <<cur, journal, faults>>

-----------------------------------------------------------------------------
(* Faults and recovery. *)

(* The process stops between two calls: a signal, or an exception that the *)
(* caller turns into an outcome-unknown record.                            *)
ProcessStops ==
    /\ pc # "down"
    /\ crashes < MaxCrash
    /\ crashes' = crashes + 1
    /\ pc' = "down"
    /\ UNCHANGED <<store, cur, journal, losses>>

PowerLoss ==
    /\ losses < MaxPowerLoss
    /\ losses' = losses + 1
    /\ fs' \in disk
    /\ disk' = {fs'}
    /\ pc' = "down"
    /\ UNCHANGED <<cur, journal, crashes>>

(* The callers refuse a store that has both directories. *)
RecoverPrepare ==
    /\ pc = "down"
    /\ fs.dirs = {"prepare"}
    /\ DiscardValid(fs)
    /\ pc' = "discard"
    /\ UNCHANGED <<store, cur, journal, faults>>

DiscardUnlink(n) ==
    LET Unlink(s) == WriteFile(s, n, Absent)
    IN  /\ pc = "discard"
        /\ First(n, Entries(fs.prepare))
        /\ Call(Unlink, HasPrepare)
        /\ UNCHANGED <<pc, cur, journal, faults>>

SyncDiscard ==
    /\ pc = "discard"
    /\ Entries(fs.prepare) = {}
    /\ Fsync
    /\ pc' = "remove_prepare"
    /\ UNCHANGED <<cur, journal, faults>>

RemovePrepare ==
    LET Emptied(s) == HasPrepare(s) /\ s.prepare = NoFiles
    IN  /\ pc = "remove_prepare"
        /\ Call(RmPrepare, Emptied)
        /\ pc' = "sync_discarded"
        /\ UNCHANGED <<cur, journal, faults>>

SyncDiscarded ==
    /\ pc = "sync_discarded"
    /\ Fsync
    /\ pc' = "idle"
    /\ UNCHANGED <<cur, journal, faults>>

(* Mutants: recovery discards a commit/ as if it were a prepare/; recovery *)
(* forgets the names that were already promoted.                           *)
MutRecoverCommitDiscards ==
    /\ pc = "down"
    /\ fs.dirs = {"commit"}
    /\ Call(RmCommit, HasCommit)
    /\ pc' = "sync_discarded"
    /\ UNCHANGED <<cur, journal, faults>>

MutRecoverCommitWhole ==
    /\ pc = "down"
    /\ fs.dirs = {"commit"}
    /\ Entries(fs.commit) = batch
    /\ pc' = "validate_commit"
    /\ UNCHANGED <<store, cur, journal, faults>>

(* A commit/ rolls forward only with a journaled hash for every name. *)
RecoverCommit ==
    /\ pc = "down"
    /\ fs.dirs = {"commit"}
    /\ known = batch
    /\ pc' = "validate_commit"
    /\ UNCHANGED <<store, cur, journal, faults>>

(* Neither directory: the caller reads the committed root.  A root that the *)
(* interrupted transaction had replaced owes a post-reboot proof before the *)
(* mutation registry lets another transaction begin.                        *)
RecoverClean ==
    /\ pc = "down"
    /\ fs.dirs = {}
    /\ pc' = IF fs.root = base THEN "idle" ELSE "await_reboot"
    /\ UNCHANGED <<store, cur, journal, faults>>

Reboot ==
    /\ pc = "await_reboot"
    /\ Fsync
    /\ pc' = "idle"
    /\ UNCHANGED <<cur, journal, faults>>

-----------------------------------------------------------------------------
Init ==
    /\ fs = [dirs |-> {}, root |-> [n \in Names |-> 0],
             prepare |-> NoFiles, commit |-> NoFiles]
    /\ disk = {fs}
    /\ pc = "idle"
    /\ cur \in Names
    /\ batch = {}
    /\ known = {}
    /\ gen = 0
    /\ base = fs.root
    /\ crashes = 0
    /\ losses = 0

(* The calls of the process that works on the store, staging excluded. *)
Forward ==
    \/ SyncCross \/ ValidateCommit
    \/ \E n \in Names : UnlinkOld(n) \/ SkipUnlink(n)
    \/ Promote \/ SyncCommit \/ SyncRoot \/ RemoveCommit \/ SyncRemoved

Recovery ==
    \/ RecoverPrepare \/ RecoverCommit \/ RecoverClean
    \/ \E n \in Names : DiscardUnlink(n)
    \/ SyncDiscard \/ RemovePrepare \/ SyncDiscarded \/ Reboot

Stage ==
    \/ \E names \in SUBSET Names : BeginStage(names)
    \/ SyncBegin
    \/ \E n \in Names : StageCreate(n)
    \/ StageWrite \/ SyncFile \/ SyncStage
    \/ CrossCommitBoundary

Next == Stage \/ Forward \/ Recovery \/ ProcessStops \/ PowerLoss

Spec == Init /\ [][Next]_vars

(* A recovery command that is run keeps running: the operator runs it until *)
(* it reports that nothing is left to recover.                              *)
FairSpec == Spec /\ WF_vars(Forward) /\ WF_vars(Recovery)

-----------------------------------------------------------------------------
(* Properties. *)

TypeOK ==
    /\ fs \in Tree
    /\ disk \subseteq Tree
    /\ pc \in {"idle", "sync_begin", "stage", "write", "sync_file", "sync_stage",
               "sync_cross", "validate_commit", "roll", "promote", "sync_commit",
               "sync_root", "sync_removed", "down", "discard", "remove_prepare",
               "sync_discarded", "await_reboot"}
    /\ cur \in Names
    /\ batch \subseteq Names
    /\ known \subseteq batch
    /\ gen \in 0..MaxGen
    /\ base \in [Names -> 0..gen]
    /\ crashes \in 0..MaxCrash
    /\ losses \in 0..MaxPowerLoss

(* Whatever the process sees and whatever a power loss leaves, the set that *)
(* recovery leads to is the one before the transaction or the complete new  *)
(* batch over it: never a mixture, a torn file or a missing component             *)
(* (cross_commit_boundary and _roll_forward).                               *)
BatchAtomic == \A s \in disk \cup {fs} : View(s) \in {base, Post}

(* A commit/ that may be found at recovery passes _validate_commit with the *)
(* journaled hashes: the transaction past its boundary is never refused.    *)
CommitRecoverable ==
    \A s \in disk \cup {fs} :
        HasCommit(s) => s.dirs = {"commit"} /\ known = batch /\ CommitValid(s)

(* discard_prepare refuses a prepare/ only for a torn file that the caller  *)
(* has not journaled as staged; a hash that was returned by stage_component *)
(* names bytes that survive a power loss.                                   *)
OnlyTornIsRefused ==
    \A s \in disk \cup {fs} :
        HasPrepare(s) => \/ DiscardValid(s)
                         \/ \E n \in batch \ known : s.prepare[n] = Torn

(* read_committed_components accepts a root without prepare/ and commit/:   *)
(* what it returns is what every power loss would lead back to.             *)
ReadIsDurable == fs.dirs = {} => \A s \in disk : View(s) = fs.root

(* "Persist that boundary before any old root component can be unlinked":   *)
(* once a root component is unlinked or replaced, no power loss can leave   *)
(* prepare/ behind, which recovery would discard.  It is about the process  *)
(* that crosses the boundary and goes on: a recovery after a stop does not  *)
(* sync the rename, so it holds only with MaxCrash = 0.                     *)
BoundaryIsDurable ==
    fs.root # base => \A s \in disk : ~HasPrepare(s)

(* A transaction that was interrupted is resolved, unless a staged file is  *)
(* torn, or may be after a power loss, so that discard_prepare refuses it.  *)
RecoveryTerminates ==
    pc = "down" /\ (\A s \in disk : Torn \notin {s.prepare[n] : n \in Names})
        ~> pc = "idle"

(* The store implements the atomic one: a step changes the recovered value  *)
(* by a whole batch, and nothing acknowledged is taken back.                *)
Abstract ==
    INSTANCE AtomicStore WITH
        value <- View(fs),
        safe <- {View(s) : s \in disk},
        Gens <- 1..MaxGen
ImplementsAtomicStore == Abstract!Spec
=============================================================================
