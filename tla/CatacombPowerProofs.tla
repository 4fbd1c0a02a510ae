------------------------ MODULE CatacombPowerProofs ------------------------
(***************************************************************************)
(* The Catacomb store on a file system that may lose an unsynced call and  *)
(* keep a later one: its fsyncs are enough for the properties below, for   *)
(* every set of names, number of transactions and number of power losses,  *)
(* as long as no process stops on its own (MaxCrash = 0): a recovery rolls *)
(* a commit/ forward without syncing the rename that made it.              *)
(*                                                                         *)
(* PowerInv says, for each call that is next, what every tree a power loss *)
(* may leave looks like, and at which calls there is only one.             *)
(***************************************************************************)
EXTENDS CatacombStoreProofs

Trees == disk \cup {fs}

(* The calls before which everything is on the disk. *)
Synced == {"idle", "stage", "validate_commit", "roll", "sync_root", "down",
           "remove_prepare", "await_reboot"}
Writing == {"write", "sync_file", "sync_stage"}

(* What was journaled as staged is there, whole. *)
Honest(s) == \A n \in known : s.prepare[n] = gen

(* One file, that of cur, is being staged. *)
Adding(s) ==
    /\ Prepared(s) /\ Honest(s)
    /\ \A n \in Names \ known : n # cur => s.prepare[n] = Absent
    /\ s.prepare[cur] \in {Absent, Torn, gen}

TreeAt(s) ==
    /\ pc \in {"idle"} => Unchanged(s) \/ Replaced(s)
    /\ pc = "sync_begin" => Emptied(s) /\ known = {}
    /\ pc = "stage" => Prepared(s) /\ Honest(s) /\ Entries(s.prepare) = known
    /\ pc \in Writing => Adding(s)
    /\ pc = "sync_stage" => s.prepare[cur] # Torn
    /\ pc = "sync_cross" => s.root = base /\ (Crossed(s) \/ (Prepared(s) /\ Honest(s)))
    /\ pc \in {"validate_commit", "roll", "promote", "sync_commit", "sync_root"} => Crossed(s)
    /\ pc = "promote" => s.commit[cur] = gen
    /\ pc = "sync_removed" => Replaced(s) \/ (Crossed(s) /\ Entries(s.commit) = {})
    /\ pc = "down" => \/ Unchanged(s) \/ Crossed(s) \/ Replaced(s)
                      \/ Prepared(s) /\ \A n \in known : s.prepare[n] \in {Absent, gen}
    /\ pc = "discard" => Prepared(s) /\ DiscardValid(s)
    /\ pc \in {"remove_prepare", "sync_discarded"} => Emptied(s)
    /\ pc = "await_reboot" => Replaced(s)

VisibleAt ==
    /\ pc \in Writing => cur \in batch \ known
    /\ pc = "sync_begin" => fs.dirs = {"prepare"}
    /\ pc = "write" => fs.prepare[cur] = Torn
    /\ pc \in {"sync_file", "sync_stage"} => fs.prepare[cur] = gen
    /\ pc = "sync_cross" => Crossed(fs)
    /\ pc = "promote" => cur \in batch
    /\ pc = "sync_removed" => Replaced(fs)
    /\ pc = "remove_prepare" => fs.dirs = {"prepare"}
    /\ pc = "sync_discarded" => Unchanged(fs)

PowerInv ==
    /\ TypeOK
    /\ pc \in Synced => disk = {fs}
    /\ \A s \in Trees : TreeAt(s)
    /\ VisibleAt

-----------------------------------------------------------------------------
(* What the calls do to a tree. *)

LEMMA TreeFields ==
    ASSUME NEW s \in Tree
    PROVE  /\ s.dirs \subseteq {"prepare", "commit"}
           /\ s.root \in [Names -> Content] /\ s.prepare \in [Names -> Content]
           /\ s.commit \in [Names -> Content]
BY DEF Tree

LEMMA MkPrepareTree ==
    ASSUME NEW s \in Tree
    PROVE  /\ MkPrepare(s) \in Tree
           /\ MkPrepare(s).dirs = s.dirs \cup {"prepare"} /\ MkPrepare(s).root = s.root
           /\ MkPrepare(s).prepare = NoFiles
BY DEF MkPrepare, Tree, NoFiles, Content

LEMMA WriteFileTree ==
    ASSUME NEW s \in Tree, NEW n \in Names, NEW c \in Content
    PROVE  /\ WriteFile(s, n, c) \in Tree
           /\ WriteFile(s, n, c).dirs = s.dirs /\ WriteFile(s, n, c).root = s.root
           /\ WriteFile(s, n, c).prepare = [s.prepare EXCEPT ![n] = c]
BY DEF WriteFile, Tree

LEMMA RenamePrepareTree ==
    ASSUME NEW s \in Tree
    PROVE  /\ RenamePrepare(s) \in Tree
           /\ RenamePrepare(s).dirs = (s.dirs \ {"prepare"}) \cup {"commit"}
           /\ RenamePrepare(s).root = s.root /\ RenamePrepare(s).commit = s.prepare
BY DEF RenamePrepare, Tree, NoFiles, Content

LEMMA UnlinkRootTree ==
    ASSUME NEW s \in Tree, NEW n \in Names
    PROVE  /\ UnlinkRoot(s, n) \in Tree
           /\ UnlinkRoot(s, n).dirs = s.dirs /\ UnlinkRoot(s, n).commit = s.commit
           /\ UnlinkRoot(s, n).root = [s.root EXCEPT ![n] = Absent]
BY DEF UnlinkRoot, Tree, Content

LEMMA RenameComponentTree ==
    ASSUME NEW s \in Tree, NEW n \in Names
    PROVE  /\ RenameComponent(s, n) \in Tree
           /\ RenameComponent(s, n).dirs = s.dirs
           /\ RenameComponent(s, n).commit = [s.commit EXCEPT ![n] = Absent]
           /\ RenameComponent(s, n).root = [s.root EXCEPT ![n] = s.commit[n]]
BY DEF RenameComponent, Tree, Content

LEMMA RmCommitTree ==
    ASSUME NEW s \in Tree
    PROVE  /\ RmCommit(s) \in Tree
           /\ RmCommit(s).dirs = s.dirs \ {"commit"} /\ RmCommit(s).root = s.root
BY DEF RmCommit, Tree

LEMMA RmPrepareTree ==
    ASSUME NEW s \in Tree
    PROVE  /\ RmPrepare(s) \in Tree
           /\ RmPrepare(s).dirs = s.dirs \ {"prepare"} /\ RmPrepare(s).root = s.root
BY DEF RmPrepare, Tree

-----------------------------------------------------------------------------
(* The initial state and each step.                                         *)

LEMMA InitPowerInv == Init => PowerInv
<1> SUFFICES ASSUME Init PROVE PowerInv
  OBVIOUS
<1>1. TypeOK
  BY InitStoreInv DEF StoreInv
<1>2. pc = "idle" /\ disk = {fs} /\ Unchanged(fs)
  BY DEF Init, Unchanged
<1> QED
  BY <1>1, <1>2 DEF PowerInv, TreeAt, VisibleAt, Trees, Synced, Writing

LEMMA BeginStagePower ==
    ASSUME PowerInv, NEW names \in SUBSET Names, BeginStage(names)
    PROVE  PowerInv'
<1>1. /\ pc = "idle" /\ disk = {fs} /\ fs \in Tree /\ fs.dirs = {}
      /\ fs' = MkPrepare(fs) /\ disk' = {fs, MkPrepare(fs)}
      /\ base' = fs.root /\ batch' = names /\ known' = {} /\ gen' = gen + 1 /\ gen < MaxGen
      /\ pc' = "sync_begin" /\ cur' = cur /\ UNCHANGED faults
  BY DEF BeginStage, Call, Exposed, Always, PowerInv, Synced, TypeOK
<1>2. fs.root \in [Names -> 0..gen]
  BY <1>1 DEF PowerInv, TypeOK, TreeAt, Trees, Unchanged, Replaced, Post
<1>3. /\ fs' \in Tree /\ fs'.dirs = {"prepare"} /\ fs'.root = fs.root
      /\ fs'.prepare = NoFiles
  BY <1>1, MkPrepareTree
<1>4. TypeOK'
  BY <1>1, <1>2, <1>3, BoundsAssumption DEF PowerInv, TypeOK, faults
<1>5. Emptied(fs)'
  BY <1>1, <1>3 DEF Emptied, Entries, NoFiles
<1>6. \A s \in Trees' : Emptied(s)'
  BY <1>1, <1>5 DEF Emptied, Trees
<1> QED
  BY <1>1, <1>3, <1>4, <1>6 DEF PowerInv, TreeAt, VisibleAt, Synced, Writing

(* A directory fsync leaves the visible tree alone on the disk. *)
LEMMA FsyncPower ==
    ASSUME PowerInv,
           SyncBegin \/ SyncCross \/ SyncCommit \/ SyncRoot \/ SyncRemoved
             \/ SyncDiscard \/ SyncDiscarded \/ Reboot
    PROVE  PowerInv'
<1>1. /\ fs' = fs /\ disk' = {fs} /\ cur' = cur /\ batch' = batch /\ known' = known
      /\ gen' = gen /\ base' = base /\ UNCHANGED faults
  BY DEF SyncBegin, SyncCross, SyncCommit, SyncRoot, SyncRemoved, SyncDiscard,
         SyncDiscarded, Reboot, Fsync, journal
<1>2. TypeOK'
  BY <1>1 DEF PowerInv, TypeOK, faults, SyncBegin, SyncCross, SyncCommit, SyncRoot,
         SyncRemoved, SyncDiscard, SyncDiscarded, Reboot
<1>3. TreeAt(fs) /\ VisibleAt /\ fs \in Tree
  BY DEF PowerInv, Trees, TypeOK
<1>4. TreeAt(fs)' /\ VisibleAt'
  <2>1. CASE SyncBegin
    BY <1>1, <1>3, <2>1 DEF SyncBegin, TreeAt, VisibleAt, Emptied, Prepared, Honest, Entries, Writing
  <2>2. CASE SyncCross \/ SyncCommit \/ SyncRoot
    BY <1>1, <1>3, <2>2 DEF SyncCross, SyncCommit, SyncRoot, TreeAt, VisibleAt, Crossed, Writing
  <2>3. CASE SyncRemoved \/ Reboot
    BY <1>1, <1>3, <2>3 DEF SyncRemoved, Reboot, TreeAt, VisibleAt, Replaced, Post, Writing
  <2>4. CASE SyncDiscard
    BY <1>1, <1>3, <2>4 DEF SyncDiscard, TreeAt, VisibleAt, Prepared, Emptied, Writing
  <2>5. CASE SyncDiscarded
    BY <1>1, <1>3, <2>5 DEF SyncDiscarded, TreeAt, VisibleAt, Unchanged, Writing
  <2> QED
    BY <2>1, <2>2, <2>3, <2>4, <2>5
<1> QED
  BY <1>1, <1>2, <1>4 DEF PowerInv, Trees

(* Steps that touch neither the store nor the journal. *)
LEMMA QuietPower ==
    ASSUME PowerInv, ValidateCommit \/ RecoverPrepare \/ RecoverCommit \/ RecoverClean
                       \/ \E n \in Names : SkipUnlink(n)
    PROVE  PowerInv'
<1>1. /\ fs' = fs /\ disk' = {fs} /\ batch' = batch /\ known' = known
      /\ gen' = gen /\ base' = base /\ UNCHANGED faults /\ disk = {fs}
  BY DEF ValidateCommit, RecoverPrepare, RecoverCommit, RecoverClean, SkipUnlink, store, journal,
         PowerInv, Synced
<1>2. TypeOK'
  BY <1>1 DEF PowerInv, TypeOK, faults, ValidateCommit, RecoverPrepare, RecoverCommit,
         RecoverClean, SkipUnlink
<1>3. TreeAt(fs) /\ VisibleAt
  BY DEF PowerInv, Trees
<1>4. TreeAt(fs)' /\ VisibleAt'
  <2>1. CASE ValidateCommit
    BY <1>1, <1>3, <2>1 DEF ValidateCommit, TreeAt, VisibleAt, Crossed, Writing
  <2>2. CASE RecoverPrepare
    <3>1. Prepared(fs) /\ DiscardValid(fs)
      BY <1>3, <2>2 DEF RecoverPrepare, TreeAt, Unchanged, Crossed, Replaced
    <3> QED
      BY <1>1, <2>2, <3>1 DEF RecoverPrepare, TreeAt, VisibleAt, Prepared, DiscardValid, Writing
  <2>3. CASE RecoverCommit
    <3>1. Crossed(fs)
      BY <1>3, <2>3 DEF RecoverCommit, TreeAt, Unchanged, Prepared, Replaced
    <3> QED
      BY <1>1, <2>3, <3>1 DEF RecoverCommit, TreeAt, VisibleAt, Crossed, Writing
  <2>4. CASE RecoverClean
    <3>1. fs.dirs = {} /\ (fs.root = base \/ Replaced(fs))
      BY <1>3, <2>4 DEF RecoverClean, TreeAt, Unchanged, Prepared, Crossed, Replaced
    <3> QED
      BY <1>1, <2>4, <3>1 DEF RecoverClean, TreeAt, VisibleAt, Unchanged, Replaced, Post, Writing
  <2>5. ASSUME NEW n \in Names, SkipUnlink(n) PROVE TreeAt(fs)' /\ VisibleAt'
    <3>1. Crossed(fs) /\ fs.commit[n] # Absent
      BY <1>3, <2>5 DEF SkipUnlink, First, Entries, TreeAt
    <3>2. n \in batch /\ fs.commit[n] = gen
      BY <3>1 DEF Crossed
    <3> QED
      BY <1>1, <2>5, <3>1, <3>2 DEF SkipUnlink, TreeAt, VisibleAt, Crossed, Writing
  <2> QED
    BY <2>1, <2>2, <2>3, <2>4, <2>5
<1> QED
  BY <1>1, <1>2, <1>4 DEF PowerInv, Trees

(* Every tree is the old one, one that is being staged, one past the        *)
(* boundary or the new one.                                                 *)
LEMMA PowerShapes ==
    ASSUME PowerInv, NEW s \in Trees
    PROVE  \/ Unchanged(s) \/ Crossed(s) \/ Replaced(s)
           \/ Prepared(s) /\ \A n \in known : s.prepare[n] \in {Absent, gen}
<1>1. TreeAt(s) /\ known \subseteq batch /\ batch \subseteq Names
  BY DEF PowerInv, TypeOK
<1>2. CASE pc \in {"idle", "await_reboot", "sync_removed", "down"}
  BY <1>1, <1>2 DEF TreeAt
<1>3. CASE pc \in {"sync_begin", "remove_prepare", "sync_discarded"}
  <2>1. Emptied(s)
    BY <1>1, <1>3 DEF TreeAt
  <2>2. Entries(s.prepare) = {} => \A n \in known : s.prepare[n] = Absent
    BY <1>1 DEF Entries
  <2> QED
    BY <2>1, <2>2 DEF Emptied, Unchanged, Prepared
<1>4. CASE pc \in {"stage", "write", "sync_file", "sync_stage", "sync_cross"}
  BY <1>1, <1>4 DEF TreeAt, Writing, Adding, Honest
<1>5. CASE pc \in {"validate_commit", "roll", "promote", "sync_commit", "sync_root"}
  BY <1>1, <1>5 DEF TreeAt
<1>6. CASE pc = "discard"
  <2>1. Prepared(s) /\ DiscardValid(s)
    BY <1>1, <1>6 DEF TreeAt
  <2> QED
    BY <1>1, <2>1 DEF DiscardValid, Entries
<1> QED
  BY <1>2, <1>3, <1>4, <1>5, <1>6 DEF PowerInv, TypeOK

LEMMA PowerLossPower ==
    ASSUME PowerInv, PowerLoss
    PROVE  PowerInv'
<1>1. /\ fs' \in disk /\ disk' = {fs'} /\ cur' = cur /\ pc' = "down"
      /\ batch' = batch /\ known' = known /\ gen' = gen /\ base' = base
      /\ crashes' = crashes /\ losses' = losses + 1 /\ losses < MaxPowerLoss
  BY DEF PowerLoss, journal
<1>2. TypeOK'
  BY <1>1, BoundsAssumption DEF PowerInv, TypeOK
<1>3. \/ Unchanged(fs') \/ Crossed(fs') \/ Replaced(fs')
      \/ Prepared(fs') /\ \A n \in known : fs'.prepare[n] \in {Absent, gen}
  BY <1>1, PowerShapes DEF Trees
<1>4. TreeAt(fs)'
  BY <1>1, <1>3 DEF TreeAt, Unchanged, Crossed, Replaced, Post, Prepared, Writing
<1> QED
  BY <1>1, <1>2, <1>4 DEF PowerInv, Trees, VisibleAt, Writing

LEMMA StageCreatePower ==
    ASSUME PowerInv, NEW n \in Names, StageCreate(n)
    PROVE  PowerInv'
<1> DEFINE t == WriteFile(fs, n, Torn)
<1>1. /\ pc = "stage" /\ disk = {fs} /\ fs \in Tree
      /\ fs' = t /\ disk' = {fs, t} /\ cur' = n /\ pc' = "write"
      /\ n \in batch /\ n \notin Entries(fs.prepare)
      /\ batch' = batch /\ known' = known /\ gen' = gen /\ base' = base /\ UNCHANGED faults
  BY DEF StageCreate, Call, Exposed, HasPrepare, PowerInv, Synced, TypeOK, journal
<1>2. Prepared(fs) /\ Honest(fs) /\ Entries(fs.prepare) = known
  BY <1>1 DEF PowerInv, TreeAt, Trees
<1>3. /\ t \in Tree /\ t.dirs = fs.dirs /\ t.root = fs.root
      /\ t.prepare = [fs.prepare EXCEPT ![n] = Torn]
  BY <1>1, WriteFileTree DEF Content
<1>4. TypeOK'
  BY <1>1, <1>3 DEF PowerInv, TypeOK, faults
<1>5. fs.prepare \in [Names -> Content] /\ fs.prepare[n] = Absent /\ known \subseteq batch
      /\ batch \subseteq Names
  BY <1>1, TreeFields DEF Entries, PowerInv, TypeOK
<1>6. Adding(fs)' /\ fs'.prepare[n] = Torn
  BY <1>1, <1>2, <1>3, <1>5 DEF Adding, Prepared, Honest, Entries
<1>7. /\ Prepared(fs) /\ Honest(fs)
      /\ \A m \in Names \ known : m # n => fs.prepare[m] = Absent
      /\ fs.prepare[n] \in {Absent, Torn, gen}
  BY <1>2, <1>5 DEF Entries
<1>8. \A s \in Trees' : Adding(s)'
  BY <1>1, <1>6, <1>7 DEF Adding, Prepared, Honest, Trees
<1> QED
  BY <1>1, <1>2, <1>4, <1>6, <1>8 DEF PowerInv, TreeAt, VisibleAt, Synced, Writing

LEMMA StageWritePower ==
    ASSUME PowerInv, StageWrite
    PROVE  PowerInv'
<1>1. /\ pc = "write" /\ fs \in Tree /\ disk \subseteq Tree
      /\ fs' = WriteFile(fs, cur, gen) /\ cur' = cur /\ pc' = "sync_file"
      /\ \A s \in disk' : s \in disk \/ \E u \in Trees : s = WriteFile(u, cur, gen)
      /\ batch' = batch /\ known' = known /\ gen' = gen /\ base' = base /\ UNCHANGED faults
  BY DEF StageWrite, Call, Exposed, Trees, PowerInv, TypeOK, journal
<1>2. /\ \A s \in Trees : Adding(s) /\ s \in Tree
      /\ cur \in batch \ known /\ cur \in Names /\ gen \in Content
      /\ known \subseteq batch /\ batch \subseteq Names
  BY <1>1 DEF PowerInv, TreeAt, VisibleAt, Trees, Writing, TypeOK, Content
<1>3. ASSUME NEW u \in Trees
      PROVE  /\ WriteFile(u, cur, gen) \in Tree /\ Adding(WriteFile(u, cur, gen))
             /\ WriteFile(u, cur, gen).prepare[cur] = gen
  <2> DEFINE t == WriteFile(u, cur, gen)
  <2>1. /\ t \in Tree /\ t.dirs = u.dirs /\ t.root = u.root
        /\ t.prepare = [u.prepare EXCEPT ![cur] = gen]
    BY <1>2, WriteFileTree
  <2>2. u.prepare \in [Names -> Content]
    BY <1>2, TreeFields
  <2> QED
    BY <1>2, <2>1, <2>2 DEF Adding, Prepared, Honest, Entries
<1>4. \A s \in Trees' : s \in Tree /\ Adding(s)
  BY <1>1, <1>2, <1>3 DEF Trees
<1>5. TypeOK'
  BY <1>1, <1>4 DEF PowerInv, TypeOK, faults, Trees
<1>6. \A s \in Trees' : TreeAt(s)'
  BY <1>1, <1>4 DEF TreeAt, Adding, Prepared, Honest, Writing
<1>7. VisibleAt'
  BY <1>1, <1>2, <1>3 DEF VisibleAt, Writing, Trees
<1> QED
  BY <1>1, <1>5, <1>6, <1>7 DEF PowerInv, Synced

LEMMA SyncFilePower ==
    ASSUME PowerInv, SyncFile
    PROVE  PowerInv'
<1>1. /\ fs' = fs /\ disk' = {s \in disk : s.prepare[cur] # Torn} /\ cur' = cur
      /\ batch' = batch /\ known' = known /\ gen' = gen /\ base' = base
      /\ pc = "sync_file" /\ pc' = "sync_stage" /\ UNCHANGED faults
  BY DEF SyncFile, journal
<1>2. TypeOK'
  BY <1>1 DEF PowerInv, TypeOK, faults
<1>3. \A s \in Trees' : Adding(s) /\ s.prepare[cur] # Torn
  BY <1>1 DEF PowerInv, Trees, TreeAt, VisibleAt, Writing, Torn, TypeOK
<1>4. \A s \in Trees' : TreeAt(s)'
  BY <1>1, <1>3 DEF TreeAt, Adding, Prepared, Honest, Writing
<1> QED
  BY <1>1, <1>2, <1>4 DEF PowerInv, VisibleAt, Synced, Writing

LEMMA SyncStagePower ==
    ASSUME PowerInv, SyncStage
    PROVE  PowerInv'
<1>1. /\ fs' = fs /\ disk' = {fs} /\ cur' = cur
      /\ batch' = batch /\ known' = known \cup {cur} /\ gen' = gen /\ base' = base
      /\ pc = "sync_stage" /\ pc' = "stage" /\ UNCHANGED faults
  BY DEF SyncStage, Fsync
<1>2. Adding(fs) /\ cur \in batch /\ fs.prepare[cur] = gen /\ gen \in Nat
      /\ known \subseteq Names /\ cur \in Names
  BY <1>1 DEF PowerInv, TreeAt, VisibleAt, Trees, Writing, TypeOK
<1>3. TypeOK'
  BY <1>1, <1>2 DEF PowerInv, TypeOK, faults
<1>4. Prepared(fs)' /\ Honest(fs)'
  BY <1>1, <1>2 DEF Adding, Prepared, Honest
<1>5. Entries(fs.prepare) = known \cup {cur}
  BY <1>2 DEF Adding, Honest, Entries, Absent
<1> QED
  BY <1>1, <1>3, <1>4, <1>5 DEF PowerInv, TreeAt, VisibleAt, Trees, Writing

LEMMA CrossPower ==
    ASSUME PowerInv, CrossCommitBoundary
    PROVE  PowerInv'
<1> DEFINE t == RenamePrepare(fs)
<1>1. /\ pc = "stage" /\ disk = {fs} /\ fs \in Tree
      /\ fs' = t /\ disk' = {fs, t} /\ cur' = cur /\ pc' = "sync_cross" /\ known = batch
      /\ batch' = batch /\ known' = known /\ gen' = gen /\ base' = base /\ UNCHANGED faults
  BY DEF CrossCommitBoundary, Call, Exposed, HasPrepare, PowerInv, Synced, TypeOK, journal
<1>2. Prepared(fs) /\ Honest(fs) /\ Entries(fs.prepare) = known
  BY <1>1 DEF PowerInv, TreeAt, Trees
<1>3. t \in Tree /\ t.dirs = {"commit"} /\ t.root = base /\ t.commit = fs.prepare
  BY <1>1, <1>2, RenamePrepareTree DEF Prepared
<1>4. TypeOK'
  BY <1>1, <1>3 DEF PowerInv, TypeOK, faults
<1>5. Crossed(t) /\ t.root = base
  BY <1>1, <1>2, <1>3 DEF Crossed, Honest, Entries
<1>6. Crossed(fs)'
  BY <1>1, <1>5 DEF Crossed
<1>7. \A s \in Trees' : TreeAt(s)'
  BY <1>1, <1>2, <1>3, <1>6 DEF TreeAt, Trees, Prepared, Honest, Writing
<1> QED
  BY <1>1, <1>4, <1>6, <1>7 DEF PowerInv, VisibleAt, Synced, Writing

LEMMA UnlinkOldPower ==
    ASSUME PowerInv, NEW n \in Names, UnlinkOld(n)
    PROVE  PowerInv'
<1> DEFINE t == UnlinkRoot(fs, n)
<1>1. /\ pc = "roll" /\ disk = {fs} /\ fs \in Tree /\ fs.commit[n] # Absent
      /\ fs' = t /\ disk' = {fs, t} /\ cur' = n /\ pc' = "promote"
      /\ batch' = batch /\ known' = known /\ gen' = gen /\ base' = base /\ UNCHANGED faults
  BY DEF UnlinkOld, Call, Exposed, Always, PowerInv, Synced, TypeOK, journal, First, Entries
<1>2. Crossed(fs) /\ n \in batch /\ fs.commit[n] = gen /\ fs.root \in [Names -> Content]
      /\ batch \subseteq Names
  BY <1>1, TreeFields DEF PowerInv, TreeAt, Trees, Crossed, TypeOK
<1>3. /\ t \in Tree /\ t.dirs = fs.dirs /\ t.commit = fs.commit
      /\ t.root = [fs.root EXCEPT ![n] = Absent]
  BY <1>1, UnlinkRootTree
<1>4. TypeOK'
  BY <1>1, <1>3 DEF PowerInv, TypeOK, faults
<1>5. Crossed(t) /\ t.commit[n] = gen
  BY <1>2, <1>3 DEF Crossed
<1>6. \A s \in Trees' : Crossed(s) /\ s.commit[n] = gen
  BY <1>1, <1>2, <1>5 DEF Trees
<1>7. \A s \in Trees' : TreeAt(s)'
  BY <1>1, <1>6 DEF TreeAt, Crossed, Writing
<1> QED
  BY <1>1, <1>2, <1>4, <1>7 DEF PowerInv, VisibleAt, Synced, Writing

LEMMA PromotePower ==
    ASSUME PowerInv, Promote
    PROVE  PowerInv'
<1>1. /\ pc = "promote" /\ fs' = RenameComponent(fs, cur) /\ cur' = cur /\ pc' = "sync_commit"
      /\ \A s \in disk' : s \in disk \/ \E u \in Trees : s = RenameComponent(u, cur)
      /\ batch' = batch /\ known' = known /\ gen' = gen /\ base' = base /\ UNCHANGED faults
  BY DEF Promote, Call, Exposed, Trees, journal
<1>2. /\ \A s \in Trees : Crossed(s) /\ s.commit[cur] = gen /\ s \in Tree
      /\ cur \in batch /\ cur \in Names /\ batch \subseteq Names
  BY <1>1 DEF PowerInv, TreeAt, VisibleAt, Trees, TypeOK
<1>3. ASSUME NEW u \in Trees
      PROVE  RenameComponent(u, cur) \in Tree /\ Crossed(RenameComponent(u, cur))
  <2> DEFINE t == RenameComponent(u, cur)
  <2>1. /\ t \in Tree /\ t.dirs = u.dirs
        /\ t.commit = [u.commit EXCEPT ![cur] = Absent]
        /\ t.root = [u.root EXCEPT ![cur] = gen]
    BY <1>2, RenameComponentTree
  <2>2. u.root \in [Names -> Content] /\ u.commit \in [Names -> Content]
    BY <1>2, TreeFields
  <2> QED
    BY <1>2, <2>1, <2>2 DEF Crossed
<1>4. \A s \in Trees' : s \in Tree /\ Crossed(s)
  BY <1>1, <1>2, <1>3 DEF Trees
<1>5. TypeOK'
  BY <1>1, <1>4 DEF PowerInv, TypeOK, faults, Trees
<1>6. \A s \in Trees' : TreeAt(s)'
  BY <1>1, <1>4 DEF TreeAt, Crossed, Writing
<1> QED
  BY <1>1, <1>5, <1>6 DEF PowerInv, VisibleAt, Synced, Writing

LEMMA RemoveCommitPower ==
    ASSUME PowerInv, RemoveCommit
    PROVE  PowerInv'
<1> DEFINE t == RmCommit(fs)
<1>1. /\ pc = "roll" /\ disk = {fs} /\ fs \in Tree /\ Entries(fs.commit) = {}
      /\ fs' = t /\ disk' = {fs, t} /\ cur' = cur /\ pc' = "sync_removed"
      /\ batch' = batch /\ known' = known /\ gen' = gen /\ base' = base /\ UNCHANGED faults
  BY DEF RemoveCommit, Call, Exposed, HasCommit, PowerInv, Synced, TypeOK, journal
<1>2. Crossed(fs) /\ fs.root \in [Names -> Content] /\ batch \subseteq Names /\ gen \in Nat
  BY <1>1, TreeFields DEF PowerInv, TreeAt, Trees, TypeOK
<1>3. t \in Tree /\ t.dirs = {} /\ t.root = fs.root
  BY <1>1, <1>2, RmCommitTree DEF Crossed
<1>4. TypeOK'
  BY <1>1, <1>3 DEF PowerInv, TypeOK, faults
<1>5. fs.root = Post
  <2>1. \A n \in Names : fs.root[n] = Post[n]
    BY <1>1, <1>2 DEF Crossed, Post, Entries, Absent
  <2> QED
    BY <1>2, <2>1 DEF Post
<1>6. Replaced(fs)'
  BY <1>1, <1>3, <1>5 DEF Replaced, Post
<1>7. \A s \in Trees' : TreeAt(s)'
  BY <1>1, <1>2, <1>6 DEF TreeAt, Trees, Crossed, Writing
<1> QED
  BY <1>1, <1>4, <1>6, <1>7 DEF PowerInv, VisibleAt, Synced, Writing

LEMMA DiscardUnlinkPower ==
    ASSUME PowerInv, NEW n \in Names, DiscardUnlink(n)
    PROVE  PowerInv'
<1>1. /\ pc = "discard" /\ fs' = WriteFile(fs, n, Absent) /\ cur' = cur /\ pc' = "discard"
      /\ \A s \in disk' : s \in disk \/ \E u \in Trees : s = WriteFile(u, n, Absent)
      /\ batch' = batch /\ known' = known /\ gen' = gen /\ base' = base /\ UNCHANGED faults
  BY DEF DiscardUnlink, Call, Exposed, Trees, journal
<1>2. \A s \in Trees : Prepared(s) /\ DiscardValid(s) /\ s \in Tree
  BY <1>1 DEF PowerInv, TreeAt, Trees, TypeOK
<1>3. ASSUME NEW u \in Trees
      PROVE  /\ WriteFile(u, n, Absent) \in Tree
             /\ Prepared(WriteFile(u, n, Absent)) /\ DiscardValid(WriteFile(u, n, Absent))
  <2> DEFINE t == WriteFile(u, n, Absent)
  <2>1. /\ t \in Tree /\ t.dirs = u.dirs /\ t.root = u.root
        /\ t.prepare = [u.prepare EXCEPT ![n] = Absent]
    BY <1>2, WriteFileTree DEF Content
  <2>2. u.prepare \in [Names -> Content]
    BY <1>2, TreeFields
  <2> QED
    BY <1>2, <2>1, <2>2 DEF Prepared, DiscardValid, Entries
<1>4. \A s \in Trees' : s \in Tree /\ Prepared(s) /\ DiscardValid(s)
  BY <1>1, <1>2, <1>3 DEF Trees
<1>5. TypeOK'
  BY <1>1, <1>4 DEF PowerInv, TypeOK, faults, Trees
<1>6. \A s \in Trees' : TreeAt(s)'
  BY <1>1, <1>4 DEF TreeAt, Prepared, DiscardValid, Writing
<1> QED
  BY <1>1, <1>5, <1>6 DEF PowerInv, VisibleAt, Synced, Writing

LEMMA RemovePreparePower ==
    ASSUME PowerInv, RemovePrepare
    PROVE  PowerInv'
<1> DEFINE t == RmPrepare(fs)
<1>1. /\ pc = "remove_prepare" /\ disk = {fs} /\ fs \in Tree
      /\ fs' = t /\ disk' = {fs, t} /\ cur' = cur /\ pc' = "sync_discarded"
      /\ batch' = batch /\ known' = known /\ gen' = gen /\ base' = base /\ UNCHANGED faults
  BY DEF RemovePrepare, Call, Exposed, PowerInv, Synced, TypeOK, journal
<1>2. Emptied(fs) /\ fs.dirs = {"prepare"}
  BY <1>1 DEF PowerInv, TreeAt, VisibleAt, Trees
<1>3. t \in Tree /\ t.dirs = {} /\ t.root = base
  BY <1>1, <1>2, RmPrepareTree DEF Emptied
<1>4. TypeOK'
  BY <1>1, <1>3 DEF PowerInv, TypeOK, faults
<1>5. \A s \in Trees' : Emptied(s)
  BY <1>1, <1>2, <1>3 DEF Trees, Emptied
<1>6. \A s \in Trees' : TreeAt(s)'
  BY <1>1, <1>5 DEF TreeAt, Emptied, Writing
<1> QED
  BY <1>1, <1>3, <1>4, <1>6 DEF PowerInv, VisibleAt, Unchanged, Synced, Writing

LEMMA StutterPower == ASSUME PowerInv, UNCHANGED vars PROVE PowerInv'
<1>1. /\ fs' = fs /\ disk' = disk /\ pc' = pc /\ cur' = cur /\ batch' = batch /\ known' = known
      /\ gen' = gen /\ base' = base /\ crashes' = crashes /\ losses' = losses
  BY DEF vars
<1>2. TypeOK' /\ VisibleAt'
  BY <1>1 DEF PowerInv, TypeOK, VisibleAt, Crossed, Replaced, Unchanged, Post, Writing
<1>3. ASSUME NEW s \in Trees PROVE TreeAt(s)'
  BY <1>1 DEF PowerInv, TreeAt, Unchanged, Replaced, Crossed, Prepared, Emptied, Adding, Honest,
         DiscardValid, Post, Writing
<1> QED
  BY <1>1, <1>2, <1>3 DEF PowerInv, Trees

LEMMA NextPowerInv ==
    ASSUME MaxCrash = 0, PowerInv, [Next]_vars
    PROVE  PowerInv'
<1>1. CASE Stage
  BY <1>1, BeginStagePower, FsyncPower, StageCreatePower, StageWritePower, SyncFilePower,
     SyncStagePower, CrossPower DEF Stage
<1>2. CASE Forward
  BY <1>2, FsyncPower, QuietPower, UnlinkOldPower, PromotePower, RemoveCommitPower DEF Forward
<1>3. CASE Recovery
  BY <1>3, FsyncPower, QuietPower, DiscardUnlinkPower, RemovePreparePower DEF Recovery
<1>4. CASE ProcessStops
  BY <1>4 DEF ProcessStops, PowerInv, TypeOK
<1>5. CASE PowerLoss
  BY <1>5, PowerLossPower
<1>6. CASE UNCHANGED vars
  BY <1>6, StutterPower
<1> QED
  BY <1>1, <1>2, <1>3, <1>4, <1>5, <1>6 DEF Next

-----------------------------------------------------------------------------
(* What the trees say of the properties. *)

LEMMA Views ==
    ASSUME PowerInv, NEW s \in Trees
    PROVE  /\ Crossed(s) => View(s) = Post /\ CommitValid(s)
           /\ ~HasCommit(s) => View(s) = s.root
<1>1. s \in Tree /\ known \subseteq batch /\ batch \subseteq Names
  BY DEF PowerInv, TypeOK, Trees
<1>2. ASSUME Crossed(s) PROVE View(s) = Post /\ CommitValid(s)
  BY <1>1, <1>2 DEF Crossed, View, Post, HasCommit, CommitValid, Entries, Absent, PowerInv, TypeOK
<1>3. ASSUME ~HasCommit(s) PROVE View(s) = s.root
  BY <1>1, <1>3 DEF View, Tree
<1> QED
  BY <1>2, <1>3

LEMMA PowerSafe ==
    ASSUME PowerInv
    PROVE  BatchAtomic /\ CommitRecoverable /\ OnlyTornIsRefused
<1>1. BatchAtomic
  BY Views, PowerShapes
     DEF BatchAtomic, Trees, Unchanged, Prepared, Crossed, Replaced, HasCommit
<1>2. CommitRecoverable
  BY Views, PowerShapes
     DEF CommitRecoverable, Trees, Unchanged, Prepared, Crossed, Replaced, HasCommit
<1>3. OnlyTornIsRefused
  <2> SUFFICES ASSUME NEW s \in Trees, HasPrepare(s),
                      ~ \E n \in batch \ known : s.prepare[n] = Torn
               PROVE  DiscardValid(s)
    BY DEF OnlyTornIsRefused, Trees
  <2>1. Prepared(s) /\ \A n \in known : s.prepare[n] \in {Absent, gen}
    BY PowerShapes DEF HasPrepare, Unchanged, Crossed, Replaced
  <2>2. gen # Torn /\ Absent # Torn
    BY DEF PowerInv, TypeOK, Torn, Absent
  <2> QED
    BY <2>1, <2>2 DEF DiscardValid, Prepared, Entries
<1> QED
  BY <1>1, <1>2, <1>3

LEMMA PowerDurable ==
    ASSUME PowerInv
    PROVE  ReadIsDurable
<1>1. \A s \in disk : s \in Trees /\ TreeAt(s)
  BY DEF PowerInv, Trees
<1>2. fs \in Trees /\ TreeAt(fs)
  BY DEF PowerInv, Trees
<1> SUFFICES ASSUME fs.dirs = {}, NEW s \in disk PROVE View(s) = fs.root
  BY DEF ReadIsDurable
<1>3. CASE pc \in Synced
  BY <1>2, <1>3, Views DEF PowerInv, HasCommit
<1>4. CASE pc \in {"sync_begin", "write", "sync_file", "sync_stage", "sync_cross", "promote",
                   "sync_commit", "discard"}
  BY <1>2, <1>4 DEF PowerInv, VisibleAt, TreeAt, Writing, Adding, Prepared, Crossed
<1>5. CASE pc = "sync_removed"
  <2>1. fs.root = Post /\ (Replaced(s) \/ Crossed(s))
    BY <1>1, <1>5 DEF PowerInv, VisibleAt, TreeAt, Replaced
  <2> QED
    BY <1>1, <2>1, Views DEF Replaced, HasCommit
<1>6. CASE pc = "sync_discarded"
  <2>1. fs.root = base /\ Emptied(s)
    BY <1>1, <1>6 DEF PowerInv, VisibleAt, TreeAt, Unchanged
  <2> QED
    BY <1>1, <2>1, Views DEF Emptied, HasCommit
<1> QED
  BY <1>3, <1>4, <1>5, <1>6 DEF PowerInv, TypeOK, Synced

-----------------------------------------------------------------------------
LEMMA PowerInvariant ==
    ASSUME MaxCrash = 0
    PROVE  Spec => []PowerInv
<1>1. PowerInv /\ [Next]_vars => PowerInv'
  BY NextPowerInv
<1> QED
  BY <1>1, InitPowerInv, PTL DEF Spec

(* The fsyncs of cross_commit_boundary and _roll_forward keep every batch   *)
(* atomic on a file system that reorders unsynced calls.                    *)
THEOREM PowerBatchAtomic ==
    ASSUME MaxCrash = 0
    PROVE  Spec => []BatchAtomic
<1>1. PowerInv => BatchAtomic
  BY PowerSafe
<1> QED
  BY <1>1, PowerInvariant, PTL

(* A commit/ that a power loss leaves passes _validate_commit. *)
THEOREM PowerCommitRecoverable ==
    ASSUME MaxCrash = 0
    PROVE  Spec => []CommitRecoverable
<1>1. PowerInv => CommitRecoverable
  BY PowerSafe
<1> QED
  BY <1>1, PowerInvariant, PTL

(* discard_prepare refuses only a file that stage_component had not reported *)
(* as durable.                                                               *)
THEOREM PowerOnlyTornIsRefused ==
    ASSUME MaxCrash = 0
    PROVE  Spec => []OnlyTornIsRefused
<1>1. PowerInv => OnlyTornIsRefused
  BY PowerSafe
<1> QED
  BY <1>1, PowerInvariant, PTL

(* What read_committed_components accepts survives every power loss. *)
THEOREM PowerReadIsDurable ==
    ASSUME MaxCrash = 0
    PROVE  Spec => []ReadIsDurable
<1>1. PowerInv => ReadIsDurable
  BY PowerDurable
<1> QED
  BY <1>1, PowerInvariant, PTL
=============================================================================
