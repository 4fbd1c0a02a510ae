------------------------ MODULE CatacombStoreProofs ------------------------
(***************************************************************************)
(* The Catacomb store keeps every batch atomic, for every set of component *)
(* names, every number of transactions, process stops and power losses, on *)
(* a file system that keeps unsynced calls in order.                       *)
(*                                                                         *)
(* BatchAtomic alone is not inductive: it says nothing of which tree goes  *)
(* with which step of the process.  StoreInv adds the shape of every tree  *)
(* a power loss may leave and ties the visible tree to pc.                 *)
(***************************************************************************)
EXTENDS CatacombStore, TLAPS

(* The four shapes a tree can have, by how far the transaction has come. *)
Unchanged(s) == s.dirs = {} /\ s.root = base
Prepared(s) ==
    /\ s.dirs = {"prepare"}
    /\ s.root = base
    /\ Entries(s.prepare) \subseteq batch
Crossed(s) ==
    /\ s.dirs = {"commit"}
    /\ known = batch
    /\ \A n \in batch : \/ s.commit[n] = gen
                        \/ s.commit[n] = Absent /\ s.root[n] = gen
    /\ \A n \in Names \ batch : s.commit[n] = Absent /\ s.root[n] = base[n]
Replaced(s) == s.dirs = {} /\ s.root = Post

(* No batch component is on its way: at most an empty prepare/ is left. *)
Emptied(s) ==
    /\ s.root = base
    /\ \/ s.dirs = {}
       \/ s.dirs = {"prepare"} /\ Entries(s.prepare) = {}

Shapes ==
    \A s \in disk \cup {fs} :
        /\ Unchanged(s) \/ Prepared(s) \/ Crossed(s) \/ Replaced(s)
        /\ s.dirs # {} => batch # {}

NewGeneration == \A n \in batch : base[n] < gen

NothingLeft == Unchanged(fs) => \A s \in disk : Emptied(s)

Position ==
    /\ pc \in {"sync_begin", "stage", "write", "sync_file", "sync_stage", "discard"}
          => Prepared(fs)
    /\ pc \in {"write", "sync_file", "sync_stage", "promote"} => cur \in batch
    /\ pc \in {"sync_cross", "validate_commit", "roll", "promote", "sync_commit",
               "sync_root"}
          => Crossed(fs)
    /\ pc = "promote" => fs.commit[cur] = gen
    /\ pc \in {"sync_removed", "await_reboot"} => Replaced(fs)
    /\ pc = "remove_prepare"
          => fs.dirs = {"prepare"} /\ Emptied(fs) /\ disk = {fs}
    /\ pc = "sync_discarded" => Unchanged(fs)
    /\ pc = "idle" => Unchanged(fs) \/ (Replaced(fs) /\ disk = {fs})

StoreInv ==
    /\ TypeOK
    /\ Shapes
    /\ NewGeneration
    /\ NothingLeft
    /\ Position

-----------------------------------------------------------------------------
(* The initial state and each step.                                         *)

LEMMA InitStoreInv == Init => StoreInv
BY NamesAssumption, BoundsAssumption
   DEF Init, StoreInv, TypeOK, Shapes, NewGeneration, NothingLeft, Position, Tree,
       Content, Absent, Torn, NoFiles, Entries, Unchanged, Prepared, Crossed, Replaced,
       Emptied, Post

LEMMA BeginStageStep ==
    ASSUME ~Reorder, StoreInv, NEW names \in SUBSET Names, BeginStage(names)
    PROVE  StoreInv'
<1> DEFINE t == [fs EXCEPT !.dirs = fs.dirs \cup {"prepare"}, !.prepare = NoFiles]
<1>1. /\ fs' = t
      /\ disk' = disk \cup {t}
      /\ base' = fs.root /\ batch' = names /\ known' = {} /\ gen' = gen + 1
      /\ pc' = "sync_begin" /\ cur' = cur /\ UNCHANGED faults
  BY DEF BeginStage, Call, Exposed, MkPrepare
<1>2. fs \in Tree /\ t \in Tree /\ t.dirs = {"prepare"} /\ t.root = fs.root
      /\ Entries(t.prepare) = {}
  BY DEF BeginStage, StoreInv, TypeOK, Tree, NoFiles, Content, Entries, Absent
<1>3. fs.root \in [Names -> 0..gen]
  BY DEF BeginStage, StoreInv, TypeOK, Position, Unchanged, Replaced, Post
<1>4. TypeOK'
  BY <1>1, <1>2, <1>3, BoundsAssumption DEF BeginStage, StoreInv, TypeOK, faults
<1>5. \A s \in disk : s.root = fs.root /\ (s.dirs = {} \/ (s.dirs = {"prepare"} /\ Entries(s.prepare) = {}))
  BY DEF BeginStage, StoreInv, Position, NothingLeft, Emptied, Unchanged, Replaced
<1>6. Shapes'
  BY <1>1, <1>2, <1>5 DEF BeginStage, Shapes, Unchanged, Prepared
<1>7. NewGeneration'
  BY <1>1, <1>3 DEF NewGeneration, StoreInv, TypeOK
<1>8. NothingLeft' /\ Position'
  BY <1>1, <1>2 DEF NothingLeft, Position, Unchanged, Prepared
<1> QED BY <1>4, <1>6, <1>7, <1>8 DEF StoreInv

LEMMA FsyncFrame ==
    ASSUME StoreInv, Fsync, UNCHANGED <<cur, journal, faults>>
    PROVE  fs' = fs /\ disk' = {fs} /\ Shapes' /\ NewGeneration' /\ NothingLeft'
<1>1. fs' = fs /\ disk' = {fs} /\ batch' = batch /\ known' = known /\ gen' = gen /\ base' = base
  BY DEF Fsync, journal
<1>2. Shapes'
  BY <1>1 DEF StoreInv, Shapes, Unchanged, Prepared, Crossed, Replaced, Post
<1>3. NewGeneration' /\ NothingLeft'
  BY <1>1 DEF StoreInv, NewGeneration, NothingLeft, Unchanged, Emptied
<1> QED BY <1>1, <1>2, <1>3

LEMMA FsyncStep ==
    ASSUME StoreInv,
           SyncBegin \/ SyncCross \/ SyncCommit \/ SyncRoot \/ SyncRemoved
             \/ SyncDiscard \/ SyncDiscarded \/ Reboot
    PROVE  StoreInv'
<1>1. Fsync /\ UNCHANGED <<cur, journal, faults>>
  BY DEF SyncBegin, SyncCross, SyncCommit, SyncRoot, SyncRemoved, SyncDiscard,
         SyncDiscarded, Reboot
<1>2. fs' = fs /\ disk' = {fs} /\ Shapes' /\ NewGeneration' /\ NothingLeft'
  BY <1>1, FsyncFrame
<1>3. TypeOK'
  BY <1>1, <1>2 DEF StoreInv, TypeOK, journal, faults, SyncBegin, SyncCross, SyncCommit,
         SyncRoot, SyncRemoved, SyncDiscard, SyncDiscarded, Reboot
<1>4. Position'
  BY <1>1, <1>2 DEF StoreInv, Position, journal, Prepared, Crossed, Replaced, Unchanged,
         Emptied, Post, SyncBegin, SyncCross, SyncCommit, SyncRoot, SyncRemoved,
         SyncDiscard, SyncDiscarded, Reboot
<1> QED BY <1>2, <1>3, <1>4 DEF StoreInv

(* Steps that touch neither the store nor the journal. *)
LEMMA QuietStep ==
    ASSUME StoreInv, UNCHANGED <<store, journal>>,
           \/ ValidateCommit \/ RecoverPrepare \/ RecoverCommit \/ RecoverClean
           \/ ProcessStops \/ (\E n \in Names : SkipUnlink(n))
    PROVE  StoreInv'
<1>1. /\ fs' = fs /\ disk' = disk
      /\ batch' = batch /\ known' = known /\ gen' = gen /\ base' = base
  BY DEF store, journal
<1>2. Shapes' /\ NewGeneration' /\ NothingLeft'
  BY <1>1 DEF StoreInv, Shapes, NewGeneration, NothingLeft, Unchanged, Prepared, Crossed,
         Replaced, Post, Emptied
<1>3. TypeOK'
  BY <1>1, BoundsAssumption
  DEF StoreInv, TypeOK, faults, ValidateCommit, RecoverPrepare, RecoverCommit,
      RecoverClean, ProcessStops, SkipUnlink
<1>4. Position'
  <2>1. CASE ProcessStops
    BY <2>1 DEF ProcessStops, Position
  <2>2. CASE \E n \in Names : SkipUnlink(n)
    <3>1. PICK n \in Names : SkipUnlink(n)
      BY <2>2
    <3>2. Crossed(fs) /\ fs.commit[n] # Absent
      BY <3>1 DEF SkipUnlink, First, Entries, StoreInv, Position
    <3>3. n \in batch /\ fs.commit[n] = gen
      BY <3>2 DEF Crossed
    <3> QED BY <1>1, <3>1, <3>2, <3>3 DEF SkipUnlink, Position, Crossed
  <2>3. CASE ValidateCommit
    BY <1>1, <2>3 DEF ValidateCommit, StoreInv, Position, Crossed
  <2>4. CASE RecoverPrepare
    BY <1>1, <2>4 DEF RecoverPrepare, StoreInv, Shapes, Position, Unchanged, Prepared, Crossed, Replaced
  <2>5. CASE RecoverCommit
    BY <1>1, <2>5 DEF RecoverCommit, StoreInv, Shapes, Position, Unchanged, Prepared, Crossed, Replaced
  <2>6. CASE RecoverClean
    <3>1. fs.dirs = {} /\ (fs.root = base \/ Replaced(fs))
      BY <2>6 DEF RecoverClean, StoreInv, Shapes, Unchanged, Prepared, Crossed, Replaced
    <3> QED BY <1>1, <2>6, <3>1 DEF RecoverClean, Position, Unchanged, Replaced, Post
  <2> QED BY <2>1, <2>2, <2>3, <2>4, <2>5, <2>6
<1> QED BY <1>2, <1>3, <1>4 DEF StoreInv

(* A call that leaves the journal alone and whose result has a legal shape. *)
LEMMA CallFrame ==
    ASSUME StoreInv, UNCHANGED <<journal, faults>>,
           disk' = disk \cup {fs'}, fs' \in Tree,
           Prepared(fs)', batch # {}, Prepared(fs)
    PROVE  Shapes' /\ NewGeneration' /\ NothingLeft'
<1>1. batch' = batch /\ known' = known /\ gen' = gen /\ base' = base
  BY DEF journal
<1>2. Shapes'
  BY <1>1 DEF StoreInv, Shapes, Unchanged, Prepared, Crossed, Replaced, Post
<1>3. NewGeneration' /\ NothingLeft'
  BY <1>1 DEF StoreInv, NewGeneration, NothingLeft, Prepared, Unchanged
<1> QED BY <1>2, <1>3

LEMMA WriteStep ==
    ASSUME ~Reorder, StoreInv,
           NEW n \in Names, NEW c \in Content,
           fs' = WriteFile(fs, n, c),
           disk' = disk \cup {fs'},
           UNCHANGED <<journal, faults>>,
           Prepared(fs), n \in batch \/ c = Absent
    PROVE  fs' \in Tree /\ Prepared(fs)' /\ Shapes' /\ NewGeneration' /\ NothingLeft'
<1>1. batch' = batch /\ base' = base
  BY DEF journal
<1>2. fs \in Tree /\ batch # {}
  BY DEF StoreInv, TypeOK, Shapes, Prepared
<1>3. /\ fs' \in Tree /\ fs'.dirs = fs.dirs /\ fs'.root = fs.root
      /\ fs'.prepare = [fs.prepare EXCEPT ![n] = c]
  BY <1>2 DEF WriteFile, Tree
<1>4. Prepared(fs)'
  BY <1>1, <1>2, <1>3 DEF Prepared, Entries, Tree
<1> QED BY <1>2, <1>3, <1>4, CallFrame

LEMMA StageStep ==
    ASSUME ~Reorder, StoreInv,
           \/ \E n \in Names : StageCreate(n)
           \/ StageWrite \/ SyncFile \/ SyncStage
           \/ \E n \in Names : DiscardUnlink(n)
    PROVE  StoreInv'
<1>1. ASSUME NEW n \in Names, StageCreate(n) PROVE StoreInv'
  <2>1. /\ fs' = WriteFile(fs, n, Torn) /\ disk' = disk \cup {fs'}
        /\ UNCHANGED <<journal, faults>> /\ Prepared(fs) /\ n \in batch
        /\ pc' = "write" /\ cur' = n /\ Torn \in Content
    BY <1>1 DEF StageCreate, Call, Exposed, StoreInv, Position, Content
  <2>2. fs' \in Tree /\ Prepared(fs)' /\ Shapes' /\ NewGeneration' /\ NothingLeft'
    BY <2>1, WriteStep
  <2>3. TypeOK'
    BY <2>1, <2>2 DEF StoreInv, TypeOK, journal, faults
  <2>4. Position'
    BY <2>1, <2>2 DEF Position, journal
  <2> QED BY <2>2, <2>3, <2>4 DEF StoreInv
<1>2. ASSUME StageWrite PROVE StoreInv'
  <2>1. /\ fs' = WriteFile(fs, cur, gen) /\ disk' = disk \cup {fs'}
        /\ UNCHANGED <<journal, faults>> /\ Prepared(fs) /\ cur \in batch
        /\ pc' = "sync_file" /\ cur' = cur /\ gen \in Content /\ cur \in Names
    BY <1>2 DEF StageWrite, Call, Exposed, StoreInv, TypeOK, Position, Content
  <2>2. fs' \in Tree /\ Prepared(fs)' /\ Shapes' /\ NewGeneration' /\ NothingLeft'
    BY <2>1, WriteStep
  <2>3. TypeOK'
    BY <2>1, <2>2 DEF StoreInv, TypeOK, journal, faults
  <2>4. Position'
    BY <2>1, <2>2 DEF Position, journal
  <2> QED BY <2>2, <2>3, <2>4 DEF StoreInv
<1>3. ASSUME SyncFile PROVE StoreInv'
  <2>1. /\ fs' = fs /\ disk' \subseteq disk /\ cur' = cur
        /\ batch' = batch /\ known' = known /\ gen' = gen /\ base' = base
        /\ pc = "sync_file" /\ pc' = "sync_stage"
    BY <1>3 DEF SyncFile, journal
  <2>2. Shapes' /\ NewGeneration' /\ NothingLeft'
    BY <2>1 DEF StoreInv, Shapes, NewGeneration, NothingLeft, Unchanged, Prepared, Crossed,
           Replaced, Post, Emptied
  <2>3. TypeOK'
    BY <1>3, <2>1 DEF SyncFile, StoreInv, TypeOK, faults
  <2>4. Position'
    BY <2>1 DEF StoreInv, Position, Prepared
  <2> QED BY <2>2, <2>3, <2>4 DEF StoreInv
<1>4. ASSUME SyncStage PROVE StoreInv'
  <2>1. /\ fs' = fs /\ disk' = {fs} /\ cur' = cur /\ cur \in batch
        /\ batch' = batch /\ known' = known \cup {cur} /\ gen' = gen /\ base' = base
        /\ pc = "sync_stage" /\ pc' = "stage" /\ Prepared(fs)
    BY <1>4 DEF SyncStage, Fsync, StoreInv, Position
  <2>2. Shapes' /\ NewGeneration' /\ NothingLeft'
    BY <2>1 DEF StoreInv, Shapes, NewGeneration, NothingLeft, Unchanged, Prepared
  <2>3. TypeOK'
    BY <1>4, <2>1 DEF SyncStage, StoreInv, TypeOK, faults
  <2>4. Position'
    BY <2>1 DEF Position, Prepared
  <2> QED BY <2>2, <2>3, <2>4 DEF StoreInv
<1>5. ASSUME NEW n \in Names, DiscardUnlink(n) PROVE StoreInv'
  <2>1. /\ fs' = WriteFile(fs, n, Absent) /\ disk' = disk \cup {fs'}
        /\ UNCHANGED <<journal, faults>> /\ Prepared(fs)
        /\ pc = "discard" /\ pc' = "discard" /\ cur' = cur /\ Absent \in Content
    BY <1>5 DEF DiscardUnlink, Call, Exposed, StoreInv, Position, Content
  <2>2. fs' \in Tree /\ Prepared(fs)' /\ Shapes' /\ NewGeneration' /\ NothingLeft'
    BY <2>1, WriteStep
  <2>3. TypeOK'
    BY <2>1, <2>2 DEF StoreInv, TypeOK, journal, faults
  <2>4. Position'
    BY <2>1, <2>2 DEF Position, journal
  <2> QED BY <2>2, <2>3, <2>4 DEF StoreInv
<1> QED BY <1>1, <1>2, <1>3, <1>4, <1>5

LEMMA CrossStep ==
    ASSUME ~Reorder, StoreInv, CrossCommitBoundary
    PROVE  StoreInv'
<1>1. /\ fs' = RenamePrepare(fs) /\ disk' = disk \cup {fs'} /\ cur' = cur
      /\ batch' = batch /\ known' = known /\ gen' = gen /\ base' = base
      /\ pc' = "sync_cross" /\ known = batch /\ UNCHANGED faults
  BY DEF CrossCommitBoundary, Call, Exposed, journal
<1>2. Prepared(fs) /\ fs \in Tree /\ batch \subseteq Names
  BY DEF CrossCommitBoundary, StoreInv, TypeOK, Position
<1>3. /\ fs' \in Tree /\ fs'.dirs = {"commit"} /\ fs'.root = base /\ fs'.commit = fs.prepare
  BY <1>1, <1>2 DEF RenamePrepare, Prepared, Tree, NoFiles, Content
<1>4. /\ \A n \in batch : fs.prepare[n] = gen
      /\ \A n \in Names \ batch : fs.prepare[n] = Absent
  BY <1>1 DEF CrossCommitBoundary, PrepareValid, Entries
<1>5. Crossed(fs)' /\ batch # {}
  BY <1>1, <1>2, <1>3, <1>4 DEF Crossed, StoreInv, Shapes, Prepared
<1>6. Shapes'
  BY <1>1, <1>5 DEF StoreInv, Shapes, Unchanged, Prepared, Crossed, Replaced, Post
<1>7. TypeOK'
  BY <1>1, <1>3 DEF StoreInv, TypeOK, faults
<1>8. NewGeneration' /\ NothingLeft' /\ Position'
  BY <1>1, <1>3, <1>5 DEF StoreInv, NewGeneration, NothingLeft, Unchanged, Position
<1> QED BY <1>6, <1>7, <1>8 DEF StoreInv

LEMMA RollStep ==
    ASSUME ~Reorder, StoreInv, (\E n \in Names : UnlinkOld(n)) \/ Promote
    PROVE  StoreInv'
<1>2. ASSUME NEW n \in Names, UnlinkOld(n) PROVE StoreInv'
  <2>1. /\ fs' = UnlinkRoot(fs, n) /\ disk' = disk \cup {fs'} /\ cur' = n
        /\ batch' = batch /\ known' = known /\ gen' = gen /\ base' = base
        /\ pc' = "promote" /\ UNCHANGED faults /\ fs.commit[n] # Absent
    BY <1>2 DEF UnlinkOld, Call, Exposed, journal, First, Entries
  <2>2. fs \in Tree /\ Crossed(fs)
    BY <1>2 DEF UnlinkOld, StoreInv, TypeOK, Position
  <2>3. n \in batch /\ fs.commit[n] = gen
    BY <2>1, <2>2 DEF Crossed
  <2>4. /\ fs' \in Tree /\ fs'.dirs = fs.dirs /\ fs'.commit = fs.commit
        /\ fs'.root = [fs.root EXCEPT ![n] = Absent]
    BY <2>1, <2>2 DEF UnlinkRoot, Tree, Content
  <2>5. Crossed(fs)' /\ batch # {}
    BY <2>1, <2>2, <2>3, <2>4 DEF Crossed, Tree
  <2>6. Shapes'
    BY <2>1, <2>5 DEF StoreInv, Shapes, Unchanged, Prepared, Crossed, Replaced, Post
  <2>7. TypeOK'
    BY <2>1, <2>4 DEF StoreInv, TypeOK, faults
  <2>8. NewGeneration' /\ NothingLeft' /\ Position'
    BY <2>1, <2>2, <2>3, <2>4, <2>5 DEF StoreInv, NewGeneration, NothingLeft, Unchanged, Position, Crossed
  <2> QED BY <2>6, <2>7, <2>8 DEF StoreInv
<1>3. ASSUME Promote PROVE StoreInv'
  <2>1. /\ fs' = RenameComponent(fs, cur) /\ disk' = disk \cup {fs'} /\ cur' = cur
        /\ batch' = batch /\ known' = known /\ gen' = gen /\ base' = base
        /\ pc = "promote" /\ pc' = "sync_commit" /\ UNCHANGED faults
    BY <1>3 DEF Promote, Call, Exposed, journal
  <2>2. fs \in Tree /\ Crossed(fs) /\ cur \in batch /\ cur \in Names /\ fs.commit[cur] = gen
    BY <2>1 DEF StoreInv, TypeOK, Position
  <2>3. /\ fs' \in Tree /\ fs'.dirs = fs.dirs
        /\ fs'.commit = [fs.commit EXCEPT ![cur] = Absent]
        /\ fs'.root = [fs.root EXCEPT ![cur] = gen]
    BY <2>1, <2>2 DEF RenameComponent, Tree, Content
  <2>4. Crossed(fs)' /\ batch # {}
    BY <2>1, <2>2, <2>3 DEF Crossed, Tree
  <2>5. Shapes'
    BY <2>1, <2>4 DEF StoreInv, Shapes, Unchanged, Prepared, Crossed, Replaced, Post
  <2>6. TypeOK'
    BY <2>1, <2>3 DEF StoreInv, TypeOK, faults
  <2>7. NewGeneration' /\ NothingLeft' /\ Position'
    BY <2>1, <2>2, <2>3, <2>4 DEF StoreInv, NewGeneration, NothingLeft, Unchanged, Position, Crossed
  <2> QED BY <2>5, <2>6, <2>7 DEF StoreInv
<1> QED BY <1>2, <1>3

LEMMA RemoveStep ==
    ASSUME ~Reorder, StoreInv, RemoveCommit \/ RemovePrepare
    PROVE  StoreInv'
<1>1. ASSUME RemoveCommit PROVE StoreInv'
  <2>1. /\ fs' = RmCommit(fs) /\ disk' = disk \cup {fs'} /\ cur' = cur
        /\ batch' = batch /\ known' = known /\ gen' = gen /\ base' = base
        /\ pc = "roll" /\ pc' = "sync_removed" /\ UNCHANGED faults
        /\ \A n \in Names : fs.commit[n] = Absent
    BY <1>1 DEF RemoveCommit, Call, Exposed, journal, Entries
  <2>2. /\ fs \in Tree /\ Crossed(fs) /\ batch # {} /\ batch \subseteq Names
        /\ gen \in Nat /\ base \in [Names -> Int]
    BY <2>1 DEF StoreInv, TypeOK, Position, Shapes, Crossed
  <2>3. fs' \in Tree /\ fs'.dirs = {} /\ fs'.root = fs.root
    BY <2>1, <2>2 DEF RmCommit, Tree, Crossed
  <2>4. fs.root = Post
    <3>1. \A n \in Names : fs.root[n] = Post[n]
      BY <2>1, <2>2 DEF Crossed, Post, Absent
    <3>2. fs.root \in [Names -> Content]
      BY <2>2 DEF Tree
    <3> QED BY <3>1, <3>2 DEF Post
  <2>5. fs.root # base
    <3>1. PICK n \in batch : TRUE
      BY <2>2
    <3>2. Post[n] = gen /\ base[n] < gen
      BY <2>2, <3>1 DEF Post, StoreInv, NewGeneration
    <3> QED BY <2>2, <2>4, <3>1, <3>2
  <2>6. Replaced(fs)'
    BY <2>1, <2>3, <2>4 DEF Replaced, Post
  <2>7. Shapes'
    BY <2>1, <2>2, <2>6 DEF StoreInv, Shapes, Unchanged, Prepared, Crossed, Replaced, Post
  <2>8. TypeOK'
    BY <2>1, <2>3 DEF StoreInv, TypeOK, faults
  <2>9. NewGeneration' /\ NothingLeft' /\ Position'
    BY <2>1, <2>3, <2>5, <2>6 DEF StoreInv, NewGeneration, NothingLeft, Unchanged, Position
  <2> QED BY <2>7, <2>8, <2>9 DEF StoreInv
<1>2. ASSUME RemovePrepare PROVE StoreInv'
  <2>1. /\ fs' = RmPrepare(fs) /\ disk' = disk \cup {fs'} /\ cur' = cur
        /\ batch' = batch /\ known' = known /\ gen' = gen /\ base' = base
        /\ pc = "remove_prepare" /\ pc' = "sync_discarded" /\ UNCHANGED faults
    BY <1>2 DEF RemovePrepare, Call, Exposed, journal
  <2>2. /\ fs \in Tree /\ fs.dirs = {"prepare"} /\ Emptied(fs) /\ disk = {fs}
    BY <2>1 DEF StoreInv, TypeOK, Position
  <2>3. fs' \in Tree /\ fs'.dirs = {} /\ fs'.root = base
    BY <2>1, <2>2 DEF RmPrepare, Tree, Emptied
  <2>4. Unchanged(fs)' /\ Emptied(fs)'
    BY <2>1, <2>3 DEF Unchanged, Emptied
  <2>5. Shapes'
    BY <2>1, <2>2, <2>4 DEF StoreInv, Shapes, Unchanged, Prepared, Crossed, Replaced, Post
  <2>6. TypeOK'
    BY <2>1, <2>3 DEF StoreInv, TypeOK, faults
  <2>7. NewGeneration' /\ NothingLeft' /\ Position'
    BY <2>1, <2>2, <2>4 DEF StoreInv, NewGeneration, NothingLeft, Unchanged, Emptied, Position
  <2> QED BY <2>5, <2>6, <2>7 DEF StoreInv
<1> QED BY <1>1, <1>2

LEMMA PowerLossStep ==
    ASSUME StoreInv, PowerLoss
    PROVE  StoreInv'
<1>1. /\ fs' \in disk /\ disk' = {fs'} /\ cur' = cur /\ pc' = "down"
      /\ batch' = batch /\ known' = known /\ gen' = gen /\ base' = base
      /\ crashes' = crashes /\ losses' = losses + 1 /\ losses < MaxPowerLoss
  BY DEF PowerLoss, journal
<1>2. TypeOK'
  BY <1>1, BoundsAssumption DEF StoreInv, TypeOK
<1>3. Shapes'
  BY <1>1 DEF StoreInv, Shapes, Unchanged, Prepared, Crossed, Replaced, Post
<1>4. NewGeneration' /\ NothingLeft' /\ Position'
  BY <1>1 DEF StoreInv, NewGeneration, NothingLeft, Unchanged, Emptied, Position
<1> QED BY <1>2, <1>3, <1>4 DEF StoreInv

-----------------------------------------------------------------------------
LEMMA StutterStep == ASSUME StoreInv, UNCHANGED vars PROVE StoreInv'
BY DEF vars, StoreInv, TypeOK, Shapes, NewGeneration, NothingLeft, Position, Unchanged,
       Prepared, Crossed, Replaced, Emptied, Post

LEMMA NextStoreInv ==
    ASSUME ~Reorder, StoreInv, [Next]_vars
    PROVE  StoreInv'
<1>1. CASE Stage
  BY <1>1, BeginStageStep, FsyncStep, StageStep, CrossStep DEF Stage
<1>2. CASE Forward
  <2>1. CASE ValidateCommit \/ \E n \in Names : SkipUnlink(n)
    BY <2>1, QuietStep DEF ValidateCommit, SkipUnlink
  <2> QED BY <1>2, <2>1, FsyncStep, RollStep, RemoveStep DEF Forward
<1>3. CASE Recovery
  <2>1. CASE RecoverPrepare \/ RecoverCommit \/ RecoverClean
    BY <2>1, QuietStep DEF RecoverPrepare, RecoverCommit, RecoverClean
  <2> QED BY <1>3, <2>1, FsyncStep, StageStep, RemoveStep DEF Recovery
<1>4. CASE ProcessStops
  BY <1>4, QuietStep DEF ProcessStops
<1>5. CASE PowerLoss
  BY <1>5, PowerLossStep
<1>6. CASE UNCHANGED vars
  BY <1>6, StutterStep
<1> QED BY <1>1, <1>2, <1>3, <1>4, <1>5, <1>6 DEF Next

(* Whatever the process does and wherever it or the machine stops, a tree   *)
(* recovers to the old set or to the whole new batch, and a commit/ passes  *)
(* _validate_commit: both follow from the shape of every reachable tree.    *)
LEMMA ShapesSuffice ==
    ASSUME StoreInv
    PROVE  BatchAtomic /\ CommitRecoverable
<1>1. ASSUME NEW s \in disk \cup {fs}, Crossed(s) PROVE View(s) = Post /\ CommitValid(s)
  BY <1>1 DEF Crossed, View, Post, HasCommit, CommitValid, Entries, StoreInv, TypeOK, Absent
<1>2. ASSUME NEW s \in disk \cup {fs}, ~HasCommit(s) PROVE View(s) = s.root
  BY <1>2 DEF View, StoreInv, TypeOK, Tree
<1>3. BatchAtomic
  BY <1>1, <1>2 DEF BatchAtomic, StoreInv, Shapes, Unchanged, Prepared, Crossed, Replaced, HasCommit
<1>4. CommitRecoverable
  BY <1>1 DEF CommitRecoverable, StoreInv, Shapes, Unchanged, Prepared, Crossed, Replaced, HasCommit
<1> QED BY <1>3, <1>4

(* Every reachable state satisfies the inductive invariant. *)
THEOREM StoreInvariant ==
    ASSUME ~Reorder
    PROVE  Spec => []StoreInv
<1>1. StoreInv /\ [Next]_vars => StoreInv'
  BY NextStoreInv
<1> QED BY <1>1, InitStoreInv, PTL DEF Spec

(* Every reachable state of the store is well typed. *)
THEOREM StoreTypeCorrect ==
    ASSUME ~Reorder
    PROVE  Spec => []TypeOK
<1>1. StoreInv => TypeOK
  BY DEF StoreInv
<1> QED BY <1>1, StoreInvariant, PTL

(* cross_commit_boundary and recovery never mix generations, for any number *)
(* of process stops and power losses.                                       *)
THEOREM StoreBatchAtomic ==
    ASSUME ~Reorder
    PROVE  Spec => []BatchAtomic
<1>1. StoreInv => BatchAtomic
  BY ShapesSuffice
<1> QED BY <1>1, StoreInvariant, PTL

(* No commit/ that recovery may find is refused by _validate_commit. *)
THEOREM StoreCommitRecoverable ==
    ASSUME ~Reorder
    PROVE  Spec => []CommitRecoverable
<1>1. StoreInv => CommitRecoverable
  BY ShapesSuffice
<1> QED BY <1>1, StoreInvariant, PTL

-----------------------------------------------------------------------------
(* The store implements AtomicStore.  The mapping reads View of the visible *)
(* tree and of every tree on the disk; Known adds to StoreInv what the      *)
(* mapped steps depend on.                                                  *)

Known ==
    /\ fs \in disk
    /\ ~HasCommit(fs) /\ fs.root = base => \A s \in disk : ~HasCommit(s) /\ s.root = base
    /\ batch # {} => \A n \in Names : base[n] < gen
    /\ pc \in {"sync_file", "sync_stage"} => fs.prepare[cur] = gen

(* What AtomicStore calls safe, seen through the mapping. *)
safe == {View(s) : s \in disk}

LEMMA InitKnown == Init => Known
BY DEF Init, Known, HasCommit

LEMMA TreeViews ==
    ASSUME StoreInv, NEW s \in Tree
    PROVE  /\ ~HasCommit(s) => View(s) = s.root
           /\ Crossed(s) => View(s) = Post
<1>1. ASSUME ~HasCommit(s) PROVE View(s) = s.root
  BY <1>1 DEF View, Tree
<1>2. ASSUME Crossed(s) PROVE View(s) = Post
  BY <1>2 DEF Crossed, View, Post, HasCommit, StoreInv, TypeOK, Absent
<1> QED BY <1>1, <1>2

(* A step that maps to a stutter or to Harden. *)
LEMMA SameValue ==
    ASSUME View(fs') = View(fs), safe' = safe \/ safe' = {View(fs)}
    PROVE  [Abstract!Next]_(Abstract!vars)
BY DEF safe, Abstract!Next, Abstract!Harden, Abstract!vars

(* A call adds the visible tree; its view was on the disk before. *)
LEMMA AddedTree ==
    ASSUME Known, disk' = disk \cup {fs'}, View(fs') = View(fs)
    PROVE  [Abstract!Next]_(Abstract!vars)
<1>1. safe' = safe
  BY DEF safe, Known
<1> QED BY <1>1, SameValue

LEMMA BeginStageMaps ==
    ASSUME ~Reorder, StoreInv, Known, NEW names \in SUBSET Names, BeginStage(names), StoreInv'
    PROVE  Known' /\ [Abstract!Next]_(Abstract!vars)
<1>1. /\ fs' = MkPrepare(fs) /\ disk' = disk \cup {fs'} /\ fs.dirs = {} /\ fs \in Tree
      /\ base' = fs.root /\ batch' = names /\ gen' = gen + 1 /\ pc = "idle" /\ pc' = "sync_begin"
      /\ fs' \in Tree /\ gen \in Nat /\ disk \subseteq Tree
  BY DEF BeginStage, Call, Exposed, StoreInv, TypeOK
<1>2. fs'.root = fs.root /\ fs'.dirs = {"prepare"}
  BY <1>1 DEF MkPrepare, Tree
<1>3. fs.root \in [Names -> 0..gen]
  BY <1>1 DEF StoreInv, TypeOK, Position, Unchanged, Replaced, Post
<1>4. \A s \in disk : ~HasCommit(s) /\ s.root = fs.root
  BY <1>1 DEF StoreInv, Position, NothingLeft, Emptied, Unchanged, Replaced, HasCommit
<1>5. Known'
  BY <1>1, <1>2, <1>3, <1>4 DEF Known, HasCommit
<1>6. View(fs') = View(fs)
  BY <1>1, <1>2, TreeViews DEF HasCommit, View
<1> QED BY <1>1, <1>5, <1>6, AddedTree

LEMMA FsyncMaps ==
    ASSUME StoreInv, Known,
           SyncBegin \/ SyncCross \/ SyncCommit \/ SyncRoot \/ SyncRemoved
             \/ SyncDiscard \/ SyncDiscarded \/ Reboot \/ SyncStage
    PROVE  Known' /\ [Abstract!Next]_(Abstract!vars)
<1>1. /\ fs' = fs /\ disk' = {fs} /\ batch' = batch /\ gen' = gen /\ base' = base
      /\ pc' \notin {"sync_file", "sync_stage"}
  BY DEF SyncBegin, SyncCross, SyncCommit, SyncRoot, SyncRemoved, SyncDiscard, SyncDiscarded,
         Reboot, SyncStage, Fsync, journal
<1>2. Known'
  BY <1>1 DEF Known, HasCommit
<1>3. safe' = {View(fs)}
  BY <1>1 DEF safe
<1> QED BY <1>1, <1>2, <1>3, SameValue

LEMMA QuietMaps ==
    ASSUME StoreInv, Known,
           \/ ValidateCommit \/ RecoverPrepare \/ RecoverCommit \/ RecoverClean
           \/ ProcessStops \/ (\E n \in Names : SkipUnlink(n)) \/ UNCHANGED vars
    PROVE  Known' /\ [Abstract!Next]_(Abstract!vars)
<1>1. /\ fs' = fs /\ disk' = disk /\ batch' = batch /\ gen' = gen /\ base' = base
      /\ pc' \notin {"sync_file", "sync_stage"} \/ (pc' = pc /\ cur' = cur)
  BY DEF ValidateCommit, RecoverPrepare, RecoverCommit, RecoverClean, ProcessStops, SkipUnlink,
         store, journal, vars
<1>2. Known'
  BY <1>1 DEF Known, HasCommit
<1>3. safe' = safe
  BY <1>1 DEF safe
<1> QED BY <1>1, <1>2, <1>3, SameValue

(* Staging and discarding: only prepare/ changes. *)
LEMMA PrepareMaps ==
    ASSUME ~Reorder, StoreInv, Known, StoreInv',
           \/ \E n \in Names : StageCreate(n) \/ DiscardUnlink(n)
           \/ StageWrite \/ RemovePrepare
    PROVE  Known' /\ [Abstract!Next]_(Abstract!vars)
<1>1. /\ disk' = disk \cup {fs'} /\ fs \in Tree /\ fs' \in Tree /\ fs.root = base
      /\ ~HasCommit(fs)
      /\ batch' = batch /\ gen' = gen /\ base' = base
  BY DEF StageCreate, DiscardUnlink, StageWrite, RemovePrepare, Call, Exposed, journal, StoreInv,
         TypeOK, Position, Prepared, Emptied, HasCommit
<1>2. fs'.root = base /\ ~HasCommit(fs')
  BY <1>1 DEF StageCreate, DiscardUnlink, StageWrite, RemovePrepare, Call, WriteFile, RmPrepare,
         Tree, HasCommit
<1>3. pc' \in {"sync_file", "sync_stage"} => fs'.prepare[cur'] = gen'
  <2>1. CASE StageWrite
    <3>1. /\ fs' = [fs EXCEPT !.prepare = [fs.prepare EXCEPT ![cur] = gen]] /\ cur' = cur
          /\ cur \in Names /\ fs.prepare \in [Names -> Content]
      BY <1>1, <2>1 DEF StageWrite, Call, WriteFile, StoreInv, TypeOK, Tree
    <3>2. fs'.prepare = [fs.prepare EXCEPT ![cur] = gen]
      BY <1>1, <3>1 DEF Tree
    <3> QED BY <1>1, <3>1, <3>2
  <2>2. CASE ~StageWrite
    BY <2>2 DEF StageCreate, DiscardUnlink, RemovePrepare
  <2> QED BY <2>1, <2>2
<1>4. Known'
  BY <1>1, <1>2, <1>3 DEF Known, HasCommit
<1>5. View(fs') = View(fs)
  <2>1. View(fs) = base
    BY <1>1, TreeViews
  <2>2. View(fs') = base
    BY <1>1, <1>2 DEF View, Tree
  <2> QED BY <2>1, <2>2
<1> QED BY <1>1, <1>4, <1>5, AddedTree

LEMMA SyncFileMaps ==
    ASSUME StoreInv, Known, SyncFile
    PROVE  Known' /\ [Abstract!Next]_(Abstract!vars)
<1>1. /\ fs' = fs /\ disk' \subseteq disk /\ cur' = cur /\ pc = "sync_file" /\ gen \in Nat
      /\ batch' = batch /\ gen' = gen /\ base' = base
      /\ disk' = {s \in disk : s.prepare[cur] # Torn}
  BY DEF SyncFile, journal, StoreInv, TypeOK
<1>2. fs \in disk' /\ ~HasCommit(fs) /\ fs.root = base
  BY <1>1 DEF Known, StoreInv, Position, Prepared, HasCommit, Torn
<1>3. Known'
  BY <1>1, <1>2 DEF Known, HasCommit
<1>4. \A s \in disk : View(s) = base
  BY <1>2, TreeViews DEF Known, StoreInv, TypeOK
<1>5. safe = {base} /\ safe' = {base}
  BY <1>1, <1>2, <1>4 DEF safe
<1> QED BY <1>1, <1>3, <1>5, SameValue

(* The boundary is where the batch becomes visible. *)
LEMMA CrossMaps ==
    ASSUME ~Reorder, StoreInv, Known, CrossCommitBoundary, StoreInv'
    PROVE  Known' /\ [Abstract!Next]_(Abstract!vars)
<1>1. /\ fs' \in Tree /\ fs \in Tree /\ disk' = disk \cup {fs'} /\ pc' = "sync_cross"
      /\ batch' = batch /\ known' = known /\ gen' = gen /\ base' = base
  BY DEF CrossCommitBoundary, Call, Exposed, journal, StoreInv, TypeOK
<1>2. Prepared(fs) /\ batch # {} /\ batch \subseteq Names /\ base \in [Names -> Int] /\ gen \in 0..MaxGen
  BY DEF CrossCommitBoundary, StoreInv, TypeOK, Position, Shapes, Prepared
<1>3. Crossed(fs)'
  BY <1>1 DEF StoreInv, Position
<1>4. View(fs) = base
  BY <1>1, <1>2, TreeViews DEF Prepared, HasCommit
<1>5. View(fs') = Post
  <2>1. Crossed(fs')
    BY <1>1, <1>3 DEF Crossed
  <2> QED BY <1>1, <2>1, TreeViews
<1>6. Known'
  BY <1>1, <1>3 DEF Known, Crossed, HasCommit
<1>7. Abstract!Commit
  <2>1. batch \in (SUBSET Names) \ {{}} /\ gen \in 1..MaxGen
    <3>1. PICK n \in batch : base[n] < gen /\ base[n] \in 0..gen
      BY <1>2 DEF Known, StoreInv, TypeOK
    <3> QED BY <1>2, <3>1, BoundsAssumption
  <2>2. \A n \in Names : View(fs)[n] < gen
    BY <1>2, <1>4 DEF Known
  <2>3. View(fs') = [n \in Names |-> IF n \in batch THEN gen ELSE View(fs)[n]]
    BY <1>4, <1>5 DEF Post
  <2>4. safe' = safe \cup {View(fs')}
    BY <1>1 DEF safe
  <2> QED BY <2>1, <2>2, <2>3, <2>4 DEF Abstract!Commit, safe
<1> QED BY <1>6, <1>7 DEF Abstract!Next

(* Rolling forward moves files between two places that View looks in. *)
LEMMA RollMaps ==
    ASSUME ~Reorder, StoreInv, Known, StoreInv',
           (\E n \in Names : UnlinkOld(n)) \/ Promote \/ RemoveCommit
    PROVE  Known' /\ [Abstract!Next]_(Abstract!vars)
<1>1. /\ fs' \in Tree /\ fs \in Tree /\ disk' = disk \cup {fs'}
      /\ pc' \in {"promote", "sync_commit", "sync_removed"} /\ Crossed(fs)
      /\ batch' = batch /\ known' = known /\ gen' = gen /\ base' = base
  BY DEF UnlinkOld, Promote, RemoveCommit, Call, Exposed, journal, StoreInv, TypeOK, Position
<1>2. View(fs) = Post /\ batch # {} /\ batch \subseteq Names
  BY <1>1, TreeViews DEF StoreInv, Shapes, Crossed, TypeOK
<1>3. Crossed(fs') \/ Replaced(fs')
  BY <1>1 DEF StoreInv, Position, Crossed, Replaced, Post
<1>4. View(fs') = Post
  BY <1>1, <1>3, TreeViews DEF Replaced, HasCommit
<1>5. HasCommit(fs') \/ fs'.root # base
  <2>1. PICK n \in batch : TRUE
    BY <1>2
  <2>2. Post[n] = gen /\ base[n] < gen
    BY <1>2, <2>1 DEF Post, Known
  <2>3. base[n] \in Int /\ gen \in Int
    BY <1>2, <2>1 DEF StoreInv, TypeOK
  <2>4. Post # base
    BY <2>2, <2>3
  <2> QED BY <1>3, <2>4 DEF Crossed, Replaced, HasCommit
<1>6. Known'
  BY <1>1, <1>5 DEF Known, HasCommit
<1> QED BY <1>1, <1>2, <1>4, <1>6, AddedTree

LEMMA PowerLossMaps ==
    ASSUME StoreInv, Known, PowerLoss
    PROVE  Known' /\ [Abstract!Next]_(Abstract!vars)
<1>1. /\ fs' \in disk /\ disk' = {fs'} /\ pc' = "down" /\ batch' = batch /\ gen' = gen /\ base' = base
  BY DEF PowerLoss, journal
<1>2. Known'
  BY <1>1 DEF Known, HasCommit
<1>3. View(fs') \in safe /\ safe' = {View(fs')}
  BY <1>1 DEF safe
<1> QED BY <1>2, <1>3 DEF safe, Abstract!Next, Abstract!PowerLoss

(* Every step of the store is a step of AtomicStore or changes neither the  *)
(* recovered value nor the values a power loss may leave.                   *)
LEMMA NextMaps ==
    ASSUME ~Reorder, StoreInv, Known, [Next]_vars
    PROVE  Known' /\ [Abstract!Next]_(Abstract!vars)
<1>0. StoreInv'
  BY NextStoreInv
<1>1. CASE Stage
  BY <1>0, <1>1, BeginStageMaps, FsyncMaps, PrepareMaps, SyncFileMaps, CrossMaps DEF Stage
<1>2. CASE Forward
  BY <1>0, <1>2, FsyncMaps, QuietMaps, RollMaps DEF Forward
<1>3. CASE Recovery
  BY <1>0, <1>3, FsyncMaps, QuietMaps, PrepareMaps DEF Recovery
<1>4. CASE ProcessStops \/ UNCHANGED vars
  BY <1>4, QuietMaps
<1>5. CASE PowerLoss
  BY <1>5, PowerLossMaps
<1> QED BY <1>1, <1>2, <1>3, <1>4, <1>5 DEF Next

(* The store of t2_catacomb_store, call by call and with every stop and     *)
(* power loss, is an atomic store: a batch becomes visible as a whole, only *)
(* over older generations, and nothing hardened is taken back.              *)
THEOREM StoreRefinement ==
    ASSUME ~Reorder
    PROVE  Spec => ImplementsAtomicStore
<1>1. Init => Abstract!Init
  <2> SUFFICES ASSUME Init PROVE Abstract!Init
    OBVIOUS
  <2>1. View(fs) = [n \in Names |-> 0] /\ disk = {fs}
    BY DEF Init, View, HasCommit
  <2> QED BY <2>1 DEF Abstract!Init
<1>2. StoreInv /\ Known /\ [Next]_vars => Known' /\ [Abstract!Next]_(Abstract!vars)
  BY NextMaps
<1>3. StoreInv /\ [Next]_vars => StoreInv'
  BY NextStoreInv
<1> QED BY <1>1, <1>2, <1>3, InitStoreInv, InitKnown, PTL DEF Spec, ImplementsAtomicStore, Abstract!Spec

-----------------------------------------------------------------------------
(* What discard_prepare finds.  A journaled hash is of bytes that are in    *)
(* prepare/ on every disk, or that an interrupted discard has removed.      *)

Keeps(s) == HasPrepare(s) => \A n \in known : s.prepare[n] \in {Absent, gen}

Staged ==
    /\ \A s \in disk \cup {fs} : Keeps(s)
    /\ pc = "sync_begin" => known = {}
    /\ pc \in {"stage", "write", "sync_file", "sync_stage"} => known \subseteq Entries(fs.prepare)
    /\ pc \in {"write", "sync_file", "sync_stage"} => cur \notin known

LEMMA InitStaged == Init => Staged
BY DEF Init, Staged, Keeps, HasPrepare

LEMMA BeginStageStaged ==
    ASSUME NEW names \in SUBSET Names, BeginStage(names)
    PROVE  Staged'
BY DEF BeginStage, Staged, Keeps

(* The steps that only forget trees and do not lead to a stage. *)
LEMMA FewerTreesStaged ==
    ASSUME Staged, fs' \in disk \cup {fs}, disk' \subseteq disk \cup {fs},
           known' = known, gen' = gen,
           pc' \notin {"sync_begin", "stage", "write", "sync_file", "sync_stage"}
    PROVE  Staged'
BY DEF Staged, Keeps, HasPrepare

(* The steps within a stage that do not touch the tree. *)
LEMMA SameTreeStaged ==
    ASSUME Staged, SyncBegin \/ SyncFile \/ UNCHANGED vars
    PROVE  Staged'
<1>1. fs' = fs /\ disk' \subseteq disk \cup {fs} /\ known' = known /\ gen' = gen /\ cur' = cur
  BY DEF SyncBegin, SyncFile, Fsync, journal, vars
<1>2. \A s \in disk' \cup {fs'} : Keeps(s)'
  BY <1>1 DEF Staged, Keeps
<1>3. CASE SyncBegin
  BY <1>1, <1>2, <1>3 DEF SyncBegin, Staged
<1>4. CASE SyncFile
  BY <1>1, <1>2, <1>4 DEF SyncFile, Staged
<1>5. CASE UNCHANGED vars
  BY <1>1, <1>2, <1>5 DEF vars, Staged
<1> QED
  BY <1>3, <1>4, <1>5

(* prepare/ has become commit/, or commit/ is rolled forward: the new tree  *)
(* has no prepare/.                                                         *)
LEMMA ForwardStaged ==
    ASSUME Staged, disk' = disk \cup {fs'}, ~HasPrepare(fs'), known' = known, gen' = gen,
           pc' \notin {"sync_begin", "stage", "write", "sync_file", "sync_stage"}
    PROVE  Staged'
BY DEF Staged, Keeps, HasPrepare

LEMMA CreateStaged ==
    ASSUME ~Reorder, StoreInv, Staged, NEW n \in Names, StageCreate(n)
    PROVE  Staged'
<1>1. /\ fs' = WriteFile(fs, n, Torn) /\ disk' = disk \cup {fs'} /\ cur' = n /\ pc' = "write"
      /\ known' = known /\ gen' = gen /\ fs \in Tree /\ fs.prepare[n] = Absent
      /\ known \subseteq Entries(fs.prepare)
  BY DEF StageCreate, Call, Exposed, journal, StoreInv, TypeOK, Staged, Entries
<1>2. fs'.dirs = fs.dirs /\ fs'.prepare = [fs.prepare EXCEPT ![n] = Torn]
      /\ fs.prepare \in [Names -> Content] /\ known \subseteq Names
  BY <1>1 DEF WriteFile, Tree, StoreInv, TypeOK
<1>3. n \notin known
  BY <1>1 DEF Entries
<1>4. Keeps(fs)'
  BY <1>1, <1>2, <1>3 DEF Staged, Keeps, HasPrepare
<1>5. known \subseteq Entries(fs'.prepare)
  BY <1>1, <1>2, <1>3 DEF Entries
<1> QED
  BY <1>1, <1>3, <1>4, <1>5 DEF Staged, Keeps

LEMMA WriteStaged ==
    ASSUME ~Reorder, StoreInv, Staged, StageWrite
    PROVE  Staged'
<1>1. /\ fs' = WriteFile(fs, cur, gen) /\ disk' = disk \cup {fs'} /\ cur' = cur
      /\ pc' = "sync_file" /\ known' = known /\ gen' = gen /\ fs \in Tree /\ cur \in Names
      /\ known \subseteq Entries(fs.prepare) /\ cur \notin known /\ gen \in Nat
  BY DEF StageWrite, Call, Exposed, journal, StoreInv, TypeOK, Staged
<1>2. fs'.dirs = fs.dirs /\ fs'.prepare = [fs.prepare EXCEPT ![cur] = gen]
      /\ fs.prepare \in [Names -> Content] /\ known \subseteq Names
  BY <1>1 DEF WriteFile, Tree, StoreInv, TypeOK
<1>3. Keeps(fs)'
  BY <1>1, <1>2 DEF Staged, Keeps, HasPrepare
<1>4. known \subseteq Entries(fs'.prepare)
  BY <1>1, <1>2 DEF Entries
<1> QED
  BY <1>1, <1>3, <1>4 DEF Staged, Keeps

(* The hash of a file is journaled once its bytes are the ones on the disk. *)
LEMMA SyncStageStaged ==
    ASSUME StoreInv, Known, Staged, SyncStage
    PROVE  Staged'
<1>1. /\ fs' = fs /\ disk' = {fs} /\ known' = known \cup {cur} /\ gen' = gen /\ pc' = "stage"
      /\ fs.prepare[cur] = gen /\ cur \in Names /\ gen \in Nat
      /\ known \subseteq Entries(fs.prepare)
  BY DEF SyncStage, Fsync, Known, Staged, StoreInv, TypeOK
<1>2. Keeps(fs)'
  BY <1>1 DEF Staged, Keeps, HasPrepare
<1>3. known' \subseteq Entries(fs'.prepare)
  BY <1>1 DEF Entries, Absent
<1> QED
  BY <1>1, <1>2, <1>3 DEF Staged, Keeps

LEMMA DiscardStaged ==
    ASSUME ~Reorder, StoreInv, Staged, NEW n \in Names, DiscardUnlink(n)
    PROVE  Staged'
<1>1. /\ fs' = WriteFile(fs, n, Absent) /\ disk' = disk \cup {fs'} /\ pc' = "discard"
      /\ known' = known /\ gen' = gen /\ fs \in Tree
  BY DEF DiscardUnlink, Call, Exposed, journal, StoreInv, TypeOK
<1>2. fs'.dirs = fs.dirs /\ fs'.prepare = [fs.prepare EXCEPT ![n] = Absent]
      /\ fs.prepare \in [Names -> Content] /\ known \subseteq Names
  BY <1>1 DEF WriteFile, Tree, StoreInv, TypeOK
<1>3. Keeps(fs)'
  BY <1>1, <1>2 DEF Staged, Keeps, HasPrepare
<1> QED
  BY <1>1, <1>3 DEF Staged, Keeps

LEMMA NextStaged ==
    ASSUME ~Reorder, StoreInv, Known, Staged, [Next]_vars
    PROVE  Staged'
<1>0. StoreInv'
  BY NextStoreInv
<1>1. CASE SyncBegin \/ SyncFile \/ UNCHANGED vars
  BY <1>1, SameTreeStaged
<1>2. CASE \/ SyncCross \/ SyncCommit \/ SyncRoot \/ SyncRemoved \/ SyncDiscard
           \/ SyncDiscarded \/ Reboot
           \/ ValidateCommit \/ RecoverPrepare \/ RecoverCommit \/ RecoverClean \/ ProcessStops
           \/ \E n \in Names : SkipUnlink(n)
  <2>1. fs' = fs /\ disk' \subseteq disk \cup {fs} /\ known' = known /\ gen' = gen
    BY <1>2 DEF SyncCross, SyncCommit, SyncRoot, SyncRemoved, SyncDiscard, SyncDiscarded, Reboot,
           ValidateCommit, RecoverPrepare, RecoverCommit, RecoverClean, ProcessStops, SkipUnlink,
           Fsync, store, journal
  <2>2. pc' \notin {"sync_begin", "stage", "write", "sync_file", "sync_stage"}
    BY <1>2 DEF SyncCross, SyncCommit, SyncRoot, SyncRemoved, SyncDiscard, SyncDiscarded, Reboot,
           ValidateCommit, RecoverPrepare, RecoverCommit, RecoverClean, ProcessStops, SkipUnlink
  <2> QED
    BY <2>1, <2>2, FewerTreesStaged
<1>3. CASE PowerLoss
  BY <1>3, FewerTreesStaged DEF PowerLoss, journal
<1>4. CASE CrossCommitBoundary \/ (\E n \in Names : UnlinkOld(n)) \/ Promote \/ RemoveCommit
             \/ RemovePrepare
  <2>1. /\ disk' = disk \cup {fs'} /\ known' = known /\ gen' = gen
        /\ pc' \in {"sync_cross", "promote", "sync_commit", "sync_removed", "sync_discarded"}
    BY <1>4 DEF CrossCommitBoundary, UnlinkOld, Promote, RemoveCommit, RemovePrepare, Call,
           Exposed, journal
  <2>2. ~HasPrepare(fs')
    BY <1>0, <2>1 DEF StoreInv, Position, Crossed, Replaced, Unchanged, HasPrepare
  <2> QED
    BY <2>1, <2>2, ForwardStaged
<1>5. CASE Stage
  BY <1>1, <1>4, <1>5, BeginStageStaged, CreateStaged, WriteStaged, SyncStageStaged DEF Stage
<1>6. CASE Forward
  BY <1>1, <1>2, <1>4, <1>6 DEF Forward
<1>7. CASE Recovery
  BY <1>1, <1>2, <1>4, <1>7, DiscardStaged DEF Recovery
<1> QED
  BY <1>1, <1>2, <1>3, <1>5, <1>6, <1>7 DEF Next

(* However often a process stops, in stage_component, in discard_prepare or *)
(* anywhere else, and whatever a power loss on an ordered file system       *)
(* leaves, discard_prepare refuses a prepare/ only for a torn file whose    *)
(* hash stage_component had not returned.                                   *)
THEOREM StoreOnlyTornIsRefused ==
    ASSUME ~Reorder
    PROVE  Spec => []OnlyTornIsRefused
<1>1. ASSUME StoreInv, Staged PROVE OnlyTornIsRefused
  <2> SUFFICES ASSUME NEW s \in disk \cup {fs}, HasPrepare(s),
                      ~ \E n \in batch \ known : s.prepare[n] = Torn
               PROVE  DiscardValid(s)
    BY DEF OnlyTornIsRefused
  <2>1. Prepared(s) /\ \A n \in known : s.prepare[n] \in {Absent, gen}
    BY <1>1 DEF StoreInv, Shapes, Staged, Keeps, HasPrepare, Unchanged, Crossed, Replaced
  <2>2. gen # Torn /\ Absent # Torn
    BY <1>1 DEF StoreInv, TypeOK, Torn, Absent
  <2> QED
    BY <2>1, <2>2 DEF DiscardValid, Prepared, Entries
<1>2. StoreInv /\ Known /\ Staged /\ [Next]_vars => StoreInv' /\ Known' /\ Staged'
  BY NextStoreInv, NextMaps, NextStaged
<1> QED
  BY <1>1, <1>2, InitStoreInv, InitKnown, InitStaged, PTL DEF Spec
=============================================================================
