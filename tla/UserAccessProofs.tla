-------------------------- MODULE UserAccessProofs --------------------------
(***************************************************************************)
(* Proofs about UserAccess, for any processes, users, mappings and bounds. *)
(*                                                                         *)
(* The two locks carry the argument.  A process that has loaded the        *)
(* mapping holds the mapping lock until it ends, so nobody else renames a  *)
(* file over the one it read (Reading); a process in a live session holds  *)
(* the operation lock, so nobody else changes the Catacomb it observed     *)
(* (Seeing).  What it read, drafted and observed is therefore still true   *)
(* when it publishes, or when its consumer sends the command.              *)
(***************************************************************************)
EXTENDS UserAccess, TLAPS

Mappings == [Users -> Mapping \cup {NoMapping}]

Aliases == AliasStates \cup {"ready", "none"}

Steps ==
    {"none", "authority", "lock", "load", "enter", "first", "grant", "activation", "recheck",
     "second", "handoff", "third", "bound", "prepare", "dispatch", "mutate", "publish", "sync",
     "change"}

State ==
    [cmd : {"none", "bind", "rebind", "disable", "enable", "serve", "manage"},
     user : Users, op : Operations \cup {"none"}, at : Steps,
     caps : CapabilitySets \cup {{}}, apple : AppleUsers,
     loaded : Mappings, draft : Mapping \cup {NoMapping},
     account : Nat, keybag : Nat, bridge : Nat,
     first : [version : Nat, alias : Aliases], grant : BOOLEAN, activation : BOOLEAN,
     expires : Nat, stage : {"none", "denied", "operate", "activate"}, material : Nat,
     alive : BOOLEAN]

World ==
    [account : Nat, keybag : [Users -> 1..2], configured : AppleUsers,
     alias : [AppleUsers -> Aliases], bridge : Nat, clock : Nat]

Types ==
    /\ file \in Mappings /\ durable \in Mappings /\ latest \in Mappings
    /\ world \in World
    /\ catacomb \in [version : Nat, clean : BOOLEAN]
    /\ mapLock \in Procs \cup {NoProc} /\ opLock \in Procs \cup {NoProc}
    /\ proc \in [Procs -> State]

(* The steps of each command. *)
Path(s) ==
    /\ s.cmd = "none" => s.at = "none"
    /\ s.cmd = "bind" =>
         /\ s.at \in {"authority", "lock", "load", "recheck", "publish", "sync"}
         /\ s.caps \in CapabilitySets
    /\ s.cmd = "rebind" => s.at \in {"lock", "load", "recheck", "publish", "sync"}
    /\ s.cmd = "disable" => s.at \in {"lock", "load", "publish", "sync"}
    /\ s.cmd = "enable" =>
         s.at \in {"lock", "load", "enter", "first", "recheck", "second", "publish", "sync"}
    /\ s.cmd = "serve" =>
         s.at \in {"lock", "load", "enter", "first", "grant", "activation", "recheck",
                   "second", "handoff", "third", "bound", "prepare", "dispatch", "mutate"}
    /\ s.cmd = "manage" => s.at \in {"enter", "change"}

(* A process holds the mapping lock from its load to its end, and the *)
(* operation lock from its live session on.                           *)
HoldsMap(s) == s.cmd \notin {"none", "manage"} /\ s.at \notin {"authority", "lock"}

HoldsOp(s) ==
    \/ s.cmd \in {"enable", "serve"} /\ s.at \notin {"lock", "load", "enter"}
    \/ s.cmd = "manage" /\ s.at = "change"

Locking(p, s) ==
    /\ HoldsMap(s) => mapLock = p
    /\ HoldsOp(s) => opLock = p
    /\ s.cmd = "none" => p \notin {mapLock, opLock}

(* What it read of users.json is still there. *)
Reading(s) ==
    /\ HoldsMap(s) /\ s.at \notin {"load", "sync"} => file = s.loaded
    /\ s.cmd = "serve" /\ s.at \notin {"lock", "load"} =>
         Permits(s.loaded[s.user], CapabilityOf(s.op))

(* The draft may replace it: a record that is not enabled, or by an enable *)
(* that saw it ready, the same record enabled.                             *)
Drafting(s) ==
    /\ s.at = "publish" \/ (s.cmd \in {"bind", "rebind"} /\ s.at = "recheck") =>
         /\ s.draft \in Mapping
         /\ Unique([s.loaded EXCEPT ![s.user] = s.draft])
         /\ s.draft.enabled = (s.cmd = "enable")
    /\ s.cmd = "enable" /\ s.at \notin {"lock", "load", "sync"} =>
         s.loaded[s.user] \in Mapping \ {NoMapping}
    /\ s.cmd = "enable" /\ s.at = "publish" =>
         s.draft = [s.loaded[s.user] EXCEPT !.enabled = TRUE]

(* The Catacomb it observed is still the current one. *)
Seeing(s) ==
    /\ HoldsOp(s) /\ s.at \notin {"first", "change"} => s.first.version = catacomb.version
    /\ s.cmd = "enable" /\ s.at \in {"recheck", "second", "publish"} => s.first.alias = "ready"
    /\ s.at \in {"dispatch", "mutate"} => s.material = catacomb.version

Good(p, s) == Path(s) /\ Locking(p, s) /\ Reading(s) /\ Drafting(s) /\ Seeing(s)

(* The inductive invariant. *)
Inv ==
    /\ Types
    /\ Unique(file) /\ Unique(durable)
    /\ AcknowledgedIsDurable
    /\ \A p \in Procs : Good(p, proc[p])

-----------------------------------------------------------------------------

LEMMA IdleState == Idle \in State /\ \A p : p \notin {mapLock, opLock} => Good(p, Idle)
<1>1. AUser \in Users /\ AnAppleUser \in AppleUsers
  BY UserAccessAssumption DEF AUser, AnAppleUser
<1>2. Unmapped \in Mappings
  BY DEF Unmapped, Mappings
<1>3. Idle \in State
  <2>1. [version |-> 0, alias |-> "none"] \in [version : Nat, alias : Aliases]
    BY DEF Aliases
  <2>2. /\ {} \in CapabilitySets \cup {{}} /\ NoMapping \in Mapping \cup {NoMapping}
        /\ "none" \in Operations \cup {"none"} /\ "none" \in Steps
    BY DEF Steps
  <2> QED
    BY <1>1, <1>2, <2>1, <2>2, Zenon DEF Idle, State
<1>4. Idle.cmd = "none" /\ Idle.at = "none"
  BY DEF Idle
<1> QED
  BY <1>3, <1>4 DEF Good, Path, Locking, HoldsMap, HoldsOp, Reading, Drafting, Seeing

LEMMA InitInv == Init => Inv
<1> SUFFICES ASSUME Init PROVE Inv
  OBVIOUS
<1>1. AUser \in Users /\ AnAppleUser \in AppleUsers
  BY UserAccessAssumption DEF AUser, AnAppleUser
<1>2. Unmapped \in Mappings
  BY DEF Unmapped, Mappings
<1>3. file \in Mappings /\ Unique(file)
  <2>1. CASE file = Unmapped
    BY <1>2, <2>1 DEF Unique, Unmapped
  <2>2. CASE \E caps \in CapabilitySets, enabled \in BOOLEAN :
               file = [Unmapped EXCEPT ![AUser] =
                        [account |-> 0, keybag |-> 1, apple |-> AnAppleUser,
                         capabilities |-> caps, enabled |-> enabled]]
    <3>1. PICK caps \in CapabilitySets, enabled \in BOOLEAN :
               file = [Unmapped EXCEPT ![AUser] =
                        [account |-> 0, keybag |-> 1, apple |-> AnAppleUser,
                         capabilities |-> caps, enabled |-> enabled]]
      BY <2>2
    <3>2. [account |-> 0, keybag |-> 1, apple |-> AnAppleUser,
           capabilities |-> caps, enabled |-> enabled] \in Mapping
      BY <1>1 DEF Mapping
    <3>3. \A u \in Users : u # AUser => file[u] = NoMapping
      BY <3>1 DEF Unmapped
    <3>4. file \in Mappings
      BY <1>2, <3>1, <3>2 DEF Mappings
    <3> QED
      BY <3>3, <3>4 DEF Unique
  <2> QED
    BY <2>1, <2>2 DEF Init
<1>4. world \in World
  BY <1>1 DEF Init, World, Aliases
<1>5. \A p \in Procs : proc[p] = Idle /\ p \notin {mapLock, opLock}
  BY UserAccessAssumption DEF Init
<1>6. Types
  BY <1>3, <1>4, IdleState DEF Init, Types
<1>7. AcknowledgedIsDurable
  BY DEF Init, AcknowledgedIsDurable
<1>8. Unique(durable)
  BY <1>3 DEF Init, Unique
<1> QED
  BY <1>3, <1>5, <1>6, <1>7, <1>8, IdleState DEF Inv

-----------------------------------------------------------------------------
(* Steps that move one process and leave what the processes share alone. *)

LEMMA Moved ==
  ASSUME Inv, NEW p \in Procs, NEW s \in State, Becomes(p, s)
  PROVE  /\ proc' \in [Procs -> State]
         /\ proc'[p] = s
         /\ \A q \in Procs : q # p => proc'[q] = proc[q]
  BY DEF Inv, Types, Becomes

LEMMA LocalKeeps ==
  ASSUME Inv, NEW p \in Procs, NEW s \in State, Becomes(p, s), Good(p, s),
         UNCHANGED <<mapping, world, catacomb, mapLock, opLock>>
  PROVE  Inv'
<1>1. /\ proc' \in [Procs -> State]
      /\ proc'[p] = s
      /\ \A q \in Procs : q # p => proc'[q] = proc[q]
  BY Moved
<1>2. \A q \in Procs : Good(q, proc'[q])
  BY <1>1 DEF Inv
<1>3. ASSUME NEW q \in Procs PROVE Good(q, proc[q])'
  <2>1. Good(q, proc'[q])
    BY <1>2
  <2>2. Path(proc[q])' /\ Locking(q, proc[q])' /\ Seeing(proc[q])'
    BY <2>1 DEF Good, Path, Locking, Seeing, HoldsMap, HoldsOp
  <2>3. Reading(proc[q])' /\ Drafting(proc[q])'
    BY <2>1 DEF mapping, Good, Reading, Drafting, HoldsMap
  <2> QED
    BY <2>2, <2>3 DEF Good
<1>4. Types'
  BY <1>1 DEF Inv, Types, mapping
<1> QED
  BY <1>3, <1>4 DEF Inv, mapping, AcknowledgedIsDurable, Unique

(* A process that ends; it may have synced the mapping or, with the *)
(* operation lock in its hands, changed the Catacomb.               *)
LEMMA ExitKeeps ==
  ASSUME Inv, NEW p \in Procs, Exit(p),
         UNCHANGED <<file, world>>, durable' \in {durable, file},
         latest' \in Mappings, AcknowledgedIsDurable',
         catacomb' \in [version : Nat, clean : BOOLEAN],
         catacomb' = catacomb \/ opLock = p
  PROVE  Inv'
<1>1. /\ proc' \in [Procs -> State]
      /\ proc'[p] = Idle
      /\ \A q \in Procs : q # p => proc'[q] = proc[q]
  BY Moved, IdleState DEF Exit
<1>2. Types'
  BY <1>1, UserAccessAssumption DEF Inv, Types, Exit, Free
<1>3. \A q \in Procs : q # p => /\ mapLock = q => mapLock' = q
                                /\ opLock = q => opLock' = q
                                /\ q \notin {mapLock, opLock} => q \notin {mapLock', opLock'}
  BY UserAccessAssumption DEF Exit, Free
<1>4. ASSUME NEW q \in Procs, q # p PROVE Good(q, proc[q])'
  <2>1. Good(q, proc[q]) /\ proc'[q] = proc[q]
    BY <1>1, <1>4 DEF Inv
  <2>2. HoldsOp(proc[q]) => catacomb' = catacomb
    BY <1>4, <2>1 DEF Good, Locking
  <2>3. Path(proc[q])' /\ Locking(q, proc[q])'
    BY <2>1, <1>3, <1>4 DEF Good, Path, Locking, HoldsMap, HoldsOp
  <2>4. Reading(proc[q])' /\ Drafting(proc[q])'
    BY <2>1 DEF Good, Reading, Drafting, HoldsMap
  <2>5. Seeing(proc[q])'
    <3>1. proc[q].at \in {"dispatch", "mutate"} => HoldsOp(proc[q])
      BY <2>1 DEF Good, Path, HoldsOp, Inv, Types, State
    <3> QED
      BY <2>1, <2>2, <3>1 DEF Good, Seeing, HoldsOp
  <2> QED
    BY <2>3, <2>4, <2>5 DEF Good
<1>5. Good(p, proc[p])'
  <2>1. p \notin {mapLock', opLock'}
    BY UserAccessAssumption DEF Exit, Free
  <2>2. proc'[p].cmd = "none" /\ proc'[p].at = "none"
    BY <1>1 DEF Idle
  <2> QED
    BY <2>1, <2>2 DEF Good, Path, Locking, HoldsMap, HoldsOp, Reading, Drafting, Seeing
<1>6. Unique(file)' /\ Unique(durable)'
  BY DEF Inv, Unique
<1> QED
  BY <1>2, <1>4, <1>5, <1>6 DEF Inv

-----------------------------------------------------------------------------
(* The commands begin. *)

LEMMA StartState ==
  ASSUME NEW u \in Users, NEW at \in Steps,
         NEW cmd \in {"bind", "rebind", "disable", "enable", "serve", "manage"}
  PROVE  /\ Starting(cmd, u, at) \in State
         /\ Starting(cmd, u, at).cmd = cmd /\ Starting(cmd, u, at).at = at
<1>1. ASSUME NEW i \in State, NEW s, s = [i EXCEPT !.cmd = cmd, !.user = u, !.at = at]
      PROVE  s \in State /\ s.cmd = cmd /\ s.at = at
  BY <1>1 DEF State
<1> QED
  BY <1>1, IdleState DEF Starting

LEMMA BeginKeeps ==
  ASSUME Inv, NEW p \in Procs, Begin(p)
  PROVE  Inv'
<1>1. Idle \in State /\ Idle = proc[p] /\ world.account \in Nat /\ AUser \in Users
  BY IdleState, UserAccessAssumption
     DEF Begin, BeginBind, BeginRebind, BeginDisable, BeginEnable, BeginServe, BeginManage,
         Starts, Inv, Types, World, AUser
<1>2. p \notin {mapLock, opLock}
  BY <1>1 DEF Inv, Good, Locking, Idle
<1>3. ASSUME NEW s \in State, Starts(p, s),
             \/ s.cmd \in {"rebind", "disable", "enable", "serve"} /\ s.at = "lock"
             \/ s.cmd = "bind" /\ s.at = "authority" /\ s.caps \in CapabilitySets
             \/ s.cmd = "manage" /\ s.at = "enter"
      PROVE  Inv'
  <2>1. Good(p, s)
    BY <1>3 DEF Good, Path, Locking, HoldsMap, HoldsOp, Reading, Drafting, Seeing
  <2> QED
    BY <1>3, <2>1, LocalKeeps DEF Starts
<1>4. CASE BeginBind(p)
  <2>1. PICK u \in Users, caps \in CapabilitySets :
          Starts(p, [Starting("bind", u, "authority") EXCEPT !.caps = caps])
    BY <1>4 DEF BeginBind
  <2> DEFINE s == [Starting("bind", u, "authority") EXCEPT !.caps = caps]
  <2>2. /\ Starting("bind", u, "authority") \in State
        /\ Starting("bind", u, "authority").cmd = "bind"
        /\ Starting("bind", u, "authority").at = "authority"
    BY <1>1, StartState DEF Steps
  <2>3. s \in State /\ s.cmd = "bind" /\ s.at = "authority" /\ s.caps = caps
    BY <2>2 DEF State
  <2> QED
    BY <1>3, <2>1, <2>3
<1>5. CASE BeginRebind(p) \/ BeginDisable(p) \/ BeginEnable(p)
  <2>1. PICK u \in Users, cmd \in {"rebind", "disable", "enable"} :
          Starts(p, Starting(cmd, u, "lock"))
    BY <1>5 DEF BeginRebind, BeginDisable, BeginEnable
  <2> DEFINE s == Starting(cmd, u, "lock")
  <2>2. s \in State /\ s.cmd = cmd /\ s.at = "lock"
    BY <1>1, StartState DEF Steps
  <2> HIDE DEF s
  <2> QED
    BY <1>3, <2>1, <2>2 DEF s
<1>6. CASE BeginServe(p)
  <2>1. PICK u \in Users, op \in Operations :
          Starts(p, [Starting("serve", u, "lock") EXCEPT !.op = op, !.account = world.account])
    BY <1>6 DEF BeginServe, AccountGeneration
  <2> DEFINE s == [Starting("serve", u, "lock") EXCEPT !.op = op, !.account = world.account]
  <2>2. /\ Starting("serve", u, "lock") \in State
        /\ Starting("serve", u, "lock").cmd = "serve"
        /\ Starting("serve", u, "lock").at = "lock"
    BY <1>1, StartState DEF Steps
  <2>3. s \in State /\ s.cmd = "serve" /\ s.at = "lock"
    BY <1>1, <2>2 DEF State
  <2> QED
    BY <1>3, <2>1, <2>3
<1>7. CASE BeginManage(p)
  <2> DEFINE s == Starting("manage", AUser, "enter")
  <2>2. s \in State /\ s.cmd = "manage" /\ s.at = "enter"
    BY <1>1, StartState DEF Steps
  <2> QED
    BY <1>3, <1>7, <2>2 DEF BeginManage
<1> QED
  BY <1>4, <1>5, <1>6, <1>7 DEF Begin

-----------------------------------------------------------------------------
(* bind, rebind, disable and enable. *)

LEMMA CollectAuthorityKeeps ==
  ASSUME Inv, NEW p \in Procs, CollectAuthority(p)
  PROVE  Inv'
<1> DEFINE s == [proc[p] EXCEPT !.apple = world.configured, !.at = "lock"]
<1>1. proc[p] \in State /\ world.configured \in AppleUsers /\ Good(p, proc[p])
  BY DEF Inv, Types, World
<1>2. s \in State /\ s.cmd = "bind" /\ s.at = "lock" /\ s.caps \in CapabilitySets
  BY <1>1 DEF CollectAuthority, Is, State, Steps, Good, Path
<1>3. Good(p, s)
  BY <1>2 DEF Good, Path, Locking, HoldsMap, HoldsOp, Reading, Drafting, Seeing
<1> HIDE DEF s
<1> QED
  BY <1>2, <1>3, LocalKeeps DEF CollectAuthority, s

LEMMA LockMappingKeeps ==
  ASSUME Inv, NEW p \in Procs, LockMapping(p)
  PROVE  Inv'
<1> DEFINE s == [proc[p] EXCEPT !.at = "load"]
<1>1. proc[p] \in State /\ Good(p, proc[p])
  BY DEF Inv, Types
<1>2. /\ s \in State /\ s.at = "load" /\ s.cmd = proc[p].cmd
      /\ s.cmd = "bind" => s.caps \in CapabilitySets
      /\ s.cmd \in {"bind", "rebind", "disable", "enable", "serve"}
      /\ Becomes(p, s)
  BY <1>1 DEF LockMapping, State, Steps, Good, Path, Goto, Becomes
<1> HIDE DEF s
<1>3. /\ proc' \in [Procs -> State]
      /\ proc'[p] = s
      /\ \A q \in Procs : q # p => proc'[q] = proc[q]
  BY <1>2, Moved
<1>4. Good(p, proc[p])'
  BY <1>2, <1>3 DEF Good, Path, Locking, HoldsMap, HoldsOp, Reading, Drafting, Seeing, LockMapping
<1>5. ASSUME NEW q \in Procs, q # p PROVE Good(q, proc[q])'
  <2>1. Good(q, proc[q]) /\ proc'[q] = proc[q] /\ mapLock = NoProc /\ q # NoProc
    BY <1>3, <1>5, UserAccessAssumption DEF Inv, LockMapping
  <2>2. Locking(q, proc[q])'
    BY <1>5, <2>1 DEF Good, Locking, HoldsMap, HoldsOp, LockMapping
  <2> QED
    BY <2>1, <2>2 DEF Good, Path, Reading, Drafting, Seeing, HoldsMap, HoldsOp,
                      LockMapping, mapping
<1>6. Types'
  BY <1>3 DEF Inv, Types, LockMapping, mapping
<1> QED
  BY <1>4, <1>5, <1>6 DEF Inv, LockMapping, mapping, AcknowledgedIsDurable, Unique

LEMMA LoadBindKeeps ==
  ASSUME Inv, NEW p \in Procs, LoadBind(p)
  PROVE  Inv'
<1> DEFINE u == proc[p].user
           draft == [account |-> world.account, keybag |-> world.keybag[u],
                     apple |-> proc[p].apple, capabilities |-> proc[p].caps,
                     enabled |-> FALSE]
           s == [Loaded(p) EXCEPT !.draft = draft, !.at = "recheck"]
<1>1. proc[p] \in State /\ Good(p, proc[p]) /\ file \in Mappings /\ world \in World
  BY DEF Inv, Types
<1>2. draft \in Mapping /\ draft.enabled = FALSE
  BY <1>1 DEF LoadBind, Is, Good, Path, State, World, Mapping
<1>3. /\ s \in State /\ s.at = "recheck" /\ s.cmd = "bind" /\ s.loaded = file
      /\ s.draft = draft /\ s.user = u /\ s.caps \in CapabilitySets
  <2>1. /\ Loaded(p) \in State /\ Loaded(p).caps \in CapabilitySets /\ Loaded(p).cmd = "bind" /\ Loaded(p).loaded = file
        /\ Loaded(p).user = u
    BY <1>1 DEF LoadBind, Is, Loaded, State, Good, Path
  <2> HIDE DEF draft, u
  <2> QED
    BY <1>2, <2>1 DEF State, Steps
<1>4. Unique([file EXCEPT ![u] = draft]) /\ Local(p, s) /\ mapLock = p
  BY <1>1 DEF LoadBind, Is, AccountGeneration, KeybagDigest, Good, Locking, HoldsMap
<1> HIDE DEF s, draft, u
<1>5. Good(p, s)
  BY <1>2, <1>3, <1>4 DEF Good, Path, Locking, HoldsMap, HoldsOp, Reading, Drafting, Seeing
<1> QED
  BY <1>3, <1>4, <1>5, LocalKeeps DEF Local

(* The records of the other users, and the Apple user, stay. *)
LEMMA SameApple ==
  ASSUME NEW set \in Mappings, Unique(set), NEW u \in Users, NEW m \in Mapping,
         set[u] # NoMapping, m.apple = set[u].apple
  PROVE  Unique([set EXCEPT ![u] = m])
  BY DEF Mappings, Unique

LEMMA LoadRebindKeeps ==
  ASSUME Inv, NEW p \in Procs, LoadRebind(p)
  PROVE  Inv'
<1> DEFINE u == proc[p].user
           draft == [file[u] EXCEPT !.account = world.account, !.enabled = FALSE]
           s == [Loaded(p) EXCEPT !.draft = draft, !.at = "recheck"]
<1>1. /\ proc[p] \in State /\ Good(p, proc[p]) /\ file \in Mappings /\ world \in World
      /\ Unique(file) /\ u \in Users
  BY DEF Inv, Types, State
<1>2. /\ draft \in Mapping /\ draft.enabled = FALSE /\ draft.apple = file[u].apple
      /\ file[u] # NoMapping
  BY <1>1 DEF LoadRebind, Mappings, World, Mapping
<1>3. /\ s \in State /\ s.at = "recheck" /\ s.cmd = "rebind" /\ s.loaded = file
      /\ s.draft = draft /\ s.user = u
  <2>1. /\ Loaded(p) \in State /\ Loaded(p).cmd = "rebind" /\ Loaded(p).loaded = file
        /\ Loaded(p).user = u
    BY <1>1 DEF LoadRebind, Is, Loaded, State
  <2> HIDE DEF draft, u
  <2> QED
    BY <1>2, <2>1 DEF State, Steps
<1>4. Local(p, s) /\ mapLock = p
  BY <1>1 DEF LoadRebind, Is, AccountGeneration, Good, Locking, HoldsMap
<1> HIDE DEF s, draft, u
<1>5. Unique([file EXCEPT ![u] = draft])
  BY <1>1, <1>2, SameApple
<1>6. Good(p, s)
  BY <1>2, <1>3, <1>4, <1>5 DEF Good, Path, Locking, HoldsMap, HoldsOp, Reading, Drafting, Seeing
<1> QED
  BY <1>3, <1>4, <1>6, LocalKeeps DEF Local

LEMMA LoadDisableKeeps ==
  ASSUME Inv, NEW p \in Procs, LoadDisable(p)
  PROVE  Inv'
<1> DEFINE u == proc[p].user
           draft == [file[u] EXCEPT !.enabled = FALSE]
           s == [Loaded(p) EXCEPT !.draft = draft, !.at = "publish"]
<1>1. /\ proc[p] \in State /\ Good(p, proc[p]) /\ file \in Mappings
      /\ Unique(file) /\ u \in Users
  BY DEF Inv, Types, State
<1>2. /\ draft \in Mapping /\ draft.enabled = FALSE /\ draft.apple = file[u].apple
      /\ file[u] # NoMapping
  BY <1>1 DEF LoadDisable, Mappings, Mapping
<1>3. /\ s \in State /\ s.at = "publish" /\ s.cmd = "disable" /\ s.loaded = file
      /\ s.draft = draft /\ s.user = u
  <2>1. /\ Loaded(p) \in State /\ Loaded(p).cmd = "disable" /\ Loaded(p).loaded = file
        /\ Loaded(p).user = u
    BY <1>1 DEF LoadDisable, Is, Loaded, State
  <2> HIDE DEF draft, u
  <2> QED
    BY <1>2, <2>1 DEF State, Steps
<1>4. Local(p, s) /\ mapLock = p
  BY <1>1 DEF LoadDisable, Is, Good, Locking, HoldsMap
<1> HIDE DEF s, draft, u
<1>5. Unique([file EXCEPT ![u] = draft])
  BY <1>1, <1>2, SameApple
<1>6. Good(p, s)
  BY <1>2, <1>3, <1>4, <1>5 DEF Good, Path, Locking, HoldsMap, HoldsOp, Reading, Drafting, Seeing
<1> QED
  BY <1>3, <1>4, <1>6, LocalKeeps DEF Local

LEMMA RecheckDraftKeeps ==
  ASSUME Inv, NEW p \in Procs, RecheckDraft(p)
  PROVE  Inv'
<1> DEFINE s == [proc[p] EXCEPT !.at = "publish"]
<1>1. /\ proc[p] \in State /\ Good(p, proc[p])
      /\ proc[p].cmd \in {"bind", "rebind"} /\ proc[p].at = "recheck"
  BY DEF Inv, Types, RecheckDraft
<1>2. /\ s \in State /\ s.at = "publish" /\ s.cmd = proc[p].cmd /\ s.caps = proc[p].caps
      /\ s.loaded = proc[p].loaded /\ s.draft = proc[p].draft /\ s.user = proc[p].user
  BY <1>1 DEF State, Steps
<1>3. Local(p, s)
  BY DEF RecheckDraft
<1> HIDE DEF s
<1>4. Good(p, s)
  BY <1>1, <1>2 DEF Good, Path, Locking, HoldsMap, HoldsOp, Reading, Drafting, Seeing
<1> QED
  BY <1>2, <1>3, <1>4, LocalKeeps DEF Local

LEMMA PublishRenameKeeps ==
  ASSUME Inv, NEW p \in Procs, PublishRename(p)
  PROVE  Inv'
<1> DEFINE u == proc[p].user
           s == [proc[p] EXCEPT !.at = "sync"]
<1>1. /\ proc[p] \in State /\ Good(p, proc[p]) /\ proc[p].at = "publish" /\ u \in Users
  BY DEF Inv, Types, State, PublishRename
<1>2. /\ s \in State /\ s.at = "sync" /\ s.cmd = proc[p].cmd /\ s.caps = proc[p].caps
      /\ s.first = proc[p].first /\ Becomes(p, s)
  BY <1>1 DEF State, Steps, PublishRename, Goto, Becomes
<1> HIDE DEF s
<1>3. /\ proc' \in [Procs -> State]
      /\ proc'[p] = s
      /\ \A q \in Procs : q # p => proc'[q] = proc[q]
  BY <1>2, Moved
<1>4. HoldsMap(proc[p]) /\ mapLock = p
  BY <1>1 DEF Good, Path, State, Locking, HoldsMap
<1>5. proc[p].draft \in Mapping /\ Unique([file EXCEPT ![u] = proc[p].draft])
  BY <1>1 DEF Good, Drafting, PublishRename
<1>6. file' \in Mappings /\ Unique(file') /\ latest' \in Mappings
  BY <1>1, <1>5 DEF PublishRename, Inv, Types, Mappings
<1>7. AcknowledgedIsDurable'
  BY <1>1 DEF PublishRename, Inv, Types, Mappings, AcknowledgedIsDurable
<1>8. Good(p, proc[p])'
  BY <1>1, <1>2, <1>3, <1>4 DEF Good, Path, Locking, HoldsMap, HoldsOp, Reading, Drafting, Seeing, PublishRename
<1>9. ASSUME NEW q \in Procs, q # p PROVE Good(q, proc[q])'
  <2>1. Good(q, proc[q]) /\ proc'[q] = proc[q] /\ ~HoldsMap(proc[q]) /\ proc[q] \in State
    BY <1>3, <1>4, <1>9 DEF Inv, Good, Locking, Types
  <2>2. Path(proc[q])' /\ Locking(q, proc[q])' /\ Seeing(proc[q])'
    BY <2>1 DEF Good, Path, Locking, Seeing, HoldsMap, HoldsOp, PublishRename
  <2>3. Reading(proc[q])' /\ Drafting(proc[q])'
    BY <2>1 DEF Good, Path, Reading, Drafting, HoldsMap, State
  <2> QED
    BY <2>2, <2>3 DEF Good
<1>10. Types'
  BY <1>3, <1>6 DEF Inv, Types, PublishRename
<1> QED
  BY <1>6, <1>7, <1>8, <1>9, <1>10 DEF Inv, PublishRename, Unique

LEMMA PublishSyncKeeps ==
  ASSUME Inv, NEW p \in Procs, PublishSync(p)
  PROVE  Inv'
<1>1. /\ proc[p] \in State /\ file \in Mappings /\ latest \in Mappings
      /\ proc[p].user \in Users /\ proc[p].loaded \in Mappings
      /\ proc[p].draft \in Mapping \cup {NoMapping}
  BY DEF Inv, Types, State
<1>2. file[proc[p].user] = proc[p].draft
  BY <1>1 DEF PublishSync, Mappings
<1>3. latest' \in Mappings
  BY <1>1 DEF PublishSync, Mappings
<1>4. AcknowledgedIsDurable'
  BY <1>1, <1>2 DEF PublishSync, Mappings, Inv, AcknowledgedIsDurable
<1> QED
  BY <1>3, <1>4, ExitKeeps DEF PublishSync, Inv, Types

LEMMA EnterLiveKeeps ==
  ASSUME Inv, NEW p \in Procs, EnterLive(p)
  PROVE  Inv'
<1> DEFINE s == [proc[p] EXCEPT !.bridge = world.bridge,
                                !.at = IF proc[p].cmd = "manage" THEN "change" ELSE "first"]
<1>1. /\ proc[p] \in State /\ Good(p, proc[p]) /\ proc[p].at = "enter"
      /\ world.bridge \in Nat
  BY DEF Inv, Types, World, EnterLive
<1>2. /\ s \in State /\ s.cmd = proc[p].cmd /\ s.user = proc[p].user /\ s.op = proc[p].op
      /\ s.loaded = proc[p].loaded
      /\ s.at = IF proc[p].cmd = "manage" THEN "change" ELSE "first"
      /\ s.cmd \in {"enable", "serve", "manage"}
      /\ Becomes(p, s)
  BY <1>1 DEF State, Steps, EnterLive, Good, Path
<1> HIDE DEF s
<1>3. /\ proc' \in [Procs -> State]
      /\ proc'[p] = s
      /\ \A q \in Procs : q # p => proc'[q] = proc[q]
  BY <1>2, Moved
<1>4. /\ opLock = NoProc /\ opLock' = p
      /\ UNCHANGED <<file, durable, latest, world, catacomb, mapLock>>
  BY DEF EnterLive, TakeOperationLock, mapping
<1>5. Good(p, proc[p])'
  BY <1>1, <1>2, <1>3, <1>4 DEF Good, Path, Locking, HoldsMap, HoldsOp, Reading, Drafting, Seeing
<1>6. ASSUME NEW q \in Procs, q # p PROVE Good(q, proc[q])'
  <2>1. Good(q, proc[q]) /\ proc'[q] = proc[q] /\ q # NoProc
    BY <1>3, <1>6, UserAccessAssumption DEF Inv
  <2>2. Locking(q, proc[q])'
    BY <1>4, <1>6, <2>1 DEF Good, Locking, HoldsMap, HoldsOp
  <2> QED
    BY <1>4, <2>1, <2>2 DEF Good, Path, Reading, Drafting, Seeing, HoldsMap, HoldsOp
<1>7. Types'
  BY <1>3, <1>4 DEF Inv, Types
<1> QED
  BY <1>4, <1>5, <1>6, <1>7 DEF Inv, AcknowledgedIsDurable, Unique

LEMMA ManageKeeps ==
  ASSUME Inv, NEW p \in Procs, Manage(p)
  PROVE  Inv'
<1>1. opLock = p
  BY DEF Manage, Is, Inv, Good, Locking, HoldsOp
<1>2. catacomb' \in [version : Nat, clean : BOOLEAN]
  BY DEF Manage, Inv, Types
<1> QED
  BY <1>1, <1>2, ExitKeeps DEF Manage, mapping, Inv, Types, AcknowledgedIsDurable

LEMMA LoadEnableKeeps ==
  ASSUME Inv, NEW p \in Procs, LoadEnable(p)
  PROVE  Inv'
<1> DEFINE s == [Loaded(p) EXCEPT !.at = "enter"]
<1>1. /\ proc[p] \in State /\ Good(p, proc[p]) /\ file \in Mappings
      /\ proc[p].cmd = "enable" /\ proc[p].at = "load" /\ proc[p].user \in Users
      /\ file[proc[p].user] # NoMapping /\ Local(p, s)
  BY DEF Inv, Types, State, LoadEnable, Is
<1>2. /\ s \in State /\ s.at = "enter" /\ s.cmd = "enable" /\ s.loaded = file
      /\ s.user = proc[p].user
  BY <1>1 DEF Loaded, State, Steps
<1> HIDE DEF s
<1>3. file[s.user] \in Mapping \ {NoMapping}
  BY <1>1, <1>2 DEF Mappings
<1>4. Good(p, s)
  BY <1>1, <1>2, <1>3 DEF Good, Path, Locking, HoldsMap, HoldsOp, Reading, Drafting, Seeing
<1> QED
  BY <1>1, <1>2, <1>4, LocalKeeps DEF Local

(* With a capability at least, a ready mapping was observed as ready. *)
LEMMA ReadyAlias ==
  ASSUME NEW m \in Mapping, NEW observed, Ready(m, observed)
  PROVE  observed.alias = "ready"
<1>1. m.capabilities # {}
  BY UserAccessAssumption DEF Mapping
<1>2. PICK capability \in m.capabilities :
        Assess([m EXCEPT !.enabled = TRUE], capability, observed) = "ready"
  BY <1>1 DEF Ready
<1> QED
  BY <1>2 DEF Assess

LEMMA EnableFirstKeeps ==
  ASSUME Inv, NEW p \in Procs, EnableFirst(p)
  PROVE  Inv'
<1> DEFINE o == Observation(Selected(p))
           s == [proc[p] EXCEPT !.first = o, !.at = "recheck"]
<1>1. /\ proc[p] \in State /\ Good(p, proc[p]) /\ Local(p, s)
      /\ proc[p].cmd = "enable" /\ proc[p].at = "first" /\ Ready(Selected(p), o)
  BY DEF Inv, Types, EnableFirst, Is
<1>2. Selected(p) \in Mapping
  BY <1>1 DEF Good, Drafting, Selected
<1>3. o \in [version : Nat, alias : Aliases] /\ o.version = catacomb.version
  BY <1>2 DEF Observation, Inv, Types, World, Mapping
<1>4. o.alias = "ready"
  BY <1>1, <1>2, ReadyAlias
<1> HIDE DEF o
<1>5. /\ s \in State /\ s.at = "recheck" /\ s.cmd = "enable" /\ s.loaded = proc[p].loaded
      /\ s.user = proc[p].user /\ s.first = o
  BY <1>1, <1>3 DEF State, Steps
<1> HIDE DEF s
<1>6. Good(p, s)
  BY <1>1, <1>3, <1>4, <1>5 DEF Good, Path, Locking, HoldsMap, HoldsOp, Reading, Drafting, Seeing
<1> QED
  BY <1>1, <1>5, <1>6, LocalKeeps DEF Local

LEMMA EnableRecheckKeeps ==
  ASSUME Inv, NEW p \in Procs, EnableRecheck(p)
  PROVE  Inv'
<1> DEFINE s == [proc[p] EXCEPT !.at = "second"]
<1>1. /\ proc[p] \in State /\ Good(p, proc[p]) /\ Local(p, s)
      /\ proc[p].cmd = "enable" /\ proc[p].at = "recheck"
  BY DEF Inv, Types, EnableRecheck, Is
<1>2. /\ s \in State /\ s.at = "second" /\ s.cmd = "enable" /\ s.loaded = proc[p].loaded
      /\ s.user = proc[p].user /\ s.first = proc[p].first
  BY <1>1 DEF State, Steps
<1> HIDE DEF s
<1>3. Good(p, s)
  BY <1>1, <1>2 DEF Good, Path, Locking, HoldsMap, HoldsOp, Reading, Drafting, Seeing
<1> QED
  BY <1>1, <1>2, <1>3, LocalKeeps DEF Local

LEMMA EnableSecondKeeps ==
  ASSUME Inv, NEW p \in Procs, EnableSecond(p)
  PROVE  Inv'
<1> DEFINE m == Selected(p)
           draft == [m EXCEPT !.enabled = TRUE]
           s == [proc[p] EXCEPT !.draft = draft, !.at = "publish"]
<1>1. /\ proc[p] \in State /\ Good(p, proc[p]) /\ Local(p, s)
      /\ proc[p].cmd = "enable" /\ proc[p].at = "second"
      /\ file \in Mappings /\ Unique(file) /\ proc[p].user \in Users
  BY DEF Inv, Types, State, EnableSecond, Is
<1>2. /\ m \in Mapping /\ proc[p].loaded = file
      /\ m = file[proc[p].user] /\ m # NoMapping
  BY <1>1 DEF Good, Drafting, Reading, HoldsMap, Selected
<1>3. draft \in Mapping /\ draft.enabled = TRUE /\ draft.apple = m.apple
  BY <1>2 DEF Mapping
<1>4. Unique([file EXCEPT ![proc[p].user] = draft])
  <2> HIDE DEF draft, m
  <2> QED
    BY <1>1, <1>2, <1>3, SameApple
<1>5. /\ s \in State /\ s.at = "publish" /\ s.cmd = "enable" /\ s.loaded = proc[p].loaded
      /\ s.user = proc[p].user /\ s.first = proc[p].first /\ s.draft = draft
  <2> HIDE DEF draft
  <2> QED
    BY <1>1, <1>3 DEF State, Steps
<1>6. Drafting(s)
  BY <1>2, <1>3, <1>4, <1>5 DEF Drafting
<1> HIDE DEF s
<1>7. Good(p, s)
  BY <1>1, <1>5, <1>6 DEF Good, Path, Locking, HoldsMap, HoldsOp, Reading, Drafting, Seeing
<1> QED
  BY <1>1, <1>5, <1>7, LocalKeeps DEF Local

-----------------------------------------------------------------------------
(* The broker. *)

LEMMA LoadServeKeeps ==
  ASSUME Inv, NEW p \in Procs, LoadServe(p)
  PROVE  Inv'
<1> DEFINE s == [Loaded(p) EXCEPT !.at = "enter"]
<1>1. /\ proc[p] \in State /\ Good(p, proc[p]) /\ file \in Mappings
      /\ proc[p].cmd = "serve" /\ proc[p].at = "load" /\ Local(p, s)
      /\ Permits(file[proc[p].user], CapabilityOf(proc[p].op))
  BY DEF Inv, Types, LoadServe, Is
<1>2. /\ s \in State /\ s.at = "enter" /\ s.cmd = "serve" /\ s.loaded = file
      /\ s.user = proc[p].user /\ s.op = proc[p].op
  BY <1>1 DEF Loaded, State, Steps
<1> HIDE DEF s
<1>3. Good(p, s)
  BY <1>1, <1>2 DEF Good, Path, Locking, HoldsMap, HoldsOp, Reading, Drafting, Seeing
<1> QED
  BY <1>1, <1>2, <1>3, LocalKeeps DEF Local

LEMMA ServeFirstKeeps ==
  ASSUME Inv, NEW p \in Procs, ServeFirst(p)
  PROVE  Inv'
<1> DEFINE o == Observation(Selected(p))
           s == [proc[p] EXCEPT !.first = o, !.at = "grant"]
<1>1. /\ proc[p] \in State /\ Good(p, proc[p]) /\ Local(p, s)
      /\ proc[p].cmd = "serve" /\ proc[p].at = "first"
  BY DEF Inv, Types, ServeFirst, Is
<1>2. Selected(p) \in Mapping
  BY <1>1 DEF Good, Reading, Permits, Selected, State, Mappings
<1>3. o \in [version : Nat, alias : Aliases] /\ o.version = catacomb.version
  BY <1>2 DEF Observation, Inv, Types, World, Mapping
<1> HIDE DEF o
<1>4. /\ s \in State /\ s.at = "grant" /\ s.cmd = "serve" /\ s.loaded = proc[p].loaded
      /\ s.user = proc[p].user /\ s.op = proc[p].op /\ s.first = o
  BY <1>1, <1>3 DEF State, Steps
<1> HIDE DEF s
<1>5. Good(p, s)
  BY <1>1, <1>3, <1>4 DEF Good, Path, Locking, HoldsMap, HoldsOp, Reading, Drafting, Seeing
<1> QED
  BY <1>1, <1>4, <1>5, LocalKeeps DEF Local

(* A later step of the broker or its consumer keeps what was loaded and *)
(* observed, and both locks.                                            *)
Serving ==
    {"grant", "activation", "recheck", "second", "handoff", "third", "bound", "prepare",
     "dispatch"}

LEMMA ServeMove ==
  ASSUME Inv, NEW p \in Procs, NEW s \in State, Local(p, s),
         proc[p].cmd = "serve", proc[p].at \in Serving,
         s.cmd = "serve", s.at \in Serving \cup {"mutate"},
         s.user = proc[p].user, s.op = proc[p].op,
         s.loaded = proc[p].loaded, s.first = proc[p].first,
         s.at \in {"dispatch", "mutate"} => s.material = catacomb.version
  PROVE  Inv'
<1>1. Good(p, proc[p])
  BY DEF Inv
<1>2. Good(p, s)
  BY <1>1 DEF Good, Path, Locking, HoldsMap, HoldsOp, Reading, Drafting, Seeing, Serving
<1> QED
  BY <1>2, LocalKeeps DEF Local

LEMMA CollectGrantKeeps ==
  ASSUME Inv, NEW p \in Procs, CollectGrant(p)
  PROVE  Inv'
<1>1. proc[p] \in State /\ world.clock + Lifetime \in Nat
  BY UserAccessAssumption DEF Inv, Types, World
<1>2. PICK grant \in BOOLEAN, ask \in BOOLEAN :
        Local(p, [proc[p] EXCEPT !.grant = grant, !.expires = world.clock + Lifetime,
                                 !.at = IF ask THEN "activation" ELSE "recheck"])
  BY DEF CollectGrant, PolkitAnswers
<1> DEFINE expires == world.clock + Lifetime
           at == IF ask THEN "activation" ELSE "recheck"
           s == [proc[p] EXCEPT !.grant = grant, !.expires = expires, !.at = at]
<1>3. /\ s \in State /\ s.at \in {"activation", "recheck"} /\ s.cmd = proc[p].cmd
      /\ s.user = proc[p].user /\ s.op = proc[p].op /\ s.loaded = proc[p].loaded
      /\ s.first = proc[p].first
  <2>1. proc[p] \in State /\ expires \in Nat /\ at \in {"activation", "recheck"}
    BY <1>1
  <2> HIDE DEF expires, at
  <2>2. PICK t \in State, n \in Nat, a \in {"activation", "recheck"} :
          t = proc[p] /\ n = expires /\ a = at
    BY <2>1
  <2>3. s = [t EXCEPT !.grant = grant, !.expires = n, !.at = a]
    BY <2>2, Zenon
  <2> HIDE DEF s
  <2>4. /\ s \in State /\ s.at \in {"activation", "recheck"} /\ s.cmd = t.cmd
        /\ s.user = t.user /\ s.op = t.op /\ s.loaded = t.loaded
        /\ s.first = t.first
    BY <2>3 DEF State, Steps
  <2> QED
    BY <2>2, <2>4
<1> HIDE DEF s
<1> QED
  BY <1>2, <1>3, ServeMove DEF CollectGrant, Is, Serving, s

LEMMA CollectActivationGrantKeeps ==
  ASSUME Inv, NEW p \in Procs, CollectActivationGrant(p)
  PROVE  Inv'
<1>1. proc[p] \in State
  BY DEF Inv, Types
<1>2. PICK grant \in BOOLEAN :
        Local(p, [proc[p] EXCEPT !.activation = grant, !.at = "recheck"])
  BY DEF CollectActivationGrant, PolkitAnswers
<1> DEFINE s == [proc[p] EXCEPT !.activation = grant, !.at = "recheck"]
<1>3. /\ s \in State /\ s.at = "recheck" /\ s.cmd = proc[p].cmd
      /\ s.user = proc[p].user /\ s.op = proc[p].op /\ s.loaded = proc[p].loaded
      /\ s.first = proc[p].first
  BY <1>1 DEF State, Steps
<1> HIDE DEF s
<1> QED
  BY <1>2, <1>3, ServeMove DEF CollectActivationGrant, Is, Serving, s

LEMMA ServeAuthorizeKeeps ==
  ASSUME Inv, NEW p \in Procs, ServeAuthorize(p)
  PROVE  Inv'
<1> DEFINE stage == Authorize(Selected(p), proc[p])
           s == [proc[p] EXCEPT !.stage = stage, !.at = "handoff"]
<1>1. proc[p] \in State /\ Local(p, s) /\ Is(p, "serve", "second")
  BY DEF Inv, Types, ServeAuthorize
<1>2. stage \in {"denied", "operate", "activate"}
  BY DEF Authorize
<1> HIDE DEF stage
<1>3. /\ s \in State /\ s.at = "handoff" /\ s.cmd = proc[p].cmd
      /\ s.user = proc[p].user /\ s.op = proc[p].op /\ s.loaded = proc[p].loaded
      /\ s.first = proc[p].first
  <2>1. ASSUME NEW t \in State, NEW g \in {"denied", "operate", "activate"}, NEW x,
               x = [t EXCEPT !.stage = g, !.at = "handoff"]
        PROVE  /\ x \in State /\ x.at = "handoff" /\ x.cmd = t.cmd
               /\ x.user = t.user /\ x.op = t.op /\ x.loaded = t.loaded
               /\ x.first = t.first
    BY <2>1 DEF State, Steps
  <2> QED
    BY <2>1, <1>1, <1>2
<1> HIDE DEF s
<1> QED
  BY <1>1, <1>3, ServeMove DEF Is, Serving

(* The steps that only go on. *)
LEMMA ServeGoesOn ==
  ASSUME Inv, NEW p \in Procs,
         \/ ServeRecheck(p) \/ ServeHandoff(p) \/ ServeThird(p) \/ ServeBound(p)
         \/ AllowDispatch(p)
  PROVE  Inv'
<1>1. PICK at \in {"second", "third", "bound", "prepare", "mutate"} :
        /\ Local(p, [proc[p] EXCEPT !.at = at])
        /\ proc[p].cmd = "serve" /\ proc[p].at \in Serving
        /\ at = "mutate" => proc[p].at = "dispatch"
  BY DEF ServeRecheck, ServeHandoff, ServeThird, ServeBound, AllowDispatch, Consumes, Is,
         Serving
<1> DEFINE s == [proc[p] EXCEPT !.at = at]
<1>2. proc[p] \in State /\ Good(p, proc[p])
  BY DEF Inv, Types
<1>3. /\ s \in State /\ s.at = at /\ s.cmd = proc[p].cmd
      /\ s.user = proc[p].user /\ s.op = proc[p].op /\ s.loaded = proc[p].loaded
      /\ s.first = proc[p].first /\ s.material = proc[p].material
  BY <1>2 DEF State, Steps
<1>4. at = "mutate" => proc[p].material = catacomb.version
  BY <1>1, <1>2 DEF Good, Seeing
<1> HIDE DEF s
<1> QED
  BY <1>1, <1>3, <1>4, ServeMove DEF Serving, s

LEMMA PrepareMaterialKeeps ==
  ASSUME Inv, NEW p \in Procs, PrepareMaterial(p)
  PROVE  Inv'
<1> DEFINE s == [proc[p] EXCEPT !.material = catacomb.version, !.at = "dispatch"]
<1>1. proc[p] \in State /\ Local(p, s) /\ Is(p, "serve", "prepare") /\ catacomb.version \in Nat
  BY DEF Inv, Types, PrepareMaterial, Consumes
<1>2. /\ s \in State /\ s.at = "dispatch" /\ s.cmd = proc[p].cmd
      /\ s.user = proc[p].user /\ s.op = proc[p].op /\ s.loaded = proc[p].loaded
      /\ s.first = proc[p].first /\ s.material = catacomb.version
  BY <1>1 DEF State, Steps
<1> HIDE DEF s
<1> QED
  BY <1>1, <1>2, ServeMove DEF Is, Serving

LEMMA MutateKeeps ==
  ASSUME Inv, NEW p \in Procs, NEW op, Mutate(p, op)
  PROVE  Inv'
<1>1. opLock = p
  BY DEF Mutate, Is, Inv, Good, Locking, HoldsOp
<1>2. catacomb' \in [version : Nat, clean : BOOLEAN]
  BY DEF Mutate, Inv, Types
<1> QED
  BY <1>1, <1>2, ExitKeeps DEF Mutate, mapping, Inv, Types, AcknowledgedIsDurable

(* A command ends, fails or is stopped with nothing else changed. *)
LEMMA EndKeeps ==
  ASSUME Inv, NEW p \in Procs, ReturnInventory(p) \/ Fail(p) \/ Stop(p)
  PROVE  Inv'
<1>1. Exit(p) /\ UNCHANGED <<mapping, world, catacomb>>
  BY DEF ReturnInventory, Fail, Stop, Exit
<1> QED
  BY <1>1, ExitKeeps DEF mapping, Inv, Types, AcknowledgedIsDurable

-----------------------------------------------------------------------------
(* The outside. *)

LEMMA PowerLossKeeps ==
  ASSUME Inv, PowerLoss
  PROVE  Inv'
<1>1. file' \in Mappings /\ durable' = file' /\ latest' = latest /\ Unique(file')
  BY DEF PowerLoss, Inv, Types
<1>2. AcknowledgedIsDurable'
  BY <1>1 DEF PowerLoss, Inv, AcknowledgedIsDurable
<1>3. world' \in World
  <2>1. PICK alias \in AliasStates :
          world' = [world EXCEPT !.bridge = @ + 1, !.alias = [a \in AppleUsers |-> alias]]
    BY DEF PowerLoss
  <2>2. ASSUME NEW w \in World, NEW bridge \in Nat, NEW f \in [AppleUsers -> Aliases]
        PROVE  [w EXCEPT !.bridge = bridge, !.alias = f] \in World
    BY DEF World
  <2>3. /\ world \in World /\ world.bridge + 1 \in Nat
        /\ [a \in AppleUsers |-> alias] \in [AppleUsers -> Aliases]
    BY DEF Inv, Types, World, Aliases
  <2> QED
    BY <2>1, <2>2, <2>3, Zenon
<1>4. \A p \in Procs : proc'[p] = Idle /\ p \notin {mapLock', opLock'}
  BY UserAccessAssumption DEF PowerLoss
<1>5. Types'
  BY <1>1, <1>3, IdleState DEF PowerLoss, Inv, Types
<1>6. ASSUME NEW p \in Procs PROVE Good(p, proc[p])'
  <2>1. proc'[p].cmd = "none" /\ proc'[p].at = "none"
    BY <1>4 DEF Idle
  <2> QED
    BY <1>4, <2>1 DEF Good, Path, Locking, HoldsMap, HoldsOp, Reading, Drafting, Seeing
<1> QED
  BY <1>1, <1>2, <1>5, <1>6 DEF Inv

LEMMA WorldKeeps ==
  ASSUME Inv, world' \in World,
         UNCHANGED <<mapping, catacomb, mapLock, opLock, proc>>
  PROVE  Inv'
<1>1. Types'
  BY DEF Inv, Types, mapping
<1>2. ASSUME NEW p \in Procs PROVE Good(p, proc[p])'
  <2>1. Good(p, proc[p])
    BY DEF Inv
  <2>2. Path(proc[p])' /\ Locking(p, proc[p])' /\ Seeing(proc[p])'
    BY <2>1 DEF Good, Path, Locking, Seeing, HoldsMap, HoldsOp
  <2>3. Reading(proc[p])' /\ Drafting(proc[p])'
    BY <2>1 DEF mapping, Good, Reading, Drafting, HoldsMap
  <2> QED
    BY <2>2, <2>3 DEF Good
<1> QED
  BY <1>1, <1>2 DEF Inv, mapping, AcknowledgedIsDurable, Unique

LEMMA CallerLeavesKeeps ==
  ASSUME Inv, NEW p \in Procs, CallerLeaves(p)
  PROVE  Inv'
<1> DEFINE s == [proc[p] EXCEPT !.alive = FALSE]
<1>1. proc[p] \in State /\ Good(p, proc[p])
  BY DEF Inv, Types
<1>2. Becomes(p, s)
  BY DEF CallerLeaves, Becomes
<1>3. /\ s \in State /\ s.cmd = proc[p].cmd /\ s.at = proc[p].at /\ s.caps = proc[p].caps
      /\ s.user = proc[p].user /\ s.op = proc[p].op /\ s.loaded = proc[p].loaded
      /\ s.draft = proc[p].draft /\ s.first = proc[p].first
      /\ s.material = proc[p].material
  BY <1>1 DEF State
<1> HIDE DEF s
<1>4. Path(s) /\ Locking(p, s) /\ Seeing(s)
  BY <1>1, <1>3 DEF Good, Path, Locking, Seeing, HoldsMap, HoldsOp
<1>5. Reading(s) /\ Drafting(s)
  BY <1>1, <1>3 DEF Good, Reading, Drafting, HoldsMap
<1> QED
  BY <1>2, <1>3, <1>4, <1>5, LocalKeeps DEF Good, CallerLeaves

LEMMA OutsideKeeps ==
  ASSUME Inv, Outside
  PROVE  Inv'
<1>1. world \in World
  BY DEF Inv, Types
<1>2. CASE PowerLoss
  BY <1>2, PowerLossKeeps
<1>3. CASE AccountChanges \/ BridgeRestarts \/ ClockTicks \/ ConfigurationChanges
  <2>1. world' \in World
    BY <1>1, <1>3 DEF AccountChanges, BridgeRestarts, ClockTicks, ConfigurationChanges,
                      OutsideChanges, World
  <2> QED
    BY <1>3, <2>1, WorldKeeps DEF AccountChanges, BridgeRestarts, ClockTicks,
                                  ConfigurationChanges, OutsideChanges
<1>4. CASE KeybagChanges
  <2>1. PICK u \in Users : OutsideChanges([world EXCEPT !.keybag[u] = 3 - @])
    BY <1>4 DEF KeybagChanges
  <2>2. world' \in World
    BY <1>1, <2>1 DEF OutsideChanges, World
  <2> QED
    BY <2>1, <2>2, WorldKeeps DEF OutsideChanges
<1>5. CASE AliasChanges
  <2>1. PICK a \in AppleUsers, state \in AliasStates :
          OutsideChanges([world EXCEPT !.alias[a] = state])
    BY <1>5 DEF AliasChanges
  <2>2. world' \in World
    BY <1>1, <2>1 DEF OutsideChanges, World, Aliases
  <2> QED
    BY <2>1, <2>2, WorldKeeps DEF OutsideChanges
<1>6. CASE \E p \in Procs : Stop(p) \/ CallerLeaves(p)
  BY <1>6, EndKeeps, CallerLeavesKeeps
<1> QED
  BY <1>2, <1>3, <1>4, <1>5, <1>6 DEF Outside

LEMMA NextInv == Inv /\ [Next]_vars => Inv'
<1> SUFFICES ASSUME Inv, [Next]_vars PROVE Inv'
  OBVIOUS
<1>1. CASE UNCHANGED vars
  BY <1>1, WorldKeeps DEF vars, mapping, Inv, Types
<1>2. CASE Outside
  BY <1>2, OutsideKeeps
<1>3. ASSUME NEW p \in Procs, Begin(p) \/ Fail(p) PROVE Inv'
  BY <1>3, BeginKeeps, EndKeeps
<1>4. ASSUME NEW p \in Procs, Admin(p) PROVE Inv'
  BY <1>4, CollectAuthorityKeeps, LockMappingKeeps, LoadBindKeeps, LoadRebindKeeps,
     RecheckDraftKeeps, LoadDisableKeeps, PublishRenameKeeps, PublishSyncKeeps,
     LoadEnableKeeps, EnterLiveKeeps, EnableFirstKeeps, EnableRecheckKeeps,
     EnableSecondKeeps, ManageKeeps DEF Admin
<1>5. ASSUME NEW p \in Procs, Serve(p) PROVE Inv'
  BY <1>5, LoadServeKeeps, ServeFirstKeeps, CollectGrantKeeps, CollectActivationGrantKeeps,
     ServeAuthorizeKeeps, ServeGoesOn, EndKeeps, PrepareMaterialKeeps, MutateKeeps
     DEF Serve, Enroll, Delete
<1> QED
  BY <1>1, <1>2, <1>3, <1>4, <1>5 DEF Next

THEOREM Invariant == Spec => []Inv
<1> QED
  BY InitInv, NextInv, PTL DEF Spec

-----------------------------------------------------------------------------

(* A consumer's authority holds until its command is sent: the mapping it   *)
(* was given is the one on disk and permits its operation, however other    *)
(* commands, stops and power losses interleave (run_self_service).          *)
THEOREM BrokerAuthorityStable == Spec => []AuthorityStable
<1>1. Inv => AuthorityStable
  BY DEF Inv, Good, Path, Reading, HoldsMap, AuthorityStable, Consuming
<1> QED
  BY <1>1, Invariant, PTL

(* What bind, rebind, enable or disable reported as done is on disk and     *)
(* survives a power loss until another command replaces it (_publish).      *)
THEOREM MappingAcknowledgedIsDurable == Spec => []AcknowledgedIsDurable
<1>1. Inv => AcknowledgedIsDurable
  BY DEF Inv
<1> QED
  BY <1>1, Invariant, PTL

(* The Catacomb a mutation anchors is the one its authority was given for,  *)
(* and still the current one when the command is sent (the operation lock). *)
THEOREM BrokerMaterialIsReconciled == Spec => []MaterialIsReconciled
<1>1. Inv => MaterialIsReconciled
  <2> SUFFICES ASSUME Inv, NEW p \in Procs, proc[p].at \in {"dispatch", "mutate"}
               PROVE  /\ proc[p].material = proc[p].first.version
                      /\ proc[p].material = catacomb.version
    BY DEF MaterialIsReconciled
  <2>1. Good(p, proc[p]) /\ proc[p] \in State
    BY DEF Inv, Types
  <2>2. HoldsOp(proc[p]) /\ proc[p].at \notin {"first", "change"}
    BY <2>1 DEF Good, Path, HoldsOp, State
  <2> QED
    BY <2>1, <2>2 DEF Good, Seeing
<1> QED
  BY <1>1, Invariant, PTL

LEMMA Changes == Spec => [](changes \in Nat)
<1>1. Init => changes \in Nat
  BY DEF Init
<1>2. changes \in Nat /\ [Next]_vars => (changes \in Nat)'
  <2> SUFFICES ASSUME changes \in Nat, [Next]_vars PROVE changes' \in Nat
    OBVIOUS
  <2>1. CASE Outside
    BY <2>1
       DEF Outside, PowerLoss, AccountChanges, KeybagChanges, ConfigurationChanges,
           AliasChanges, BridgeRestarts, ClockTicks, Stop, CallerLeaves, OutsideChanges,
           counts
  <2>2. ASSUME NEW p \in Procs, Begin(p) \/ Fail(p) PROVE changes' = changes
    BY <2>2 DEF Begin, BeginBind, BeginRebind, BeginDisable, BeginEnable, BeginServe,
                BeginManage, Starts, Fail, counts
  <2>3. ASSUME NEW p \in Procs, Admin(p) PROVE changes' = changes
    BY <2>3 DEF Admin, CollectAuthority, LockMapping, LoadBind, LoadRebind, RecheckDraft,
                LoadDisable, PublishRename, PublishSync, LoadEnable, EnterLive, EnableFirst,
                EnableRecheck, EnableSecond, Manage, Local, counts
  <2>4. ASSUME NEW p \in Procs, Serve(p) PROVE changes' = changes
    BY <2>4 DEF Serve, LoadServe, ServeFirst, CollectGrant, CollectActivationGrant,
                ServeRecheck, ServeAuthorize, ServeHandoff, ServeThird, ServeBound,
                ReturnInventory, PrepareMaterial, AllowDispatch, Enroll, Delete, Mutate,
                Local, counts
  <2>5. CASE UNCHANGED vars
    BY <2>5 DEF vars
  <2> QED
    BY <2>1, <2>2, <2>3, <2>4, <2>5 DEF Next
<1> QED
  BY <1>1, <1>2, PTL DEF Spec

(* A mapping becomes enabled only by an enable that saw it ready in the     *)
(* Catacomb that is still current, and that changes nothing else            *)
(* (enable_reconciled, _require_ready); no other step of any command does.  *)
THEOREM MappingEnabledOnEvidence == Spec => EnabledOnEvidence
<1> DEFINE Evidence ==
      \A u \in Users :
         (file'[u] # NoMapping /\ file'[u].enabled /\ changes' = changes) =>
            \/ file[u] = file'[u]
            \/ \E p \in Procs :
                  /\ proc[p].cmd = "enable" /\ proc[p].user = u
                  /\ proc[p].first = [version |-> catacomb.version, alias |-> "ready"]
                  /\ file' = [file EXCEPT ![u].enabled = TRUE]
<1>1. ASSUME Inv, NEW p \in Procs, PublishRename(p) PROVE Evidence
  <2> DEFINE v == proc[p].user
  <2>1. /\ proc[p] \in State /\ Good(p, proc[p]) /\ proc[p].at = "publish"
        /\ v \in Users /\ file \in Mappings
    BY <1>1 DEF Inv, Types, State, PublishRename
  <2>2. file = proc[p].loaded /\ file' = [file EXCEPT ![v] = proc[p].draft]
    BY <1>1 DEF PublishRename
  <2>3. \A u \in Users : u # v => file'[u] = file[u]
    BY <2>1, <2>2 DEF Mappings
  <2>4. file'[v] = proc[p].draft /\ proc[p].draft.enabled = (proc[p].cmd = "enable")
    BY <2>1, <2>2 DEF Mappings, Good, Drafting
  <2>5. ASSUME proc[p].cmd = "enable"
        PROVE  /\ proc[p].first = [version |-> catacomb.version, alias |-> "ready"]
               /\ file' = [file EXCEPT ![v].enabled = TRUE]
    <3>1. proc[p].first.version = catacomb.version /\ proc[p].first.alias = "ready"
      BY <2>1, <2>5 DEF Good, Seeing, HoldsOp
    <3>2. proc[p].draft = [file[v] EXCEPT !.enabled = TRUE]
      BY <2>1, <2>2, <2>5 DEF Good, Drafting
    <3>3. proc[p].first \in [version : Nat, alias : Aliases]
      BY <2>1 DEF State
    <3>4. proc[p].first = [version |-> catacomb.version, alias |-> "ready"]
      BY <3>1, <3>3
    <3> QED
      BY <2>2, <3>2, <3>4
  <2> QED
    BY <2>1, <2>3, <2>4, <2>5
<1>2. ASSUME changes \in Nat, Next, changes' = changes, ~\E p \in Procs : PublishRename(p)
      PROVE  file' = file
  <2>1. CASE Outside
    BY <1>2, <2>1
       DEF Outside, PowerLoss, AccountChanges, KeybagChanges, ConfigurationChanges,
           AliasChanges, BridgeRestarts, ClockTicks, Stop, CallerLeaves, OutsideChanges,
           mapping
  <2>2. ASSUME NEW p \in Procs, Begin(p) \/ Fail(p) PROVE file' = file
    BY <2>2 DEF Begin, BeginBind, BeginRebind, BeginDisable, BeginEnable, BeginServe,
                BeginManage, Starts, Fail, mapping
  <2>3. ASSUME NEW p \in Procs, Admin(p) PROVE file' = file
    BY <1>2, <2>3 DEF Admin, CollectAuthority, LockMapping, LoadBind, LoadRebind, RecheckDraft,
                LoadDisable, PublishSync, LoadEnable, EnterLive, EnableFirst, EnableRecheck,
                EnableSecond, Manage, Local, mapping
  <2>4. ASSUME NEW p \in Procs, Serve(p) PROVE file' = file
    BY <2>4 DEF Serve, LoadServe, ServeFirst, CollectGrant, CollectActivationGrant,
                ServeRecheck, ServeAuthorize, ServeHandoff, ServeThird, ServeBound,
                ReturnInventory, PrepareMaterial, AllowDispatch, Enroll, Delete, Mutate,
                Local, mapping
  <2> QED
    BY <1>2, <2>1, <2>2, <2>3, <2>4 DEF Next
<1>3. Inv /\ changes \in Nat /\ [Next]_vars => [Evidence]_vars
  BY <1>1, <1>2 DEF vars
<1> QED
  BY <1>3, Invariant, Changes, PTL DEF EnabledOnEvidence, Spec
=============================================================================
