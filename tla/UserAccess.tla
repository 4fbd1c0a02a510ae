----------------------------- MODULE UserAccess -----------------------------
(***************************************************************************)
(* Which Linux user may use which biometric operation: the protected       *)
(* mapping file users.json, the commands that bind, rebind, enable and     *)
(* disable one mapping, and the broker that authorises one request of a    *)
(* caller and hands it to a consumer (inventory, enrollment, deletion).    *)
(*                                                                         *)
(* Every command is a process of its own.  Two locks order them: the       *)
(* mapping lock, for which a process waits, and the operation lock, which  *)
(* a process must find free.  A process may stop anywhere and the machine  *)
(* may lose power; then the kernel has released its locks and a rename     *)
(* that was not synced may be undone.                                      *)
(*                                                                         *)
(* External, and free to change under a running command: the Linux         *)
(* accounts, the keybag files, the configured Apple user, the state of an  *)
(* Apple user's keybag alias, the caller and the bridge connection.  Any   *)
(* other command that changes the Catacomb holds the operation lock.       *)
(***************************************************************************)
EXTENDS Naturals, FiniteSets

CONSTANTS
    Procs,           \* the processes
    Users,           \* the Linux users
    AppleUsers,      \* the Apple users of the machine
    CapabilitySets,  \* the sets of capabilities that are asked for at a bind
    Operations,      \* the operations asked of the broker
    AliasStates,     \* the states of a keybag alias that occur
    NoProc, NoMapping,
    ModificationAllowed,  \* the configured policy on fingerprint mutations
    Lifetime,        \* how long a grant of polkit holds
    MaxCommands,     \* bound: commands begun
    MaxChanges,      \* bound: changes outside, power losses included
    MaxClock         \* bound: the monotonic clock

Capabilities == {"verify", "enroll", "identity-management"}

ASSUME UserAccessAssumption ==
    /\ CapabilitySets \subseteq (SUBSET Capabilities) \ {{}}
    /\ Operations \subseteq {"inventory", "enroll", "delete-one"}
    /\ AliasStates \subseteq {"ready", "locked", "absent", "lockout", "mismatch"}
    /\ NoProc \notin Procs /\ Users # {} /\ AppleUsers # {}
    /\ ModificationAllowed \in BOOLEAN
    /\ {Lifetime, MaxCommands, MaxChanges, MaxClock} \subseteq Nat

VARIABLES
    file,      \* users.json as it is read
    durable,   \* users.json as a power loss may leave it
    world,     \* what is outside: account, keybag, configured, alias, bridge, clock
    catacomb,  \* the reconciled Catacomb of host and SEP: its version, and clean
    mapLock,   \* the process that holds .users.json.lock
    opLock,    \* the process that holds the operation lock
    proc,      \* the processes
    begun, changes,
    latest     \* history: the mapping last acknowledged to the administrator

vars == <<file, durable, world, catacomb, mapLock, opLock, proc, begun, changes, latest>>
mapping == <<file, durable, latest>>
counts == <<begun, changes>>

-----------------------------------------------------------------------------
(* t2_user_mapping. *)

Mapping ==
    [account : Nat, keybag : 1..2, apple : AppleUsers, capabilities : CapabilitySets,
     enabled : BOOLEAN]

Unmapped == [u \in Users |-> NoMapping]

CapabilityOf(op) ==
    CASE op = "inventory" -> "verify"
      [] op = "enroll" -> "enroll"
      [] op = "delete-one" -> "identity-management"

(* UserMapping.permits and UserMappingSet.resolve. *)
Permits(m, capability) == m # NoMapping /\ m.enabled /\ capability \in m.capabilities

(* t2_linux_account.collect: one digest of the account's records, its NSS   *)
(* view and its home directory.                                             *)
AccountGeneration == world.account

(* _keybag_digest: the protected keybag file of the mapping. *)
KeybagDigest(u) == world.keybag[u]

(* parse: no two records share the Apple user. *)
Unique(set) ==
    \A u, v \in Users : u # v /\ NoMapping \notin {set[u], set[v]} => set[u].apple # set[v].apple

-----------------------------------------------------------------------------
(* t2_user_readiness and t2_user_policy. *)

(* What a live session observes for a mapping. *)
Observation(m) == [version |-> catacomb.version, alias |-> world.alias[m.apple]]

Quarantined == {"mismatch"}
Actionable == {"absent", "locked"}

(* assess *)
Assess(m, capability, observed) ==
    IF Permits(m, capability) THEN observed.alias ELSE "capability-denied"

(* _require_ready: with the record enabled, every capability is ready. *)
Ready(m, observed) ==
    \A capability \in m.capabilities :
        Assess([m EXCEPT !.enabled = TRUE], capability, observed) = "ready"

Mutation(op) == op \in {"enroll", "delete-one"}

(* authorize: which authority the evidence gives, or none. *)
Authorize(m, s) ==
    LET readiness == Assess(m, CapabilityOf(s.op), s.first)
    IN  CASE ~Permits(m, CapabilityOf(s.op)) \/ s.account # m.account -> "denied"
          [] ~s.grant \/ (Mutation(s.op) /\ ~ModificationAllowed) -> "denied"
          [] readiness \in Quarantined -> "denied"
          [] readiness = "ready" -> "operate"
          [] readiness \in Actionable /\ s.activation -> "activate"
          [] OTHER -> "denied"

-----------------------------------------------------------------------------
(* Processes.  A command is at "lock" while it waits for the mapping lock. *)

AUser == CHOOSE u \in Users : TRUE
AnAppleUser == CHOOSE a \in AppleUsers : TRUE

Idle ==
    [cmd |-> "none", user |-> AUser, op |-> "none", at |-> "none",
     caps |-> {}, apple |-> AnAppleUser,
     loaded |-> Unmapped, draft |-> NoMapping, account |-> 0, keybag |-> 0, bridge |-> 0,
     first |-> [version |-> 0, alias |-> "none"], grant |-> FALSE, activation |-> FALSE,
     expires |-> 0, stage |-> "none", material |-> 0, alive |-> TRUE]

Selected(p) == proc[p].loaded[proc[p].user]
Is(p, cmd, at) == proc[p].cmd = cmd /\ proc[p].at = at
Goto(p, at) == proc' = [proc EXCEPT ![p].at = at]
Becomes(p, s) == proc' = [proc EXCEPT ![p] = s]

Free(lock, p) == IF lock = p THEN NoProc ELSE lock

(* Mutant: a path leaves the mapping lock held. *)
MutExit(p) ==
    /\ Becomes(p, Idle)
    /\ mapLock' = mapLock
    /\ opLock' = Free(opLock, p)

(* Every return closes both locks. *)
Exit(p) ==
    /\ Becomes(p, Idle)
    /\ mapLock' = Free(mapLock, p)
    /\ opLock' = Free(opLock, p)

Starting(cmd, u, at) == [Idle EXCEPT !.cmd = cmd, !.user = u, !.at = at]

Starts(p, s) ==
    /\ proc[p] = Idle
    /\ begun < MaxCommands
    /\ begun' = begun + 1
    /\ Becomes(p, s)
    /\ UNCHANGED <<mapping, world, catacomb, mapLock, opLock, changes>>

BeginBind(p) ==
    \E u \in Users, caps \in CapabilitySets :
        Starts(p, [Starting("bind", u, "authority") EXCEPT !.caps = caps])

BeginRebind(p) == \E u \in Users : Starts(p, Starting("rebind", u, "lock"))
BeginDisable(p) == \E u \in Users : Starts(p, Starting("disable", u, "lock"))
BeginEnable(p) == \E u \in Users : Starts(p, Starting("enable", u, "lock"))

(* AuthorizationSession: the caller, its session and its account are pinned. *)
BeginServe(p) ==
    \E u \in Users, op \in Operations :
        Starts(p, [Starting("serve", u, "lock") EXCEPT !.op = op, !.account = AccountGeneration])

(* External: another command that changes the Catacomb. *)
BeginManage(p) == Starts(p, Starting("manage", AUser, "enter"))

(* t2_current_user_authority.collect, under the operation lock: the alias *)
(* of the configured Apple user is there.                                 *)
CollectAuthority(p) ==
    /\ Is(p, "bind", "authority")
    /\ opLock = NoProc
    /\ world.alias[world.configured] # "absent"
    /\ Becomes(p, [proc[p] EXCEPT !.apple = world.configured, !.at = "lock"])
    /\ UNCHANGED <<mapping, world, catacomb, mapLock, opLock, counts>>

(* Mutant: the lock is shared. *)
MutLockMapping(p) ==
    /\ proc[p].at = "lock"
    /\ mapLock' = p
    /\ Goto(p, "load")
    /\ UNCHANGED <<mapping, world, catacomb, opLock, counts>>

(* _open_lock *)
LockMapping(p) ==
    /\ proc[p].at = "lock"
    /\ mapLock = NoProc
    /\ mapLock' = p
    /\ Goto(p, "load")
    /\ UNCHANGED <<mapping, world, catacomb, opLock, counts>>

(* A step that only moves the process itself. *)
Local(p, s) ==
    /\ Becomes(p, s)
    /\ UNCHANGED <<mapping, world, catacomb, mapLock, opLock, counts>>

Loaded(p) == [proc[p] EXCEPT !.loaded = file]

-----------------------------------------------------------------------------
(* t2_user_mapping_admin: bind, rebind and disable. *)

LoadBind(p) ==
    LET u == proc[p].user
        draft == [account |-> AccountGeneration, keybag |-> KeybagDigest(u),
                  apple |-> proc[p].apple, capabilities |-> proc[p].caps, enabled |-> FALSE]
    IN  /\ Is(p, "bind", "load")
        /\ file[u] = NoMapping
        /\ Unique([file EXCEPT ![u] = draft])
        /\ Local(p, [Loaded(p) EXCEPT !.draft = draft, !.at = "recheck"])

LoadRebind(p) ==
    LET u == proc[p].user IN
    /\ Is(p, "rebind", "load")
    /\ file[u] # NoMapping
    /\ KeybagDigest(u) = file[u].keybag
    /\ AccountGeneration # file[u].account
    /\ Local(p, [Loaded(p) EXCEPT
                   !.draft = [file[u] EXCEPT !.account = AccountGeneration, !.enabled = FALSE],
                   !.at = "recheck"])

(* The keybag and the account are read once more. *)
RecheckDraft(p) ==
    /\ proc[p].cmd \in {"bind", "rebind"} /\ proc[p].at = "recheck"
    /\ KeybagDigest(proc[p].user) = proc[p].draft.keybag
    /\ AccountGeneration = proc[p].draft.account
    /\ Local(p, [proc[p] EXCEPT !.at = "publish"])

LoadDisable(p) ==
    LET u == proc[p].user IN
    /\ Is(p, "disable", "load")
    /\ file[u] # NoMapping /\ file[u].enabled
    /\ Local(p, [Loaded(p) EXCEPT !.draft = [file[u] EXCEPT !.enabled = FALSE], !.at = "publish"])

(* _publish: the temporary file is complete and takes the name, if the     *)
(* mapping is still the loaded one; a first one must not replace any file. *)
PublishRename(p) ==
    /\ proc[p].at = "publish"
    /\ file = proc[p].loaded
    /\ file' = [file EXCEPT ![proc[p].user] = proc[p].draft]
    /\ latest' = [latest EXCEPT ![proc[p].user] = NoMapping]
    /\ Goto(p, "sync")
    /\ UNCHANGED <<durable, world, catacomb, mapLock, opLock, counts>>

(* Mutant: the directory is not synced. *)
MutPublishSync(p) ==
    /\ proc[p].at = "sync"
    /\ file[proc[p].user] = proc[p].draft
    /\ latest' = [latest EXCEPT ![proc[p].user] = proc[p].draft]
    /\ Exit(p)
    /\ UNCHANGED <<file, durable, world, catacomb, counts>>

(* _publish: the directory is synced and the file read back. *)
PublishSync(p) ==
    /\ proc[p].at = "sync"
    /\ durable' = file
    /\ file = [proc[p].loaded EXCEPT ![proc[p].user] = proc[p].draft]
    /\ latest' = [latest EXCEPT ![proc[p].user] = proc[p].draft]
    /\ Exit(p)
    /\ UNCHANGED <<file, world, catacomb, counts>>

-----------------------------------------------------------------------------
(* t2_user_reconciliation_live: a session under the operation lock. *)

(* Mutant: the session does not take the operation lock. *)
MutEnterLive(p) ==
    /\ proc[p].at = "enter"
    /\ Becomes(p, [proc[p] EXCEPT !.bridge = world.bridge,
                                  !.at = IF proc[p].cmd = "manage" THEN "change" ELSE "first"])
    /\ UNCHANGED <<mapping, world, catacomb, mapLock, opLock, counts>>

(* _open_operation_lock: taken at once, or the command fails. *)
TakeOperationLock(p) == opLock = NoProc /\ opLock' = p

(* __enter__ *)
EnterLive(p) ==
    /\ proc[p].at = "enter"
    /\ TakeOperationLock(p)
    /\ Becomes(p, [proc[p] EXCEPT !.bridge = world.bridge,
                                  !.at = IF proc[p].cmd = "manage" THEN "change" ELSE "first"])
    /\ UNCHANGED <<mapping, world, catacomb, mapLock, counts>>

(* _require_clean_catacomb, and what summarize requires of host and SEP. *)
CleanCatacomb == catacomb.clean

(* runtime_generation: the bridge connection is the one that was opened. *)
SameConnection(p) == world.bridge = proc[p].bridge

(* collect succeeds. *)
Collects(p) == SameConnection(p) /\ CleanCatacomb

(* A later collect, which must observe what the first one did. *)
CollectsSame(p) == Collects(p) /\ Observation(Selected(p)) = proc[p].first

(* External: the other command ends with host and SEP agreeing, or it does not. *)
Manage(p) ==
    /\ Is(p, "manage", "change")
    /\ \E clean \in BOOLEAN : catacomb' = [version |-> catacomb.version + 1, clean |-> clean]
    /\ Exit(p)
    /\ UNCHANGED <<mapping, world, counts>>

-----------------------------------------------------------------------------
(* t2_user_reconciliation.enable_reconciled *)

LoadEnable(p) ==
    LET u == proc[p].user IN
    /\ Is(p, "enable", "load")
    /\ file[u] # NoMapping /\ ~file[u].enabled
    /\ AccountGeneration = file[u].account
    /\ KeybagDigest(u) = file[u].keybag
    /\ Local(p, [Loaded(p) EXCEPT !.at = "enter"])

EnableFirst(p) ==
    /\ Is(p, "enable", "first")
    /\ Collects(p)
    /\ Ready(Selected(p), Observation(Selected(p)))
    /\ Local(p, [proc[p] EXCEPT !.first = Observation(Selected(p)), !.at = "recheck"])

EnableRecheck(p) ==
    /\ Is(p, "enable", "recheck")
    /\ AccountGeneration = Selected(p).account
    /\ KeybagDigest(proc[p].user) = Selected(p).keybag
    /\ Local(p, [proc[p] EXCEPT !.at = "second"])

EnableSecond(p) ==
    /\ Is(p, "enable", "second")
    /\ CollectsSame(p)
    /\ Ready(Selected(p), proc[p].first)
    /\ Local(p, [proc[p] EXCEPT !.draft = [Selected(p) EXCEPT !.enabled = TRUE], !.at = "publish"])

-----------------------------------------------------------------------------
(* t2_user_broker.run_self_service *)

(* PinnedPeer.verify and collect_session: the pinned process still runs, in *)
(* an active session of its user.                                           *)
CallerPresent(p) == proc[p].alive

(* AuthorizationSession.revalidate: the same caller, session and account. *)
Revalidates(p) == CallerPresent(p) /\ AccountGeneration = proc[p].account

(* revalidate, _stable_mapping and _keybag *)
Unchanged(p) ==
    /\ Revalidates(p)
    /\ file = proc[p].loaded
    /\ KeybagDigest(proc[p].user) = Selected(p).keybag

LoadServe(p) ==
    LET m == file[proc[p].user] IN
    /\ Is(p, "serve", "load")
    /\ Permits(m, CapabilityOf(proc[p].op))
    /\ proc[p].account = m.account
    /\ KeybagDigest(proc[p].user) = m.keybag
    /\ Local(p, [Loaded(p) EXCEPT !.at = "enter"])

ServeFirst(p) ==
    /\ Is(p, "serve", "first")
    /\ Collects(p)
    /\ Local(p, [proc[p] EXCEPT !.first = Observation(Selected(p)), !.at = "grant"])

(* t2_polkit_grant.collect: polkit authorises the pinned process, or not. *)
PolkitAnswers == BOOLEAN

(* AuthorizationSession.collect: polkit answers, and a target that is not  *)
(* ready needs a second grant when the caller of the broker asks for one.  *)
CollectGrant(p) ==
    LET activates == Assess(Selected(p), CapabilityOf(proc[p].op), proc[p].first) \in Actionable
    IN  /\ Is(p, "serve", "grant")
        /\ Revalidates(p)
        /\ \E grant \in PolkitAnswers, ask \in BOOLEAN :
              /\ ask => grant /\ activates
              /\ Local(p, [proc[p] EXCEPT !.grant = grant, !.expires = world.clock + Lifetime,
                                          !.at = IF ask THEN "activation" ELSE "recheck"])

(* The authority is bound to the grant that ends first, which is the older. *)
CollectActivationGrant(p) ==
    /\ Is(p, "serve", "activation")
    /\ Revalidates(p)
    /\ \E grant \in PolkitAnswers : Local(p, [proc[p] EXCEPT !.activation = grant, !.at = "recheck"])

ServeRecheck(p) ==
    /\ Is(p, "serve", "recheck")
    /\ Unchanged(p)
    /\ Local(p, [proc[p] EXCEPT !.at = "second"])

(* _validate_grant, require_bound_authority: the grant still holds. *)
InTime(p) == world.clock <= proc[p].expires

ServeAuthorize(p) ==
    LET stage == Authorize(Selected(p), proc[p])
    IN  /\ Is(p, "serve", "second")
        /\ CollectsSame(p)
        /\ InTime(p)
        /\ stage # "denied"
        /\ Local(p, [proc[p] EXCEPT !.stage = stage, !.at = "handoff"])

ServeHandoff(p) ==
    /\ Is(p, "serve", "handoff")
    /\ Unchanged(p)
    /\ Local(p, [proc[p] EXCEPT !.at = "third"])

ServeThird(p) ==
    /\ Is(p, "serve", "third")
    /\ CollectsSame(p)
    /\ Local(p, [proc[p] EXCEPT !.at = "bound"])

(* Mutant: the live session is left before the consumer runs. *)
MutServeBound(p) ==
    /\ Is(p, "serve", "bound")
    /\ Unchanged(p) /\ InTime(p)
    /\ Goto(p, "prepare")
    /\ opLock' = NoProc
    /\ UNCHANGED <<mapping, world, catacomb, mapLock, counts>>

ServeBound(p) ==
    /\ Is(p, "serve", "bound")
    /\ Unchanged(p) /\ InTime(p)
    /\ Local(p, [proc[p] EXCEPT !.at = "prepare"])

-----------------------------------------------------------------------------
(* The consumers: they want an operating authority on this connection. *)

Consumes(p, at) ==
    /\ Is(p, "serve", at)
    /\ proc[p].stage = "operate"
    /\ SameConnection(p)

(* t2_user_broker_inventory: the inventory that the third collect left. *)
ReturnInventory(p) ==
    /\ Consumes(p, "prepare")
    /\ proc[p].op = "inventory"
    /\ Exit(p)
    /\ UNCHANGED <<mapping, world, catacomb, counts>>

(* prepare_enrollment_material reads and anchors the store without looking *)
(* at the first snapshot; it relies on the operation lock.                 *)
EnrollmentMaterial(p) == proc[p].op = "enroll" /\ CleanCatacomb

(* prepare_deletion_material compares with the first snapshot as well. *)
DeletionMaterial(p) ==
    proc[p].op = "delete-one" /\ CleanCatacomb /\ catacomb.version = proc[p].first.version

PrepareMaterial(p) ==
    /\ Consumes(p, "prepare")
    /\ EnrollmentMaterial(p) \/ DeletionMaterial(p)
    /\ Local(p, [proc[p] EXCEPT !.material = catacomb.version, !.at = "dispatch"])

(* dispatch_allowed, asked before the first command that changes the SEP. *)
DispatchAllowed(p) == Unchanged(p) /\ SameConnection(p) /\ InTime(p)

AllowDispatch(p) ==
    /\ Consumes(p, "dispatch")
    /\ DispatchAllowed(p)
    /\ Local(p, [proc[p] EXCEPT !.at = "mutate"])

(* The consumer runs its mutation to the end, or freezes it. *)
Mutate(p, op) ==
    /\ Is(p, "serve", "mutate")
    /\ proc[p].op = op
    /\ \E clean \in BOOLEAN : catacomb' = [version |-> catacomb.version + 1, clean |-> clean]
    /\ Exit(p)
    /\ UNCHANGED <<mapping, world, counts>>

Enroll(p) == Mutate(p, "enroll")
Delete(p) == Mutate(p, "delete-one")

-----------------------------------------------------------------------------
(* Faults and the outside. *)

(* A check that does not hold, a denied request, and an error of any read  *)
(* or write end the command before it publishes anything; an error after   *)
(* the rename ends it without an acknowledgement.                          *)
Fail(p) ==
    /\ proc[p].cmd # "none"
    /\ proc[p].at # "lock"
    /\ Exit(p)
    /\ UNCHANGED <<mapping, world, catacomb, counts>>

(* The process is killed; the kernel closes its locks. *)
Stop(p) ==
    /\ proc[p].cmd # "none"
    /\ changes < MaxChanges /\ changes' = changes + 1
    /\ Becomes(p, Idle)
    /\ mapLock' = Free(mapLock, p)
    /\ opLock' = Free(opLock, p)
    /\ UNCHANGED <<mapping, world, catacomb, begun>>

PowerLoss ==
    /\ changes < MaxChanges /\ changes' = changes + 1
    /\ file' \in {file, durable}
    /\ durable' = file'
    /\ proc' = [p \in Procs |-> Idle]
    /\ mapLock' = NoProc /\ opLock' = NoProc
    /\ \E alias \in AliasStates :
          world' = [world EXCEPT !.bridge = @ + 1, !.alias = [a \in AppleUsers |-> alias]]
    /\ UNCHANGED <<catacomb, latest, begun>>

OutsideChanges(w) ==
    /\ changes < MaxChanges /\ changes' = changes + 1
    /\ world' = w
    /\ UNCHANGED <<mapping, catacomb, mapLock, opLock, proc, begun>>

(* Any change of the account database alters every account generation. *)
AccountChanges == OutsideChanges([world EXCEPT !.account = @ + 1])
KeybagChanges == \E u \in Users : OutsideChanges([world EXCEPT !.keybag[u] = 3 - @])
ConfigurationChanges == \E a \in AppleUsers \ {world.configured} : OutsideChanges([world EXCEPT !.configured = a])
AliasChanges ==
    \E a \in AppleUsers : \E s \in AliasStates \ {world.alias[a]} : OutsideChanges([world EXCEPT !.alias[a] = s])
BridgeRestarts == OutsideChanges([world EXCEPT !.bridge = @ + 1])

ClockTicks ==
    /\ world.clock < MaxClock
    /\ world' = [world EXCEPT !.clock = @ + 1]
    /\ UNCHANGED <<mapping, catacomb, mapLock, opLock, proc, counts>>

CallerLeaves(p) ==
    /\ proc[p].cmd = "serve" /\ proc[p].alive
    /\ changes < MaxChanges /\ changes' = changes + 1
    /\ proc' = [proc EXCEPT ![p].alive = FALSE]
    /\ UNCHANGED <<mapping, world, catacomb, mapLock, opLock, begun>>

-----------------------------------------------------------------------------

(* One user may have been bound, and enabled, long before. *)
Init ==
    /\ \/ file = Unmapped
       \/ \E caps \in CapabilitySets, enabled \in BOOLEAN :
            file = [Unmapped EXCEPT ![AUser] =
                      [account |-> 0, keybag |-> 1, apple |-> AnAppleUser,
                       capabilities |-> caps, enabled |-> enabled]]
    /\ durable = file
    /\ latest = file
    /\ world = [account |-> 0, keybag |-> [u \in Users |-> 1],
                configured |-> AnAppleUser,
                alias |-> [a \in AppleUsers |-> "ready"], bridge |-> 0, clock |-> 0]
    /\ catacomb = [version |-> 0, clean |-> TRUE]
    /\ mapLock = NoProc /\ opLock = NoProc
    /\ proc = [p \in Procs |-> Idle]
    /\ begun = 0 /\ changes = 0

Begin(p) ==
    BeginBind(p) \/ BeginRebind(p) \/ BeginDisable(p) \/ BeginEnable(p) \/ BeginServe(p)
    \/ BeginManage(p)

Admin(p) ==
    \/ CollectAuthority(p) \/ LockMapping(p) \/ LoadBind(p) \/ LoadRebind(p) \/ RecheckDraft(p)
    \/ LoadDisable(p) \/ PublishRename(p) \/ PublishSync(p)
    \/ LoadEnable(p) \/ EnterLive(p) \/ EnableFirst(p) \/ EnableRecheck(p) \/ EnableSecond(p)
    \/ Manage(p)

Serve(p) ==
    \/ LoadServe(p) \/ ServeFirst(p) \/ CollectGrant(p) \/ CollectActivationGrant(p)
    \/ ServeRecheck(p) \/ ServeAuthorize(p) \/ ServeHandoff(p) \/ ServeThird(p) \/ ServeBound(p)
    \/ ReturnInventory(p) \/ PrepareMaterial(p) \/ AllowDispatch(p) \/ Enroll(p) \/ Delete(p)

Outside ==
    \/ PowerLoss \/ AccountChanges \/ KeybagChanges \/ ConfigurationChanges \/ AliasChanges
    \/ BridgeRestarts \/ ClockTicks \/ \E p \in Procs : Stop(p) \/ CallerLeaves(p)

Next == Outside \/ \E p \in Procs : Begin(p) \/ Admin(p) \/ Serve(p) \/ Fail(p)

Spec == Init /\ [][Next]_vars

(* A running process is scheduled, and each of its steps ends: flock has    *)
(* finitely many others before it, polkit has a timeout, and a check that   *)
(* does not hold raises an error.                                           *)
Fairness == \A p \in Procs : WF_vars(Admin(p) \/ Serve(p) \/ Fail(p))
FairSpec == Spec /\ Fairness

-----------------------------------------------------------------------------
TypeOK ==
    /\ file \in [Users -> Mapping \cup {NoMapping}]
    /\ durable \in [Users -> Mapping \cup {NoMapping}]
    /\ latest \in [Users -> Mapping \cup {NoMapping}]
    /\ Unique(file)
    /\ mapLock \in Procs \cup {NoProc} /\ opLock \in Procs \cup {NoProc}
    /\ \A p \in Procs : proc[p].cmd = "none" => p \notin {mapLock, opLock}

Consuming(p) == proc[p].cmd = "serve" /\ proc[p].at \in {"prepare", "dispatch", "mutate"}

(* From the moment a consumer has its authority until its command is sent, *)
(* the mapping it was given is the one in the file and is enabled for its  *)
(* operation: a disable cannot slip in between the broker's last look and  *)
(* the command (run_self_service keeps the mapping lock until the consumer *)
(* returns).  The file need not be durable: an enable that was stopped     *)
(* before its directory sync has left one that a request may act under.    *)
AuthorityStable ==
    \A p \in Procs : Consuming(p) =>
        /\ file = proc[p].loaded
        /\ Permits(file[proc[p].user], CapabilityOf(proc[p].op))

(* What bind, rebind, enable or disable reported as done stays done until   *)
(* another command replaces it: no concurrent command overwrites it from    *)
(* an older reading of the file, and no power loss brings back what a       *)
(* disable has revoked (_publish).                                          *)
AcknowledgedIsDurable ==
    \A u \in Users : latest[u] # NoMapping => file[u] = latest[u] /\ durable[u] = latest[u]

(* A mapping becomes enabled only by an enable-reconciled that saw it ready *)
(* in a Catacomb that is still the current one, and changes nothing else.   *)
EnabledOnEvidence ==
    [][\A u \in Users :
         (file'[u] # NoMapping /\ file'[u].enabled /\ changes' = changes) =>
            \/ file[u] = file'[u]
            \/ \E p \in Procs :
                  /\ proc[p].cmd = "enable" /\ proc[p].user = u
                  /\ proc[p].first = [version |-> catacomb.version, alias |-> "ready"]
                  /\ file' = [file EXCEPT ![u].enabled = TRUE]]_vars

(* The Catacomb that a mutation anchors as its baseline, and which it will *)
(* be recovered to, is the one the authority was given for, and nobody has *)
(* changed it when the command is sent.                                    *)
MaterialIsReconciled ==
    \A p \in Procs : proc[p].at \in {"dispatch", "mutate"} =>
        /\ proc[p].material = proc[p].first.version
        /\ proc[p].material = catacomb.version

(* Every command ends, however the commands contend for the two locks: a   *)
(* disable that waits behind an interactive request gets its turn.         *)
CommandEnds == \A p \in Procs : proc[p].cmd # "none" ~> proc[p].cmd = "none"
=============================================================================
