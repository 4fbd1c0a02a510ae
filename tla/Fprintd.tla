------------------------------- MODULE Fprintd -------------------------------
(***************************************************************************)
(* The D-Bus facade of src/t2-fprintd.py: one FprintDevice, its claim, the *)
(* verification, enrollment and deletion it may run, the timers that end a *)
(* forgotten claim, and the backend's operation lock and child process.    *)
(*                                                                         *)
(* The daemon is one asyncio loop.  An action is the work one event does   *)
(* until every task waits again: a method call arriving, the backend's     *)
(* process ending, a worker's last message, a timer, a departed sender.    *)
(* Three continuations are steps of their own because a call that arrives  *)
(* may overtake them: "cancel" and "joined" in _stop_verification and      *)
(* "deleted" in _wait_deletion.  They take a few turns of the loop, so no  *)
(* process, thread or timer ends while one is due (Quiet).                 *)
(*                                                                         *)
(* A task is <<sender, slot>>; slot 0 runs sender_departed.  Names, finger *)
(* properties other than finger-needed, signals' texts and the projection's*)
(* contents are abstracted to the outcomes the handlers tell apart.        *)
(***************************************************************************)
EXTENDS Naturals, Sequences, SequencesExt, FiniteSets

CONSTANTS
    Senders,      \* D-Bus connections of allowed clients
    Mutators,     \* ... those that enroll and delete as well as verify
    Mortals,      \* ... those that may exit, disconnect or lose their session
    Slots,        \* calls one client may have outstanding at a time
    NoOne,        \* "no sender"
    MaxTimers,    \* bound on the live expiry timers
    LateSuccess   \* may a process that was sent SIGTERM already have succeeded?

ASSUME FprintdAssumption ==
    /\ NoOne \notin Senders
    /\ Mutators \subseteq Senders /\ Mortals \subseteq Senders
    /\ Slots \subseteq Nat \ {0}
    /\ MaxTimers \in Nat \ {0}
    /\ LateSuccess \in BOOLEAN

VARIABLES
    dev,      \* FprintDevice: the claim and the references to tasks
    timers,   \* living expiry tasks, referenced or not
    vop,      \* _run_verification tasks
    worker,   \* EnrollmentWorkerClient tasks
    call,     \* method calls and sender_departed handlers in progress
    lock,     \* backend.operation_lock: holder first, then waiters
    claimq,   \* claim_lock: holder first, then waiters
    client    \* the clients: process, connection and session evidence

vars == <<dev, timers, vop, worker, call, lock, claimq, client>>

Ids == 1 .. MaxTimers + 4
Tasks == Senders \X (Slots \cup {0})
Nothing == <<>>
CallTask(t) == <<"call", t>>
OpTask(n) == <<"op", n>>

Idle == [m |-> "none", pc |-> "none", task |-> Nothing]
NoOp == [st |-> "off", by |-> NoOne]

Init ==
    /\ dev = [claim |-> NoOne, vt |-> Nothing, del |-> Nothing, enr |-> 0,
              expiry |-> 0, needed |-> FALSE]
    /\ timers = {}
    /\ vop = [n \in Ids |-> NoOp]
    /\ worker = [n \in Ids |-> NoOp]
    /\ call = [t \in Tasks |-> Idle]
    /\ lock = <<>>
    /\ claimq = <<>>
    /\ client = [s \in Senders |->
                    [proc |-> TRUE, bus |-> "on", evidence |-> TRUE]]

-----------------------------------------------------------------------------
(* Helpers over one device state d and timer set ts. *)

AnyOf(S) == CHOOSE n \in S : TRUE
NewTimer(ts) == AnyOf(Ids \ {x.id : x \in ts})

\* The numbers that no task, reference or timer has: the bound on operations.
FreshOps ==
    {n \in Ids : /\ vop[n].st = "off"
                 /\ dev.vt # OpTask(n)
                 /\ \A t \in Tasks : call[t].task # OpTask(n)
                 /\ \A x \in timers : ~(x.kind = "verify" /\ x.of = n)}
FreshWorkers ==
    {n \in Ids : /\ worker[n].st = "off"
                 /\ dev.enr # n
                 /\ \A x \in timers : ~(x.kind = "enroll" /\ x.of = n)}
NewOp == AnyOf(FreshOps)
NewWorker == AnyOf(FreshWorkers)

Timer(ts, kind, n) == [id |-> NewTimer(ts), kind |-> kind, of |-> n]

Cancelled(ts) == {x \in ts : x.id # dev.expiry}

\* No verification, enrollment or deletion is referenced by the device.
FreeOf(d) == d.vt = Nothing /\ d.enr = 0 /\ d.del = Nothing

\* The bound on timers, in the calls that may come to start one.
TimersBounded == Cardinality(timers) < MaxTimers

\* _arm_unstarted_claim_expiry
ArmNeeded(d) == d.claim # NoOne /\ d.expiry = 0 /\ FreeOf(d)
ArmDev(d, ts) == IF ArmNeeded(d) THEN [d EXCEPT !.expiry = NewTimer(ts)] ELSE d
ArmTimers(d, ts) ==
    IF ArmNeeded(d) THEN ts \cup {Timer(ts, "unstarted", 0)} ELSE ts

ClearClaim(d) == [d EXCEPT !.claim = NoOne]

\* _require_claim_owner
Owner(s) == /\ dev.claim = s
            /\ client[s].proc
            /\ client[s].evidence

\* backend.process: the process of the operation lock's holder.
Phase(h) == IF h[1] = "op" THEN vop[h[2]].st ELSE call[h[2]].pc
ProcessRunning == lock # <<>> /\ Phase(Head(lock)) \in {"project", "probe", "probe2"}

\* A call that is over is no longer the task any waiter would cancel.
Ended(c, t) ==
    [u \in Tasks |-> IF u = t THEN Idle
                     ELSE IF c[u].task = CallTask(t) THEN [c[u] EXCEPT !.task = Nothing]
                     ELSE c[u]]

Ready == {"cancel", "joined", "deleted"}
Quiet == \A t \in Tasks : call[t].pc \notin Ready

-----------------------------------------------------------------------------
(* The tear-down that Release, sender_departed and a Claim over a dead       *)
(* owner share: _stop_verification, _stop_enrollment, _wait_deletion,        *)
(* _clear_claim.  VerifyStop and EnrollStop are its first two parts alone.   *)

Stoppers == {"Release", "Departed", "Claim"}

\* Where a stopper t waits once verification is stopped and the device is d.
StopsAt(d) ==
    IF d.enr # 0 /\ worker[d.enr].st = "run" THEN "enr"
    ELSE IF d.del # Nothing THEN "del" ELSE "end"

\* Mutant: client.stop() forgets the worker before it has ended.
MutEnrollmentStopped(d) == [d EXCEPT !.expiry = 0, !.enr = 0, !.needed = FALSE]

\* _stop_enrollment for a device whose verification is stopped: a finished
\* worker is let go at once.
EnrollmentStopped(d) ==
    IF d.enr # 0 /\ worker[d.enr].st = "run" THEN [d EXCEPT !.expiry = 0]
    ELSE [d EXCEPT !.expiry = 0, !.enr = 0, !.needed = FALSE]

AfterEnrollment(d) ==
    LET e == EnrollmentStopped(d) IN
    IF StopsAt(d) = "end" THEN ClearClaim(e) ELSE e

\* What becomes of the stoppers in S that reach "at": the end replies to
\* Release, ends sender_departed and lets a Claim collect its evidence.
Moved(c, S, at) ==
    [t \in Tasks |->
        IF t \notin S THEN c[t]
        ELSE IF at # "end" THEN [c[t] EXCEPT !.pc = at, !.task = Nothing]
        ELSE IF c[t].m = "Claim" THEN [c[t] EXCEPT !.pc = "collect", !.task = Nothing]
        ELSE Idle]

\* claim_lock after the handlers in S have ended: sender_departed returns and
\* releases it, a Claim goes on under it and a Release never took it.
Unlocked(S) ==
    IF claimq # <<>> /\ Head(claimq) \in S /\ Head(claimq)[2] = 0
    THEN Tail(claimq) ELSE claimq

\* The operation lock without task h, which was cancelled.
Left(h) ==
    IF \E i \in 1 .. Len(lock) : lock[i] = h
    THEN RemoveAt(lock, CHOOSE i \in 1 .. Len(lock) : lock[i] = h)
    ELSE lock

\* _stop_verification on entry, for a task t that runs method m.  With
\* nothing to stop the stopper goes on and VerifyStop fails; otherwise
\* backend.cancel() first ends whatever process runs, and then the task.
StopVerification(t, m) ==
    LET c == [call EXCEPT ![t] = [m |-> m, pc |-> "none", task |-> dev.vt]]
        d == [dev EXCEPT !.expiry = 0]
        e == [d EXCEPT !.needed = FALSE]
    IN  /\ timers' = Cancelled(timers)
        /\ \/ /\ dev.vt # Nothing
              /\ dev' = d
              /\ call' = [c EXCEPT ![t].pc =
                              IF ProcessRunning THEN "kill" ELSE "cancel"]
              /\ UNCHANGED claimq
           \/ /\ dev.vt = Nothing /\ m = "VerifyStop"
              /\ dev' = e
              /\ UNCHANGED <<call, claimq>>
           \/ /\ dev.vt = Nothing /\ m # "VerifyStop"
              /\ dev' = AfterEnrollment(e)
              /\ call' = Moved(c, {t}, StopsAt(e))
              /\ claimq' = IF StopsAt(e) = "end" THEN Unlocked({t}) ELSE claimq
        /\ UNCHANGED <<vop, worker, lock, client>>

\* task.cancel() on the verify_task read at entry, which ends the operation
\* or the VerifyStart call it still is, wherever it waits.
CancelVerifyTask(t) ==
    LET h == call[t].task
        joined == [call EXCEPT ![t].pc = "joined"]
    IN  /\ call[t].pc = "cancel"
        /\ \/ /\ h = Nothing
              /\ call' = joined
              /\ UNCHANGED <<dev, timers, vop, lock>>
           \/ /\ h # Nothing /\ h[1] = "op"
              /\ call' = joined
              /\ dev' = IF vop[h[2]].st = "off" THEN dev
                        ELSE [dev EXCEPT !.needed = FALSE]
              /\ vop' = [vop EXCEPT ![h[2]] = NoOp]
              /\ lock' = Left(h)
              /\ UNCHANGED timers
           \/ /\ h # Nothing /\ h[1] = "call"
              /\ LET d == IF dev.vt = h THEN [dev EXCEPT !.vt = Nothing] ELSE dev
                 IN  dev' = ArmDev(d, timers) /\ timers' = ArmTimers(d, timers)
              /\ call' = Ended(joined, h[2])
              /\ lock' = Left(h)
              /\ UNCHANGED vop
        /\ UNCHANGED <<worker, claimq, client>>

\* The gather of every waiter returns in one turn: verify_task is reset
\* whatever it is by now, and the stoppers go on to the enrollment.
VerificationStopped ==
    LET S == {t \in Tasks : call[t].pc = "joined"}
        R == {t \in S : call[t].m \in Stoppers}
        d == [dev EXCEPT !.vt = Nothing, !.needed = FALSE]
        c == [t \in Tasks |-> IF t \in S \ R THEN Idle ELSE call[t]]
    IN  /\ S # {}
        /\ \/ /\ R = {}
              /\ dev' = d
              /\ call' = c
              /\ UNCHANGED <<timers, claimq>>
           \/ /\ R # {}
              /\ dev' = AfterEnrollment(d)
              /\ timers' = Cancelled(timers)
              /\ call' = Moved(c, R, StopsAt(d))
              /\ claimq' = IF StopsAt(d) = "end" THEN Unlocked(R) ELSE claimq
        /\ UNCHANGED <<vop, worker, lock, client>>

\* _wait_deletion after the deletion: the expiry it armed is cancelled.
DeletionAwaited ==
    LET S == {t \in Tasks : call[t].pc = "deleted"}
    IN  /\ S # {}
        /\ timers' = Cancelled(timers)
        /\ dev' = ClearClaim([dev EXCEPT !.expiry = 0])
        /\ call' = Moved(call, S, "end")
        /\ claimq' = Unlocked(S)
        /\ UNCHANGED <<vop, worker, lock, client>>

-----------------------------------------------------------------------------
(* Method calls.  A refused call changes nothing and is not an action. *)

Free(t) == /\ call[t] = Idle
           /\ t[2] # 0
           /\ client[t[1]].proc
           /\ client[t[1]].bus = "on"

Claim(t) ==
    /\ Free(t)
    /\ call' = [call EXCEPT ![t] = [Idle EXCEPT !.m = "Claim", !.pc = "claimq"]]
    /\ claimq' = Append(claimq, t)
    /\ UNCHANGED <<dev, timers, vop, worker, lock, client>>

\* Claim once it holds claim_lock: a live owner excludes it, a dead one is
\* torn down first.
ClaimLocked(t) ==
    /\ claimq # <<>> /\ Head(claimq) = t
    /\ call[t].m = "Claim" /\ call[t].pc = "claimq"
    /\ \/ /\ dev.claim = NoOne
          /\ call' = [call EXCEPT ![t].pc = "collect"]
          /\ UNCHANGED <<dev, timers, vop, worker, lock, claimq, client>>
       \/ /\ dev.claim # NoOne /\ client[dev.claim].proc
          /\ call' = [call EXCEPT ![t] = Idle]
          /\ claimq' = Tail(claimq)
          /\ UNCHANGED <<dev, timers, vop, worker, lock, client>>
       \/ /\ dev.claim # NoOne /\ ~client[dev.claim].proc
          /\ StopVerification(t, "Claim")

\* The caller's process and account evidence arrive, or do not.
Collected(t) ==
    LET n == NewTimer(timers)
    IN  /\ Quiet
        /\ call[t].pc = "collect"
        /\ TimersBounded
        /\ \/ /\ client[t[1]].proc /\ client[t[1]].evidence
              /\ dev' = [dev EXCEPT !.claim = t[1], !.expiry = n]
              /\ timers' = timers \cup {Timer(timers, "unstarted", 0)}
           \/ UNCHANGED <<dev, timers>>
        /\ call' = [call EXCEPT ![t] = Idle]
        /\ claimq' = Tail(claimq)
        /\ UNCHANGED <<vop, worker, lock, client>>

Release(t) == Free(t) /\ Owner(t[1]) /\ StopVerification(t, "Release")
VerifyStop(t) == Free(t) /\ Owner(t[1]) /\ StopVerification(t, "VerifyStop")

\* A call that needs a fresh projection queues for the operation lock.
Queue(t, m) ==
    /\ call' = [call EXCEPT ![t] = [Idle EXCEPT !.m = m, !.pc = "lock"]]
    /\ lock' = Append(lock, CallTask(t))
    /\ UNCHANGED <<vop, worker, claimq, client>>

ListEnrolledFingers(t) ==
    Free(t) /\ Queue(t, "List") /\ UNCHANGED <<dev, timers>>

VerifyStart(t) ==
    /\ Free(t) /\ Owner(t[1]) /\ FreeOf(dev)
    /\ Cardinality(Cancelled(timers)) < MaxTimers
    /\ Queue(t, "VerifyStart")
    /\ timers' = Cancelled(timers)
    /\ dev' = [dev EXCEPT !.expiry = 0, !.vt = CallTask(t)]

EnrollStart(t) ==
    /\ Free(t) /\ Owner(t[1]) /\ FreeOf(dev)
    /\ Cardinality(Cancelled(timers)) < MaxTimers
    /\ Queue(t, "EnrollStart")
    /\ timers' = Cancelled(timers)
    /\ dev' = [dev EXCEPT !.expiry = 0]

DeleteEnrolledFinger(t) ==
    /\ Free(t) /\ Owner(t[1]) /\ FreeOf(dev)
    /\ Cardinality(Cancelled(timers)) < MaxTimers
    /\ Queue(t, "Delete")
    /\ timers' = Cancelled(timers)
    /\ dev' = [dev EXCEPT !.expiry = 0, !.del = CallTask(t)]

\* _stop_enrollment(require_running=True)
EnrollStop(t) ==
    /\ Free(t) /\ Owner(t[1])
    /\ timers' = Cancelled(timers)
    /\ IF dev.enr = 0
       THEN dev' = [dev EXCEPT !.expiry = 0] /\ UNCHANGED call
       ELSE /\ dev' = EnrollmentStopped(dev)
            /\ call' = IF worker[dev.enr].st = "run"
                       THEN [call EXCEPT ![t] = [Idle EXCEPT !.m = "EnrollStop", !.pc = "enr"]]
                       ELSE call
    /\ UNCHANGED <<vop, worker, lock, claimq, client>>

-----------------------------------------------------------------------------
(* The backend's process and the calls and operations that wait for it. *)

\* The lock's new holder starts its projection.
StartProjection ==
    /\ Quiet /\ lock # <<>> /\ Phase(Head(lock)) = "lock"
    /\ LET h == Head(lock) IN
       IF h[1] = "op"
       THEN vop' = [vop EXCEPT ![h[2]].st = "project"] /\ UNCHANGED call
       ELSE call' = [call EXCEPT ![h[2]].pc = "project"] /\ UNCHANGED vop
    /\ UNCHANGED <<dev, timers, worker, lock, claimq, client>>

Results == {"good", "refused", "failed"}
Killed == \E t \in Tasks : call[t].pc = "kill"
Possible(res) == res = "good" => ~Killed \/ LateSuccess
\* backend.cancel() returns to its callers.
Reaped(c) == [t \in Tasks |-> IF c[t].pc = "kill" THEN [c[t] EXCEPT !.pc = "cancel"] ELSE c[t]]
\* Mutant: nobody is told that the deletion is over.
MutAwaited(c) == c
\* ... and a deletion that is over returns to _wait_deletion.
Awaited(c) == [t \in Tasks |-> IF c[t].pc = "del" THEN [c[t] EXCEPT !.pc = "deleted"] ELSE c[t]]

\* Mutant: VerifyStart does not check the claim again after its projection.
MutProjected(t, res) ==
    LET n == NewOp
        self == CallTask(t)
        go == dev.vt = self /\ dev.del = Nothing /\ dev.enr = 0 /\ res = "good"
        d == IF dev.vt = self THEN [dev EXCEPT !.vt = Nothing] ELSE dev
    IN  /\ call[t].m = "VerifyStart"
        /\ call' = Ended(Reaped(call), t)
        /\ IF go
           THEN /\ FreshOps # {}
                /\ dev' = [dev EXCEPT !.vt = OpTask(n), !.needed = TRUE]
                /\ vop' = [vop EXCEPT ![n] = [st |-> "lock", by |-> t[1]]]
                /\ lock' = Append(Tail(lock), OpTask(n))
                /\ UNCHANGED timers
           ELSE /\ dev' = ArmDev(d, timers)
                /\ timers' = ArmTimers(d, timers)
                /\ lock' = Tail(lock)
                /\ UNCHANGED vop
        /\ UNCHANGED worker

\* The second halves of the calls, with every check made again.
Projected(t, res) ==
    LET s == t[1]
        n == NewOp
        self == CallTask(t)
        go == /\ Owner(s)
              /\ dev.vt = self /\ dev.del = Nothing /\ dev.enr = 0
              /\ res = "good"
        d == IF dev.vt = self THEN [dev EXCEPT !.vt = Nothing] ELSE dev
    IN  /\ call[t].m = "VerifyStart"
        /\ call' = Ended(Reaped(call), t)
        /\ IF go
           THEN /\ FreshOps # {}
                /\ dev' = [dev EXCEPT !.vt = OpTask(n), !.needed = TRUE]
                /\ vop' = [vop EXCEPT ![n] = [st |-> "lock", by |-> s]]
                /\ lock' = Append(Tail(lock), OpTask(n))
                /\ UNCHANGED timers
           ELSE /\ dev' = ArmDev(d, timers)
                /\ timers' = ArmTimers(d, timers)
                /\ lock' = Tail(lock)
                /\ UNCHANGED vop
        /\ UNCHANGED worker

EnrollProjected(t, res) ==
    LET n == NewWorker
        go == Owner(t[1]) /\ FreeOf(dev) /\ res = "good"
        d == IF res = "failed" THEN [dev EXCEPT !.needed = FALSE] ELSE dev
    IN  /\ call[t].m = "EnrollStart"
        /\ call' = Ended(Reaped(call), t)
        /\ lock' = Tail(lock)
        /\ IF go
           THEN /\ FreshWorkers # {}
                /\ dev' = [dev EXCEPT !.enr = n]
                /\ worker' = [worker EXCEPT ![n] = [st |-> "run", by |-> t[1]]]
                /\ UNCHANGED timers
           ELSE /\ dev' = ArmDev(d, timers)
                /\ timers' = ArmTimers(d, timers)
                /\ UNCHANGED worker
        /\ UNCHANGED vop

DeleteProjected(t, res) ==
    LET self == CallTask(t)
        go == /\ Owner(t[1])
              /\ dev.del = self /\ dev.vt = Nothing /\ dev.enr = 0
              /\ res = "good"
        d == IF dev.del = self THEN [dev EXCEPT !.del = Nothing] ELSE dev
    IN  /\ call[t].m = "Delete"
        /\ lock' = Tail(lock)
        /\ IF go
           THEN /\ call' = [Reaped(call) EXCEPT ![t].pc = "deleting"]
                /\ UNCHANGED <<dev, timers>>
           ELSE /\ call' = Awaited(Ended(Reaped(call), t))
                /\ dev' = ArmDev(d, timers)
                /\ timers' = ArmTimers(d, timers)
        /\ UNCHANGED <<vop, worker>>

ListProjected(t) ==
    /\ call[t].m = "List"
    /\ call' = Ended(Reaped(call), t)
    /\ lock' = Tail(lock)
    /\ UNCHANGED <<dev, timers, vop, worker>>

CallProcessExits(res) ==
    /\ Quiet /\ ProcessRunning /\ Head(lock)[1] = "call" /\ Possible(res)
    /\ LET t == Head(lock)[2] IN
       \/ Projected(t, res)
       \/ EnrollProjected(t, res)
       \/ DeleteProjected(t, res)
       \/ ListProjected(t)
    /\ UNCHANGED <<claimq, client>>

-----------------------------------------------------------------------------
(* _run_verification and the backend's verify_fprint, verify and _run_probe. *)

\* Mutant: finger-needed is left set by a verification that reached its end.
MutFinished(n) ==
    /\ vop' = [vop EXCEPT ![n] = NoOp]
    /\ dev' = [dev EXCEPT !.expiry = NewTimer(timers)]
    /\ timers' = timers \cup {Timer(timers, "verify", n)}

\* The operation is over but stays the verify_task; its grace timer starts.
Finished(n) ==
    /\ vop' = [vop EXCEPT ![n] = NoOp]
    /\ dev' = [dev EXCEPT !.needed = FALSE, !.expiry = NewTimer(timers)]
    /\ timers' = timers \cup {Timer(timers, "verify", n)}

\* An exception leaves the lock; the failure cue may or may not take time.
Failed(n) ==
    /\ lock' = Tail(lock)
    /\ \/ vop' = [vop EXCEPT ![n].st = "error"] /\ UNCHANGED <<dev, timers>>
       \/ Finished(n)

Continues(n, st) ==
    /\ vop' = [vop EXCEPT ![n].st = st]
    /\ UNCHANGED <<dev, timers, lock>>

OpProcessExits(res) ==
    /\ Quiet /\ ProcessRunning /\ Head(lock)[1] = "op" /\ Possible(res)
    /\ LET n == Head(lock)[2]
       IN  \/ /\ res = "good"
              /\ Continues(n, IF vop[n].st = "project" THEN "prepare" ELSE "report")
           \/ /\ res # "good" /\ vop[n].st = "probe"
              /\ Continues(n, "rediscover")
           \/ /\ res # "good"
              /\ Failed(n)
    /\ call' = Reaped(call)
    /\ UNCHANGED <<worker, claimq, client>>

\* Discovery and the cue before a probe, the cue after a verdict, and the
\* cue after an error: the waits in which the backend has no process.
OpContinues(n) ==
    /\ Quiet
    /\ \/ /\ vop[n].st = "prepare"
          /\ Continues(n, "probe") \/ Failed(n)
       \/ /\ vop[n].st = "rediscover"
          /\ Continues(n, "probe2") \/ Failed(n)
       \/ /\ vop[n].st = "report"
          /\ Finished(n) /\ lock' = Tail(lock)
       \/ /\ vop[n].st = "error"
          /\ Finished(n) /\ UNCHANGED lock
    /\ UNCHANGED <<worker, call, claimq, client>>

-----------------------------------------------------------------------------
(* The mutation workers, seen from the facade. *)

\* A progress update of the enrollment worker.
EnrollmentUpdate(n) ==
    /\ Quiet /\ worker[n].st = "run"
    /\ \E b \in BOOLEAN : dev' = [dev EXCEPT !.needed = b]
    /\ UNCHANGED <<timers, vop, worker, call, lock, claimq, client>>

\* Its terminal update arms the grace timer, then client.stop() returns to
\* everyone that waits for it.
EnrollmentEnds(n) ==
    LET W == {t \in Tasks : call[t].pc = "enr"}
        R == {t \in W : call[t].m \in Stoppers}
        armed == dev.enr # 0
        d == IF armed THEN [dev EXCEPT !.needed = FALSE, !.expiry = NewTimer(timers)]
             ELSE [dev EXCEPT !.needed = FALSE]
        e == IF W = {} THEN d ELSE [d EXCEPT !.enr = 0]
        at == IF dev.del # Nothing THEN "del" ELSE "end"
        c == [t \in Tasks |-> IF t \in W \ R THEN Idle ELSE call[t]]
    IN  /\ Quiet /\ worker[n].st = "run"
        /\ worker' = [worker EXCEPT ![n] = NoOp]
        /\ timers' = IF armed THEN timers \cup {Timer(timers, "enroll", dev.enr)} ELSE timers
        /\ dev' = IF R # {} /\ at = "end" THEN ClearClaim(e) ELSE e
        /\ call' = Moved(c, R, at)
        /\ claimq' = IF at = "end" THEN Unlocked(R) ELSE claimq
        /\ UNCHANGED <<vop, lock, client>>

\* The deletion worker reconciled or failed; the call's finally clause runs.
DeletionEnds(t) ==
    LET d == IF dev.del = CallTask(t) THEN [dev EXCEPT !.del = Nothing] ELSE dev
    IN  /\ Quiet /\ call[t].pc = "deleting"
        /\ call' = Awaited([call EXCEPT ![t] = Idle])
        /\ dev' = ArmDev(d, timers)
        /\ timers' = ArmTimers(d, timers)
        /\ UNCHANGED <<vop, worker, lock, claimq, client>>

-----------------------------------------------------------------------------
(* Timers and departures. *)

\* _expire_unstarted_claim, _expire_stale_claim, _expire_stale_enrollment_claim:
\* each resets claim_expiry_task whichever timer that is.
Expire(x) ==
    /\ Quiet
    /\ timers' = timers \ {x}
    /\ dev' = LET d == [dev EXCEPT !.expiry = 0] IN
              CASE x.kind = "unstarted" ->
                     IF FreeOf(dev) THEN ClearClaim(d) ELSE d
                [] x.kind = "verify" ->
                     IF dev.vt = OpTask(x.of)
                     THEN ClearClaim([d EXCEPT !.vt = Nothing]) ELSE d
                [] x.kind = "enroll" ->
                     IF dev.enr = x.of
                     THEN ClearClaim([d EXCEPT !.enr = 0, !.needed = FALSE]) ELSE d
    /\ UNCHANGED <<vop, worker, call, lock, claimq, client>>

\* The client's process ends, or only its connection or session does.
Exit(s) ==
    /\ client[s].proc
    /\ client' = [client EXCEPT ![s].proc = FALSE, ![s].evidence = FALSE,
                                ![s].bus = IF @ = "on" THEN "off" ELSE @]
    /\ UNCHANGED <<dev, timers, vop, worker, call, lock, claimq>>

Disconnect(s) ==
    /\ client[s].bus = "on"
    /\ client' = [client EXCEPT ![s].bus = "off"]
    /\ UNCHANGED <<dev, timers, vop, worker, call, lock, claimq>>

LoseEvidence(s) ==
    /\ client[s].evidence /\ client[s].bus = "on"
    /\ client' = [client EXCEPT ![s].evidence = FALSE]
    /\ UNCHANGED <<dev, timers, vop, worker, call, lock, claimq>>

\* NameOwnerChanged starts sender_departed, which queues for claim_lock.
NameOwnerChanged(s) ==
    /\ client[s].bus = "off"
    /\ client' = [client EXCEPT ![s].bus = "gone"]
    /\ call' = [call EXCEPT ![<<s, 0>>] = [Idle EXCEPT !.m = "Departed", !.pc = "claimq"]]
    /\ claimq' = Append(claimq, <<s, 0>>)
    /\ UNCHANGED <<dev, timers, vop, worker, lock>>

\* Mutant: sender_departed does not wait for claim_lock.
MutSenderDeparted(s) ==
    LET t == <<s, 0>> IN
    /\ call[t].pc = "claimq"
    /\ \/ /\ dev.claim # s
          /\ call' = [call EXCEPT ![t] = Idle]
          /\ claimq' = SelectSeq(claimq, LAMBDA u : u # t)
          /\ UNCHANGED <<dev, timers, vop, worker, lock, client>>
       \/ /\ dev.claim = s
          /\ StopVerification(t, "Departed")

SenderDeparted(s) ==
    LET t == <<s, 0>> IN
    /\ claimq # <<>> /\ Head(claimq) = t /\ call[t].pc = "claimq"
    /\ \/ /\ dev.claim # s
          /\ call' = [call EXCEPT ![t] = Idle]
          /\ claimq' = Tail(claimq)
          /\ UNCHANGED <<dev, timers, vop, worker, lock, client>>
       \/ /\ dev.claim = s
          /\ StopVerification(t, "Departed")

-----------------------------------------------------------------------------
ClientCall(t) ==
    \/ Claim(t) \/ Release(t)
    \/ ListEnrolledFingers(t)
    \/ VerifyStart(t) \/ VerifyStop(t)
    \/ /\ t[1] \in Mutators
       /\ EnrollStart(t) \/ EnrollStop(t) \/ DeleteEnrolledFinger(t)

Continuation ==
    \/ \E t \in Tasks : CancelVerifyTask(t)
    \/ VerificationStopped
    \/ DeletionAwaited

Completion ==
    \/ StartProjection
    \/ \E res \in Results : CallProcessExits(res) \/ OpProcessExits(res)

Next ==
    \/ \E t \in Tasks : ClientCall(t) \/ ClaimLocked(t) \/ Collected(t) \/ DeletionEnds(t)
    \/ Continuation
    \/ Completion
    \/ \E n \in Ids : OpContinues(n)
    \/ \E n \in Ids : EnrollmentUpdate(n) \/ EnrollmentEnds(n)
    \/ \E x \in timers : Expire(x)
    \/ \E s \in Mortals : \/ Exit(s) \/ Disconnect(s) \/ LoseEvidence(s)
                           \/ NameOwnerChanged(s) \/ SenderDeparted(s)

\* The loop runs what is due; processes, timers and the bus's signals come to
\* an end; an enrollment ends once it is told to.  Clients owe nothing.
EnrollmentStopping == \E t \in Tasks : call[t].pc = "enr"
Fairness ==
    /\ WF_vars(Continuation)
    /\ WF_vars(Completion)
    /\ WF_vars(\E n \in Ids : OpContinues(n))
    /\ WF_vars(\E t \in Tasks : ClaimLocked(t) \/ Collected(t))
    /\ WF_vars(\E t \in Tasks : DeletionEnds(t))
    /\ WF_vars(EnrollmentStopping /\ \E n \in Ids : EnrollmentEnds(n))
    /\ \A i \in Ids : WF_vars(\E x \in timers : x.id = i /\ Expire(x))
    /\ \A s \in Mortals : WF_vars(NameOwnerChanged(s)) /\ WF_vars(SenderDeparted(s))

Spec == Init /\ [][Next]_vars /\ Fairness

-----------------------------------------------------------------------------
\* Every variable has its type, and no task waits twice for the operation
\* lock or the claim lock (T2Backend.operation_lock, FprintDevice.claim_lock).
TypeOK ==
    /\ dev \in [claim : Senders \cup {NoOne},
                vt : {Nothing} \cup {CallTask(t) : t \in Tasks} \cup {OpTask(n) : n \in Ids},
                del : {Nothing} \cup {CallTask(t) : t \in Tasks},
                enr : Ids \cup {0}, expiry : Ids \cup {0}, needed : BOOLEAN]
    /\ timers \subseteq [id : Ids, kind : {"unstarted", "verify", "enroll"},
                         of : Ids \cup {0}]
    /\ \A n \in Ids :
        /\ vop[n] \in [st : {"off", "lock", "project", "prepare", "probe", "rediscover",
                             "probe2", "report", "error"}, by : Senders \cup {NoOne}]
        /\ worker[n] \in [st : {"off", "run"}, by : Senders \cup {NoOne}]
    /\ \A t \in Tasks :
        call[t].pc \in {"none", "claimq", "collect", "kill", "enr", "del",
                        "lock", "project", "deleting"} \cup Ready
    /\ Len(lock) <= Cardinality(Tasks) + 1
    /\ IsInjective(lock) /\ IsInjective(claimq)

Verifying == {n \in Ids : vop[n].st # "off"}
Enrolling == {n \in Ids : worker[n].st = "run"}
Deleting == {t \in Tasks : call[t].pc = "deleting"}

\* At most one verification, enrollment or deletion runs, however their
\* starts, stops and waits interleave: each call looks at the others before
\* and after it waits for its projection (VerifyStart, EnrollStart,
\* DeleteEnrolledFinger).
OneOperation ==
    Cardinality(Verifying) + Cardinality(Enrolling) + Cardinality(Deleting) <= 1

\* What runs was started by the present owner of the claim and is what the
\* device refers to, so that Release, VerifyStop, EnrollStop and a departure
\* can reach it: no operation outlives its claim or loses its reference while
\* _stop_verification, _stop_enrollment and _wait_deletion wait.
OperationBound ==
    /\ \A n \in Verifying : dev.claim = vop[n].by /\ dev.vt = OpTask(n)
    /\ \A n \in Enrolling : dev.claim = worker[n].by /\ dev.enr = n
    /\ \A t \in Deleting : dev.claim = t[1] /\ dev.del = CallTask(t)

\* finger-needed is set while a verification runs and by nothing else but an
\* enrollment (_set_finger_state on every terminal, cancel and stop path).
FingerNeeded ==
    /\ Verifying # {} => dev.needed
    /\ dev.needed => Verifying \cup Enrolling # {}

\* With no owner there is no verification: the cleanup after a departure, a
\* Release or an expiry has ended it (_stop_verification, sender_departed).
CleanupEndsVerification == dev.claim = NoOne => Verifying = {}

\* Every method call and every departure handler comes to its end: nobody
\* waits for a lock, a process or another call for ever (claim_lock,
\* operation_lock, backend.cancel, client.stop, _wait_deletion).
CallsReturn == \A t \in Tasks : call[t].pc # "none" ~> call[t].pc = "none"

\* Once a client has left the bus its claim ends and never comes back, also
\* when it left while its Claim was collecting evidence (sender_departed).
DepartedReleased ==
    \A s \in Senders : client[s].bus = "off" ~> [](dev.claim # s)
====
