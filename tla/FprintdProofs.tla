---------------------------- MODULE FprintdProofs ----------------------------
(***************************************************************************)
(* Proofs about Fprintd, for any clients, calls and number of timers, and  *)
(* under the hypothesis ~LateSuccess: a process that backend.cancel() was  *)
(* called for does not report success (the run late_projection shows what  *)
(* happens when one does).                                                 *)
(*                                                                         *)
(* The properties say that what runs is what the device refers to.  That   *)
(* is inductive only with what every waiting task relies on:               *)
(*                                                                         *)
(*   Stopping   a stopper that has read verify_task is about to cancel     *)
(*              whatever runs, and one that has joined or has awaited the  *)
(*              deletion finds nothing running;                            *)
(*   Holding    a DeleteEnrolledFinger is the device's deletion until it   *)
(*              ends, and a Claim past its first wait holds claim_lock;    *)
(*   Timing     a verify or enroll timer belongs to an operation that has  *)
(*              ended, so that no expiry drops a reference in use;         *)
(*   Queueing   who holds the operation lock and who waits for it;         *)
(*   Ahead      an EnrollStart that waits is before the VerifyStart on     *)
(*              record: it resets finger-needed when it fails, and by then *)
(*              the verification must not have begun.                      *)
(***************************************************************************)
EXTENDS Fprintd, FiniteSetTheorems, SequenceTheorems, TLAPS

(* References to tasks: a call, a verification or none. *)
Refs == {Nothing} \cup {CallTask(t) : t \in Tasks} \cup {OpTask(n) : n \in Ids}

Devs(x) ==
    [claim : Senders \cup {NoOne}, vt : Refs, del : Refs, enr : Ids \cup {0},
     expiry : {x}, needed : BOOLEAN]

Stages == {"off", "lock", "project", "prepare", "probe", "rediscover", "probe2",
           "report", "error"}
Ops == [st : Stages, by : Senders \cup {NoOne}]

Workers == [st : {"off", "run"}, by : Senders \cup {NoOne}]

Methods == {"none", "Claim", "Release", "VerifyStart", "VerifyStop", "List",
            "EnrollStart", "EnrollStop", "Delete", "Departed"}

Places == {"none", "claimq", "collect", "kill", "enr", "del", "lock", "project",
           "deleting"} \cup Ready

Calls == [m : Methods, pc : Places, task : Refs]

Types ==
    /\ dev \in Devs(dev.expiry)
    /\ vop \in [Ids -> Ops] /\ worker \in [Ids -> Workers]
    /\ call \in [Tasks -> Calls]
    /\ lock \in Seq(Refs \ {Nothing}) /\ claimq \in Seq(Tasks)

(* The device refers to one operation at a time. *)
Single ==
    /\ dev.vt # Nothing => dev.enr = 0 /\ dev.del = Nothing
    /\ dev.enr # 0 => dev.del = Nothing

(* What runs is what the device refers to and was started by the owner. *)
Bound ==
    /\ \A n \in Ids : vop[n].st # "off" =>
          dev.vt = OpTask(n) /\ dev.claim = vop[n].by /\ dev.claim # NoOne
    /\ \A n \in Ids : worker[n].st = "run" =>
          dev.enr = n /\ dev.claim = worker[n].by /\ dev.claim # NoOne
    /\ \A t \in Tasks : call[t].pc = "deleting" =>
          dev.del = CallTask(t) /\ dev.claim = t[1] /\ dev.claim # NoOne

(* What a call that stops the operations knows where it waits. *)
Stopping(c) ==
    /\ c.pc \in {"kill", "cancel"} => \A n \in Ids : vop[n].st # "off" => c.task = OpTask(n)
    /\ c.pc \in {"joined", "deleted"} => \A n \in Ids : vop[n].st = "off"
    /\ c.pc = "del" => dev.del # Nothing
    /\ c.pc = "deleted" => /\ \A n \in Ids : worker[n].st # "run"
                           /\ \A u \in Tasks : call[u].pc # "deleting"
    /\ c.pc = "collect" => dev.claim = NoOne

(* A deletion holds its reference; a Claim past its first wait holds the   *)
(* claim lock.                                                             *)
Holding(t, c) ==
    /\ c.m = "Delete" => dev.del = CallTask(t)
    /\ c.pc = "deleting" => c.m = "Delete"
    /\ c.pc = "collect" => c.m = "Claim"
    /\ c.m = "Claim" => t[2] # 0
    /\ c.m = "Claim" /\ c.pc # "claimq" => claimq # <<>> /\ Head(claimq) = t
    /\ c.m = "none" <=> c.pc = "none"

(* A timer of a verification or an enrollment outlives it. *)
Timing(ts, v, w) ==
    \A x \in ts :
        /\ x.kind \in {"unstarted", "verify", "enroll"}
        /\ x.kind = "verify" => x.of \in Ids /\ v[x.of].st = "off"
        /\ x.kind = "enroll" => x.of \in Ids /\ w[x.of].st = "off"

(* The holder of the operation lock and those that wait for it. *)
Holders == {"project", "prepare", "probe", "rediscover", "probe2", "report"}

Queueing(l, v, c) ==
    /\ \A n \in Ids : v[n].st \in Holders => l # <<>> /\ Head(l) = OpTask(n)
    /\ \A i, j \in 1 .. Len(l) : l[i] = l[j] => i = j
    /\ \A i \in 1 .. Len(l), n \in Ids : l[i] = OpTask(n) =>
          v[n].st \notin {"off", "error"}
    /\ \A i \in 1 .. Len(l), t \in Tasks : l[i] = CallTask(t) =>
          t[2] # 0 /\ c[t].pc \in {"lock", "project"}
    /\ \A t \in Tasks : c[t].m = "EnrollStart" =>
          \E i \in 1 .. Len(l) : l[i] = CallTask(t)

(* An EnrollStart that waits is ahead of the VerifyStart on record, so that *)
(* its failure cannot take back the finger-needed of a verification.        *)
Ahead(l, r, c) ==
    \A t, u \in Tasks : c[t].m = "EnrollStart" /\ r = CallTask(u) =>
        \A j \in 1 .. Len(l) : l[j] = CallTask(u) =>
            \E i \in 1 .. Len(l) : i < j /\ l[i] = CallTask(t)

(* finger-needed follows the operations. *)
Needing ==
    /\ \A n \in Ids : vop[n].st # "off" => dev.needed
    /\ dev.needed => \E n \in Ids : vop[n].st # "off" \/ worker[n].st = "run"
    /\ \A t \in Tasks : call[t].m = "EnrollStart" => \A n \in Ids : vop[n].st = "off"

Inv ==
    /\ Types /\ Single /\ Bound
    /\ \A t \in Tasks : Stopping(call[t]) /\ Holding(t, call[t])
    /\ Timing(timers, vop, worker)
    /\ Queueing(lock, vop, call) /\ Ahead(lock, dev.vt, call)
    /\ Needing

-----------------------------------------------------------------------------
\* References to calls and to operations are told apart.
LEMMA Tags ==
    /\ \A t : CallTask(t)[1] = "call" /\ CallTask(t)[2] = t /\ CallTask(t) # Nothing
    /\ \A n : OpTask(n)[1] = "op" /\ OpTask(n)[2] = n /\ OpTask(n) # Nothing
    /\ \A t, n : CallTask(t) # OpTask(n)
    /\ \A t, u : CallTask(t) = CallTask(u) => t = u
    /\ \A m, n : OpTask(m) = OpTask(n) => m = n
BY DEF CallTask, OpTask, Nothing

\* 0 is no operation's number.
LEMMA Numbers == 0 \notin Ids
BY FprintdAssumption DEF Ids

\* A task belongs to a sender.
LEMMA Pairs ==
    /\ \A t \in Tasks : t[1] \in Senders /\ t[2] \in Slots \cup {0} /\ t[1] # NoOne
    /\ \A s \in Senders : <<s, 0>> \in Tasks
BY FprintdAssumption DEF Tasks

\* The daemon starts with nothing claimed and nothing waiting.
LEMMA InitInv == Init => Inv
<1>1. SUFFICES ASSUME Init PROVE Inv
  OBVIOUS
<1>2. \A t \in Tasks : call[t] = Idle
  BY <1>1 DEF Init
<1>3. \A n \in Ids : vop[n] = NoOp /\ worker[n] = NoOp
  BY <1>1 DEF Init
<1>4. Types
  BY <1>1, FprintdAssumption DEF Init, Types, Devs, Refs, Ops, Stages, Workers, Calls, Methods, Places, Idle, NoOp
<1>5. Single /\ Bound /\ Timing(timers, vop, worker) /\ Needing
  BY <1>1, <1>2, <1>3 DEF Init, Single, Bound, Timing, Needing, Idle, NoOp
<1>6. \A t \in Tasks : Stopping(call[t]) /\ Holding(t, call[t])
  BY <1>1, <1>2, <1>3 DEF Stopping, Holding, Idle, NoOp
<1>7. Queueing(lock, vop, call) /\ Ahead(lock, dev.vt, call)
  BY <1>1, <1>2, <1>3 DEF Init, Queueing, Ahead, Holders, Idle, NoOp
<1> QED BY <1>4, <1>5, <1>6, <1>7 DEF Inv

-----------------------------------------------------------------------------
(* The operation lock. *)

\* The lock's queue when only calls change that do not wait for it.
LEMMA QueueCalls ==
    ASSUME Inv, NEW e, NEW x,
           \A u \in Tasks : u[2] # 0 /\ call[u].pc \in {"lock", "project"} =>
               e[u].pc \in {"lock", "project"},
           \A u \in Tasks : e[u].m = "EnrollStart" => call[u].m = "EnrollStart",
           x = dev.vt \/ \A u \in Tasks : x # CallTask(u)
    PROVE  Queueing(lock, vop, e) /\ Ahead(lock, x, e)
<1>1. /\ lock \in Seq(Refs \ {Nothing})
      /\ Queueing(lock, vop, call) /\ Ahead(lock, dev.vt, call)
  BY DEF Inv, Types
<1>2. Queueing(lock, vop, e)
  BY <1>1 DEF Queueing
<1>3. Ahead(lock, x, e)
  BY <1>1 DEF Ahead
<1> QED BY <1>2, <1>3

(* q is l without its element k. *)
Without(l, q, k) ==
    /\ q \in Seq(Refs \ {Nothing}) /\ k \in 1 .. Len(l) /\ Len(q) = Len(l) - 1
    /\ \A i \in 1 .. Len(q) : q[i] = IF i < k THEN l[i] ELSE l[i + 1]

(* What a step that takes h off the lock does to operations and calls. *)
Relieved(h, v, w, c, e, r, x) ==
    /\ \A n \in Ids : w[n].st \notin Holders
    /\ \A n \in Ids : OpTask(n) # h /\ w[n].st \in {"off", "error"} => v[n].st \in {"off", "error"}
    /\ \A u \in Tasks : CallTask(u) # h /\ c[u].pc \in {"lock", "project"} =>
           e[u].pc \in {"lock", "project"}
    /\ \A u \in Tasks : e[u].m = "EnrollStart" => c[u].m = "EnrollStart" /\ CallTask(u) # h
    /\ x = r \/ \A u \in Tasks : x # CallTask(u)

\* The queue without one of its elements.
LEMMA QueueRemoved ==
    ASSUME NEW l \in Seq(Refs \ {Nothing}), NEW q, NEW k, Without(l, q, k),
           NEW v, NEW w, NEW c, NEW e, NEW r, NEW x,
           Queueing(l, v, c), Ahead(l, r, c), Relieved(l[k], v, w, c, e, r, x)
    PROVE  q \in Seq(Refs \ {Nothing}) /\ Queueing(q, w, e) /\ Ahead(q, x, e)
<1> USE DEF Without, Relieved
<1> DEFINE from(i) == IF i < k THEN i ELSE i + 1
           to(i) == IF i < k THEN i ELSE i - 1
<1>1. \A i \in 1 .. Len(q) : /\ from(i) \in 1 .. Len(l) /\ from(i) # k /\ q[i] = l[from(i)]
  OBVIOUS
<1>2. \A i, j \in 1 .. Len(q) : (from(i) = from(j) => i = j)
  OBVIOUS
<1>3. \A i \in 1 .. Len(l) : i # k => to(i) \in 1 .. Len(q) /\ q[to(i)] = l[i]
  OBVIOUS
<1>4. \A i \in 1 .. Len(l), j \in 1 .. Len(q) : i # k /\ i < from(j) => to(i) < j
  OBVIOUS
<1>5. \A i \in 1 .. Len(l) : l[i] = l[k] => i = k
  BY DEF Queueing
<1> HIDE DEF from, to
<1>6. Queueing(q, w, e)
  <2>1. \A i, j \in 1 .. Len(q) : q[i] = q[j] => i = j
    BY <1>1, <1>2 DEF Queueing
  <2>2. \A i \in 1 .. Len(q), n \in Ids : q[i] = OpTask(n) => w[n].st \notin {"off", "error"}
    BY <1>1, <1>5 DEF Queueing
  <2>3. \A i \in 1 .. Len(q), t \in Tasks : q[i] = CallTask(t) =>
            t[2] # 0 /\ e[t].pc \in {"lock", "project"}
    BY <1>1, <1>5 DEF Queueing
  <2>4. \A t \in Tasks : e[t].m = "EnrollStart" => \E i \in 1 .. Len(q) : q[i] = CallTask(t)
    <3> SUFFICES ASSUME NEW t \in Tasks, e[t].m = "EnrollStart"
                 PROVE  \E i \in 1 .. Len(q) : q[i] = CallTask(t)
      OBVIOUS
    <3>1. PICK i \in 1 .. Len(l) : l[i] = CallTask(t)
      BY DEF Queueing
    <3>2. i # k
      BY <3>1
    <3> QED BY <3>1, <3>2, <1>3
  <2> QED BY <2>1, <2>2, <2>3, <2>4 DEF Queueing
<1>7. Ahead(q, x, e)
  <2>1. SUFFICES ASSUME NEW t \in Tasks, NEW u \in Tasks, e[t].m = "EnrollStart", x = CallTask(u),
                        NEW j \in 1 .. Len(q), q[j] = CallTask(u)
                 PROVE  \E i \in 1 .. Len(q) : i < j /\ q[i] = CallTask(t)
    BY DEF Ahead
  <2>2. PICK i \in 1 .. Len(l) : i < from(j) /\ l[i] = CallTask(t)
    BY <1>1, <2>1 DEF Ahead
  <2>3. i # k
    BY <2>1, <2>2
  <2> QED BY <2>2, <2>3, <1>3, <1>4
<1> QED BY <1>6, <1>7

\* What remains when the holder leaves.
LEMMA QueueTail ==
    ASSUME NEW l \in Seq(Refs \ {Nothing}), l # <<>>
    PROVE  /\ Tail(l) \in Seq(Refs \ {Nothing}) /\ Len(Tail(l)) = Len(l) - 1
           /\ 1 \in 1 .. Len(l) /\ Head(l) = l[1] /\ Head(l) \in Refs \ {Nothing}
           /\ \A i \in 1 .. Len(Tail(l)) : Tail(l)[i] = IF i < 1 THEN l[i] ELSE l[i + 1]
<1>1. Len(l) \in Nat \ {0} /\ Head(l) = l[1]
  BY EmptySeq
<1> QED BY <1>1, HeadTailProperties

\* What remains when a cancelled waiter leaves.
LEMMA QueueWithout ==
    ASSUME NEW l \in Seq(Refs \ {Nothing}), NEW k \in 1 .. Len(l)
    PROVE  /\ RemoveAt(l, k) \in Seq(Refs \ {Nothing}) /\ Len(RemoveAt(l, k)) = Len(l) - 1
           /\ \A i \in 1 .. Len(RemoveAt(l, k)) :
                  RemoveAt(l, k)[i] = IF i < k THEN l[i] ELSE l[i + 1]
<1> DEFINE S == Refs \ {Nothing}
           a == SubSeq(l, 1, k - 1)
           b == SubSeq(l, k + 1, Len(l))
<1>0. Len(l) \in Nat /\ k \in Nat
  OBVIOUS
<1>1. a \in Seq(S) /\ Len(a) = k - 1 /\ \A i \in 1 .. k - 1 : a[i] = l[i]
  <2>1. \A i \in 1 .. k - 1 : l[i] \in S
    BY <1>0
  <2> HIDE DEF S
  <2> QED BY <1>0, <2>1, SubSeqProperties
<1>2. b \in Seq(S) /\ Len(b) = Len(l) - k /\ \A i \in 1 .. Len(l) - k : b[i] = l[k + i]
  <2>1. \A i \in k + 1 .. Len(l) : l[i] \in S
    BY <1>0
  <2> HIDE DEF S
  <2> QED BY <1>0, <2>1, SubSeqProperties
<1> HIDE DEF S, a, b
<1>3. /\ a \o b \in Seq(S) /\ Len(a \o b) = Len(a) + Len(b)
      /\ \A i \in 1 .. Len(a) + Len(b) :
            (a \o b)[i] = IF i <= Len(a) THEN a[i] ELSE b[i - Len(a)]
  BY <1>1, <1>2, ConcatProperties
<1>4. RemoveAt(l, k) = a \o b
  BY DEF RemoveAt, a, b
<1>5. ASSUME NEW i \in 1 .. Len(l) - 1 PROVE (a \o b)[i] = IF i < k THEN l[i] ELSE l[i + 1]
  <2>1. CASE i < k
    BY <2>1, <1>0, <1>1, <1>2, <1>3
  <2>2. CASE ~(i < k)
    <3>1. (a \o b)[i] = b[i - (k - 1)] /\ i - (k - 1) \in 1 .. Len(l) - k
      BY <2>2, <1>0, <1>1, <1>2, <1>3
    <3>2. b[i - (k - 1)] = l[k + (i - (k - 1))] 
      BY <3>1, <1>2
    <3>3. k + (i - (k - 1)) = i + 1
      BY <1>0
    <3> QED BY <2>2, <3>1, <3>2, <3>3
  <2> QED BY <2>1, <2>2
<1> QED BY <1>0, <1>1, <1>2, <1>3, <1>4, <1>5 DEF S

\* A call queues for the lock.
LEMMA QueueJoined ==
    ASSUME NEW l \in Seq(Refs \ {Nothing}), NEW t \in Tasks,
           NEW v, NEW c, NEW e, NEW r, NEW x,
           Queueing(l, v, c), Ahead(l, r, c),
           t[2] # 0, c[t].pc \notin {"lock", "project"}, e[t].pc = "lock",
           \A u \in Tasks : u # t => e[u] = c[u],
           \/ x = r /\ e[t].m # "EnrollStart"
           \/ \A u \in Tasks : x # CallTask(u)
           \/ x = CallTask(t) /\ e[t].m # "EnrollStart"
    PROVE  /\ Append(l, CallTask(t)) \in Seq(Refs \ {Nothing})
           /\ Queueing(Append(l, CallTask(t)), v, e) /\ Ahead(Append(l, CallTask(t)), x, e)
<1> DEFINE q == Append(l, CallTask(t))
<1>1. /\ q \in Seq(Refs \ {Nothing}) /\ Len(q) = Len(l) + 1 /\ Len(l) \in Nat
      /\ q[Len(l) + 1] = CallTask(t) /\ \A i \in 1 .. Len(l) : q[i] = l[i]
  BY Tags DEF Refs
<1>2. \A i \in 1 .. Len(l) : l[i] # CallTask(t)
  BY DEF Queueing
<1>3. l # <<>> => q # <<>> /\ Head(q) = Head(l)
  BY <1>1, EmptySeq
<1>4. \A i \in 1 .. Len(q) : i \in 1 .. Len(l) \/ i = Len(l) + 1
  BY <1>1
<1> HIDE DEF q
<1>5. Queueing(q, v, e)
  <2>1. \A i, j \in 1 .. Len(q) : q[i] = q[j] => i = j
    BY <1>1, <1>2, <1>4 DEF Queueing
  <2>2. \A i \in 1 .. Len(q), n \in Ids : q[i] = OpTask(n) => v[n].st \notin {"off", "error"}
    BY <1>1, <1>4, Tags DEF Queueing
  <2>3. \A i \in 1 .. Len(q), u \in Tasks : q[i] = CallTask(u) =>
            u[2] # 0 /\ e[u].pc \in {"lock", "project"}
    BY <1>1, <1>2, <1>4, Tags DEF Queueing
  <2>4. \A u \in Tasks : e[u].m = "EnrollStart" => \E i \in 1 .. Len(q) : q[i] = CallTask(u)
    <3> SUFFICES ASSUME NEW u \in Tasks, e[u].m = "EnrollStart" PROVE \E i \in 1 .. Len(q) : q[i] = CallTask(u)
      OBVIOUS
    <3>1. CASE u = t
      BY <3>1, <1>1
    <3>2. CASE u # t
      <4>1. PICK i \in 1 .. Len(l) : l[i] = CallTask(u)
        BY <3>2 DEF Queueing
      <4> QED BY <4>1, <1>1
    <3> QED BY <3>1, <3>2
  <2>5. \A n \in Ids : v[n].st \in Holders => q # <<>> /\ Head(q) = OpTask(n)
    BY <1>3 DEF Queueing
  <2> QED BY <2>1, <2>2, <2>3, <2>4, <2>5 DEF Queueing
<1>6. Ahead(q, x, e)
  <2>1. SUFFICES ASSUME NEW w \in Tasks, NEW u \in Tasks, e[w].m = "EnrollStart", x = CallTask(u),
                        NEW j \in 1 .. Len(q), q[j] = CallTask(u)
                 PROVE  \E i \in 1 .. Len(q) : i < j /\ q[i] = CallTask(w)
    BY DEF Ahead
  <2>2. w # t /\ c[w].m = "EnrollStart"
    BY <2>1
  <2>3. CASE u = t
    <3>1. PICK i \in 1 .. Len(l) : l[i] = CallTask(w)
      BY <2>2 DEF Queueing
    <3>2. j = Len(l) + 1
      BY <2>1, <2>3, <1>1, <1>2, <1>4
    <3> QED BY <3>1, <3>2, <1>1
  <2>4. CASE u # t
    <3>1. j \in 1 .. Len(l) /\ l[j] = CallTask(u) /\ x = r
      BY <2>1, <2>4, <1>1, <1>4, Tags
    <3>2. PICK i \in 1 .. Len(l) : i < j /\ l[i] = CallTask(w)
      BY <2>1, <2>2, <3>1 DEF Ahead
    <3> QED BY <3>2, <1>1
  <2> QED BY <2>3, <2>4
<1> QED BY <1>1, <1>5, <1>6 DEF q

\* A new operation queues for the lock.
LEMMA QueueStarted ==
    ASSUME NEW l \in Seq(Refs \ {Nothing}), NEW n \in Ids,
           NEW v, NEW w, NEW c, NEW x,
           Queueing(l, v, c),
           v[n].st = "off", w[n].st = "lock", \A m \in Ids : m # n => w[m] = v[m],
           \A u \in Tasks : x # CallTask(u)
    PROVE  /\ Append(l, OpTask(n)) \in Seq(Refs \ {Nothing})
           /\ Queueing(Append(l, OpTask(n)), w, c) /\ Ahead(Append(l, OpTask(n)), x, c)
<1> DEFINE q == Append(l, OpTask(n))
<1>1. /\ q \in Seq(Refs \ {Nothing}) /\ Len(q) = Len(l) + 1 /\ Len(l) \in Nat
      /\ q[Len(l) + 1] = OpTask(n) /\ \A i \in 1 .. Len(l) : q[i] = l[i]
  BY Tags DEF Refs
<1>2. \A i \in 1 .. Len(l) : l[i] # OpTask(n)
  BY DEF Queueing
<1>3. l # <<>> => q # <<>> /\ Head(q) = Head(l)
  BY <1>1, EmptySeq
<1>4. \A i \in 1 .. Len(q) : i \in 1 .. Len(l) \/ i = Len(l) + 1
  BY <1>1
<1> HIDE DEF q
<1>5. Queueing(q, w, c)
  <2>1. \A i, j \in 1 .. Len(q) : q[i] = q[j] => i = j
    BY <1>1, <1>2, <1>4 DEF Queueing
  <2>2. \A i \in 1 .. Len(q), m \in Ids : q[i] = OpTask(m) => w[m].st \notin {"off", "error"}
    BY <1>1, <1>2, <1>4, Tags DEF Queueing
  <2>3. \A i \in 1 .. Len(q), u \in Tasks : q[i] = CallTask(u) =>
            u[2] # 0 /\ c[u].pc \in {"lock", "project"}
    BY <1>1, <1>4, Tags DEF Queueing
  <2>4. \A u \in Tasks : c[u].m = "EnrollStart" => \E i \in 1 .. Len(q) : q[i] = CallTask(u)
    <3> SUFFICES ASSUME NEW u \in Tasks, c[u].m = "EnrollStart" PROVE \E i \in 1 .. Len(q) : q[i] = CallTask(u)
      OBVIOUS
    <3>1. PICK i \in 1 .. Len(l) : l[i] = CallTask(u)
      BY DEF Queueing
    <3> QED BY <3>1, <1>1
  <2>5. \A m \in Ids : w[m].st \in Holders => q # <<>> /\ Head(q) = OpTask(m)
    BY <1>3 DEF Queueing, Holders
  <2> QED BY <2>1, <2>2, <2>3, <2>4, <2>5 DEF Queueing
<1>6. Ahead(q, x, c)
  BY DEF Ahead
<1> QED BY <1>1, <1>5, <1>6 DEF q

-----------------------------------------------------------------------------
(* Records. *)

\* An EXCEPT of two fields is one of each.
LEMMA TwoFields ==
    ASSUME NEW m, NEW p, NEW r, NEW i, i = [m |-> "none", pc |-> "none", task |-> r]
    PROVE  [i EXCEPT !.m = m, !.pc = p] = [m |-> m, pc |-> p, task |-> r]
<1>1. [i EXCEPT !.m = m] = [m |-> m, pc |-> "none", task |-> r]
  OBVIOUS
<1> DEFINE j == [m |-> m, pc |-> "none", task |-> r]
<1>2. [j EXCEPT !.pc = p] = [m |-> m, pc |-> p, task |-> r]
  OBVIOUS
<1>3. [i EXCEPT !.m = m, !.pc = p] = [[i EXCEPT !.m = m] EXCEPT !.pc = p]
  OBVIOUS
<1> QED BY <1>1, <1>2, <1>3

\* The record of a call that begins.
LEMMA Begun ==
    ASSUME NEW m, NEW p
    PROVE  [Idle EXCEPT !.m = m, !.pc = p] = [m |-> m, pc |-> p, task |-> Nothing]
BY TwoFields DEF Idle

\* ... is a call's record.
LEMMA Record ==
    ASSUME NEW m \in Methods, NEW p \in Places, NEW r \in Refs
    PROVE  /\ [m |-> m, pc |-> p, task |-> r] \in Calls
           /\ Idle \in Calls
BY DEF Calls, Idle, Methods, Places, Refs

\* Waiting for claim_lock does not change its holder.
LEMMA HeadOfAppend ==
    ASSUME NEW q \in Seq(Tasks), NEW t \in Tasks, q # <<>>
    PROVE  Append(q, t) # <<>> /\ Head(Append(q, t)) = Head(q)
<1>1. Len(q) \in Nat \ {0}
  BY EmptySeq
<1> QED BY <1>1

(* A device and what the invariant reads of it. *)
Shape(d, c, v, l, e, b) ==
    /\ d \in Devs(d.expiry)
    /\ d.claim = c /\ d.vt = v /\ d.del = l /\ d.enr = e /\ d.needed = b

\* Every device has its own shape.
LEMMA Shaped ==
    ASSUME NEW d, d \in Devs(d.expiry)
    PROVE  Shape(d, d.claim, d.vt, d.del, d.enr, d.needed)
BY DEF Shape

\* Assignments to one field of the device.
LEMMA Edits ==
    ASSUME NEW d, NEW c, NEW v, NEW l, NEW e, NEW b, Shape(d, c, v, l, e, b)
    PROVE  /\ \A y : Shape([d EXCEPT !.expiry = y], c, v, l, e, b)
           /\ \A y \in Senders \cup {NoOne} : Shape([d EXCEPT !.claim = y], y, v, l, e, b)
           /\ \A y \in Refs : Shape([d EXCEPT !.vt = y], c, y, l, e, b)
           /\ \A y \in Refs : Shape([d EXCEPT !.del = y], c, v, y, e, b)
           /\ \A y \in Ids \cup {0} : Shape([d EXCEPT !.enr = y], c, v, l, y, b)
           /\ \A y \in BOOLEAN : Shape([d EXCEPT !.needed = y], c, v, l, e, y)
<1>1. ASSUME NEW y PROVE Shape([d EXCEPT !.expiry = y], c, v, l, e, b)
  BY DEF Shape, Devs
<1>2. ASSUME NEW y \in Senders \cup {NoOne} PROVE Shape([d EXCEPT !.claim = y], y, v, l, e, b)
  BY DEF Shape, Devs
<1>3. ASSUME NEW y \in Refs PROVE Shape([d EXCEPT !.vt = y], c, y, l, e, b)
  BY DEF Shape, Devs
<1>4. ASSUME NEW y \in Refs PROVE Shape([d EXCEPT !.del = y], c, v, y, e, b)
  BY DEF Shape, Devs
<1>5. ASSUME NEW y \in Ids \cup {0} PROVE Shape([d EXCEPT !.enr = y], c, v, l, y, b)
  BY DEF Shape, Devs
<1>6. ASSUME NEW y \in BOOLEAN PROVE Shape([d EXCEPT !.needed = y], c, v, l, e, y)
  BY DEF Shape, Devs
<1> QED BY <1>1, <1>2, <1>3, <1>4, <1>5, <1>6

\* Members of the types that the device's fields take.
LEMMA References == Nothing \in Refs /\ NoOne \in Senders \cup {NoOne}
                    /\ (\A t \in Tasks : CallTask(t) \in Refs) /\ (\A n \in Ids : OpTask(n) \in Refs)
BY DEF Refs

\* Assignments to several fields of the device.
LEMMA DoubleEdits ==
    ASSUME NEW d, NEW c, NEW v, NEW l, NEW e, NEW b, Shape(d, c, v, l, e, b)
    PROVE  /\ Shape([d EXCEPT !.expiry = 0, !.enr = 0, !.needed = FALSE], c, v, l, 0, FALSE)
           /\ Shape([d EXCEPT !.enr = 0, !.needed = FALSE], c, v, l, 0, FALSE)
           /\ \A y : Shape([d EXCEPT !.needed = FALSE, !.expiry = y], c, v, l, e, FALSE)
           /\ \A y : \A s \in Senders \cup {NoOne} :
                  Shape([d EXCEPT !.claim = s, !.expiry = y], s, v, l, e, b)
           /\ \A y \in Refs : Shape([d EXCEPT !.vt = y, !.needed = TRUE], c, y, l, e, TRUE)
           /\ \A y \in Refs : Shape([d EXCEPT !.vt = y, !.needed = FALSE], c, y, l, e, FALSE)
           /\ \A y \in Refs : Shape([d EXCEPT !.expiry = 0, !.vt = y], c, y, l, e, b)
           /\ \A y \in Refs : Shape([d EXCEPT !.expiry = 0, !.del = y], c, v, y, e, b)
<1>1. Shape([d EXCEPT !.expiry = 0, !.enr = 0, !.needed = FALSE], c, v, l, 0, FALSE)
  BY Edits, Zenon
<1>2. Shape([d EXCEPT !.enr = 0, !.needed = FALSE], c, v, l, 0, FALSE)
  BY Edits, Zenon
<1>3. ASSUME NEW y PROVE Shape([d EXCEPT !.needed = FALSE, !.expiry = y], c, v, l, e, FALSE)
  BY Edits, Zenon
<1>4. ASSUME NEW y, NEW s \in Senders \cup {NoOne}
      PROVE  Shape([d EXCEPT !.claim = s, !.expiry = y], s, v, l, e, b)
  BY Edits, Zenon
<1>5. ASSUME NEW y \in Refs
      PROVE  /\ Shape([d EXCEPT !.vt = y, !.needed = TRUE], c, y, l, e, TRUE)
             /\ Shape([d EXCEPT !.vt = y, !.needed = FALSE], c, y, l, e, FALSE)
  BY Edits, Zenon
<1>6. ASSUME NEW y \in Refs PROVE Shape([d EXCEPT !.expiry = 0, !.vt = y], c, y, l, e, b)
  BY Edits, Zenon
<1>7. ASSUME NEW y \in Refs PROVE Shape([d EXCEPT !.expiry = 0, !.del = y], c, v, y, e, b)
  BY Edits, Zenon
<1> QED BY <1>1, <1>2, <1>3, <1>4, <1>5, <1>6, <1>7

\* _arm_unstarted_claim_expiry changes the expiry only.
LEMMA Arming ==
    ASSUME NEW d, NEW ts, NEW c, NEW v, NEW l, NEW e, NEW b, Shape(d, c, v, l, e, b)
    PROVE  Shape(ArmDev(d, ts), c, v, l, e, b)
<1>1. CASE ArmNeeded(d)
  BY <1>1, Edits DEF ArmDev
<1>2. CASE ~ArmNeeded(d)
  BY <1>2 DEF ArmDev
<1> QED BY <1>1, <1>2

\* Where a stopper goes after the verification, and what it leaves of the device.
LEMMA AfterStop ==
    ASSUME NEW d, NEW c, NEW v, NEW l, NEW e, NEW b, Shape(d, c, v, l, e, b)
    PROVE  LET run == e # 0 /\ worker[e].st = "run" IN
           /\ run => StopsAt(d) = "enr" /\ Shape(AfterEnrollment(d), c, v, l, e, b)
           /\ ~run /\ l # Nothing =>
                 StopsAt(d) = "del" /\ Shape(AfterEnrollment(d), c, v, l, 0, FALSE)
           /\ ~run /\ l = Nothing =>
                 StopsAt(d) = "end" /\ Shape(AfterEnrollment(d), NoOne, v, l, 0, FALSE)
<1> DEFINE run == e # 0 /\ worker[e].st = "run"
<1>1. d.enr = e /\ d.del = l
  BY DEF Shape
<1>2. CASE run
  <2>1. StopsAt(d) = "enr" /\ EnrollmentStopped(d) = [d EXCEPT !.expiry = 0]
    BY <1>1, <1>2, Zenon DEF StopsAt, EnrollmentStopped
  <2>2. AfterEnrollment(d) = [d EXCEPT !.expiry = 0]
    BY <2>1, Zenon DEF AfterEnrollment
  <2>3. Shape([d EXCEPT !.expiry = 0], c, v, l, e, b)
    BY Edits, Zenon
  <2>4. Shape(AfterEnrollment(d), c, v, l, e, b)
    BY <2>2, <2>3, Zenon
  <2> QED BY <1>2, <2>1, <2>4
<1>3. CASE ~run
  <2>1. EnrollmentStopped(d) = [d EXCEPT !.expiry = 0, !.enr = 0, !.needed = FALSE]
    BY <1>1, <1>3, Zenon DEF EnrollmentStopped
  <2>2. Shape(EnrollmentStopped(d), c, v, l, 0, FALSE)
    <3>1. Shape([d EXCEPT !.expiry = 0, !.enr = 0, !.needed = FALSE], c, v, l, 0, FALSE)
      BY DoubleEdits, Zenon
    <3> QED BY <2>1, <3>1, Zenon
  <2>3. CASE l # Nothing
    <3>1. StopsAt(d) = "del"
      BY <1>1, <1>3, <2>3, Zenon DEF StopsAt
    <3>2. AfterEnrollment(d) = EnrollmentStopped(d)
      BY <3>1, Zenon DEF AfterEnrollment
    <3> QED BY <1>3, <2>2, <2>3, <3>1, <3>2, Zenon
  <2>4. CASE l = Nothing
    <3>1. StopsAt(d) = "end"
      BY <1>1, <1>3, <2>4, Zenon DEF StopsAt
    <3>2. AfterEnrollment(d) = ClearClaim(EnrollmentStopped(d))
      BY <3>1, Zenon DEF AfterEnrollment
    <3>3. Shape(ClearClaim(EnrollmentStopped(d)), NoOne, v, l, 0, FALSE)
      BY <2>2, Edits, References, Zenon DEF ClearClaim
    <3> QED BY <1>3, <2>4, <3>1, <3>2, <3>3, Zenon
  <2> QED BY <2>3, <2>4
<1> QED BY <1>2, <1>3

\* ... when no enrollment runs.
LEMMA AfterIdle ==
    ASSUME NEW d, NEW c, NEW v, NEW l, NEW e, NEW b, Shape(d, c, v, l, e, b),
           e = 0 \/ worker[e].st # "run"
    PROVE  /\ l # Nothing => StopsAt(d) = "del" /\ Shape(AfterEnrollment(d), c, v, l, 0, FALSE)
           /\ l = Nothing => StopsAt(d) = "end" /\ Shape(AfterEnrollment(d), NoOne, v, l, 0, FALSE)
BY AfterStop, Zenon

\* Timers stay owed to operations that have ended.
LEMMA TimingKept ==
    ASSUME NEW ts, NEW us, NEW v, NEW w, NEW v2, NEW w2, Timing(ts, v, w),
           \A x \in us : x \in ts \/ x.kind = "unstarted",
           \A n \in Ids : v[n].st = "off" => v2[n].st = "off",
           \A n \in Ids : w[n].st = "off" => w2[n].st = "off"
    PROVE  Timing(us, v2, w2)
BY DEF Timing

\* Arming adds an unstarted timer only.
LEMMA ArmedTimers ==
    ASSUME NEW d, NEW ts
    PROVE  \A x \in ArmTimers(d, ts) : x \in ts \/ x.kind = "unstarted"
BY DEF ArmTimers, Timer

\* Cancelling adds none.
LEMMA CancelledTimers ==
    ASSUME NEW ts PROVE \A x \in Cancelled(ts) : x \in ts
BY DEF Cancelled

(* Calls *)
Form(x, m, p, r) == x \in Calls /\ x.m = m /\ x.pc = p /\ x.task = r

\* Every call has its own form.
LEMMA Formed ==
    ASSUME NEW k \in Calls PROVE Form(k, k.m, k.pc, k.task)
BY DEF Form

\* Assignments to a call's place and task.
LEMMA Turned ==
    ASSUME NEW k, NEW m, NEW p, NEW r, Form(k, m, p, r)
    PROVE  /\ \A y \in Places : Form([k EXCEPT !.pc = y], m, y, r)
           /\ \A y \in Refs : Form([k EXCEPT !.task = y], m, p, y)
           /\ \A y \in Places : \A z \in Refs : Form([k EXCEPT !.pc = y, !.task = z], m, y, z)
<1>1. \A x, f, g, h : Form(x, f, g, h) => \A y \in Places : Form([x EXCEPT !.pc = y], f, y, h)
  BY DEF Form, Calls
<1>2. \A x, f, g, h : Form(x, f, g, h) => \A y \in Refs : Form([x EXCEPT !.task = y], f, g, y)
  BY DEF Form, Calls
<1>3. ASSUME NEW y \in Places, NEW z \in Refs PROVE Form([k EXCEPT !.pc = y, !.task = z], m, y, z)
  <2>1. Form([k EXCEPT !.pc = y], m, y, r)
    BY <1>1, Zenon
  <2> QED BY <1>2, <2>1, Zenon
<1> QED BY <1>1, <1>2, <1>3, Zenon

\* A call that is over.
LEMMA IdleCall == Form(Idle, "none", "none", Nothing)
BY DEF Form, Idle, Calls, Methods, Places, Refs

\* What Moved makes of each call.
LEMMA MovedCalls ==
    ASSUME NEW c \in [Tasks -> Calls], NEW S, NEW at \in {"enr", "del", "end"}
    PROVE  /\ Moved(c, S, at) \in [Tasks -> Calls]
           /\ \A t \in Tasks : t \notin S => Moved(c, S, at)[t] = c[t]
           /\ \A t \in Tasks : t \in S /\ at # "end" =>
                 Form(Moved(c, S, at)[t], c[t].m, at, Nothing)
           /\ \A t \in Tasks : t \in S /\ at = "end" /\ c[t].m = "Claim" =>
                 Form(Moved(c, S, at)[t], "Claim", "collect", Nothing)
           /\ \A t \in Tasks : t \in S /\ at = "end" /\ c[t].m # "Claim" =>
                 Form(Moved(c, S, at)[t], "none", "none", Nothing)
<1>1. ASSUME NEW t \in Tasks
      PROVE  /\ Moved(c, S, at)[t] \in Calls
             /\ t \notin S => Moved(c, S, at)[t] = c[t]
             /\ t \in S /\ at # "end" => Form(Moved(c, S, at)[t], c[t].m, at, Nothing)
             /\ t \in S /\ at = "end" /\ c[t].m = "Claim" =>
                   Form(Moved(c, S, at)[t], "Claim", "collect", Nothing)
             /\ t \in S /\ at = "end" /\ c[t].m # "Claim" =>
                   Form(Moved(c, S, at)[t], "none", "none", Nothing)
  <2>0. c[t] \in Calls /\ "collect" \in Places /\ (at # "end" => at \in Places) /\ Nothing \in Refs
    BY References DEF Places
  <2>1. CASE t \notin S
    <3>1. Moved(c, S, at)[t] = c[t]
      BY <2>1, Zenon DEF Moved
    <3> QED BY <2>0, <2>1, <3>1
  <2>2. CASE t \in S /\ at # "end"
    <3>1. Moved(c, S, at)[t] = [c[t] EXCEPT !.pc = at, !.task = Nothing]
      BY <2>2, Zenon DEF Moved
    <3>2. Form([c[t] EXCEPT !.pc = at, !.task = Nothing], c[t].m, at, Nothing)
      BY <2>0, <2>2, Formed, Turned, Zenon
    <3>3. Form(Moved(c, S, at)[t], c[t].m, at, Nothing)
      BY <3>1, <3>2, Zenon
    <3> QED BY <2>2, <3>3 DEF Form
  <2>3. CASE t \in S /\ at = "end" /\ c[t].m = "Claim"
    <3>1. Moved(c, S, at)[t] = [c[t] EXCEPT !.pc = "collect", !.task = Nothing]
      BY <2>3, Zenon DEF Moved
    <3>2. Form([c[t] EXCEPT !.pc = "collect", !.task = Nothing], c[t].m, "collect", Nothing)
      BY <2>0, Formed, Turned, Zenon
    <3>3. Form(Moved(c, S, at)[t], "Claim", "collect", Nothing)
      BY <2>3, <3>1, <3>2, Zenon
    <3> QED BY <2>3, <3>3 DEF Form
  <2>4. CASE t \in S /\ at = "end" /\ c[t].m # "Claim"
    <3>1. Moved(c, S, at)[t] = Idle
      BY <2>4, Zenon DEF Moved
    <3>2. Form(Moved(c, S, at)[t], "none", "none", Nothing)
      BY <3>1, IdleCall, Zenon
    <3> QED BY <2>4, <3>2 DEF Form
  <2> QED BY <2>1, <2>2, <2>3, <2>4
<1>2. Moved(c, S, at) \in [Tasks -> Calls]
  <2>1. Moved(c, S, at) = [t \in Tasks |-> Moved(c, S, at)[t]]
    BY Zenon DEF Moved
  <2> QED BY <1>1, <2>1, Zenon
<1> QED BY <1>1, <1>2

\* What Ended makes of each call.
LEMMA EndedCalls ==
    ASSUME NEW c \in [Tasks -> Calls], NEW t
    PROVE  /\ Ended(c, t) \in [Tasks -> Calls]
           /\ t \in Tasks => Form(Ended(c, t)[t], "none", "none", Nothing)
           /\ \A u \in Tasks : u # t =>
                 /\ Ended(c, t)[u].m = c[u].m /\ Ended(c, t)[u].pc = c[u].pc
                 /\ c[u].task # CallTask(t) => Ended(c, t)[u].task = c[u].task
<1>1. ASSUME NEW u \in Tasks
      PROVE  /\ Ended(c, t)[u] \in Calls
             /\ u = t => Form(Ended(c, t)[u], "none", "none", Nothing)
             /\ u # t => /\ Ended(c, t)[u].m = c[u].m /\ Ended(c, t)[u].pc = c[u].pc
                         /\ c[u].task # CallTask(t) => Ended(c, t)[u].task = c[u].task
  <2>0. c[u] \in Calls /\ Nothing \in Refs
    BY References
  <2>1. CASE u = t
    <3>1. Ended(c, t)[u] = Idle
      BY <2>1, Zenon DEF Ended
    <3>2. Form(Ended(c, t)[u], "none", "none", Nothing)
      BY <3>1, IdleCall, Zenon
    <3> QED BY <2>1, <3>2 DEF Form
  <2>2. CASE u # t /\ c[u].task = CallTask(t)
    <3>1. Ended(c, t)[u] = [c[u] EXCEPT !.task = Nothing]
      BY <2>2, Zenon DEF Ended
    <3>2. Form([c[u] EXCEPT !.task = Nothing], c[u].m, c[u].pc, Nothing)
      BY <2>0, Formed, Turned, Zenon
    <3>3. Form(Ended(c, t)[u], c[u].m, c[u].pc, Nothing)
      BY <3>1, <3>2, Zenon
    <3> QED BY <2>2, <3>3 DEF Form
  <2>3. CASE u # t /\ c[u].task # CallTask(t)
    <3>1. Ended(c, t)[u] = c[u]
      BY <2>3, Zenon DEF Ended
    <3> QED BY <2>0, <2>3, <3>1
  <2> QED BY <2>1, <2>2, <2>3
<1>2. Ended(c, t) \in [Tasks -> Calls]
  <2>1. Ended(c, t) = [u \in Tasks |-> Ended(c, t)[u]]
    BY Zenon DEF Ended
  <2> QED BY <1>1, <2>1, Zenon
<1> QED BY <1>1, <1>2

\* What Reaped makes of each call.
LEMMA ReapedCalls ==
    ASSUME NEW c \in [Tasks -> Calls]
    PROVE  /\ Reaped(c) \in [Tasks -> Calls]
           /\ \A u \in Tasks :
                 Form(Reaped(c)[u], c[u].m,
                      IF c[u].pc = "kill" THEN "cancel" ELSE c[u].pc, c[u].task)
<1>1. ASSUME NEW u \in Tasks
      PROVE  Form(Reaped(c)[u], c[u].m,
                  IF c[u].pc = "kill" THEN "cancel" ELSE c[u].pc, c[u].task)
  <2>0. Form(c[u], c[u].m, c[u].pc, c[u].task) /\ "cancel" \in Places
    BY Formed DEF Places, Ready
  <2>1. CASE c[u].pc = "kill"
    <3>1. Reaped(c)[u] = [c[u] EXCEPT !.pc = "cancel"]
      BY <2>1, Zenon DEF Reaped
    <3>2. Form([c[u] EXCEPT !.pc = "cancel"], c[u].m, "cancel", c[u].task)
      BY <2>0, Turned, Zenon
    <3> QED BY <2>1, <3>1, <3>2, Zenon
  <2>2. CASE c[u].pc # "kill"
    <3>1. Reaped(c)[u] = c[u]
      BY <2>2, Zenon DEF Reaped
    <3> QED BY <2>0, <2>2, <3>1, Zenon
  <2> QED BY <2>1, <2>2
<1>2. Reaped(c) \in [Tasks -> Calls]
  <2>1. Reaped(c) = [u \in Tasks |-> Reaped(c)[u]]
    BY Zenon DEF Reaped
  <2>2. \A u \in Tasks : Reaped(c)[u] \in Calls
    BY <1>1 DEF Form
  <2> QED BY <2>1, <2>2, Zenon
<1> QED BY <1>1, <1>2

\* What Awaited makes of each call.
LEMMA AwaitedCalls ==
    ASSUME NEW c \in [Tasks -> Calls]
    PROVE  /\ Awaited(c) \in [Tasks -> Calls]
           /\ \A u \in Tasks :
                 Form(Awaited(c)[u], c[u].m,
                      IF c[u].pc = "del" THEN "deleted" ELSE c[u].pc, c[u].task)
<1>1. ASSUME NEW u \in Tasks
      PROVE  Form(Awaited(c)[u], c[u].m,
                  IF c[u].pc = "del" THEN "deleted" ELSE c[u].pc, c[u].task)
  <2>0. Form(c[u], c[u].m, c[u].pc, c[u].task) /\ "deleted" \in Places
    BY Formed DEF Places, Ready
  <2>1. CASE c[u].pc = "del"
    <3>1. Awaited(c)[u] = [c[u] EXCEPT !.pc = "deleted"]
      BY <2>1, Zenon DEF Awaited
    <3>2. Form([c[u] EXCEPT !.pc = "deleted"], c[u].m, "deleted", c[u].task)
      BY <2>0, Turned, Zenon
    <3> QED BY <2>1, <3>1, <3>2, Zenon
  <2>2. CASE c[u].pc # "del"
    <3>1. Awaited(c)[u] = c[u]
      BY <2>2, Zenon DEF Awaited
    <3> QED BY <2>0, <2>2, <3>1, Zenon
  <2> QED BY <2>1, <2>2
<1>2. Awaited(c) \in [Tasks -> Calls]
  <2>1. Awaited(c) = [u \in Tasks |-> Awaited(c)[u]]
    BY Zenon DEF Awaited
  <2>2. \A u \in Tasks : Awaited(c)[u] \in Calls
    BY <1>1 DEF Form
  <2> QED BY <2>1, <2>2, Zenon
<1> QED BY <1>1, <1>2

\* Claim keeps the invariant.
LEMMA ClaimInv ==
    ASSUME Inv, NEW t \in Tasks, Claim(t) PROVE Inv'
<1> DEFINE new == [m |-> "Claim", pc |-> "claimq", task |-> Nothing]
<1>1. /\ call[t].m = "none" /\ call[t].pc = "none"
      /\ t[2] # 0 /\ claimq' = Append(claimq, t) 
      /\ UNCHANGED <<dev, timers, vop, worker, lock>>
  BY DEF Claim, Free, Idle
<1>a. call' = [call EXCEPT ![t] = new]
  BY Begun DEF Claim
<1>b. new.m = "Claim" /\ new.pc = "claimq" /\ new.task = Nothing /\ new \in Calls
  BY Record DEF Methods, Places, Refs, Calls
<1> HIDE DEF new
<1>2. Types'
  <2>1. call' \in [Tasks -> Calls]
    BY <1>a, <1>b DEF Inv, Types
  <2>2. claimq' \in Seq(Tasks)
    BY <1>1 DEF Inv, Types
  <2> QED BY <1>1, <2>1, <2>2 DEF Inv, Types
<1>3. Single' /\ Bound' /\ Timing(timers, vop, worker)' /\ Needing'
  BY <1>1, <1>a, <1>b DEF Inv, Types, Single, Bound, Timing, Needing
<1>4. ASSUME NEW u \in Tasks PROVE Stopping(call[u])' /\ Holding(u, call[u])'
  <2>1. CASE u = t
    BY <1>1, <1>a, <1>b, <2>1 DEF Inv, Types, Stopping, Holding, Ready
  <2>2. CASE u # t
    <3>1. call'[u] = call[u] 
      BY <1>a, <2>2 DEF Inv, Types
    <3>2. Stopping(call[u])'
      BY <1>1, <1>a, <1>b, <3>1 DEF Inv, Types, Stopping
    <3>3. Holding(u, call[u])'
      <4>1. claimq # <<>> => claimq' # <<>> /\ Head(claimq') = Head(claimq)
        BY <1>1, HeadOfAppend DEF Inv, Types
      <4> QED BY <1>1, <3>1, <4>1 DEF Inv, Holding
    <3> QED BY <3>2, <3>3
  <2> QED BY <2>1, <2>2
<1>5. Queueing(lock, vop, call)' /\ Ahead(lock, dev.vt, call)'
  BY <1>1, <1>a, <1>b DEF Inv, Types, Queueing, Ahead
<1> QED BY <1>2, <1>3, <1>4, <1>5 DEF Inv

\* A call replaced by another.
LEMMA Replaced ==
    ASSUME NEW c \in [Tasks -> Calls], NEW t \in Tasks, NEW k \in Calls
    PROVE  /\ [c EXCEPT ![t] = k] \in [Tasks -> Calls]
           /\ [c EXCEPT ![t] = k][t] = k
           /\ \A u \in Tasks : u # t => [c EXCEPT ![t] = k][u] = c[u]
OBVIOUS

\* A call at another place.
LEMMA Placed ==
    ASSUME NEW c \in [Tasks -> Calls], NEW t \in Tasks, NEW p \in Places
    PROVE  /\ [c EXCEPT ![t].pc = p] \in [Tasks -> Calls]
           /\ Form([c EXCEPT ![t].pc = p][t], c[t].m, p, c[t].task)
           /\ \A u \in Tasks : u # t => [c EXCEPT ![t].pc = p][u] = c[u]
<1>1. Form([c[t] EXCEPT !.pc = p], c[t].m, p, c[t].task)
  BY Formed, Turned, Zenon
<1> DEFINE k == [c[t] EXCEPT !.pc = p]
<1>2. [c EXCEPT ![t].pc = p] = [c EXCEPT ![t] = k]
  BY Zenon
<1>3. k \in Calls
  BY <1>1, Zenon DEF Form
<1> HIDE DEF k
<1>4. /\ [c EXCEPT ![t] = k] \in [Tasks -> Calls]
      /\ [c EXCEPT ![t] = k][t] = k
      /\ \A u \in Tasks : u # t => [c EXCEPT ![t] = k][u] = c[u]
  BY <1>3
<1> QED BY <1>1, <1>2, <1>4, Zenon DEF k

(* _stop_verification on entry, for a task that was idle or waited for the *)
(* claim lock.                                                             *)
LEMMA StopInv ==
    ASSUME Inv, NEW t \in Tasks, NEW m \in {"Release", "VerifyStop", "Departed", "Claim"},
           call[t].pc \in {"none", "claimq"},
           m = "Claim" => t[2] # 0 /\ claimq # <<>> /\ Head(claimq) = t,
           StopVerification(t, m)
    PROVE  Inv'
<1> DEFINE k == [m |-> m, pc |-> "none", task |-> dev.vt]
           c == [call EXCEPT ![t] = k]
           d == [dev EXCEPT !.expiry = 0]
           e == [d EXCEPT !.needed = FALSE]
<1>1. UNCHANGED <<vop, worker, lock>> /\ timers' = Cancelled(timers)
  BY DEF StopVerification
<1>2. Shape(d, dev.claim, dev.vt, dev.del, dev.enr, dev.needed)
  BY Shaped, Edits, Zenon DEF Inv, Types
<1>3. Shape(e, dev.claim, dev.vt, dev.del, dev.enr, FALSE)
  BY <1>2, Edits, Zenon
<1>4. Form(k, m, "none", dev.vt)
  BY DEF Form, Calls, Methods, Places, Inv, Types, Devs
<1> HIDE DEF k
<1>5. /\ c \in [Tasks -> Calls] /\ c[t] = k
      /\ \A u \in Tasks : u # t => c[u] = call[u]
  BY <1>4, Replaced DEF Form, Inv, Types
<1> HIDE DEF c
<1>6. Timing(timers, vop, worker)'
  <2>1. Timing(Cancelled(timers), vop, worker)
    BY TimingKept, CancelledTimers DEF Inv
  <2> QED BY <1>1, <2>1
<1>7. CASE dev.vt # Nothing /\ dev' = d /\ UNCHANGED claimq
           /\ call' = [c EXCEPT ![t].pc = IF ProcessRunning THEN "kill" ELSE "cancel"]
  <2>1. PICK p \in {"kill", "cancel"} : call' = [c EXCEPT ![t].pc = p]
    BY <1>7
  <2>2. /\ call' \in [Tasks -> Calls] /\ Form(call'[t], m, p, dev.vt)
        /\ \A u \in Tasks : u # t => call'[u] = call[u]
    <3>1. p \in Places
      BY DEF Places, Ready
    <3>2. /\ [c EXCEPT ![t].pc = p] \in [Tasks -> Calls]
          /\ Form([c EXCEPT ![t].pc = p][t], c[t].m, p, c[t].task)
          /\ \A u \in Tasks : u # t => [c EXCEPT ![t].pc = p][u] = c[u]
      BY <1>5, <3>1, Placed
    <3>3. c[t].m = m /\ c[t].task = dev.vt
      BY <1>4, <1>5 DEF Form
    <3> QED BY <2>1, <3>2, <3>3, <1>5, Zenon
  <2>3. Shape(dev', dev.claim, dev.vt, dev.del, dev.enr, dev.needed)
    BY <1>2, <1>7, Zenon
  <2>4. Types'
    BY <1>1, <1>7, <2>2, <2>3 DEF Inv, Types, Shape
  <2>5. Single' /\ Bound' /\ Needing'
    BY <1>1, <2>2, <2>3 DEF Inv, Single, Bound, Needing, Shape, Form
  <2>6. ASSUME NEW u \in Tasks PROVE Stopping(call[u])'
    <3>1. CASE u = t
      BY <3>1, <1>1, <2>2, <2>3 DEF Inv, Bound, Stopping, Shape, Form
    <3>2. CASE u # t
      BY <3>2, <1>1, <2>2, <2>3 DEF Inv, Stopping, Shape, Form
    <3> QED BY <3>1, <3>2
  <2>7. ASSUME NEW u \in Tasks PROVE Holding(u, call[u])'
    <3>1. CASE u = t
      BY <3>1, <1>7, <2>2, <2>3 DEF Inv, Holding, Shape, Form
    <3>2. CASE u # t
      BY <3>2, <1>7, <2>2, <2>3 DEF Inv, Holding, Shape
    <3> QED BY <3>1, <3>2
  <2>8. Queueing(lock, vop, call)' /\ Ahead(lock, dev.vt, call)'
    <3>1. /\ \A u \in Tasks : call[u].pc \in {"lock", "project"} => call'[u].pc \in {"lock", "project"}
          /\ \A u \in Tasks : call'[u].m = "EnrollStart" => call[u].m = "EnrollStart"
      BY <2>2 DEF Form
    <3>2. dev'.vt = dev.vt
      BY <2>3 DEF Shape
    <3>3. Queueing(lock, vop, call') /\ Ahead(lock, dev.vt, call')
      BY <3>1, QueueCalls, Zenon
    <3> QED BY <1>1, <3>2, <3>3
  <2> QED BY <1>6, <2>4, <2>5, <2>6, <2>7, <2>8 DEF Inv
<1>8. CASE dev.vt = Nothing /\ m = "VerifyStop" /\ dev' = e /\ UNCHANGED <<call, claimq>>
  <2>1. Shape(dev', dev.claim, dev.vt, dev.del, dev.enr, FALSE)
    BY <1>3, <1>8, Zenon
  <2>2. \A n \in Ids : vop[n].st = "off"
    BY <1>8, Tags DEF Inv, Bound
  <2>3. Types'
    BY <1>1, <1>8, <2>1 DEF Inv, Types, Shape
  <2>4. Single' /\ Bound' /\ Needing'
    BY <1>1, <1>8, <2>1, <2>2 DEF Inv, Single, Bound, Needing, Shape
  <2>5. ASSUME NEW u \in Tasks PROVE Stopping(call[u])' /\ Holding(u, call[u])'
    BY <1>1, <1>8, <2>1 DEF Inv, Stopping, Holding, Shape
  <2>6. Queueing(lock, vop, call)' /\ Ahead(lock, dev.vt, call)'
    BY <1>1, <1>8, <2>1 DEF Inv, Shape
  <2> QED BY <1>6, <2>3, <2>4, <2>5, <2>6 DEF Inv
<1>9. CASE /\ dev.vt = Nothing /\ m # "VerifyStop"
           /\ dev' = AfterEnrollment(e)
           /\ call' = Moved(c, {t}, StopsAt(e))
           /\ claimq' = IF StopsAt(e) = "end" THEN Unlocked({t}) ELSE claimq
  <2>1. \A n \in Ids : vop[n].st = "off"
    BY <1>9, Tags DEF Inv, Bound
  <2>2. PICK at \in {"enr", "del", "end"} :
          /\ at = StopsAt(e)
          /\ Shape(dev', IF at = "end" THEN NoOne ELSE dev.claim, dev.vt, dev.del,
                   IF at = "enr" THEN dev.enr ELSE 0, FALSE)
          /\ at # "enr" => \A n \in Ids : worker[n].st # "run"
          /\ at = "del" => dev.del # Nothing
          /\ at = "end" => dev.del = Nothing
    <3>1. dev.enr = 0 \/ worker[dev.enr].st # "run" => \A n \in Ids : worker[n].st # "run"
      BY Numbers DEF Inv, Bound
    <3> HIDE DEF e
    <3>2. CASE dev.enr # 0 /\ worker[dev.enr].st = "run"
      <4>1. StopsAt(e) = "enr" /\ Shape(dev', dev.claim, dev.vt, dev.del, dev.enr, FALSE)
        BY <1>3, <1>9, <3>2, AfterStop
      <4> QED BY <4>1
    <3>3. CASE (dev.enr = 0 \/ worker[dev.enr].st # "run") /\ dev.del # Nothing
      <4>1. StopsAt(e) = "del" /\ Shape(dev', dev.claim, dev.vt, dev.del, 0, FALSE)
        <5>1. StopsAt(e) = "del" /\ Shape(AfterEnrollment(e), dev.claim, dev.vt, dev.del, 0, FALSE)
          BY <1>3, <3>3, AfterIdle
        <5> QED BY <1>9, <5>1
      <4> QED BY <3>1, <3>3, <4>1
    <3>4. CASE (dev.enr = 0 \/ worker[dev.enr].st # "run") /\ dev.del = Nothing
      <4>1. StopsAt(e) = "end" /\ Shape(dev', NoOne, dev.vt, dev.del, 0, FALSE)
        BY <1>3, <1>9, <3>4, AfterIdle, Zenon
      <4> QED BY <3>1, <3>4, <4>1
    <3> QED BY <3>2, <3>3, <3>4
  <2>3. /\ call' \in [Tasks -> Calls]
        /\ \A u \in Tasks : u # t => call'[u] = call[u]
        /\ at # "end" => Form(call'[t], m, at, Nothing)
        /\ at = "end" /\ m = "Claim" => Form(call'[t], "Claim", "collect", Nothing)
        /\ at = "end" /\ m # "Claim" => Form(call'[t], "none", "none", Nothing)
    <3>1. c[t].m = m
      BY <1>4, <1>5 DEF Form
    <3>2. call' = Moved(c, {t}, at)
      BY <1>9, <2>2
    <3> QED BY <3>1, <3>2, <1>5, MovedCalls
  <2>4. claimq' \in Seq(Tasks)
        /\ \A u \in Tasks : u[2] # 0 /\ claimq # <<>> /\ Head(claimq) = u => claimq' = claimq
    <3>1. CASE claimq' = claimq
      BY <3>1 DEF Inv, Types
    <3>2. CASE claimq # <<>> /\ Head(claimq)[2] = 0 /\ claimq' = Tail(claimq)
      BY <3>2 DEF Inv, Types
    <3> QED BY <1>9, <3>1, <3>2 DEF Unlocked
  <2>5. Types'
    BY <1>1, <2>2, <2>3, <2>4 DEF Inv, Types, Shape
  <2>6. Single' /\ Bound' /\ Needing'
    <3>1. \A u \in Tasks : call'[u].pc = "deleting" => call[u].pc = "deleting"
      BY <2>3 DEF Form
    <3>2. at = "end" => \A u \in Tasks : call[u].pc # "deleting"
      BY <2>2, Tags DEF Inv, Bound
    <3>3. Single' /\ Bound'
      BY <1>1, <2>1, <2>2, <3>1, <3>2 DEF Inv, Single, Bound, Shape
    <3>4. Needing'
      BY <1>1, <2>1, <2>2 DEF Needing, Shape
    <3> QED BY <3>3, <3>4
  <2>7. ASSUME NEW u \in Tasks PROVE Stopping(call[u])'
    <3>1. CASE u = t
      BY <3>1, <1>1, <2>1, <2>2, <2>3 DEF Stopping, Shape, Form
    <3>2. CASE u # t
      BY <3>2, <1>1, <2>2, <2>3 DEF Inv, Stopping, Shape, Form
    <3> QED BY <3>1, <3>2
  <2>8. ASSUME NEW u \in Tasks PROVE Holding(u, call[u])'
    <3>1. CASE u = t
      BY <3>1, <2>2, <2>3, <2>4 DEF Inv, Holding, Shape, Form
    <3>2. CASE u # t
      BY <3>2, <2>2, <2>3, <2>4 DEF Inv, Holding, Shape
    <3> QED BY <3>1, <3>2
  <2>9. Queueing(lock, vop, call)' /\ Ahead(lock, dev.vt, call)'
    <3>1. /\ \A u \in Tasks : call[u].pc \in {"lock", "project"} => call'[u].pc \in {"lock", "project"}
          /\ \A u \in Tasks : call'[u].m = "EnrollStart" => call[u].m = "EnrollStart"
      BY <2>3 DEF Form
    <3>2. dev'.vt = dev.vt
      BY <2>2 DEF Shape
    <3>3. Queueing(lock, vop, call') /\ Ahead(lock, dev.vt, call')
      BY <3>1, QueueCalls, Zenon
    <3> QED BY <1>1, <3>2, <3>3
  <2> QED BY <1>6, <2>5, <2>6, <2>7, <2>8, <2>9 DEF Inv
<1> QED BY <1>7, <1>8, <1>9 DEF StopVerification, c, k

(* A handler returns at the head of the claim lock and changes nothing else. *)
LEMMA IdledInv ==
    ASSUME Inv, NEW t \in Tasks, claimq # <<>>, Head(claimq) = t, call[t].pc = "claimq",
           call' = [call EXCEPT ![t] = Idle], claimq' = Tail(claimq),
           UNCHANGED <<dev, timers, vop, worker, lock>>
    PROVE  Inv'
<1>1. /\ call' \in [Tasks -> Calls] /\ Form(call'[t], "none", "none", Nothing)
      /\ \A u \in Tasks : u # t => call'[u] = call[u]
  BY IdleCall DEF Inv, Types, Form
<1>2. claimq' \in Seq(Tasks)
  BY DEF Inv, Types
<1>3. Types' /\ Single' /\ Bound' /\ Needing'
  BY <1>1, <1>2 DEF Inv, Types, Single, Bound, Needing, Form
<1>4. ASSUME NEW u \in Tasks PROVE Stopping(call[u])' /\ Holding(u, call[u])'
  <2>1. CASE u = t
    BY <1>1, <2>1 DEF Stopping, Holding, Form
  <2>2. CASE u # t
    BY <1>1, <2>2 DEF Inv, Stopping, Holding, Form
  <2> QED BY <2>1, <2>2
<1>5. Queueing(lock, vop, call)' /\ Ahead(lock, dev.vt, call)'
  <2>1. /\ \A u \in Tasks : call[u].pc \in {"lock", "project"} => call'[u].pc \in {"lock", "project"}
        /\ \A u \in Tasks : call'[u].m = "EnrollStart" => call[u].m = "EnrollStart"
    BY <1>1 DEF Form
  <2>2. Queueing(lock, vop, call') /\ Ahead(lock, dev.vt, call')
    BY <2>1, QueueCalls, Zenon
  <2> QED BY <2>2
<1>6. Timing(timers, vop, worker)'
  BY DEF Inv
<1> QED BY <1>3, <1>4, <1>5, <1>6 DEF Inv

\* Release and VerifyStop keep the invariant.
LEMMA StopCallInv ==
    ASSUME Inv, NEW t \in Tasks, Release(t) \/ VerifyStop(t)
    PROVE  Inv'
<1>1. call[t].pc = "none"
  BY IdleCall DEF Release, VerifyStop, Free, Form
<1> QED BY <1>1, StopInv DEF Release, VerifyStop

\* ClaimLocked keeps the invariant.
LEMMA ClaimLockedInv ==
    ASSUME Inv, NEW t \in Tasks, ClaimLocked(t)
    PROVE  Inv'
<1>1. claimq # <<>> /\ Head(claimq) = t /\ call[t].m = "Claim" /\ call[t].pc = "claimq" /\ t[2] # 0
  BY DEF ClaimLocked, Inv, Holding
<1>2. CASE /\ dev.claim = NoOne
           /\ call' = [call EXCEPT ![t].pc = "collect"]
           /\ UNCHANGED <<dev, timers, vop, worker, lock, claimq, client>>
  <2>1. /\ call' \in [Tasks -> Calls] /\ Form(call'[t], "Claim", "collect", call[t].task)
        /\ \A u \in Tasks : u # t => call'[u] = call[u]
    <3>1. call \in [Tasks -> Calls] /\ "collect" \in Places
      BY DEF Inv, Types, Places
    <3>2. /\ [call EXCEPT ![t].pc = "collect"] \in [Tasks -> Calls]
          /\ Form([call EXCEPT ![t].pc = "collect"][t], call[t].m, "collect", call[t].task)
          /\ \A u \in Tasks : u # t => [call EXCEPT ![t].pc = "collect"][u] = call[u]
      BY <3>1, Placed
    <3> QED BY <1>1, <1>2, <3>2, Zenon
  <2>2. Types' /\ Single' /\ Bound' /\ Needing'
    BY <1>2, <2>1 DEF Inv, Types, Single, Bound, Needing, Form
  <2>3. ASSUME NEW u \in Tasks PROVE Stopping(call[u])' /\ Holding(u, call[u])'
    BY <1>1, <1>2, <2>1 DEF Inv, Stopping, Holding, Form
  <2>4. Queueing(lock, vop, call)' /\ Ahead(lock, dev.vt, call)'
    <3>1. /\ \A u \in Tasks : call[u].pc \in {"lock", "project"} => call'[u].pc \in {"lock", "project"}
          /\ \A u \in Tasks : call'[u].m = "EnrollStart" => call[u].m = "EnrollStart"
      BY <1>1, <2>1 DEF Form
    <3>2. Queueing(lock, vop, call') /\ Ahead(lock, dev.vt, call')
      BY <3>1, QueueCalls, Zenon
    <3> QED BY <1>2, <3>2
  <2>5. Timing(timers, vop, worker)'
    BY <1>2 DEF Inv
  <2> QED BY <2>2, <2>3, <2>4, <2>5 DEF Inv
<1>3. CASE /\ call' = [call EXCEPT ![t] = Idle]
           /\ claimq' = Tail(claimq)
           /\ UNCHANGED <<dev, timers, vop, worker, lock, client>>
  BY <1>1, <1>3, IdledInv DEF Form
<1>4. CASE StopVerification(t, "Claim")
  BY <1>1, <1>4, StopInv
<1> QED BY <1>2, <1>3, <1>4 DEF ClaimLocked

\* SenderDeparted keeps the invariant.
LEMMA SenderDepartedInv ==
    ASSUME Inv, NEW s \in Senders, SenderDeparted(s)
    PROVE  Inv'
<1> DEFINE t == <<s, 0>>
<1>1. t \in Tasks /\ claimq # <<>> /\ Head(claimq) = t /\ call[t].pc = "claimq"
  BY Pairs DEF SenderDeparted
<1>2. CASE /\ call' = [call EXCEPT ![t] = Idle]
           /\ claimq' = Tail(claimq)
           /\ UNCHANGED <<dev, timers, vop, worker, lock, client>>
  BY <1>1, <1>2, IdledInv
<1>3. CASE StopVerification(t, "Departed")
  BY <1>1, <1>3, StopInv
<1> QED BY <1>2, <1>3 DEF SenderDeparted

(* A call queues for the operation lock, VerifyStart and DeleteEnrolledFinger *)
(* with their reference set.                                                  *)
LEMMA QueuedInv ==
    ASSUME Inv, NEW t \in Tasks, NEW m \in {"List", "VerifyStart", "EnrollStart", "Delete"},
           call[t].pc = "none", t[2] # 0, m # "List" => FreeOf(dev),
           Queue(t, m), \A x \in timers' : x \in timers,
           Shape(dev', dev.claim, IF m = "VerifyStart" THEN CallTask(t) ELSE dev.vt,
                 IF m = "Delete" THEN CallTask(t) ELSE dev.del, dev.enr, dev.needed)
    PROVE  Inv'
<1> DEFINE k == [m |-> m, pc |-> "lock", task |-> Nothing]
<1>1. Form(k, m, "lock", Nothing)
  BY References DEF Form, Calls, Methods, Places
<1>2. /\ call' = [call EXCEPT ![t] = k] /\ lock' = Append(lock, CallTask(t))
      /\ UNCHANGED <<vop, worker, claimq>>
  BY Begun DEF Queue
<1> HIDE DEF k
<1>3. /\ call' \in [Tasks -> Calls] /\ Form(call'[t], m, "lock", Nothing)
      /\ \A u \in Tasks : u # t => call'[u] = call[u]
  BY <1>1, <1>2, Replaced DEF Form, Inv, Types
<1>4. /\ lock' \in Seq(Refs \ {Nothing})
      /\ Queueing(lock, vop, call)' /\ Ahead(lock, dev.vt, call)'
  <2>1. /\ lock \in Seq(Refs \ {Nothing})
        /\ Queueing(lock, vop, call) /\ Ahead(lock, dev.vt, call)
    BY DEF Inv, Types
  <2>2. \/ dev'.vt = dev.vt /\ call'[t].m # "EnrollStart"
        \/ \A u \in Tasks : dev'.vt # CallTask(u)
        \/ dev'.vt = CallTask(t) /\ call'[t].m # "EnrollStart"
    BY <1>3, Tags DEF Shape, Form, FreeOf
  <2>3. call[t].pc \notin {"lock", "project"} /\ call'[t].pc = "lock"
    BY <1>3 DEF Form
  <2>4. /\ Append(lock, CallTask(t)) \in Seq(Refs \ {Nothing})
        /\ Queueing(Append(lock, CallTask(t)), vop, call')
        /\ Ahead(Append(lock, CallTask(t)), dev'.vt, call')
    BY <1>3, <2>1, <2>2, <2>3, QueueJoined
  <2> QED BY <1>2, <2>4
<1>5. Types'
  BY <1>2, <1>3, <1>4 DEF Inv, Types, Shape
<1>7. /\ \A u \in Tasks : call'[u].pc = "deleting" => call[u].pc = "deleting"
      /\ m # "List" => /\ \A n \in Ids : vop[n].st = "off"
                       /\ \A n \in Ids : worker[n].st # "run"
                       /\ \A u \in Tasks : call[u].pc # "deleting"
  BY <1>3, Tags, Numbers DEF Form, FreeOf, Inv, Bound
<1>8. Single' /\ Bound' /\ Needing'
  <2>1. Single'
    BY Tags DEF Inv, Single, Shape, FreeOf
  <2>2. Bound'
    BY <1>2, <1>7 DEF Inv, Bound, Shape
  <2>3. Needing'
    BY <1>2, <1>3, <1>7 DEF Inv, Needing, Shape, Form
  <2> QED BY <2>1, <2>2, <2>3
<1>9. ASSUME NEW u \in Tasks PROVE Stopping(call[u])' /\ Holding(u, call[u])'
  <2>1. CASE u = t
    BY <1>2, <1>3, <2>1 DEF Stopping, Holding, Form, Shape
  <2>2. CASE u # t
    <3>1. call[u].m = "Delete" => m = "List"
      BY Tags DEF Inv, Holding, FreeOf
    <3>2. Stopping(call[u])'
      BY <1>2, <1>3, <1>7, <2>2, Tags DEF Inv, Stopping, Shape
    <3>3. Holding(u, call[u])'
      BY <1>2, <1>3, <2>2, <3>1 DEF Inv, Holding, Shape
    <3> QED BY <3>2, <3>3
  <2> QED BY <2>1, <2>2
<1>10. Timing(timers, vop, worker)'
  BY <1>2 DEF Inv, Timing
<1> QED BY <1>4, <1>5, <1>8, <1>9, <1>10 DEF Inv

\* The calls that queue for a projection keep the invariant.
LEMMA QueueCallInv ==
    ASSUME Inv, NEW t \in Tasks,
           \/ ListEnrolledFingers(t) \/ VerifyStart(t)
           \/ EnrollStart(t) \/ DeleteEnrolledFinger(t)
    PROVE  Inv'
<1>1. call[t].pc = "none" /\ t[2] # 0
  BY IdleCall DEF ListEnrolledFingers, VerifyStart, EnrollStart, DeleteEnrolledFinger, Free, Form
<1>2. /\ Shape(dev, dev.claim, dev.vt, dev.del, dev.enr, dev.needed)
      /\ CallTask(t) \in Refs
  BY Shaped, References DEF Inv, Types
<1>3. CASE ListEnrolledFingers(t)
  <2>1. dev' = dev /\ timers' = timers /\ Queue(t, "List")
    BY <1>3 DEF ListEnrolledFingers
  <2>2. Shape(dev', dev.claim, dev.vt, dev.del, dev.enr, dev.needed)
    BY <1>2, <2>1
  <2> QED BY <1>1, <2>1, <2>2, QueuedInv
<1>4. CASE VerifyStart(t)
  <2>1. /\ dev' = [dev EXCEPT !.expiry = 0, !.vt = CallTask(t)] /\ Queue(t, "VerifyStart")
        /\ timers' = Cancelled(timers) /\ FreeOf(dev)
    BY <1>4, Zenon DEF VerifyStart
  <2>2. Shape(dev', dev.claim, CallTask(t), dev.del, dev.enr, dev.needed)
    BY <1>2, <2>1, DoubleEdits, Zenon
  <2>3. \A x \in timers' : x \in timers
    BY <2>1, CancelledTimers
  <2>4. Queue(t, "VerifyStart") /\ FreeOf(dev)
    BY <2>1, Zenon
  <2> QED BY <1>1, <2>2, <2>3, <2>4, QueuedInv
<1>5. CASE EnrollStart(t)
  <2>1. /\ dev' = [dev EXCEPT !.expiry = 0] /\ Queue(t, "EnrollStart")
        /\ timers' = Cancelled(timers) /\ FreeOf(dev)
    BY <1>5, Zenon DEF EnrollStart
  <2>2. Shape(dev', dev.claim, dev.vt, dev.del, dev.enr, dev.needed)
    BY <1>2, <2>1, Edits, Zenon
  <2>3. \A x \in timers' : x \in timers
    BY <2>1, CancelledTimers
  <2>4. Queue(t, "EnrollStart") /\ FreeOf(dev)
    BY <2>1, Zenon
  <2> QED BY <1>1, <2>2, <2>3, <2>4, QueuedInv
<1>6. CASE DeleteEnrolledFinger(t)
  <2>1. /\ dev' = [dev EXCEPT !.expiry = 0, !.del = CallTask(t)] /\ Queue(t, "Delete")
        /\ timers' = Cancelled(timers) /\ FreeOf(dev)
    BY <1>6, Zenon DEF DeleteEnrolledFinger
  <2>2. Shape(dev', dev.claim, dev.vt, CallTask(t), dev.enr, dev.needed)
    BY <1>2, <2>1, DoubleEdits, Zenon
  <2>3. \A x \in timers' : x \in timers
    BY <2>1, CancelledTimers
  <2>4. Queue(t, "Delete") /\ FreeOf(dev)
    BY <2>1, Zenon
  <2> QED BY <1>1, <2>2, <2>3, <2>4, QueuedInv
<1> QED BY <1>3, <1>4, <1>5, <1>6

(* Steps that leave the calls alone and at most end what the device refers to. *)
LEMMA DeviceInv ==
    ASSUME Inv, dev' \in Devs(dev'.expiry), dev'.del = dev.del,
           UNCHANGED <<vop, worker, call, lock, claimq>>,
           \A x \in timers' : x \in timers,
           \/ dev'.claim = dev.claim
           \/ /\ dev'.claim = NoOne
              /\ \A n \in Ids : vop[n].st = "off" /\ worker[n].st # "run"
              /\ \A u \in Tasks : call[u].pc # "deleting",
           dev'.vt = dev.vt \/ (dev'.vt = Nothing /\ \A n \in Ids : vop[n].st = "off"),
           dev'.enr = dev.enr \/ (dev'.enr = 0 /\ \A n \in Ids : worker[n].st # "run"),
           \/ dev'.needed <=> dev.needed
           \/ /\ \A n \in Ids : vop[n].st = "off"
              /\ dev'.needed => \E n \in Ids : worker[n].st = "run"
    PROVE  Inv'
<1>1. Types'
  BY DEF Inv, Types
<1>2. Single' /\ Bound' /\ Needing'
  <2>1. Single'
    BY DEF Inv, Single
  <2>2. Bound'
    BY DEF Inv, Bound
  <2>3. Needing'
    BY DEF Inv, Needing
  <2> QED BY <2>1, <2>2, <2>3
<1>3. ASSUME NEW u \in Tasks PROVE Stopping(call[u])' /\ Holding(u, call[u])'
  BY DEF Inv, Stopping, Holding
<1>4. Queueing(lock, vop, call)' /\ Ahead(lock, dev.vt, call)'
  <2>1. dev'.vt = dev.vt \/ \A u \in Tasks : dev'.vt # CallTask(u)
    BY Tags 
  <2>2. Queueing(lock, vop, call) /\ Ahead(lock, dev'.vt, call)
    BY <2>1, QueueCalls
  <2> QED BY <2>2
<1>5. Timing(timers, vop, worker)'
  BY DEF Inv, Timing
<1> QED BY <1>1, <1>2, <1>3, <1>4, <1>5 DEF Inv

\* EnrollmentUpdate keeps the invariant.
LEMMA EnrollmentUpdateInv ==
    ASSUME Inv, NEW n \in Ids, EnrollmentUpdate(n)
    PROVE  Inv'
<1>1. PICK b \in BOOLEAN : dev' = [dev EXCEPT !.needed = b]
  BY Zenon DEF EnrollmentUpdate
<1>2. Shape(dev', dev.claim, dev.vt, dev.del, dev.enr, b)
  <2>1. Shape(dev, dev.claim, dev.vt, dev.del, dev.enr, dev.needed)
    BY Shaped DEF Inv, Types
  <2> QED BY <1>1, <2>1, Edits
<1>3. UNCHANGED <<timers, vop, worker, call, lock, claimq>> /\ worker[n].st = "run"
  BY DEF EnrollmentUpdate
<1>4. \A m \in Ids : vop[m].st = "off"
  BY <1>3, Numbers, Tags DEF Inv, Bound, Single
<1>5. (\A x \in timers' : x \in timers) /\ (\E m \in Ids : worker[m].st = "run")
  BY <1>3
<1>6. /\ dev' \in Devs(dev'.expiry) /\ dev'.del = dev.del
      /\ dev'.claim = dev.claim /\ dev'.vt = dev.vt /\ dev'.enr = dev.enr
  BY <1>2 DEF Shape
<1> QED BY <1>3, <1>4, <1>5, <1>6, DeviceInv

\* Expire keeps the invariant.
LEMMA ExpireInv ==
    ASSUME Inv, NEW x \in timers, Expire(x)
    PROVE  Inv'
<1> DEFINE d == [dev EXCEPT !.expiry = 0]
<1>1. UNCHANGED <<vop, worker, call, lock, claimq>> /\ \A y \in timers' : y \in timers
  BY DEF Expire
<1>2. Shape(d, dev.claim, dev.vt, dev.del, dev.enr, dev.needed)
  BY Shaped, Edits, Zenon DEF Inv, Types
<1>3. \/ x.kind = "unstarted" /\ dev' = IF FreeOf(dev) THEN ClearClaim(d) ELSE d
      \/ /\ x.kind = "verify"
         /\ dev' = IF dev.vt = OpTask(x.of) THEN ClearClaim([d EXCEPT !.vt = Nothing]) ELSE d
      \/ /\ x.kind = "enroll"
         /\ dev' = IF dev.enr = x.of
                   THEN ClearClaim([d EXCEPT !.enr = 0, !.needed = FALSE]) ELSE d
  <2>1. x.kind \in {"unstarted", "verify", "enroll"}
    BY DEF Inv, Timing
  <2>2. CASE x.kind = "unstarted"
    BY <2>2, Zenon DEF Expire
  <2>3. CASE x.kind = "verify"
    BY <2>3, Zenon DEF Expire
  <2>4. CASE x.kind = "enroll"
    BY <2>4, Zenon DEF Expire
  <2> QED BY <2>1, <2>2, <2>3, <2>4, Zenon
<1>4. CASE dev' = d
  <2>1. Shape(dev', dev.claim, dev.vt, dev.del, dev.enr, dev.needed)
    BY <1>2, <1>4, Zenon
  <2> QED BY <1>1, <2>1, DeviceInv DEF Shape
<1>5. CASE FreeOf(dev) /\ dev' = ClearClaim(d)
  <2>1. Shape(dev', NoOne, dev.vt, dev.del, dev.enr, dev.needed)
    BY <1>2, <1>5, Edits, References, Zenon DEF ClearClaim
  <2>2. /\ \A n \in Ids : vop[n].st = "off" /\ worker[n].st # "run"
        /\ \A u \in Tasks : call[u].pc # "deleting"
    BY <1>5, Tags, Numbers DEF Inv, Bound, FreeOf, Types, Ops
  <2> QED BY <1>1, <2>1, <2>2, DeviceInv DEF Shape
<1>6. CASE x.kind = "verify" /\ dev.vt = OpTask(x.of) /\ dev' = ClearClaim([d EXCEPT !.vt = Nothing])
  <2>1. Shape(dev', NoOne, Nothing, dev.del, dev.enr, dev.needed)
    <3>1. Shape([d EXCEPT !.vt = Nothing], dev.claim, Nothing, dev.del, dev.enr, dev.needed)
      BY <1>2, Edits, References, Zenon
    <3> QED BY <1>6, <3>1, Edits, References, Zenon DEF ClearClaim
  <2>2. /\ \A n \in Ids : vop[n].st = "off" /\ worker[n].st # "run"
        /\ \A u \in Tasks : call[u].pc # "deleting"
    <3>1. x.of \in Ids /\ vop[x.of].st = "off"
      BY <1>6 DEF Inv, Timing
    <3>2. dev.enr = 0 /\ dev.del = Nothing
      BY <1>6, Tags DEF Inv, Single
    <3> QED BY <1>6, <3>1, <3>2, Tags, Numbers DEF Inv, Bound
  <2> QED BY <1>1, <2>1, <2>2, DeviceInv DEF Shape
<1>7. CASE x.kind = "enroll" /\ dev.enr = x.of
           /\ dev' = ClearClaim([d EXCEPT !.enr = 0, !.needed = FALSE])
  <2>1. Shape(dev', NoOne, dev.vt, dev.del, 0, FALSE)
    <3>1. Shape([d EXCEPT !.enr = 0, !.needed = FALSE], dev.claim, dev.vt, dev.del, 0, FALSE)
      BY <1>2, DoubleEdits, Zenon
    <3> QED BY <1>7, <3>1, Edits, References, Zenon DEF ClearClaim
  <2>2. /\ \A n \in Ids : vop[n].st = "off" /\ worker[n].st # "run"
        /\ \A u \in Tasks : call[u].pc # "deleting"
    <3>1. x.of \in Ids /\ worker[x.of].st = "off"
      BY <1>7 DEF Inv, Timing
    <3>2. dev.vt = Nothing /\ dev.del = Nothing
      BY <1>7, <3>1, Numbers DEF Inv, Single
    <3> QED BY <1>7, <3>1, <3>2, Tags, Numbers DEF Inv, Bound
  <2> QED BY <1>1, <2>1, <2>2, DeviceInv DEF Shape
<1> QED BY <1>3, <1>4, <1>5, <1>6, <1>7, Zenon

\* NameOwnerChanged keeps the invariant.
LEMMA NameOwnerChangedInv ==
    ASSUME Inv, NEW s \in Senders, NameOwnerChanged(s)
    PROVE  Inv'
<1> DEFINE k == [m |-> "Departed", pc |-> "claimq", task |-> Nothing]
           t == <<s, 0>>
<1>1. Form(k, "Departed", "claimq", Nothing)
  BY References DEF Form, Calls, Methods, Places
<1>2. /\ call' = [call EXCEPT ![t] = k] /\ claimq' = Append(claimq, t)
      /\ UNCHANGED <<dev, timers, vop, worker, lock>>
  BY Begun DEF NameOwnerChanged
<1>3. t \in Tasks /\ t[2] = 0
  BY Pairs
<1> HIDE DEF k, t
<1>4. /\ call' \in [Tasks -> Calls] /\ Form(call'[t], "Departed", "claimq", Nothing)
      /\ \A u \in Tasks : u # t => call'[u] = call[u]
  BY <1>1, <1>2, <1>3, Replaced DEF Form, Inv, Types
<1>5. Types'
  BY <1>2, <1>3, <1>4 DEF Inv, Types
<1>6. Single' /\ Bound' /\ Needing'
  BY <1>2, <1>4 DEF Inv, Single, Bound, Needing, Form
<1>7. ASSUME NEW u \in Tasks PROVE Stopping(call[u])' /\ Holding(u, call[u])'
  <2>1. claimq # <<>> => claimq' # <<>> /\ Head(claimq') = Head(claimq)
    BY <1>2, <1>3, HeadOfAppend DEF Inv, Types
  <2>2. CASE u = t
    BY <1>2, <1>4, <2>2 DEF Stopping, Holding, Form
  <2>3. CASE u # t
    BY <1>2, <1>4, <2>1, <2>3 DEF Inv, Stopping, Holding, Form
  <2> QED BY <2>2, <2>3
<1>8. Queueing(lock, vop, call)' /\ Ahead(lock, dev.vt, call)'
  <2>1. /\ \A u \in Tasks : u[2] # 0 /\ call[u].pc \in {"lock", "project"} =>
               call'[u].pc \in {"lock", "project"}
        /\ \A u \in Tasks : call'[u].m = "EnrollStart" => call[u].m = "EnrollStart"
    BY <1>3, <1>4 DEF Form
  <2>2. Queueing(lock, vop, call') /\ Ahead(lock, dev.vt, call')
    BY <2>1, QueueCalls
  <2> QED BY <1>2, <2>2
<1>9. Timing(timers, vop, worker)'
  BY <1>2 DEF Inv
<1> QED BY <1>5, <1>6, <1>7, <1>8, <1>9 DEF Inv

\* Collected keeps the invariant.
LEMMA CollectedInv ==
    ASSUME Inv, NEW t \in Tasks, Collected(t)
    PROVE  Inv'
<1>1. /\ call[t].pc = "collect" /\ call[t].m = "Claim" /\ dev.claim = NoOne
      /\ claimq # <<>> /\ Head(claimq) = t
      /\ call' = [call EXCEPT ![t] = Idle] /\ claimq' = Tail(claimq)
      /\ UNCHANGED <<vop, worker, lock>>
  BY DEF Collected, Inv, Stopping, Holding
<1>2. PICK c \in Senders \cup {NoOne} : Shape(dev', c, dev.vt, dev.del, dev.enr, dev.needed)
  <2>1. Shape(dev, dev.claim, dev.vt, dev.del, dev.enr, dev.needed) /\ t[1] \in Senders
    BY Shaped, Pairs DEF Inv, Types
  <2>2. CASE dev' = dev
    BY <1>1, <2>1, <2>2
  <2>3. CASE dev' = [dev EXCEPT !.claim = t[1], !.expiry = NewTimer(timers)]
    <3>1. Shape(dev', t[1], dev.vt, dev.del, dev.enr, dev.needed)
      BY <2>1, <2>3, DoubleEdits, Zenon
    <3> QED BY <2>1, <3>1
  <2> QED BY <2>2, <2>3, Zenon DEF Collected
<1>3. \A x \in timers' : x \in timers \/ x.kind = "unstarted"
  BY DEF Collected, Timer
<1>4. /\ call' \in [Tasks -> Calls] /\ Form(call'[t], "none", "none", Nothing)
      /\ \A u \in Tasks : u # t => call'[u] = call[u]
  BY <1>1, IdleCall DEF Inv, Types, Form
<1>5. /\ \A n \in Ids : vop[n].st = "off" /\ worker[n].st # "run"
      /\ \A u \in Tasks : call[u].pc # "deleting"
  BY <1>1 DEF Inv, Bound
<1>6. Types'
  <2>1. claimq' \in Seq(Tasks)
    BY <1>1 DEF Inv, Types
  <2> QED BY <1>1, <1>2, <1>4, <2>1 DEF Inv, Types, Shape
<1>7. Single' /\ Bound' /\ Needing'
  BY <1>1, <1>2, <1>4, <1>5 DEF Inv, Single, Bound, Needing, Shape, Form
<1>8. ASSUME NEW u \in Tasks PROVE Stopping(call[u])' /\ Holding(u, call[u])'
  <2>1. CASE u = t
    BY <1>4, <2>1 DEF Stopping, Holding, Form
  <2>2. CASE u # t
    <3>1. call[u].m = "Claim" => call[u].pc = "claimq"
      BY <1>1, <2>2 DEF Inv, Holding
    <3>2. call[u].pc # "collect"
      BY <3>1 DEF Inv, Holding
    <3>3. Stopping(call[u])'
      BY <1>1, <1>2, <1>4, <1>5, <2>2, <3>2 DEF Inv, Stopping, Shape, Form
    <3>4. Holding(u, call[u])'
      BY <1>1, <1>2, <1>4, <2>2, <3>1, <3>2 DEF Inv, Holding, Shape
    <3> QED BY <3>3, <3>4
  <2> QED BY <2>1, <2>2
<1>9. Queueing(lock, vop, call)' /\ Ahead(lock, dev.vt, call)'
  <2>1. /\ \A u \in Tasks : call[u].pc \in {"lock", "project"} => call'[u].pc \in {"lock", "project"}
        /\ \A u \in Tasks : call'[u].m = "EnrollStart" => call[u].m = "EnrollStart"
    BY <1>1, <1>4 DEF Form
  <2>2. Queueing(lock, vop, call') /\ Ahead(lock, dev.vt, call')
    BY <2>1, QueueCalls
  <2>3. dev'.vt = dev.vt
    BY <1>2 DEF Shape
  <2> QED BY <1>1, <2>2, <2>3
<1>10. Timing(timers, vop, worker)'
  BY <1>1, <1>3 DEF Inv, Timing
<1> QED BY <1>6, <1>7, <1>8, <1>9, <1>10 DEF Inv

\* Unlocked never takes claim_lock from a Claim.
LEMMA Unlocking ==
    ASSUME Inv, NEW S
    PROVE  /\ Unlocked(S) \in Seq(Tasks)
           /\ \A u \in Tasks : u[2] # 0 /\ claimq # <<>> /\ Head(claimq) = u => Unlocked(S) = claimq
<1>1. CASE Unlocked(S) = claimq
  BY <1>1 DEF Inv, Types
<1>2. CASE claimq # <<>> /\ Head(claimq)[2] = 0 /\ Unlocked(S) = Tail(claimq)
  BY <1>2 DEF Inv, Types
<1> QED BY <1>1, <1>2 DEF Unlocked

\* EnrollStop keeps the invariant.
LEMMA EnrollStopInv ==
    ASSUME Inv, NEW t \in Tasks, EnrollStop(t)
    PROVE  Inv'
<1>1. /\ call[t].pc = "none" /\ t[2] # 0
      /\ timers' = Cancelled(timers) /\ UNCHANGED <<vop, worker, lock, claimq>>
  BY IdleCall DEF EnrollStop, Free, Form
<1>2. \A x \in timers' : x \in timers
  BY <1>1, CancelledTimers
<1>3. Shape(dev, dev.claim, dev.vt, dev.del, dev.enr, dev.needed)
  BY Shaped DEF Inv, Types
<1>4. CASE dev.enr = 0
  <2>1. dev' = [dev EXCEPT !.expiry = 0] /\ UNCHANGED call
    BY <1>4, Zenon DEF EnrollStop
  <2>2. Shape(dev', dev.claim, dev.vt, dev.del, dev.enr, dev.needed)
    BY <1>3, <2>1, Edits, Zenon
  <2>3. UNCHANGED call
    BY <2>1, Zenon
  <2> QED BY <1>1, <1>2, <2>2, <2>3, DeviceInv DEF Shape
<1>5. CASE dev.enr # 0 /\ worker[dev.enr].st # "run"
  <2>1. dev' = [dev EXCEPT !.expiry = 0, !.enr = 0, !.needed = FALSE]
    BY <1>5, Zenon DEF EnrollStop, EnrollmentStopped
  <2>2. UNCHANGED call
    BY <1>5 DEF EnrollStop
  <2>3. Shape(dev', dev.claim, dev.vt, dev.del, 0, FALSE)
    BY <1>3, <2>1, DoubleEdits, Zenon
  <2>4. \A n \in Ids : vop[n].st = "off" /\ worker[n].st # "run"
    BY <1>5, Tags DEF Inv, Bound, Single
  <2> QED BY <1>1, <1>2, <2>2, <2>3, <2>4, DeviceInv DEF Shape
<1>6. CASE dev.enr # 0 /\ worker[dev.enr].st = "run"
  <2> DEFINE k == [m |-> "EnrollStop", pc |-> "enr", task |-> Nothing]
  <2>1. dev' = [dev EXCEPT !.expiry = 0]
    BY <1>6, Zenon DEF EnrollStop, EnrollmentStopped
  <2>2. call' = [call EXCEPT ![t] = k]
    BY <1>6, Begun DEF EnrollStop
  <2>3. Shape(dev', dev.claim, dev.vt, dev.del, dev.enr, dev.needed)
    BY <1>3, <2>1, Edits, Zenon
  <2>4. Form(k, "EnrollStop", "enr", Nothing)
    BY References DEF Form, Calls, Methods, Places
  <2> HIDE DEF k
  <2>5. /\ call' \in [Tasks -> Calls] /\ Form(call'[t], "EnrollStop", "enr", Nothing)
        /\ \A u \in Tasks : u # t => call'[u] = call[u]
    BY <2>2, <2>4, Replaced DEF Form, Inv, Types
  <2>6. Types' /\ Single' /\ Bound' /\ Needing'
    BY <1>1, <2>3, <2>5 DEF Inv, Types, Single, Bound, Needing, Shape, Form
  <2>7. ASSUME NEW u \in Tasks PROVE Stopping(call[u])' /\ Holding(u, call[u])'
    <3>1. CASE u = t
      BY <2>5, <3>1 DEF Stopping, Holding, Form
    <3>2. CASE u # t
      BY <1>1, <2>3, <2>5, <3>2 DEF Inv, Stopping, Holding, Shape, Form
    <3> QED BY <3>1, <3>2
  <2>8. Queueing(lock, vop, call)' /\ Ahead(lock, dev.vt, call)'
    <3>1. /\ \A u \in Tasks : call[u].pc \in {"lock", "project"} => call'[u].pc \in {"lock", "project"}
          /\ \A u \in Tasks : call'[u].m = "EnrollStart" => call[u].m = "EnrollStart"
      BY <1>1, <2>5 DEF Form
    <3>2. Queueing(lock, vop, call') /\ Ahead(lock, dev.vt, call')
      BY <3>1, QueueCalls
    <3>3. dev'.vt = dev.vt
      BY <2>3 DEF Shape
    <3> QED BY <1>1, <3>2, <3>3
  <2>9. Timing(timers, vop, worker)'
    BY <1>1, <1>2 DEF Inv, Timing
  <2> QED BY <2>6, <2>7, <2>8, <2>9 DEF Inv
<1> QED BY <1>4, <1>5, <1>6

\* DeletionAwaited keeps the invariant.
LEMMA DeletionAwaitedInv ==
    ASSUME Inv, DeletionAwaited
    PROVE  Inv'
<1> DEFINE S == {t \in Tasks : call[t].pc = "deleted"}
<1>1. /\ S # {} /\ timers' = Cancelled(timers) /\ call' = Moved(call, S, "end")
      /\ claimq' = Unlocked(S) /\ UNCHANGED <<vop, worker, lock>>
  BY DEF DeletionAwaited
<1>2. \A t \in Tasks : t \in S <=> call[t].pc = "deleted"
  OBVIOUS
<1>3. /\ \A n \in Ids : vop[n].st = "off" /\ worker[n].st # "run"
      /\ \A u \in Tasks : call[u].pc # "deleting"
  BY <1>1 DEF Inv, Stopping
<1> HIDE DEF S
<1>4. Shape(dev', NoOne, dev.vt, dev.del, dev.enr, dev.needed)
  <2>1. Shape([dev EXCEPT !.expiry = 0], dev.claim, dev.vt, dev.del, dev.enr, dev.needed)
    BY Shaped, Edits, Zenon DEF Inv, Types
  <2>2. dev' = ClearClaim([dev EXCEPT !.expiry = 0])
    BY Zenon DEF DeletionAwaited
  <2> QED BY <2>1, <2>2, Edits, References, Zenon DEF ClearClaim
<1>5. /\ call' \in [Tasks -> Calls]
      /\ \A u \in Tasks : u \notin S => call'[u] = call[u]
      /\ \A u \in Tasks : u \in S /\ call[u].m = "Claim" => Form(call'[u], "Claim", "collect", Nothing)
      /\ \A u \in Tasks : u \in S /\ call[u].m # "Claim" => Form(call'[u], "none", "none", Nothing)
  BY <1>1, MovedCalls DEF Inv, Types
<1>6. /\ claimq' \in Seq(Tasks)
      /\ \A u \in Tasks : u[2] # 0 /\ claimq # <<>> /\ Head(claimq) = u => claimq' = claimq
  BY <1>1, Unlocking
<1>7. Types' /\ Single'
  BY <1>1, <1>4, <1>5, <1>6 DEF Inv, Types, Single, Shape
<1>8. Bound'
  BY <1>1, <1>2, <1>3, <1>5 DEF Bound, Form
<1>9. Needing'
  BY <1>1, <1>2, <1>3, <1>4, <1>5 DEF Inv, Needing, Shape, Form
<1>10. ASSUME NEW u \in Tasks PROVE Stopping(call[u])' /\ Holding(u, call[u])'
  <2>1. CASE u \in S /\ call[u].m = "Claim"
    BY <2>1, <1>2, <1>4, <1>5, <1>6 DEF Inv, Stopping, Holding, Shape, Form
  <2>2. CASE u \in S /\ call[u].m # "Claim"
    BY <2>2, <1>5 DEF Stopping, Holding, Form
  <2>3. CASE u \notin S
    <3>1. Stopping(call[u])'
      BY <2>3, <1>1, <1>2, <1>3, <1>4, <1>5 DEF Inv, Stopping, Shape, Form
    <3>2. Holding(u, call[u])'
      BY <2>3, <1>4, <1>5, <1>6 DEF Inv, Holding, Shape
    <3> QED BY <3>1, <3>2
  <2> QED BY <2>1, <2>2, <2>3
<1>11. Queueing(lock, vop, call)' /\ Ahead(lock, dev.vt, call)'
  <2>1. /\ \A u \in Tasks : call[u].pc \in {"lock", "project"} => call'[u].pc \in {"lock", "project"}
        /\ \A u \in Tasks : call'[u].m = "EnrollStart" => call[u].m = "EnrollStart"
    BY <1>2, <1>5 DEF Form
  <2>2. Queueing(lock, vop, call') /\ Ahead(lock, dev.vt, call')
    BY <2>1, QueueCalls
  <2>3. dev'.vt = dev.vt
    BY <1>4 DEF Shape
  <2> QED BY <1>1, <2>2, <2>3
<1>12. Timing(timers, vop, worker)'
  <2>1. Timing(Cancelled(timers), vop, worker)
    BY TimingKept, CancelledTimers DEF Inv
  <2> QED BY <1>1, <2>1
<1> QED BY <1>7, <1>8, <1>9, <1>10, <1>11, <1>12 DEF Inv

\* DeletionEnds keeps the invariant.
LEMMA DeletionEndsInv ==
    ASSUME Inv, NEW t \in Tasks, DeletionEnds(t)
    PROVE  Inv'
<1> DEFINE c == [call EXCEPT ![t] = Idle]
<1>1. /\ call[t].pc = "deleting" /\ call' = Awaited(c)
      /\ UNCHANGED <<vop, worker, lock, claimq>>
  BY DEF DeletionEnds
<1>2. /\ dev.del = CallTask(t) /\ dev.vt = Nothing /\ dev.enr = 0
      /\ \A n \in Ids : vop[n].st = "off" /\ worker[n].st # "run"
  BY <1>1, Tags, Numbers DEF Inv, Bound, Single
<1>3. Shape(dev', dev.claim, dev.vt, Nothing, dev.enr, dev.needed)
  <2>1. Shape([dev EXCEPT !.del = Nothing], dev.claim, dev.vt, Nothing, dev.enr, dev.needed)
    BY Shaped, Edits, References, Zenon DEF Inv, Types
  <2>2. dev' = ArmDev([dev EXCEPT !.del = Nothing], timers)
    BY <1>2, Zenon DEF DeletionEnds
  <2> QED BY <2>1, <2>2, Arming, Zenon
<1>4. \A x \in timers' : x \in timers \/ x.kind = "unstarted"
  BY ArmedTimers, Zenon DEF DeletionEnds
<1>5. /\ c \in [Tasks -> Calls] /\ c[t] = Idle
      /\ \A u \in Tasks : u # t => c[u] = call[u]
  BY IdleCall, Replaced DEF Form, Inv, Types
<1> HIDE DEF c
<1>6. /\ call' \in [Tasks -> Calls] /\ Form(call'[t], "none", "none", Nothing)
      /\ \A u \in Tasks : u # t =>
            Form(call'[u], call[u].m, IF call[u].pc = "del" THEN "deleted" ELSE call[u].pc, call[u].task)
  BY <1>1, <1>5, AwaitedCalls, IdleCall DEF Form
<1>7. \A u \in Tasks : u # t => call[u].m # "Delete" /\ call[u].pc # "deleting"
  BY <1>2, Tags DEF Inv, Holding
<1>8. Types' /\ Single' /\ Bound' /\ Needing'
  <2>1. Types' /\ Single'
    BY <1>1, <1>2, <1>3, <1>6 DEF Inv, Types, Single, Shape
  <2>2. Bound'
    BY <1>1, <1>2, <1>6, <1>7 DEF Bound, Form
  <2>3. Needing'
    BY <1>1, <1>2, <1>3, <1>6 DEF Inv, Needing, Shape, Form
  <2> QED BY <2>1, <2>2, <2>3
<1>9. ASSUME NEW u \in Tasks PROVE Stopping(call[u])' /\ Holding(u, call[u])'
  <2>0. \A w \in Tasks : call'[w].pc # "deleting"
    BY <1>6, <1>7 DEF Form
  <2>1. CASE u = t
    BY <1>6, <2>1 DEF Stopping, Holding, Form
  <2>2. CASE u # t
    <3>1. Stopping(call[u])'
      BY <1>1, <1>2, <1>3, <1>6, <2>0, <2>2 DEF Inv, Stopping, Shape, Form
    <3>2. Holding(u, call[u])'
      BY <1>1, <1>3, <1>6, <1>7, <2>2 DEF Inv, Holding, Shape, Form
    <3> QED BY <3>1, <3>2
  <2> QED BY <2>1, <2>2
<1>10. Queueing(lock, vop, call)' /\ Ahead(lock, dev.vt, call)'
  <2>1. /\ \A u \in Tasks : call[u].pc \in {"lock", "project"} => call'[u].pc \in {"lock", "project"}
        /\ \A u \in Tasks : call'[u].m = "EnrollStart" => call[u].m = "EnrollStart"
    BY <1>1, <1>6 DEF Form
  <2>2. Queueing(lock, vop, call') /\ Ahead(lock, dev.vt, call')
    BY <2>1, QueueCalls
  <2>3. dev'.vt = dev.vt
    BY <1>3 DEF Shape
  <2> QED BY <1>1, <2>2, <2>3
<1>11. Timing(timers, vop, worker)'
  BY <1>1, <1>4 DEF Inv, Timing
<1> QED BY <1>8, <1>9, <1>10, <1>11 DEF Inv

(* The calls in S \ R are over and go idle. *)
LEMMA Dismissed ==
    ASSUME NEW f \in [Tasks -> Calls], NEW D
    PROVE  LET c == [t \in Tasks |-> IF t \in D THEN Idle ELSE f[t]] IN
           /\ c \in [Tasks -> Calls]
           /\ \A u \in Tasks : u \in D => Form(c[u], "none", "none", Nothing)
           /\ \A u \in Tasks : u \notin D => c[u] = f[u]
BY IdleCall DEF Form

\* VerificationStopped keeps the invariant.
LEMMA VerificationStoppedInv ==
    ASSUME Inv, VerificationStopped
    PROVE  Inv'
<1> DEFINE S == {t \in Tasks : call[t].pc = "joined"}
           R == {t \in S : call[t].m \in Stoppers}
           d == [dev EXCEPT !.vt = Nothing, !.needed = FALSE]
           c == [t \in Tasks |-> IF t \in S \ R THEN Idle ELSE call[t]]
<1>1. S # {} /\ UNCHANGED <<vop, worker, lock>>
  BY DEF VerificationStopped
<1>2. \/ R = {} /\ dev' = d /\ call' = c /\ UNCHANGED <<timers, claimq>>
      \/ /\ R # {} /\ dev' = AfterEnrollment(d) /\ timers' = Cancelled(timers)
         /\ call' = Moved(c, R, StopsAt(d))
         /\ claimq' = IF StopsAt(d) = "end" THEN Unlocked(R) ELSE claimq
  BY Zenon DEF VerificationStopped
<1>3. /\ \A t \in Tasks : t \in S <=> call[t].pc = "joined"
      /\ \A t \in Tasks : t \in R <=> t \in S /\ call[t].m \in Stoppers
  OBVIOUS
<1>4. \A n \in Ids : vop[n].st = "off"
  BY <1>1, <1>3 DEF Inv, Stopping
<1>5. /\ c \in [Tasks -> Calls]
      /\ \A u \in Tasks : u \in S /\ u \notin R => Form(c[u], "none", "none", Nothing)
      /\ \A u \in Tasks : u \in R => c[u] = call[u]
      /\ \A u \in Tasks : u \notin S => c[u] = call[u]
  <2>1. call \in [Tasks -> Calls]
    BY DEF Inv, Types
  <2> HIDE DEF R, S
  <2>2. /\ c \in [Tasks -> Calls]
        /\ \A u \in Tasks : u \in S \ R => Form(c[u], "none", "none", Nothing)
        /\ \A u \in Tasks : u \notin S \ R => c[u] = call[u]
    BY <2>1, Dismissed
  <2> QED BY <2>2
<1>6. Shape(d, dev.claim, Nothing, dev.del, dev.enr, FALSE)
  <2>1. Shape(dev, dev.claim, dev.vt, dev.del, dev.enr, dev.needed)
    BY Shaped DEF Inv, Types
  <2> QED BY <2>1, DoubleEdits, References, Zenon
<1> HIDE DEF S, R, d, c
<1>7. PICK at \in {"none", "enr", "del", "end"} :
        /\ at = "none" => R = {} /\ call' = c
        /\ at # "none" => call' = Moved(c, R, at)
        /\ Shape(dev', IF at = "end" THEN NoOne ELSE dev.claim, Nothing, dev.del,
                 IF at \in {"none", "enr"} THEN dev.enr ELSE 0, FALSE)
        /\ at = "del" => dev.del # Nothing
        /\ at \in {"del", "end"} => \A n \in Ids : worker[n].st # "run"
        /\ at = "end" => dev.del = Nothing
        /\ claimq' = claimq \/ claimq' = Unlocked(R)
        /\ \A x \in timers' : x \in timers
  <2>1. CASE R = {} /\ dev' = d /\ call' = c /\ UNCHANGED <<timers, claimq>>
    <3>1. Shape(dev', dev.claim, Nothing, dev.del, dev.enr, FALSE)
      BY <1>6, <2>1
    <3> QED BY <2>1, <3>1
  <2>2. CASE /\ R # {} /\ dev' = AfterEnrollment(d) /\ timers' = Cancelled(timers)
             /\ call' = Moved(c, R, StopsAt(d))
             /\ claimq' = IF StopsAt(d) = "end" THEN Unlocked(R) ELSE claimq
    <3>0. \A x \in timers' : x \in timers
      BY <2>2, CancelledTimers
    <3>1. dev.enr = 0 \/ worker[dev.enr].st # "run" => \A n \in Ids : worker[n].st # "run"
      BY Numbers DEF Inv, Bound
    <3>2. CASE dev.enr # 0 /\ worker[dev.enr].st = "run"
      <4>1. StopsAt(d) = "enr" /\ Shape(AfterEnrollment(d), dev.claim, Nothing, dev.del, dev.enr, FALSE)
        BY <1>6, <3>2, AfterStop
      <4>2. call' = Moved(c, R, "enr") /\ Shape(dev', dev.claim, Nothing, dev.del, dev.enr, FALSE)
            /\ claimq' = claimq
        BY <2>2, <4>1
      <4> QED BY <3>0, <4>2
    <3>3. CASE (dev.enr = 0 \/ worker[dev.enr].st # "run") /\ dev.del # Nothing
      <4>1. StopsAt(d) = "del" /\ Shape(AfterEnrollment(d), dev.claim, Nothing, dev.del, 0, FALSE)
        BY <1>6, <3>3, AfterIdle
      <4>2. call' = Moved(c, R, "del") /\ Shape(dev', dev.claim, Nothing, dev.del, 0, FALSE)
            /\ claimq' = claimq
        BY <2>2, <4>1
      <4> QED BY <3>0, <3>1, <3>3, <4>2
    <3>4. CASE (dev.enr = 0 \/ worker[dev.enr].st # "run") /\ dev.del = Nothing
      <4>1. StopsAt(d) = "end" /\ Shape(AfterEnrollment(d), NoOne, Nothing, dev.del, 0, FALSE)
        BY <1>6, <3>4, AfterIdle
      <4>2. call' = Moved(c, R, "end") /\ Shape(dev', NoOne, Nothing, dev.del, 0, FALSE)
            /\ claimq' = Unlocked(R)
        BY <2>2, <4>1
      <4> QED BY <3>0, <3>1, <3>4, <4>2
    <3> QED BY <3>2, <3>3, <3>4
  <2> QED BY <1>2, <2>1, <2>2
<1>8. /\ call' \in [Tasks -> Calls]
      /\ \A u \in Tasks : u \notin S => call'[u] = call[u]
      /\ \A u \in Tasks : u \in S /\ u \notin R => Form(call'[u], "none", "none", Nothing)
      /\ \A u \in Tasks : u \in R => at # "none"
      /\ \A u \in Tasks : u \in R /\ at # "end" => Form(call'[u], call[u].m, at, Nothing)
      /\ \A u \in Tasks : u \in R /\ at = "end" /\ call[u].m = "Claim" =>
            Form(call'[u], "Claim", "collect", Nothing)
      /\ \A u \in Tasks : u \in R /\ at = "end" /\ call[u].m # "Claim" =>
            Form(call'[u], "none", "none", Nothing)
  <2>1. CASE at = "none"
    BY <2>1, <1>5, <1>7
  <2>2. CASE at # "none"
    <3>1. /\ Moved(c, R, at) \in [Tasks -> Calls]
          /\ \A u \in Tasks : u \notin R => Moved(c, R, at)[u] = c[u]
          /\ \A u \in Tasks : u \in R /\ at # "end" => Form(Moved(c, R, at)[u], c[u].m, at, Nothing)
          /\ \A u \in Tasks : u \in R /\ at = "end" /\ c[u].m = "Claim" =>
                Form(Moved(c, R, at)[u], "Claim", "collect", Nothing)
          /\ \A u \in Tasks : u \in R /\ at = "end" /\ c[u].m # "Claim" =>
                Form(Moved(c, R, at)[u], "none", "none", Nothing)
      BY <2>2, <1>5, MovedCalls
    <3> QED BY <2>2, <3>1, <1>3, <1>5, <1>7
  <2> QED BY <2>1, <2>2
<1>9. /\ claimq' \in Seq(Tasks)
      /\ \A u \in Tasks : u[2] # 0 /\ claimq # <<>> /\ Head(claimq) = u => claimq' = claimq
  <2>1. CASE claimq' = claimq
    BY <2>1 DEF Inv, Types
  <2>2. CASE claimq' = Unlocked(R)
    BY <2>2, Unlocking
  <2> QED BY <2>1, <2>2, <1>7
<1>10. Types' /\ Single'
  BY <1>1, <1>7, <1>8, <1>9 DEF Inv, Types, Single, Shape
<1>11. \A u \in Tasks : call'[u].pc = "deleting" => call[u].pc = "deleting" /\ u \notin S
  BY <1>8 DEF Form
<1>12. \A u \in Tasks : call[u].pc = "deleting" => dev.del = CallTask(u) /\ dev.del # Nothing
  BY Tags DEF Inv, Bound
<1>13. Bound'
  BY <1>1, <1>4, <1>7, <1>11, <1>12 DEF Inv, Bound, Shape
<1>14. Needing'
  BY <1>1, <1>4, <1>7 DEF Needing, Shape
<1>15. ASSUME NEW u \in Tasks PROVE Stopping(call[u])' /\ Holding(u, call[u])'
  <2>1. CASE u \notin S
    <3>1. Stopping(call[u])'
      BY <2>1, <1>1, <1>4, <1>7, <1>8, <1>11 DEF Inv, Stopping, Shape
    <3>2. Holding(u, call[u])'
      BY <2>1, <1>7, <1>8, <1>9 DEF Inv, Holding, Shape
    <3> QED BY <3>1, <3>2
  <2>2. CASE u \in S /\ u \notin R
    BY <2>2, <1>8 DEF Stopping, Holding, Form
  <2>3. CASE u \in R
    <3>0. call[u].pc = "joined" /\ call[u].m \in Stoppers /\ at # "none"
      BY <2>3, <1>3, <1>8
    <3>1. CASE at # "end"
      <4>1. Form(call'[u], call[u].m, at, Nothing)
        BY <2>3, <3>1, <1>8
      <4>2. Stopping(call[u])'
        BY <3>0, <3>1, <4>1, <1>7 DEF Stopping, Shape, Form
      <4>3. Holding(u, call[u])'
        BY <3>0, <3>1, <4>1, <1>7, <1>9 DEF Inv, Holding, Shape, Form, Stoppers
      <4> QED BY <4>2, <4>3
    <3>2. CASE at = "end" /\ call[u].m = "Claim"
      <4>1. Form(call'[u], "Claim", "collect", Nothing)
        BY <2>3, <3>2, <1>8
      <4>2. Stopping(call[u])'
        BY <3>2, <4>1, <1>7 DEF Stopping, Shape, Form
      <4>3. Holding(u, call[u])'
        BY <3>0, <3>2, <4>1, <1>7, <1>9 DEF Inv, Holding, Shape, Form
      <4> QED BY <4>2, <4>3
    <3>3. CASE at = "end" /\ call[u].m # "Claim"
      BY <2>3, <3>3, <1>8 DEF Stopping, Holding, Form
    <3> QED BY <3>1, <3>2, <3>3
  <2> QED BY <2>1, <2>2, <2>3
<1>16. Queueing(lock, vop, call)' /\ Ahead(lock, dev.vt, call)'
  <2>1. \A u \in Tasks : call[u].pc \in {"lock", "project"} => call'[u].pc \in {"lock", "project"}
    BY <1>3, <1>8
  <2>2. \A u \in Tasks : call'[u].m = "EnrollStart" => call[u].m = "EnrollStart"
    BY <1>3, <1>8 DEF Form, Stoppers
  <2>3. \A u \in Tasks : dev'.vt # CallTask(u)
    BY <1>7, Tags DEF Shape
  <2>4. Queueing(lock, vop, call') /\ Ahead(lock, dev'.vt, call')
    BY <2>1, <2>2, <2>3, QueueCalls
  <2> QED BY <1>1, <2>4
<1>17. Timing(timers, vop, worker)'
  BY <1>1, <1>7 DEF Inv, Timing
<1> QED BY <1>10, <1>13, <1>14, <1>15, <1>16, <1>17 DEF Inv

\* EnrollmentEnds keeps the invariant.
LEMMA EnrollmentEndsInv ==
    ASSUME Inv, NEW n \in Ids, EnrollmentEnds(n)
    PROVE  Inv'
<1> DEFINE W == {t \in Tasks : call[t].pc = "enr"}
           R == {t \in W : call[t].m \in Stoppers}
           d == [dev EXCEPT !.needed = FALSE, !.expiry = NewTimer(timers)]
           e == IF W = {} THEN d ELSE [d EXCEPT !.enr = 0]
           c == [t \in Tasks |-> IF t \in W \ R THEN Idle ELSE call[t]]
<1>1. worker[n].st = "run" /\ worker' = [worker EXCEPT ![n] = NoOp] /\ UNCHANGED <<vop, lock>>
  BY DEF EnrollmentEnds
<1>2. /\ dev.enr = n /\ dev.enr # 0 /\ dev.vt = Nothing /\ dev.del = Nothing
      /\ \A m \in Ids : vop[m].st = "off" /\ (m # n => worker[m].st # "run")
      /\ \A u \in Tasks : call[u].pc # "deleting"
  BY <1>1, Tags, Numbers DEF Inv, Bound, Single
<1>3. /\ timers' = timers \cup {Timer(timers, "enroll", dev.enr)}
      /\ dev' = IF R # {} THEN ClearClaim(e) ELSE e
      /\ call' = Moved(c, R, "end") /\ claimq' = Unlocked(R)
  BY <1>2, Zenon DEF EnrollmentEnds
<1>4. /\ \A t \in Tasks : t \in W <=> call[t].pc = "enr"
      /\ \A t \in Tasks : t \in R <=> t \in W /\ call[t].m \in Stoppers
      /\ R # {} => W # {}
  OBVIOUS
<1>5. /\ c \in [Tasks -> Calls]
      /\ \A u \in Tasks : u \in W /\ u \notin R => Form(c[u], "none", "none", Nothing)
      /\ \A u \in Tasks : u \in R => c[u] = call[u]
      /\ \A u \in Tasks : u \notin W => c[u] = call[u]
  <2>1. call \in [Tasks -> Calls]
    BY DEF Inv, Types
  <2> HIDE DEF R, W
  <2>2. /\ c \in [Tasks -> Calls]
        /\ \A u \in Tasks : u \in W \ R => Form(c[u], "none", "none", Nothing)
        /\ \A u \in Tasks : u \notin W \ R => c[u] = call[u]
    BY <2>1, Dismissed
  <2> QED BY <2>2
<1> HIDE DEF R, W, c
<1>6. Shape(dev', IF R # {} THEN NoOne ELSE dev.claim, dev.vt, dev.del, IF W = {} THEN dev.enr ELSE 0, FALSE)
  <2>1. Shape(d, dev.claim, dev.vt, dev.del, dev.enr, FALSE)
    <3>1. Shape(dev, dev.claim, dev.vt, dev.del, dev.enr, dev.needed)
      BY Shaped DEF Inv, Types
    <3> QED BY <3>1, DoubleEdits, Zenon
  <2>2. Shape(e, dev.claim, dev.vt, dev.del, IF W = {} THEN dev.enr ELSE 0, FALSE)
    <3>1. CASE W = {}
      BY <2>1, <3>1, Zenon
    <3>2. CASE W # {}
      <4>1. Shape([d EXCEPT !.enr = 0], dev.claim, dev.vt, dev.del, 0, FALSE)
        BY <2>1, Edits, Zenon
      <4> QED BY <3>2, <4>1, Zenon
    <3> QED BY <3>1, <3>2
  <2> HIDE DEF e
  <2>3. CASE R = {}
    BY <1>3, <2>2, <2>3, Zenon
  <2>4. CASE R # {}
    <3>1. Shape(ClearClaim(e), NoOne, dev.vt, dev.del, IF W = {} THEN dev.enr ELSE 0, FALSE)
      BY <2>2, Edits, References, Zenon DEF ClearClaim
    <3> QED BY <1>3, <2>4, <3>1, Zenon
  <2> QED BY <2>3, <2>4
<1>7. /\ call' \in [Tasks -> Calls]
      /\ \A u \in Tasks : u \notin W => call'[u] = call[u]
      /\ \A u \in Tasks : u \in W /\ u \notin R => Form(call'[u], "none", "none", Nothing)
      /\ \A u \in Tasks : u \in R /\ call[u].m = "Claim" => Form(call'[u], "Claim", "collect", Nothing)
      /\ \A u \in Tasks : u \in R /\ call[u].m # "Claim" => Form(call'[u], "none", "none", Nothing)
  <2>1. /\ Moved(c, R, "end") \in [Tasks -> Calls]
        /\ \A u \in Tasks : u \notin R => Moved(c, R, "end")[u] = c[u]
        /\ \A u \in Tasks : u \in R /\ c[u].m = "Claim" =>
              Form(Moved(c, R, "end")[u], "Claim", "collect", Nothing)
        /\ \A u \in Tasks : u \in R /\ c[u].m # "Claim" =>
              Form(Moved(c, R, "end")[u], "none", "none", Nothing)
    BY <1>5, MovedCalls
  <2>2. call' = Moved(c, R, "end")
    BY <1>3, Zenon
  <2> QED BY <2>1, <2>2, <1>4, <1>5
<1>8. /\ claimq' \in Seq(Tasks)
      /\ \A u \in Tasks : u[2] # 0 /\ claimq # <<>> /\ Head(claimq) = u => claimq' = claimq
  <2>1. claimq' = Unlocked(R)
    BY <1>3, Zenon
  <2> QED BY <2>1, Unlocking
<1>9. /\ worker' \in [Ids -> Workers] /\ \A m \in Ids : worker'[m].st # "run"
      /\ worker'[n].st = "off"
      /\ \A m \in Ids : worker[m].st = "off" => worker'[m].st = "off"
  BY <1>1, <1>2 DEF Inv, Types, Workers, NoOp
<1>10. Types' /\ Single'
  BY <1>1, <1>2, <1>6, <1>7, <1>8, <1>9 DEF Inv, Types, Single, Shape
<1>11. \A u \in Tasks : call'[u].pc # "deleting"
  BY <1>2, <1>7 DEF Form
<1>12. Bound' /\ Needing'
  BY <1>1, <1>2, <1>6, <1>9, <1>11 DEF Bound, Needing, Shape
<1>13. ASSUME NEW u \in Tasks PROVE Stopping(call[u])' /\ Holding(u, call[u])'
  <2>1. CASE u \notin W
    <3>1. Stopping(call[u])'
      BY <2>1, <1>1, <1>2, <1>6, <1>7, <1>9, <1>11 DEF Inv, Stopping, Shape
    <3>2. Holding(u, call[u])'
      BY <2>1, <1>6, <1>7, <1>8 DEF Inv, Holding, Shape
    <3> QED BY <3>1, <3>2
  <2>2. CASE u \in W /\ u \notin R
    BY <2>2, <1>7 DEF Stopping, Holding, Form
  <2>3. CASE u \in R /\ call[u].m = "Claim"
    <3>1. Stopping(call[u])'
      BY <2>3, <1>6, <1>7 DEF Stopping, Shape, Form
    <3>2. Holding(u, call[u])'
      BY <2>3, <1>4, <1>7, <1>8 DEF Inv, Holding, Form
    <3> QED BY <3>1, <3>2
  <2>4. CASE u \in R /\ call[u].m # "Claim"
    BY <2>4, <1>7 DEF Stopping, Holding, Form
  <2> QED BY <2>1, <2>2, <2>3, <2>4
<1>14. Queueing(lock, vop, call)' /\ Ahead(lock, dev.vt, call)'
  <2>1. /\ \A u \in Tasks : call[u].pc \in {"lock", "project"} => call'[u].pc \in {"lock", "project"}
        /\ \A u \in Tasks : call'[u].m = "EnrollStart" => call[u].m = "EnrollStart"
    BY <1>4, <1>7 DEF Form
  <2>2. Queueing(lock, vop, call') /\ Ahead(lock, dev.vt, call')
    BY <2>1, QueueCalls
  <2>3. dev'.vt = dev.vt
    BY <1>6 DEF Shape
  <2> QED BY <1>1, <2>2, <2>3
<1>15. Timing(timers, vop, worker)'
  <2>1. \A x \in timers' : x \in timers \/ (x.kind = "enroll" /\ x.of = n)
    <3>1. timers' = timers \cup {Timer(timers, "enroll", n)}
      BY <1>2, <1>3, Zenon
    <3>2. Timer(timers, "enroll", n).kind = "enroll" /\ Timer(timers, "enroll", n).of = n
      BY DEF Timer
    <3> QED BY <3>1, <3>2, Zenon
  <2> QED BY <1>1, <1>9, <2>1 DEF Inv, Timing
<1> QED BY <1>10, <1>12, <1>13, <1>14, <1>15 DEF Inv

-----------------------------------------------------------------------------
(* The steps of the operation lock's holder. *)

\* The lock is held by an operation or by a call.
LEMMA HolderKinds ==
    ASSUME NEW h \in Refs \ {Nothing}
    PROVE  /\ h[1] = "op" => h[2] \in Ids /\ h = OpTask(h[2])
           /\ h[1] # "op" => h[1] = "call" /\ h[2] \in Tasks /\ h = CallTask(h[2])
<1>1. CASE \E t \in Tasks : h = CallTask(t)
  BY <1>1, Tags
<1>2. CASE \E n \in Ids : h = OpTask(n)
  BY <1>2, Tags
<1> QED BY <1>1, <1>2 DEF Refs

\* An operation at another stage.
LEMMA OpPlaced ==
    ASSUME NEW v \in [Ids -> Ops], NEW n \in Ids, NEW p \in Stages
    PROVE  /\ [v EXCEPT ![n].st = p] \in [Ids -> Ops]
           /\ [v EXCEPT ![n].st = p][n].st = p /\ [v EXCEPT ![n].st = p][n].by = v[n].by
           /\ \A m \in Ids : m # n => [v EXCEPT ![n].st = p][m] = v[m]
<1> DEFINE k == [v[n] EXCEPT !.st = p]
<1>1. v[n] \in Ops
  OBVIOUS
<1>2. \A y \in Ops : LET z == [y EXCEPT !.st = p] IN z \in Ops /\ z.st = p /\ z.by = y.by
  BY DEF Ops
<1>3. k \in Ops /\ k.st = p /\ k.by = v[n].by
  BY <1>1, <1>2, Zenon
<1>4. [v EXCEPT ![n].st = p] = [v EXCEPT ![n] = k]
  BY Zenon
<1> HIDE DEF k
<1>5. /\ [v EXCEPT ![n] = k] \in [Ids -> Ops] /\ [v EXCEPT ![n] = k][n] = k
      /\ \A m \in Ids : m # n => [v EXCEPT ![n] = k][m] = v[m]
  BY <1>3
<1> QED BY <1>3, <1>4, <1>5, Zenon

\* StartProjection keeps the invariant.
LEMMA StartProjectionInv ==
    ASSUME Inv, StartProjection
    PROVE  Inv'
<1> DEFINE h == Head(lock)
<1>1. lock # <<>> /\ Phase(h) = "lock" /\ UNCHANGED <<dev, timers, worker, lock, claimq>>
  BY DEF StartProjection
<1>2. /\ lock \in Seq(Refs \ {Nothing}) /\ 1 \in 1 .. Len(lock) /\ h = lock[1] /\ h \in Refs \ {Nothing}
      /\ Queueing(lock, vop, call) /\ Ahead(lock, dev.vt, call)
  BY <1>1, QueueTail DEF Inv, Types
<1>3. CASE h[1] = "op"
  <2> DEFINE n == h[2]
  <2>1. n \in Ids /\ h = OpTask(n)
    BY <1>2, <1>3, HolderKinds
  <2>2. vop[n].st = "lock" /\ vop' = [vop EXCEPT ![n].st = "project"] /\ UNCHANGED call
    BY <1>1, <1>3 DEF StartProjection, Phase
  <2> HIDE DEF n
  <2>3. /\ vop' \in [Ids -> Ops] /\ vop'[n].st = "project" /\ vop'[n].by = vop[n].by
        /\ \A m \in Ids : m # n => vop'[m] = vop[m]
    <3>1. vop \in [Ids -> Ops] /\ "project" \in Stages
      BY DEF Inv, Types, Stages
    <3>2. /\ [vop EXCEPT ![n].st = "project"] \in [Ids -> Ops]
          /\ [vop EXCEPT ![n].st = "project"][n].st = "project"
          /\ [vop EXCEPT ![n].st = "project"][n].by = vop[n].by
          /\ \A m \in Ids : m # n => [vop EXCEPT ![n].st = "project"][m] = vop[m]
      BY <2>1, <3>1, OpPlaced
    <3> QED BY <2>2, <3>2, Zenon
  <2>4. Types' /\ Single' /\ Bound' /\ Needing'
    BY <1>1, <2>1, <2>2, <2>3 DEF Inv, Types, Single, Bound, Needing
  <2>5. ASSUME NEW u \in Tasks PROVE Stopping(call[u])' /\ Holding(u, call[u])'
    BY <1>1, <2>1, <2>2, <2>3 DEF Inv, Stopping, Holding
  <2>6. Queueing(lock, vop, call)' /\ Ahead(lock, dev.vt, call)'
    <3>1. Queueing(lock, vop', call)
      BY <1>1, <1>2, <2>1, <2>2, <2>3 DEF Queueing
    <3> QED BY <1>1, <1>2, <2>2, <3>1
  <2>7. Timing(timers, vop, worker)'
    BY <1>1, <2>1, <2>2, <2>3 DEF Inv, Timing
  <2> QED BY <2>4, <2>5, <2>6, <2>7 DEF Inv
<1>4. CASE h[1] # "op"
  <2> DEFINE t == h[2]
  <2>1. t \in Tasks /\ h = CallTask(t)
    BY <1>2, <1>4, HolderKinds
  <2>2. call[t].pc = "lock" /\ call' = [call EXCEPT ![t].pc = "project"] /\ UNCHANGED vop
    BY <1>1, <1>4 DEF StartProjection, Phase
  <2> HIDE DEF t
  <2>3. /\ call' \in [Tasks -> Calls] /\ Form(call'[t], call[t].m, "project", call[t].task)
        /\ \A u \in Tasks : u # t => call'[u] = call[u]
    <3>1. call \in [Tasks -> Calls] /\ "project" \in Places
      BY DEF Inv, Types, Places
    <3>2. /\ [call EXCEPT ![t].pc = "project"] \in [Tasks -> Calls]
          /\ Form([call EXCEPT ![t].pc = "project"][t], call[t].m, "project", call[t].task)
          /\ \A u \in Tasks : u # t => [call EXCEPT ![t].pc = "project"][u] = call[u]
      BY <2>1, <3>1, Placed
    <3> QED BY <2>2, <3>2, Zenon
  <2>4. Types' /\ Single' /\ Bound' /\ Needing'
    BY <1>1, <2>2, <2>3 DEF Inv, Types, Single, Bound, Needing, Form
  <2>5. ASSUME NEW u \in Tasks PROVE Stopping(call[u])' /\ Holding(u, call[u])'
    <3>1. CASE u = t
      BY <3>1, <1>1, <2>1, <2>2, <2>3 DEF Inv, Stopping, Holding, Form
    <3>2. CASE u # t
      BY <3>2, <1>1, <2>2, <2>3 DEF Inv, Stopping, Holding, Form
    <3> QED BY <3>1, <3>2
  <2>6. Queueing(lock, vop, call)' /\ Ahead(lock, dev.vt, call)'
    <3>1. /\ \A u \in Tasks : call[u].pc \in {"lock", "project"} => call'[u].pc \in {"lock", "project"}
          /\ \A u \in Tasks : call'[u].m = "EnrollStart" => call[u].m = "EnrollStart"
      BY <2>3 DEF Form
    <3>2. Queueing(lock, vop, call') /\ Ahead(lock, dev.vt, call')
      BY <3>1, QueueCalls
    <3> QED BY <1>1, <2>2, <3>2
  <2>7. Timing(timers, vop, worker)'
    BY <1>1, <2>2 DEF Inv
  <2> QED BY <2>4, <2>5, <2>6, <2>7 DEF Inv
<1> QED BY <1>3, <1>4

\* The lock's holder leaves it.
LEMMA QueueTaken ==
    ASSUME Inv, lock # <<>>, NEW w, NEW e, NEW x,
           Relieved(Head(lock), vop, w, call, e, dev.vt, x)
    PROVE  /\ Tail(lock) \in Seq(Refs \ {Nothing})
           /\ Queueing(Tail(lock), w, e) /\ Ahead(Tail(lock), x, e)
<1>1. /\ lock \in Seq(Refs \ {Nothing})
      /\ Queueing(lock, vop, call) /\ Ahead(lock, dev.vt, call)
  BY DEF Inv, Types
<1>2. Without(lock, Tail(lock), 1) /\ Head(lock) = lock[1]
  BY <1>1, QueueTail DEF Without
<1>3. Relieved(lock[1], vop, w, call, e, dev.vt, x)
  BY <1>2
<1> QED BY <1>1, <1>2, <1>3, QueueRemoved, Zenon

\* A cancelled task leaves the lock, wherever it is.
LEMMA QueueLeft ==
    ASSUME Inv, NEW h, NEW w, NEW e, NEW x, Relieved(h, vop, w, call, e, dev.vt, x)
    PROVE  /\ Left(h) \in Seq(Refs \ {Nothing})
           /\ Queueing(Left(h), w, e) /\ Ahead(Left(h), x, e)
<1>1. /\ lock \in Seq(Refs \ {Nothing})
      /\ Queueing(lock, vop, call) /\ Ahead(lock, dev.vt, call)
  BY DEF Inv, Types
<1>2. CASE \A i \in 1 .. Len(lock) : lock[i] # h
  <2>1. Left(h) = lock
    BY <1>2, Zenon DEF Left
  <2>2. Queueing(lock, w, e)
    BY <1>1, <1>2 DEF Queueing, Relieved
  <2>3. Ahead(lock, x, e)
    BY <1>1 DEF Ahead, Relieved
  <2> QED BY <1>1, <2>1, <2>2, <2>3
<1>3. CASE \E i \in 1 .. Len(lock) : lock[i] = h
  <2> DEFINE k == CHOOSE i \in 1 .. Len(lock) : lock[i] = h
  <2>1. k \in 1 .. Len(lock) /\ lock[k] = h
    BY <1>3, Zenon
  <2>2. Left(h) = RemoveAt(lock, k)
    BY <1>3, Zenon DEF Left
  <2> HIDE DEF k
  <2>3. Without(lock, RemoveAt(lock, k), k)
    BY <1>1, <2>1, QueueWithout DEF Without
  <2>4. Relieved(lock[k], vop, w, call, e, dev.vt, x)
    BY <2>1
  <2>5. /\ RemoveAt(lock, k) \in Seq(Refs \ {Nothing})
        /\ Queueing(RemoveAt(lock, k), w, e) /\ Ahead(RemoveAt(lock, k), x, e)
    BY <1>1, <2>3, <2>4, QueueRemoved, Zenon
  <2> QED BY <2>2, <2>5
<1> QED BY <1>2, <1>3

\* backend.cancel() returning moves its callers only.
LEMMA CallsReaped ==
    ASSUME Inv, call' = call \/ call' = Reaped(call)
    PROVE  /\ call' \in [Tasks -> Calls]
           /\ \A u \in Tasks :
                 /\ call'[u].m = call[u].m /\ call'[u].task = call[u].task
                 /\ call'[u].pc = call[u].pc \/ (call[u].pc = "kill" /\ call'[u].pc = "cancel")
<1>1. CASE call' = call
  BY <1>1 DEF Inv, Types
<1>2. CASE call' = Reaped(call)
  BY <1>2, ReapedCalls DEF Inv, Types, Form
<1> QED BY <1>1, <1>2

(* Only the stage of a running operation changes, and who waits for its process. *)
LEMMA StageInv ==
    ASSUME Inv, NEW n \in Ids, NEW p \in Stages, vop[n].st # "off", p # "off",
           vop' = [vop EXCEPT ![n].st = p], call' = call \/ call' = Reaped(call),
           lock' \in Seq(Refs \ {Nothing}),
           Queueing(lock, vop, call)', Ahead(lock, dev.vt, call)',
           UNCHANGED <<dev, timers, worker, claimq>>
    PROVE  Inv'
<1>1. /\ vop' \in [Ids -> Ops] /\ vop'[n].st = p /\ vop'[n].by = vop[n].by
      /\ \A m \in Ids : m # n => vop'[m] = vop[m]
  <2>1. vop \in [Ids -> Ops]
    BY DEF Inv, Types
  <2>2. /\ [vop EXCEPT ![n].st = p] \in [Ids -> Ops]
        /\ [vop EXCEPT ![n].st = p][n].st = p
        /\ [vop EXCEPT ![n].st = p][n].by = vop[n].by
        /\ \A m \in Ids : m # n => [vop EXCEPT ![n].st = p][m] = vop[m]
    BY <2>1, OpPlaced
  <2> QED BY <2>2, Zenon
<1>2. /\ call' \in [Tasks -> Calls]
      /\ \A u \in Tasks :
            /\ call'[u].m = call[u].m /\ call'[u].task = call[u].task
            /\ call'[u].pc = call[u].pc \/ (call[u].pc = "kill" /\ call'[u].pc = "cancel")
  BY CallsReaped
<1>3. Types' /\ Single'
  BY <1>1, <1>2 DEF Inv, Types, Single
<1>4. Bound'
  BY <1>1, <1>2 DEF Inv, Bound
<1>5. Needing'
  BY <1>1, <1>2 DEF Inv, Needing
<1>6. ASSUME NEW u \in Tasks PROVE Stopping(call[u])'
  <2>1. \A w \in Tasks : call'[w].pc = "deleting" => call[w].pc = "deleting"
    BY <1>2
  <2>2. \A m \in Ids : vop'[m].st # "off" <=> vop[m].st # "off"
    BY <1>1
  <2> QED BY <1>2, <2>1, <2>2 DEF Inv, Stopping
<1>7. ASSUME NEW u \in Tasks PROVE Holding(u, call[u])'
  BY <1>2 DEF Inv, Holding
<1>8. Timing(timers, vop, worker)'
  BY <1>1 DEF Inv, Timing
<1> QED BY <1>3, <1>4, <1>5, <1>6, <1>7, <1>8 DEF Inv

\* The operation that holds the lock goes on to its next stage.
LEMMA ContinuesInv ==
    ASSUME Inv, NEW n \in Ids, NEW p \in Holders, vop[n].st \in Holders, Continues(n, p),
           call' = call \/ call' = Reaped(call), UNCHANGED <<worker, claimq>>
    PROVE  Inv'
<1>1. vop' = [vop EXCEPT ![n].st = p] /\ UNCHANGED <<dev, timers, lock>>
  BY DEF Continues
<1>2. p \in Stages /\ p # "off" /\ vop[n].st # "off"
  BY DEF Stages, Holders
<1>3. /\ lock \in Seq(Refs \ {Nothing}) /\ vop \in [Ids -> Ops]
      /\ Queueing(lock, vop, call) /\ Ahead(lock, dev.vt, call)
  BY DEF Inv, Types
<1>4. vop'[n].st = p /\ \A m \in Ids : m # n => vop'[m] = vop[m]
  <2>1. /\ [vop EXCEPT ![n].st = p][n].st = p
        /\ \A m \in Ids : m # n => [vop EXCEPT ![n].st = p][m] = vop[m]
    BY <1>2, <1>3, OpPlaced
  <2> QED BY <1>1, <2>1, Zenon
<1>5. \A u \in Tasks : /\ call'[u].m = call[u].m
                       /\ call[u].pc \in {"lock", "project"} => call'[u].pc = call[u].pc
  BY CallsReaped
<1>6. Queueing(lock, vop', call')
  <2>1. p \notin {"off", "error"}
    BY DEF Holders
  <2> QED BY <1>3, <1>4, <1>5, <2>1 DEF Queueing
<1>7. Ahead(lock, dev.vt, call')
  BY <1>3, <1>5 DEF Ahead
<1> QED BY <1>1, <1>2, <1>3, <1>6, <1>7, StageInv

\* It fails, leaves the lock and gives its cue.
LEMMA ErrorInv ==
    ASSUME Inv, NEW n \in Ids, vop[n].st \in Holders,
           vop' = [vop EXCEPT ![n].st = "error"], lock' = Tail(lock),
           call' = call \/ call' = Reaped(call), UNCHANGED <<dev, timers, worker, claimq>>
    PROVE  Inv'
<1>1. "error" \in Stages /\ "error" \notin Holders /\ vop[n].st # "off"
  BY DEF Stages, Holders
<1>2. /\ lock # <<>> /\ Head(lock) = OpTask(n) /\ vop \in [Ids -> Ops]
      /\ \A m \in Ids : m # n => vop[m].st \notin Holders
  BY Tags DEF Inv, Queueing, Types
<1>3. vop'[n].st = "error" /\ \A m \in Ids : m # n => vop'[m] = vop[m]
  <2>1. /\ [vop EXCEPT ![n].st = "error"][n].st = "error"
        /\ \A m \in Ids : m # n => [vop EXCEPT ![n].st = "error"][m] = vop[m]
    BY <1>1, <1>2, OpPlaced
  <2> QED BY <2>1, Zenon
<1>4. \A u \in Tasks : /\ call'[u].m = call[u].m
                       /\ call[u].pc \in {"lock", "project"} => call'[u].pc = call[u].pc
  BY CallsReaped
<1>5. Relieved(Head(lock), vop, vop', call, call', dev.vt, dev.vt)
  BY <1>1, <1>2, <1>3, <1>4, Tags DEF Relieved
<1>6. /\ Tail(lock) \in Seq(Refs \ {Nothing})
      /\ Queueing(Tail(lock), vop', call') /\ Ahead(Tail(lock), dev.vt, call')
  BY <1>2, <1>5, QueueTaken
<1> QED BY <1>1, <1>6, StageInv

\* It ends.
LEMMA FinishedInv ==
    ASSUME Inv, NEW n \in Ids, Finished(n),
           \/ vop[n].st \in Holders /\ lock' = Tail(lock)
           \/ vop[n].st = "error" /\ lock' = lock,
           call' = call \/ call' = Reaped(call), UNCHANGED <<worker, claimq>>
    PROVE  Inv'
<1>1. /\ vop' = [vop EXCEPT ![n] = NoOp]
      /\ timers' = timers \cup {Timer(timers, "verify", n)}
  BY DEF Finished
<1>2. Shape(dev', dev.claim, dev.vt, dev.del, dev.enr, FALSE)
  <2>1. Shape(dev, dev.claim, dev.vt, dev.del, dev.enr, dev.needed)
    BY Shaped DEF Inv, Types
  <2>2. dev' = [dev EXCEPT !.needed = FALSE, !.expiry = NewTimer(timers)]
    BY Zenon DEF Finished
  <2> QED BY <2>1, <2>2, DoubleEdits, Zenon
<1>3. vop[n].st # "off"
  BY DEF Holders
<1>4. /\ vop' \in [Ids -> Ops] /\ vop'[n].st = "off"
      /\ \A m \in Ids : m # n => vop'[m] = vop[m]
  BY <1>1 DEF Inv, Types, Ops, Stages, NoOp
<1>5. \A m \in Ids : vop'[m].st = "off"
  BY <1>3, <1>4, Tags DEF Inv, Bound
<1>6. /\ call' \in [Tasks -> Calls]
      /\ \A u \in Tasks :
            /\ call'[u].m = call[u].m /\ call'[u].task = call[u].task
            /\ call'[u].pc = call[u].pc \/ (call[u].pc = "kill" /\ call'[u].pc = "cancel")
  BY CallsReaped
<1>7. /\ lock' \in Seq(Refs \ {Nothing})
      /\ Queueing(lock, vop, call)' /\ Ahead(lock, dev.vt, call)'
  <2>1. dev'.vt = dev.vt
    BY <1>2 DEF Shape
  <2>2. \A m \in Ids : vop'[m].st \notin Holders
    BY <1>5 DEF Holders
  <2>3. CASE vop[n].st \in Holders /\ lock' = Tail(lock)
    <3>1. lock # <<>> /\ Head(lock) = OpTask(n)
      BY <2>3 DEF Inv, Queueing
    <3>2. Relieved(Head(lock), vop, vop', call, call', dev.vt, dev.vt)
      BY <1>4, <1>6, <2>2, <3>1, Tags DEF Relieved
    <3>3. /\ Tail(lock) \in Seq(Refs \ {Nothing})
          /\ Queueing(Tail(lock), vop', call') /\ Ahead(Tail(lock), dev.vt, call')
      BY <3>1, <3>2, QueueTaken
    <3> QED BY <2>1, <2>3, <3>3
  <2>4. CASE vop[n].st = "error" /\ lock' = lock
    <3>1. /\ lock \in Seq(Refs \ {Nothing})
          /\ Queueing(lock, vop, call) /\ Ahead(lock, dev.vt, call)
      BY DEF Inv, Types
    <3>2. Queueing(lock, vop', call')
      BY <1>4, <1>6, <2>2, <2>4, <3>1 DEF Queueing
    <3>3. Ahead(lock, dev.vt, call')
      BY <1>6, <3>1 DEF Ahead
    <3> QED BY <2>1, <2>4, <3>1, <3>2, <3>3
  <2> QED BY <2>3, <2>4
<1>8. Types' /\ Single'
  BY <1>2, <1>4, <1>6, <1>7 DEF Inv, Types, Single, Shape
<1>9. Bound' /\ Needing'
  BY <1>2, <1>5, <1>6 DEF Inv, Bound, Needing, Shape
<1>10. ASSUME NEW u \in Tasks PROVE Stopping(call[u])' /\ Holding(u, call[u])'
  <2>1. \A w \in Tasks : call'[w].pc = "deleting" => call[w].pc = "deleting"
    BY <1>6
  <2>2. Stopping(call[u])'
    BY <1>2, <1>5, <1>6, <2>1 DEF Inv, Stopping, Shape
  <2>3. Holding(u, call[u])'
    BY <1>2, <1>6 DEF Inv, Holding, Shape
  <2> QED BY <2>2, <2>3
<1>11. Timing(timers, vop, worker)'
  <2>1. \A x \in timers' : x \in timers \/ (x.kind = "verify" /\ x.of = n)
    BY <1>1 DEF Timer
  <2> QED BY <1>5, <2>1 DEF Inv, Timing
<1> QED BY <1>7, <1>8, <1>9, <1>10, <1>11 DEF Inv

\* OpProcessExits keeps the invariant.
LEMMA OpProcessExitsInv ==
    ASSUME Inv, NEW res, OpProcessExits(res)
    PROVE  Inv'
<1> DEFINE n == Head(lock)[2]
<1>1. /\ lock # <<>> /\ Head(lock)[1] = "op" /\ call' = Reaped(call) /\ UNCHANGED <<worker, claimq>>
      /\ Phase(Head(lock)) \in {"project", "probe", "probe2"}
  BY DEF OpProcessExits, ProcessRunning
<1>2. n \in Ids
  <2>1. Head(lock) \in Refs \ {Nothing}
    BY <1>1, QueueTail DEF Inv, Types
  <2> QED BY <1>1, <2>1, HolderKinds
<1>3. vop[n].st \in Holders
  BY <1>1 DEF Phase, Holders
<1>4. \/ Continues(n, IF vop[n].st = "project" THEN "prepare" ELSE "report")
      \/ Continues(n, "rediscover") \/ Failed(n)
  BY DEF OpProcessExits
<1> HIDE DEF n
<1>5. ASSUME NEW p \in Holders, Continues(n, p) PROVE Inv'
  BY <1>1, <1>2, <1>3, <1>5, ContinuesInv
<1>6. CASE Failed(n)
  <2>1. CASE lock' = Tail(lock) /\ vop' = [vop EXCEPT ![n].st = "error"] /\ UNCHANGED <<dev, timers>>
    BY <1>1, <1>2, <1>3, <2>1, ErrorInv
  <2>2. CASE lock' = Tail(lock) /\ Finished(n)
    BY <1>1, <1>2, <1>3, <2>2, FinishedInv
  <2> QED BY <1>6, <2>1, <2>2 DEF Failed
<1> QED BY <1>4, <1>5, <1>6 DEF Holders

\* OpContinues keeps the invariant.
LEMMA OpContinuesInv ==
    ASSUME Inv, NEW n \in Ids, OpContinues(n)
    PROVE  Inv'
<1>1. UNCHANGED <<worker, call, claimq>>
  BY DEF OpContinues
<1>2. CASE vop[n].st = "error" /\ Finished(n) /\ UNCHANGED lock
  BY <1>1, <1>2, FinishedInv
<1>3. CASE vop[n].st \in Holders
  <2>1. \/ Continues(n, "probe") \/ Continues(n, "probe2") \/ Failed(n)
        \/ Finished(n) /\ lock' = Tail(lock)
    BY <1>3 DEF OpContinues, Holders
  <2>2. ASSUME NEW p \in Holders, Continues(n, p) PROVE Inv'
    BY <1>1, <1>3, <2>2, ContinuesInv
  <2>3. CASE lock' = Tail(lock) /\ vop' = [vop EXCEPT ![n].st = "error"] /\ UNCHANGED <<dev, timers>>
    BY <1>1, <1>3, <2>3, ErrorInv
  <2>4. CASE lock' = Tail(lock) /\ Finished(n)
    BY <1>1, <1>3, <2>4, FinishedInv
  <2> QED BY <2>1, <2>2, <2>3, <2>4 DEF Failed, Holders
<1>4. vop[n].st \in Holders \/ (vop[n].st = "error" /\ Finished(n) /\ UNCHANGED lock)
  BY DEF OpContinues, Holders
<1> QED BY <1>2, <1>3, <1>4

-----------------------------------------------------------------------------
(* A call's projection is over: its second half. *)

\* The call whose process runs holds the lock, and no operation does.
LEMMA CallHolder ==
    ASSUME Inv, ProcessRunning, Head(lock)[1] = "call"
    PROVE  /\ lock # <<>> /\ Head(lock)[2] \in Tasks /\ Head(lock) = CallTask(Head(lock)[2])
           /\ call[Head(lock)[2]].pc \in {"lock", "project"}
           /\ \A n \in Ids : vop[n].st \notin Holders
<1>1. lock # <<>> /\ lock \in Seq(Refs \ {Nothing}) /\ Queueing(lock, vop, call)
  BY DEF Inv, Types, ProcessRunning
<1>2. Head(lock) = lock[1] /\ 1 \in 1 .. Len(lock) /\ Head(lock) \in Refs \ {Nothing}
  BY <1>1, QueueTail
<1>3. Head(lock)[2] \in Tasks /\ Head(lock) = CallTask(Head(lock)[2])
  BY <1>2, HolderKinds
<1>4. call[Head(lock)[2]].pc \in {"lock", "project"}
  BY <1>1, <1>2, <1>3 DEF Queueing
<1>5. \A n \in Ids : vop[n].st \notin Holders
  BY <1>1, <1>3, Tags DEF Queueing
<1> QED BY <1>1, <1>3, <1>4, <1>5

\* The calls after one of them has replied.
LEMMA Replied ==
    ASSUME Inv, NEW t \in Tasks
    PROVE  /\ Ended(Reaped(call), t) \in [Tasks -> Calls]
           /\ Form(Ended(Reaped(call), t)[t], "none", "none", Nothing)
           /\ \A u \in Tasks : u # t =>
                 /\ Ended(Reaped(call), t)[u].m = call[u].m
                 /\ Ended(Reaped(call), t)[u].pc = IF call[u].pc = "kill" THEN "cancel" ELSE call[u].pc
                 /\ call[u].task # CallTask(t) => Ended(Reaped(call), t)[u].task = call[u].task
<1> DEFINE c == Reaped(call)
<1>1. /\ c \in [Tasks -> Calls]
      /\ \A u \in Tasks :
            Form(c[u], call[u].m, IF call[u].pc = "kill" THEN "cancel" ELSE call[u].pc, call[u].task)
  BY ReapedCalls DEF Inv, Types
<1> HIDE DEF c
<1>2. /\ Ended(c, t) \in [Tasks -> Calls]
      /\ Form(Ended(c, t)[t], "none", "none", Nothing)
      /\ \A u \in Tasks : u # t =>
            /\ Ended(c, t)[u].m = c[u].m /\ Ended(c, t)[u].pc = c[u].pc
            /\ c[u].task # CallTask(t) => Ended(c, t)[u].task = c[u].task
  BY <1>1, EndedCalls
<1>3. \A u \in Tasks : /\ c[u].m = call[u].m /\ c[u].task = call[u].task
                       /\ c[u].pc = IF call[u].pc = "kill" THEN "cancel" ELSE call[u].pc
  BY <1>1 DEF Form
<1> QED BY <1>2, <1>3 DEF c

(* A projection that starts nothing: the call is over, the device is at most *)
(* relieved of its reference to it, and the lock passes on.                  *)
LEMMA RepliedInv ==
    ASSUME Inv, NEW t \in Tasks, lock # <<>>, Head(lock) = CallTask(t), call[t].m # "Delete",
           call[t].pc \in {"lock", "project"}, \A n \in Ids : vop[n].st \notin Holders,
           call' = Ended(Reaped(call), t), lock' = Tail(lock),
           UNCHANGED <<vop, worker, claimq>>,
           \A x \in timers' : x \in timers \/ x.kind = "unstarted",
           dev' \in Devs(dev'.expiry), dev'.claim = dev.claim, dev'.del = dev.del, dev'.enr = dev.enr,
           dev'.vt = dev.vt \/ (dev.vt = CallTask(t) /\ dev'.vt = Nothing),
           (dev'.needed <=> dev.needed) \/ (~dev'.needed /\ \A n \in Ids : vop[n].st = "off")
    PROVE  Inv'
<1>1. /\ call' \in [Tasks -> Calls] /\ Form(call'[t], "none", "none", Nothing)
      /\ \A u \in Tasks : u # t =>
            /\ call'[u].m = call[u].m
            /\ call'[u].pc = IF call[u].pc = "kill" THEN "cancel" ELSE call[u].pc
            /\ call[u].task # CallTask(t) => call'[u].task = call[u].task
  BY Replied
<1>2. /\ lock' \in Seq(Refs \ {Nothing})
      /\ Queueing(lock, vop, call)' /\ Ahead(lock, dev.vt, call)'
  <2>1. Relieved(Head(lock), vop, vop, call, call', dev.vt, dev'.vt)
    BY <1>1, Tags DEF Relieved, Form
  <2>2. /\ Tail(lock) \in Seq(Refs \ {Nothing})
        /\ Queueing(Tail(lock), vop, call') /\ Ahead(Tail(lock), dev'.vt, call')
    BY <2>1, QueueTaken
  <2> QED BY <2>2
<1>3. Types' /\ Single'
  BY <1>1, <1>2 DEF Inv, Types, Single
<1>4. \A u \in Tasks : call'[u].pc = "deleting" => call[u].pc = "deleting"
  BY <1>1 DEF Form
<1>5. Bound'
  BY <1>4, Tags DEF Inv, Bound
<1>6. Needing'
  BY <1>1 DEF Inv, Needing, Form
<1>7. ASSUME NEW u \in Tasks PROVE Stopping(call[u])' /\ Holding(u, call[u])'
  <2>1. CASE u = t
    BY <2>1, <1>1 DEF Stopping, Holding, Form
  <2>2. CASE u # t
    <3>1. Stopping(call[u])'
      BY <2>2, <1>1, <1>4, Tags DEF Inv, Stopping
    <3>2. Holding(u, call[u])'
      BY <2>2, <1>1 DEF Inv, Holding
    <3> QED BY <3>1, <3>2
  <2> QED BY <2>1, <2>2
<1>8. Timing(timers, vop, worker)'
  BY DEF Inv, Timing
<1> QED BY <1>2, <1>3, <1>5, <1>6, <1>7, <1>8 DEF Inv

\* ListProjected keeps the invariant.
LEMMA ListProjectedInv ==
    ASSUME Inv, NEW t \in Tasks, lock # <<>>, Head(lock) = CallTask(t),
           call[t].pc \in {"lock", "project"}, \A n \in Ids : vop[n].st \notin Holders,
           ListProjected(t), UNCHANGED claimq
    PROVE  Inv'
<1>1. /\ call[t].m = "List" /\ call' = Ended(Reaped(call), t) /\ lock' = Tail(lock)
      /\ UNCHANGED <<dev, timers, vop, worker>>
  BY DEF ListProjected
<1>2. dev \in Devs(dev.expiry)
  BY DEF Inv, Types
<1> QED BY <1>1, <1>2, RepliedInv

\* A number that is free is one of the free numbers.
LEMMA Fresh ==
    /\ FreshOps # {} => NewOp \in FreshOps
    /\ FreshWorkers # {} => NewWorker \in FreshWorkers
BY DEF NewOp, NewWorker, AnyOf

\* Projected keeps the invariant.
LEMMA ProjectedInv ==
    ASSUME ~LateSuccess, Inv, NEW t \in Tasks, NEW res, lock # <<>>, Head(lock) = CallTask(t),
           call[t].pc \in {"lock", "project"}, \A n \in Ids : vop[n].st \notin Holders,
           Quiet, Possible(res), Projected(t, res), UNCHANGED claimq
    PROVE  Inv'
<1> DEFINE n == NewOp
           self == CallTask(t)
           go == Owner(t[1]) /\ dev.vt = self /\ dev.del = Nothing /\ dev.enr = 0 /\ res = "good"
           d == IF dev.vt = self THEN [dev EXCEPT !.vt = Nothing] ELSE dev
<1>1. call[t].m = "VerifyStart" /\ call' = Ended(Reaped(call), t) /\ UNCHANGED worker
  BY DEF Projected
<1>2. Shape(dev, dev.claim, dev.vt, dev.del, dev.enr, dev.needed)
  BY Shaped DEF Inv, Types
<1>3. CASE ~go
  <2>1. /\ dev' = ArmDev(d, timers) /\ timers' = ArmTimers(d, timers)
        /\ lock' = Tail(lock) /\ UNCHANGED vop
    BY <1>3, Zenon DEF Projected
  <2>2. Shape(d, dev.claim, IF dev.vt = self THEN Nothing ELSE dev.vt, dev.del, dev.enr, dev.needed)
    <3>1. CASE dev.vt = self
      <4>1. Shape([dev EXCEPT !.vt = Nothing], dev.claim, Nothing, dev.del, dev.enr, dev.needed)
        BY <1>2, Edits, References, Zenon
      <4> QED BY <3>1, <4>1, Zenon
    <3>2. CASE dev.vt # self
      BY <1>2, <3>2, Zenon
    <3> QED BY <3>1, <3>2
  <2> HIDE DEF d
  <2>3. Shape(dev', dev.claim, IF dev.vt = self THEN Nothing ELSE dev.vt, dev.del, dev.enr, dev.needed)
    BY <2>1, <2>2, Arming, Zenon
  <2>4. \A x \in timers' : x \in timers \/ x.kind = "unstarted"
    BY <2>1, ArmedTimers
  <2>5. lock' = Tail(lock) /\ UNCHANGED vop
    BY <2>1
  <2>6. /\ dev' \in Devs(dev'.expiry) /\ dev'.claim = dev.claim /\ dev'.del = dev.del /\ dev'.enr = dev.enr
        /\ dev'.vt = dev.vt \/ (dev.vt = CallTask(t) /\ dev'.vt = Nothing)
    BY <2>3 DEF Shape
  <2>7. dev'.needed <=> dev.needed
    BY <2>3 DEF Shape
  <2> QED BY <1>1, <2>4, <2>5, <2>6, <2>7, RepliedInv
<1>4. CASE go
  <2>1. /\ FreshOps # {} /\ vop' = [vop EXCEPT ![n] = [st |-> "lock", by |-> t[1]]]
        /\ lock' = Append(Tail(lock), OpTask(n)) /\ UNCHANGED timers
    BY <1>4 DEF Projected
  <2>2. /\ n \in Ids /\ vop[n].st = "off"
        /\ \A x \in timers : ~(x.kind = "verify" /\ x.of = n)
    BY <2>1, Fresh DEF FreshOps
  <2>3. Shape(dev', dev.claim, OpTask(n), dev.del, dev.enr, TRUE)
    <3>1. dev' = [dev EXCEPT !.vt = OpTask(n), !.needed = TRUE]
      BY <1>4, Zenon DEF Projected
    <3>2. OpTask(n) \in Refs
      BY <2>2, References
    <3> HIDE DEF n
    <3> QED BY <1>2, <3>1, <3>2, DoubleEdits, Zenon
  <2>4. dev.claim = t[1] /\ t[1] \in Senders /\ t[1] # NoOne
    BY <1>4, Pairs DEF Owner
  <2>5. dev.vt = CallTask(t) /\ dev.del = Nothing /\ dev.enr = 0 /\ res = "good"
    BY <1>4
  <2> HIDE DEF n
  <2>6. /\ vop' \in [Ids -> Ops] /\ vop'[n].st = "lock" /\ vop'[n].by = t[1]
        /\ \A m \in Ids : m # n => vop'[m] = vop[m]
    BY <2>1, <2>2, <2>4 DEF Inv, Types, Ops, Stages
  <2>7. /\ \A m \in Ids : vop[m].st = "off" /\ worker[m].st # "run"
        /\ \A u \in Tasks : call[u].pc # "deleting"
    BY <2>5, Tags, Numbers DEF Inv, Bound
  <2>8. \A u \in Tasks : call[u].pc \notin {"kill", "cancel", "joined", "deleted"}
    BY <2>5 DEF Quiet, Ready, Possible, Killed
  <2>9. /\ call' \in [Tasks -> Calls] /\ Form(call'[t], "none", "none", Nothing)
        /\ \A u \in Tasks : u # t => call'[u].m = call[u].m /\ call'[u].pc = call[u].pc
    BY <1>1, <2>8, Replied
  <2>10. \A u \in Tasks : call[u].m # "EnrollStart"
    <3>1. /\ lock \in Seq(Refs \ {Nothing})
          /\ Ahead(lock, dev.vt, call)
      BY DEF Inv, Types
    <3>2. 1 \in 1 .. Len(lock) /\ lock[1] = CallTask(t)
      BY <3>1, QueueTail
    <3> QED BY <2>5, <3>1, <3>2 DEF Ahead
  <2>11. /\ lock' \in Seq(Refs \ {Nothing})
         /\ Queueing(lock, vop, call)' /\ Ahead(lock, dev.vt, call)'
    <3>1. \A u \in Tasks : dev'.vt # CallTask(u)
      BY <2>3, Tags DEF Shape
    <3>2. Relieved(Head(lock), vop, vop, call, call', dev.vt, dev'.vt)
      BY <2>9, <3>1, Tags DEF Relieved, Form
    <3>3. Tail(lock) \in Seq(Refs \ {Nothing}) /\ Queueing(Tail(lock), vop, call')
      BY <3>2, QueueTaken
    <3>4. /\ Append(Tail(lock), OpTask(n)) \in Seq(Refs \ {Nothing})
          /\ Queueing(Append(Tail(lock), OpTask(n)), vop', call')
          /\ Ahead(Append(Tail(lock), OpTask(n)), dev'.vt, call')
      BY <2>2, <2>6, <3>1, <3>3, QueueStarted
    <3> QED BY <2>1, <3>4
  <2>12. Types' /\ Single'
    BY <1>1, <2>3, <2>5, <2>6, <2>9, <2>11 DEF Inv, Types, Single, Shape
  <2>13. Bound'
    BY <1>1, <2>3, <2>4, <2>6, <2>7, <2>9 DEF Bound, Shape, Form
  <2>14. Needing'
    BY <2>2, <2>3, <2>6, <2>9, <2>10 DEF Needing, Shape, Form
  <2>15. ASSUME NEW u \in Tasks PROVE Stopping(call[u])' /\ Holding(u, call[u])'
    <3>1. CASE u = t
      BY <3>1, <2>9 DEF Stopping, Holding, Form
    <3>2. CASE u # t
      <4>1. Stopping(call[u])'
        BY <3>2, <2>3, <2>8, <2>9 DEF Inv, Stopping, Shape
      <4>2. Holding(u, call[u])'
        BY <3>2, <2>3, <2>9 DEF Inv, Holding, Shape
      <4> QED BY <4>1, <4>2
    <3> QED BY <3>1, <3>2
  <2>16. Timing(timers, vop, worker)'
    BY <1>1, <2>1, <2>2, <2>6 DEF Inv, Timing
  <2> QED BY <2>11, <2>12, <2>13, <2>14, <2>15, <2>16 DEF Inv
<1> QED BY <1>3, <1>4

\* EnrollProjected keeps the invariant.
LEMMA EnrollProjectedInv ==
    ASSUME Inv, NEW t \in Tasks, NEW res, lock # <<>>, Head(lock) = CallTask(t),
           call[t].pc \in {"lock", "project"}, \A n \in Ids : vop[n].st \notin Holders,
           Quiet, EnrollProjected(t, res), UNCHANGED claimq
    PROVE  Inv'
<1> DEFINE n == NewWorker
           go == Owner(t[1]) /\ FreeOf(dev) /\ res = "good"
           d == IF res = "failed" THEN [dev EXCEPT !.needed = FALSE] ELSE dev
<1>1. /\ call[t].m = "EnrollStart" /\ call' = Ended(Reaped(call), t)
      /\ lock' = Tail(lock) /\ UNCHANGED vop
  BY DEF EnrollProjected
<1>2. Shape(dev, dev.claim, dev.vt, dev.del, dev.enr, dev.needed)
  BY Shaped DEF Inv, Types
<1>3. \A m \in Ids : vop[m].st = "off"
  BY <1>1 DEF Inv, Needing
<1>4. CASE ~go
  <2>1. dev' = ArmDev(d, timers) /\ timers' = ArmTimers(d, timers) /\ UNCHANGED worker
    BY <1>4, Zenon DEF EnrollProjected
  <2>2. \E b \in BOOLEAN : /\ b = dev.needed \/ b = FALSE
                           /\ Shape(d, dev.claim, dev.vt, dev.del, dev.enr, b)
    <3>1. CASE res = "failed"
      <4>1. Shape([dev EXCEPT !.needed = FALSE], dev.claim, dev.vt, dev.del, dev.enr, FALSE)
        BY <1>2, Edits, References, Zenon
      <4> QED BY <3>1, <4>1, Zenon
    <3>2. CASE res # "failed"
      <4>1. dev.needed \in BOOLEAN
        BY DEF Inv, Types, Devs
      <4>2. d = dev
        BY <3>2
      <4> QED BY <1>2, <4>1, <4>2, Zenon
    <3> QED BY <3>1, <3>2
  <2> HIDE DEF d
  <2>3. PICK b \in BOOLEAN : /\ b = dev.needed \/ b = FALSE
                             /\ Shape(d, dev.claim, dev.vt, dev.del, dev.enr, b)
    BY <2>2, Zenon
  <2>4. Shape(dev', dev.claim, dev.vt, dev.del, dev.enr, b)
    BY <2>1, <2>3, Arming, Zenon
  <2>5. \A x \in timers' : x \in timers \/ x.kind = "unstarted"
    BY <2>1, ArmedTimers
  <2>6. /\ dev' \in Devs(dev'.expiry) /\ dev'.claim = dev.claim /\ dev'.del = dev.del
        /\ dev'.enr = dev.enr /\ dev'.vt = dev.vt
    BY <2>4 DEF Shape
  <2>7. (dev'.needed <=> dev.needed) \/ ~dev'.needed
    BY <2>3, <2>4, Zenon DEF Shape
  <2> QED BY <1>1, <1>3, <2>1, <2>5, <2>6, <2>7, RepliedInv
<1>5. CASE go
  <2>1. /\ FreshWorkers # {} /\ worker' = [worker EXCEPT ![n] = [st |-> "run", by |-> t[1]]]
        /\ UNCHANGED timers
    BY <1>5 DEF EnrollProjected
  <2>2. /\ n \in Ids /\ worker[n].st = "off"
        /\ \A x \in timers : ~(x.kind = "enroll" /\ x.of = n)
    BY <2>1, Fresh DEF FreshWorkers
  <2>3. Shape(dev', dev.claim, dev.vt, dev.del, n, dev.needed)
    <3>1. dev' = [dev EXCEPT !.enr = n]
      BY <1>5, Zenon DEF EnrollProjected
    <3>2. n \in Ids \cup {0}
      BY <2>2
    <3> HIDE DEF n
    <3>3. Shape([dev EXCEPT !.enr = n], dev.claim, dev.vt, dev.del, n, dev.needed)
      BY <1>2, <3>2, Edits, Zenon
    <3> QED BY <3>1, <3>3, Zenon
  <2>4. dev.claim = t[1] /\ t[1] \in Senders /\ t[1] # NoOne
    BY <1>5, Pairs DEF Owner
  <2>5. dev.vt = Nothing /\ dev.del = Nothing /\ dev.enr = 0
    BY <1>5 DEF FreeOf
  <2> HIDE DEF n
  <2>6. /\ worker' \in [Ids -> Workers] /\ worker'[n].st = "run" /\ worker'[n].by = t[1]
        /\ \A m \in Ids : m # n => worker'[m] = worker[m]
    BY <2>1, <2>2, <2>4 DEF Inv, Types, Workers
  <2>7. /\ \A m \in Ids : worker[m].st # "run"
        /\ \A u \in Tasks : call[u].pc # "deleting"
    BY <2>5, Tags, Numbers DEF Inv, Bound
  <2>8. \A u \in Tasks : call[u].pc \notin {"cancel", "joined", "deleted"}
    BY DEF Quiet, Ready
  <2>9. /\ call' \in [Tasks -> Calls] /\ Form(call'[t], "none", "none", Nothing)
        /\ \A u \in Tasks : u # t =>
              /\ call'[u].m = call[u].m
              /\ call'[u].pc = IF call[u].pc = "kill" THEN "cancel" ELSE call[u].pc
    BY <1>1, Replied
  <2>10. /\ lock' \in Seq(Refs \ {Nothing})
         /\ Queueing(lock, vop, call)' /\ Ahead(lock, dev.vt, call)'
    <3>1. dev'.vt = dev.vt
      BY <2>3 DEF Shape
    <3>2. Relieved(Head(lock), vop, vop, call, call', dev.vt, dev.vt)
      BY <1>1, <2>9, Tags DEF Relieved, Form
    <3>3. /\ Tail(lock) \in Seq(Refs \ {Nothing})
          /\ Queueing(Tail(lock), vop, call') /\ Ahead(Tail(lock), dev.vt, call')
      BY <3>2, QueueTaken
    <3> QED BY <1>1, <3>1, <3>3
  <2>11. Types' /\ Single'
    BY <1>1, <2>3, <2>5, <2>6, <2>9, <2>10 DEF Inv, Types, Single, Shape
  <2>12. Bound'
    <3>1. \A u \in Tasks : call'[u].pc # "deleting"
      BY <2>7, <2>9 DEF Form
    <3> QED BY <1>1, <1>3, <2>3, <2>4, <2>6, <2>7, <3>1 DEF Bound, Shape
  <2>13. Needing'
    <3>1. dev.needed => FALSE
      BY <1>3, <2>7 DEF Inv, Needing
    <3>2. dev'.needed <=> dev.needed
      BY <2>3 DEF Shape
    <3> QED BY <1>1, <1>3, <3>1, <3>2 DEF Needing
  <2>14. ASSUME NEW u \in Tasks PROVE Stopping(call[u])' /\ Holding(u, call[u])'
    <3>1. CASE u = t
      BY <3>1, <2>9 DEF Stopping, Holding, Form
    <3>2. CASE u # t
      <4>1. Stopping(call[u])'
        BY <3>2, <1>1, <1>3, <2>3, <2>8, <2>9 DEF Inv, Stopping, Shape
      <4>2. Holding(u, call[u])'
        BY <3>2, <2>3, <2>9 DEF Inv, Holding, Shape
      <4> QED BY <4>1, <4>2
    <3> QED BY <3>1, <3>2
  <2>15. Timing(timers, vop, worker)'
    BY <1>1, <2>1, <2>2, <2>6 DEF Inv, Timing
  <2> QED BY <2>10, <2>11, <2>12, <2>13, <2>14, <2>15 DEF Inv
<1> QED BY <1>4, <1>5

\* DeleteProjected keeps the invariant.
LEMMA DeleteProjectedInv ==
    ASSUME Inv, NEW t \in Tasks, NEW res, lock # <<>>, Head(lock) = CallTask(t),
           call[t].pc \in {"lock", "project"}, \A n \in Ids : vop[n].st \notin Holders,
           Quiet, DeleteProjected(t, res), UNCHANGED claimq
    PROVE  Inv'
<1> DEFINE go == Owner(t[1]) /\ dev.del = CallTask(t) /\ dev.vt = Nothing /\ dev.enr = 0 /\ res = "good"
           c == Ended(Reaped(call), t)
<1>1. call[t].m = "Delete" /\ lock' = Tail(lock) /\ UNCHANGED <<vop, worker>>
  BY DEF DeleteProjected
<1>2. dev.del = CallTask(t) /\ dev.vt = Nothing /\ dev.enr = 0
  BY <1>1, Tags DEF Inv, Holding, Single
<1>3. /\ \A n \in Ids : vop[n].st = "off" /\ worker[n].st # "run"
      /\ \A u \in Tasks : call[u].pc # "deleting"
  BY <1>2, Tags, Numbers DEF Inv, Bound
<1>4. \A u \in Tasks : u # t => call[u].m # "Delete"
  BY <1>2, Tags DEF Inv, Holding
<1>5. CASE ~go
  <2>1. /\ call' = Awaited(c) /\ dev' = ArmDev([dev EXCEPT !.del = Nothing], timers)
        /\ timers' = ArmTimers([dev EXCEPT !.del = Nothing], timers)
    BY <1>2, <1>5, Zenon DEF DeleteProjected
  <2>2. Shape(dev', dev.claim, dev.vt, Nothing, dev.enr, dev.needed)
    <3>1. Shape([dev EXCEPT !.del = Nothing], dev.claim, dev.vt, Nothing, dev.enr, dev.needed)
      BY Shaped, Edits, References, Zenon DEF Inv, Types
    <3> QED BY <2>1, <3>1, Arming, Zenon
  <2>3. \A x \in timers' : x \in timers \/ x.kind = "unstarted"
    BY <2>1, ArmedTimers, Zenon
  <2>4. /\ c \in [Tasks -> Calls] /\ Form(c[t], "none", "none", Nothing)
        /\ \A u \in Tasks : u # t =>
              /\ c[u].m = call[u].m
              /\ c[u].pc = IF call[u].pc = "kill" THEN "cancel" ELSE call[u].pc
    BY Replied
  <2> HIDE DEF c
  <2>5. /\ Awaited(c) \in [Tasks -> Calls]
        /\ \A u \in Tasks :
              Form(Awaited(c)[u], c[u].m, IF c[u].pc = "del" THEN "deleted" ELSE c[u].pc, c[u].task)
    BY <2>4, AwaitedCalls
  <2>6. /\ call' \in [Tasks -> Calls] /\ call'[t].m = "none" /\ call'[t].pc = "none"
        /\ \A u \in Tasks : u # t =>
              /\ call'[u].m = call[u].m
              /\ call'[u].pc = IF call[u].pc = "kill" THEN "cancel"
                               ELSE IF call[u].pc = "del" THEN "deleted" ELSE call[u].pc
    <3>1. \A u \in Tasks : /\ call'[u].m = c[u].m
                           /\ call'[u].pc = IF c[u].pc = "del" THEN "deleted" ELSE c[u].pc
      BY <2>1, <2>5 DEF Form
    <3>2. call' \in [Tasks -> Calls]
      BY <2>1, <2>5
    <3> QED BY <2>4, <3>1, <3>2 DEF Form
  <2>7. \A u \in Tasks : call'[u].pc # "deleting"
    BY <1>3, <2>6
  <2>8. /\ lock' \in Seq(Refs \ {Nothing})
        /\ Queueing(lock, vop, call)' /\ Ahead(lock, dev.vt, call)'
    <3>1. dev'.vt = dev.vt
      BY <2>2 DEF Shape
    <3>2. Relieved(Head(lock), vop, vop, call, call', dev.vt, dev.vt)
      BY <1>1, <2>6, Tags DEF Relieved
    <3>3. /\ Tail(lock) \in Seq(Refs \ {Nothing})
          /\ Queueing(Tail(lock), vop, call') /\ Ahead(Tail(lock), dev.vt, call')
      BY <3>2, QueueTaken
    <3> QED BY <1>1, <3>1, <3>3
  <2>9. Types' /\ Single'
    BY <1>1, <1>2, <2>2, <2>6, <2>8 DEF Inv, Types, Single, Shape
  <2>10. Bound'
    BY <1>1, <1>3, <2>7 DEF Bound
  <2>11. Needing'
    BY <1>1, <1>3, <2>2, <2>6 DEF Inv, Needing, Shape
  <2>12. ASSUME NEW u \in Tasks PROVE Stopping(call[u])' /\ Holding(u, call[u])'
    <3>1. CASE u = t
      BY <2>6, <3>1 DEF Stopping, Holding
    <3>2. CASE u # t
      <4>1. Stopping(call[u])'
        BY <1>1, <1>3, <2>2, <2>6, <2>7, <3>2 DEF Inv, Stopping, Shape
      <4>2. Holding(u, call[u])'
        BY <1>1, <1>4, <2>2, <2>6, <3>2 DEF Inv, Holding, Shape
      <4> QED BY <4>1, <4>2
    <3> QED BY <3>1, <3>2
  <2>13. Timing(timers, vop, worker)'
    BY <1>1, <2>3 DEF Inv, Timing
  <2> QED BY <2>8, <2>9, <2>10, <2>11, <2>12, <2>13 DEF Inv
<1>6. CASE go
  <2>1. call' = [Reaped(call) EXCEPT ![t].pc = "deleting"] /\ UNCHANGED <<dev, timers>>
    BY <1>6, Zenon DEF DeleteProjected
  <2>2. dev.claim = t[1] /\ t[1] # NoOne
    BY <1>6, Pairs DEF Owner
  <2>3. /\ call' \in [Tasks -> Calls] /\ call'[t].m = "Delete" /\ call'[t].pc = "deleting"
        /\ \A u \in Tasks : u # t =>
              /\ call'[u].m = call[u].m
              /\ call'[u].pc = IF call[u].pc = "kill" THEN "cancel" ELSE call[u].pc
    <3> DEFINE r == Reaped(call)
    <3>1. /\ r \in [Tasks -> Calls]
          /\ \A u \in Tasks :
                Form(r[u], call[u].m, IF call[u].pc = "kill" THEN "cancel" ELSE call[u].pc, call[u].task)
      BY ReapedCalls DEF Inv, Types
    <3>2. call' = [r EXCEPT ![t].pc = "deleting"]
      BY <2>1
    <3> HIDE DEF r
    <3>3. "deleting" \in Places
      BY DEF Places
    <3>4. /\ [r EXCEPT ![t].pc = "deleting"] \in [Tasks -> Calls]
          /\ Form([r EXCEPT ![t].pc = "deleting"][t], r[t].m, "deleting", r[t].task)
          /\ \A u \in Tasks : u # t => [r EXCEPT ![t].pc = "deleting"][u] = r[u]
      BY <3>1, <3>3, Placed
    <3>5. /\ call' \in [Tasks -> Calls] /\ Form(call'[t], r[t].m, "deleting", r[t].task)
          /\ \A u \in Tasks : u # t => call'[u] = r[u]
      BY <3>2, <3>4, Zenon
    <3> QED BY <1>1, <3>1, <3>5 DEF Form
  <2>4. \A u \in Tasks : call[u].pc \notin {"cancel", "joined", "deleted"}
    BY DEF Quiet, Ready
  <2>5. /\ lock' \in Seq(Refs \ {Nothing})
        /\ Queueing(lock, vop, call)' /\ Ahead(lock, dev.vt, call)'
    <3>1. Relieved(Head(lock), vop, vop, call, call', dev.vt, dev.vt)
      BY <1>1, <2>3, Tags DEF Relieved
    <3>2. /\ Tail(lock) \in Seq(Refs \ {Nothing})
          /\ Queueing(Tail(lock), vop, call') /\ Ahead(Tail(lock), dev.vt, call')
      BY <3>1, QueueTaken
    <3> QED BY <1>1, <2>1, <3>2
  <2>6. Types' /\ Single'
    BY <1>1, <2>1, <2>3, <2>5 DEF Inv, Types, Single
  <2>7. Bound'
    BY <1>1, <1>2, <1>3, <2>1, <2>2, <2>3 DEF Bound
  <2>8. Needing'
    BY <1>1, <1>3, <2>1, <2>3 DEF Inv, Needing
  <2>9. ASSUME NEW u \in Tasks PROVE Stopping(call[u])' /\ Holding(u, call[u])'
    <3>1. CASE u = t
      BY <1>2, <2>1, <2>3, <3>1 DEF Stopping, Holding
    <3>2. CASE u # t
      <4>1. Stopping(call[u])'
        BY <1>1, <1>3, <2>1, <2>3, <2>4, <3>2 DEF Inv, Stopping
      <4>2. Holding(u, call[u])'
        BY <1>1, <2>1, <2>3, <3>2 DEF Inv, Holding
      <4> QED BY <4>1, <4>2
    <3> QED BY <3>1, <3>2
  <2>10. Timing(timers, vop, worker)'
    BY <1>1, <2>1 DEF Inv, Timing
  <2> QED BY <2>5, <2>6, <2>7, <2>8, <2>9, <2>10 DEF Inv
<1> QED BY <1>5, <1>6

\* CallProcessExits keeps the invariant.
LEMMA CallProcessExitsInv ==
    ASSUME ~LateSuccess, Inv, NEW res, CallProcessExits(res)
    PROVE  Inv'
<1> DEFINE t == Head(lock)[2]
<1>1. Quiet /\ ProcessRunning /\ Head(lock)[1] = "call" /\ Possible(res) /\ UNCHANGED claimq
  BY DEF CallProcessExits
<1>2. /\ lock # <<>> /\ t \in Tasks /\ Head(lock) = CallTask(t)
      /\ call[t].pc \in {"lock", "project"} /\ \A n \in Ids : vop[n].st \notin Holders
  BY <1>1, CallHolder
<1>3. Projected(t, res) \/ EnrollProjected(t, res) \/ DeleteProjected(t, res) \/ ListProjected(t)
  BY DEF CallProcessExits
<1> HIDE DEF t
<1> QED BY <1>1, <1>2, <1>3, ProjectedInv, EnrollProjectedInv, DeleteProjectedInv, ListProjectedInv

-----------------------------------------------------------------------------
(* task.cancel() ends the operation that the stopper read on entry. *)

\* Whatever the stopper cancels, nothing verifies any more.
LEMMA CancelledInv ==
    ASSUME Inv, NEW h, \A n \in Ids : vop'[n].st = "off", vop' \in [Ids -> Ops],
           \A n \in Ids : OpTask(n) # h => vop[n].st = "off",
           call' \in [Tasks -> Calls],
           \A u \in Tasks : \/ /\ call'[u].m = call[u].m
                               /\ \/ call'[u].pc = call[u].pc
                                  \/ call[u].pc = "cancel" /\ call'[u].pc = "joined"
                               /\ CallTask(u) # h
                            \/ /\ call'[u].m = "none" /\ call'[u].pc = "none"
                               /\ CallTask(u) = h,
           lock' = Left(h), UNCHANGED <<worker, claimq>>,
           \A x \in timers' : x \in timers \/ x.kind = "unstarted",
           dev' \in Devs(dev'.expiry), dev'.claim = dev.claim, dev'.del = dev.del, dev'.enr = dev.enr,
           dev'.vt = dev.vt \/ dev'.vt = Nothing,
           dev'.needed => dev.needed /\ \A n \in Ids : vop[n].st = "off"
    PROVE  Inv'
<1>1. /\ lock' \in Seq(Refs \ {Nothing})
      /\ Queueing(lock, vop, call)' /\ Ahead(lock, dev.vt, call)'
  <2>1. Relieved(h, vop, vop', call, call', dev.vt, dev'.vt)
    <3>1. \A u \in Tasks : call'[u].m = "EnrollStart" => call[u].m = "EnrollStart" /\ CallTask(u) # h
      OBVIOUS
    <3>2. \A u \in Tasks : CallTask(u) # h /\ call[u].pc \in {"lock", "project"} =>
              call'[u].pc \in {"lock", "project"}
      OBVIOUS
    <3>3. dev'.vt = dev.vt \/ \A u \in Tasks : dev'.vt # CallTask(u)
      BY Tags
    <3> QED BY <3>1, <3>2, <3>3 DEF Relieved, Holders
  <2>2. /\ Left(h) \in Seq(Refs \ {Nothing})
        /\ Queueing(Left(h), vop', call') /\ Ahead(Left(h), dev'.vt, call')
    BY <2>1, QueueLeft
  <2> QED BY <2>2
<1>2. Types' /\ Single'
  BY <1>1 DEF Inv, Types, Single
<1>3. \A u \in Tasks : call'[u].pc = "deleting" => call[u].pc = "deleting"
  OBVIOUS
<1>4. Bound'
  BY <1>3 DEF Inv, Bound
<1>5. Needing'
  BY DEF Inv, Needing
<1>6. ASSUME NEW u \in Tasks PROVE Stopping(call[u])' /\ Holding(u, call[u])'
  <2>1. Stopping(call[u])'
    BY <1>3 DEF Inv, Stopping
  <2>2. Holding(u, call[u])'
    <3>1. CASE CallTask(u) = h
      BY <3>1 DEF Holding
    <3>2. CASE CallTask(u) # h
      BY <3>2 DEF Inv, Holding
    <3> QED BY <3>1, <3>2
  <2> QED BY <2>1, <2>2
<1>7. Timing(timers, vop, worker)'
  BY DEF Inv, Timing
<1> QED BY <1>1, <1>2, <1>4, <1>5, <1>6, <1>7 DEF Inv

\* CancelVerifyTask keeps the invariant.
LEMMA CancelVerifyTaskInv ==
    ASSUME Inv, NEW t \in Tasks, CancelVerifyTask(t)
    PROVE  Inv'
<1> DEFINE h == call[t].task
           joined == [call EXCEPT ![t].pc = "joined"]
           d == IF dev.vt = h THEN [dev EXCEPT !.vt = Nothing] ELSE dev
<1>1. call[t].pc = "cancel" /\ UNCHANGED <<worker, claimq>>
  BY DEF CancelVerifyTask
<1>2. h \in Refs /\ \A n \in Ids : OpTask(n) # h => vop[n].st = "off"
  BY <1>1 DEF Inv, Types, Calls, Stopping
<1>3. /\ joined \in [Tasks -> Calls]
      /\ joined[t].m = call[t].m /\ joined[t].pc = "joined"
      /\ \A u \in Tasks : u # t => joined[u] = call[u]
  <2>1. "joined" \in Places /\ call \in [Tasks -> Calls]
    BY DEF Places, Ready, Inv, Types
  <2>2. /\ joined \in [Tasks -> Calls] /\ Form(joined[t], call[t].m, "joined", call[t].task)
        /\ \A u \in Tasks : u # t => joined[u] = call[u]
    BY <2>1, Placed
  <2> HIDE DEF joined
  <2> QED BY <2>2 DEF Form
<1>4. Shape(dev, dev.claim, dev.vt, dev.del, dev.enr, dev.needed)
  BY Shaped DEF Inv, Types
<1>5. CASE h = Nothing
  <2>1. call' = joined /\ UNCHANGED <<dev, timers, vop, lock>>
    BY <1>5 DEF CancelVerifyTask
  <2>2. Left(h) = lock
    <3>1. lock \in Seq(Refs \ {Nothing})
      BY DEF Inv, Types
    <3>2. \A i \in 1 .. Len(lock) : lock[i] # h
      BY <1>5, <3>1
    <3> QED BY <3>2 DEF Left
  <2> HIDE DEF h, joined
  <2>3. /\ \A n \in Ids : vop[n].st = "off" /\ OpTask(n) # h
        /\ \A u \in Tasks : CallTask(u) # h
    BY <1>2, <1>5, Tags
  <2>4. /\ dev' \in Devs(dev'.expiry) /\ dev'.claim = dev.claim /\ dev'.del = dev.del
        /\ dev'.enr = dev.enr /\ dev'.vt = dev.vt /\ (dev'.needed => dev.needed)
    BY <2>1 DEF Inv, Types
  <2>5. vop' \in [Ids -> Ops]
    BY <2>1 DEF Inv, Types
  <2>6. \A u \in Tasks : call'[u].m = call[u].m
                         /\ (call'[u].pc = call[u].pc \/ (call[u].pc = "cancel" /\ call'[u].pc = "joined"))
    BY <1>1, <1>3, <2>1
  <2>7. call' \in [Tasks -> Calls] /\ lock' = Left(h)
    BY <1>3, <2>1, <2>2
  <2> QED BY <1>1, <1>2, <2>1, <2>3, <2>4, <2>5, <2>6, <2>7, CancelledInv
<1>6. CASE h # Nothing /\ h[1] = "op"
  <2>1. h[2] \in Ids /\ h = OpTask(h[2])
    BY <1>2, <1>6, HolderKinds
  <2> DEFINE n == h[2]
  <2>2. /\ call' = joined /\ vop' = [vop EXCEPT ![n] = NoOp] /\ lock' = Left(h) /\ UNCHANGED timers
        /\ dev' = IF vop[n].st = "off" THEN dev ELSE [dev EXCEPT !.needed = FALSE]
    BY <1>6, Tags, <2>1 DEF CancelVerifyTask
  <2> HIDE DEF h, joined, n
  <2>3. n \in Ids /\ h = OpTask(n)
    BY <2>1 DEF n
  <2>4. vop' \in [Ids -> Ops] /\ vop'[n].st = "off" /\ \A m \in Ids : m # n => vop'[m] = vop[m]
    BY <2>2, <2>3 DEF Inv, Types, Ops, Stages, NoOp
  <2>5. \A m \in Ids : vop'[m].st = "off"
    BY <1>2, <2>3, <2>4, Tags
  <2>6. /\ dev' \in Devs(dev'.expiry) /\ dev'.claim = dev.claim /\ dev'.del = dev.del
        /\ dev'.enr = dev.enr /\ dev'.vt = dev.vt
        /\ dev'.needed => dev.needed /\ \A m \in Ids : vop[m].st = "off"
    <3>1. CASE vop[n].st = "off"
      <4>1. \A m \in Ids : vop[m].st = "off"
        BY <1>2, <2>3, <3>1, Tags
      <4>2. dev' = dev
        BY <2>2, <3>1
      <4> QED BY <4>1, <4>2 DEF Inv, Types
    <3>2. CASE vop[n].st # "off"
      <4>1. Shape([dev EXCEPT !.needed = FALSE], dev.claim, dev.vt, dev.del, dev.enr, FALSE)
        BY <1>4, Edits, References, Zenon
      <4>2. dev' = [dev EXCEPT !.needed = FALSE]
        BY <2>2, <3>2, Zenon
      <4>3. Shape(dev', dev.claim, dev.vt, dev.del, dev.enr, FALSE)
        BY <4>1, <4>2, Zenon
      <4> QED BY <4>3 DEF Shape
    <3> QED BY <3>1, <3>2
  <2>7. \A u \in Tasks : CallTask(u) # h
    BY <2>3, Tags
  <2>8. \A u \in Tasks : call'[u].m = call[u].m
                         /\ (call'[u].pc = call[u].pc \/ (call[u].pc = "cancel" /\ call'[u].pc = "joined"))
    BY <1>1, <1>3, <2>2
  <2>9. call' \in [Tasks -> Calls] /\ lock' = Left(h) /\ \A x \in timers' : x \in timers
    BY <1>3, <2>2
  <2> QED BY <1>1, <1>2, <2>4, <2>5, <2>6, <2>7, <2>8, <2>9, CancelledInv
<1>7. CASE h # Nothing /\ h[1] # "op"
  <2>1. h[1] = "call" /\ h[2] \in Tasks /\ h = CallTask(h[2])
    BY <1>2, <1>7, HolderKinds
  <2> DEFINE w == h[2]
  <2>2. /\ call' = Ended(joined, w) /\ lock' = Left(h) /\ UNCHANGED vop
        /\ dev' = ArmDev(d, timers) /\ timers' = ArmTimers(d, timers)
    BY <1>7, <2>1, Zenon DEF CancelVerifyTask
  <2>3. \E v \in {dev.vt, Nothing} : Shape(d, dev.claim, v, dev.del, dev.enr, dev.needed)
    <3>1. CASE dev.vt = h
      <4>1. Shape([dev EXCEPT !.vt = Nothing], dev.claim, Nothing, dev.del, dev.enr, dev.needed)
        BY <1>4, Edits, References, Zenon
      <4> QED BY <3>1, <4>1, Zenon
    <3>2. CASE dev.vt # h
      BY <1>4, <3>2, Zenon
    <3> QED BY <3>1, <3>2
  <2> HIDE DEF d, h, joined, w
  <2>4. PICK v \in {dev.vt, Nothing} : Shape(d, dev.claim, v, dev.del, dev.enr, dev.needed)
    BY <2>3, Zenon
  <2>5. Shape(dev', dev.claim, v, dev.del, dev.enr, dev.needed)
    BY <2>2, <2>4, Arming, Zenon
  <2>6. w \in Tasks /\ h = CallTask(w)
    BY <2>1 DEF w
  <2>7. \A n \in Ids : vop[n].st = "off" /\ OpTask(n) # h
    BY <1>2, <2>6, Tags
  <2>8. /\ dev' \in Devs(dev'.expiry) /\ dev'.claim = dev.claim /\ dev'.del = dev.del
        /\ dev'.enr = dev.enr /\ (dev'.vt = dev.vt \/ dev'.vt = Nothing)
    BY <2>4, <2>5 DEF Shape
  <2>9. dev'.needed <=> dev.needed
    BY <2>5 DEF Shape
  <2>10. /\ Ended(joined, w) \in [Tasks -> Calls]
         /\ Form(Ended(joined, w)[w], "none", "none", Nothing)
         /\ \A u \in Tasks : u # w =>
               Ended(joined, w)[u].m = joined[u].m /\ Ended(joined, w)[u].pc = joined[u].pc
    BY <1>3, <2>6, EndedCalls
  <2>11. \A u \in Tasks : u # w =>
             /\ call'[u].m = call[u].m
             /\ call'[u].pc = call[u].pc \/ (call[u].pc = "cancel" /\ call'[u].pc = "joined")
    BY <1>1, <1>3, <2>2, <2>10
  <2>12. call'[w].m = "none" /\ call'[w].pc = "none" /\ call' \in [Tasks -> Calls]
    BY <2>2, <2>10 DEF Form
  <2>13. \A u \in Tasks : CallTask(u) = h <=> u = w
    BY <2>6, Tags
  <2>14. /\ vop' \in [Ids -> Ops] /\ \A n \in Ids : vop'[n].st = "off"
    BY <2>2, <2>7 DEF Inv, Types
  <2>15. \A x \in timers' : x \in timers \/ x.kind = "unstarted"
    BY <2>2, ArmedTimers
  <2>16. lock' = Left(h)
    BY <2>2
  <2>17. \A u \in Tasks : \/ /\ call'[u].m = call[u].m
                             /\ \/ call'[u].pc = call[u].pc
                                \/ call[u].pc = "cancel" /\ call'[u].pc = "joined"
                             /\ CallTask(u) # h
                          \/ /\ call'[u].m = "none" /\ call'[u].pc = "none"
                             /\ CallTask(u) = h
    BY <2>11, <2>12, <2>13
  <2> QED BY <1>1, <1>2, <2>7, <2>8, <2>9, <2>12, <2>14, <2>15, <2>16, <2>17, CancelledInv
<1> QED BY <1>5, <1>6, <1>7

-----------------------------------------------------------------------------
(* Every step keeps the invariant. *)

\* Steps of the clients alone.
LEMMA ClientInv ==
    ASSUME Inv, UNCHANGED <<dev, timers, vop, worker, call, lock, claimq>>
    PROVE  Inv'
BY DEF Inv, Types, Single, Bound, Stopping, Holding, Timing, Queueing, Ahead, Needing

\* The invariant is inductive.
LEMMA NextInv ==
    ASSUME ~LateSuccess, Inv, [Next]_vars
    PROVE  Inv'
<1>1. CASE UNCHANGED vars
  BY <1>1, ClientInv DEF vars
<1>2. ASSUME NEW t \in Tasks, ClientCall(t) PROVE Inv'
  BY <1>2, ClaimInv, StopCallInv, QueueCallInv, EnrollStopInv DEF ClientCall
<1>3. ASSUME NEW t \in Tasks, ClaimLocked(t) \/ Collected(t) \/ DeletionEnds(t) PROVE Inv'
  BY <1>3, ClaimLockedInv, CollectedInv, DeletionEndsInv
<1>4. CASE Continuation
  BY <1>4, CancelVerifyTaskInv, VerificationStoppedInv, DeletionAwaitedInv DEF Continuation
<1>5. CASE Completion
  BY <1>5, StartProjectionInv, CallProcessExitsInv, OpProcessExitsInv DEF Completion
<1>6. ASSUME NEW n \in Ids, OpContinues(n) \/ EnrollmentUpdate(n) \/ EnrollmentEnds(n) PROVE Inv'
  BY <1>6, OpContinuesInv, EnrollmentUpdateInv, EnrollmentEndsInv
<1>7. ASSUME NEW x \in timers, Expire(x) PROVE Inv'
  BY <1>7, ExpireInv
<1>8. ASSUME NEW s \in Mortals, Exit(s) \/ Disconnect(s) \/ LoseEvidence(s) PROVE Inv'
  BY <1>8, ClientInv DEF Exit, Disconnect, LoseEvidence
<1>9. ASSUME NEW s \in Mortals, NameOwnerChanged(s) \/ SenderDeparted(s) PROVE Inv'
  BY <1>9, FprintdAssumption, NameOwnerChangedInv, SenderDepartedInv
<1> QED BY <1>1, <1>2, <1>3, <1>4, <1>5, <1>6, <1>7, <1>8, <1>9 DEF Next

\* ... and so holds in every reachable state.
LEMMA SpecInv ==
    ASSUME ~LateSuccess PROVE Spec => []Inv
<1>1. Init => Inv
  BY InitInv
<1>2. Inv /\ [Next]_vars => Inv'
  BY NextInv
<1> QED BY <1>1, <1>2, PTL DEF Spec

-----------------------------------------------------------------------------

\* What runs was started by the present owner of the claim, and the device
\* refers to it (OperationBound), for any number of clients, calls and timers:
\* Release, VerifyStop, EnrollStop, sender_departed and an expiry never clear
\* the claim or a reference while the operation behind it goes on, as long as a
\* process that backend.cancel() ended does not report success.
THEOREM FprintdOperationBound ==
    ASSUME ~LateSuccess PROVE Spec => []OperationBound
<1>1. Inv => OperationBound
  BY DEF Inv, Bound, OperationBound, Verifying, Enrolling, Deleting
<1> QED BY <1>1, SpecInv, PTL

\* At most one verification, enrollment or deletion runs (OneOperation): what
\* VerifyStart, EnrollStart and DeleteEnrolledFinger check before and after
\* they wait for the operation lock is enough, whatever else happens meanwhile.
THEOREM FprintdOneOperation ==
    ASSUME ~LateSuccess PROVE Spec => []OneOperation
<1>1. ASSUME Inv PROVE OneOperation
  <2>1. /\ \A m, n \in Verifying : m = n
        /\ \A m, n \in Enrolling : m = n
        /\ \A t, u \in Deleting : t = u
    BY <1>1, Tags DEF Inv, Bound, Verifying, Enrolling, Deleting
  <2>2. /\ Verifying # {} => Enrolling = {} /\ Deleting = {}
        /\ Enrolling # {} => Deleting = {}
    BY <1>1, Tags, Numbers DEF Inv, Bound, Single, Verifying, Enrolling, Deleting
  <2>3. Cardinality({}) = 0
    BY FS_EmptySet
  <2>4. ASSUME NEW S, \A x, y \in S : x = y PROVE S = {} \/ Cardinality(S) = 1
    <3>1. ASSUME NEW x \in S PROVE Cardinality(S) = 1
      <4>1. S = {x}
        BY <2>4, <3>1
      <4> QED BY <4>1, FS_Singleton
    <3> QED BY <3>1
  <2>5. /\ Verifying = {} \/ Cardinality(Verifying) = 1
        /\ Enrolling = {} \/ Cardinality(Enrolling) = 1
        /\ Deleting = {} \/ Cardinality(Deleting) = 1
    BY <2>1, <2>4
  <2> QED BY <2>2, <2>3, <2>5 DEF OneOperation
<1>2. Inv => OneOperation
  BY <1>1
<1> QED BY <1>2, SpecInv, PTL

\* finger-needed is set exactly while a finger is expected (FingerNeeded): every
\* way a verification ends resets it, and no failing EnrollStart takes it away
\* from a verification that has begun in the meantime (_set_finger_state).
THEOREM FprintdFingerNeeded ==
    ASSUME ~LateSuccess PROVE Spec => []FingerNeeded
<1>1. Inv => FingerNeeded
  BY DEF Inv, Needing, FingerNeeded, Verifying, Enrolling
<1> QED BY <1>1, SpecInv, PTL

=============================================================================
