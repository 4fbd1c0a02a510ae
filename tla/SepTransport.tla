---------------------------- MODULE SepTransport ----------------------------
(***************************************************************************)
(* The kernel driver of the Secure Enclave mailbox, and the processes that *)
(* use it (t2_sep_transport.c, t2_acm_lifecycle.h, t2_acm_device.py).      *)
(*                                                                         *)
(* One mailbox carries three endpoints: control (buffer registration), AKS *)
(* (keybag requests) and ACM (credential contexts).  Under exchange_lock a *)
(* caller posts one request and pops the inbox until a reply matches, five *)
(* seconds pass without a message, or MaxSkipped others were popped.  The  *)
(* answer of a request given up is still to come: an AKS reply carries a   *)
(* transaction number, an ACM reply carries none, and the driver gives up  *)
(* ("poisons") the ACM endpoint whenever an answer may be outstanding.     *)
(*                                                                         *)
(* The Secure Enclave is external: it answers each endpoint in order,      *)
(* whenever it likes or never, and writes the body of an answer to the     *)
(* endpoint's buffer before it posts the reply.                            *)
(***************************************************************************)
EXTENDS Naturals, Sequences, FiniteSets

CONSTANTS
    Authorizers,        \* processes that run with_authorized_context
    Testers,            \* processes that run an ACM diagnostic sequence
    AksUsers,           \* processes that only use /dev/t2-aks
    RegisterAcm,        \* module parameter register_acm
    ProbeCapabilities,  \* module parameter probe_capabilities
    Transactions,       \* how many transaction numbers there are (255)
    MaxSkipped,         \* unrelated replies popped before EOVERFLOW (32)
    MaxSessions,        \* bound: ACM sessions begun
    MaxObservations,    \* bound: AKS requests made outside a session
    MaxNotices          \* bound: messages the enclave sends unasked

AcmUsers == Authorizers \cup Testers
Procs == AcmUsers \cup AksUsers

(* lifecycle_test, policy_preflight_test and with_authorized_context.      *)
KindsOf(p) == IF p \in Authorizers THEN {"authorize"}
              ELSE {"lifecycle", "policy"}

ASSUME Bounds ==
    /\ AcmUsers \cap AksUsers = {} /\ Authorizers \cap Testers = {}
    /\ {"nobody", "probe"} \cap Procs = {}
    /\ RegisterAcm \in BOOLEAN /\ ProbeCapabilities \in BOOLEAN
    /\ Transactions \in Nat \ {0} /\ MaxSkipped \in Nat \ {0}
    /\ MaxSessions \in Nat /\ MaxObservations \in Nat /\ MaxNotices \in Nat

VARIABLES
    driver,     \* struct t2_sep_transport
    call,       \* the exchange under exchange_lock, or NoCall
    proc,       \* where each process is, and what it holds
    sent,       \* requests numbered so far, by endpoint
    outbox,     \* requests the enclave has not answered, by endpoint
    inbox,      \* the mailbox's reply queue
    body,       \* whose answer the reply buffer of an endpoint holds
    sep,        \* the enclave: buffers registered, contexts live and bound
    last,       \* the exchange completed last: how many requests its reply
                \* and the body it was given are behind its own (history)
    begun       \* sessions, observations and notices so far (for the bounds)

vars == <<driver, call, proc, sent, outbox, inbox, body, sep, last, begun>>

Endpoints == {"control", "aks", "acm"}
NoCall == [by |-> "nobody"]
NoContext == 0
Free == call = NoCall

(* The registrations t2_sep_probe makes, in the order of their tags.       *)
Tags == IF RegisterAcm THEN 4 ELSE 2

Contexts == 0 .. MaxSessions * 8

TypeOK ==
    /\ driver \in
         [stage : {"register", "negotiate", "expose", "ready", "off"},
          acked : 0 .. 4, pinned : BOOLEAN, freed : BOOLEAN,
          nodes : SUBSET {"aks", "acm"}, opened : Procs \cup {"nobody"},
          generation : 0 .. MaxSessions + 1, poisoned : BOOLEAN,
          context : Contexts]
    /\ \/ Free
       \/ /\ call.by \in Procs \cup {"probe"}
          /\ call.skipped \in 0 .. MaxSkipped - 1
    /\ \A p \in Procs : proc[p].context \in Contexts
    /\ sent \in [Endpoints -> Nat]
    /\ body \in [Endpoints -> Nat]
    /\ sep.registered \subseteq 1 .. 4
    /\ sep.bound \subseteq Contexts /\ sep.live \subseteq Contexts

(* A process: its next step, its sequence, and the generation and context *)
(* its ACMDevice holds.                                                    *)
Holding(at, kind, generation, context) ==
    [at |-> at, kind |-> kind, generation |-> generation, context |-> context]

Resting == Holding("idle", "none", 0, NoContext)

Init ==
    /\ driver = [stage |-> "register", acked |-> 0, pinned |-> FALSE,
                 freed |-> FALSE, nodes |-> {}, opened |-> "nobody",
                 generation |-> 0, poisoned |-> FALSE, context |-> NoContext]
    /\ call = NoCall
    /\ proc = [p \in Procs |-> Resting]
    /\ sent = [e \in Endpoints |-> 0]
    /\ outbox = [e \in Endpoints |-> <<>>]
    /\ inbox = <<>>
    /\ body = [e \in Endpoints |-> 0]
    /\ sep = [registered |-> {}, live |-> {}, bound |-> {}]
    /\ last = [endpoint |-> "control", behind |-> 0, bodyBehind |-> 0]
    /\ begun = [sessions |-> 0, observations |-> 0, notices |-> 0]

-----------------------------------------------------------------------------
(* Requests and replies.                                                   *)

(* next_transaction: an 8-bit counter that skips zero.                     *)
Transaction(n) == ((n - 1) % Transactions) + 1

(* The tag that travels with a request: a control call's own tag, an AKS   *)
(* transaction, and for ACM always request code 1.                         *)
Tag(e, n) == CASE e = "control" -> n
               [] e = "aks" -> Transaction(n)
               [] e = "acm" -> 1

Request(e, code, context) ==
    LET n == sent[e] + 1
    IN  [endpoint |-> e, id |-> n, tag |-> Tag(e, n), code |-> code,
         context |-> context]

(* Which reply ends the wait for request q.                                *)
Answers(r, q) ==
    /\ r.endpoint = q.endpoint
    /\ r.tag = q.tag
    /\ q.endpoint = "aks" => r.code = q.code

(* t2_sep_send: clear the endpoint's buffers and post the message.         *)
Post(who, q) ==
    /\ Free
    /\ sent' = [sent EXCEPT ![q.endpoint] = q.id]
    /\ body' = [body EXCEPT ![q.endpoint] = 0]
    /\ outbox' = [outbox EXCEPT ![q.endpoint] = Append(@, q)]
    /\ call' = [by |-> who, request |-> q, skipped |-> 0]
    /\ UNCHANGED <<inbox, sep, last>>

(* The outbox stays full for five seconds: nothing is posted, but an AKS   *)
(* request has already used up its transaction number.                     *)
SendTimesOut(q) ==
    /\ Free
    /\ sent' = IF q.endpoint = "aks"
               THEN [sent EXCEPT !["aks"] = q.id] ELSE sent
    /\ body' = [body EXCEPT ![q.endpoint] = 0]
    /\ UNCHANGED <<call, outbox, inbox, sep, last>>

(* t2_acm_poison_locked                                                    *)
Poison(d) ==
    [d EXCEPT !.poisoned = TRUE, !.generation = @ + 1, !.context = NoContext]

(* Mutant: a create reply too short to hold a handle is just refused.      *)
MutReplyAction(q, r) ==
    CASE r.shape \in {"error", "short"} -> "accept"
      [] r.shape \notin {"error", "short"} /\ q.code = "create" -> "set"
      [] r.shape \notin {"error", "short"} /\ q.code = "delete" -> "clear"
      [] OTHER -> "accept"

(* t2_acm_reply_action: what an ACM reply does to the context on record.   *)
ReplyAction(q, r) ==
    CASE r.shape = "error" -> "accept"
      [] r.shape = "short" /\ q.code = "create" -> "poison"
      [] r.shape \notin {"error", "short"} /\ q.code = "create" -> "set"
      [] r.shape # "error" /\ q.code = "delete" -> "clear"
      [] OTHER -> "accept"

(* t2_acm_record_reply_locked                                              *)
RecordReply(d, q, r) ==
    LET action == ReplyAction(q, r)
    IN  CASE action = "poison" -> Poison(d)
          [] action = "set"    -> [d EXCEPT !.context = r.context]
          [] action = "clear"  -> [d EXCEPT !.context = NoContext]
          [] action = "accept" -> d

-----------------------------------------------------------------------------
(* The sequences of t2_acm_device.py.  Once the create reply gave a        *)
(* context, every way out passes through "delete"; before that, and when   *)
(* the delete fails, only closing the device is left.                      *)

AfterFailure(at) ==
    CASE at = "observe" -> "idle"
      [] at \in {"create", "delete"} -> "close"
      [] at \in {"preflight", "externalize", "bind", "final"} -> "delete"

AfterCreate(kind) == IF kind = "lifecycle" THEN "delete" ELSE "preflight"
AfterPreflight(kind) == IF kind = "policy" THEN "delete" ELSE "externalize"

(* Mutant: the final policy answer is parsed but not looked at.            *)
MutAfterReply(at, kind, r) ==
    CASE r.shape = "odd" -> "delete"
      [] r.shape \notin {"ok", "odd", "unbound"} -> AfterFailure(at)
      [] OTHER ->
           CASE at = "create" -> AfterCreate(kind)
             [] at = "preflight" -> AfterPreflight(kind)
             [] at = "externalize" -> "bind"
             [] at = "bind" -> "final"
             [] at = "final" -> "consumer"
             [] at = "delete" -> "close"
             [] at = "observe" -> "idle"

(* What a process does once exchange() returned reply r to it.             *)
AfterReply(at, kind, r) ==
    CASE r.shape = "odd" -> "delete"
      [] r.shape \notin {"ok", "odd", "unbound"} -> AfterFailure(at)
      [] OTHER ->
           CASE at = "create" -> AfterCreate(kind)
             [] at = "preflight" -> IF kind = "authorize" /\ r.satisfied
                                    THEN "delete" ELSE AfterPreflight(kind)
             [] at = "externalize" -> "bind"
             [] at = "bind" -> "final"
             [] at = "final" -> IF r.satisfied THEN "consumer" ELSE "delete"
             [] at = "delete" -> "close"
             [] at = "observe" -> "idle"

Goto(p, at) == proc' = [proc EXCEPT ![p].at = at]
Becomes(p, s) == proc' = [proc EXCEPT ![p] = s]

(* The command each step sends.                                            *)
Command(p) ==
    LET c == proc[p].context
    IN  CASE proc[p].at = "create"      -> Request("acm", "create", NoContext)
          [] proc[p].at = "preflight"   -> Request("acm", "policy", c)
          [] proc[p].at = "externalize" -> Request("acm", "externalize", c)
          [] proc[p].at = "bind"        -> Request("aks", "verify", c)
          [] proc[p].at = "final"       -> Request("acm", "policy", c)
          [] proc[p].at = "delete"      -> Request("acm", "delete", c)
          [] proc[p].at = "observe"     -> Request("aks", "state", NoContext)

Exchanging == {"create", "preflight", "externalize", "bind", "final",
               "delete", "observe"}
AksSteps == {"bind", "observe"}

(* t2_acm_validate_context_locked                                          *)
ContextAllowed(q) ==
    IF q.code = "create" THEN driver.context = NoContext
    ELSE driver.context # NoContext /\ driver.context = q.context

(* What t2_acm_ioctl and t2_aks_ioctl require before they send.            *)
Admitted(p) ==
    IF proc[p].at \in AksSteps
    THEN "aks" \in driver.nodes
    ELSE /\ proc[p].generation = driver.generation
         /\ ~ driver.poisoned
         /\ ContextAllowed(Command(p))

-----------------------------------------------------------------------------
(* t2_sep_probe                                                            *)

(* A registration or the negotiation failed.  Before the first             *)
(* registration was acknowledged the buffers are freed; afterwards they    *)
(* are kept, and no device is offered until the next boot.                 *)
ProbeFails(d) ==
    IF d.acked = 0 THEN [d EXCEPT !.stage = "off", !.freed = TRUE]
    ELSE [d EXCEPT !.stage = "off", !.pinned = TRUE]

ProbeSucceeds(d) ==
    CASE d.stage = "negotiate" -> [d EXCEPT !.stage = "expose"]
      [] d.stage = "register" /\ d.acked + 1 < Tags ->
           [d EXCEPT !.acked = @ + 1]
      [] d.stage = "register" /\ d.acked + 1 = Tags ->
           [d EXCEPT !.acked = @ + 1, !.pinned = TRUE,
                     !.generation = IF RegisterAcm THEN 1 ELSE 0,
                     !.stage = IF ProbeCapabilities THEN "negotiate"
                               ELSE "expose"]

ProbeRequest ==
    IF driver.stage = "register"
    THEN Request("control", "register", NoContext)
    ELSE Request("aks", "capabilities", NoContext)

ProbeSends ==
    /\ driver.stage \in {"register", "negotiate"}
    /\ \/ Post("probe", ProbeRequest) /\ UNCHANGED driver
       \/ SendTimesOut(ProbeRequest) /\ driver' = ProbeFails(driver)
    /\ UNCHANGED <<proc, begun>>

(* misc_register of the device nodes; a failure is only logged.            *)
Expose ==
    /\ driver.stage = "expose"
    /\ \E nodes \in SUBSET (IF RegisterAcm THEN {"aks", "acm"} ELSE {"aks"}) :
         driver' = [driver EXCEPT !.stage = "ready", !.nodes = nodes]
    /\ UNCHANGED <<call, proc, sent, outbox, inbox, body, sep, last, begun>>

-----------------------------------------------------------------------------
(* The processes.                                                          *)

(* One AKS request outside a session (t2-aks-tool, the observer).          *)
BeginObservation(p) ==
    /\ p \in AksUsers
    /\ proc[p].at = "idle" /\ "aks" \in driver.nodes
    /\ begun.observations < MaxObservations
    /\ begun' = [begun EXCEPT !.observations = @ + 1]
    /\ Goto(p, "observe")
    /\ UNCHANGED <<driver, call, sent, outbox, inbox, body, sep, last>>

(* t2_acm_open: one opener at a time, a second one gets EBUSY.             *)
Open(p) ==
    /\ p \in AcmUsers
    /\ proc[p].at = "idle" /\ "acm" \in driver.nodes
    /\ begun.sessions < MaxSessions
    /\ begun' = [begun EXCEPT !.sessions = @ + 1]
    /\ \E kind \in KindsOf(p) :
         \/ /\ driver.opened = "nobody"
            /\ driver' = [driver EXCEPT !.opened = p]
            /\ Becomes(p, Holding("info", kind, proc[p].generation, proc[p].context))
         \/ driver.opened # "nobody" /\ UNCHANGED <<driver, proc>>
    /\ UNCHANGED <<call, sent, outbox, inbox, body, sep, last>>

(* ACMDevice.__init__: GET_INFO; a poisoned endpoint is refused.           *)
GetInfo(p) ==
    /\ proc[p].at = "info" /\ Free
    /\ Becomes(p, Holding(IF driver.poisoned THEN "close" ELSE "create", proc[p].kind,
                          driver.generation, proc[p].context))
    /\ UNCHANGED <<driver, call, sent, outbox, inbox, body, sep, last, begun>>

(* The ioctl takes the lock, passes the checks and posts the request.      *)
Send(p) ==
    /\ proc[p].at \in Exchanging
    /\ Admitted(p)
    /\ \/ Post(p, Command(p)) /\ UNCHANGED proc
       \/ SendTimesOut(Command(p)) /\ Goto(p, AfterFailure(proc[p].at))
    /\ UNCHANGED <<driver, begun>>

(* The ioctl returns an error before it sends anything: ESTALE, ESHUTDOWN, *)
(* EBUSY, EACCES, a missing device, or a signal while it waits.            *)
Refused(p) ==
    /\ proc[p].at \in Exchanging
    /\ \/ Free /\ ~ Admitted(p)
       \/ ~ Free /\ call.by # p
    /\ Goto(p, AfterFailure(proc[p].at))
    /\ UNCHANGED <<driver, call, sent, outbox, inbox, body, sep, last, begun>>

(* The trusted consumer uses the authorised context.                       *)
Consume(p) ==
    /\ proc[p].at = "consumer"
    /\ Goto(p, "delete")
    /\ UNCHANGED <<driver, call, sent, outbox, inbox, body, sep, last, begun>>

(* The process ends between two calls; the kernel closes its device.       *)
Killed(p) ==
    /\ proc[p].at \in (Exchanging \ {"observe"}) \cup {"info", "consumer"}
    /\ call.by # p
    /\ Goto(p, "close")
    /\ UNCHANGED <<driver, call, sent, outbox, inbox, body, sep, last, begun>>

(* t2_acm_release: delete the context on record, or poison the endpoint.   *)
CleanupNeeded == driver.context # NoContext /\ ~ driver.poisoned
Cleanup == Request("acm", "delete", driver.context)
Closed(d) == [d EXCEPT !.opened = "nobody"]
Forgotten(p) == Becomes(p, Resting)

Release(p) ==
    /\ proc[p].at = "close" /\ Free
    /\ \/ /\ CleanupNeeded
          /\ Post(p, Cleanup)
          /\ UNCHANGED <<driver, proc>>
       \/ /\ CleanupNeeded
          /\ SendTimesOut(Cleanup)
          /\ driver' = Closed(Poison(driver)) /\ Forgotten(p)
       \/ /\ ~ CleanupNeeded
          /\ driver' = Closed(driver) /\ Forgotten(p)
          /\ UNCHANGED <<call, sent, outbox, inbox, body, sep, last>>
    /\ UNCHANGED begun

-----------------------------------------------------------------------------
(* The end of an exchange.                                                 *)

(* Mutant: an ACM exchange given up leaves the endpoint in use.            *)
MutPoisonIfAcm(d) == d

(* Mutant: the wait starts over instead of failing.                        *)
MutGiveUp == UNCHANGED <<call, driver, proc>>

(* No reply was accepted: a receive timeout, or too many skipped.          *)
PoisonIfAcm(d) ==
    IF call.request.endpoint = "acm" THEN Poison(d) ELSE d

GiveUp ==
    /\ call' = NoCall
    /\ IF call.by = "probe"
       THEN driver' = ProbeFails(driver) /\ UNCHANGED proc
       ELSE IF proc[call.by].at = "close"
       THEN driver' = Closed(Poison(driver)) /\ Forgotten(call.by)
       ELSE driver' = PoisonIfAcm(driver)
            /\ Goto(call.by, AfterFailure(proc[call.by].at))

(* Reply r was accepted for the request of the call.                       *)
Complete(r) ==
    LET q == call.request
        p == call.by
        recorded == IF r.shape = "oversize" THEN Poison(driver)
                    ELSE RecordReply(driver, q, r)
    IN  /\ call' = NoCall
        /\ last' = [endpoint |-> q.endpoint, behind |-> q.id - r.id,
                    bodyBehind |-> q.id - body[q.endpoint]]
        /\ CASE p = "probe" ->
                  /\ driver' = IF r.shape = "ok" THEN ProbeSucceeds(driver)
                               ELSE ProbeFails(driver)
                  /\ UNCHANGED proc
             [] p \in Procs /\ proc[p].at = "close" ->
                  /\ driver' = IF r.shape = "ok"
                               THEN Closed([driver EXCEPT !.context = NoContext])
                               ELSE Closed(Poison(driver))
                  /\ Forgotten(p)
             [] p \in Procs /\ proc[p].at # "close" ->
                  /\ driver' = IF q.endpoint = "acm" THEN recorded ELSE driver
                  /\ Becomes(p, Holding(AfterReply(proc[p].at, proc[p].kind, r),
                       proc[p].kind, proc[p].generation,
                       IF q.code = "create" THEN r.context ELSE proc[p].context))

(* t2_sep_receive pops the next message.                                   *)
Receive ==
    /\ ~ Free /\ inbox # <<>>
    /\ inbox' = Tail(inbox)
    /\ \/ Answers(Head(inbox), call.request) /\ Complete(Head(inbox))
       \/ /\ ~ Answers(Head(inbox), call.request)
          /\ call.skipped + 1 < MaxSkipped
          /\ call' = [call EXCEPT !.skipped = @ + 1]
          /\ UNCHANGED <<driver, proc, last>>
       \/ /\ ~ Answers(Head(inbox), call.request)
          /\ call.skipped + 1 = MaxSkipped
          /\ GiveUp /\ UNCHANGED last
    /\ UNCHANGED <<sent, outbox, body, sep, begun>>

(* Five seconds pass with an empty inbox.                                  *)
ReceiveTimesOut ==
    /\ ~ Free /\ inbox = <<>>
    /\ GiveUp
    /\ UNCHANGED <<sent, outbox, inbox, body, sep, last, begun>>

-----------------------------------------------------------------------------
(* The Secure Enclave.                                                     *)

(* The answers it may give: an error changes nothing there, anything else  *)
(* means that the command was carried out.  A password may be verified     *)
(* without being bound to the context, which the final policy check sees.  *)
ShapesOf(q) ==
    CASE q.endpoint = "acm" /\ q.code = "create" ->
           {"ok", "error", "short", "long", "odd", "oversize"}
      [] q.endpoint = "acm" /\ q.code # "create" -> {"ok", "error", "long", "oversize"}
      [] q.code = "verify" -> {"ok", "error", "unbound"}
      [] q.endpoint # "acm" /\ q.code # "verify" -> {"ok", "error"}

CarryOut(q) ==
    CASE q.code = "register"    -> [sep EXCEPT !.registered = @ \cup {q.tag}]
      [] q.code = "create"      -> [sep EXCEPT !.live = @ \cup {q.id}]
      [] q.code = "delete"      -> [sep EXCEPT !.live = @ \ {q.context},
                                               !.bound = @ \ {q.context}]
      [] q.code = "verify"      -> [sep EXCEPT !.bound =
                                      @ \cup ({q.context} \cap sep.live)]
      [] q.code \in {"policy", "externalize", "state", "capabilities"} -> sep

EnclaveAnswers(e) ==
    /\ outbox[e] # <<>>
    /\ LET q == Head(outbox[e])
       IN  \E shape \in ShapesOf(q) :
             /\ sep' = IF shape \in {"error", "unbound"} THEN sep ELSE CarryOut(q)
             /\ inbox' = Append(inbox,
                  [endpoint |-> e, id |-> q.id, tag |-> q.tag, code |-> q.code,
                   shape |-> shape, satisfied |-> q.context \in sep.bound,
                   context |-> IF q.code = "create" THEN q.id ELSE q.context])
             /\ body' = [body EXCEPT ![e] = q.id]
    /\ outbox' = [outbox EXCEPT ![e] = Tail(@)]
    /\ UNCHANGED <<driver, call, proc, sent, last, begun>>

(* A message nobody asked for, from another endpoint.  One that comes      *)
(* between two exchanges has the effect of one that comes during the next, *)
(* and one that comes behind a queued reply that of one before it.         *)
EnclaveNotifies ==
    /\ ~ Free /\ inbox = <<>>
    /\ begun.notices < MaxNotices
    /\ begun' = [begun EXCEPT !.notices = @ + 1]
    /\ inbox' = Append(inbox, [endpoint |-> "other", id |-> 0])
    /\ UNCHANGED <<driver, call, proc, sent, outbox, body, sep, last>>

-----------------------------------------------------------------------------
Step(p) ==
    \/ BeginObservation(p) \/ Open(p) \/ GetInfo(p) \/ Send(p) \/ Refused(p)
    \/ Consume(p) \/ Killed(p) \/ Release(p)

Driver == ProbeSends \/ Expose \/ Receive \/ ReceiveTimesOut

Enclave == EnclaveNotifies \/ \E e \in Endpoints : EnclaveAnswers(e)

Host == Driver \/ \E p \in Procs : Step(p)

Next == Host \/ Enclave

(* The host goes on: while the driver or a process can take a step, one of *)
(* them does.  The enclave promises nothing, which is why every wait of    *)
(* the driver is bounded.                                                  *)
Spec == Init /\ [][Next]_vars
FairSpec == Spec /\ WF_vars(Host)

-----------------------------------------------------------------------------
(* Properties.                                                             *)

(* A caller is never handed the answer to another request, neither its     *)
(* mailbox reply nor the body in the shared buffer.  For ACM, whose        *)
(* replies carry no number, that is what poisoning is for; for AKS it      *)
(* holds as long as the reply is not a whole round of the transaction      *)
(* counter behind its request (matching loops of t2_aks_exchange_locked    *)
(* and t2_acm_exchange_locked).                                            *)
OwnReply ==
    \/ last.behind = 0 /\ last.bodyBehind = 0
    \/ last.endpoint = "aks" /\ last.behind >= Transactions

(* Between two exchanges of an endpoint that is not poisoned, the enclave  *)
(* holds exactly the context the driver has on record, and none once the   *)
(* device is closed: a context whose handle was lost always poisons        *)
(* (t2_acm_record_reply_locked, t2_acm_release).                           *)
ContextAccounted ==
    Free /\ ~ driver.poisoned =>
      /\ sep.live = {driver.context} \ {NoContext}
      /\ driver.opened = "nobody" => sep.live = {}

(* The consumer of with_authorized_context runs only while its own context *)
(* is live in the enclave with the password bound to it.                   *)
ConsumerAuthorized ==
    \A p \in Procs : proc[p].at = "consumer" =>
        proc[p].context \in sep.live \cap sep.bound

(* Every opened session and every request ends, and the lock is released,  *)
(* even when the enclave stops answering.                                  *)
SessionEnds == \A p \in Procs : proc[p].at # "idle" ~> proc[p].at = "idle"
=============================================================================
