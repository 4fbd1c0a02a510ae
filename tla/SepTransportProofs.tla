------------------------- MODULE SepTransportProofs -------------------------
(***************************************************************************)
(* Proofs about the mailbox driver.  The inductive invariant says what may *)
(* still be on its way on each endpoint, and what the enclave holds then:  *)
(*                                                                         *)
(*   Mail       each endpoint is answered in order, so a reply is older    *)
(*              than every request still in the outbox and than every      *)
(*              reply behind it, and nothing is newer than the request of  *)
(*              the exchange under way;                                    *)
(*   Sessions   one process at a time is between open and release;         *)
(*   Calling    the request of an exchange is that of its caller's step;   *)
(*   Quiet      without an ACM exchange, an endpoint that is not poisoned  *)
(*              has no ACM request or reply outstanding, and the enclave   *)
(*              holds exactly the context on record;                       *)
(*   Waiting    during one, its request is the only ACM message on its     *)
(*              way, or its reply is, with the effect the request had;     *)
(*   Consuming  a consumer's context is bound.                             *)
(*                                                                         *)
(* An ACM reply carries no number.  That it answers the request it is      *)
(* taken for follows from Quiet and Waiting: whatever leaves an answer     *)
(* outstanding poisons the endpoint.                                       *)
(***************************************************************************)
EXTENDS SepTransport, TLAPS

(* The types of the driver, the processes and the messages.                *)

Codes == {"register", "create", "delete", "policy", "externalize", "verify", "state",
          "capabilities"}

CodesOf(e) ==
    CASE e = "control" -> {"register"}
      [] e = "aks" -> {"verify", "state", "capabilities"}
      [] e = "acm" -> {"create", "delete", "policy", "externalize"}

Shapes == {"ok", "error", "short", "long", "odd", "oversize", "unbound"}

Requests ==
    [endpoint : Endpoints, id : Nat, tag : Nat, code : Codes, context : Nat]

Replies ==
    [endpoint : Endpoints, id : Nat, tag : Nat, code : Codes, shape : Shapes,
     satisfied : BOOLEAN, context : Nat]

Notice == [endpoint |-> "other", id |-> 0]

Drivers ==
    [stage : {"register", "negotiate", "expose", "ready", "off"}, acked : Nat,
     pinned : BOOLEAN, freed : BOOLEAN, nodes : SUBSET {"aks", "acm"},
     opened : Procs \cup {"nobody"}, generation : Nat, poisoned : BOOLEAN, context : Nat]

Calls == [by : Procs \cup {"probe"}, request : Requests, skipped : Nat]

States ==
    [at : Exchanging \cup {"idle", "info", "consumer", "close"},
     kind : {"none", "authorize", "lifecycle", "policy"}, generation : Nat, context : Nat]

Types ==
    /\ driver \in Drivers
    /\ call = NoCall \/ call \in Calls
    /\ proc \in [Procs -> States]
    /\ sent \in [Endpoints -> Nat] /\ body \in [Endpoints -> Nat]
    /\ outbox \in [Endpoints -> Seq(Requests)]
    /\ inbox \in Seq(Replies \cup {Notice})
    /\ sep \in [registered : SUBSET Nat, live : SUBSET Nat, bound : SUBSET Nat]

(* The requests and replies of endpoint e carry numbers given out so far.  *)
Written(e, m) == m.id \in 1 .. sent[e] /\ m.tag = Tag(e, m.id) /\ m.code \in CodesOf(e)

Outbound ==
    \A e \in Endpoints :
        /\ \A i \in 1 .. Len(outbox[e]) : outbox[e][i].endpoint = e /\ Written(e, outbox[e][i])
        /\ \A i, j \in 1 .. Len(outbox[e]) : i < j => outbox[e][i].id < outbox[e][j].id

Inbound ==
    \A i \in 1 .. Len(inbox) : inbox[i] # Notice =>
        /\ Written(inbox[i].endpoint, inbox[i])
        /\ inbox[i].endpoint # "acm" => inbox[i].shape \in {"ok", "error", "unbound"}
        /\ inbox[i].code # "create" => inbox[i].shape \notin {"short", "odd"}
        /\ \A j \in 1 .. Len(outbox[inbox[i].endpoint]) :
              inbox[i].id < outbox[inbox[i].endpoint][j].id
        /\ \A j \in 1 .. i - 1 :
              inbox[j].endpoint = inbox[i].endpoint => inbox[j].id < inbox[i].id

(* The exchange under way is the latest of its endpoint, and the buffer    *)
(* holds its answer once the reply is in the inbox.                        *)
Current ==
    ~Free =>
        LET q == call.request
        IN  /\ q.id = sent[q.endpoint] /\ Written(q.endpoint, q)
            /\ \A i \in 1 .. Len(inbox) :
                 inbox[i].endpoint = q.endpoint /\ inbox[i].id = q.id => body[q.endpoint] = q.id

Mail == Outbound /\ Inbound /\ Current

Sessions ==
    /\ \A p \in Procs : proc[p].at \notin {"idle", "observe"} => driver.opened = p
    /\ driver.opened = "nobody" \/ driver.poisoned => driver.context = 0
    /\ driver.stage = "register" => driver.acked < Tags

(* The command that goes with a step of a process.                         *)
CodeAt(at) ==
    CASE at \in {"preflight", "final"} -> "policy"
      [] at = "bind" -> "verify"
      [] at = "observe" -> "state"
      [] at = "close" -> "delete"
      [] OTHER -> at

Calling ==
    ~Free =>
        /\ call.by = "probe" =>
             call.request.endpoint # "acm" /\ driver.stage \in {"register", "negotiate"}
        /\ call.by \in Procs =>
             /\ proc[call.by].at \in Exchanging \cup {"close"}
             /\ call.request.code = CodeAt(proc[call.by].at)
             /\ proc[call.by].at \notin {"create", "close", "observe"} =>
                  call.request.context = proc[call.by].context

AcmCall == ~Free /\ call.request.endpoint = "acm"

NoAcm == \A i \in 1 .. Len(inbox) : inbox[i].endpoint # "acm"

OnRecord == sep.live = {driver.context} \ {0}

Quiet == ~driver.poisoned /\ ~AcmCall => outbox["acm"] = <<>> /\ NoAcm /\ OnRecord

(* Reply r is the one to request q, and the enclave holds what r says.     *)
Outcome(q, r) ==
    /\ r.id = q.id /\ r.code = q.code
    /\ r.satisfied /\ q.code = "policy" => q.context \in sep.bound
    /\ IF r.shape = "error" \/ q.code \in {"policy", "externalize"} THEN OnRecord
       ELSE IF q.code = "create" THEN sep.live = {q.id} /\ r.context = q.id
       ELSE sep.live = {}

Waiting ==
    AcmCall =>
        LET q == call.request
        IN  /\ ~driver.poisoned
            /\ IF q.code = "create" THEN driver.context = 0
               ELSE driver.context = q.context /\ q.context # 0
            /\ \/ outbox["acm"] = <<q>> /\ NoAcm /\ OnRecord
               \/ /\ outbox["acm"] = <<>>
                  /\ \A i \in 1 .. Len(inbox) :
                       inbox[i].endpoint = "acm" => Outcome(q, inbox[i])

Consuming ==
    /\ sep.bound \subseteq sep.live
    /\ \A p \in Procs : proc[p].at = "consumer" =>
         ~driver.poisoned /\ proc[p].context \in sep.bound

Inv == Types /\ Mail /\ Sessions /\ Calling /\ Quiet /\ Waiting /\ Consuming /\ OwnReply

-----------------------------------------------------------------------------
(* Operators. *)

LEMMA Division ==
  ASSUME NEW T \in Nat \ {0}, NEW a \in Nat
  PROVE  a \div T \in Nat /\ a % T \in 0 .. T - 1 /\ a = (a \div T) * T + (a % T)
  BY SMTT(20)

(* Two numbers with the same remainder are a whole round apart. *)
LEMMA Round ==
  ASSUME NEW T \in Nat \ {0}, NEW a \in Nat, NEW b \in Nat, a <= b, a % T = b % T
  PROVE  a = b \/ b - a >= T
<1> DEFINE m == a % T
<1>1. PICK k \in Nat, l \in Nat : a = k * T + m /\ b = l * T + m
  <2>1. a \div T \in Nat /\ a = (a \div T) * T + m
    BY Division
  <2>2. b \div T \in Nat /\ b = (b \div T) * T + m
    BY Division
  <2> QED
    BY <2>1, <2>2
<1>2. m \in Nat
  BY Division
<1> HIDE DEF m
<1>3. CASE k = l
  BY <1>1, <1>2, <1>3
<1>4. CASE k < l
  <2>1. PICK d \in Nat : l = k + 1 + d
    <3>1. l - k - 1 \in Nat /\ l = k + 1 + (l - k - 1)
      BY <1>4
    <3> QED
      BY <3>1
  <2>2. l * T = k * T + T + d * T /\ d * T \in Nat /\ k * T \in Nat
    BY <2>1
  <2> QED
    BY <1>1, <1>2, <2>2
<1>5. CASE l < k
  <2>1. PICK d \in Nat : k = l + 1 + d
    <3>1. k - l - 1 \in Nat /\ k = l + 1 + (k - l - 1)
      BY <1>5
    <3> QED
      BY <3>1
  <2>2. k * T = l * T + T + d * T /\ d * T \in Nat /\ l * T \in Nat
    BY <2>1
  <2> QED
    BY <1>1, <1>2, <2>2
<1> QED
  BY <1>3, <1>4, <1>5

LEMMA TagNat ==
  ASSUME NEW e \in Endpoints, NEW n \in Nat \ {0}
  PROVE  Tag(e, n) \in Nat
<1>1. n - 1 \in Nat /\ Transactions \in Nat \ {0}
  BY Bounds
<1>2. (n - 1) % Transactions \in 0 .. Transactions - 1
  BY <1>1, Division
<1> QED
  BY <1>1, <1>2 DEF Tag, Transaction, Endpoints

LEMMA PoisonIs ==
  ASSUME NEW d \in Drivers
  PROVE  /\ Poison(d) \in Drivers /\ Poison(d).poisoned /\ Poison(d).context = 0
         /\ Poison(d).opened = d.opened /\ Poison(d).stage = d.stage
         /\ Poison(d).acked = d.acked
<1>1. ASSUME NEW n \in Nat, NEW x,
             x = [d EXCEPT !.poisoned = TRUE, !.generation = n, !.context = 0]
      PROVE  /\ x \in Drivers /\ x.poisoned /\ x.context = 0
             /\ x.opened = d.opened /\ x.stage = d.stage /\ x.acked = d.acked
  BY <1>1 DEF Drivers
<1>2. d.generation + 1 \in Nat
  BY DEF Drivers
<1>3. Poison(d) = [d EXCEPT !.poisoned = TRUE, !.generation = d.generation + 1, !.context = 0]
  BY Zenon DEF Poison, NoContext
<1> QED
  BY <1>1, <1>2, <1>3

LEMMA ClosedIs ==
  ASSUME NEW d \in Drivers
  PROVE  /\ Closed(d) \in Drivers /\ Closed(d).opened = "nobody"
         /\ Closed(d).poisoned = d.poisoned /\ Closed(d).context = d.context
         /\ Closed(d).stage = d.stage /\ Closed(d).acked = d.acked
  BY DEF Closed, Drivers

LEMMA ProbeFailsIs ==
  ASSUME NEW d \in Drivers
  PROVE  /\ ProbeFails(d) \in Drivers /\ ProbeFails(d).opened = d.opened
         /\ ProbeFails(d).poisoned = d.poisoned /\ ProbeFails(d).context = d.context
         /\ ProbeFails(d).stage = "off"
  BY DEF ProbeFails, Drivers

LEMMA ProbeSucceedsIs ==
  ASSUME NEW d \in Drivers, d.stage \in {"register", "negotiate"},
         d.stage = "register" => d.acked < Tags
  PROVE  /\ ProbeSucceeds(d) \in Drivers /\ ProbeSucceeds(d).opened = d.opened
         /\ ProbeSucceeds(d).poisoned = d.poisoned
         /\ ProbeSucceeds(d).context = d.context
         /\ ProbeSucceeds(d).stage = "register" => ProbeSucceeds(d).acked < Tags
<1>1. Tags \in Nat /\ d.acked \in Nat
  BY DEF Tags, Drivers
<1>2. CASE d.stage = "negotiate"
  <2>1. ProbeSucceeds(d) = [d EXCEPT !.stage = "expose"]
    BY <1>2 DEF ProbeSucceeds
  <2> QED
    BY <2>1 DEF Drivers
<1>3. CASE d.stage = "register" /\ d.acked + 1 < Tags
  <2>1. ProbeSucceeds(d) = [d EXCEPT !.acked = d.acked + 1]
    <3>1. d.stage # "negotiate" /\ d.acked + 1 # Tags
      BY <1>1, <1>3
    <3> QED
      BY <1>3, <3>1, Zenon DEF ProbeSucceeds
  <2> QED
    BY <1>1, <1>3, <2>1 DEF Drivers
<1>4. CASE d.stage = "register" /\ d.acked + 1 = Tags
  <2>1. PICK n \in Nat, g \in Nat, st \in {"negotiate", "expose"} :
          ProbeSucceeds(d) =
            [d EXCEPT !.acked = n, !.pinned = TRUE, !.generation = g, !.stage = st]
    <3> DEFINE g1 == IF RegisterAcm THEN 1 ELSE 0
               s1 == IF ProbeCapabilities THEN "negotiate" ELSE "expose"
    <3>1. ProbeSucceeds(d) =
            [d EXCEPT !.acked = d.acked + 1, !.pinned = TRUE, !.generation = g1, !.stage = s1]
      BY <1>1, <1>4 DEF ProbeSucceeds
    <3>2. d.acked + 1 \in Nat /\ g1 \in Nat /\ s1 \in {"negotiate", "expose"}
      BY <1>1
    <3> HIDE DEF g1, s1
    <3> QED
      BY <3>1, <3>2, Zenon
  <2>2. PICK x : x = ProbeSucceeds(d)
    OBVIOUS
  <2>3. /\ x \in Drivers /\ x.opened = d.opened /\ x.poisoned = d.poisoned
        /\ x.context = d.context /\ x.stage = st
    BY <2>1, <2>2 DEF Drivers
  <2> QED
    BY <2>2, <2>3
<1> QED
  BY <1>1, <1>2, <1>3, <1>4

-----------------------------------------------------------------------------
(* The mailbox. *)

LEMMA InitInv == Init => Inv
<1> SUFFICES ASSUME Init PROVE Inv
  OBVIOUS
<1>1. driver \in Drivers
  BY DEF Init, Drivers, NoContext
<1>2. proc \in [Procs -> States]
  BY DEF Init, States, NoContext, Resting, Holding
<1>3. Types
  BY <1>1, <1>2 DEF Init, Types
<1>4. Mail
  BY DEF Init, Mail, Outbound, Inbound, Current, Free
<1>5. Sessions
  BY DEF Init, Sessions, NoContext, Tags, Resting, Holding
<1>6. Calling /\ Quiet /\ Waiting
  BY DEF Init, Calling, Quiet, Waiting, AcmCall, Free, NoAcm, OnRecord, NoContext, Endpoints
<1>7. Consuming /\ OwnReply
  BY DEF Init, Consuming, OwnReply, Resting, Holding
<1> QED
  BY <1>3, <1>4, <1>5, <1>6, <1>7 DEF Inv

LEMMA RequestIs ==
  ASSUME Types, NEW e \in Endpoints, NEW code \in CodesOf(e), NEW c \in Nat
  PROVE  LET q == Request(e, code, c)
         IN  /\ q \in Requests /\ q.endpoint = e /\ q.id = sent[e] + 1
             /\ q.tag = Tag(e, sent[e] + 1) /\ q.code = code /\ q.context = c
<1>1. sent[e] + 1 \in Nat \ {0} /\ code \in Codes
  BY DEF Types, CodesOf, Codes, Endpoints
<1>2. Tag(e, sent[e] + 1) \in Nat
  BY <1>1, TagNat
<1> QED
  BY <1>1, <1>2 DEF Request, Requests

(* The lock is held by a call with its request, or by nobody. *)
LEMMA FreeCall ==
  ASSUME Types
  PROVE  /\ ~Free <=> call \in Calls
         /\ Free => call.by \notin Procs \cup {"probe"}
  BY Bounds DEF Types, Free, NoCall, Calls

(* A request is posted behind those of its endpoint. *)
LEMMA PostMail ==
  ASSUME Types, Mail, NEW who \in Procs \cup {"probe"}, NEW e \in Endpoints,
         NEW q \in Requests, q.endpoint = e, q.id = sent[e] + 1, q.tag = Tag(e, q.id),
         q.code \in CodesOf(e), Post(who, q)
  PROVE  /\ Mail'
         /\ call' \in Calls /\ call'.by = who /\ call'.request = q /\ ~Free'
         /\ sent' \in [Endpoints -> Nat] /\ body' \in [Endpoints -> Nat]
         /\ outbox' \in [Endpoints -> Seq(Requests)]
         /\ outbox'[e] = Append(outbox[e], q)
         /\ \A f \in Endpoints : f # e => outbox'[f] = outbox[f]
<1>1. /\ call' \in Calls /\ call'.by = who /\ call'.request = q
      /\ sent' \in [Endpoints -> Nat] /\ body' \in [Endpoints -> Nat]
      /\ outbox' \in [Endpoints -> Seq(Requests)]
      /\ outbox'[e] = Append(outbox[e], q)
      /\ \A f \in Endpoints : f # e => outbox'[f] = outbox[f]
      /\ sent'[e] = sent[e] + 1
      /\ \A f \in Endpoints : f # e => sent'[f] = sent[f]
      /\ inbox' = inbox
  <2>1. /\ sent \in [Endpoints -> Nat] /\ body \in [Endpoints -> Nat]
        /\ outbox \in [Endpoints -> Seq(Requests)]
    BY DEF Types
  <2>2. /\ sent' = [sent EXCEPT ![e] = sent[e] + 1] /\ body' = [body EXCEPT ![e] = 0]
        /\ outbox' = [outbox EXCEPT ![e] = Append(outbox[e], q)] /\ inbox' = inbox
        /\ call' = [by |-> who, request |-> q, skipped |-> 0]
    BY DEF Post
  <2>3. Append(outbox[e], q) \in Seq(Requests)
    BY <2>1
  <2>4. call' \in Calls /\ call'.by = who /\ call'.request = q
    BY <2>2 DEF Calls
  <2>5. /\ sent' \in [Endpoints -> Nat] /\ sent'[e] = sent[e] + 1
        /\ \A f \in Endpoints : f # e => sent'[f] = sent[f]
    BY <2>1, <2>2
  <2>6. body' \in [Endpoints -> Nat]
    BY <2>1, <2>2
  <2> QED
    BY <2>1, <2>2, <2>3, <2>4, <2>5, <2>6
<1>2. call' # NoCall
  BY <1>1, Bounds DEF NoCall, Calls
<1>3. ASSUME NEW f \in Endpoints
      PROVE  sent[f] \in Nat /\ sent'[f] \in Nat /\ sent[f] <= sent'[f]
  <2>1. sent[f] \in Nat
    BY DEF Types
  <2>2. CASE f = e
    BY <1>1, <2>1, <2>2
  <2>3. CASE f # e
    BY <1>1, <2>1, <2>3
  <2> QED
    BY <2>2, <2>3
<1>4. \A f \in Endpoints : \A m : Written(f, m) => Written(f, m)'
  BY <1>3 DEF Written
<1>5. Written(e, q)'
  BY <1>1, <1>3 DEF Written
<1>6. Outbound'
  <2> SUFFICES ASSUME NEW f \in Endpoints
               PROVE  /\ \A i \in 1 .. Len(outbox'[f]) :
                           outbox'[f][i].endpoint = f /\ Written(f, outbox[f][i])'
                      /\ \A i, j \in 1 .. Len(outbox'[f]) :
                           i < j => outbox'[f][i].id < outbox'[f][j].id
    BY DEF Outbound
  <2>1. CASE f # e
    <3>1. outbox'[f] = outbox[f]
      BY <1>1, <2>1
    <3> QED
      BY <3>1, <1>4 DEF Mail, Outbound
  <2>2. CASE f = e
    <3> DEFINE s == outbox[e]
               n == Len(s)
    <3>1. s \in Seq(Requests) /\ n \in Nat
      BY DEF Types
    <3>2. /\ Len(outbox'[e]) = n + 1 /\ outbox'[e][n + 1] = q
          /\ \A i \in 1 .. n : outbox'[e][i] = s[i]
      BY <1>1, <3>1
    <3>3. \A i \in 1 .. n : s[i].endpoint = e /\ Written(e, s[i]) /\ s[i].id <= sent[e]
      BY DEF Mail, Outbound, Written
    <3>4. \A i, j \in 1 .. n : i < j => s[i].id < s[j].id
      BY DEF Mail, Outbound
    <3>5. \A i \in 1 .. n : s[i].id \in Nat
      <4>1. \A i \in 1 .. n : s[i] \in Requests
        BY <3>1
      <4> QED
        BY <4>1 DEF Requests
    <3> HIDE DEF s, n
    <3>6. \A i \in 1 .. n + 1 : outbox'[e][i].endpoint = e /\ Written(e, outbox[e][i])'
      <4> SUFFICES ASSUME NEW i \in 1 .. n + 1
                   PROVE  outbox'[e][i].endpoint = e /\ Written(e, outbox[e][i])'
        OBVIOUS
      <4>1. CASE i = n + 1
        BY <3>2, <4>1, <1>5 DEF Written
      <4>2. CASE i \in 1 .. n
        BY <3>2, <3>3, <4>2, <1>4 DEF Written
      <4> QED
        BY <3>1, <4>1, <4>2
    <3>7. \A i, j \in 1 .. n + 1 : i < j => outbox'[e][i].id < outbox'[e][j].id
      <4> SUFFICES ASSUME NEW i \in 1 .. n + 1, NEW j \in 1 .. n + 1, i < j
                   PROVE  outbox'[e][i].id < outbox'[e][j].id
        OBVIOUS
      <4>1. i \in 1 .. n /\ outbox'[e][i] = s[i]
        BY <3>1, <3>2
      <4>2. CASE j = n + 1
        BY <4>1, <4>2, <3>2, <3>3, <3>5, <1>3
      <4>3. CASE j \in 1 .. n
        BY <4>1, <4>3, <3>2, <3>4
      <4> QED
        BY <3>1, <4>2, <4>3
    <3> QED
      BY <2>2, <3>2, <3>6, <3>7
  <2> QED
    BY <2>1, <2>2
<1>7. Inbound'
  <2> SUFFICES ASSUME NEW i \in 1 .. Len(inbox), inbox[i] # Notice
               PROVE  /\ Written(inbox[i].endpoint, inbox[i])'
                      /\ inbox[i].endpoint # "acm" =>
                           inbox[i].shape \in {"ok", "error", "unbound"}
                      /\ inbox[i].code # "create" =>
                           inbox[i].shape \notin {"short", "odd"}
                      /\ \A j \in 1 .. Len(outbox'[inbox[i].endpoint]) :
                           inbox[i].id < outbox'[inbox[i].endpoint][j].id
                      /\ \A j \in 1 .. i - 1 :
                           inbox[j].endpoint = inbox[i].endpoint => inbox[j].id < inbox[i].id
    BY <1>1 DEF Inbound
  <2>1. inbox[i] \in Replies
    BY DEF Types
  <2> DEFINE f == inbox[i].endpoint
  <2>2. f \in Endpoints /\ inbox[i].id \in Nat
    BY <2>1 DEF Replies
  <2>3. Written(f, inbox[i]) /\ inbox[i].id <= sent[f]
    BY DEF Mail, Inbound, Written
  <2>4. \A j \in 1 .. Len(outbox'[f]) : inbox[i].id < outbox'[f][j].id
    <3>1. \A j \in 1 .. Len(outbox[f]) : inbox[i].id < outbox[f][j].id
      BY DEF Mail, Inbound
    <3>2. CASE f # e
      BY <3>1, <3>2, <2>2, <1>1
    <3>3. CASE f = e
      <4>1. outbox[e] \in Seq(Requests)
        BY DEF Types
      <4>2. \A j \in 1 .. Len(outbox'[e]) :
              outbox'[e][j] = q \/ (j \in 1 .. Len(outbox[e]) /\ outbox'[e][j] = outbox[e][j])
        BY <4>1, <1>1
      <4>3. inbox[i].id < q.id
        BY <2>2, <2>3, <3>3, <1>3
      <4> QED
        BY <3>1, <3>3, <4>2, <4>3
    <3> QED
      BY <3>2, <3>3
  <2>5. Written(f, inbox[i])'
    BY <2>2, <2>3, <1>4, <1>1 DEF Written
  <2> QED
    BY <2>4, <2>5 DEF Mail, Inbound
<1>8. Current'
  <2>1. q.id = sent'[e]
    BY <1>1
  <2>2. ASSUME NEW i \in 1 .. Len(inbox), inbox[i].endpoint = e PROVE inbox[i].id # q.id
    <3>1. inbox[i] # Notice /\ inbox[i] \in Replies
      BY <2>2 DEF Notice, Endpoints, Types
    <3>2. inbox[i].id <= sent[e] /\ inbox[i].id \in Nat
      BY <2>2, <3>1 DEF Mail, Inbound, Written, Replies
    <3> QED
      BY <3>2, <1>3
  <2> QED
    BY <1>1, <1>5, <2>1, <2>2 DEF Current
<1> QED
  BY <1>1, <1>2, <1>6, <1>7, <1>8 DEF Mail, Free

(* Nothing was posted, but a transaction number may be used up. *)
LEMMA TimeoutMail ==
  ASSUME Types, Mail, NEW e \in Endpoints, NEW q \in Requests, q.endpoint = e,
         q.id = sent[e] + 1, SendTimesOut(q)
  PROVE  /\ Mail' /\ Free'
         /\ sent' \in [Endpoints -> Nat] /\ body' \in [Endpoints -> Nat]
<1>1. /\ sent \in [Endpoints -> Nat] /\ body \in [Endpoints -> Nat]
      /\ call' = call /\ Free /\ inbox' = inbox /\ outbox' = outbox
  BY DEF Types, SendTimesOut
<1>2. sent' = sent \/ sent' = [sent EXCEPT ![e] = sent[e] + 1]
  BY DEF SendTimesOut
<1>3. body' \in [Endpoints -> Nat]
  BY <1>1 DEF SendTimesOut
<1>4. /\ sent' \in [Endpoints -> Nat]
      /\ \A f \in Endpoints : sent[f] <= sent'[f]
  BY <1>1, <1>2
<1>5. \A f \in Endpoints : \A m : Written(f, m) => Written(f, m)'
  BY <1>1, <1>4 DEF Written
<1>6. Outbound'
  BY <1>1, <1>5 DEF Mail, Outbound
<1>7. Inbound'
  <2>1. \A i \in 1 .. Len(inbox) : inbox[i] # Notice => inbox[i].endpoint \in Endpoints
    BY DEF Types, Replies
  <2> QED
    BY <1>1, <1>5, <2>1 DEF Mail, Inbound
<1>8. Free' /\ Current'
  BY <1>1 DEF Free, Current
<1> QED
  BY <1>3, <1>4, <1>6, <1>7, <1>8 DEF Mail

(* A message is popped; the exchange goes on or is over. *)
LEMMA ReceiveMail ==
  ASSUME Types, Mail, ~Free, inbox # <<>>, inbox' = Tail(inbox),
         UNCHANGED <<sent, outbox, body>>,
         call' = NoCall \/ call'.request = call.request
  PROVE  Mail' /\ inbox' \in Seq(Replies \cup {Notice})
<1>1. inbox \in Seq(Replies \cup {Notice})
  BY DEF Types
<1>2. /\ Len(inbox') = Len(inbox) - 1 /\ Len(inbox) \in Nat \ {0}
      /\ \A i \in 1 .. Len(inbox') : i + 1 \in 1 .. Len(inbox) /\ inbox'[i] = inbox[i + 1]
      /\ inbox' \in Seq(Replies \cup {Notice})
  BY <1>1
<1>3. Outbound'
  BY DEF Mail, Outbound, Written
<1>4. Inbound'
  <2> SUFFICES ASSUME NEW i \in 1 .. Len(inbox'), inbox'[i] # Notice
               PROVE  /\ Written(inbox[i].endpoint, inbox[i])'
                      /\ inbox'[i].endpoint # "acm" =>
                           inbox'[i].shape \in {"ok", "error", "unbound"}
                      /\ inbox'[i].code # "create" =>
                           inbox'[i].shape \notin {"short", "odd"}
                      /\ \A j \in 1 .. Len(outbox'[inbox'[i].endpoint]) :
                           inbox'[i].id < outbox'[inbox'[i].endpoint][j].id
                      /\ \A j \in 1 .. i - 1 :
                           inbox'[j].endpoint = inbox'[i].endpoint =>
                               inbox'[j].id < inbox'[i].id
    BY DEF Inbound
  <2>1. PICK k \in 1 .. Len(inbox) : k = i + 1 /\ inbox'[i] = inbox[k]
    BY <1>2
  <2>2. /\ Written(inbox[k].endpoint, inbox[k])
        /\ inbox[k].endpoint # "acm" => inbox[k].shape \in {"ok", "error", "unbound"}
        /\ inbox[k].code # "create" => inbox[k].shape \notin {"short", "odd"}
        /\ \A j \in 1 .. Len(outbox[inbox[k].endpoint]) :
              inbox[k].id < outbox[inbox[k].endpoint][j].id
        /\ \A j \in 1 .. k - 1 :
              inbox[j].endpoint = inbox[k].endpoint => inbox[j].id < inbox[k].id
    BY <2>1 DEF Mail, Inbound
  <2>3. \A j \in 1 .. i - 1 : j + 1 \in 1 .. k - 1 /\ inbox'[j] = inbox[j + 1]
    BY <1>2, <2>1
  <2>4. Written(inbox[i].endpoint, inbox[i])'
    BY <2>1, <2>2 DEF Written
  <2> QED
    BY <2>1, <2>2, <2>3, <2>4
<1>5. Current'
  BY <1>2 DEF Mail, Current, Free, Written
<1> QED
  BY <1>2, <1>3, <1>4, <1>5 DEF Mail

(* A message nobody asked for joins the inbox. *)
LEMMA NoticeMail ==
  ASSUME Types, Mail, inbox' = Append(inbox, Notice), UNCHANGED <<sent, outbox, body, call>>
  PROVE  Mail' /\ inbox' \in Seq(Replies \cup {Notice})
<1>1. inbox \in Seq(Replies \cup {Notice})
  BY DEF Types
<1>2. /\ Len(inbox') = Len(inbox) + 1 /\ Len(inbox) \in Nat
      /\ inbox'[Len(inbox) + 1] = Notice
      /\ \A i \in 1 .. Len(inbox) : inbox'[i] = inbox[i]
      /\ inbox' \in Seq(Replies \cup {Notice})
  BY <1>1
<1>3. Outbound'
  BY DEF Mail, Outbound, Written
<1>4. \A i \in 1 .. Len(inbox') : inbox'[i] = Notice \/ (i \in 1 .. Len(inbox) /\ inbox'[i] = inbox[i])
  BY <1>2
<1>5. Inbound'
  BY <1>2, <1>4 DEF Mail, Inbound, Written
<1>6. Current'
  <2>1. ~Free => call.request.endpoint \in Endpoints
    BY FreeCall DEF Calls, Requests
  <2>2. ~Free => call.request.endpoint # Notice.endpoint
    BY <2>1 DEF Endpoints, Notice
  <2> QED
    BY <1>4, <2>2 DEF Mail, Current, Free, Written
<1> QED
  BY <1>2, <1>3, <1>5, <1>6 DEF Mail

LEMMA SameMail ==
  ASSUME Mail, UNCHANGED <<sent, outbox, body, inbox>>, call' = call \/ call' = NoCall
  PROVE  Mail'
  BY DEF Mail, Outbound, Inbound, Current, Free, Written

(* The reply to the first request of an endpoint joins the inbox. *)
Reply(e, q, shape) ==
    [endpoint |-> e, id |-> q.id, tag |-> q.tag, code |-> q.code,
     shape |-> shape, satisfied |-> q.context \in sep.bound,
     context |-> IF q.code = "create" THEN q.id ELSE q.context]

LEMMA ReplyIs ==
  ASSUME NEW e \in Endpoints, NEW q \in Requests, NEW shape \in Shapes, NEW r,
         r = Reply(e, q, shape)
  PROVE  /\ r \in Replies /\ r.endpoint = e /\ r.id = q.id /\ r.tag = q.tag
         /\ r.code = q.code /\ r.shape = shape
         /\ r.satisfied = (q.context \in sep.bound)
         /\ q.code = "create" => r.context = q.id
<1>1. \E b \in BOOLEAN, c \in Nat :
        /\ b = (q.context \in sep.bound) /\ (q.code = "create" => c = q.id)
        /\ r = [endpoint |-> e, id |-> q.id, tag |-> q.tag, code |-> q.code,
                shape |-> shape, satisfied |-> b, context |-> c]
  <2>1. (IF q.code = "create" THEN q.id ELSE q.context) \in Nat
    BY DEF Requests
  <2>2. (q.context \in sep.bound) \in BOOLEAN
    OBVIOUS
  <2> QED
    BY <2>1, <2>2, Zenon DEF Reply
<1> QED
  BY <1>1 DEF Replies, Requests

LEMMA AnswersMail ==
  ASSUME Types, Mail, NEW e \in Endpoints, NEW shape \in Shapes, outbox[e] # <<>>,
         shape \in ShapesOf(Head(outbox[e])),
         inbox' = Append(inbox, Reply(e, Head(outbox[e]), shape)),
         body' = [body EXCEPT ![e] = Head(outbox[e]).id],
         outbox' = [outbox EXCEPT ![e] = Tail(outbox[e])],
         UNCHANGED <<sent, call>>
  PROVE  /\ Mail' /\ inbox' \in Seq(Replies \cup {Notice})
         /\ outbox' \in [Endpoints -> Seq(Requests)] /\ body' \in [Endpoints -> Nat]
<1> DEFINE s == outbox[e]
           q == Head(s)
<1>1. PICK r : r = Reply(e, q, shape)
  OBVIOUS
<1>2. /\ s \in Seq(Requests) /\ Len(s) \in Nat \ {0} /\ q = s[1] /\ 1 \in 1 .. Len(s)
      /\ q \in Requests /\ Tail(s) \in Seq(Requests) /\ Len(Tail(s)) = Len(s) - 1
      /\ \A i \in 1 .. Len(Tail(s)) : i + 1 \in 1 .. Len(s) /\ Tail(s)[i] = s[i + 1]
  BY DEF Types
<1>3. /\ r \in Replies /\ r.endpoint = e /\ r.id = q.id /\ r.tag = q.tag
      /\ r.code = q.code /\ r.shape = shape
  <2> HIDE DEF q
  <2> QED
    BY <1>1, <1>2, ReplyIs
<1>4. q.endpoint = e /\ Written(e, q)
  BY <1>2 DEF Mail, Outbound
<1>5. inbox \in Seq(Replies \cup {Notice}) /\ inbox' = Append(inbox, r)
  BY <1>1 DEF Types
<1>6. /\ inbox' \in Seq(Replies \cup {Notice}) /\ Len(inbox') = Len(inbox) + 1
      /\ Len(inbox) \in Nat /\ inbox'[Len(inbox) + 1] = r
      /\ \A i \in 1 .. Len(inbox) : inbox'[i] = inbox[i]
  BY <1>3, <1>5
<1>7. /\ outbox' \in [Endpoints -> Seq(Requests)] /\ outbox'[e] = Tail(s)
      /\ \A f \in Endpoints : f # e => outbox'[f] = outbox[f]
  BY <1>2 DEF Types
<1>8. body' \in [Endpoints -> Nat] /\ body'[e] = q.id
      /\ \A f \in Endpoints : f # e => body'[f] = body[f]
  BY <1>2 DEF Types, Requests
<1>9. \A i, j \in 1 .. Len(s) : i < j => s[i].id < s[j].id
  BY DEF Mail, Outbound
<1> HIDE DEF s, q
<1>10. Outbound'
  <2> SUFFICES ASSUME NEW f \in Endpoints
               PROVE  /\ \A i \in 1 .. Len(outbox'[f]) :
                           outbox'[f][i].endpoint = f /\ Written(f, outbox[f][i])'
                      /\ \A i, j \in 1 .. Len(outbox'[f]) :
                           i < j => outbox'[f][i].id < outbox'[f][j].id
    BY DEF Outbound
  <2>1. CASE f # e
    BY <1>7, <2>1 DEF Mail, Outbound, Written
  <2>2. CASE f = e
    <3>1. \A i \in 1 .. Len(s) : s[i].endpoint = e /\ Written(e, s[i])
      BY DEF Mail, Outbound, s
    <3>2. \A i \in 1 .. Len(outbox'[e]) :
            i + 1 \in 1 .. Len(s) /\ outbox'[e][i] = s[i + 1]
      BY <1>2, <1>7
    <3>3. \A i \in 1 .. Len(outbox'[e]) :
            outbox'[e][i].endpoint = e /\ Written(e, outbox[e][i])'
      BY <3>1, <3>2 DEF Written
    <3>4. \A i, j \in 1 .. Len(outbox'[e]) : i < j => outbox'[e][i].id < outbox'[e][j].id
      <4> SUFFICES ASSUME NEW i \in 1 .. Len(outbox'[e]), NEW j \in 1 .. Len(outbox'[e]), i < j
                   PROVE  outbox'[e][i].id < outbox'[e][j].id
        OBVIOUS
      <4>1. i + 1 < j + 1
        OBVIOUS
      <4> QED
        BY <3>2, <4>1, <1>9
    <3> QED
      BY <2>2, <3>3, <3>4
  <2> QED
    BY <2>1, <2>2
<1>11. \A i \in 1 .. Len(outbox'[e]) : q.id < outbox'[e][i].id
  <2> SUFFICES ASSUME NEW i \in 1 .. Len(outbox'[e]) PROVE q.id < outbox'[e][i].id
    OBVIOUS
  <2>1. i + 1 \in 1 .. Len(s) /\ outbox'[e][i] = s[i + 1] /\ 1 < i + 1
    <3>1. i \in 1 .. Len(Tail(s)) /\ Len(Tail(s)) \in Nat
      BY <1>2, <1>7
    <3>2. i + 1 \in 1 .. Len(s) /\ Tail(s)[i] = s[i + 1]
      BY <3>1, <1>2
    <3>3. outbox'[e] = Tail(s)
      BY <1>7
    <3>4. 1 < i + 1
      BY <3>1
    <3> QED
      BY <3>2, <3>3, <3>4
  <2> QED
    BY <2>1, <1>2, <1>9
<1>12. \A i \in 1 .. Len(inbox) : inbox[i].endpoint = e => inbox[i].id < q.id
  <2> SUFFICES ASSUME NEW i \in 1 .. Len(inbox), inbox[i].endpoint = e
               PROVE  inbox[i].id < q.id
    OBVIOUS
  <2>1. inbox[i] # Notice
    BY DEF Notice, Endpoints
  <2> QED
    BY <2>1, <1>2 DEF Mail, Inbound, s
<1>13. Inbound'
  <2> SUFFICES ASSUME NEW i \in 1 .. Len(inbox'), inbox'[i] # Notice
               PROVE  /\ Written(inbox[i].endpoint, inbox[i])'
                      /\ inbox'[i].endpoint # "acm" =>
                           inbox'[i].shape \in {"ok", "error", "unbound"}
                      /\ inbox'[i].code # "create" =>
                           inbox'[i].shape \notin {"short", "odd"}
                      /\ \A j \in 1 .. Len(outbox'[inbox'[i].endpoint]) :
                           inbox'[i].id < outbox'[inbox'[i].endpoint][j].id
                      /\ \A j \in 1 .. i - 1 :
                           inbox'[j].endpoint = inbox'[i].endpoint =>
                               inbox'[j].id < inbox'[i].id
    BY DEF Inbound
  <2>1. CASE i = Len(inbox) + 1
    <3>1. inbox'[i] = r
      BY <1>6, <2>1
    <3>2. Written(inbox[i].endpoint, inbox[i])'
      BY <3>1, <1>3, <1>4 DEF Written
    <3>3. /\ e # "acm" => shape \in {"ok", "error", "unbound"}
          /\ q.code # "create" => shape \notin {"short", "odd"}
      <4>1. shape \in ShapesOf(q)
        BY DEF q, s
      <4> QED
        BY <1>4, <4>1 DEF ShapesOf
    <3>4. \A j \in 1 .. i - 1 : inbox'[j] = inbox[j] /\ j \in 1 .. Len(inbox)
      BY <1>6, <2>1
    <3> QED
      BY <3>1, <3>2, <3>3, <3>4, <1>3, <1>11, <1>12
  <2>2. CASE i \in 1 .. Len(inbox)
    <3>1. inbox'[i] = inbox[i] /\ inbox[i] \in Replies
      BY <1>6, <2>2, <1>5
    <3>2. \A j \in 1 .. i - 1 : inbox'[j] = inbox[j]
      BY <1>6, <2>2
    <3>3. /\ Written(inbox[i].endpoint, inbox[i])
          /\ inbox[i].endpoint # "acm" => inbox[i].shape \in {"ok", "error", "unbound"}
          /\ inbox[i].code # "create" => inbox[i].shape \notin {"short", "odd"}
          /\ \A j \in 1 .. Len(outbox[inbox[i].endpoint]) :
                inbox[i].id < outbox[inbox[i].endpoint][j].id
          /\ \A j \in 1 .. i - 1 :
                inbox[j].endpoint = inbox[i].endpoint => inbox[j].id < inbox[i].id
      BY <2>2, <3>1 DEF Mail, Inbound
    <3>4. Written(inbox[i].endpoint, inbox[i])'
      BY <3>1, <3>3 DEF Written
    <3>5. \A j \in 1 .. Len(outbox'[inbox[i].endpoint]) :
            inbox[i].id < outbox'[inbox[i].endpoint][j].id
      <4>1. CASE inbox[i].endpoint = e
        <5>1. \A j \in 1 .. Len(outbox'[e]) : j + 1 \in 1 .. Len(s) /\ outbox'[e][j] = s[j + 1]
          BY <1>2, <1>7
        <5> QED
          BY <5>1, <4>1, <3>3 DEF s
      <4>2. CASE inbox[i].endpoint # e
        <5>1. inbox[i].endpoint \in Endpoints
          BY <3>1 DEF Replies
        <5> QED
          BY <4>2, <5>1, <3>3, <1>7
      <4> QED
        BY <4>1, <4>2
    <3> QED
      BY <3>1, <3>2, <3>3, <3>4, <3>5
  <2>3. i = Len(inbox) + 1 \/ i \in 1 .. Len(inbox)
    BY <1>6
  <2> QED
    BY <2>1, <2>2, <2>3
<1>14. Current'
  <2> SUFFICES ASSUME ~Free
               PROVE  LET c == call.request
                      IN  /\ c.id = sent[c.endpoint] /\ Written(c.endpoint, c)'
                          /\ \A i \in 1 .. Len(inbox') :
                               inbox'[i].endpoint = c.endpoint /\ inbox'[i].id = c.id =>
                                 body'[c.endpoint] = c.id
    BY DEF Current, Free
  <2> DEFINE c == call.request
  <2>1. /\ c.id = sent[c.endpoint] /\ Written(c.endpoint, c)
        /\ \A i \in 1 .. Len(inbox) :
             inbox[i].endpoint = c.endpoint /\ inbox[i].id = c.id => body[c.endpoint] = c.id
    BY DEF Mail, Current
  <2>2. c.endpoint \in Endpoints
    BY FreeCall DEF Calls, Requests
  <2> HIDE DEF c
  <2>3. ASSUME NEW i \in 1 .. Len(inbox'), inbox'[i].endpoint = c.endpoint, inbox'[i].id = c.id
        PROVE  body'[c.endpoint] = c.id
    <3>1. CASE i = Len(inbox) + 1
      BY <3>1, <2>3, <1>3, <1>6, <1>8
    <3>2. CASE i \in 1 .. Len(inbox)
      <4>1. inbox'[i] = inbox[i]
        BY <1>6, <3>2
      <4>2. CASE c.endpoint # e
        BY <4>1, <4>2, <2>1, <2>2, <2>3, <3>2, <1>8
      <4>3. CASE c.endpoint = e
        <5>1. c.id < q.id
          BY <4>1, <4>3, <2>3, <3>2, <1>12
        <5>2. q.id <= sent[e] /\ q.id \in Nat /\ sent[e] \in Nat
          BY <1>4, <1>2 DEF Written, Requests, Types
        <5> QED
          BY <5>1, <5>2, <2>1, <4>3
      <4> QED
        BY <4>2, <4>3
    <3> QED
      BY <3>1, <3>2, <1>6
  <2>4. Written(c.endpoint, c)'
    BY <2>1 DEF Written, c
  <2> QED
    BY <2>1, <2>3, <2>4 DEF c
<1> QED
  BY <1>6, <1>7, <1>8, <1>10, <1>13, <1>14 DEF Mail

-----------------------------------------------------------------------------
(* Processes that move between two exchanges. *)

(* An ACM exchange is one of the process that has the device open. *)
LEMMA AcmHolder ==
  ASSUME Inv, AcmCall
  PROVE  /\ call.by \in Procs /\ driver.opened = call.by
         /\ proc[call.by].at \in {"create", "preflight", "externalize", "final", "delete",
                                  "close"}
<1>1. call \in Calls /\ ~Free /\ call.request.endpoint = "acm"
  BY FreeCall DEF Inv, AcmCall
<1>2. call.by \in Procs
  BY <1>1 DEF Inv, Calling, Calls
<1>3. /\ proc[call.by].at \in Exchanging \cup {"close"}
      /\ call.request.code = CodeAt(proc[call.by].at)
  BY <1>1, <1>2 DEF Inv, Calling
<1>4. call.request.code \in {"create", "delete", "policy", "externalize"}
  BY <1>1 DEF Inv, Mail, Current, Written, CodesOf
<1>5. proc[call.by].at \in {"create", "preflight", "externalize", "final", "delete", "close"}
  BY <1>3, <1>4 DEF CodeAt, Exchanging
<1> QED
  BY <1>2, <1>5 DEF Inv, Sessions

(* While a consumer runs, no ACM request is on its way. *)
LEMMA ConsumerAlone ==
  ASSUME Inv, NEW p \in Procs, proc[p].at = "consumer"
  PROVE  /\ ~AcmCall /\ ~driver.poisoned /\ outbox["acm"] = <<>>
         /\ driver.opened = p
<1>1. driver.opened = p /\ ~driver.poisoned
  BY DEF Inv, Sessions, Consuming
<1>2. ~AcmCall
  BY <1>1, AcmHolder
<1> QED
  BY <1>1, <1>2 DEF Inv, Quiet

(* A step outside every exchange that leaves the mailbox alone. *)
LEMMA MoveKeeps ==
  ASSUME Inv, UNCHANGED <<call, sent, outbox, inbox, body, sep, last>>,
         driver' \in Drivers, proc' \in [Procs -> States], Sessions', Calling',
         driver'.poisoned = driver.poisoned, driver'.context = driver.context,
         \A p \in Procs : proc'[p].at = "consumer" =>
            proc[p].at = "consumer" /\ proc'[p].context = proc[p].context
  PROVE  Inv'
<1>1. Types'
  BY DEF Inv, Types
<1>2. Mail'
  BY SameMail DEF Inv
<1>3. Quiet' /\ Waiting'
  BY DEF Inv, Quiet, Waiting, AcmCall, Free, NoAcm, OnRecord, Outcome
<1>4. Consuming' /\ OwnReply'
  BY DEF Inv, Consuming, OwnReply
<1> QED
  BY <1>1, <1>2, <1>3, <1>4 DEF Inv

(* ... and the driver too. *)
LEMMA ProcMoves ==
  ASSUME Inv, NEW p \in Procs, NEW s \in States, proc' = [proc EXCEPT ![p] = s],
         UNCHANGED <<driver, call, sent, outbox, inbox, body, sep, last>>,
         Free \/ call.by # p, s.at # "consumer",
         s.at \notin {"idle", "observe"} => driver.opened = p
  PROVE  Inv'
<1>1. /\ proc' \in [Procs -> States] /\ proc'[p] = s
      /\ \A q \in Procs : q # p => proc'[q] = proc[q]
  BY DEF Inv, Types
<1>2. Sessions'
  BY <1>1 DEF Inv, Sessions
<1>3. Calling'
  <2>1. CASE Free
    BY <2>1 DEF Calling, Free
  <2>2. CASE ~Free
    <3>1. call.by # p
      BY <2>2
    <3> QED
      BY <1>1, <3>1 DEF Inv, Calling, Free
  <2> QED
    BY <2>1, <2>2
<1> QED
  BY <1>1, <1>2, <1>3, MoveKeeps DEF Inv, Types

LEMMA NotCalling ==
  ASSUME Inv, NEW p \in Procs, proc[p].at \notin Exchanging \cup {"close"}
  PROVE  Free \/ call.by # p
  BY DEF Inv, Calling

LEMMA AfterFailureIs ==
  ASSUME NEW at \in Exchanging
  PROVE  /\ AfterFailure(at) \in {"idle", "close", "delete"}
         /\ AfterFailure(at) = "idle" <=> at = "observe"
  BY DEF AfterFailure, Exchanging

LEMMA BeginObservationKeeps ==
  ASSUME Inv, NEW p \in Procs, BeginObservation(p)
  PROVE  Inv'
<1> DEFINE s == [proc[p] EXCEPT !.at = "observe"]
<1>1. proc[p] \in States
  BY DEF Inv, Types
<1>2. s \in States /\ s.at = "observe" /\ proc' = [proc EXCEPT ![p] = s]
  BY <1>1 DEF States, Exchanging, BeginObservation, Goto
<1>3. Free \/ call.by # p
  BY NotCalling DEF BeginObservation, Exchanging
<1> HIDE DEF s
<1> QED
  BY <1>2, <1>3, ProcMoves DEF BeginObservation

LEMMA GetInfoKeeps ==
  ASSUME Inv, NEW p \in Procs, GetInfo(p)
  PROVE  Inv'
<1> DEFINE at == IF driver.poisoned THEN "close" ELSE "create"
           s == Holding(at, proc[p].kind, driver.generation, proc[p].context)
<1>1. proc[p] \in States /\ proc \in [Procs -> States] /\ driver.generation \in Nat
  BY DEF Inv, Types, Drivers
<1>2. at \in {"close", "create"}
  OBVIOUS
<1>3. proc' = [proc EXCEPT ![p] = s]
  BY DEF GetInfo, Becomes
<1> HIDE DEF at
<1>4. s \in States /\ s.at = at
  BY <1>1, <1>2 DEF States, Exchanging, Holding
<1>5. driver.opened = p
  BY DEF Inv, Sessions, GetInfo
<1> HIDE DEF s
<1> QED
  BY <1>2, <1>3, <1>4, <1>5, ProcMoves DEF GetInfo

LEMMA RefusedKeeps ==
  ASSUME Inv, NEW p \in Procs, Refused(p)
  PROVE  Inv'
<1> DEFINE at == AfterFailure(proc[p].at)
           s == [proc[p] EXCEPT !.at = at]
<1>1. proc[p] \in States
  BY DEF Inv, Types
<1>2. at \in {"idle", "close", "delete"} /\ (at = "idle" <=> proc[p].at = "observe")
  BY AfterFailureIs DEF Refused
<1> HIDE DEF at
<1>3. s \in States /\ s.at = at
  BY <1>1, <1>2 DEF States, Exchanging
<1>4. proc' = [proc EXCEPT ![p] = s]
  BY DEF Refused, Goto, at
<1>5. at # "idle" => driver.opened = p
  BY <1>2 DEF Inv, Sessions, Refused, Exchanging
<1> HIDE DEF s
<1> QED
  BY <1>2, <1>3, <1>4, <1>5, ProcMoves DEF Refused

LEMMA ConsumeOrKilledKeeps ==
  ASSUME Inv, NEW p \in Procs, Consume(p) \/ Killed(p)
  PROVE  Inv'
<1>1. proc[p] \in States
  BY DEF Inv, Types
<1>2. PICK at \in {"delete", "close"} : Goto(p, at)
  BY DEF Consume, Killed
<1> DEFINE s == [proc[p] EXCEPT !.at = at]
<1>3. s \in States /\ s.at = at /\ proc' = [proc EXCEPT ![p] = s]
  BY <1>1, <1>2 DEF States, Exchanging, Goto
<1>4. driver.opened = p
  BY DEF Inv, Sessions, Consume, Killed, Exchanging
<1>5. Free \/ call.by # p
  BY NotCalling DEF Consume, Killed, Exchanging
<1> HIDE DEF s
<1> QED
  BY <1>3, <1>4, <1>5, ProcMoves DEF Consume, Killed

LEMMA OpenKeeps ==
  ASSUME Inv, NEW p \in Procs, Open(p)
  PROVE  Inv'
<1>1. UNCHANGED <<call, sent, outbox, inbox, body, sep, last>>
  BY DEF Open
<1>2. CASE UNCHANGED <<driver, proc>>
  BY <1>1, <1>2, MoveKeeps DEF Inv, Types, Sessions, Calling, Free, Tags
<1>3. ASSUME NEW kind \in KindsOf(p), driver.opened = "nobody",
             driver' = [driver EXCEPT !.opened = p],
             Becomes(p, Holding("info", kind, proc[p].generation, proc[p].context))
      PROVE  Inv'
  <2> DEFINE s == Holding("info", kind, proc[p].generation, proc[p].context)
  <2>1. /\ driver \in Drivers /\ proc \in [Procs -> States] /\ proc[p] \in States
        /\ proc[p].at = "idle"
    BY DEF Inv, Types, Open
  <2>2. s \in States /\ s.at = "info"
    BY <2>1 DEF Holding, States, KindsOf
  <2> HIDE DEF s
  <2>3. /\ proc' \in [Procs -> States] /\ proc'[p] = s
        /\ \A q \in Procs : q # p => proc'[q] = proc[q]
    BY <1>3, <2>1, <2>2 DEF Becomes, s
  <2>4. /\ driver' \in Drivers /\ driver'.opened = p /\ driver'.poisoned = driver.poisoned
        /\ driver'.context = driver.context /\ driver'.stage = driver.stage
        /\ driver'.acked = driver.acked
    BY <1>3, <2>1 DEF Drivers
  <2>5. \A q \in Procs : q # p => proc[q].at \in {"idle", "observe"}
    BY <1>3, Bounds DEF Inv, Sessions
  <2>6. Sessions'
    BY <2>2, <2>3, <2>4, <2>5, <1>3 DEF Inv, Sessions, Tags
  <2>7. Calling'
    <3>1. Free \/ call.by # p
      BY <2>1, NotCalling DEF Exchanging
    <3> QED
      BY <3>1, <1>1, <2>3, <2>4 DEF Inv, Calling, Free
  <2> QED
    BY <1>1, <2>2, <2>3, <2>4, <2>6, <2>7, MoveKeeps
<1> QED
  BY <1>2, <1>3 DEF Open

LEMMA ExposeKeeps ==
  ASSUME Inv, Expose
  PROVE  Inv'
<1>1. PICK nodes \in SUBSET {"aks", "acm"} :
        driver' = [driver EXCEPT !.stage = "ready", !.nodes = nodes]
  BY DEF Expose
<1>2. driver \in Drivers /\ driver.stage = "expose"
  BY DEF Inv, Types, Expose
<1>3. /\ driver' \in Drivers /\ driver'.opened = driver.opened
      /\ driver'.poisoned = driver.poisoned /\ driver'.context = driver.context
      /\ driver'.stage = "ready"
  BY <1>1, <1>2 DEF Drivers
<1>4. Sessions'
  BY <1>3 DEF Inv, Sessions, Expose
<1>5. Calling'
  BY <1>2 DEF Inv, Calling, Free, Expose
<1> QED
  BY <1>3, <1>4, <1>5, MoveKeeps DEF Expose, Inv, Types

(* The device is closed and nothing has to be cleaned up. *)
LEMMA ReleaseQuietly ==
  ASSUME Inv, NEW p \in Procs, proc[p].at = "close", Free, ~CleanupNeeded,
         driver' = Closed(driver), Forgotten(p),
         UNCHANGED <<call, sent, outbox, inbox, body, sep, last>>
  PROVE  Inv'
<1>1. driver \in Drivers /\ proc \in [Procs -> States] /\ Resting \in States
      /\ Resting.at = "idle"
  BY DEF Inv, Types, States, Resting, Holding, NoContext
<1>2. /\ driver' \in Drivers /\ driver'.opened = "nobody"
      /\ driver'.poisoned = driver.poisoned /\ driver'.context = driver.context
      /\ driver'.stage = driver.stage /\ driver'.acked = driver.acked
  BY <1>1, ClosedIs
<1>3. /\ proc' \in [Procs -> States] /\ proc'[p] = Resting
      /\ \A q \in Procs : q # p => proc'[q] = proc[q]
  BY <1>1 DEF Forgotten, Becomes
<1>4. driver.context = 0
  BY DEF CleanupNeeded, NoContext, Inv, Sessions
<1>5. \A q \in Procs : q # p => proc[q].at \in {"idle", "observe"}
  BY DEF Inv, Sessions
<1>6. Sessions'
  BY <1>1, <1>2, <1>3, <1>4, <1>5 DEF Inv, Sessions, Tags
<1>7. Calling'
  BY DEF Calling, Free
<1> QED
  BY <1>1, <1>2, <1>3, <1>6, <1>7, MoveKeeps

-----------------------------------------------------------------------------
(* A request is posted. *)

LEMMA PostKeeps ==
  ASSUME Inv, NEW who \in Procs \cup {"probe"}, NEW e \in Endpoints,
         NEW q \in Requests, q.endpoint = e, q.id = sent[e] + 1, q.tag = Tag(e, q.id),
         q.code \in CodesOf(e), Post(who, q), UNCHANGED <<driver, proc>>,
         who = "probe" => e # "acm" /\ driver.stage \in {"register", "negotiate"},
         who \in Procs =>
           /\ proc[who].at \in Exchanging \cup {"close"}
           /\ q.code = CodeAt(proc[who].at)
           /\ proc[who].at \notin {"create", "close", "observe"} =>
                q.context = proc[who].context,
         e = "acm" => /\ ~driver.poisoned
                      /\ IF q.code = "create" THEN driver.context = 0
                         ELSE driver.context = q.context /\ q.context # 0
  PROVE  Inv'
<1>1. /\ Mail'
      /\ call' \in Calls /\ call'.by = who /\ call'.request = q /\ ~Free'
      /\ sent' \in [Endpoints -> Nat] /\ body' \in [Endpoints -> Nat]
      /\ outbox' \in [Endpoints -> Seq(Requests)]
      /\ outbox'[e] = Append(outbox[e], q)
      /\ \A f \in Endpoints : f # e => outbox'[f] = outbox[f]
  BY PostMail DEF Inv
<1>2. Free /\ inbox' = inbox /\ sep' = sep /\ last' = last
  BY DEF Post
<1>3. Types'
  BY <1>1, <1>2 DEF Inv, Types
<1>4. Sessions'
  BY DEF Inv, Sessions, Tags
<1>5. Calling'
  BY <1>1 DEF Calling
<1>6. ~driver.poisoned => outbox["acm"] = <<>> /\ NoAcm /\ OnRecord
  BY <1>2 DEF Inv, Quiet, AcmCall
<1>7. Quiet'
  <2>1. "acm" \in Endpoints
    BY DEF Endpoints
  <2>2. CASE e = "acm"
    BY <2>2, <1>1 DEF Quiet, AcmCall
  <2>3. CASE e # "acm"
    BY <2>1, <2>3, <1>1, <1>2, <1>6 DEF Quiet, NoAcm, OnRecord
  <2> QED
    BY <2>2, <2>3
<1>8. Waiting'
  <2>1. CASE e = "acm"
    <3>1. outbox["acm"] = <<>> /\ NoAcm /\ OnRecord /\ ~driver.poisoned
      BY <2>1, <1>6
    <3>2. outbox'["acm"] = <<q>>
      <4>1. Append(<<>>, q) = <<q>>
        OBVIOUS
      <4> QED
        BY <2>1, <3>1, <4>1, <1>1
    <3>3. NoAcm' /\ OnRecord' /\ ~driver'.poisoned
      BY <3>1, <1>2 DEF NoAcm, OnRecord
    <3> QED
      BY <2>1, <3>2, <3>3, <1>1 DEF Waiting
  <2>2. CASE e # "acm"
    BY <2>2, <1>1 DEF Waiting, AcmCall
  <2> QED
    BY <2>1, <2>2
<1>9. Consuming' /\ OwnReply'
  BY <1>2 DEF Inv, Consuming, OwnReply
<1> QED
  BY <1>1, <1>3, <1>4, <1>5, <1>7, <1>8, <1>9 DEF Inv

(* The request that was not posted: the caller fails, and an ACM clean-up *)
(* poisons the endpoint.                                                  *)
LEMMA TimeoutKeeps ==
  ASSUME Inv, NEW e \in Endpoints, NEW q \in Requests, q.endpoint = e,
         q.id = sent[e] + 1, SendTimesOut(q),
         driver' \in Drivers, proc' \in [Procs -> States], Sessions',
         \/ driver'.poisoned
         \/ driver'.poisoned = driver.poisoned /\ driver'.context = driver.context,
         \A p \in Procs : proc'[p].at = "consumer" =>
            /\ proc[p].at = "consumer" /\ proc'[p].context = proc[p].context
            /\ ~driver'.poisoned
  PROVE  Inv'
<1>1. /\ Mail' /\ Free'
      /\ sent' \in [Endpoints -> Nat] /\ body' \in [Endpoints -> Nat]
  BY TimeoutMail DEF Inv
<1>2. Free /\ inbox' = inbox /\ outbox' = outbox /\ sep' = sep /\ last' = last /\ call' = call
  BY DEF SendTimesOut
<1>3. Types'
  BY <1>1, <1>2 DEF Inv, Types
<1>4. Calling' /\ Waiting'
  BY <1>1 DEF Calling, Waiting, AcmCall
<1>5. Quiet'
  BY <1>2 DEF Inv, Quiet, AcmCall, NoAcm, OnRecord
<1>6. Consuming' /\ OwnReply'
  BY <1>2 DEF Inv, Consuming, OwnReply
<1> QED
  BY <1>1, <1>3, <1>4, <1>5, <1>6 DEF Inv

(* The request of a step of the sequences. *)
LEMMA CommandIs ==
  ASSUME Inv, NEW p \in Procs, proc[p].at \in Exchanging
  PROVE  LET q == Command(p)
             e == IF proc[p].at \in AksSteps THEN "aks" ELSE "acm"
         IN  /\ q \in Requests /\ e \in Endpoints /\ q.endpoint = e
             /\ q.id = sent[e] + 1 /\ q.tag = Tag(e, q.id)
             /\ q.code = CodeAt(proc[p].at) /\ q.code \in CodesOf(e)
             /\ proc[p].at \notin {"create", "observe"} => q.context = proc[p].context
<1> DEFINE at == proc[p].at
           e == IF at \in AksSteps THEN "aks" ELSE "acm"
           c == IF at \in {"create", "observe"} THEN 0 ELSE proc[p].context
<1>1. proc[p] \in States /\ Types
  BY DEF Inv, Types
<1>2. e \in Endpoints /\ c \in Nat
  BY <1>1 DEF Endpoints, States
<1>3. CodeAt(at) \in CodesOf(e)
  BY DEF Exchanging, AksSteps, CodeAt, CodesOf
<1>4. Command(p) = Request(e, CodeAt(at), c)
  BY DEF Command, Exchanging, AksSteps, CodeAt, NoContext
<1> HIDE DEF e, c
<1>5. LET q == Command(p)
      IN  /\ q \in Requests /\ q.endpoint = e /\ q.id = sent[e] + 1
          /\ q.tag = Tag(e, sent[e] + 1) /\ q.code = CodeAt(at) /\ q.context = c
  BY <1>1, <1>2, <1>3, <1>4, RequestIs
<1> QED
  BY <1>2, <1>3, <1>5 DEF e, c

LEMMA GotoIs ==
  ASSUME Inv, NEW p \in Procs, NEW at \in Exchanging \cup {"idle", "info", "consumer", "close"},
         Goto(p, at)
  PROVE  /\ proc' \in [Procs -> States] /\ proc'[p].at = at
         /\ proc'[p].context = proc[p].context
         /\ \A q \in Procs : q # p => proc'[q] = proc[q]
<1>1. proc \in [Procs -> States] /\ proc[p] \in States
  BY DEF Inv, Types
<1> DEFINE s == [proc[p] EXCEPT !.at = at]
<1>2. s \in States /\ s.at = at /\ s.context = proc[p].context
  BY <1>1 DEF States
<1>3. proc' = [proc EXCEPT ![p] = s]
  BY DEF Goto
<1> HIDE DEF s
<1> QED
  BY <1>1, <1>2, <1>3

LEMMA SendKeeps ==
  ASSUME Inv, NEW p \in Procs, Send(p)
  PROVE  Inv'
<1> DEFINE at == proc[p].at
           q == Command(p)
           e == IF at \in AksSteps THEN "aks" ELSE "acm"
<1>1. at \in Exchanging /\ Admitted(p) /\ driver' = driver
  BY DEF Send
<1>2. /\ q \in Requests /\ e \in Endpoints /\ q.endpoint = e
      /\ q.id = sent[e] + 1 /\ q.tag = Tag(e, q.id)
      /\ q.code = CodeAt(at) /\ q.code \in CodesOf(e)
      /\ at \notin {"create", "observe"} => q.context = proc[p].context
  BY <1>1, CommandIs
<1>3. e = "acm" => /\ ~driver.poisoned
                   /\ IF q.code = "create" THEN driver.context = 0
                      ELSE driver.context = q.context /\ q.context # 0
  BY <1>1 DEF Admitted, ContextAllowed, NoContext
<1>4. p # "probe"
  BY Bounds
<1> HIDE DEF at, q, e
<1>5. CASE Post(p, q) /\ UNCHANGED proc
  BY <1>1, <1>2, <1>3, <1>4, <1>5, PostKeeps DEF at
<1>6. CASE SendTimesOut(q) /\ Goto(p, AfterFailure(at))
  <2>1. AfterFailure(at) \in {"idle", "close", "delete"}
        /\ (AfterFailure(at) = "idle" <=> at = "observe")
    BY <1>1, AfterFailureIs
  <2>2. /\ proc' \in [Procs -> States] /\ proc'[p].at = AfterFailure(at)
        /\ \A r \in Procs : r # p => proc'[r] = proc[r]
    BY <1>6, <2>1, GotoIs DEF Exchanging
  <2>3. Sessions'
    BY <1>1, <2>1, <2>2 DEF Inv, Sessions, Tags, at, Exchanging
  <2>4. driver' \in Drivers
    BY <1>1 DEF Inv, Types
  <2>5. \A r \in Procs : proc'[r].at = "consumer" =>
          /\ proc[r].at = "consumer" /\ proc'[r].context = proc[r].context
          /\ ~driver'.poisoned
    BY <1>1, <2>1, <2>2 DEF Inv, Consuming
  <2> QED
    BY <1>1, <1>2, <1>6, <2>2, <2>3, <2>4, <2>5, TimeoutKeeps
<1> QED
  BY <1>5, <1>6 DEF Send, q, at

LEMMA ProbeSendsKeeps ==
  ASSUME Inv, ProbeSends
  PROVE  Inv'
<1> DEFINE q == ProbeRequest
           e == IF driver.stage = "register" THEN "control" ELSE "aks"
<1>1. driver.stage \in {"register", "negotiate"} /\ proc' = proc /\ driver \in Drivers
  BY DEF ProbeSends, Inv, Types
<1>2. /\ q \in Requests /\ e \in Endpoints /\ q.endpoint = e
      /\ q.id = sent[e] + 1 /\ q.tag = Tag(e, q.id) /\ q.code \in CodesOf(e)
  <2>1. CASE driver.stage = "register"
    <3>1. "register" \in CodesOf("control") /\ "control" \in Endpoints /\ 0 \in Nat
      BY DEF CodesOf, Endpoints
    <3>2. q = Request("control", "register", 0) /\ e = "control"
      BY <2>1 DEF ProbeRequest, NoContext
    <3> QED
      BY <3>1, <3>2, RequestIs DEF Inv
  <2>2. CASE driver.stage # "register"
    <3>1. "capabilities" \in CodesOf("aks") /\ "aks" \in Endpoints /\ 0 \in Nat
      BY DEF CodesOf, Endpoints
    <3>2. q = Request("aks", "capabilities", 0) /\ e = "aks"
      BY <2>2 DEF ProbeRequest, NoContext
    <3> QED
      BY <3>1, <3>2, RequestIs DEF Inv
  <2> QED
    BY <2>1, <2>2
<1>3. "probe" \notin Procs /\ e # "acm"
  BY Bounds
<1> HIDE DEF q, e
<1>4. CASE Post("probe", q) /\ UNCHANGED driver
  BY <1>1, <1>2, <1>3, <1>4, PostKeeps
<1>5. CASE SendTimesOut(q) /\ driver' = ProbeFails(driver)
  <2>1. /\ driver' \in Drivers /\ driver'.opened = driver.opened
        /\ driver'.poisoned = driver.poisoned /\ driver'.context = driver.context
        /\ driver'.stage = "off"
    BY <1>1, <1>5, ProbeFailsIs
  <2>2. Sessions'
    BY <1>1, <2>1 DEF Inv, Sessions
  <2>3. proc' \in [Procs -> States]
    BY <1>1 DEF Inv, Types
  <2>4. \A r \in Procs : proc'[r].at = "consumer" =>
          /\ proc[r].at = "consumer" /\ proc'[r].context = proc[r].context
          /\ ~driver'.poisoned
    BY <1>1, <2>1 DEF Inv, Consuming
  <2> QED
    BY <1>2, <1>5, <2>1, <2>2, <2>3, <2>4, TimeoutKeeps
<1> QED
  BY <1>4, <1>5 DEF ProbeSends, q

(* A process that closed its device has nothing left of the session. *)
LEMMA ForgottenIs ==
  ASSUME Inv, NEW p \in Procs, proc[p].at \notin {"idle", "observe"}, Forgotten(p),
         driver' \in Drivers, driver'.opened = "nobody", driver'.context = 0,
         driver'.stage = driver.stage, driver'.acked = driver.acked
  PROVE  /\ proc' \in [Procs -> States] /\ Sessions'
         /\ \A q \in Procs : proc'[q].at # "consumer"
<1>1. proc \in [Procs -> States] /\ Resting \in States /\ Resting.at = "idle"
  BY DEF Inv, Types, States, Resting, Holding, NoContext
<1>2. /\ proc' \in [Procs -> States] /\ proc'[p] = Resting
      /\ \A q \in Procs : q # p => proc'[q] = proc[q]
  BY <1>1 DEF Forgotten, Becomes
<1>3. \A q \in Procs : q # p => proc[q].at \in {"idle", "observe"}
  BY DEF Inv, Sessions
<1> QED
  BY <1>1, <1>2, <1>3 DEF Inv, Sessions, Tags

LEMMA ReleaseKeeps ==
  ASSUME Inv, NEW p \in Procs, Release(p)
  PROVE  Inv'
<1>1. proc[p].at = "close" /\ Free /\ driver \in Drivers /\ p # "probe"
  BY Bounds DEF Release, Inv, Types
<1> DEFINE q == Cleanup
<1>2. /\ q \in Requests /\ q.endpoint = "acm" /\ q.id = sent["acm"] + 1
      /\ q.tag = Tag("acm", q.id) /\ q.code = "delete" /\ q.code \in CodesOf("acm")
      /\ q.context = driver.context /\ "acm" \in Endpoints
  <2>1. "delete" \in CodesOf("acm") /\ "acm" \in Endpoints /\ driver.context \in Nat
    BY <1>1 DEF CodesOf, Endpoints, Drivers
  <2> QED
    BY <2>1, RequestIs DEF Inv, Cleanup
<1> HIDE DEF q
<1>3. CASE CleanupNeeded /\ Post(p, q) /\ UNCHANGED <<driver, proc>>
  <2>1. ~driver.poisoned /\ driver.context # 0
    BY <1>3 DEF CleanupNeeded, NoContext
  <2> QED
    BY <1>1, <1>2, <1>3, <2>1, PostKeeps DEF CodeAt
<1>4. CASE SendTimesOut(q) /\ driver' = Closed(Poison(driver)) /\ Forgotten(p)
  <2>1. /\ driver' \in Drivers /\ driver'.opened = "nobody" /\ driver'.context = 0
        /\ driver'.poisoned /\ driver'.stage = driver.stage /\ driver'.acked = driver.acked
    BY <1>1, <1>4, PoisonIs, ClosedIs
  <2>2. /\ proc' \in [Procs -> States] /\ Sessions'
        /\ \A r \in Procs : proc'[r].at # "consumer"
    BY <1>1, <1>4, <2>1, ForgottenIs
  <2> QED
    BY <1>2, <1>4, <2>1, <2>2, TimeoutKeeps
<1>5. CASE /\ ~CleanupNeeded /\ driver' = Closed(driver) /\ Forgotten(p)
           /\ UNCHANGED <<call, sent, outbox, inbox, body, sep, last>>
  BY <1>1, <1>5, ReleaseQuietly
<1> QED
  BY <1>3, <1>4, <1>5 DEF Release, q

-----------------------------------------------------------------------------
(* The end of an exchange. *)

LEMMA ExchangeEnds ==
  ASSUME Inv, call' = NoCall, Mail', driver' \in Drivers, proc' \in [Procs -> States],
         inbox' \in Seq(Replies \cup {Notice}), UNCHANGED <<sent, outbox, body, sep>>,
         Sessions', Quiet', Consuming', OwnReply'
  PROVE  Inv'
<1>1. Types'
  BY DEF Inv, Types
<1>2. Calling' /\ Waiting'
  BY DEF Calling, Waiting, AcmCall, Free
<1> QED
  BY <1>1, <1>2 DEF Inv

LEMMA CallIs ==
  ASSUME Inv, ~Free
  PROVE  /\ call \in Calls /\ call.request \in Requests
         /\ call.request.endpoint \in Endpoints
         /\ call.by \in Procs \cup {"probe"} /\ "probe" \notin Procs /\ "nobody" \notin Procs
         /\ call.by = "probe" => ~AcmCall
         /\ call.by \in Procs =>
              /\ proc[call.by].at \in Exchanging \cup {"close"}
              /\ AcmCall <=> proc[call.by].at \notin AksSteps
<1>1. call \in Calls /\ call.request \in Requests
  BY FreeCall DEF Inv, Calls
<1>2. /\ call.by \in Procs \cup {"probe"} /\ "probe" \notin Procs /\ "nobody" \notin Procs
      /\ call.request.endpoint \in Endpoints
  BY <1>1, Bounds DEF Calls, Requests
<1>3. call.by = "probe" => ~AcmCall
  BY <1>2 DEF Inv, Calling, AcmCall
<1>4. ASSUME call.by \in Procs
      PROVE  /\ proc[call.by].at \in Exchanging \cup {"close"}
             /\ AcmCall <=> proc[call.by].at \notin AksSteps
  <2> DEFINE at == proc[call.by].at
             e == call.request.endpoint
  <2>1. at \in Exchanging \cup {"close"} /\ call.request.code = CodeAt(at)
    BY <1>4 DEF Inv, Calling
  <2>2. call.request.code \in CodesOf(e)
    BY DEF Inv, Mail, Current, Written
  <2>3. CodeAt(at) \in CodesOf(e)
    BY <2>1, <2>2
  <2>4. AcmCall <=> e = "acm"
    BY DEF AcmCall
  <2> HIDE DEF at, e
  <2>5. CASE e = "control"
    BY <2>1, <2>3, <2>5 DEF CodeAt, CodesOf, Exchanging
  <2>6. CASE e = "aks"
    <3>1. CodeAt(at) \in {"verify", "state", "capabilities"}
      BY <2>3, <2>6 DEF CodesOf
    <3>2. at \in AksSteps
      BY <2>1, <3>1 DEF CodeAt, Exchanging, AksSteps
    <3> QED
      BY <2>1, <2>4, <2>6, <3>2 DEF at
  <2>7. CASE e = "acm"
    <3>1. CodeAt(at) \in {"create", "delete", "policy", "externalize"}
      BY <2>3, <2>7 DEF CodesOf
    <3>2. at \notin AksSteps
      BY <2>1, <3>1 DEF CodeAt, Exchanging, AksSteps
    <3> QED
      BY <2>1, <2>4, <2>7, <3>2 DEF at
  <2> QED
    BY <1>2, <2>5, <2>6, <2>7 DEF Endpoints, e
<1> QED
  BY <1>1, <1>2, <1>3, <1>4

(* No reply was accepted. *)
LEMMA GiveUpKeeps ==
  ASSUME Inv, ~Free, GiveUp, Mail', inbox' \in Seq(Replies \cup {Notice}), NoAcm => NoAcm',
         UNCHANGED <<sent, outbox, body, sep, last>>
  PROVE  Inv'
<1>1. call' = NoCall /\ driver \in Drivers /\ proc \in [Procs -> States] /\ OwnReply'
  BY DEF GiveUp, Inv, Types, OwnReply
<1>2. CASE call.by = "probe"
  <2>1. driver' = ProbeFails(driver) /\ proc' = proc
    BY <1>2 DEF GiveUp
  <2>2. /\ driver' \in Drivers /\ driver'.opened = driver.opened
        /\ driver'.poisoned = driver.poisoned /\ driver'.context = driver.context
        /\ driver'.stage = "off"
    BY <1>1, <2>1, ProbeFailsIs
  <2>3. Sessions' /\ Consuming'
    BY <2>1, <2>2 DEF Inv, Sessions, Consuming
  <2>4. Quiet'
    BY <1>2, <2>2, CallIs DEF Inv, Quiet, OnRecord
  <2> QED
    BY <1>1, <2>1, <2>2, <2>3, <2>4, ExchangeEnds
<1>3. CASE call.by \in Procs /\ proc[call.by].at = "close"
  <2>1. driver' = Closed(Poison(driver)) /\ Forgotten(call.by)
    BY <1>3, CallIs DEF GiveUp
  <2>2. /\ driver' \in Drivers /\ driver'.opened = "nobody" /\ driver'.context = 0
        /\ driver'.poisoned /\ driver'.stage = driver.stage /\ driver'.acked = driver.acked
    BY <1>1, <2>1, PoisonIs, ClosedIs
  <2>3. /\ proc' \in [Procs -> States] /\ Sessions'
        /\ \A r \in Procs : proc'[r].at # "consumer"
    BY <1>3, <2>1, <2>2, ForgottenIs
  <2>4. Quiet' /\ Consuming'
    BY <2>2, <2>3 DEF Quiet, Inv, Consuming
  <2> QED
    BY <1>1, <2>2, <2>3, <2>4, ExchangeEnds
<1>4. CASE call.by \in Procs /\ proc[call.by].at # "close"
  <2> DEFINE p == call.by
             at == proc[p].at
  <2>1. driver' = PoisonIfAcm(driver) /\ Goto(p, AfterFailure(at))
    BY <1>4, CallIs DEF GiveUp
  <2>2. at \in Exchanging /\ p \in Procs /\ (AcmCall <=> at \notin AksSteps)
    BY <1>4, CallIs
  <2> HIDE DEF p, at
  <2>3. AfterFailure(at) \in {"idle", "close", "delete"}
        /\ (AfterFailure(at) = "idle" <=> at = "observe")
    BY <2>2, AfterFailureIs
  <2>4. /\ proc' \in [Procs -> States] /\ proc'[p].at = AfterFailure(at)
        /\ \A r \in Procs : r # p => proc'[r] = proc[r]
    BY <2>1, <2>2, <2>3, GotoIs DEF Exchanging
  <2>5. /\ driver' \in Drivers /\ driver'.opened = driver.opened
        /\ driver'.stage = driver.stage /\ driver'.acked = driver.acked
        /\ AcmCall => driver'.poisoned /\ driver'.context = 0
        /\ ~AcmCall => driver' = driver
    BY <1>1, <2>1, PoisonIs DEF PoisonIfAcm, AcmCall
  <2>6. at # "observe" => driver.opened = p
    BY <2>2 DEF Inv, Sessions, at, Exchanging
  <2>7. Sessions'
    <3>1. \A r \in Procs : proc'[r].at \notin {"idle", "observe"} => driver'.opened = r
      BY <2>3, <2>4, <2>5, <2>6 DEF Inv, Sessions
    <3>2. driver'.opened = "nobody" \/ driver'.poisoned => driver'.context = 0
      BY <2>5 DEF Inv, Sessions
    <3> QED
      BY <3>1, <3>2, <2>5 DEF Inv, Sessions, Tags
  <2>8. Quiet'
    BY <2>5 DEF Inv, Quiet, OnRecord
  <2>9. Consuming'
    <3>1. ASSUME NEW r \in Procs, proc'[r].at = "consumer"
          PROVE  ~driver'.poisoned /\ proc'[r].context \in sep'.bound
      <4>1. proc'[r] = proc[r] /\ proc[r].at = "consumer"
        BY <2>3, <2>4, <3>1
      <4>2. ~AcmCall
        BY <4>1, ConsumerAlone
      <4> QED
        BY <4>1, <4>2, <2>5 DEF Inv, Consuming
    <3> QED
      BY <3>1 DEF Inv, Consuming
  <2> QED
    BY <1>1, <2>4, <2>5, <2>7, <2>8, <2>9, ExchangeEnds
<1> QED
  BY <1>2, <1>3, <1>4, CallIs

LEMMA ReceiveTimesOutKeeps ==
  ASSUME Inv, ReceiveTimesOut
  PROVE  Inv'
<1>1. /\ ~Free /\ GiveUp /\ UNCHANGED <<sent, outbox, inbox, body, sep, last>>
      /\ call' = NoCall
  BY DEF ReceiveTimesOut, GiveUp
<1>2. Mail' /\ (NoAcm => NoAcm') /\ inbox' \in Seq(Replies \cup {Notice})
  BY <1>1, SameMail DEF Inv, NoAcm, Types
<1> QED
  BY <1>1, <1>2, GiveUpKeeps

(* What is left in the inbox was there before. *)
LEMMA PopIs ==
  ASSUME Inv, inbox # <<>>, inbox' = Tail(inbox)
  PROVE  /\ 1 \in 1 .. Len(inbox) /\ Head(inbox) = inbox[1]
         /\ inbox[1] \in Replies \cup {Notice}
         /\ \A i \in 1 .. Len(inbox') :
              i + 1 \in 1 .. Len(inbox) /\ inbox'[i] = inbox[i + 1] /\ 1 \in 1 .. (i + 1) - 1
         /\ NoAcm => NoAcm'
<1>1. inbox \in Seq(Replies \cup {Notice})
  BY DEF Inv, Types
<1>2. /\ 1 \in 1 .. Len(inbox) /\ Head(inbox) = inbox[1]
      /\ inbox[1] \in Replies \cup {Notice}
  BY <1>1
<1>3. \A i \in 1 .. Len(inbox') :
        i + 1 \in 1 .. Len(inbox) /\ inbox'[i] = inbox[i + 1] /\ 1 \in 1 .. (i + 1) - 1
  BY <1>1
<1> QED
  BY <1>2, <1>3 DEF NoAcm

LEMMA SkipKeeps ==
  ASSUME Inv, ~Free, inbox # <<>>, inbox' = Tail(inbox),
         call' = [call EXCEPT !.skipped = @ + 1],
         UNCHANGED <<driver, proc, last, sent, outbox, body, sep>>
  PROVE  Inv'
<1>1. call \in Calls
  BY CallIs
<1>2. call' \in Calls /\ call'.by = call.by /\ call'.request = call.request
  BY <1>1 DEF Calls
<1>3. ~Free'
  BY <1>2, Bounds DEF Free, NoCall, Calls
<1>4. Mail' /\ inbox' \in Seq(Replies \cup {Notice})
  BY <1>2, ReceiveMail DEF Inv
<1>5. Types'
  BY <1>2, <1>4 DEF Inv, Types
<1>6. Sessions' /\ Consuming' /\ OwnReply' /\ Calling'
  BY <1>2, <1>3 DEF Inv, Sessions, Consuming, OwnReply, Calling, Tags
<1>7. AcmCall' <=> AcmCall
  BY <1>2, <1>3 DEF AcmCall
<1>8. Quiet'
  BY <1>7, PopIs DEF Inv, Quiet, OnRecord
<1>9. Waiting'
  BY <1>2, <1>7, PopIs DEF Inv, Waiting, OnRecord, Outcome
<1> QED
  BY <1>4, <1>5, <1>6, <1>8, <1>9 DEF Inv

(* What an ACM reply makes of the context on record. *)
LEMMA RecordIs ==
  ASSUME NEW d \in Drivers, NEW q \in Requests, NEW r \in Replies,
         q.code \in {"create", "delete", "policy", "externalize"},
         q.code # "create" => r.shape # "short",
         NEW x, x = IF r.shape = "oversize" THEN Poison(d) ELSE RecordReply(d, q, r)
  PROVE  /\ x \in Drivers /\ x.opened = d.opened /\ x.stage = d.stage /\ x.acked = d.acked
         /\ \/ x.poisoned /\ x.context = 0 /\ (q.code = "create" \/ r.shape = "oversize")
            \/ /\ x.poisoned = d.poisoned
               /\ x.context = IF r.shape = "error" \/ q.code \in {"policy", "externalize"}
                              THEN d.context
                              ELSE IF q.code = "create" THEN r.context ELSE 0
<1>1. r.context \in Nat
  BY DEF Replies
<1>2. CASE r.shape = "oversize"
  BY <1>2, PoisonIs
<1>3. CASE r.shape = "error"
  <2>1. ReplyAction(q, r) = "accept"
    BY <1>3 DEF ReplyAction
  <2>2. x = d
    BY <1>3, <2>1 DEF RecordReply
  <2> QED
    BY <1>3, <2>2
<1>4. CASE r.shape = "short"
  <2>1. ReplyAction(q, r) = "poison"
    BY <1>4 DEF ReplyAction
  <2>2. x = Poison(d)
    BY <1>4, <2>1 DEF RecordReply
  <2> QED
    BY <1>4, <2>2, PoisonIs
<1>5. CASE r.shape \notin {"oversize", "error", "short"} /\ q.code = "create"
  <2>1. ReplyAction(q, r) = "set"
    BY <1>5 DEF ReplyAction
  <2>2. x = [d EXCEPT !.context = r.context]
    BY <1>5, <2>1 DEF RecordReply
  <2> QED
    BY <1>1, <1>5, <2>2 DEF Drivers
<1>6. CASE r.shape \notin {"oversize", "error", "short"} /\ q.code = "delete"
  <2>1. ReplyAction(q, r) = "clear"
    BY <1>6 DEF ReplyAction
  <2>2. x = [d EXCEPT !.context = 0]
    BY <1>6, <2>1 DEF RecordReply, NoContext
  <2> QED
    BY <1>6, <2>2 DEF Drivers
<1>7. CASE r.shape \notin {"oversize", "error", "short"} /\ q.code \in {"policy", "externalize"}
  <2>1. ReplyAction(q, r) = "accept"
    BY <1>7 DEF ReplyAction
  <2>2. x = d
    BY <1>7, <2>1 DEF RecordReply
  <2> QED
    BY <1>7, <2>2
<1> QED
  BY <1>2, <1>3, <1>4, <1>5, <1>6, <1>7

(* Where a reply takes a process. *)
LEMMA AfterReplyIs ==
  ASSUME NEW at \in Exchanging, NEW kind, NEW r, r.shape \in Shapes,
         at = "observe" => r.shape # "odd"
  PROVE  LET a == AfterReply(at, kind, r)
         IN  /\ a \in (Exchanging \ {"observe"}) \cup {"idle", "consumer", "close"}
             /\ a = "idle" <=> at = "observe"
             /\ a = "consumer" =>
                  at = "final" /\ r.satisfied /\ r.shape \in {"ok", "unbound"}
<1>1. CASE r.shape = "odd"
  BY <1>1 DEF AfterReply, Exchanging
<1>2. CASE r.shape \notin {"ok", "odd", "unbound"}
  <2>1. AfterReply(at, kind, r) = AfterFailure(at)
    BY <1>2 DEF AfterReply
  <2> QED
    BY <2>1, AfterFailureIs DEF Exchanging
<1>3. CASE r.shape \in {"ok", "unbound"}
  <2>1. CASE at = "create"
    BY <1>3, <2>1 DEF AfterReply, AfterCreate, Exchanging
  <2>2. CASE at = "preflight"
    BY <1>3, <2>2 DEF AfterReply, AfterPreflight, Exchanging
  <2>3. CASE at = "final"
    BY <1>3, <2>3 DEF AfterReply, Exchanging
  <2>4. CASE at \in {"externalize", "bind", "delete", "observe"}
    BY <1>3, <2>4 DEF AfterReply, Exchanging
  <2> QED
    BY <2>1, <2>2, <2>3, <2>4 DEF Exchanging
<1> QED
  BY <1>1, <1>2, <1>3

(* The reply that ends the wait is the answer to the request, or a whole  *)
(* round of AKS transactions late.                                        *)
LEMMA AcceptedIs ==
  ASSUME Inv, ~Free, inbox # <<>>, inbox' = Tail(inbox), Answers(Head(inbox), call.request)
  PROVE  LET q == call.request
             r == Head(inbox)
         IN  /\ r \in Replies /\ r.endpoint = q.endpoint
             /\ q.endpoint # "acm" => r.shape \in {"ok", "error", "unbound"}
             /\ r.code # "create" => r.shape \notin {"short", "odd"}
             /\ \/ r.id = q.id /\ body[q.endpoint] = q.id
                \/ q.endpoint = "aks" /\ q.id - r.id >= Transactions
             /\ AcmCall => Outcome(q, r) /\ outbox["acm"] = <<>> /\ NoAcm'
<1> DEFINE q == call.request
           r == Head(inbox)
           e == q.endpoint
<1>1. q \in Requests /\ e \in Endpoints /\ q.id \in Nat
  BY CallIs DEF Requests
<1>2. r = inbox[1] /\ 1 \in 1 .. Len(inbox) /\ r \in Replies \cup {Notice}
  BY PopIs
<1>3. r.endpoint = e /\ r.tag = q.tag
  BY DEF Answers
<1>4. r # Notice /\ r \in Replies /\ r.id \in Nat
  BY <1>1, <1>2, <1>3 DEF Notice, Endpoints, Replies
<1>5. /\ Written(e, r)
      /\ e # "acm" => r.shape \in {"ok", "error", "unbound"}
      /\ r.code # "create" => r.shape \notin {"short", "odd"}
  BY <1>2, <1>3, <1>4 DEF Inv, Mail, Inbound
<1>6. /\ q.id = sent[e] /\ Written(e, q) /\ (r.id = q.id => body[e] = q.id)
  BY <1>2, <1>3 DEF Inv, Mail, Current
<1>7. /\ Tag(e, r.id) = Tag(e, q.id) /\ r.id \in Nat \ {0} /\ q.id \in Nat \ {0}
      /\ r.id <= q.id
  BY <1>1, <1>3, <1>4, <1>5, <1>6 DEF Written
<1>8. AcmCall => Outcome(q, r) /\ outbox["acm"] = <<>> /\ NoAcm'
  <2> SUFFICES ASSUME AcmCall PROVE Outcome(q, r) /\ outbox["acm"] = <<>> /\ NoAcm'
    OBVIOUS
  <2>1. e = "acm"
    BY DEF AcmCall
  <2>2. ~NoAcm
    BY <1>2, <1>3, <2>1 DEF NoAcm
  <2>3. /\ outbox["acm"] = <<>>
        /\ \A i \in 1 .. Len(inbox) : inbox[i].endpoint = "acm" => Outcome(q, inbox[i])
    BY <2>2 DEF Inv, Waiting
  <2>4. ASSUME NEW i \in 1 .. Len(inbox'), inbox'[i].endpoint = "acm" PROVE FALSE
    <3>1. i + 1 \in 1 .. Len(inbox) /\ inbox'[i] = inbox[i + 1] /\ 1 \in 1 .. (i + 1) - 1
      BY PopIs
    <3>2. inbox[i + 1].id = q.id /\ inbox[1].id = q.id
      BY <3>1, <2>1, <2>3, <2>4, <1>2, <1>3 DEF Outcome
    <3>3. inbox[i + 1] # Notice
      BY <3>1, <2>4 DEF Notice
    <3>4. inbox[1].id < inbox[i + 1].id
      BY <3>1, <3>3, <2>1, <2>4, <1>2, <1>3 DEF Inv, Mail, Inbound
    <3> QED
      BY <3>2, <3>4, <1>1
  <2> QED
    BY <2>1, <2>3, <2>4, <1>2, <1>3 DEF NoAcm
<1> HIDE DEF q, r
<1>9. r.id = q.id \/ (e = "aks" /\ q.id - r.id >= Transactions)
  <2>1. CASE e = "control"
    BY <1>7, <2>1 DEF Tag
  <2>2. CASE e = "acm"
    BY <1>8, <2>2 DEF AcmCall, q, Outcome
  <2>3. CASE e = "aks"
    <3>1. Transaction(r.id) = Transaction(q.id)
      BY <1>7, <2>3 DEF Tag
    <3>2. PICK a \in Nat, b \in Nat : a = r.id - 1 /\ b = q.id - 1
      BY <1>7
    <3>3. /\ a % Transactions \in 0 .. Transactions - 1
          /\ b % Transactions \in 0 .. Transactions - 1
      BY Division, Bounds
    <3>4. (a % Transactions) + 1 = (b % Transactions) + 1
      BY <3>1, <3>2 DEF Transaction
    <3>5. a % Transactions = b % Transactions
      BY <3>3, <3>4, Bounds
    <3>6. a <= b
      BY <1>7, <3>2
    <3>7. a = b \/ b - a >= Transactions
      BY <3>5, <3>6, Round, Bounds
    <3> QED
      BY <1>7, <2>3, <3>2, <3>7
  <2> QED
    BY <1>1, <2>1, <2>2, <2>3 DEF Endpoints
<1> QED
  BY <1>3, <1>4, <1>5, <1>6, <1>8, <1>9 DEF q, r

LEMMA CompleteKeeps ==
  ASSUME Inv, ~Free, inbox # <<>>, inbox' = Tail(inbox),
         Answers(Head(inbox), call.request), Complete(Head(inbox)),
         UNCHANGED <<sent, outbox, body, sep>>
  PROVE  Inv'
<1> DEFINE q == call.request
           r == Head(inbox)
           p == call.by
           e == q.endpoint
           at == proc[p].at
           recorded == IF r.shape = "oversize" THEN Poison(driver)
                       ELSE RecordReply(driver, q, r)
<1>1. /\ q \in Requests /\ e \in Endpoints /\ p \in Procs \cup {"probe"}
      /\ "probe" \notin Procs /\ "nobody" \notin Procs /\ q.id \in Nat /\ q.context \in Nat
  BY CallIs DEF Requests
<1>2. /\ r \in Replies /\ r.endpoint = e
      /\ e # "acm" => r.shape \in {"ok", "error", "unbound"}
      /\ r.code # "create" => r.shape \notin {"short", "odd"}
      /\ \/ r.id = q.id /\ body[e] = q.id
         \/ e = "aks" /\ q.id - r.id >= Transactions
      /\ AcmCall => Outcome(q, r) /\ outbox["acm"] = <<>> /\ NoAcm'
  BY AcceptedIs
<1>3. driver \in Drivers /\ proc \in [Procs -> States] /\ r.shape \in Shapes
      /\ r.context \in Nat
  BY <1>2 DEF Inv, Types, Replies
<1>4. /\ call' = NoCall
      /\ last' = [endpoint |-> e, behind |-> q.id - r.id, bodyBehind |-> q.id - body[e]]
  BY DEF Complete
<1>5. Mail' /\ inbox' \in Seq(Replies \cup {Notice})
  BY <1>4, ReceiveMail DEF Inv
<1>6. (NoAcm => NoAcm') /\ (AcmCall <=> e = "acm")
  BY PopIs DEF AcmCall
<1>7. OwnReply'
  <2>1. CASE r.id = q.id /\ body[e] = q.id
    BY <1>1, <1>4, <2>1 DEF OwnReply
  <2>2. CASE e = "aks" /\ q.id - r.id >= Transactions
    BY <1>4, <2>2 DEF OwnReply
  <2> QED
    BY <1>2, <2>1, <2>2
<1>8. CASE p = "probe"
  <2>1. /\ driver' = IF r.shape = "ok" THEN ProbeSucceeds(driver) ELSE ProbeFails(driver)
        /\ proc' = proc
    BY <1>1, <1>8 DEF Complete
  <2>2. ~AcmCall /\ driver.stage \in {"register", "negotiate"}
    BY <1>8, CallIs DEF Inv, Calling
  <2>3. driver.stage = "register" => driver.acked < Tags
    BY DEF Inv, Sessions
  <2>4. /\ driver' \in Drivers /\ driver'.opened = driver.opened
        /\ driver'.poisoned = driver.poisoned /\ driver'.context = driver.context
        /\ driver'.stage = "register" => driver'.acked < Tags
    BY <1>3, <2>1, <2>2, <2>3, ProbeFailsIs, ProbeSucceedsIs
  <2>5. Sessions' /\ Consuming'
    BY <2>1, <2>4 DEF Inv, Sessions, Consuming, Tags
  <2>6. Quiet'
    BY <1>6, <2>2, <2>4 DEF Inv, Quiet, OnRecord
  <2> QED
    BY <1>3, <1>4, <1>5, <1>7, <2>1, <2>4, <2>5, <2>6, ExchangeEnds
<1>9. CASE p \in Procs /\ at = "close"
  <2>1. /\ driver' = IF r.shape = "ok" THEN Closed([driver EXCEPT !.context = NoContext])
                     ELSE Closed(Poison(driver))
        /\ Forgotten(p)
    BY <1>1, <1>9 DEF Complete
  <2>2. /\ driver' \in Drivers /\ driver'.opened = "nobody" /\ driver'.context = 0
        /\ driver'.stage = driver.stage /\ driver'.acked = driver.acked
        /\ r.shape # "ok" => driver'.poisoned
    <3>1. PICK d : d = [driver EXCEPT !.context = NoContext]
      OBVIOUS
    <3>2. d \in Drivers /\ d.context = 0 /\ d.stage = driver.stage /\ d.acked = driver.acked
      BY <1>3, <3>1 DEF Drivers, NoContext
    <3>3. /\ Closed(d) \in Drivers /\ Closed(d).opened = "nobody" /\ Closed(d).context = 0
          /\ Closed(d).stage = driver.stage /\ Closed(d).acked = driver.acked
      BY <3>2, ClosedIs
    <3>4. LET x == Closed(Poison(driver))
          IN  /\ x \in Drivers /\ x.opened = "nobody" /\ x.context = 0 /\ x.poisoned
              /\ x.stage = driver.stage /\ x.acked = driver.acked
      BY <1>3, ClosedIs, PoisonIs
    <3>5. driver' = IF r.shape = "ok" THEN Closed(d) ELSE Closed(Poison(driver))
      BY <2>1, <3>1
    <3> HIDE DEF r
    <3> QED
      BY <3>3, <3>4, <3>5
  <2>3. /\ proc' \in [Procs -> States] /\ Sessions'
        /\ \A u \in Procs : proc'[u].at # "consumer"
    BY <1>9, <2>1, <2>2, ForgottenIs
  <2>4. Consuming'
    BY <2>3 DEF Inv, Consuming
  <2>5. AcmCall /\ q.code = "delete"
    BY <1>9, CallIs DEF Inv, Calling, CodeAt, AksSteps
  <2>6. r.shape = "ok" => sep.live = {}
    BY <1>2, <2>5 DEF Outcome
  <2>7. Quiet'
    <3>1. CASE r.shape # "ok"
      BY <2>2, <3>1 DEF Quiet
    <3>2. CASE r.shape = "ok"
      <4>1. OnRecord'
        BY <2>2, <2>6, <3>2 DEF OnRecord
      <4> QED
        BY <1>2, <2>5, <4>1 DEF Quiet
    <3> QED
      BY <3>1, <3>2
  <2> QED
    BY <1>4, <1>5, <1>7, <2>2, <2>3, <2>4, <2>7, ExchangeEnds
<1>10. CASE p \in Procs /\ at # "close"
  <2> DEFINE a == AfterReply(at, proc[p].kind, r)
             c == IF q.code = "create" THEN r.context ELSE proc[p].context
             s == Holding(a, proc[p].kind, proc[p].generation, c)
  <2>1. /\ driver' = IF e = "acm" THEN recorded ELSE driver
        /\ proc' = [proc EXCEPT ![p] = s]
    BY <1>1, <1>10 DEF Complete, Becomes
  <2>2. /\ at \in Exchanging /\ (AcmCall <=> at \notin AksSteps)
        /\ q.code = CodeAt(at)
        /\ at \notin {"create", "close", "observe"} => q.context = proc[p].context
    BY <1>10, CallIs DEF Inv, Calling
  <2>3. at = "observe" => r.shape # "odd"
    BY <1>2, <1>6, <2>2 DEF AksSteps
  <2>4. /\ a \in (Exchanging \ {"observe"}) \cup {"idle", "consumer", "close"}
        /\ a = "idle" <=> at = "observe"
        /\ a = "consumer" => at = "final" /\ r.satisfied /\ r.shape \in {"ok", "unbound"}
    BY <1>3, <2>2, <2>3, AfterReplyIs
  <2>5. proc[p] \in States /\ c \in Nat
    BY <1>3, <1>10 DEF States
  <2> HIDE DEF a, c
  <2>6. s \in States /\ s.at = a /\ s.context = c
    BY <2>4, <2>5 DEF States, Holding, Exchanging
  <2> HIDE DEF s
  <2>7. /\ proc' \in [Procs -> States] /\ proc'[p] = s
        /\ \A u \in Procs : u # p => proc'[u] = proc[u]
    BY <1>3, <1>10, <2>1, <2>6
  <2>8. at # "observe" => driver.opened = p
    BY <1>10, <2>2 DEF Inv, Sessions, Exchanging
  <2>9. CASE e # "acm"
    <3>1. driver' = driver /\ ~AcmCall /\ at \in AksSteps
      BY <2>1, <2>2, <2>9, <1>6
    <3>2. a # "consumer"
      BY <2>4, <3>1 DEF AksSteps
    <3>3. Sessions'
      BY <2>4, <2>6, <2>7, <2>8, <3>1 DEF Inv, Sessions, Tags
    <3>4. Quiet'
      BY <1>6, <3>1 DEF Inv, Quiet, OnRecord
    <3>5. Consuming'
      BY <2>6, <2>7, <3>1, <3>2 DEF Inv, Consuming
    <3> QED
      BY <1>3, <1>4, <1>5, <1>7, <2>7, <3>1, <3>3, <3>4, <3>5, ExchangeEnds
  <2>10. CASE e = "acm"
    <3>1. /\ AcmCall /\ Outcome(q, r) /\ outbox["acm"] = <<>> /\ NoAcm'
          /\ r.code = q.code
      BY <1>2, <1>6, <2>10 DEF Outcome
    <3>2. q.code \in {"create", "delete", "policy", "externalize"} /\ q.id # 0
      BY <2>10, <1>1 DEF Inv, Mail, Current, Written, CodesOf
    <3>3. driver' = recorded
      BY <2>1, <2>10
    <3>4. q.code # "create" => r.shape # "short"
      BY <1>2, <3>1
    <3> HIDE DEF q, r
    <3>5. /\ driver' \in Drivers /\ driver'.opened = driver.opened
          /\ driver'.stage = driver.stage /\ driver'.acked = driver.acked
          /\ \/ /\ driver'.poisoned /\ driver'.context = 0
                /\ q.code = "create" \/ r.shape = "oversize"
             \/ /\ driver'.poisoned = driver.poisoned
                /\ driver'.context =
                      IF r.shape = "error" \/ q.code \in {"policy", "externalize"}
                      THEN driver.context
                      ELSE IF q.code = "create" THEN r.context ELSE 0
      BY <1>1, <1>2, <1>3, <3>2, <3>3, <3>4, RecordIs
    <3>6. ~driver.poisoned /\ driver.opened = p /\ at # "observe"
      BY <3>1, <2>2, <2>8 DEF Inv, Waiting, AksSteps
    <3>7. OnRecord' \/ driver'.poisoned
      <4>1. CASE r.shape = "error" \/ q.code \in {"policy", "externalize"}
        BY <3>1, <3>5, <4>1 DEF Outcome, OnRecord
      <4>2. CASE r.shape # "error" /\ q.code = "create"
        <5>1. sep.live = {q.id} /\ r.context = q.id
          BY <3>1, <4>2 DEF Outcome
        <5> QED
          BY <3>2, <3>5, <4>2, <5>1 DEF OnRecord
      <4>3. CASE r.shape # "error" /\ q.code = "delete"
        <5>1. sep.live = {}
          BY <3>1, <4>3 DEF Outcome
        <5> QED
          BY <3>5, <4>3, <5>1 DEF OnRecord
      <4> QED
        BY <3>2, <4>1, <4>2, <4>3
    <3>8. Quiet'
      BY <3>1, <3>7 DEF Quiet
    <3>9. Sessions'
      <4>1. \A u \in Procs : proc'[u].at \notin {"idle", "observe"} => driver'.opened = u
        BY <2>7, <3>5, <3>6 DEF Inv, Sessions
      <4>2. driver'.opened = "nobody" \/ driver'.poisoned => driver'.context = 0
        BY <1>1, <1>10, <3>5, <3>6
      <4> QED
        BY <4>1, <4>2, <3>5 DEF Inv, Sessions, Tags
    <3>10. Consuming'
      <4> SUFFICES ASSUME NEW u \in Procs, proc'[u].at = "consumer"
                   PROVE  ~driver'.poisoned /\ proc'[u].context \in sep'.bound
        BY DEF Inv, Consuming
      <4>1. CASE u # p
        BY <4>1, <2>7, <3>1, ConsumerAlone
      <4>2. CASE u = p
        <5>1. at = "final" /\ r.satisfied /\ r.shape # "oversize"
          BY <2>4, <2>6, <2>7, <4>2 DEF r
        <5>2. q.code = "policy" /\ q.context = proc[p].context
          BY <2>2, <5>1 DEF CodeAt, q
        <5>3. q.context \in sep.bound
          BY <3>1, <5>1, <5>2 DEF Outcome
        <5>4. proc'[u].context = q.context
          BY <2>6, <2>7, <4>2, <5>2 DEF c, q
        <5> QED
          BY <3>5, <3>6, <5>1, <5>2, <5>3, <5>4
      <4> QED
        BY <4>1, <4>2
    <3> QED
      BY <1>4, <1>5, <1>7, <2>7, <3>5, <3>8, <3>9, <3>10, ExchangeEnds
  <2> QED
    BY <2>9, <2>10
<1> QED
  BY <1>1, <1>8, <1>9, <1>10

LEMMA ReceiveKeeps ==
  ASSUME Inv, Receive
  PROVE  Inv'
<1>1. /\ ~Free /\ inbox # <<>> /\ inbox' = Tail(inbox)
      /\ UNCHANGED <<sent, outbox, body, sep>>
  BY DEF Receive
<1>2. CASE Answers(Head(inbox), call.request) /\ Complete(Head(inbox))
  BY <1>1, <1>2, CompleteKeeps
<1>3. CASE call' = [call EXCEPT !.skipped = @ + 1] /\ UNCHANGED <<driver, proc, last>>
  BY <1>1, <1>3, SkipKeeps
<1>4. CASE GiveUp /\ UNCHANGED last
  <2>1. call' = NoCall
    BY <1>4 DEF GiveUp
  <2>2. Mail' /\ inbox' \in Seq(Replies \cup {Notice})
    BY <1>1, <2>1, ReceiveMail DEF Inv
  <2>3. NoAcm => NoAcm'
    BY <1>1, PopIs
  <2> QED
    BY <1>1, <1>4, <2>2, <2>3, GiveUpKeeps
<1> QED
  BY <1>2, <1>3, <1>4 DEF Receive

-----------------------------------------------------------------------------
(* The Secure Enclave. *)

(* What carrying out a request does to the contexts. *)
LEMMA CarriedOut ==
  ASSUME Inv, NEW e \in Endpoints, NEW q \in Requests, q.code \in CodesOf(e), NEW shape,
         sep' = IF shape \in {"error", "unbound"} THEN sep ELSE CarryOut(q)
  PROVE  /\ sep' \in [registered : SUBSET Nat, live : SUBSET Nat, bound : SUBSET Nat]
         /\ sep'.bound \subseteq sep'.live
         /\ e # "acm" => sep'.live = sep.live /\ sep.bound \subseteq sep'.bound
         /\ q.code \in {"policy", "externalize"} \/ shape = "error" => sep' = sep
         /\ q.code = "create" /\ shape \notin {"error", "unbound"} =>
              sep'.live = sep.live \cup {q.id}
         /\ q.code = "delete" /\ shape \notin {"error", "unbound"} =>
              sep'.live = sep.live \ {q.context}
<1>1. /\ sep \in [registered : SUBSET Nat, live : SUBSET Nat, bound : SUBSET Nat]
      /\ sep.bound \subseteq sep.live /\ q.id \in Nat /\ q.tag \in Nat /\ q.context \in Nat
  BY DEF Inv, Types, Consuming, Requests
<1>2. e # "acm" <=> q.code \notin {"create", "delete", "policy", "externalize"}
  <2>1. CASE e = "control"
    BY <2>1 DEF CodesOf
  <2>2. CASE e = "aks"
    BY <2>2 DEF CodesOf
  <2>3. CASE e = "acm"
    BY <2>3 DEF CodesOf
  <2> QED
    BY <2>1, <2>2, <2>3 DEF Endpoints
<1>3. CASE shape \in {"error", "unbound"}
  <2>1. sep' = sep
    BY <1>3
  <2> QED
    BY <1>1, <1>3, <2>1
<1>4. CASE shape \notin {"error", "unbound"} /\ q.code = "register"
  <2>1. sep' = [sep EXCEPT !.registered = sep.registered \cup {q.tag}]
    BY <1>4 DEF CarryOut
  <2> QED
    BY <1>1, <1>2, <1>4, <2>1
<1>5. CASE shape \notin {"error", "unbound"} /\ q.code = "create"
  <2>1. sep' = [sep EXCEPT !.live = sep.live \cup {q.id}]
    BY <1>5 DEF CarryOut
  <2> QED
    BY <1>1, <1>2, <1>5, <2>1
<1>6. CASE shape \notin {"error", "unbound"} /\ q.code = "delete"
  <2>1. sep' = [sep EXCEPT !.live = sep.live \ {q.context},
                           !.bound = sep.bound \ {q.context}]
    BY <1>6 DEF CarryOut
  <2>2. ASSUME NEW t \in [registered : SUBSET Nat, live : SUBSET Nat, bound : SUBSET Nat],
               NEW l \in SUBSET Nat, NEW b \in SUBSET Nat, NEW x,
               x = [t EXCEPT !.live = l, !.bound = b]
        PROVE  /\ x \in [registered : SUBSET Nat, live : SUBSET Nat, bound : SUBSET Nat]
               /\ x.live = l /\ x.bound = b
    BY <2>2
  <2>3. /\ sep' \in [registered : SUBSET Nat, live : SUBSET Nat, bound : SUBSET Nat]
        /\ sep'.live = sep.live \ {q.context} /\ sep'.bound = sep.bound \ {q.context}
    <3>1. sep.live \ {q.context} \in SUBSET Nat /\ sep.bound \ {q.context} \in SUBSET Nat
      BY <1>1
    <3> QED
      BY <1>1, <2>1, <2>2, <3>1
  <2> QED
    BY <1>1, <1>2, <1>6, <2>3
<1>7. CASE shape \notin {"error", "unbound"} /\ q.code = "verify"
  <2>1. sep' = [sep EXCEPT !.bound = sep.bound \cup ({q.context} \cap sep.live)]
    BY <1>7 DEF CarryOut
  <2> QED
    BY <1>1, <1>2, <1>7, <2>1
<1>8. CASE /\ shape \notin {"error", "unbound"}
           /\ q.code \in {"policy", "externalize", "state", "capabilities"}
  <2>1. sep' = sep
    BY <1>8 DEF CarryOut
  <2> QED
    BY <1>1, <1>2, <1>8, <2>1
<1>9. q.code \in Codes
  BY DEF Requests
<1> QED
  BY <1>3, <1>4, <1>5, <1>6, <1>7, <1>8, <1>9 DEF Codes

LEMMA EnclaveAnswersKeeps ==
  ASSUME Inv, NEW e \in Endpoints, EnclaveAnswers(e)
  PROVE  Inv'
<1> DEFINE q == Head(outbox[e])
<1>1. PICK shape \in ShapesOf(q) :
        /\ sep' = IF shape \in {"error", "unbound"} THEN sep ELSE CarryOut(q)
        /\ inbox' = Append(inbox, Reply(e, q, shape))
        /\ body' = [body EXCEPT ![e] = q.id]
  BY DEF EnclaveAnswers, Reply
<1>2. /\ outbox[e] # <<>> /\ outbox' = [outbox EXCEPT ![e] = Tail(outbox[e])]
      /\ UNCHANGED <<driver, call, proc, sent, last, begun>>
  BY DEF EnclaveAnswers
<1>3. outbox[e] \in Seq(Requests) /\ q \in Requests /\ q = outbox[e][1]
      /\ 1 \in 1 .. Len(outbox[e])
  BY <1>2 DEF Inv, Types
<1>4. q.endpoint = e /\ q.code \in CodesOf(e)
  BY <1>3 DEF Inv, Mail, Outbound, Written
<1>5. /\ shape \in Shapes
      /\ e = "acm" => shape # "unbound"
  <2> HIDE DEF q
  <2>1. CASE e = "acm" /\ q.code = "create"
    BY <1>1, <1>4, <2>1 DEF ShapesOf, Shapes
  <2>2. CASE e = "acm" /\ q.code # "create"
    <3>1. q.code # "verify"
      BY <1>4, <2>2 DEF CodesOf
    <3> QED
      BY <1>1, <1>4, <2>2, <3>1 DEF ShapesOf, Shapes
  <2>3. CASE e # "acm" /\ q.code = "verify"
    BY <1>1, <1>4, <2>3 DEF ShapesOf, Shapes
  <2>4. CASE e # "acm" /\ q.code # "verify"
    BY <1>1, <1>4, <2>4 DEF ShapesOf, Shapes
  <2> QED
    BY <2>1, <2>2, <2>3, <2>4
<1>6. /\ Mail' /\ inbox' \in Seq(Replies \cup {Notice})
      /\ outbox' \in [Endpoints -> Seq(Requests)] /\ body' \in [Endpoints -> Nat]
  BY <1>1, <1>2, <1>5, AnswersMail DEF Inv
<1>7. PICK r : r = Reply(e, q, shape)
  OBVIOUS
<1> HIDE DEF q
<1>8. /\ r \in Replies /\ r.endpoint = e /\ r.id = q.id /\ r.code = q.code
      /\ r.shape = shape /\ r.satisfied = (q.context \in sep.bound)
      /\ q.code = "create" => r.context = q.id
  BY <1>3, <1>5, <1>7, ReplyIs
<1>9. /\ sep' \in [registered : SUBSET Nat, live : SUBSET Nat, bound : SUBSET Nat]
      /\ sep'.bound \subseteq sep'.live
      /\ e # "acm" => sep'.live = sep.live /\ sep.bound \subseteq sep'.bound
      /\ q.code \in {"policy", "externalize"} \/ shape = "error" => sep' = sep
      /\ q.code = "create" /\ shape \notin {"error", "unbound"} =>
           sep'.live = sep.live \cup {q.id}
      /\ q.code = "delete" /\ shape \notin {"error", "unbound"} =>
           sep'.live = sep.live \ {q.context}
  BY <1>1, <1>3, <1>4, CarriedOut
<1>10. Types'
  BY <1>2, <1>6, <1>9 DEF Inv, Types
<1>11. Sessions' /\ Calling' /\ OwnReply'
  BY <1>2 DEF Inv, Sessions, Calling, OwnReply, Free, Tags
<1>12. \A i \in 1 .. Len(inbox') :
         (i \in 1 .. Len(inbox) /\ inbox'[i] = inbox[i]) \/ (i = Len(inbox) + 1 /\ inbox'[i] = r)
  <2>1. inbox \in Seq(Replies \cup {Notice}) /\ inbox' = Append(inbox, r)
    BY <1>1, <1>7 DEF Inv, Types, q
  <2> QED
    BY <2>1
<1>13. e # "acm" => outbox'["acm"] = outbox["acm"] /\ (NoAcm => NoAcm') /\ (OnRecord => OnRecord')
  BY <1>2, <1>8, <1>9, <1>12 DEF NoAcm, OnRecord, Inv, Types, Endpoints
<1>14. AcmCall' <=> AcmCall
  BY <1>2 DEF AcmCall, Free
<1>15. Quiet'
  BY <1>2, <1>13, <1>14 DEF Inv, Quiet
<1>16. Waiting'
  <2> SUFFICES ASSUME AcmCall
               PROVE  LET c == call.request
                      IN  /\ ~driver.poisoned
                          /\ IF c.code = "create" THEN driver.context = 0
                             ELSE driver.context = c.context /\ c.context # 0
                          /\ \/ outbox'["acm"] = <<c>> /\ NoAcm' /\ OnRecord'
                             \/ /\ outbox'["acm"] = <<>>
                                /\ \A i \in 1 .. Len(inbox') :
                                     inbox'[i].endpoint = "acm" => Outcome(c, inbox[i])'
    BY <1>2, <1>14 DEF Waiting, Outcome
  <2> DEFINE c == call.request
  <2>1. /\ ~driver.poisoned
        /\ IF c.code = "create" THEN driver.context = 0
           ELSE driver.context = c.context /\ c.context # 0
    BY DEF Inv, Waiting
  <2>2. \/ outbox["acm"] = <<c>> /\ NoAcm /\ OnRecord
        \/ /\ outbox["acm"] = <<>>
           /\ \A i \in 1 .. Len(inbox) : inbox[i].endpoint = "acm" => Outcome(c, inbox[i])
    BY DEF Inv, Waiting
  <2>3. c' = c
    BY <1>2
  <2>4. CASE e # "acm"
    <3>1. CASE outbox["acm"] = <<c>> /\ NoAcm /\ OnRecord
      BY <1>13, <2>1, <2>4, <3>1
    <3>2. CASE /\ outbox["acm"] = <<>>
               /\ \A i \in 1 .. Len(inbox) : inbox[i].endpoint = "acm" => Outcome(c, inbox[i])
      <4>1. ASSUME NEW i \in 1 .. Len(inbox'), inbox'[i].endpoint = "acm"
            PROVE  Outcome(c, inbox[i])'
        <5>1. i \in 1 .. Len(inbox) /\ inbox'[i] = inbox[i]
          BY <1>8, <1>12, <2>4, <4>1
        <5>2. Outcome(c, inbox[i])
          BY <3>2, <4>1, <5>1
        <5>3. OnRecord => OnRecord'
          BY <1>13, <2>4
        <5> HIDE DEF c
        <5> QED
          BY <1>9, <2>3, <2>4, <5>1, <5>2, <5>3 DEF Outcome
      <4> QED
        BY <1>13, <2>1, <2>4, <3>2, <4>1
    <3> QED
      BY <2>2, <3>1, <3>2
  <2>5. CASE e = "acm"
    <3>1. outbox["acm"] = <<c>> /\ NoAcm /\ OnRecord
      BY <1>2, <2>2, <2>5
    <3>2. q = c
      BY <2>5, <3>1, <1>3
    <3>3. outbox'["acm"] = <<>>
      <4>1. outbox'["acm"] = Tail(<<c>>)
        BY <1>2, <2>5, <3>1 DEF Inv, Types
      <4> QED
        BY <4>1
    <3>4. q.code \in {"create", "delete", "policy", "externalize"}
      BY <1>4, <2>5 DEF CodesOf
    <3>5. ASSUME NEW i \in 1 .. Len(inbox'), inbox'[i].endpoint = "acm"
          PROVE  Outcome(c, inbox[i])'
      <4>1. inbox'[i] = r
        BY <1>12, <3>1, <3>5 DEF NoAcm
      <4>2. r.satisfied /\ q.code = "policy" => q.context \in sep'.bound
        BY <1>8, <1>9
      <4>3. IF r.shape = "error" \/ q.code \in {"policy", "externalize"} THEN OnRecord'
            ELSE IF q.code = "create" THEN sep'.live = {q.id} /\ r.context = q.id
            ELSE sep'.live = {}
        <5>1. CASE r.shape = "error" \/ q.code \in {"policy", "externalize"}
          BY <5>1, <1>2, <1>8, <1>9, <3>1 DEF OnRecord
        <5>2. CASE r.shape # "error" /\ q.code = "create"
          <6>1. sep.live = {}
            BY <2>1, <3>1, <3>2, <5>2 DEF OnRecord
          <6>2. sep'.live = sep.live \cup {q.id}
            BY <1>5, <1>8, <1>9, <2>5, <5>2
          <6> QED
            BY <5>2, <6>1, <6>2, <1>8
        <5>3. CASE r.shape # "error" /\ q.code = "delete"
          <6>1. sep.live = {q.context}
            BY <2>1, <3>1, <3>2, <5>3 DEF OnRecord
          <6>2. sep'.live = sep.live \ {q.context}
            BY <1>5, <1>8, <1>9, <2>5, <5>3
          <6> QED
            BY <5>3, <6>1, <6>2
        <5> QED
          BY <3>4, <5>1, <5>2, <5>3
      <4> HIDE DEF c
      <4> QED
        BY <4>1, <4>2, <4>3, <1>8, <2>3, <3>2 DEF Outcome
    <3> QED
      BY <2>1, <3>3, <3>5
  <2> QED
    BY <2>4, <2>5
<1>17. Consuming'
  <2>1. ASSUME NEW p \in Procs, proc[p].at = "consumer"
        PROVE  ~driver.poisoned /\ proc[p].context \in sep'.bound
    <3>1. e # "acm"
      BY <1>2, <2>1, ConsumerAlone
    <3> QED
      BY <2>1, <3>1, <1>9 DEF Inv, Consuming
  <2> QED
    BY <1>2, <1>9, <2>1 DEF Consuming
<1> QED
  BY <1>6, <1>10, <1>11, <1>15, <1>16, <1>17 DEF Inv

LEMMA EnclaveNotifiesKeeps ==
  ASSUME Inv, EnclaveNotifies
  PROVE  Inv'
<1>1. /\ inbox' = Append(inbox, Notice) /\ inbox = <<>>
      /\ UNCHANGED <<driver, call, proc, sent, outbox, body, sep, last>>
  BY DEF EnclaveNotifies, Notice
<1>2. Mail' /\ inbox' \in Seq(Replies \cup {Notice})
  BY <1>1, NoticeMail DEF Inv
<1>3. Types'
  BY <1>1, <1>2 DEF Inv, Types
<1>4. Sessions' /\ Calling' /\ OwnReply' /\ Consuming'
  BY <1>1 DEF Inv, Sessions, Calling, OwnReply, Consuming, Free, Tags
<1>5. \A i \in 1 .. Len(inbox') : inbox'[i].endpoint # "acm"
  <2>1. \A i \in 1 .. Len(inbox') : inbox'[i] = Notice
    BY <1>1
  <2> QED
    BY <2>1 DEF Notice
<1>6. Quiet' /\ Waiting'
  BY <1>1, <1>5 DEF Inv, Quiet, Waiting, NoAcm, AcmCall, Free, OnRecord
<1> QED
  BY <1>2, <1>3, <1>4, <1>6 DEF Inv

-----------------------------------------------------------------------------
(* The theorems. *)

LEMMA NextInv == Inv /\ [Next]_vars => Inv'
<1> SUFFICES ASSUME Inv, [Next]_vars PROVE Inv'
  OBVIOUS
<1>1. ASSUME NEW p \in Procs, Step(p) PROVE Inv'
  BY <1>1, BeginObservationKeeps, OpenKeeps, GetInfoKeeps, SendKeeps, RefusedKeeps,
     ConsumeOrKilledKeeps, ReleaseKeeps DEF Step
<1>2. CASE Driver
  BY <1>2, ProbeSendsKeeps, ExposeKeeps, ReceiveKeeps, ReceiveTimesOutKeeps DEF Driver
<1>3. CASE Enclave
  BY <1>3, EnclaveAnswersKeeps, EnclaveNotifiesKeeps DEF Enclave
<1>4. CASE UNCHANGED vars
  <2>1. UNCHANGED <<driver, call, proc, sent, outbox, inbox, body, sep, last>>
    BY <1>4 DEF vars
  <2> QED
    BY <2>1, MoveKeeps DEF Inv, Types, Sessions, Calling, Free, Tags
<1> QED
  BY <1>1, <1>2, <1>3, <1>4 DEF Next, Host

(* The inductive invariant holds in every state, whatever the transport's  *)
(* bounds, the number of transactions and the enclave's answers.           *)
THEOREM Invariant == Spec => []Inv
  BY InitInv, NextInv, PTL DEF Spec

(* No caller of the mailbox is handed the answer to another request, as    *)
(* long as no AKS reply is a whole round of transaction numbers late (the  *)
(* matching loops of t2_aks_exchange_locked and t2_acm_exchange_locked).   *)
THEOREM SepOwnReply == Spec => []OwnReply
<1>1. Inv => OwnReply
  BY DEF Inv
<1> QED
  BY <1>1, Invariant, PTL

(* Between two exchanges of an endpoint that is not poisoned, the context  *)
(* the driver has on record is the only one the enclave holds, and a       *)
(* closed device leaves none (t2_acm_record_reply_locked,                  *)
(* t2_acm_release).                                                        *)
THEOREM SepContextAccounted == Spec => []ContextAccounted
<1>1. Inv => ContextAccounted
  BY DEF Inv, Sessions, Quiet, AcmCall, OnRecord, ContextAccounted, NoContext
<1> QED
  BY <1>1, Invariant, PTL

(* The consumer of with_authorized_context runs only while its own context *)
(* is live in the enclave and the password is bound to it.                 *)
THEOREM SepConsumerAuthorized == Spec => []ConsumerAuthorized
<1>1. Inv => ConsumerAuthorized
  BY DEF Inv, Consuming, ConsumerAuthorized
<1> QED
  BY <1>1, Invariant, PTL
=============================================================================
