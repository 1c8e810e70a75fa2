------------------------- MODULE CitizenSigningProofs -------------------------
(***************************************************************************)
(* Proofs about CitizenSigning for any number of documents, requests,      *)
(* workers and senders, whatever fails and whatever the sweepers do.       *)
(*                                                                         *)
(* The argument: a document has one session and a session one job in its   *)
(* whole life, so what a job did to its document stays as it left it until *)
(* the job goes on (JobOf).  A reservation is the exception, for the       *)
(* sweeper may take it back: a job knows its number only from the          *)
(* confirmation on.  A webhook is queued once, when nothing else will      *)
(* change the document.  A request that holds the key is alone with it     *)
(* (KeyState).                                                             *)
(***************************************************************************)
EXTENDS CitizenSigning, FiniteSetTheorems, TLAPS

-----------------------------------------------------------------------------
(* What holds of a document *)

\* Documents that have a row of official_documents.
Holders == {d \in Docs : number[d].st # "none"}

\* The numbers in use, live or cancelled, are the first ones, one for each row;
\* a confirmed one has its document's PDF.
Numbering ==
  /\ \A d \in Docs : number[d].st = "none" <=> number[d].num = 0
  /\ \A d, e \in Holders : number[d].num = number[e].num => d = e
  /\ {number[d].num : d \in Holders} = 1 .. Cardinality(Holders)
  /\ \A d \in Docs : number[d].st = "CONFIRMED" => oficial[number[d].num] = d

\* Nothing happens to a document before its session is claimed, and the portal
\* is told nothing before the session is closed.
ProgressOf(d) ==
  /\ draft[d] = "none" => sess[d] = "none" /\ d \notin keyed
  /\ sess[d] \in {"none", "pending"} => number[d].st = "none"
  /\ sess[d] \in {"none", "pending", "processing"} => job[d] = NoJob /\ received[d] = {}
  /\ draft[d] = "signed" => number[d].st = "CONFIRMED"
Progress == \A d \in Docs : ProgressOf(d)

-----------------------------------------------------------------------------
(* What a job, a sender and a request rely on *)

JobOf(w) ==
  LET j == worker[w]
      d == worker[w].doc
  IN /\ j.at = "idle" => d = NoDoc
     /\ j.at # "idle" =>
          /\ d \in Docs
          /\ j.at # "tell" => sess[d] = "processing"
          /\ j.at = "tell" => sess[d] \in {"signed", "failed"} /\ job[d] = NoJob
                              /\ received[d] = {}
          /\ j.at \in {"compose", "sent", "check", "reserve"} => number[d].st = "none"
          /\ j.at \in {"stamp", "confirm"} =>
               /\ j.num \in Numbers
               /\ number[d].st \in {"none", "RESERVED", "CANCELLED"}
               /\ number[d].st # "none" => number[d].num = j.num
          /\ j.at \in {"upload", "finalize"} =>
               number[d] = [st |-> "CONFIRMING", num |-> j.num]
          /\ j.at = "finalize" => oficial[j.num] = d
          /\ j.at \in {"sign", "clean"} => number[d] = [st |-> "CONFIRMED", num |-> j.num]
          /\ j.at = "clean" => draft[d] = "signed"
          /\ j.at \in {"close", "tell"} => (j.ok <=> draft[d] = "signed")
          /\ j.at \notin {"clean", "close", "tell"} => draft[d] # "signed"
          /\ j.at \notin {"cancel", "close", "tell"} => j.ok
          /\ j.at = "cancel" => ~j.ok

\* Two jobs never have the same document.
OneJob == \A v, w \in Workers : worker[v].doc \in Docs /\ worker[v].doc = worker[w].doc => v = w

Jobs == OneJob /\ \A w \in Workers : JobOf(w)

Delivery ==
  /\ \A d \in Docs :
       /\ job[d].st = "none" <=> job[d].event = "none"
       /\ job[d].st \in {"pending", "processing"} => job[d].attempts < MaxAttempts
       /\ received[d] \subseteq {job[d].event}
       /\ job[d].event = "signed" => draft[d] = "signed"
       /\ job[d].event = "signature_failed" => draft[d] # "signed"
  /\ \A s \in Senders :
       sender[s].at # "idle" => sender[s].doc \in Docs /\ job[sender[s].doc].event \in Events

\* A document that a request has created and not yet queued is its own.
RequestOf(r) ==
  LET q == request[r] IN
  /\ q.at \in {"prepare", "enqueue", "revert", "complete"} => q.doc \in Docs
  /\ q.at \in {"prepare", "enqueue", "revert"} =>
       /\ draft[q.doc] # "none" /\ sess[q.doc] = "none"
       /\ ~q.keyed => q.doc \notin keyed
  /\ q.at \in {"purge", "insert", "read", "complete", "release"} => q.keyed
  /\ q.at = "idle" => ~q.keyed

OwnDocument ==
  \A r, q \in Requests :
    /\ request[r].at \in {"prepare", "enqueue", "revert"}
    /\ request[q].at \in {"prepare", "enqueue", "revert"}
    /\ request[r].doc = request[q].doc
    => r = q

\* The requests that went past the key, and the documents that left with it.
Admitted == {r \in Requests : /\ request[r].keyed
                              /\ request[r].at \notin {"purge", "insert", "read"}}
Queued == {d \in keyed : sess[d] # "none"}

\* Unless the key was free once more: one request is past it and the row is in
\* flight meanwhile; a document that left with the key keeps the row.
KeyState ==
  lapsed = {} =>
    /\ ~keyRow.expired
    /\ \A r \in Admitted : keyRow.st = "in_flight"
    /\ \A r, q \in Admitted : r = q
    /\ \A d \in Queued : keyRow.st # "none"
    /\ \A r \in Admitted : Queued # {} => request[r].at = "complete"
    /\ \A d, e \in Queued : d = e

Asking == OwnDocument /\ KeyState /\ \A r \in Requests : RequestOf(r)

IInv == TypeOK /\ Numbering /\ Progress /\ Jobs /\ Delivery /\ Asking

-----------------------------------------------------------------------------
(* What the operators that move a job, a request or a number do *)

Job4 == [at : Stages, doc : Docs \union {NoDoc}, num : {0} \union Numbers, ok : BOOLEAN]
NumberRow == [st : {"none", "RESERVED", "CONFIRMING", "CONFIRMED", "CANCELLED"},
              num : {0} \union Numbers]
OtherJobs(w) == \A v \in Workers \ {w} : worker'[v] = worker[v]
OtherRequests(r) == \A q \in Requests \ {r} : request'[q] = request[q]
OtherNumbers(d) == \A e \in Docs \ {d} : number'[e] = number[e]

\* Goes changes the stage of a job.
LEMMA GoesMoves ==
  ASSUME TypeOK, NEW w \in Workers, NEW at \in Stages, Goes(w, at)
  PROVE  /\ worker' \in [Workers -> Job4] /\ OtherJobs(w)
         /\ worker'[w] \in Job4 /\ worker'[w].at = at /\ worker'[w].doc = Doc(w)
         /\ worker'[w].num = worker[w].num /\ worker'[w].ok = worker[w].ok
<1>1. worker \in [Workers -> Job4]
  BY DEF TypeOK, Job4
<1>2. PICK c : c = [worker[w] EXCEPT !.at = at]
  OBVIOUS
<1>3. /\ c \in Job4 /\ c.at = at
      /\ c.doc = worker[w].doc /\ c.num = worker[w].num /\ c.ok = worker[w].ok
  BY <1>1, <1>2 DEF Job4
<1>4. worker' = [worker EXCEPT ![w] = c]
  BY <1>2 DEF Goes
<1> QED BY <1>1, <1>3, <1>4 DEF OtherJobs, Doc

\* Fails and Cancels: the job goes to its end, without success.
LEMMA FailsMoves ==
  ASSUME TypeOK, NEW w \in Workers, NEW at \in {"close", "cancel"},
         worker' = [worker EXCEPT ![w].at = at, ![w].ok = FALSE]
  PROVE  /\ worker' \in [Workers -> Job4] /\ OtherJobs(w)
         /\ worker'[w] \in Job4 /\ worker'[w].at = at /\ worker'[w].doc = Doc(w)
         /\ worker'[w].num = worker[w].num /\ ~worker'[w].ok
<1>1. worker \in [Workers -> Job4]
  BY DEF TypeOK, Job4
<1>2. PICK c : c = [worker[w] EXCEPT !.at = at, !.ok = FALSE]
  OBVIOUS
<1>3. /\ c \in Job4 /\ c.at = at /\ c.doc = worker[w].doc /\ c.num = worker[w].num /\ ~c.ok
  BY <1>1, <1>2 DEF Job4, Stages
<1>4. worker' = [worker EXCEPT ![w] = c]
  BY <1>1, <1>2
<1> QED BY <1>1, <1>3, <1>4 DEF OtherJobs, Doc

\* Stops: the job is over.
LEMMA StopsMoves ==
  ASSUME TypeOK, NEW w \in Workers, Stops(w)
  PROVE  /\ worker' \in [Workers -> Job4] /\ OtherJobs(w)
         /\ worker'[w] \in Job4 /\ worker'[w].at = "idle" /\ worker'[w].doc = NoDoc
<1>1. worker \in [Workers -> Job4]
  BY DEF TypeOK, Job4
<1>2. Asleep \in Job4 /\ Asleep.at = "idle" /\ Asleep.doc = NoDoc
  BY DEF Asleep, Job4, Stages
<1> QED BY <1>1, <1>2 DEF OtherJobs, Stops

\* To and Answer move one request.
LEMMA ToMoves ==
  ASSUME TypeOK, NEW r \in Requests, NEW at, To(r, at),
         at \in {"insert", "read", "create", "prepare", "enqueue", "revert", "complete", "release"}
  PROVE  /\ request' \in [Requests -> Request] /\ OtherRequests(r)
         /\ request'[r].at = at /\ request'[r].doc = request[r].doc
         /\ request'[r].keyed = request[r].keyed
<1>1. request \in [Requests -> Request]
  BY DEF TypeOK, RequestTypeOK
<1>2. PICK c : c = [request[r] EXCEPT !.at = at]
  OBVIOUS
<1>3. c \in Request /\ c.at = at /\ c.doc = request[r].doc /\ c.keyed = request[r].keyed
  BY <1>1, <1>2 DEF Request
<1>4. request' = [request EXCEPT ![r] = c]
  BY <1>2 DEF To
<1> QED BY <1>1, <1>3, <1>4 DEF OtherRequests

\* Answer moves one request, to its end.
LEMMA AnswerMoves ==
  ASSUME TypeOK, NEW r \in Requests, Answer(r)
  PROVE  /\ request' \in [Requests -> Request] /\ OtherRequests(r)
         /\ request'[r].at = "idle" /\ ~request'[r].keyed
<1>1. request \in [Requests -> Request]
  BY DEF TypeOK, RequestTypeOK
<1>2. Away \in Request /\ Away.at = "idle" /\ ~Away.keyed
  BY DEF Away, Request
<1> QED BY <1>1, <1>2 DEF OtherRequests, Answer

\* A change of the status of a number.
LEMMA StatusMoves ==
  ASSUME TypeOK, NEW d \in Docs, NEW st \in {"CONFIRMING", "CONFIRMED", "CANCELLED"},
         number' = [number EXCEPT ![d].st = st]
  PROVE  /\ number' \in [Docs -> NumberRow] /\ OtherNumbers(d)
         /\ number'[d] = [st |-> st, num |-> number[d].num]
<1>1. number \in [Docs -> NumberRow]
  BY DEF TypeOK, NumberRow
<1>2. PICK c : c = [number[d] EXCEPT !.st = st]
  OBVIOUS
<1>3. c \in NumberRow /\ c = [st |-> st, num |-> number[d].num]
  BY <1>1, <1>2 DEF NumberRow
<1>4. number' = [number EXCEPT ![d] = c]
  BY <1>2
<1> QED BY <1>1, <1>3, <1>4 DEF OtherNumbers

-----------------------------------------------------------------------------
(* Types *)

Faultless == faults' \in 0 .. MaxFaults

\* Fault and NoFault count within the bound.
LEMMA FaultTyped ==
  ASSUME TypeOK, Fault \/ NoFault
  PROVE  Faultless
BY DeliveryAssumption DEF Fault, NoFault, TypeOK, DeliveryTypeOK, Faultless

\* The memory of a request, whatever it does next.
LEMMA ErrsMoves ==
  ASSUME TypeOK, NEW r \in Requests, Errs(r)
  PROVE  /\ request' \in [Requests -> Request] /\ OtherRequests(r)
         /\ \/ request'[r].at = "idle" /\ ~request'[r].keyed
            \/ request'[r].at = "release" /\ request'[r].keyed /\ request[r].keyed
BY ToMoves, AnswerMoves DEF Errs

\* A step of a request keeps its types.
LEMMA RequestTyped ==
  ASSUME TypeOK, RequestNext, UNCHANGED <<deliveryVars, issueVars>>
  PROVE  TypeOK'
<1> USE DEF deliveryVars, issueVars
<1>0. /\ request \in [Requests -> Request] /\ keyRow \in KeyRow
      /\ draft \in [Docs -> {"none", "draft", "sent_to_sign", "signed"}]
      /\ sess \in [Docs -> {"none", "pending", "processing", "signed", "failed"}]
      /\ lapsed \subseteq {"expired", "vanished"} /\ keyed \subseteq Docs
  BY DEF TypeOK, RequestTypeOK
<1>1. NoRow \in KeyRow /\ [NoRow EXCEPT !.st = "in_flight"] \in KeyRow
  BY DEF NoRow, KeyRow
<1>2. Faultless
  <2>1. Fault \/ NoFault
    BY DEF RequestNext, RequestGoes, RequestFails, Arrive, Purge, Insert, Read, Create, Prepare,
           Enqueue, Revert, Complete, Release, CreateFails, EnqueueFails, RevertFails,
           ClosingFails, Dies, KeyExpires
  <2> QED BY <2>1, FaultTyped
<1>3. RequestTypeOK'
  <2>1. ASSUME NEW r \in Requests, Arrive(r) PROVE RequestTypeOK'
    <3>1. /\ [Away EXCEPT !.at = "purge", !.keyed = TRUE] \in Request
          /\ [Away EXCEPT !.at = "create"] \in Request
      BY DEF Away, Request
    <3>2. request' \in [Requests -> Request]
      BY <1>0, <2>1, <3>1 DEF Arrive
    <3> QED BY <1>0, <2>1, <3>2 DEF Arrive, RequestTypeOK
  <2>2. ASSUME NEW r \in Requests, Purge(r) \/ Insert(r) \/ Read(r) PROVE RequestTypeOK'
    <3>1. request' \in [Requests -> Request]
      BY <2>2, ToMoves, AnswerMoves DEF Purge, Insert, Read
    <3> QED BY <1>0, <1>1, <2>2, <3>1 DEF Purge, Insert, Read, RequestTypeOK
  <2>3. ASSUME NEW r \in Requests, Create(r) PROVE RequestTypeOK'
    <3>1. Fresh \in Docs
      BY <2>3 DEF Create, Fresh, Unused
    <3>2. [request[r] EXCEPT !.at = "prepare", !.doc = Fresh] \in Request
      BY <1>0, <3>1 DEF Request
    <3>3. request' \in [Requests -> Request]
      BY <1>0, <2>3, <3>2 DEF Create
    <3> QED BY <1>0, <2>3, <3>1, <3>3 DEF Create, RequestTypeOK
  <2>4. ASSUME NEW r \in Requests, Prepare(r) \/ Enqueue(r) \/ Revert(r) PROVE RequestTypeOK'
    <3>1. request' \in [Requests -> Request]
      BY <2>4, ToMoves, AnswerMoves, ErrsMoves DEF Prepare, Enqueue, Revert
    <3> QED BY <1>0, <2>4, <3>1 DEF Prepare, Enqueue, Revert, RequestTypeOK
  <2>5. ASSUME NEW r \in Requests, Complete(r) \/ Release(r) PROVE RequestTypeOK'
    <3>1. request' \in [Requests -> Request]
      BY <2>5, AnswerMoves DEF Complete, Release
    <3>2. request[r].doc \in Docs \union {NoDoc}
      BY <1>0 DEF Request
    <3>3. [keyRow EXCEPT !.st = "completed", !.doc = request[r].doc] \in KeyRow
      BY <1>0, <3>2 DEF KeyRow
    <3> QED BY <1>0, <1>1, <2>5, <3>1, <3>3 DEF Complete, Release, RequestTypeOK
  <2>6. ASSUME NEW r \in Requests, RequestFails(r) PROVE RequestTypeOK'
    <3>1. request' \in [Requests -> Request]
      BY <2>6, ToMoves, AnswerMoves, ErrsMoves
         DEF RequestFails, CreateFails, EnqueueFails, RevertFails, ClosingFails, Dies
    <3> QED
      BY <1>0, <2>6, <3>1
         DEF RequestFails, CreateFails, EnqueueFails, RevertFails, ClosingFails, Dies, RequestTypeOK
  <2>7. CASE KeyExpires
    <3>1. [keyRow EXCEPT !.expired = TRUE] \in KeyRow
      BY <1>0 DEF KeyRow
    <3> QED BY <1>0, <2>7, <3>1 DEF KeyExpires, RequestTypeOK
  <2> QED BY <2>1, <2>2, <2>3, <2>4, <2>5, <2>6, <2>7 DEF RequestNext, RequestGoes
<1> QED BY <1>2, <1>3 DEF TypeOK, DeliveryTypeOK, Faultless

Memory == [at : {"idle", "post", "mark", "requeue"}, doc : Docs \union {NoDoc},
           attempts : 0 .. MaxAttempts]

\* Steps of a sender move it and its row of the queue.
LEMMA DeliveryTyped ==
  ASSUME TypeOK, Delivery, DeliveryNext, UNCHANGED <<requestVars, issueVars>>
  PROVE  TypeOK'
<1> USE DeliveryAssumption
<1>0. /\ job \in [Docs -> Job] /\ sender \in [Senders -> Memory]
      /\ received \in [Docs -> SUBSET Events] /\ Resting \in Memory
  BY DEF TypeOK, DeliveryTypeOK, Memory, Resting
<1>1. Faultless
  <2>1. Fault \/ NoFault
    BY DEF DeliveryNext, SenderGoes, Claim, PostOk, PostAnswerLost, PostFails, MarkSent,
           RequeueOrFail, MarkFails, SenderDies, SweepJob
  <2> QED BY <2>1, FaultTyped
<1>2. ASSUME NEW d \in Docs, NEW st \in {"pending", "processing", "sent", "failed"}
      PROVE  [job EXCEPT ![d].st = st] \in [Docs -> Job]
  <2>1. [job[d] EXCEPT !.st = st] \in Job
    BY <1>0 DEF Job
  <2> QED BY <1>0, <2>1
<1>3. ASSUME NEW s \in Senders, NEW at \in {"post", "mark", "requeue"}
      PROVE  [sender EXCEPT ![s].at = at] \in [Senders -> Memory]
  <2>1. [sender[s] EXCEPT !.at = at] \in Memory
    BY <1>0 DEF Memory
  <2> QED BY <1>0, <2>1
<1>4. ASSUME NEW s \in Senders, sender[s].at # "idle"
      PROVE  Its(s) \in Docs /\ job[Its(s)].event \in Events /\ sender[s].attempts \in 0 .. MaxAttempts
  BY <1>0, <1>4 DEF Delivery, Its, Memory
<1> DEFINE Typed == /\ job' \in [Docs -> Job] /\ sender' \in [Senders -> Memory]
                    /\ received' \in [Docs -> SUBSET Events]
<1>5. Typed
  <2>1. ASSUME NEW s \in Senders, Claim(s) PROVE Typed
    <3>1. PICK d \in Docs :
            /\ job[d].st = "pending"
            /\ job' = [job EXCEPT ![d].st = "processing"]
            /\ sender' = [sender EXCEPT ![s] =
                            [at |-> "post", doc |-> d, attempts |-> job[d].attempts + 1]]
      BY <2>1 DEF Claim
    <3>2. job[d].attempts \in 0 .. MaxAttempts /\ job[d].attempts < MaxAttempts
      BY <1>0, <3>1 DEF Delivery, Job
    <3>3. [at |-> "post", doc |-> d, attempts |-> job[d].attempts + 1] \in Memory
      BY <3>2 DEF Memory
    <3> QED BY <1>0, <1>2, <2>1, <3>1, <3>3 DEF Claim
  <2>2. ASSUME NEW s \in Senders, PostOk(s) \/ PostAnswerLost(s) \/ PostFails(s) PROVE Typed
    <3>1. sender' \in [Senders -> Memory]
      BY <1>0, <1>3, <2>2 DEF PostOk, PostAnswerLost, PostFails, SenderTo
    <3>2. received' \in [Docs -> SUBSET Events]
      BY <1>0, <1>4, <2>2 DEF PostOk, PostAnswerLost, PostFails
    <3> QED BY <1>0, <2>2, <3>1, <3>2 DEF PostOk, PostAnswerLost, PostFails
  <2>3. ASSUME NEW s \in Senders, MarkFails(s) \/ SenderDies(s) PROVE Typed
    <3>1. sender' \in [Senders -> Memory]
      BY <1>0, <1>3, <2>3 DEF MarkFails, SenderDies, SenderTo, SenderEnds
    <3> QED BY <1>0, <2>3, <3>1 DEF MarkFails, SenderDies
  <2>4. ASSUME NEW s \in Senders, MarkSent(s) PROVE Typed
    BY <1>0, <1>2, <1>4, <2>4 DEF MarkSent, SenderEnds
  <2>5. ASSUME NEW s \in Senders, RequeueOrFail(s) PROVE Typed
    <3>1. PICK st \in {"failed", "pending"} :
            job' = [job EXCEPT ![Its(s)].st = st, ![Its(s)].attempts = sender[s].attempts]
      BY <2>5 DEF RequeueOrFail
    <3>2. [job[Its(s)] EXCEPT !.st = st, !.attempts = sender[s].attempts] \in Job
      BY <1>0, <1>4, <2>5 DEF RequeueOrFail, Job
    <3>3. job' = [job EXCEPT ![Its(s)] =
                    [job[Its(s)] EXCEPT !.st = st, !.attempts = sender[s].attempts]]
      BY <1>0, <3>1
    <3> QED BY <1>0, <2>5, <3>2, <3>3 DEF RequeueOrFail, SenderEnds
  <2>6. ASSUME NEW d \in Docs, SweepJob(d) PROVE Typed
    BY <1>0, <1>2, <2>6 DEF SweepJob, SweptStatus
  <2> QED BY <2>1, <2>2, <2>3, <2>4, <2>5, <2>6 DEF DeliveryNext, SenderGoes
<1> QED
  BY <1>1, <1>5 DEF TypeOK, DeliveryTypeOK, RequestTypeOK, requestVars, issueVars, Memory, Faultless

-----------------------------------------------------------------------------
(* What a step that is about another document leaves as it was *)

\* Nothing became of the document, but for a reservation that the sweeper took
\* or whose number was used again, and what its webhook does once it is queued.
Stands(d) ==
  /\ sess'[d] = sess[d] /\ draft'[d] = draft[d]
  /\ job[d] = NoJob => job'[d] = NoJob /\ received'[d] = received[d]
  /\ \/ number'[d] = number[d]
     \/ /\ number[d].st \in {"RESERVED", "CANCELLED"}
        /\ number'[d] \in {[st |-> "CANCELLED", num |-> number[d].num], NoNumber}
  /\ number[d].st \in {"CONFIRMING", "CONFIRMED"} =>
       oficial'[number[d].num] = oficial[number[d].num]

\* A step that leaves the document of a job as it stands keeps what is known of it.
LEMMA JobStands ==
  ASSUME IInv, NEW v \in Workers, worker'[v] = worker[v],
         worker[v].doc \in Docs => Stands(worker[v].doc)
  PROVE  JobOf(v)'
<1>1. JobOf(v)
  BY DEF IInv, Jobs
<1> QED BY <1>1 DEF JobOf, Stands, NoNumber

\* A step that leaves a document as it stands keeps its progress.
LEMMA ProgressStands ==
  ASSUME IInv, NEW d \in Docs, Stands(d), UNCHANGED keyed
  PROVE  ProgressOf(d)'
<1>1. ProgressOf(d)
  BY DEF IInv, Progress
<1> QED BY <1>1 DEF ProgressOf, Stands, NoNumber

\* No step of a job is about a document that a request has not queued.
LEMMA AskingStands ==
  ASSUME IInv, OtherRequest,
         \A d \in Docs : /\ sess'[d] = "none" <=> sess[d] = "none"
                         /\ sess[d] = "none" => draft'[d] = draft[d]
  PROVE  Asking'
<1> USE DEF IInv, Asking, OtherRequest
<1>1. OwnDocument'
  BY DEF OwnDocument
<1>2. Queued' = Queued /\ Admitted' = Admitted
  BY DEF Queued, Admitted, TypeOK, RequestTypeOK
<1>3. KeyState'
  BY <1>2 DEF KeyState
<1>4. ASSUME NEW r \in Requests PROVE RequestOf(r)'
  BY DEF RequestOf
<1> QED BY <1>1, <1>3, <1>4

\* A step that leaves the webhooks alone, and only adds to what is signed, keeps Delivery.
LEMMA DeliveryStands ==
  ASSUME IInv, UNCHANGED deliveryVars,
         \A d \in Docs : job[d] # NoJob => draft'[d] = draft[d]
  PROVE  Delivery'
BY DEF IInv, Delivery, deliveryVars, NoJob

\* The numbers in use are the same, by the same documents.
LEMMA NumberingStands ==
  ASSUME IInv,
         \A d \in Docs : /\ number'[d].num = number[d].num
                         /\ number'[d].st = "none" <=> number[d].st = "none"
                         /\ number'[d].st = "CONFIRMED" => oficial'[number[d].num] = d
  PROVE  Numbering'
<1>1. Holders' = Holders
  BY DEF Holders
<1>2. {number[d].num : d \in Holders}' = {number[d].num : d \in Holders}
  BY <1>1 DEF Holders
<1>3. Cardinality(Holders)' = Cardinality(Holders)
  BY <1>1
<1>4. \A d \in Docs : number'[d].st = "none" <=> number'[d].num = 0
  BY DEF IInv, Numbering
<1>5. \A d, e \in Holders : number'[d].num = number'[e].num => d = e
  BY DEF IInv, Numbering, Holders
<1>6. \A d \in Docs : number'[d].st = "CONFIRMED" => oficial'[number'[d].num] = d
  OBVIOUS
<1>7. {number[d].num : d \in Holders}' = (1 .. Cardinality(Holders))'
  BY <1>2, <1>3 DEF IInv, Numbering
<1> QED BY <1>1, <1>4, <1>5, <1>6, <1>7 DEF Numbering

\* A step of a job changes the job and its document, and no other.
LEMMA JobChanges ==
  ASSUME IInv, TypeOK', NEW w \in Workers, NEW d \in Docs,
         worker[w].at # "idle", OtherJobs(w), Doc(w) = d,
         worker'[w].doc \in {d, NoDoc}, JobOf(w)',
         ProgressOf(d)', sess'[d] # "none",
         \A e \in Docs \ {d} : Stands(e),
         OtherRequest, Numbering', Delivery'
  PROVE  IInv'
<1>1. sess[d] # "none"
  BY DEF IInv, Jobs, JobOf, Doc
<1>2. ASSUME NEW v \in Workers PROVE JobOf(v)'
  <2>1. CASE v = w
    BY <2>1
  <2>2. CASE v # w
    <3>1. worker[v].doc \in Docs => worker[v].doc # d
      BY <2>2, <1>1 DEF IInv, Jobs, OneJob, Doc
    <3> QED BY <2>2, <3>1, JobStands DEF OtherJobs
  <2> QED BY <2>1, <2>2
<1>3. OneJob'
  BY DeliveryAssumption DEF IInv, Jobs, OneJob, OtherJobs, Doc
<1>4. Progress'
  BY ProgressStands DEF Progress, OtherRequest
<1>5. Asking'
  BY <1>1, AskingStands DEF Stands
<1> QED BY <1>2, <1>3, <1>4, <1>5 DEF IInv, Jobs

\* A step that changes the job alone.
LEMMA JobAlone ==
  ASSUME IInv, NEW w \in Workers, worker[w].at # "idle", OtherJobs(w),
         worker' \in [Workers -> Job4], worker'[w].doc \in {Doc(w), NoDoc}, JobOf(w)',
         KeepsRequest, UNCHANGED <<number, oficial>>,
         tosign' \subseteq Docs, lost' \subseteq Docs, Fault \/ NoFault
  PROVE  IInv'
<1> USE DEF KeepsRequest, requestVars, deliveryVars
<1>1. TypeOK'
  BY FaultTyped DEF IInv, TypeOK, DeliveryTypeOK, RequestTypeOK, Job4, Faultless
<1>2. \A d \in Docs : Stands(d)
  BY DEF Stands
<1>3. PICK d \in Docs : d = Doc(w) /\ sess[d] # "none"
  BY DEF IInv, Jobs, JobOf, Doc
<1>4. Numbering'
  BY NumberingStands DEF IInv, Numbering
<1>5. Delivery'
  BY DeliveryStands
<1>6. ProgressOf(d)' /\ sess'[d] # "none"
  BY <1>2, <1>3, ProgressStands
<1> QED BY <1>1, <1>2, <1>3, <1>4, <1>5, <1>6, JobChanges DEF OtherRequest

-----------------------------------------------------------------------------
(* The steps of a job *)

\* The stages of a job that change nothing else, or its PDF of tosign/.
LEMMA QuietSteps ==
  ASSUME IInv, NEW w \in Workers,
         \/ Compose(w) \/ Check(w) \/ Stamp(w) \/ Clean(w)
         \/ EarlyFails(w) \/ LateFails(w) \/ CancelFails(w) \/ WorkerDies(w)
  PROVE  IInv'
<1> USE DEF Has, Stages
<1>0. TypeOK /\ JobOf(w)
  BY DEF IInv, Jobs
<1>1. worker[w].at # "idle" /\ Doc(w) \in Docs
  BY <1>0 DEF Compose, Check, Stamp, Clean, EarlyFails, LateFails, CancelFails, WorkerDies,
              JobOf, Doc
<1>2. Fault \/ NoFault
  BY DEF Compose, Check, Stamp, Clean, EarlyFails, LateFails, CancelFails, WorkerDies
<1>3. KeepsRequest /\ UNCHANGED <<number, oficial>>
  BY DEF Compose, Check, Stamp, Clean, EarlyFails, LateFails, CancelFails, WorkerDies
<1>4. tosign' \subseteq Docs /\ lost' \subseteq Docs
  BY <1>0, <1>1 DEF Compose, Check, Stamp, Clean, EarlyFails, LateFails, CancelFails, WorkerDies,
                    TypeOK
<1> DEFINE Moved == /\ OtherJobs(w) /\ worker' \in [Workers -> Job4]
                    /\ worker'[w].doc \in {Doc(w), NoDoc} /\ JobOf(w)'
<1>5. Moved
  <2> USE DEF KeepsRequest, requestVars, deliveryVars
  <2>1. CASE Compose(w)
    <3>1. Goes(w, "sent")
      BY <2>1 DEF Compose
    <3> QED BY <1>0, <1>3, <2>1, <3>1, GoesMoves DEF Compose, JobOf, Doc
  <2>2. CASE Check(w) /\ draft[Doc(w)] = "sent_to_sign"
    <3>1. Goes(w, "reserve")
      BY <2>2 DEF Check
    <3> QED BY <1>0, <1>3, <2>2, <3>1, GoesMoves DEF Check, JobOf, Doc
  <2>3. CASE (Check(w) /\ draft[Doc(w)] # "sent_to_sign") \/ EarlyFails(w)
    <3>1. Fails(w)
      BY <2>3 DEF Check, EarlyFails
    <3> QED BY <1>0, <1>3, <2>3, <3>1, FailsMoves DEF Check, EarlyFails, Fails, JobOf, Doc
  <2>4. CASE Stamp(w)
    <3>1. Goes(w, "confirm")
      BY <2>4 DEF Stamp
    <3> QED BY <1>0, <1>3, <2>4, <3>1, GoesMoves DEF Stamp, JobOf, Doc
  <2>5. CASE Clean(w)
    <3>1. Goes(w, "close")
      BY <2>5 DEF Clean
    <3> QED BY <1>0, <1>3, <2>5, <3>1, GoesMoves DEF Clean, JobOf, Doc
  <2>6. CASE LateFails(w)
    <3>1. Cancels(w)
      BY <2>6 DEF LateFails
    <3> QED BY <1>0, <1>3, <2>6, <3>1, FailsMoves DEF LateFails, Cancels, JobOf, Doc
  <2>7. CASE CancelFails(w)
    <3>1. Goes(w, "close")
      BY <2>7 DEF CancelFails
    <3> QED BY <1>0, <1>3, <2>7, <3>1, GoesMoves DEF CancelFails, JobOf, Doc
  <2>8. CASE WorkerDies(w)
    <3>1. Stops(w)
      BY <2>8 DEF WorkerDies
    <3> QED BY <1>0, <1>3, <2>8, <3>1, StopsMoves DEF WorkerDies, JobOf, Doc
  <2> QED BY <2>1, <2>2, <2>3, <2>4, <2>5, <2>6, <2>7, <2>8
<1> QED BY <1>1, <1>2, <1>3, <1>4, <1>5, JobAlone

\* The status of the draft, while its session is at work: composing it, sending
\* it to sign and signing it.
LEMMA DraftSteps ==
  ASSUME IInv, NEW w \in Workers, ComposeFails(w) \/ SendToSign(w) \/ SignDocument(w)
  PROVE  IInv'
<1> USE DEF Has, Stages
<1>0. TypeOK /\ JobOf(w)
  BY DEF IInv, Jobs
<1>1. PICK d \in Docs : d = Doc(w) /\ sess[d] = "processing" /\ worker[w].at # "idle"
  BY <1>0 DEF ComposeFails, SendToSign, SignDocument, JobOf, Doc
<1>2. ProgressOf(d) /\ job[d] = NoJob
  BY <1>1 DEF IInv, Progress, ProgressOf
<1>3. draft \in [Docs -> {"none", "draft", "sent_to_sign", "signed"}]
  BY <1>0 DEF TypeOK, RequestTypeOK
<1>4. OtherRequest /\ UNCHANGED <<sess, deliveryVars, number, tosign, oficial, lost>>
      /\ (Fault \/ NoFault)
  BY DEF ComposeFails, SendToSign, SignDocument
<1> DEFINE Moved == /\ OtherJobs(w) /\ worker' \in [Workers -> Job4]
                    /\ worker'[w].doc = d /\ JobOf(w)'
           Kept == /\ draft' \in [Docs -> {"none", "draft", "sent_to_sign", "signed"}]
                   /\ \A e \in Docs \ {d} : draft'[e] = draft[e]
                   /\ draft'[d] = "none" => draft[d] = "none"
                   /\ draft'[d] = "signed" => number[d].st = "CONFIRMED"
<1>5. Moved /\ Kept
  <2> USE <1>1, <1>4 DEF deliveryVars
  <2>1. CASE ComposeFails(w)
    <3>1. Fails(w) /\ draft[d] # "signed"
      BY <1>0, <2>1 DEF ComposeFails, JobOf, Doc
    <3>2. Kept /\ draft'[d] # "signed"
      BY <1>3, <2>1, <3>1 DEF ComposeFails
    <3>3. Moved
      BY <1>0, <3>1, <3>2, FailsMoves DEF Fails, JobOf, Doc
    <3> QED BY <3>2, <3>3
  <2>2. CASE SendToSign(w)
    <3>1. Goes(w, "check") /\ Kept /\ draft'[d] = "sent_to_sign"
      BY <1>3, <2>2 DEF SendToSign
    <3>2. Moved
      BY <1>0, <2>2, <3>1, GoesMoves DEF SendToSign, JobOf, Doc
    <3> QED BY <3>1, <3>2
  <2>3. CASE SignDocument(w) /\ draft[d] = "sent_to_sign"
    <3>1. number[d].st = "CONFIRMED"
      BY <1>0, <2>3 DEF SignDocument, JobOf, Doc
    <3>2. Goes(w, "clean") /\ Kept /\ draft'[d] = "signed"
      BY <1>3, <2>3, <3>1 DEF SignDocument
    <3>3. Moved
      BY <1>0, <2>3, <3>2, GoesMoves DEF SignDocument, JobOf, Doc
    <3> QED BY <3>2, <3>3
  <2>4. CASE SignDocument(w) /\ draft[d] # "sent_to_sign"
    <3>1. Cancels(w) /\ draft[d] # "signed" /\ draft' = draft
      BY <1>0, <2>4 DEF SignDocument, JobOf, Doc
    <3>2. Moved
      BY <1>0, <3>1, FailsMoves DEF Cancels, JobOf, Doc
    <3> QED BY <1>3, <3>1, <3>2
  <2> QED BY <2>1, <2>2, <2>3, <2>4
<1>6. TypeOK'
  BY <1>0, <1>4, <1>5, FaultTyped
     DEF TypeOK, DeliveryTypeOK, RequestTypeOK, Job4, Faultless, OtherRequest, deliveryVars
<1>7. \A e \in Docs \ {d} : Stands(e)
  BY <1>4, <1>5 DEF Stands, deliveryVars
<1>8. ProgressOf(d)' /\ sess'[d] # "none"
  BY <1>1, <1>2, <1>4, <1>5 DEF ProgressOf, OtherRequest, deliveryVars
<1>9. Numbering'
  BY <1>4, NumberingStands DEF IInv, Numbering
<1>10. Delivery'
  BY <1>2, <1>4, <1>5, DeliveryStands
<1> QED BY <1>1, <1>4, <1>5, <1>6, <1>7, <1>8, <1>9, <1>10, JobChanges

\* The session is closed: the document stays as it is.
LEMMA CloseStep ==
  ASSUME IInv, NEW w \in Workers, Close(w)
  PROVE  IInv'
<1> USE DEF Has, Stages
<1>0. TypeOK /\ JobOf(w) /\ Goes(w, "tell")
  BY DEF IInv, Jobs, Close
<1>1. PICK d \in Docs : d = Doc(w) /\ sess[d] = "processing" /\ worker[w].at = "close"
  BY <1>0 DEF Close, JobOf, Doc
<1>2. PICK st \in {"signed", "failed"} : sess' = [sess EXCEPT ![d] = st]
  BY <1>1 DEF Close
<1>3. /\ ProgressOf(d) /\ job[d] = NoJob /\ received[d] = {}
      /\ sess \in [Docs -> {"none", "pending", "processing", "signed", "failed"}]
  BY <1>0, <1>1 DEF IInv, Progress, ProgressOf, TypeOK, RequestTypeOK
<1>4. OtherRequest /\ UNCHANGED <<draft, deliveryVars, number, tosign, oficial, lost>> /\ NoFault
  BY DEF Close
<1>5. sess'[d] = st /\ \A e \in Docs \ {d} : sess'[e] = sess[e]
  BY <1>2, <1>3
<1>6. TypeOK'
  BY <1>0, <1>2, <1>3, <1>4, FaultTyped, GoesMoves
     DEF TypeOK, DeliveryTypeOK, RequestTypeOK, Job4, Faultless, OtherRequest, deliveryVars
<1>7. \A e \in Docs \ {d} : Stands(e)
  BY <1>4, <1>5 DEF Stands, deliveryVars
<1>8. ProgressOf(d)' /\ sess'[d] # "none"
  BY <1>1, <1>3, <1>4, <1>5 DEF ProgressOf, OtherRequest, deliveryVars
<1>9. OtherJobs(w) /\ worker'[w].doc = d /\ JobOf(w)'
  BY <1>0, <1>1, <1>3, <1>4, <1>5, GoesMoves DEF JobOf, Doc, deliveryVars
<1>10. Numbering' /\ Delivery'
  BY <1>4, NumberingStands, DeliveryStands DEF IInv, Numbering
<1> QED BY <1>1, <1>4, <1>6, <1>7, <1>8, <1>9, <1>10, JobChanges

\* The webhook is queued, once the session is closed.
LEMMA TellStep ==
  ASSUME IInv, NEW w \in Workers, Tell(w)
  PROVE  IInv'
<1> USE DEF Has, Stages
<1>0. TypeOK /\ JobOf(w) /\ Stops(w)
  BY DEF IInv, Jobs, Tell
<1>1. PICK d \in Docs : /\ d = Doc(w) /\ sess[d] \in {"signed", "failed"} /\ worker[w].at = "tell"
                        /\ job[d] = NoJob /\ received[d] = {}
                        /\ worker[w].ok <=> draft[d] = "signed"
  BY <1>0 DEF Tell, JobOf, Doc
<1>2. PICK ev \in Events : /\ EnqueueWebhook(d, ev)
                           /\ ev = "signed" <=> draft[d] = "signed"
  BY <1>1 DEF Tell, Events
<1>3. UNCHANGED <<requestVars, sender, received, number, tosign, oficial, lost>> /\ NoFault
  BY DEF Tell
<1>4. job \in [Docs -> Job]
  BY <1>0 DEF TypeOK, DeliveryTypeOK
<1>5. PICK j : j = [NoJob EXCEPT !.st = "pending", !.event = ev]
  OBVIOUS
<1>6. j \in Job /\ j.st = "pending" /\ j.event = ev /\ j.attempts = 0
  <2>1. NoJob \in Job /\ NoJob.attempts = 0
    BY DeliveryAssumption DEF Job, NoJob
  <2> QED BY <1>5, <2>1 DEF Job
<1>7. job' = [job EXCEPT ![d] = j]
  BY <1>2, <1>5 DEF EnqueueWebhook
<1>8. job' \in [Docs -> Job] /\ job'[d] = j /\ \A e \in Docs \ {d} : job'[e] = job[e]
  BY <1>4, <1>6, <1>7
<1>9. TypeOK'
  BY <1>0, <1>3, <1>8, FaultTyped, StopsMoves
     DEF TypeOK, DeliveryTypeOK, RequestTypeOK, Job4, Faultless, requestVars
<1>10. \A e \in Docs \ {d} : Stands(e)
  BY <1>3, <1>8 DEF Stands, requestVars
<1>11. ProgressOf(d)' /\ sess'[d] # "none"
  BY <1>1, <1>3 DEF IInv, Progress, ProgressOf, requestVars
<1>12. OtherJobs(w) /\ worker'[w].doc = NoDoc /\ JobOf(w)'
  BY <1>0, StopsMoves DEF JobOf
<1>13. Numbering'
  BY <1>3, NumberingStands DEF IInv, Numbering
<1>14. Delivery'
  BY <1>1, <1>2, <1>3, <1>6, <1>8, DeliveryAssumption DEF IInv, Delivery, Events, requestVars
<1> QED BY <1>1, <1>3, <1>9, <1>10, <1>11, <1>12, <1>13, <1>14, JobChanges
        DEF OtherRequest, requestVars

-----------------------------------------------------------------------------
(* The steps that number a document *)

\* A number that a document has goes from one status to another.
LEMMA StatusStep ==
  ASSUME IInv, NEW w \in Workers, NEW d \in Docs, NEW st \in {"CONFIRMING", "CONFIRMED", "CANCELLED"},
         d = Doc(w), worker[w].at # "idle", draft[d] # "signed",
         number[d].st # "none",
         number' = [number EXCEPT ![d].st = st],
         st = "CONFIRMED" => oficial[number[d].num] = d,
         OtherJobs(w), worker' \in [Workers -> Job4], worker'[w].doc = d, JobOf(w)',
         KeepsRequest, UNCHANGED <<tosign, oficial, lost>>, NoFault
  PROVE  IInv'
<1> USE DEF KeepsRequest, requestVars, deliveryVars
<1>1. /\ number' \in [Docs -> NumberRow] /\ OtherNumbers(d)
      /\ number'[d].st = st /\ number'[d].num = number[d].num
  <2>1. number' \in [Docs -> NumberRow] /\ OtherNumbers(d)
        /\ number'[d] = [st |-> st, num |-> number[d].num]
    BY StatusMoves DEF IInv
  <2> QED BY <2>1
<1>2. TypeOK'
  BY <1>1, FaultTyped DEF IInv, TypeOK, DeliveryTypeOK, RequestTypeOK, Job4, NumberRow, Faultless
<1>3. \A e \in Docs \ {d} : Stands(e)
  BY <1>1 DEF Stands, OtherNumbers
<1>4. sess[d] # "none" /\ sess[d] # "pending"
  BY DEF IInv, Jobs, JobOf, Doc
<1>5. ProgressOf(d)' /\ sess'[d] # "none"
  BY <1>1, <1>4 DEF IInv, Progress, ProgressOf
<1>6. Numbering'
  <2>1. \A e \in Docs : /\ number'[e].num = number[e].num
                        /\ number'[e].st = "none" <=> number[e].st = "none"
                        /\ number'[e].st = "CONFIRMED" => oficial'[number[e].num] = e
    BY <1>1 DEF OtherNumbers, IInv, Numbering
  <2> QED BY <2>1, NumberingStands
<1>7. Delivery'
  BY DeliveryStands
<1> QED BY <1>2, <1>3, <1>5, <1>6, <1>7, JobChanges DEF OtherRequest

\* confirm_number, finalize_number and cancel_number.
LEMMA StatusSteps ==
  ASSUME IInv, NEW w \in Workers, Confirm(w) \/ Finalize(w) \/ Cancel(w)
  PROVE  IInv'
<1> USE DEF Has, Stages
<1>0. TypeOK /\ JobOf(w)
  BY DEF IInv, Jobs
<1>1. PICK d \in Docs : d = Doc(w) /\ worker[w].at # "idle" /\ draft[d] # "signed"
  BY <1>0 DEF Confirm, Finalize, Cancel, JobOf, Doc
<1>2. KeepsRequest /\ UNCHANGED <<tosign, oficial, lost>> /\ NoFault
  BY DEF Confirm, Finalize, Cancel
<1>3. number \in [Docs -> NumberRow]
  BY <1>0 DEF TypeOK, NumberRow
<1>4. CASE Confirm(w) /\ number[d].st = "RESERVED"
  <2>1. Goes(w, "upload") /\ number' = [number EXCEPT ![d].st = "CONFIRMING"]
    BY <1>1, <1>4 DEF Confirm
  <2>2. number[d].num = worker[w].num
    BY <1>0, <1>1, <1>4 DEF Confirm, JobOf, Doc
  <2>3. number'[d] = [st |-> "CONFIRMING", num |-> worker[w].num]
    BY <1>0, <2>1, <2>2, StatusMoves
  <2>4. OtherJobs(w) /\ worker' \in [Workers -> Job4] /\ worker'[w].doc = d
    BY <1>0, <1>1, <2>1, GoesMoves
  <2>5. JobOf(w)'
    BY <1>0, <1>1, <1>2, <1>4, <2>1, <2>3, GoesMoves
       DEF Confirm, JobOf, Doc, KeepsRequest, requestVars, deliveryVars
  <2> QED BY <1>1, <1>2, <1>4, <2>1, <2>4, <2>5, StatusStep
<1>5. CASE Confirm(w) /\ number[d].st # "RESERVED"
  <2>1. Cancels(w) /\ number' = number
    BY <1>1, <1>5 DEF Confirm
  <2>2. OtherJobs(w) /\ worker' \in [Workers -> Job4] /\ worker'[w].doc = d /\ JobOf(w)'
    BY <1>0, <1>1, <1>2, <1>5, <2>1, FailsMoves
       DEF Confirm, Cancels, JobOf, Doc, KeepsRequest, requestVars, deliveryVars
  <2> QED BY <1>0, <1>1, <1>2, <2>1, <2>2, JobAlone DEF TypeOK
<1>6. CASE Finalize(w)
  <2>1. /\ number[d].st = "CONFIRMING" /\ number[d].num = worker[w].num
        /\ oficial[number[d].num] = d
    <3>1. number[d] = [st |-> "CONFIRMING", num |-> worker[w].num] /\ oficial[worker[w].num] = d
      BY <1>0, <1>1, <1>6 DEF Finalize, JobOf, Doc
    <3> QED BY <3>1
  <2>2. Goes(w, "sign") /\ number' = [number EXCEPT ![d].st = "CONFIRMED"]
    BY <1>1, <1>6, <2>1 DEF Finalize
  <2>3. number'[d] = [st |-> "CONFIRMED", num |-> worker[w].num]
    BY <1>0, <2>1, <2>2, StatusMoves
  <2>4. OtherJobs(w) /\ worker' \in [Workers -> Job4] /\ worker'[w].doc = d
    BY <1>0, <1>1, <2>2, GoesMoves
  <2>5. JobOf(w)'
    BY <1>0, <1>1, <1>2, <1>6, <2>2, <2>3, GoesMoves
       DEF Finalize, JobOf, Doc, KeepsRequest, requestVars, deliveryVars
  <2> QED BY <1>1, <1>2, <2>1, <2>2, <2>4, <2>5, StatusStep
<1>7. CASE Cancel(w) /\ number[d].st = "RESERVED"
  <2>1. Goes(w, "close") /\ number' = [number EXCEPT ![d].st = "CANCELLED"]
    BY <1>1, <1>7 DEF Cancel
  <2>2. OtherJobs(w) /\ worker' \in [Workers -> Job4] /\ worker'[w].doc = d /\ JobOf(w)'
    BY <1>0, <1>1, <1>2, <1>7, <2>1, GoesMoves
       DEF Cancel, JobOf, Doc, KeepsRequest, requestVars, deliveryVars
  <2> QED BY <1>1, <1>2, <1>7, <2>1, <2>2, StatusStep
<1>8. CASE Cancel(w) /\ number[d].st # "RESERVED"
  <2>1. Goes(w, "close") /\ number' = number
    BY <1>1, <1>8 DEF Cancel
  <2>2. OtherJobs(w) /\ worker' \in [Workers -> Job4] /\ worker'[w].doc = d /\ JobOf(w)'
    BY <1>0, <1>1, <1>2, <1>8, <2>1, GoesMoves
       DEF Cancel, JobOf, Doc, KeepsRequest, requestVars, deliveryVars
  <2> QED BY <1>0, <1>1, <1>2, <2>1, <2>2, JobAlone DEF TypeOK
<1> QED BY <1>4, <1>5, <1>6, <1>7, <1>8

\* The PDF goes to the place of a number that no other document has.
LEMMA UploadStep ==
  ASSUME IInv, NEW w \in Workers, Upload(w)
  PROVE  IInv'
<1> USE DEF Has, Stages, KeepsRequest, requestVars, deliveryVars
<1>0. TypeOK /\ JobOf(w) /\ Goes(w, "finalize")
  BY DEF IInv, Jobs, Upload
<1>1. PICK d \in Docs : /\ d = Doc(w) /\ worker[w].at = "upload"
                        /\ number[d] = [st |-> "CONFIRMING", num |-> worker[w].num]
  BY <1>0 DEF Upload, JobOf, Doc
<1>2. oficial' = [oficial EXCEPT ![worker[w].num] = d]
  BY <1>1 DEF Upload
<1>3. KeepsRequest /\ UNCHANGED <<number, tosign, lost>> /\ NoFault
  BY DEF Upload
<1>4. oficial \in [Numbers -> Docs \union {NoDoc}] /\ number \in [Docs -> NumberRow]
  BY <1>0 DEF TypeOK, NumberRow
<1>5. worker[w].num \in Numbers
  <2>1. number[d].num = worker[w].num /\ number[d].num # 0
    BY <1>1 DEF IInv, Numbering
  <2> QED BY <1>0, <1>4, <2>1 DEF NumberRow
<1>6. /\ oficial' \in [Numbers -> Docs \union {NoDoc}] /\ oficial'[worker[w].num] = d
      /\ \A n \in Numbers \ {worker[w].num} : oficial'[n] = oficial[n]
  BY <1>2, <1>4, <1>5
<1>7. ASSUME NEW e \in Docs \ {d}, number[e].st # "none" PROVE oficial'[number[e].num] = oficial[number[e].num]
  <2>1. number[e].num # worker[w].num
    BY <1>1, <1>7 DEF IInv, Numbering, Holders
  <2>2. number[e].num \in Numbers
    BY <1>4, <1>7 DEF IInv, Numbering, NumberRow
  <2> QED BY <1>6, <2>1, <2>2
<1>8. TypeOK'
  BY <1>0, <1>3, <1>6, FaultTyped, GoesMoves
     DEF TypeOK, DeliveryTypeOK, RequestTypeOK, Job4, Faultless
<1>9. \A e \in Docs \ {d} : Stands(e)
  BY <1>3, <1>7 DEF Stands
<1>10. sess[d] # "none"
  BY <1>0, <1>1 DEF JobOf, Doc
<1>11. ProgressOf(d)' /\ sess'[d] # "none"
  BY <1>3, <1>10 DEF IInv, Progress, ProgressOf
<1>12. OtherJobs(w) /\ worker'[w].doc = d /\ JobOf(w)'
  BY <1>0, <1>1, <1>3, <1>6, GoesMoves DEF JobOf, Doc
<1>13. Numbering'
  <2>1. \A e \in Docs : /\ number'[e].num = number[e].num
                        /\ number'[e].st = "none" <=> number[e].st = "none"
                        /\ number'[e].st = "CONFIRMED" => oficial'[number[e].num] = e
    BY <1>1, <1>3, <1>7 DEF IInv, Numbering
  <2> QED BY <2>1, NumberingStands
<1>14. Delivery'
  BY <1>3, DeliveryStands
<1> QED BY <1>1, <1>3, <1>8, <1>9, <1>11, <1>12, <1>13, <1>14, JobChanges DEF OtherRequest

\* A reservation takes the next number, or a cancelled one with its row: the
\* numbers in use remain the first ones.
LEMMA ReserveNumbers ==
  ASSUME IInv, NEW w \in Workers, NEW d \in Docs, d = Doc(w), Reserve(w)
  PROVE  \E n \in Numbers :
           /\ number[d].st = "none"
           /\ number' \in [Docs -> NumberRow] /\ number'[d] = Reserved(n)
           /\ \A e \in Docs \ {d} :
                \/ number'[e] = number[e]
                \/ number[e].st = "CANCELLED" /\ number'[e] = NoNumber
           /\ Numbering'
           /\ worker' = [worker EXCEPT ![w].at = "stamp", ![w].num = n]
<1>0. /\ number \in [Docs -> NumberRow] /\ IsFiniteSet(Docs) /\ Numbering
      /\ oficial' = oficial /\ number[d].st = "none"
  BY CitizenAssumption DEF IInv, TypeOK, NumberRow, Reserve
<1>1. /\ IsFiniteSet(Holders) /\ d \notin Holders /\ Holders \subseteq Docs
      /\ Cardinality(Holders) \in Nat /\ Cardinality(Docs) \in Nat
  BY <1>0, FS_Subset, FS_CardinalityType DEF Holders
<1>2. Cardinality(Holders) + 1 \in Numbers
  <2>1. Holders \union {d} \subseteq Docs
    BY <1>1
  <2>2. Cardinality(Holders \union {d}) = Cardinality(Holders) + 1
    BY <1>1, FS_AddElement
  <2>3. Cardinality(Holders \union {d}) <= Cardinality(Docs)
    BY <1>0, <2>1, FS_Subset
  <2> QED BY <1>1, <2>2, <2>3 DEF Numbers
<1>3. ASSUME NEW n \in Numbers PROVE Reserved(n) \in NumberRow /\ NoNumber \in NumberRow
  BY DEF Reserved, NoNumber, NumberRow
<1>4. PICK n \in Numbers :
        /\ \/ /\ Cancelled = {} /\ n = NextNumber
              /\ number' = [number EXCEPT ![d] = Reserved(n)]
           \/ \E e \in Cancelled :
                /\ n = number[e].num
                /\ number' = [number EXCEPT ![e] = NoNumber, ![d] = Reserved(n)]
        /\ worker' = [worker EXCEPT ![w].at = "stamp", ![w].num = n]
  BY DEF Reserve
<1>5. n # 0 /\ Reserved(n) \in NumberRow /\ Reserved(n).st = "RESERVED" /\ Reserved(n).num = n
      /\ NoNumber \in NumberRow /\ NoNumber.st = "none" /\ NoNumber.num = 0
  BY <1>3 DEF Reserved, NoNumber, Numbers
<1> HIDE DEF Reserved, NoNumber
<1>6. CASE /\ Cancelled = {} /\ n = NextNumber
           /\ number' = [number EXCEPT ![d] = Reserved(n)]
  <2>1. number' \in [Docs -> NumberRow] /\ number'[d] = Reserved(n) /\ OtherNumbers(d)
    BY <1>0, <1>5, <1>6 DEF OtherNumbers
  <2>2. LiveNumbers = 1 .. Cardinality(Holders)
    <3>1. {e \in Docs : number[e].st \notin {"none", "CANCELLED"}} = Holders
      BY <1>6 DEF Holders, Cancelled
    <3> QED BY <1>0, <3>1 DEF LiveNumbers, Numbering
  <2>3. n = Cardinality(Holders) + 1
    <3> DEFINE Next1(m) == (\A k \in LiveNumbers : k < m) /\ (m = 1 \/ m - 1 \in LiveNumbers)
    <3>1. Next1(Cardinality(Holders) + 1)
      BY <1>1, <2>2
    <3>2. ASSUME NEW m \in Numbers, Next1(m) PROVE m = Cardinality(Holders) + 1
      <4>1. m - 1 <= Cardinality(Holders)
        BY <1>1, <2>2, <3>2 DEF Numbers
      <4>2. CASE Cardinality(Holders) = 0
        BY <1>1, <4>1, <4>2 DEF Numbers
      <4>3. CASE Cardinality(Holders) # 0
        <5>1. Cardinality(Holders) \in LiveNumbers
          BY <1>1, <2>2, <4>3
        <5>2. Cardinality(Holders) < m
          BY <3>2, <5>1
        <5> QED BY <1>1, <4>1, <5>2 DEF Numbers
      <4> QED BY <4>2, <4>3
    <3>3. n = CHOOSE m \in Numbers : Next1(m)
      BY <1>6 DEF NextNumber
    <3> HIDE DEF Next1
    <3> QED BY <1>2, <3>1, <3>2, <3>3
  <2>4. Holders' = Holders \union {d}
    BY <1>5, <2>1 DEF Holders, OtherNumbers
  <2>5. Cardinality(Holders') = Cardinality(Holders) + 1
    BY <1>1, <2>4, FS_AddElement
  <2>6. {number[e].num : e \in Holders}' = {number[e].num : e \in Holders} \union {n}
    BY <1>1, <1>5, <2>1, <2>4 DEF OtherNumbers
  <2>7. {number[e].num : e \in Holders}' = 1 .. Cardinality(Holders')
    <3>1. {number[e].num : e \in Holders} = 1 .. Cardinality(Holders)
      BY <1>0 DEF Numbering
    <3>2. (1 .. Cardinality(Holders)) \union {n} = 1 .. n
      BY <1>1, <2>3
    <3> QED BY <2>3, <2>5, <2>6, <3>1, <3>2
  <2>8. ASSUME NEW a \in Holders', NEW b \in Holders', number'[a].num = number'[b].num PROVE a = b
    <3>1. ASSUME NEW e \in Holders PROVE number'[e].num = number[e].num /\ number[e].num # n
      <4>1. number[e].num \in 1 .. Cardinality(Holders)
        BY <1>0 DEF Numbering
      <4>2. number'[e] = number[e]
        BY <1>1, <2>1 DEF OtherNumbers
      <4> QED BY <1>1, <2>3, <4>1, <4>2
    <3>2. number'[d].num = n
      BY <1>5, <2>1
    <3> QED BY <1>0, <2>4, <2>8, <3>1, <3>2 DEF Numbering
  <2>9. \A e \in Docs : number'[e].st = "none" <=> number'[e].num = 0
    BY <1>0, <1>5, <2>1 DEF Numbering, OtherNumbers
  <2>10. \A e \in Docs : number'[e].st = "CONFIRMED" => oficial'[number'[e].num] = e
    BY <1>0, <1>5, <2>1 DEF Numbering, OtherNumbers
  <2>11. Numbering'
    BY <2>7, <2>8, <2>9, <2>10 DEF Numbering
  <2> QED BY <1>0, <1>4, <2>1, <2>11 DEF OtherNumbers
<1>7. ASSUME NEW e \in Cancelled,
             n = number[e].num,
             number' = [number EXCEPT ![e] = NoNumber, ![d] = Reserved(n)]
      PROVE  /\ number' \in [Docs -> NumberRow] /\ number'[d] = Reserved(n) /\ Numbering'
             /\ \A b \in Docs \ {d} : \/ number'[b] = number[b]
                                      \/ number[b].st = "CANCELLED" /\ number'[b] = NoNumber
  <2>1. e \in Holders /\ e # d /\ number[e].st = "CANCELLED"
    BY <1>1 DEF Cancelled, Holders
  <2>2. /\ number' \in [Docs -> NumberRow] /\ number'[d] = Reserved(n) /\ number'[e] = NoNumber
        /\ \A b \in Docs \ {d, e} : number'[b] = number[b]
    BY <1>0, <1>1, <1>5, <1>7, <2>1
  <2>3. Holders' = (Holders \ {e}) \union {d}
    BY <1>1, <1>5, <2>1, <2>2 DEF Holders
  <2>4. Cardinality(Holders') = Cardinality(Holders)
    <3>1. IsFiniteSet(Holders \ {e}) /\ Cardinality(Holders \ {e}) = Cardinality(Holders) - 1
      BY <1>1, <2>1, FS_RemoveElement
    <3>2. Cardinality((Holders \ {e}) \union {d}) = Cardinality(Holders \ {e}) + 1
      BY <1>1, <3>1, FS_AddElement
    <3> QED BY <1>1, <2>3, <3>1, <3>2
  <2>5. number'[d].num = number[e].num
    BY <1>5, <1>7, <2>2
  <2>6. ASSUME NEW b \in Holders \ {e} PROVE number'[b] = number[b] /\ b \in Holders'
    BY <1>1, <2>2, <2>3
  <2>7. {number[b].num : b \in Holders}' = {number[b].num : b \in Holders}
    <3>1. d \in Holders'
      BY <2>3
    <3>2. ASSUME NEW b \in Holders PROVE \E c \in Holders' : number'[c].num = number[b].num
      BY <2>5, <2>6, <3>1
    <3>3. ASSUME NEW c \in Holders' PROVE \E b \in Holders : number'[c].num = number[b].num
      BY <2>1, <2>3, <2>5, <2>6
    <3> QED BY <3>2, <3>3
  <2>8. {number[b].num : b \in Holders}' = 1 .. Cardinality(Holders')
    BY <1>0, <2>4, <2>7 DEF Numbering
  <2>9. ASSUME NEW a \in Holders', NEW b \in Holders', number'[a].num = number'[b].num PROVE a = b
    BY <1>0, <2>1, <2>3, <2>5, <2>6, <2>9 DEF Numbering
  <2>10. \A b \in Docs : number'[b].st = "none" <=> number'[b].num = 0
    BY <1>0, <1>5, <2>2 DEF Numbering
  <2>11. \A b \in Docs : number'[b].st = "CONFIRMED" => oficial'[number'[b].num] = b
    BY <1>0, <1>5, <2>2 DEF Numbering
  <2>12. Numbering'
    BY <2>8, <2>9, <2>10, <2>11 DEF Numbering
  <2> QED BY <2>1, <2>2, <2>12
<1> QED BY <1>0, <1>4, <1>6, <1>7

\* A reservation by a job keeps the invariant.
LEMMA ReserveStep ==
  ASSUME IInv, NEW w \in Workers, Reserve(w)
  PROVE  IInv'
<1> USE DEF Has, Stages, KeepsRequest, requestVars, deliveryVars
<1>0. TypeOK /\ JobOf(w)
  BY DEF IInv, Jobs
<1>1. PICK d \in Docs : d = Doc(w) /\ worker[w].at = "reserve" /\ sess[d] = "processing"
                        /\ draft[d] # "signed" /\ worker[w].ok
  BY <1>0 DEF Reserve, JobOf, Doc
<1>2. PICK n \in Numbers :
           /\ number[d].st = "none"
           /\ number' \in [Docs -> NumberRow] /\ number'[d] = Reserved(n)
           /\ \A e \in Docs \ {d} :
                \/ number'[e] = number[e]
                \/ number[e].st = "CANCELLED" /\ number'[e] = NoNumber
           /\ Numbering'
           /\ worker' = [worker EXCEPT ![w].at = "stamp", ![w].num = n]
  BY <1>1, ReserveNumbers
<1>3. KeepsRequest /\ UNCHANGED <<tosign, oficial, lost>> /\ NoFault
  BY DEF Reserve
<1>4. worker \in [Workers -> Job4]
  BY <1>0 DEF TypeOK, Job4
<1>5. PICK c : c = [worker[w] EXCEPT !.at = "stamp", !.num = n]
  OBVIOUS
<1>6. c \in Job4 /\ c.at = "stamp" /\ c.num = n /\ c.doc = d /\ c.ok
  BY <1>1, <1>4, <1>5 DEF Job4, Doc
<1>7. worker' = [worker EXCEPT ![w] = c]
  BY <1>2, <1>5
<1>8. worker' \in [Workers -> Job4] /\ worker'[w] = c /\ OtherJobs(w)
  BY <1>4, <1>6, <1>7 DEF OtherJobs
<1>9. number'[d].st = "RESERVED" /\ number'[d].num = n
  BY <1>2 DEF Reserved
<1>10. JobOf(w)'
  BY <1>1, <1>3, <1>6, <1>8, <1>9 DEF JobOf
<1>11. TypeOK'
  BY <1>0, <1>2, <1>3, <1>8, FaultTyped
     DEF TypeOK, DeliveryTypeOK, RequestTypeOK, Job4, NumberRow, Faultless
<1>12. \A e \in Docs \ {d} : Stands(e)
  BY <1>2, <1>3 DEF Stands
<1>13. ProgressOf(d)' /\ sess'[d] # "none"
  BY <1>1, <1>3 DEF IInv, Progress, ProgressOf
<1>14. Delivery'
  BY <1>3, DeliveryStands
<1> QED BY <1>1, <1>2, <1>3, <1>6, <1>8, <1>10, <1>11, <1>12, <1>13, <1>14, JobChanges
        DEF OtherRequest

-----------------------------------------------------------------------------
(* The claim of a session and the sweeper *)

\* No job has the document of a session that is pending.
LEMMA ClaimStep ==
  ASSUME IInv, NEW w \in Workers, ClaimSession(w)
  PROVE  IInv'
<1> USE DEF Has, Stages
<1>0. TypeOK
  BY DEF IInv
<1>1. PICK d \in Docs : /\ sess[d] = "pending"
                        /\ sess' = [sess EXCEPT ![d] = "processing"]
                        /\ worker' = [worker EXCEPT ![w] = [Asleep EXCEPT !.at = "compose", !.doc = d]]
  BY DEF ClaimSession
<1>2. OtherRequest /\ UNCHANGED <<draft, deliveryVars, number, tosign, oficial, lost>> /\ NoFault
  BY DEF ClaimSession
<1>3. worker \in [Workers -> Job4]
      /\ sess \in [Docs -> {"none", "pending", "processing", "signed", "failed"}]
  BY <1>0 DEF TypeOK, RequestTypeOK, Job4
<1>4. PICK c : c = [Asleep EXCEPT !.at = "compose", !.doc = d]
  OBVIOUS
<1>5. c \in Job4 /\ c.at = "compose" /\ c.doc = d /\ c.ok
  <2>1. Asleep \in Job4 /\ Asleep.ok
    BY DEF Asleep, Job4
  <2> QED BY <1>4, <2>1 DEF Job4
<1>6. worker' \in [Workers -> Job4] /\ worker'[w] = c /\ OtherJobs(w)
  BY <1>1, <1>3, <1>4, <1>5 DEF OtherJobs
<1>7. sess' \in [Docs -> {"none", "pending", "processing", "signed", "failed"}]
      /\ sess'[d] = "processing" /\ \A e \in Docs \ {d} : sess'[e] = sess[e]
  BY <1>1, <1>3
<1>8. number[d].st = "none" /\ draft[d] # "signed" /\ job[d] = NoJob /\ received[d] = {}
  BY <1>1 DEF IInv, Progress, ProgressOf
<1>9. \A e \in Docs \ {d} : Stands(e)
  BY <1>2, <1>7 DEF Stands, deliveryVars
<1>10. \A v \in Workers \ {w} : worker[v].doc # d
  BY <1>1, DeliveryAssumption DEF IInv, Jobs, JobOf
<1>11. TypeOK'
  BY <1>0, <1>2, <1>6, <1>7, FaultTyped
     DEF TypeOK, DeliveryTypeOK, RequestTypeOK, Job4, Faultless, OtherRequest, deliveryVars
<1>12. Jobs'
  <2>1. JobOf(w)'
    BY <1>2, <1>5, <1>6, <1>7, <1>8 DEF JobOf
  <2>2. \A v \in Workers \ {w} : JobOf(v)'
    BY <1>6, <1>9, <1>10, JobStands DEF OtherJobs
  <2>3. OneJob'
    BY <1>5, <1>6, <1>10 DEF IInv, Jobs, OneJob, OtherJobs
  <2> QED BY <2>1, <2>2, <2>3 DEF Jobs
<1>13. Progress'
  <2>1. ProgressOf(d)'
    BY <1>1, <1>2, <1>7, <1>8 DEF IInv, Progress, ProgressOf, OtherRequest, deliveryVars
  <2> QED BY <1>2, <1>9, <2>1, ProgressStands DEF Progress, OtherRequest
<1>14. Asking'
  BY <1>1, <1>2, <1>7, AskingStands
<1>15. Numbering' /\ Delivery'
  BY <1>2, NumberingStands, DeliveryStands DEF IInv, Numbering
<1> QED BY <1>11, <1>12, <1>13, <1>14, <1>15 DEF IInv

\* The sweeper cancels a reservation: whoever holds it knows nothing of it.
LEMMA SweepStep ==
  ASSUME IInv, NEW d \in Docs, SweepReserved(d)
  PROVE  IInv'
<1> USE DEF KeepsRequest, requestVars, deliveryVars
<1>0. TypeOK /\ number[d].st = "RESERVED" /\ number' = [number EXCEPT ![d].st = "CANCELLED"]
  BY DEF IInv, SweepReserved
<1>1. KeepsRequest /\ UNCHANGED <<worker, tosign, oficial, lost>> /\ NoFault
  BY DEF SweepReserved
<1>2. /\ number' \in [Docs -> NumberRow] /\ OtherNumbers(d)
      /\ number'[d] = [st |-> "CANCELLED", num |-> number[d].num]
  BY <1>0, StatusMoves
<1>3. \A e \in Docs : Stands(e)
  BY <1>0, <1>1, <1>2 DEF Stands, OtherNumbers
<1>4. TypeOK'
  BY <1>0, <1>1, <1>2, FaultTyped
     DEF TypeOK, DeliveryTypeOK, RequestTypeOK, NumberRow, Faultless
<1>5. Jobs'
  BY <1>1, <1>3, JobStands DEF IInv, Jobs, OneJob
<1>6. Progress'
  BY <1>1, <1>3, ProgressStands DEF Progress
<1>7. Asking'
  BY <1>1, AskingStands DEF OtherRequest
<1>8. Numbering'
  <2>1. number'[d].st = "CANCELLED" /\ number'[d].num = number[d].num
    BY <1>2
  <2>2. \A e \in Docs : /\ number'[e].num = number[e].num
                        /\ number'[e].st = "none" <=> number[e].st = "none"
                        /\ number'[e].st = "CONFIRMED" => oficial'[number[e].num] = e
    BY <1>0, <1>1, <1>2, <2>1 DEF OtherNumbers, IInv, Numbering
  <2> QED BY <2>2, NumberingStands
<1>9. Delivery'
  BY <1>1, DeliveryStands
<1> QED BY <1>4, <1>5, <1>6, <1>7, <1>8, <1>9 DEF IInv

-----------------------------------------------------------------------------
(* The steps of a sender *)

\* A sender touches only a webhook that was queued, and its event stays.
LEMMA SenderKeeps ==
  ASSUME IInv, DeliveryNext, UNCHANGED <<requestVars, issueVars>>, NEW d \in Docs
  PROVE  /\ job'[d].event = job[d].event
         /\ job'[d].st = "none" <=> job[d].st = "none"
         /\ job'[d].st \in {"pending", "processing"} => job'[d].attempts < MaxAttempts
         /\ received'[d] \subseteq {job[d].event}
         /\ job[d] = NoJob => job'[d] = NoJob /\ received'[d] = received[d]
<1> USE DeliveryAssumption
<1>0. /\ job \in [Docs -> Job] /\ sender \in [Senders -> Memory]
      /\ received \in [Docs -> SUBSET Events]
  BY DEF IInv, TypeOK, DeliveryTypeOK, Memory
<1>1. /\ job[d].st = "none" <=> job[d].event = "none"
      /\ job[d].st \in {"pending", "processing"} => job[d].attempts < MaxAttempts
      /\ received[d] \subseteq {job[d].event}
  BY DEF IInv, Delivery
<1>2. ASSUME NEW s \in Senders, sender[s].at # "idle"
      PROVE  /\ Its(s) \in Docs /\ job[Its(s)].event # "none"
             /\ sender[s].attempts \in 0 .. MaxAttempts
  BY <1>0, <1>2 DEF IInv, Delivery, Its, Events, Memory
<1>3. job[d] = NoJob => job[d].st = "none" /\ job[d].event = "none"
  BY DEF NoJob
<1> DEFINE Kept == /\ job'[d].event = job[d].event
                   /\ job'[d].st = "none" <=> job[d].st = "none"
                   /\ job'[d].st \in {"pending", "processing"} => job'[d].attempts < MaxAttempts
                   /\ received'[d] \subseteq {job[d].event}
                   /\ job[d] = NoJob => job'[d] = NoJob /\ received'[d] = received[d]
<1>4. ASSUME NEW e \in Docs, NEW st \in {"pending", "processing", "sent"}, job[e].st # "none",
             job' = [job EXCEPT ![e].st = st], received' = received,
             st = "sent" \/ job[e].st \in {"pending", "processing"}
      PROVE  Kept
  <2>1. PICK c : c = [job[e] EXCEPT !.st = st]
    OBVIOUS
  <2>2. c.st = st /\ c.event = job[e].event /\ c.attempts = job[e].attempts
    BY <1>0, <2>1 DEF Job
  <2>3. job' = [job EXCEPT ![e] = c]
    BY <1>4, <2>1
  <2> QED BY <1>0, <1>1, <1>3, <1>4, <2>2, <2>3
<1>5. ASSUME NEW s \in Senders, Claim(s) PROVE Kept
  <2>1. PICK e \in Docs : job[e].st = "pending" /\ job' = [job EXCEPT ![e].st = "processing"]
    BY <1>5 DEF Claim
  <2> QED BY <1>4, <1>5, <2>1 DEF Claim
<1>6. ASSUME NEW s \in Senders, PostOk(s) \/ PostAnswerLost(s) \/ PostFails(s) PROVE Kept
  <2>1. Its(s) \in Docs /\ job[Its(s)].event # "none" /\ job' = job
    BY <1>2, <1>6 DEF PostOk, PostAnswerLost, PostFails
  <2>2. received' \in {received, [received EXCEPT ![Its(s)] = @ \union {job[Its(s)].event}]}
    BY <1>6 DEF PostOk, PostAnswerLost, PostFails
  <2> QED BY <1>0, <1>1, <1>3, <2>1, <2>2
<1>7. ASSUME NEW s \in Senders, MarkFails(s) \/ SenderDies(s) PROVE Kept
  BY <1>1, <1>7 DEF MarkFails, SenderDies
<1>8. ASSUME NEW s \in Senders, MarkSent(s) PROVE Kept
  BY <1>1, <1>2, <1>4, <1>8 DEF MarkSent, IInv, Delivery
<1>9. ASSUME NEW s \in Senders, RequeueOrFail(s) PROVE Kept
  <2>1. PICK st \in {"failed", "pending"} :
          /\ st = "pending" => ~Exhausted(s)
          /\ job' = [job EXCEPT ![Its(s)].st = st, ![Its(s)].attempts = sender[s].attempts]
    BY <1>9 DEF RequeueOrFail
  <2>2. /\ Its(s) \in Docs /\ job[Its(s)].event # "none" /\ job[Its(s)].st # "none"
        /\ sender[s].attempts \in 0 .. MaxAttempts /\ received' = received
    BY <1>2, <1>9 DEF RequeueOrFail, IInv, Delivery
  <2>3. PICK c : c = [job[Its(s)] EXCEPT !.st = st, !.attempts = sender[s].attempts]
    OBVIOUS
  <2>4. c.st = st /\ c.event = job[Its(s)].event /\ c.attempts = sender[s].attempts
    BY <1>0, <2>2, <2>3 DEF Job
  <2>5. job' = [job EXCEPT ![Its(s)] = c]
    BY <1>0, <2>1, <2>2, <2>3
  <2>6. st = "pending" => c.attempts < MaxAttempts
    BY <2>1, <2>2, <2>4 DEF Exhausted
  <2> QED BY <1>0, <1>1, <1>3, <2>2, <2>4, <2>5, <2>6
<1>10. ASSUME NEW e \in Docs, SweepJob(e) PROVE Kept
  BY <1>4, <1>10 DEF SweepJob, SweptStatus
<1> QED BY <1>5, <1>6, <1>7, <1>8, <1>9, <1>10 DEF DeliveryNext, SenderGoes

\* A step of a sender keeps the invariant.
LEMMA DeliveryStep ==
  ASSUME IInv, DeliveryNext, UNCHANGED <<requestVars, issueVars>>
  PROVE  IInv'
<1> USE DEF requestVars, issueVars
<1>1. TypeOK'
  BY DeliveryTyped DEF IInv
<1>2. \A d \in Docs : Stands(d)
  BY SenderKeeps DEF Stands
<1>3. Numbering' /\ Asking'
  BY NumberingStands, AskingStands DEF IInv, Numbering, OtherRequest
<1>4. Progress'
  BY <1>2, ProgressStands DEF Progress
<1>5. Jobs'
  BY <1>2, JobStands DEF IInv, Jobs, OneJob
<1>6. Delivery'
  <2>1. ASSUME NEW s \in Senders, sender'[s].at # "idle"
        PROVE  sender'[s].doc \in Docs /\ job[sender'[s].doc].event \in Events
    <3>0. sender \in [Senders -> Memory] /\ job \in [Docs -> Job]
      BY DEF IInv, TypeOK, DeliveryTypeOK, Memory
    <3>1. CASE sender'[s].at = sender[s].at /\ sender'[s].doc = sender[s].doc
      BY <2>1, <3>1 DEF IInv, Delivery
    <3>2. ASSUME NEW t \in Senders, Claim(t)
          PROVE  \/ sender'[s] = sender[s]
                 \/ job[sender'[s].doc].st = "pending" /\ sender'[s].doc \in Docs
      <4>1. PICK d \in Docs :
              /\ job[d].st = "pending"
              /\ sender' = [sender EXCEPT ![t] =
                              [at |-> "post", doc |-> d, attempts |-> job[d].attempts + 1]]
        BY <3>2 DEF Claim
      <4>2. PICK m : m = [at |-> "post", doc |-> d, attempts |-> job[d].attempts + 1]
        OBVIOUS
      <4>3. m.doc = d /\ sender' = [sender EXCEPT ![t] = m]
        BY <4>1, <4>2
      <4> QED BY <3>0, <4>1, <4>3
    <3>3. ASSUME NEW t \in Senders, NEW at \in {"mark", "requeue"}, SenderTo(t, at), sender[t].at # "idle"
          PROVE sender'[s].doc = sender[s].doc /\ sender[s].at # "idle"
      BY <2>1, <3>0, <3>3 DEF SenderTo, Memory
    <3>4. ASSUME NEW t \in Senders, SenderEnds(t) PROVE sender'[s] = sender[s]
      BY <2>1, <3>0, <3>4 DEF SenderEnds, Resting
    <3>5. \/ sender'[s] = sender[s]
          \/ job[sender'[s].doc].st = "pending" /\ sender'[s].doc \in Docs
          \/ sender'[s].doc = sender[s].doc /\ sender[s].at # "idle"
      BY <3>2, <3>3, <3>4
         DEF DeliveryNext, SenderGoes, PostOk, PostAnswerLost, PostFails, MarkSent, MarkFails,
             RequeueOrFail, SenderDies, SweepJob
    <3>6. ASSUME NEW d \in Docs, job[d].st = "pending" PROVE job[d].event \in Events
      BY <3>0, <3>6 DEF IInv, Delivery, Job
    <3> QED BY <2>1, <3>5, <3>6 DEF IInv, Delivery
  <2>2. \A s \in Senders : sender'[s].at # "idle" =>
          sender'[s].doc \in Docs /\ job'[sender'[s].doc].event \in Events
    BY <2>1, SenderKeeps
  <2>3. ASSUME NEW d \in Docs
        PROVE /\ job'[d].st = "none" <=> job'[d].event = "none"
              /\ job'[d].st \in {"pending", "processing"} => job'[d].attempts < MaxAttempts
              /\ received'[d] \subseteq {job'[d].event}
              /\ job'[d].event = "signed" => draft'[d] = "signed"
              /\ job'[d].event = "signature_failed" => draft'[d] # "signed"
    BY SenderKeeps DEF IInv, Delivery
  <2> QED BY <2>2, <2>3 DEF Delivery
<1> QED BY <1>1, <1>2, <1>3, <1>4, <1>5, <1>6 DEF IInv

-----------------------------------------------------------------------------
(* The steps of a request *)

\* A request touches no document that was queued, and forgets none.
LEMMA RequestKeeps ==
  ASSUME IInv, RequestNext, NEW d \in Docs
  PROVE  /\ sess[d] # "none" => sess'[d] = sess[d] /\ draft'[d] = draft[d]
         /\ sess[d] = "none" => sess'[d] \in {"none", "pending"}
         /\ draft[d] # "none" => draft'[d] # "none" /\ (d \in keyed' <=> d \in keyed)
         /\ draft'[d] = "none" => sess'[d] = "none" /\ d \notin keyed'
         /\ draft'[d] = "signed" <=> draft[d] = "signed"
<1>0. /\ draft \in [Docs -> {"none", "draft", "sent_to_sign", "signed"}]
      /\ sess \in [Docs -> {"none", "pending", "processing", "signed", "failed"}]
  BY DEF IInv, TypeOK, RequestTypeOK
<1>1. ProgressOf(d)
  BY DEF IInv, Progress
<1>2. ASSUME NEW r \in Requests PROVE RequestOf(r)
  BY DEF IInv, Asking
<1>3. ASSUME NEW e \in Docs, sess[e] = "none" PROVE draft[e] # "signed"
  BY <1>3 DEF IInv, Progress, ProgressOf
<1> DEFINE Kept == /\ sess[d] # "none" => sess'[d] = sess[d] /\ draft'[d] = draft[d]
                   /\ sess[d] = "none" => sess'[d] \in {"none", "pending"}
                   /\ draft[d] # "none" => draft'[d] # "none" /\ (d \in keyed' <=> d \in keyed)
                   /\ draft'[d] = "none" => sess'[d] = "none" /\ d \notin keyed'
                   /\ draft'[d] = "signed" <=> draft[d] = "signed"
<1>4. ASSUME UNCHANGED <<draft, keyed, sess>> PROVE Kept
  BY <1>1, <1>4 DEF ProgressOf
<1>5. ASSUME NEW r \in Requests, Create(r) PROVE Kept
  <2>1. Fresh \in Docs /\ draft[Fresh] = "none" /\ draft' = [draft EXCEPT ![Fresh] = "draft"]
        /\ keyed' \in {keyed, keyed \union {Fresh}} /\ sess' = sess
    BY <1>5 DEF Create, Fresh, Unused
  <2>2. sess[Fresh] = "none"
    BY <2>1 DEF IInv, Progress, ProgressOf
  <2> QED BY <1>0, <1>1, <2>1, <2>2 DEF ProgressOf
<1>6. ASSUME NEW r \in Requests, Prepare(r) \/ Revert(r) PROVE Kept
  <2>1. PICK e \in Docs : e = request[r].doc /\ draft[e] # "none" /\ sess[e] = "none"
    BY <1>2, <1>6 DEF RequestOf, Prepare, Revert, At
  <2>2. draft' = [draft EXCEPT ![e] = "sent_to_sign"]
        \/ draft' = [draft EXCEPT ![e] = IF @ = "sent_to_sign" THEN "draft" ELSE @]
    BY <1>6, <2>1 DEF Prepare, Revert
  <2>3. UNCHANGED <<keyed, sess>>
    BY <1>6 DEF Prepare, Revert
  <2> QED BY <1>0, <1>1, <1>3, <2>1, <2>2, <2>3 DEF ProgressOf
<1>7. ASSUME NEW r \in Requests, Enqueue(r) PROVE Kept
  <2>1. PICK e \in Docs : e = request[r].doc /\ draft[e] # "none" /\ sess[e] = "none"
    BY <1>2, <1>7 DEF RequestOf, Enqueue, At
  <2>2. sess' = [sess EXCEPT ![e] = "pending"] /\ UNCHANGED <<draft, keyed>>
    BY <1>7, <2>1 DEF Enqueue
  <2> QED BY <1>0, <1>1, <2>1, <2>2 DEF ProgressOf
<1> QED BY <1>4, <1>5, <1>6, <1>7
        DEF RequestNext, RequestGoes, RequestFails, Arrive, Purge, Insert, Read, Complete, Release,
            CreateFails, EnqueueFails, RevertFails, ClosingFails, Dies, KeyExpires

\* Each document in preparation belongs to the request that created it.
LEMMA RequestDocs ==
  ASSUME IInv, RequestNext
  PROVE  OwnDocument' /\ \A r \in Requests : RequestOf(r)'
<1>0. /\ request \in [Requests -> Request] /\ TypeOK
      /\ sess \in [Docs -> {"none", "pending", "processing", "signed", "failed"}]
  BY DEF IInv, TypeOK, RequestTypeOK
<1> DEFINE Preparing == {"prepare", "enqueue", "revert"}
           Kept == OwnDocument' /\ \A r \in Requests : RequestOf(r)'
<1>1. ASSUME NEW q \in Requests, request'[q] = request[q],
             request[q].at \in Preparing => sess'[request[q].doc] = sess[request[q].doc]
      PROVE  RequestOf(q)'
  <2>1. RequestOf(q)
    BY DEF IInv, Asking
  <2> QED BY <1>1, <2>1, RequestKeeps DEF RequestOf
<1>2. CASE UNCHANGED request /\ UNCHANGED sess
  BY <1>1, <1>2 DEF IInv, Asking, OwnDocument
\* A request that goes on with what it has, or that ends.
<1>3. ASSUME NEW r \in Requests, OtherRequests(r), UNCHANGED sess,
             \/ /\ request'[r].doc = request[r].doc /\ request'[r].keyed = request[r].keyed
                /\ request'[r].at \in Preparing => request[r].at \in Preparing
                /\ request'[r].at = "complete" => request[r].at = "complete"
                /\ request'[r].at \in {"purge", "insert", "read", "complete", "release"} => request[r].keyed
                /\ request'[r].at # "idle"
             \/ request'[r].at = "idle" /\ ~request'[r].keyed
             \/ request'[r].at = "release" /\ request'[r].keyed
             \/ request'[r].at = "create"
             \/ request'[r].at = "purge" /\ request'[r].keyed
      PROVE  Kept
  <2>1. \A q \in Requests \ {r} : RequestOf(q)'
    BY <1>1, <1>3 DEF OtherRequests
  <2>2. RequestOf(r)
    BY DEF IInv, Asking
  <2>3. RequestOf(r)'
    BY <1>3, <2>2, RequestKeeps DEF RequestOf
  <2>4. OwnDocument'
    BY <1>3 DEF IInv, Asking, OwnDocument, OtherRequests
  <2> QED BY <2>1, <2>3, <2>4
<1>4. ASSUME NEW r \in Requests, Create(r) PROVE Kept
  <2>1. Fresh \in Docs /\ draft[Fresh] = "none" /\ draft'[Fresh] # "none" /\ sess' = sess
    <3>1. Fresh \in Docs /\ draft[Fresh] = "none"
      BY <1>4 DEF Create, Fresh, Unused
    <3> QED BY <1>0, <1>4, <3>1 DEF Create, TypeOK, RequestTypeOK
  <2>2. sess'[Fresh] = "none" /\ (~request[r].keyed => Fresh \notin keyed')
    BY <1>4, <2>1 DEF IInv, Progress, ProgressOf, Create
  <2>3. PICK c : c = [request[r] EXCEPT !.at = "prepare", !.doc = Fresh]
    OBVIOUS
  <2>4. c.at = "prepare" /\ c.doc = Fresh /\ c.keyed = request[r].keyed
    BY <1>0, <2>3 DEF Request
  <2>5. request' = [request EXCEPT ![r] = c]
    BY <1>4, <2>3 DEF Create
  <2>6. request'[r] = c /\ OtherRequests(r)
    BY <1>0, <2>5 DEF OtherRequests
  <2>7. RequestOf(r)'
    BY <2>1, <2>2, <2>4, <2>6 DEF RequestOf
  <2>8. \A q \in Requests \ {r} : RequestOf(q)'
    BY <1>1, <2>1, <2>6 DEF OtherRequests
  <2>9. \A q \in Requests : request[q].at \in Preparing => draft[request[q].doc] # "none"
    BY DEF IInv, Asking, RequestOf
  <2>10. OwnDocument'
    BY <2>1, <2>4, <2>6, <2>9 DEF IInv, Asking, OwnDocument, OtherRequests
  <2> QED BY <2>7, <2>8, <2>10
<1>5. ASSUME NEW r \in Requests, Enqueue(r) PROVE Kept
  <2>1. RequestOf(r) /\ request[r].at = "enqueue"
    BY <1>5 DEF IInv, Asking, Enqueue, At
  <2>2. \A d \in Docs \ {request[r].doc} : sess'[d] = sess[d]
    BY <1>0, <1>5 DEF Enqueue
  <2>3. /\ OtherRequests(r)
        /\ \/ request'[r].at = "idle" /\ ~request'[r].keyed
           \/ /\ request'[r].at = "complete" /\ request'[r].keyed
              /\ request'[r].doc = request[r].doc
    BY <1>0, <1>5, ToMoves, AnswerMoves DEF Enqueue
  <2>4. RequestOf(r)'
    BY <2>1, <2>3 DEF RequestOf
  <2>5. ASSUME NEW q \in Requests \ {r} PROVE RequestOf(q)'
    <3>1. request[q].at \in Preparing => request[q].doc \in Docs \ {request[r].doc}
      BY <2>1, <2>5 DEF IInv, Asking, OwnDocument, RequestOf
    <3> QED BY <1>1, <2>2, <2>3, <2>5, <3>1 DEF OtherRequests
  <2>6. OwnDocument'
    BY <2>3 DEF IInv, Asking, OwnDocument, OtherRequests
  <2> QED BY <2>4, <2>5, <2>6
<1>6. ASSUME NEW r \in Requests, Arrive(r) PROVE Kept
  <2>1. PICK c \in {[Away EXCEPT !.at = "purge", !.keyed = TRUE], [Away EXCEPT !.at = "create"]} :
          request' = [request EXCEPT ![r] = c]
    BY <1>6 DEF Arrive
  <2>2. (c.at = "purge" /\ c.keyed) \/ c.at = "create"
    BY DEF Away
  <2>3. request'[r] = c /\ OtherRequests(r)
    BY <1>0, <2>1 DEF OtherRequests
  <2> QED BY <1>3, <1>6, <2>2, <2>3 DEF Arrive
<1>7. ASSUME NEW r \in Requests, Purge(r) \/ Insert(r) \/ Read(r) \/ Prepare(r) PROVE Kept
  <2>1. RequestOf(r)
    BY DEF IInv, Asking
  <2>2. UNCHANGED sess
    BY <1>7 DEF Purge, Insert, Read, Prepare
  <2>3. ASSUME NEW at \in {"insert", "create", "read", "enqueue"}, To(r, at),
               IF at = "enqueue" THEN request[r].at = "prepare"
                                 ELSE request[r].at \in {"purge", "insert", "read"}
        PROVE  Kept
    BY <1>0, <1>3, <2>1, <2>2, <2>3, ToMoves DEF RequestOf
  <2>4. CASE Answer(r)
    BY <1>0, <1>3, <2>2, <2>4, AnswerMoves
  <2>5. CASE Purge(r)
    BY <2>3, <2>5 DEF Purge, At
  <2>6. CASE Insert(r)
    BY <2>3, <2>6 DEF Insert, At
  <2>7. CASE Read(r)
    BY <2>3, <2>4, <2>7 DEF Read, At
  <2>8. CASE Prepare(r)
    BY <2>3, <2>8 DEF Prepare, At
  <2> QED BY <1>7, <2>5, <2>6, <2>7, <2>8
<1>8. ASSUME NEW r \in Requests, Revert(r) \/ CreateFails(r) \/ RevertFails(r) PROVE Kept
  <2>1. Errs(r) /\ UNCHANGED sess
    BY <1>8 DEF Revert, CreateFails, RevertFails
  <2> QED BY <1>0, <1>3, <2>1, ErrsMoves
<1>9. ASSUME NEW r \in Requests, EnqueueFails(r) PROVE Kept
  <2>1. To(r, "revert") /\ UNCHANGED sess /\ request[r].at = "enqueue"
    BY <1>9 DEF EnqueueFails, At
  <2> QED BY <1>0, <1>3, <2>1, ToMoves
<1>10. ASSUME NEW r \in Requests, Complete(r) \/ Release(r) \/ ClosingFails(r) \/ Dies(r) PROVE Kept
  <2>1. Answer(r) /\ UNCHANGED sess
    BY <1>10 DEF Complete, Release, ClosingFails, Dies
  <2> QED BY <1>0, <1>3, <2>1, AnswerMoves
<1>11. CASE KeyExpires
  BY <1>2, <1>11 DEF KeyExpires
<1> QED BY <1>4, <1>5, <1>6, <1>7, <1>8, <1>9, <1>10, <1>11
        DEF RequestNext, RequestGoes, RequestFails

\* The key is held as it was, or by fewer requests.
LEMMA HoldersLeave ==
  ASSUME IInv, lapsed' = {} => keyRow' = keyRow, lapsed \subseteq lapsed',
         Admitted' \subseteq Admitted, Queued' = Queued,
         \A r \in Admitted' : request[r].at = "complete" => request'[r].at = "complete"
  PROVE  KeyState'
<1>1. CASE lapsed' = {}
  <2>1. lapsed = {} /\ keyRow' = keyRow
    BY <1>1
  <2>2. KeyState
    BY DEF IInv, Asking
  <2> QED BY <2>1, <2>2 DEF KeyState
<1>2. CASE lapsed' # {}
  BY <1>2 DEF KeyState
<1> QED BY <1>1, <1>2

\* A step of a request keeps what is known of who holds the key.
LEMMA RequestKey ==
  ASSUME IInv, RequestNext
  PROVE  KeyState'
<1>0. /\ request \in [Requests -> Request]
      /\ sess \in [Docs -> {"none", "pending", "processing", "signed", "failed"}]
      /\ keyRow \in KeyRow /\ keyed \subseteq Docs /\ TypeOK
  BY DEF IInv, TypeOK, RequestTypeOK
<1> DEFINE Past == {"idle", "purge", "insert", "read"}
           In(c) == c.keyed /\ c.at \notin {"purge", "insert", "read"}
<1>1. ASSUME NEW r \in Requests PROVE RequestOf(r)
  BY DEF IInv, Asking
<1>2. /\ \A r : r \in Admitted <=> r \in Requests /\ In(request[r])
      /\ \A r : r \in Admitted' <=> r \in Requests /\ In(request'[r])
  BY DEF Admitted
<1>3. ASSUME UNCHANGED <<keyed, sess>> PROVE Queued' = Queued
  BY <1>3 DEF Queued
\* Whoever was not past the key is not, and whoever was is, or is no longer.
<1>4. ASSUME NEW r \in Requests, OtherRequests(r), In(request'[r]) => In(request[r]),
             In(request'[r]) /\ request[r].at = "complete" => request'[r].at = "complete"
      PROVE  /\ Admitted' \subseteq Admitted
             /\ \A q \in Admitted' : request[q].at = "complete" => request'[q].at = "complete"
  BY <1>2, <1>4 DEF OtherRequests
<1>5. ASSUME NEW r \in Requests, Answer(r) PROVE OtherRequests(r) /\ ~In(request'[r])
  BY <1>0, <1>5, AnswerMoves
<1>6. ASSUME NEW r \in Requests, Errs(r), In(request[r]), request[r].at # "complete"
      PROVE  OtherRequests(r)
  BY <1>0, <1>6, ErrsMoves
<1> HIDE DEF In
<1>7. ASSUME NEW r \in Requests, UNCHANGED <<keyed, sess>>,
             lapsed \subseteq lapsed', lapsed' = {} => keyRow' = keyRow,
             OtherRequests(r), ~In(request'[r])
      PROVE  KeyState'
  BY <1>3, <1>4, <1>7, HoldersLeave
<1>8. CASE KeyExpires
  BY <1>8 DEF KeyExpires, KeyState
<1>9. ASSUME NEW r \in Requests, Arrive(r) PROVE KeyState'
  <2>1. PICK c \in {[Away EXCEPT !.at = "purge", !.keyed = TRUE], [Away EXCEPT !.at = "create"]} :
          request' = [request EXCEPT ![r] = c]
    BY <1>9 DEF Arrive
  <2>2. ~In(c)
    BY DEF Away, In
  <2>3. ~In(request'[r]) /\ OtherRequests(r)
    BY <1>0, <2>1, <2>2 DEF OtherRequests
  <2> QED BY <1>7, <1>9, <2>3 DEF Arrive
<1>10. ASSUME NEW r \in Requests, Purge(r) PROVE KeyState'
  <2>1. OtherRequests(r) /\ ~In(request'[r])
    BY <1>0, <1>10, ToMoves DEF Purge, In
  <2>2. lapsed' = {} => keyRow' = keyRow
    BY <1>10 DEF Purge, IInv, Asking, KeyState
  <2> QED BY <1>7, <1>10, <2>1, <2>2 DEF Purge
<1>11. ASSUME NEW r \in Requests, Insert(r), ~Free PROVE KeyState'
  <2>1. OtherRequests(r) /\ ~In(request'[r])
    BY <1>0, <1>11, ToMoves DEF Insert, In
  <2> QED BY <1>7, <1>11, <2>1 DEF Insert
\* The insertion: no other request holds the key and no document left with it.
<1>12. ASSUME NEW r \in Requests, Insert(r), Free PROVE KeyState'
  <2>1. /\ keyRow' = [NoRow EXCEPT !.st = "in_flight"] /\ keyRow.st = "none"
        /\ OtherRequests(r) /\ UNCHANGED <<lapsed, keyed, sess>>
    BY <1>0, <1>12, ToMoves DEF Insert, Free
  <2>2. keyRow'.st = "in_flight" /\ ~keyRow'.expired
    BY <2>1 DEF NoRow
  <2>3. CASE lapsed = {}
    <3>1. Admitted = {} /\ Queued = {}
      BY <2>1, <2>3 DEF IInv, Asking, KeyState
    <3>2. Admitted' \subseteq {r} /\ Queued' = {}
      BY <1>2, <1>3, <2>1, <3>1 DEF OtherRequests
    <3> QED BY <2>2, <3>2 DEF KeyState
  <2> QED BY <2>1, <2>3 DEF KeyState
<1>13. ASSUME NEW r \in Requests, Read(r) PROVE KeyState'
  <2>1. CASE Answer(r)
    BY <1>5, <1>7, <1>13, <2>1 DEF Read
  <2>2. CASE ~Answer(r)
    BY <1>13, <2>2 DEF Read, KeyState
  <2> QED BY <2>1, <2>2
<1>14. ASSUME NEW r \in Requests, Create(r) PROVE KeyState'
  <2>1. Fresh \in Docs /\ draft[Fresh] = "none" /\ sess[Fresh] = "none"
    <3>1. Fresh \in Docs /\ draft[Fresh] = "none"
      BY <1>14 DEF Create, Fresh, Unused
    <3> QED BY <3>1 DEF IInv, Progress, ProgressOf
  <2>2. Queued' = Queued
    BY <1>14, <2>1 DEF Create, Queued
  <2>3. PICK c : c = [request[r] EXCEPT !.at = "prepare", !.doc = Fresh]
    OBVIOUS
  <2>4. c.at = "prepare" /\ c.keyed = request[r].keyed
    BY <1>0, <2>3 DEF Request
  <2>5. request' = [request EXCEPT ![r] = c] /\ request[r].at = "create"
    BY <1>14, <2>3 DEF Create, At
  <2>6. request'[r] = c /\ OtherRequests(r)
    BY <1>0, <2>5 DEF OtherRequests
  <2>7. (In(request'[r]) => In(request[r])) /\ request[r].at # "complete"
    BY <2>4, <2>5, <2>6 DEF In
  <2> QED BY <1>4, <1>14, <2>2, <2>6, <2>7, HoldersLeave DEF Create
<1>15. ASSUME NEW r \in Requests, NEW at \in {"enqueue", "revert", "release"}, To(r, at),
              request[r].at \notin Past \union {"complete"}, UNCHANGED <<keyRow, lapsed, keyed, sess>>
       PROVE  KeyState'
  <2>1. /\ OtherRequests(r)
        /\ request'[r].at = at /\ request'[r].keyed = request[r].keyed
    BY <1>0, <1>15, ToMoves
  <2>2. In(request'[r]) => In(request[r])
    BY <1>15, <2>1 DEF In
  <2> QED BY <1>3, <1>4, <1>15, <2>1, <2>2, HoldersLeave
<1>16. ASSUME NEW r \in Requests, Answer(r), UNCHANGED <<keyRow, lapsed, keyed, sess>>
       PROVE  KeyState'
  BY <1>5, <1>7, <1>16
<1>17. ASSUME NEW r \in Requests,
              Prepare(r) \/ CreateFails(r) \/ EnqueueFails(r) \/ Revert(r) \/ RevertFails(r)
       PROVE  KeyState'
  <2>1. UNCHANGED <<keyRow, lapsed, keyed, sess>>
    BY <1>17 DEF Prepare, CreateFails, EnqueueFails, Revert, RevertFails
  <2>2. request[r].at \in {"create", "prepare", "enqueue", "revert"}
    BY <1>17 DEF Prepare, CreateFails, EnqueueFails, Revert, RevertFails, At
  <2>3. Answer(r) \/ To(r, "enqueue") \/ To(r, "revert") \/ To(r, "release")
    BY <1>17 DEF Prepare, CreateFails, EnqueueFails, Revert, RevertFails, Errs
  <2> QED BY <1>15, <1>16, <2>1, <2>2, <2>3
<1>18. ASSUME NEW r \in Requests, ClosingFails(r) \/ Dies(r) PROVE KeyState'
  BY <1>16, <1>18 DEF ClosingFails, Dies
\* The document that leaves with the key is the first one.
<1>19. ASSUME NEW r \in Requests, Enqueue(r) PROVE KeyState'
  <2>1. PICK d \in Docs : /\ d = request[r].doc /\ request[r].at = "enqueue"
                          /\ ~request[r].keyed => d \notin keyed
    BY <1>1, <1>19 DEF Enqueue, At, RequestOf
  <2>2. sess' = [sess EXCEPT ![d] = "pending"] /\ UNCHANGED <<keyRow, lapsed, keyed>>
    BY <1>19, <2>1 DEF Enqueue
  <2>3. CASE request[r].keyed
    <3>1. /\ OtherRequests(r)
          /\ request'[r].at = "complete" /\ request'[r].keyed
      BY <1>0, <1>19, <2>3, ToMoves DEF Enqueue
    <3>2. r \in Admitted /\ Admitted' = Admitted
      BY <1>2, <2>1, <2>3, <3>1 DEF In, OtherRequests
    <3>3. CASE lapsed = {}
      <4>1. Queued = {} /\ keyRow.st = "in_flight" /\ \A q \in Admitted : q = r
        BY <2>1, <3>2, <3>3 DEF IInv, Asking, KeyState
      <4>2. Queued' \subseteq {d}
        BY <1>0, <2>2, <4>1 DEF Queued
      <4>3. ~keyRow.expired
        BY <3>3 DEF IInv, Asking, KeyState
      <4> QED BY <2>2, <3>1, <3>2, <4>1, <4>2, <4>3 DEF KeyState
    <3> QED BY <2>2, <3>3 DEF KeyState
  <2>4. CASE ~request[r].keyed
    <3>1. OtherRequests(r) /\ ~In(request'[r])
      BY <1>5, <1>19, <2>4 DEF Enqueue
    <3>2. Queued' = Queued
      BY <1>0, <2>1, <2>2, <2>4 DEF Queued
    <3> QED BY <1>4, <2>2, <3>1, <3>2, HoldersLeave
  <2> QED BY <2>3, <2>4
\* The request that was alone with the key leaves it completed, or free if no
\* document left with it.
<1>20. ASSUME NEW r \in Requests, Complete(r) \/ Release(r) PROVE KeyState'
  <2>1. OtherRequests(r) /\ ~In(request'[r]) /\ UNCHANGED <<lapsed, keyed, sess>>
    BY <1>5, <1>20 DEF Complete, Release
  <2>2. r \in Admitted
    BY <1>1, <1>2, <1>20 DEF Complete, Release, RequestOf, At, In
  <2>3. CASE lapsed = {}
    <3>1. /\ keyRow.st = "in_flight" /\ \A q \in Admitted : q = r
          /\ ~keyRow.expired /\ \A d, e \in Queued : d = e
          /\ Queued # {} => request[r].at = "complete"
      BY <2>2, <2>3 DEF IInv, Asking, KeyState
    <3>2. Admitted' = {} /\ Queued' = Queued
      BY <1>2, <1>3, <2>1, <3>1 DEF OtherRequests
    <3>3. CASE Complete(r)
      <4>1. keyRow' = [keyRow EXCEPT !.st = "completed", !.doc = request[r].doc]
        BY <3>1, <3>3 DEF Complete
      <4>2. keyRow'.st = "completed" /\ ~keyRow'.expired
        BY <1>0, <3>1, <4>1 DEF KeyRow
      <4> QED BY <3>1, <3>2, <4>2 DEF KeyState
    <3>4. CASE Release(r)
      <4>1. keyRow' = NoRow /\ Queued = {}
        BY <3>1, <3>4 DEF Release, Releasable, At
      <4> QED BY <3>2, <4>1 DEF KeyState, NoRow
    <3> QED BY <1>20, <3>3, <3>4
  <2> QED BY <2>1, <2>3 DEF KeyState
<1> QED BY <1>8, <1>9, <1>10, <1>11, <1>12, <1>13, <1>14, <1>17, <1>18, <1>19, <1>20
        DEF RequestNext, RequestGoes, RequestFails

\* A step of a request keeps the invariant.
LEMMA RequestStep ==
  ASSUME IInv, RequestNext, UNCHANGED <<deliveryVars, issueVars>>
  PROVE  IInv'
<1> USE DEF deliveryVars, issueVars
<1>1. TypeOK'
  BY RequestTyped DEF IInv
<1>2. Numbering'
  BY NumberingStands DEF IInv, Numbering
<1>3. Jobs'
  <2>1. ASSUME NEW v \in Workers PROVE JobOf(v)'
    <3>1. JobOf(v)
      BY DEF IInv, Jobs
    <3>2. worker[v].at # "idle" => sess[worker[v].doc] # "none" /\ worker[v].doc \in Docs
      BY <3>1 DEF JobOf
    <3>3. worker[v].at # "idle" => sess'[worker[v].doc] = sess[worker[v].doc]
                                   /\ draft'[worker[v].doc] = draft[worker[v].doc]
      BY <3>2, RequestKeeps
    <3> QED BY <3>1, <3>3 DEF JobOf
  <2> QED BY <2>1 DEF IInv, Jobs, OneJob
<1>4. ASSUME NEW d \in Docs PROVE ProgressOf(d)'
  <2>1. ProgressOf(d)
    BY DEF IInv, Progress
  <2>2. sess[d] = "none" => sess'[d] \in {"none", "pending"}
    BY RequestKeeps
  <2>3. sess[d] # "none" => sess'[d] = sess[d]
    BY RequestKeeps
  <2>4. /\ draft'[d] = "none" => sess'[d] = "none" /\ d \notin keyed'
        /\ draft'[d] = "signed" <=> draft[d] = "signed"
    BY RequestKeeps
  <2> QED BY <2>1, <2>2, <2>3, <2>4 DEF ProgressOf
<1>5. Delivery'
  <2>1. \A d \in Docs : draft'[d] = "signed" <=> draft[d] = "signed"
    BY RequestKeeps
  <2> QED BY <2>1 DEF IInv, Delivery
<1>6. Asking'
  BY RequestDocs, RequestKey DEF Asking
<1> QED BY <1>1, <1>2, <1>3, <1>4, <1>5, <1>6 DEF IInv, Progress

-----------------------------------------------------------------------------
(* The theorems *)

\* The first state satisfies the invariant.
LEMMA InitInvariant == Init => IInv
<1> SUFFICES ASSUME Init PROVE IInv
  OBVIOUS
<1> USE DEF Init, DeliveryInit, RequestInit
<1>1. TypeOK
  <2>1. /\ NoJob \in Job /\ Resting \in Memory /\ faults \in 0 .. MaxFaults
        /\ NoRow \in KeyRow /\ Away \in Request /\ Asleep \in Job4 /\ NoNumber \in NumberRow
    BY DeliveryAssumption
       DEF NoJob, Job, Resting, Memory, NoRow, KeyRow, Away, Request, Asleep, Job4, Stages,
           NoNumber, NumberRow
  <2> QED BY <2>1 DEF TypeOK, DeliveryTypeOK, RequestTypeOK, Memory, Job4, NumberRow
<1>2. Numbering
  <2>1. \A d \in Docs : number[d].st = "none" /\ number[d].num = 0
    BY DEF NoNumber
  <2>2. Holders = {}
    BY <2>1 DEF Holders
  <2>3. 1 .. Cardinality(Holders) = {}
    BY <2>2, FS_EmptySet
  <2> QED BY <2>1, <2>2, <2>3 DEF Numbering
<1>3. Progress
  BY DEF Progress, ProgressOf, NoNumber
<1>4. Jobs
  BY DeliveryAssumption DEF Jobs, OneJob, JobOf, Asleep
<1>5. Delivery
  BY DEF Delivery, NoJob, Resting
<1>6. Asking
  <2>1. Admitted = {} /\ Queued = {}
    BY DEF Admitted, Queued, Away
  <2>2. KeyState
    BY <2>1 DEF KeyState, NoRow
  <2>3. OwnDocument /\ \A r \in Requests : RequestOf(r)
    BY DEF OwnDocument, RequestOf, Away
  <2> QED BY <2>2, <2>3 DEF Asking
<1> QED BY <1>1, <1>2, <1>3, <1>4, <1>5, <1>6 DEF IInv

\* Every step keeps it.
LEMMA NextInvariant == IInv /\ [Next]_vars => IInv'
<1> SUFFICES ASSUME IInv, [Next]_vars PROVE IInv'
  OBVIOUS
<1>1. CASE RequestNext /\ UNCHANGED <<deliveryVars, issueVars>>
  BY <1>1, RequestStep
<1>2. CASE DeliveryNext /\ UNCHANGED <<requestVars, issueVars>>
  BY <1>2, DeliveryStep
<1>3. ASSUME NEW w \in Workers, WorkerGoes(w) PROVE IInv'
  BY <1>3, ClaimStep, QuietSteps, DraftSteps, ReserveStep, StatusSteps, UploadStep, CloseStep,
     TellStep DEF WorkerGoes
<1>4. ASSUME NEW w \in Workers, WorkerFails(w) PROVE IInv'
  BY <1>4, QuietSteps, DraftSteps DEF WorkerFails
<1>5. ASSUME NEW d \in Docs, SweepReserved(d) PROVE IInv'
  BY <1>5, SweepStep
<1>6. CASE UNCHANGED vars
  <2> USE <1>6 DEF vars, deliveryVars, requestVars, issueVars
  <2>1. TypeOK'
    BY DEF IInv, TypeOK, DeliveryTypeOK, RequestTypeOK
  <2>2. \A d \in Docs : Stands(d)
    BY DEF Stands
  <2>3. Numbering' /\ Delivery' /\ Asking'
    BY NumberingStands, DeliveryStands, AskingStands DEF IInv, Numbering, OtherRequest
  <2>4. Progress' /\ Jobs'
    BY <2>2, ProgressStands, JobStands DEF IInv, Progress, Jobs, OneJob
  <2> QED BY <2>1, <2>3, <2>4 DEF IInv
<1> QED BY <1>1, <1>2, <1>3, <1>4, <1>5, <1>6 DEF Next

\* The inductive invariant holds throughout.
LEMMA Invariance == Spec => []IInv
BY InitInvariant, NextInvariant, PTL DEF Spec

\* Every variable keeps its type, whatever the requests, the jobs, the senders
\* and the sweepers do; the attempts of a webhook stay within their limit.
THEOREM TypeCorrect == Spec => []TypeOK
<1>1. IInv => TypeOK
  BY DEF IInv
<1> QED BY <1>1, Invariance, PTL

\* reserve_citizen_number, confirm_number and the sweeper: a number that is not
\* cancelled belongs to one document, and the official PDF of a confirmed number
\* is its document's, also when a reservation is taken from a job at work.
THEOREM NumbersAreExclusive == Spec => []OfficialPdfIsOwn
<1>1. IInv => OfficialPdfIsOwn
  BY DEF IInv, Numbering, OfficialPdfIsOwn, Holders
<1> QED BY <1>1, Invariance, PTL

\* sign_and_number_citizen_document: a document is signed only once its number is
\* confirmed and its PDF stored, and neither is lost afterwards.
THEOREM SignatureIsIssued == Spec => []SignedIsIssued
<1>1. IInv => SignedIsIssued
  BY DEF IInv, Progress, ProgressOf, Numbering, SignedIsIssued
<1> QED BY <1>1, Invariance, PTL

\* _avisar_tad and the workers of the webhooks: whatever is lost or posted twice,
\* the portal hears of a signature only of a signed document, and of a failure
\* only of one that is not signed and never will be.
THEOREM PortalIsToldTheTruth == Spec => []ToldIsTrue
<1>1. IInv => ToldIsTrue
  BY DEF IInv, Delivery, ToldIsTrue
<1> QED BY <1>1, Invariance, PTL

\* idempotency.begin, complete and release around a request that may fail or die
\* anywhere: requests with the same key queue at most one document, unless the
\* row of the key expired or was gone when a request read it.
THEOREM KeyAdmitsOne == Spec => []OneDocumentPerKey
<1>1. IInv => OneDocumentPerKey
  <2> SUFFICES ASSUME IInv, lapsed = {} PROVE Cardinality(Queued) <= 1
    BY DEF OneDocumentPerKey, Queued
  <2>1. \A d, e \in Queued : d = e
    BY DEF IInv, Asking, KeyState
  <2>2. CASE Queued = {}
    BY <2>2, FS_EmptySet
  <2>3. ASSUME NEW d \in Queued PROVE Cardinality(Queued) <= 1
    <3>1. Queued = {d}
      BY <2>1
    <3>2. Cardinality({d}) = 1
      BY FS_Singleton
    <3> QED BY <3>1, <3>2
  <2> QED BY <2>2, <2>3
<1> QED BY <1>1, Invariance, PTL

=============================================================================
