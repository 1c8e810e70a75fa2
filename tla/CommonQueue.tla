----------------------------- MODULE CommonQueue -----------------------------
(***************************************************************************)
(* The signatures that a document's common signers give before its         *)
(* numerator: the PDF in tosign/ goes from one signer to the next, and     *)
(* each adds his signature.  A request takes the PDF under the lock of     *)
(* r2_lock.py and leaves a row of signing_sessions with job_type           *)
(* 'sign_common' for a worker of Escri, who signs and puts the PDF back.   *)
(*                                                                         *)
(* A PDF is how many times each signer has signed it; its SHA-256 is the   *)
(* PDF itself.                                                             *)
(***************************************************************************)
EXTENDS Naturals, FiniteSets, PdfLock

CONSTANTS Doc,          \* the document
          Signers,      \* its common signers
          Requests,     \* requests to sign, at the same time
          Impatient,    \* the signers who may have two requests at once
          Workers, Sweeper, Rejecter,
          Retries,      \* POST_UPLOAD_MAX_RETRIES
          MaxSessions,  \* bound: rows of signing_sessions
          Mishaps,      \* what may go wrong
          MaxFaults     \* bound: how often something does

ASSUME CommonAssumption ==
  /\ Docs = {Doc} /\ Impatient \subseteq Signers
  /\ Retries \in Nat \ {0} /\ MaxSessions \in Nat /\ MaxFaults \in Nat
  /\ Callers = Workers \union Requests \union {Sweeper, Rejecter}
  /\ Pdfs = [Signers -> 0 .. 2]

Sessions == 1 .. MaxSessions
None == 0                         \* no session
Nobody == "nobody"

ASSUME CallersAssumption ==
  /\ Workers \intersect Requests = {} /\ Sweeper # Rejecter
  /\ {Sweeper, Rejecter} \intersect (Workers \union Requests) = {}
  /\ Nobody \notin Workers \union Signers

VARIABLES draft,    \* document_draft.status
          signer,   \* document_signers.status; 'signed' is signed_at as well
          sess,     \* signing_sessions with job_type 'sign_common'
          worker,   \* memory of _process_common_job
          request,  \* memory of _try_enqueue_common_signer
          reject,   \* memory of reject_document
          faults    \* how many things went wrong

memory == <<worker, request, reject>>
vars == <<lockVars, draft, signer, sess, memory, faults>>

-----------------------------------------------------------------------------
Unsigned == [u \in Signers |-> 0]
SignedBy(pdf, u) == [pdf EXCEPT ![u] = IF @ < 2 THEN @ + 1 ELSE @]

\* by: claimed_by; sha: payload.unsigned_sha256; up: payload.signed_uploaded;
\* tries: payload.update_retry_count.
Statuses == {"none", "pending", "processing", "signed", "failed", "expired"}
Session == [st : Statuses, u : Signers \union {Nobody}, by : Workers \union {Nobody},
            sha : Pdfs \union {NoPdf}, up : BOOLEAN, tries : 0 .. Retries]
NoSession == [st |-> "none", u |-> Nobody, by |-> Nobody, sha |-> NoPdf,
              up |-> FALSE, tries |-> 0]
Live(u) == {s \in Sessions : sess[s].u = u /\ sess[s].st \in {"pending", "processing"}}
Owns(w, s) == sess[s].st = "processing" /\ sess[s].by = w

\* UPDATE ... SET status = st WHERE status = 'processing'.
Finished(s, st) == IF sess[s].st = "processing" THEN [sess EXCEPT ![s].st = st] ELSE sess
Requeued(s) ==
  IF sess[s].st = "processing" THEN [sess EXCEPT ![s].st = "pending", ![s].by = Nobody]
  ELSE sess

Fault(kind) == kind \in Mishaps /\ faults < MaxFaults /\ faults' = faults + 1
NoFault == faults' = faults

Resting == [at |-> "idle", u |-> Nobody]
Asleep == [at |-> "idle", s |-> None, pdf |-> NoPdf, resumes |-> FALSE]

Init == /\ LockInit(Unsigned)
        /\ draft = "sent_to_sign"
        /\ signer = [u \in Signers |-> "pending"]
        /\ sess = [s \in Sessions |-> NoSession]
        /\ worker = [w \in Workers |-> Asleep]
        /\ request = [r \in Requests |-> Resting]
        /\ reject = "idle"
        /\ faults = 0

-----------------------------------------------------------------------------
(* super_sign_document and _try_enqueue_common_signer *)

RequestIs(r, at) == request[r].at = at /\ IsStill(r)
RequestTo(r, at) == request' = [request EXCEPT ![r].at = at]
RequestEnds(r) == request' = [request EXCEPT ![r] = Resting]
RequestKeeps == UNCHANGED <<draft, signer, worker, reject>>

\* The status of the document and of the signer, then a live session: the
\* answer to a second request is the first one's session.
MayAsk(u) == /\ draft = "sent_to_sign" /\ signer[u] = "pending"
             /\ Live(u) = {}
             /\ Cardinality({r \in Requests : request[r].at \in {"lock", "wait"}})
                  < Cardinality({s \in Sessions : sess[s].st = "none"})

RequestLook(r) ==
  /\ RequestIs(r, "idle")
  /\ \E u \in Signers :
       /\ MayAsk(u)
       /\ u \in Impatient \/ \A q \in Requests : request[q].u # u
       /\ request' = [request EXCEPT ![r] = [at |-> "lock", u |-> u]]
  /\ UNCHANGED <<lockVars, sess, faults>> /\ RequestKeeps

RequestLock(r) == /\ RequestIs(r, "lock")
                  /\ Acquire(r, Doc) /\ RequestTo(r, "wait")
                  /\ UNCHANGED <<sess, faults>> /\ RequestKeeps

\* 409: somebody else is signing.
RequestLost(r) == /\ request[r].at = "wait" /\ move[r].at = "lost"
                  /\ Dead(r) /\ RequestEnds(r)
                  /\ UNCHANGED <<store, sess, faults>> /\ RequestKeeps

RequestInsert(r) ==
  /\ request[r].at = "wait" /\ move[r].at = "won" /\ Live(request[r].u) = {}
  /\ \E s \in Sessions :
       /\ sess[s].st = "none" /\ \A t \in 1 .. s - 1 : sess[t].st # "none"
       /\ sess' = [sess EXCEPT ![s] = [NoSession EXCEPT !.st = "pending", !.u = request[r].u]]
  /\ Dead(r) /\ RequestEnds(r)
  /\ UNCHANGED <<store, faults>> /\ RequestKeeps

\* ON CONFLICT DO NOTHING: a live session of the same signer is the answer, and
\* the lock this request took is kept: nobody will use it or give it back.
RequestFinds(r) == /\ request[r].at = "wait" /\ move[r].at = "won"
                   /\ Live(request[r].u) # {}
                   /\ Dead(r) /\ RequestTo(r, "kept")
                   /\ UNCHANGED <<store, sess, faults>> /\ RequestKeeps

RequestInsertFails(r) ==
  /\ request[r].at = "wait" /\ move[r].at = "won" /\ Fault("insert")
  /\ Release(r, Doc) /\ RequestEnds(r)
  /\ UNCHANGED sess /\ RequestKeeps

\* The process dies; what it took stays in inprocess/.
RequestDies(r) == /\ request[r].at \in {"lock", "wait"} /\ Fault("request")
                  /\ Dead(r) /\ RequestTo(r, "dead")
                  /\ UNCHANGED <<store, sess>> /\ RequestKeeps

RequestGoes(r) == RequestLock(r) \/ RequestLost(r) \/ RequestInsert(r) \/ RequestFinds(r)
RequestNext == \E r \in Requests : \/ RequestLook(r) \/ RequestGoes(r)
                                   \/ RequestInsertFails(r) \/ RequestDies(r)
=============================================================================
