----------------------------- MODULE SigningQueue -----------------------------
(***************************************************************************)
(* The shared state of the electronic signature of ONE document by its     *)
(* numerator (job_type 'sign'): its draft, its row of official_documents,  *)
(* its files in the object store, the rows of signing_sessions, and the    *)
(* memory of everyone who works on it - the workers, the sweeper and the   *)
(* handlers of HTTP requests.  Each database statement or transaction is   *)
(* one step; what an actor read is in its memory when it takes the next    *)
(* one.                                                                    *)
(*                                                                         *)
(* The type of the document decides how it is signed: a GLOBAL number is   *)
(* given by the workers, a SPECIAL one by the request itself.              *)
(*                                                                         *)
(* Time is not modelled: a claim, a reservation or an orphan is old enough *)
(* for the sweeper as soon as the sweeper may look at it.  Whatever goes   *)
(* wrong (a crash, a query that fails, a claim not renewed in time) spends *)
(* one of MaxFaults.                                                       *)
(***************************************************************************)
EXTENDS Naturals

CONSTANTS Workers,     \* processes that run EscriWorker
          NoWorker,
          Requests,      \* POST super-sign of the numerator, at the same time
          MaxSessions,   \* bound: rows of signing_sessions kept at a time
          MaxTickets,    \* bound: reservations of the document
          MaxFaults,     \* bound: things that go wrong
          MaxGuard       \* ESCRI_GUARD_MAX_ATTEMPTS

ASSUME QueueAssumption == /\ NoWorker \notin Workers
                          /\ MaxSessions \in Nat \ {0}
                          /\ MaxTickets \in Nat
                          /\ MaxFaults \in Nat
                          /\ MaxGuard \in Nat \ {0}

Slots == 1 .. MaxSessions
Tickets == 1 .. MaxTickets

VARIABLES regime,    \* document_types.special_numbering
          draft,     \* document_draft.status
          signer,    \* the numerator's row of document_signers
          od,        \* the document's row of official_documents
          tosign,    \* the PDF to sign is in the object store
          pdf,       \* the signed PDF in the official bucket; 0 when none
          sess,      \* signing_sessions
          queued,    \* the present ticket ever had a session
          alerted,   \* the sweeper reported the document rejected and issued
          worker,    \* memory of each worker
          sweep,     \* memory of the sweeper
          request,   \* memory of each POST super-sign
          rejection, \* a POST reject
          start,     \* a POST start-signing-process
          faults     \* how many things went wrong

files    == <<tosign, pdf>>
handlers == <<request, rejection, start>>
document == <<regime, draft, signer>>
vars == <<document, od, files, sess, queued, alerted, worker, sweep, handlers,
          faults>>

-----------------------------------------------------------------------------
(* signing_sessions *)

Live == {"pending", "processing"}

\* A claim is late when its expires_at has passed.  resume, heal and tries
\* are the payload: is_confirming, confirmed_autoheal, guard_check_attempts.
Payload == [resume : BOOLEAN, heal : BOOLEAN, tries : 0 .. MaxGuard]
Fresh == [resume |-> FALSE, heal |-> FALSE, tries |-> 0]

Session == [st : Live \union {"none", "signed", "failed", "expired"},
            tk : 0 .. MaxTickets, by : Workers \union {NoWorker},
            load : Payload, late : BOOLEAN, conflict : BOOLEAN]
NoSession == [st |-> "none", tk |-> 0, by |-> NoWorker, load |-> Fresh,
              late |-> FALSE, conflict |-> FALSE]

IsLive(s) == sess[s].st \in Live
SomeLive == \E s \in Slots : IsLive(s)
LiveFor(t) == \E s \in Slots : IsLive(s) /\ sess[s].tk = t
Held(s, w) == sess[s].st = "processing" /\ sess[s].by = w

\* A row nobody refers to any more makes room for a new one.
Free == {s \in Slots : /\ ~IsLive(s)
                       /\ \A w \in Workers : worker[w].s # s
                       /\ sweep.s # s}

\* INSERT of a pending session.  A unique index allows one live session per
\* document and user.
Enqueue(t, load) ==
  /\ ~SomeLive
  /\ \E s \in Free :
       /\ \A q \in Free : s <= q
       /\ sess' = [sess EXCEPT ![s] =
                     [NoSession EXCEPT !.st = "pending", !.tk = t, !.load = load]]
  /\ queued' = (queued \/ t = od.tk)

\* UPDATE ... SET status = 'pending', claimed_by = NULL.
Requeued(s, load) == [sess EXCEPT ![s].st = "pending", ![s].by = NoWorker,
                                  ![s].load = load, ![s].late = FALSE]

\* What a session carried does not matter after its end.
Ended(s, st) == [sess EXCEPT ![s] = [NoSession EXCEPT !.st = st]]

-----------------------------------------------------------------------------
(* official_documents: reserve, confirm, finalize and cancel by ticket *)

NoRow == [st |-> "NONE", tk |-> 0]
Row == [st : {"NONE", "RESERVED", "CONFIRMING", "CONFIRMED", "CANCELLED"},
        tk : 0 .. MaxTickets]

Holds(t, st) == od.st = st /\ od.tk = t

CancelAnyState(t) == od' = IF od.tk = t THEN [od EXCEPT !.st = "CANCELLED"] ELSE od

\* cancel_number with a ticket: only a RESERVED row of that ticket.
CancelTicket(t) ==
  od' = IF Holds(t, "RESERVED") THEN [od EXCEPT !.st = "CANCELLED"] ELSE od

-----------------------------------------------------------------------------
(* Memory of the actors *)

Idle == [pc |-> "idle", s |-> 0, tk |-> 0, load |-> Fresh]
WorkerPC == {"idle", "guard", "sign", "confirm", "stale", "fence", "upload",
             "finalize", "markdoc", "marksess", "rejected", "error", "giveup",
             "fail", "conflict"}
Memory(pcs) == [pc : pcs, s : 0 .. MaxSessions, tk : 0 .. MaxTickets, load : Payload]

\* A request of the SPECIAL regime signs in its own thread; again says that
\* its first attempt failed.
Signing == {"sign", "confirm"}
Publishing == {"upload", "finalize", "mark", "clean"}
Immediate == Signing \union Publishing \union {"cancel"}
Asking == [pc : {"idle", "reserve", "enqueue"} \union Immediate,
           tk : 0 .. MaxTickets, again : BOOLEAN]
Asked == [pc |-> "idle", tk |-> 0, again |-> FALSE]

NoFault == faults' = faults
Fault == faults < MaxFaults /\ faults' = faults + 1

TypeOK == /\ regime \in {"GLOBAL", "SPECIAL"}
          /\ draft \in {"draft", "sent_to_sign", "signed", "rejected"}
          /\ signer \in {"pending", "signed"}
          /\ od \in Row
          /\ tosign \in BOOLEAN /\ pdf \in 0 .. 2
          /\ sess \in [Slots -> Session]
          /\ queued \in BOOLEAN
          /\ alerted \in BOOLEAN
          /\ worker \in [Workers -> Memory(WorkerPC)]
          /\ sweep \in Memory({"idle", "requeue", "orphan", "resume", "heal"})
          /\ request \in [Requests -> Asking]
          /\ rejection \in {"idle", "cleaned", "expire", "cancel"}
          /\ start \in [pc : {"idle", "pdf", "check"}, from : {"draft", "rejected"}]
          /\ faults \in 0 .. MaxFaults

Init == /\ regime \in {"GLOBAL", "SPECIAL"}
        /\ draft = "draft" /\ signer = "pending"
        /\ od = NoRow
        /\ tosign = FALSE /\ pdf = 0
        /\ sess = [s \in Slots |-> NoSession]
        /\ queued = FALSE /\ alerted = FALSE
        /\ worker = [w \in Workers |-> Idle]
        /\ sweep = Idle
        /\ request = [r \in Requests |-> Asked]
        /\ rejection = "idle"
        /\ start = [pc |-> "idle", from |-> "draft"]
        /\ faults = 0
=============================================================================
