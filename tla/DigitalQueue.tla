----------------------------- MODULE DigitalQueue -----------------------------
(***************************************************************************)
(* The shared state of signatures with a token (digital signature): each   *)
(* document of Docs waits for one signer, who signs at his own computer.   *)
(* A session asks the program FirmadorGDI for one signed PDF; what it      *)
(* answers is left in Redis until somebody polls.  The answer is then      *)
(* saved as signed-pending/<doc>.pdf and a row of signing_sessions with    *)
(* job_type 'digital_complete' asks a worker to close the signature.       *)
(*                                                                         *)
(* A session carries the ticket of the number reserved for it when the     *)
(* signer is the document's numerator (Numbered), and the batch it belongs *)
(* to.  Time is not modelled: an open session may be late at any moment.   *)
(***************************************************************************)
EXTENDS Naturals, Sequences, FiniteSets, PdfLock

CONSTANTS Numbered,    \* the documents whose signer here is the numerator
          Openers,     \* requests that open a session, at the same time
          Batches,     \* those of them that open one batch with all documents
          Requests,    \* polls, cancellations and rejections
          Rejections,  \* those of them that may be rejections
          Job,         \* the job reclaim_orphan_inprocess
          Answers,     \* what FirmadorGDI may leave in Redis
          Fallers,     \* executions of cancelar_tanda at the same time
          Slow,        \* bound: the sessions whose time may pass
          MaxSessions, \* bound: digital_signature_sessions
          MaxFaults    \* bound: things that go wrong

ASSUME DigitalAssumption ==
  /\ Numbered \subseteq Docs
  /\ Batches \subseteq Openers /\ Rejections \subseteq Requests
  /\ Job \notin Requests
  /\ Answers \subseteq {"cancel", "broken", "other", "revoked", "signed"}
  /\ MaxSessions \in Nat /\ MaxFaults \in Nat /\ IsFiniteSet(Docs)
  /\ Callers = Openers \union Requests \union {Job} \union Docs \union Fallers
  /\ Pdfs = SUBSET (1 .. MaxSessions)

Sessions == 1 .. MaxSessions

VARIABLES draft,     \* document_draft.status
          signer,    \* the signer's row of document_signers
          od,        \* the document's row of official_documents
          saved,     \* signed-pending/<doc>.pdf: the session that signed; 0
          official,  \* the PDF in the official bucket: the session that signed
          sess,      \* digital_signature_sessions
          row,       \* the document's last digital_complete row
          open,      \* memory of dispatch_digital_signing and abrir_tanda
          req,       \* memory of polls, cancellations, rejections and the job
          close,     \* memory of the worker that closes each document
          fall,      \* memory of cancelar_tanda
          faults     \* how many things went wrong

document == <<draft, signer, od>>
results == <<saved, official>>
vars == <<lockVars, document, results, sess, row, open, req, close, fall, faults>>

-----------------------------------------------------------------------------
(* digital_signature_sessions *)

\* ESTADOS_VIVOS and ESTADOS_CAIDOS.
Vivos == {"pending", "waiting_batch", "completing"}
Caidos == {"failed", "cancelled", "expired"}
Statuses == Vivos \union Caidos \union {"none", "signed"}

\* What FirmadorGDI leaves in Redis: CANCEL, an unreadable blob, another PDF
\* than the one sent, a PDF with a certificate that is not valid, a signature.
AllAnswers == {"cancel", "broken", "other", "revoked", "signed"}

\* used: consumed_at is set; clean: cancelled_at is set; partial: the
\* failure_reason is numerator_partial_failure.  pdf: the PDF that was given to
\* FirmadorGDI, as the set of the sessions that signed it.
Session == [st : Statuses, d : Docs \union {NoDoc}, tk : Nat,
            batch : 0 .. MaxSessions, late : BOOLEAN, used : BOOLEAN,
            answer : AllAnswers \union {"none"}, clean : BOOLEAN, partial : BOOLEAN,
            pdf : SUBSET (1 .. MaxSessions)]
NoSession == [st |-> "none", d |-> NoDoc, tk |-> 0, batch |-> 0, late |-> FALSE,
              used |-> FALSE, answer |-> "none", clean |-> FALSE, partial |-> FALSE,
              pdf |-> {}]

Doc(s) == sess[s].d
OfBatch(b) == {s \in Sessions : sess[s].batch = b}

\* UPDATE ... SET status = st WHERE session_id = s AND status IN (from).
Marked(s, from, st) ==
  IF sess[s].st \in from THEN [sess EXCEPT ![s].st = st, ![s].clean = @ \/ st = "cancelled"]
  ELSE sess

-----------------------------------------------------------------------------
(* official_documents *)

NoNumber == [st |-> "NONE", tk |-> 0]
Number == [st : {"NONE", "RESERVED", "CONFIRMING", "CONFIRMED", "CANCELLED"},
           tk : Nat]
Holds(d, tk, st) == od[d].st = st /\ od[d].tk = tk

\* cancel_number with the ticket tk, from the given states; how many rows it
\* changes does not matter to who calls it.
CancelReserved(d, tk, from) ==
  od' = IF Holds(d, tk, "RESERVED") THEN [od EXCEPT ![d].st = "CANCELLED"] ELSE od
CancelTicket(d, tk, from) ==
  od' = IF od[d].tk = tk /\ od[d].st \in from
        THEN [od EXCEPT ![d].st = "CANCELLED"] ELSE od

\* cancel_number without a ticket.
CancelNumber(d) ==
  od' = IF od[d].st = "RESERVED" THEN [od EXCEPT ![d].st = "CANCELLED"] ELSE od

-----------------------------------------------------------------------------
(* signing_sessions with job_type = 'digital_complete' *)

NoRow == [st |-> "none", s |-> 0, tk |-> 0]
QueueRow == [st : {"none", "pending", "processing", "signed", "failed", "expired"},
             s : 0 .. MaxSessions, tk : Nat]
InQueue(d) == row[d].st \in {"pending", "processing"}

\* encolar_cierre_digital: ON CONFLICT with a live row of the document and
\* user, that row is the answer.
Encolar(s) ==
  LET d == Doc(s) IN
    row' = IF InQueue(d) THEN row
           ELSE [row EXCEPT ![d] = [st |-> "pending", s |-> s, tk |-> sess[s].tk]]

-----------------------------------------------------------------------------
(* Memory *)

Closed == [at |-> "idle", d |-> NoDoc, tk |-> 0, left |-> {}, batch |-> 0, pdf |-> {}]
Resting == [at |-> "idle", s |-> 0, d |-> NoDoc, todo |-> <<>>, left |-> {}]
Asleep == [at |-> "idle", why |-> "none", pdf |-> 0]
Standing == [at |-> "idle", batch |-> 0, live |-> {}, flying |-> {}, left |-> {}, s |-> 0]

\* What there may be to do after the PDF was given back.
Todos == {<<>>, <<"ticket">>, <<"expired">>, <<"failed">>, <<"cancelled">>,
          <<"expired", "ticket">>, <<"ticket", "cancelled">>, <<"ticket", "failed">>,
          <<"number", "failed">>}

Fault == faults < MaxFaults /\ faults' = faults + 1
NoFault == faults' = faults

\* A caller calls cancelar_tanda and waits for it; it has nothing else to do.
Calls(b) == \E f \in Fallers :
              /\ fall[f].at = "idle"
              /\ fall' = [fall EXCEPT ![f].at = "select", ![f].batch = b]

TypeOK == /\ LockTypeOK
          /\ draft \in [Docs -> {"sent_to_sign", "signed", "rejected"}]
          /\ signer \in [Docs -> {"pending", "signed", "rejected"}]
          /\ od \in [Docs -> Number]
          /\ saved \in [Docs -> 0 .. MaxSessions]
          /\ official \in [Docs -> 0 .. MaxSessions]
          /\ sess \in [Sessions -> Session]
          /\ row \in [Docs -> QueueRow]
          /\ open \in [Openers -> [at : {"idle", "lock", "wait", "reserve", "again",
                                         "read", "start", "undo"},
                                   d : Docs \union {NoDoc}, tk : Nat,
                                   left : SUBSET Docs, batch : 0 .. MaxSessions,
                                   pdf : Pdfs]]
          /\ req \in [Requests \union {Job} ->
                       [at : {"idle", "ask", "consume", "cert", "confirm", "save",
                              "enqueue", "completing", "register", "siblings",
                              "closing", "marking", "undo", "clear", "tx",
                              "expire", "number"},
                        s : 0 .. MaxSessions, d : Docs \union {NoDoc},
                        todo : Todos, left : SUBSET Sessions]]
          /\ close \in [Docs -> [at : {"idle", "check", "read", "upload",
                                       "finalize", "draft", "put", "settle", "signer",
                                       "mark", "tidy", "row", "fail", "failed",
                                       "drop"},
                                 why : {"none", "stale", "lost", "upload"},
                                 pdf : 0 .. MaxSessions]]
          /\ fall \in [Fallers -> [at : {"idle", "select", "next", "pdf", "number",
                                         "release"},
                                   batch : 0 .. MaxSessions, live : SUBSET Sessions,
                                   flying : SUBSET Sessions, left : SUBSET Sessions,
                                   s : 0 .. MaxSessions]]
          /\ faults \in 0 .. MaxFaults

Init == /\ LockInit({})
        /\ draft = [d \in Docs |-> "sent_to_sign"]
        /\ signer = [d \in Docs |-> "pending"]
        /\ od = [d \in Docs |-> NoNumber]
        /\ saved = [d \in Docs |-> 0] /\ official = [d \in Docs |-> 0]
        /\ sess = [s \in Sessions |-> NoSession]
        /\ row = [d \in Docs |-> NoRow]
        /\ open = [o \in Openers |-> Closed]
        /\ req = [r \in Requests \union {Job} |-> Resting]
        /\ close = [d \in Docs |-> Asleep]
        /\ fall = [f \in Fallers |-> Standing]
        /\ faults = 0
=============================================================================
