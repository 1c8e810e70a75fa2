---------------------------- MODULE SigningHandlers ----------------------------
(***************************************************************************)
(* The requests of users that meet the workers and the sweeper: the        *)
(* creator starts the signature (signing.py), the numerator signs          *)
(* (unified_signing.py), a signer or the creator rejects (rejection.py),   *)
(* and the browser polls the session (async_poll_status.py).  Signatures   *)
(* of other signers come before the numerator's and are not modelled.      *)
(* What a request of the SPECIAL regime does after its reservation is in   *)
(* ImmediateSigning.                                                       *)
(***************************************************************************)
EXTENDS ImmediateSigning

\* preparar_documento_para_firma: compare-and-set on the draft, before there
\* is a PDF.  A rejected draft was edited, and its signers reset, before.
StartCas == /\ start.pc = "idle"
            /\ draft \in {"draft", "rejected"}
            /\ draft' = "sent_to_sign"
            /\ start' = [pc |-> "pdf", from |-> draft]
            /\ UNCHANGED <<regime, signer, od, files, sess, queued, alerted, worker, sweep,
                           request, rejection, faults>>

StartPdf == /\ start.pc = "pdf"
            /\ tosign' = TRUE
            /\ start' = [start EXCEPT !.pc = "check"]
            /\ UNCHANGED <<document, od, pdf, sess, queued, alerted, worker, sweep,
                           request, rejection, faults>>

\* The PDF could not be made, or has no room for the signature and is deleted.
StartFails == /\ start.pc # "idle"
              /\ tosign' = (tosign /\ start.pc = "pdf")
              /\ draft' = IF draft = "sent_to_sign" THEN start.from ELSE draft
              /\ start' = [start EXCEPT !.pc = "idle", !.from = "draft"]
              /\ Fault
              /\ UNCHANGED <<regime, signer, od, pdf, sess, queued, alerted, worker, sweep,
                             request, rejection>>

\* update_document_to_sent_to_sign: whatever the draft is by now.
StartFinish == /\ start.pc = "check"
               /\ draft' = "sent_to_sign"
               /\ start' = [start EXCEPT !.pc = "idle", !.from = "draft"]
               /\ UNCHANGED <<regime, signer, od, files, sess, queued, alerted, worker, sweep,
                              request, rejection, faults>>

-----------------------------------------------------------------------------
\* super_sign_document and the first read of _try_reserve_and_enqueue.
SignAsked(r) ==
  /\ AtR(r, "idle")
  /\ draft = "sent_to_sign" /\ signer = "pending"
  /\ ~SomeLive
  /\ request' = [request EXCEPT ![r].pc = "reserve"]
  /\ UNCHANGED <<document, od, files, sess, queued, alerted, worker, sweep,
                 rejection, start, faults>>

\* reserve_number: a reservation that is alive answers with its own ticket;
\* in the GLOBAL regime one older than GLOBAL_NUMBERING_TIMEOUT_MIN is
\* replaced.
Answers(st) == st \in {"RESERVED", "CONFIRMING", "CONFIRMED"}
AlwaysReplaced(st) == TRUE
Replaced(st) == \/ st \in {"NONE", "CANCELLED"}
                \/ regime = "GLOBAL" /\ st = "RESERVED"

Got(r, t) == request' = [request EXCEPT ![r].tk = t,
                           ![r].pc = IF regime = "SPECIAL" THEN "sign" ELSE "enqueue"]

Reserve(r) ==
  /\ AtR(r, "reserve")
  /\ \/ /\ Answers(od.st)
        /\ Got(r, od.tk)
        /\ UNCHANGED <<od, queued>>
     \/ /\ Replaced(od.st) /\ od.tk < MaxTickets
        /\ Got(r, od.tk + 1)
        /\ od' = [st |-> "RESERVED", tk |-> od.tk + 1]
        /\ queued' = FALSE
  /\ UNCHANGED <<document, files, sess, alerted, worker, sweep, rejection, start, faults>>

\* The reservation fails, or the lane of a SPECIAL number is busy: nothing is
\* left behind.
ReserveFails(r) == /\ AtR(r, "reserve")
                   /\ Return(r)
                   /\ UNCHANGED <<document, od, files, sess, queued, alerted, worker,
                                  sweep, rejection, start, faults>>

\* _enqueue_sign_session: the live session of somebody who was faster is
\* the answer.
SignEnqueued(r) == /\ AtR(r, "enqueue")
                   /\ IF SomeLive THEN UNCHANGED <<sess, queued>>
                      ELSE Enqueue(request[r].tk, Fresh)
                   /\ Return(r)
                   /\ UNCHANGED <<document, od, files, alerted, worker, sweep,
                                  rejection, start, faults>>

\* The process dies, or the request is cancelled, after the reservation.
RequestDies(r) == /\ request[r].pc \notin {"idle", "reserve"}
                  /\ Return(r) /\ Fault
                  /\ UNCHANGED <<document, od, files, sess, queued, alerted, worker,
                                 sweep, rejection, start>>

-----------------------------------------------------------------------------
\* The checks of reject_document, and the PDF to sign deleted before its
\* transaction.
RejectBegin == /\ rejection = "idle"
               /\ draft # "rejected"
               /\ od.st \notin {"CONFIRMING", "CONFIRMED"}
               /\ tosign' = FALSE
               /\ rejection' = "cleaned"
               /\ UNCHANGED <<document, od, pdf, sess, queued, alerted, worker, sweep,
                              request, start, faults>>

RejectRefused == \/ od.st \in {"CONFIRMING", "CONFIRMED"}
                 \/ draft \notin {"draft", "sent_to_sign"}

RejectTx == /\ rejection = "cleaned"
            /\ IF RejectRefused
               THEN rejection' = "idle" /\ UNCHANGED <<draft, od>>
               ELSE /\ od' = IF od.st = "NONE" THEN od ELSE [od EXCEPT !.st = "CANCELLED"]
                    /\ draft' = "rejected"
                    /\ rejection' = "expire"
            /\ UNCHANGED <<regime, signer, files, sess, queued, alerted, worker, sweep,
                           request, start, faults>>

RejectExpire ==
  /\ rejection = "expire"
  /\ \/ /\ NoFault
        /\ sess' = [s \in Slots |-> IF IsLive(s) THEN [NoSession EXCEPT !.st = "expired"]
                                                 ELSE sess[s]]
     \/ Fault /\ UNCHANGED sess
  /\ rejection' = "cancel"
  /\ UNCHANGED <<document, od, files, queued, alerted, worker, sweep, request, start>>

\* cancel_number without a ticket.
RejectCancel == /\ rejection = "cancel"
                /\ CancelTicket(od.tk)
                /\ rejection' = "idle"
                /\ UNCHANGED <<document, files, sess, queued, alerted, worker, sweep,
                               request, start, faults>>

-----------------------------------------------------------------------------
\* get_async_poll_status: a live session of a signed draft is signed.
Poll(s) == /\ IsLive(s) /\ draft = "signed"
           /\ sess' = Ended(s, "signed")
           /\ UNCHANGED <<document, od, files, queued, alerted, worker, sweep,
                          handlers, faults>>

StartStep == StartPdf \/ StartFinish
RequestStep(r) == Reserve(r) \/ ReserveFails(r) \/ SignEnqueued(r) \/ ImmediateStep(r)
RejectStep == RejectTx \/ RejectExpire \/ RejectCancel

HandlerNext == \/ StartStep \/ StartCas \/ StartFails
               \/ \E r \in Requests : \/ RequestStep(r) \/ SignAsked(r)
                                     \/ ImmediateFails(r) \/ RequestDies(r)
               \/ RejectStep \/ RejectBegin
               \/ \E s \in Slots : Poll(s)
=============================================================================
