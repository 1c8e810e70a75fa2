--------------------------- MODULE ImmediateSigning ---------------------------
(***************************************************************************)
(* sign_document_as_numerator of numerator.py: a request that has reserved *)
(* a number of the SPECIAL regime signs, commits, uploads and marks by     *)
(* itself, in at most two attempts.  The second one goes on where the      *)
(* first failed: with the signed PDF if there is one, and without          *)
(* confirm_number if that was done.  No session stands for it, so the      *)
(* sweeper knows of it only as an orphan.                                  *)
(***************************************************************************)
EXTENDS SigningQueue

AtR(r, pc) == request[r].pc = pc
GotoR(r, pc) == request' = [request EXCEPT ![r].pc = pc]
Return(r) == request' = [request EXCEPT ![r] = Asked]

Elsewhere == <<sess, queued, alerted, worker, sweep, rejection, start>>

\* Where the second attempt goes on.
Resumed(r) == IF request[r].pc \in Signing THEN request[r].pc ELSE "upload"

\* The first failure starts the second attempt; after the second one a number
\* that is not committed is given up, and a committed one is left as it is.
Retry(r) ==
  IF ~request[r].again
  THEN request' = [request EXCEPT ![r].pc = Resumed(r), ![r].again = TRUE]
  ELSE IF request[r].pc \in Signing THEN GotoR(r, "cancel") ELSE Return(r)

\* Download from tosign/ and signature by Notary.
ImmediateSign(r) == /\ AtR(r, "sign")
                    /\ IF tosign THEN GotoR(r, "confirm") ELSE Retry(r)
                    /\ UNCHANGED <<document, od, files, Elsewhere, faults>>

\* confirm_number; StaleReservationError ends the request.
StaleIsIgnored(r) ==
  /\ AtR(r, "confirm")
  /\ od' = IF Holds(request[r].tk, "RESERVED") THEN [od EXCEPT !.st = "CONFIRMING"] ELSE od
  /\ GotoR(r, "upload")
  /\ UNCHANGED <<document, files, Elsewhere, faults>>
ImmediateConfirm(r) ==
  /\ AtR(r, "confirm")
  /\ IF Holds(request[r].tk, "RESERVED")
     THEN od' = [od EXCEPT !.st = "CONFIRMING"] /\ GotoR(r, "upload")
     ELSE Return(r) /\ UNCHANGED od
  /\ UNCHANGED <<document, files, Elsewhere, faults>>

\* upload_oficial and persist_pdf_location.
ImmediateUpload(r) == /\ AtR(r, "upload")
                      /\ pdf' = 1
                      /\ GotoR(r, "finalize")
                      /\ UNCHANGED <<document, od, tosign, Elsewhere, faults>>

\* finalize_number does not complain when the ticket is not CONFIRMING.
ImmediateFinalize(r) == /\ AtR(r, "finalize")
                        /\ od' = IF Holds(request[r].tk, "CONFIRMING")
                                 THEN [od EXCEPT !.st = "CONFIRMED"] ELSE od
                        /\ GotoR(r, "mark")
                        /\ UNCHANGED <<document, files, Elsewhere, faults>>

\* One transaction; a draft that is not sent_to_sign rolls it back, and the
\* user is told that the document was rejected.
ImmediateMark(r) == /\ AtR(r, "mark")
                    /\ IF draft = "sent_to_sign"
                       THEN /\ draft' = "signed" /\ signer' = "signed"
                            /\ GotoR(r, "clean") /\ UNCHANGED regime
                       ELSE Return(r) /\ UNCHANGED document
                    /\ UNCHANGED <<od, files, Elsewhere, faults>>

\* The PDF to sign is deleted if the object store answers.
ImmediateClean(r) == /\ AtR(r, "clean")
                     /\ \/ NoFault /\ tosign' = FALSE
                        \/ Fault /\ UNCHANGED tosign
                     /\ Return(r)
                     /\ UNCHANGED <<document, od, pdf, Elsewhere>>

\* cancel_number without a ticket; its failure is only logged.
ImmediateCancel(r) == /\ AtR(r, "cancel")
                      /\ \/ NoFault /\ CancelTicket(od.tk)
                         \/ Fault /\ UNCHANGED od
                      /\ Return(r)
                      /\ UNCHANGED <<document, files, Elsewhere>>

\* A query, the object store or Notary fails; when Notary's circuit breaker
\* is open there is no second attempt.
ImmediateFails(r) == /\ request[r].pc \in Signing \union Publishing
                     /\ \/ Retry(r)
                        \/ AtR(r, "sign") /\ GotoR(r, "cancel")
                     /\ Fault
                     /\ UNCHANGED <<document, od, files, Elsewhere>>

ImmediateStep(r) == \/ ImmediateSign(r) \/ ImmediateConfirm(r) \/ ImmediateUpload(r)
                    \/ ImmediateFinalize(r) \/ ImmediateMark(r) \/ ImmediateClean(r)
                    \/ ImmediateCancel(r)
=============================================================================
