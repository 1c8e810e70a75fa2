--------------------------- MODULE CitizenSigning ---------------------------
(***************************************************************************)
(* What becomes of a citizen's document: the job 'sign_citizen' of the     *)
(* Escri worker (workers/escri.py, citizen_signing.py) composes the PDF,   *)
(* reserves a number, signs, confirms and stores it, and leaves a webhook  *)
(* for the portal.  The session never carries the reservation, so for the  *)
(* sweeper of the queue every such reservation is one without a session.   *)
(***************************************************************************)
EXTENDS CitizenRequests

CONSTANTS Workers,   \* workers of Escri, or jobs of one batch of a worker
          Slow       \* documents whose job may stop for longer than the
                     \* reservation lives (SWEEPER_RESERVED_EXPIRY_TTL)

ASSUME CitizenAssumption == Slow \subseteq Docs /\ IsFiniteSet(Docs)

VARIABLES worker,   \* memory of the jobs
          number,   \* official_documents
          tosign,   \* documents with a PDF in tosign/
          oficial,  \* oficial/: the document whose PDF has the name of a number
          lost      \* documents whose job ended with its worker

issueVars == <<worker, number, tosign, oficial, lost>>
vars == <<deliveryVars, faults, requestVars, issueVars>>

Numbers == 1 .. Cardinality(Docs)
NoNumber == [st |-> "none", num |-> 0]
Asleep == [at |-> "idle", doc |-> NoDoc, num |-> 0, ok |-> TRUE]
Stages == {"idle", "compose", "sent", "check", "reserve", "stamp", "confirm", "upload",
           "finalize", "sign", "clean", "cancel", "close", "tell"}

TypeOK ==
  /\ DeliveryTypeOK /\ RequestTypeOK
  /\ worker \in [Workers -> [at : Stages, doc : Docs \union {NoDoc},
                             num : {0} \union Numbers, ok : BOOLEAN]]
  /\ number \in [Docs -> [st : {"none", "RESERVED", "CONFIRMING", "CONFIRMED", "CANCELLED"},
                          num : {0} \union Numbers]]
  /\ tosign \subseteq Docs
  /\ oficial \in [Numbers -> Docs \union {NoDoc}]
  /\ lost \subseteq Docs

Init == /\ DeliveryInit /\ RequestInit
        /\ worker = [w \in Workers |-> Asleep]
        /\ number = [d \in Docs |-> NoNumber]
        /\ tosign = {}
        /\ oficial = [n \in Numbers |-> NoDoc]
        /\ lost = {}

Has(w, at) == worker[w].at = at
Doc(w) == worker[w].doc
Goes(w, at) == worker' = [worker EXCEPT ![w].at = at]
Fails(w) == worker' = [worker EXCEPT ![w].at = "close", ![w].ok = FALSE]
Cancels(w) == worker' = [worker EXCEPT ![w].at = "cancel", ![w].ok = FALSE]
Stops(w) == worker' = [worker EXCEPT ![w] = Asleep]

OtherRequest == UNCHANGED <<keyRow, lapsed, request, keyed>>
KeepsRequest == UNCHANGED <<requestVars, deliveryVars>>

-----------------------------------------------------------------------------
(* _claim_one and _armar_pdf_del_ciudadano *)

ClaimSession(w) ==
  /\ Has(w, "idle")
  /\ \E d \in Docs : /\ sess[d] = "pending"
                     /\ sess' = [sess EXCEPT ![d] = "processing"]
                     /\ worker' = [worker EXCEPT ![w] =
                                     [Asleep EXCEPT !.at = "compose", !.doc = d]]
  /\ OtherRequest /\ UNCHANGED <<draft, deliveryVars, number, tosign, oficial, lost>> /\ NoFault

\* A PDF made of the draft, or imported by PDFComposer.
Compose(w) == /\ Has(w, "compose")
              /\ tosign' = tosign \union {Doc(w)}
              /\ Goes(w, "sent")
              /\ KeepsRequest /\ UNCHANGED <<number, oficial, lost>> /\ NoFault

ComposeFails(w) == /\ Has(w, "compose") /\ Fault
                   /\ draft' = [draft EXCEPT ![Doc(w)] =
                                  IF @ = "sent_to_sign" THEN "draft" ELSE @]
                   /\ Fails(w)
                   /\ OtherRequest
                   /\ UNCHANGED <<sess, deliveryVars, number, tosign, oficial, lost>>

\* update_document_to_sent_to_sign_query: whatever the status is.
SendToSign(w) == /\ Has(w, "sent")
                 /\ draft' = [draft EXCEPT ![Doc(w)] = "sent_to_sign"]
                 /\ Goes(w, "check")
                 /\ OtherRequest
                 /\ UNCHANGED <<sess, deliveryVars, number, tosign, oficial, lost>> /\ NoFault

(* sign_and_number_citizen_document *)

\* The signer is 'signed' when the document is: one transaction writes both.
Check(w) == /\ Has(w, "check")
            /\ IF draft[Doc(w)] = "sent_to_sign" THEN Goes(w, "reserve") ELSE Fails(w)
            /\ KeepsRequest /\ UNCHANGED <<number, tosign, oficial, lost>> /\ NoFault

\* What fails before the number is reserved, or before the try that follows, cancels nothing.
EarlyFails(w) == /\ worker[w].at \in {"sent", "check", "reserve", "stamp"}
                 /\ Fault /\ Fails(w)
                 /\ KeepsRequest /\ UNCHANGED <<number, tosign, oficial, lost>>

\* reserve_citizen_number, under the advisory lock of the municipality: a
\* cancelled number and its row are used up, or the next of those in use.
Cancelled == {e \in Docs : number[e].st = "CANCELLED"}
LiveNumbers == {number[e].num : e \in {e \in Docs : number[e].st \notin {"none", "CANCELLED"}}}
NextNumber == CHOOSE n \in Numbers :
                (\A m \in LiveNumbers : m < n) /\ (n = 1 \/ n - 1 \in LiveNumbers)
Reserved(n) == [st |-> "RESERVED", num |-> n]

Reserve(w) ==
  /\ Has(w, "reserve") /\ number[Doc(w)].st = "none"
  /\ \E n \in Numbers :
       /\ \/ /\ Cancelled = {} /\ n = NextNumber
             /\ number' = [number EXCEPT ![Doc(w)] = Reserved(n)]
          \/ \E e \in Cancelled :
               /\ n = number[e].num
               /\ number' = [number EXCEPT ![e] = NoNumber, ![Doc(w)] = Reserved(n)]
       /\ worker' = [worker EXCEPT ![w].at = "stamp", ![w].num = n]
  /\ KeepsRequest /\ UNCHANGED <<tosign, oficial, lost>> /\ NoFault

\* The PDF of tosign/, stamped with the number and sealed by Notary.
Stamp(w) == /\ Has(w, "stamp") /\ Doc(w) \in tosign
            /\ Goes(w, "confirm")
            /\ KeepsRequest /\ UNCHANGED <<number, tosign, oficial, lost>> /\ NoFault

\* confirm_number, with the ticket of the reservation: a reservation that was
\* cancelled meanwhile, or whose number went to another document, is stale.
StaleIsSoft(w) ==
  /\ Has(w, "confirm")
  /\ number' = IF number[Doc(w)].st = "RESERVED"
               THEN [number EXCEPT ![Doc(w)].st = "CONFIRMING"] ELSE number
  /\ Goes(w, "upload")
  /\ KeepsRequest /\ UNCHANGED <<tosign, oficial, lost>> /\ NoFault
Confirm(w) ==
  /\ Has(w, "confirm")
  /\ IF number[Doc(w)].st = "RESERVED"
     THEN number' = [number EXCEPT ![Doc(w)].st = "CONFIRMING"] /\ Goes(w, "upload")
     ELSE UNCHANGED number /\ Cancels(w)
  /\ KeepsRequest /\ UNCHANGED <<tosign, oficial, lost>> /\ NoFault

Upload(w) == /\ Has(w, "upload")
             /\ oficial' = [oficial EXCEPT ![worker[w].num] = Doc(w)]
             /\ Goes(w, "finalize")
             /\ KeepsRequest /\ UNCHANGED <<number, tosign, lost>> /\ NoFault

\* finalize_number only logs a row in another state.
Finalize(w) ==
  /\ Has(w, "finalize")
  /\ number' = IF number[Doc(w)].st = "CONFIRMING"
               THEN [number EXCEPT ![Doc(w)].st = "CONFIRMED"] ELSE number
  /\ Goes(w, "sign")
  /\ KeepsRequest /\ UNCHANGED <<tosign, oficial, lost>> /\ NoFault

SignDocument(w) ==
  /\ Has(w, "sign")
  /\ IF draft[Doc(w)] = "sent_to_sign"
     THEN draft' = [draft EXCEPT ![Doc(w)] = "signed"] /\ Goes(w, "clean")
     ELSE UNCHANGED draft /\ Cancels(w)
  /\ OtherRequest
  /\ UNCHANGED <<sess, deliveryVars, number, tosign, oficial, lost>> /\ NoFault

\* delete_tosign, which may fail unnoticed.
Clean(w) == /\ Has(w, "clean")
            /\ tosign' \in {tosign, tosign \ {Doc(w)}}
            /\ Goes(w, "close")
            /\ KeepsRequest /\ UNCHANGED <<number, oficial, lost>> /\ NoFault

UploadIsSoft(w) == /\ Has(w, "upload") /\ Fault /\ Goes(w, "finalize")
                   /\ KeepsRequest /\ UNCHANGED <<number, tosign, oficial, lost>>
SignIsSoft(w) == /\ Has(w, "sign") /\ Fault /\ Goes(w, "clean")
                 /\ KeepsRequest /\ UNCHANGED <<number, tosign, oficial, lost>>
LateFails(w) == /\ worker[w].at \in {"stamp", "confirm", "upload", "finalize", "sign"}
                /\ Fault /\ Cancels(w)
                /\ KeepsRequest /\ UNCHANGED <<number, tosign, oficial, lost>>

\* cancel_number by the document, of a reservation that is not confirmed.
Cancel(w) ==
  /\ Has(w, "cancel")
  /\ number' = IF number[Doc(w)].st = "RESERVED"
               THEN [number EXCEPT ![Doc(w)].st = "CANCELLED"] ELSE number
  /\ Goes(w, "close")
  /\ KeepsRequest /\ UNCHANGED <<tosign, oficial, lost>> /\ NoFault
CancelFails(w) == /\ Has(w, "cancel") /\ Fault /\ Goes(w, "close")
                  /\ KeepsRequest /\ UNCHANGED <<number, tosign, oficial, lost>>

(* _mark_session_signed, _mark_session_failed and _avisar_tad *)

Close(w) ==
  /\ Has(w, "close")
  /\ sess' = [sess EXCEPT ![Doc(w)] = IF worker[w].ok THEN "signed" ELSE "failed"]
  /\ Goes(w, "tell")
  /\ OtherRequest
  /\ UNCHANGED <<draft, deliveryVars, number, tosign, oficial, lost>> /\ NoFault

Tell(w) ==
  /\ Has(w, "tell")
  /\ EnqueueWebhook(Doc(w), IF worker[w].ok THEN "signed" ELSE "signature_failed")
  /\ Stops(w)
  /\ UNCHANGED <<requestVars, sender, received, number, tosign, oficial, lost>> /\ NoFault

\* The webhook is not queued, the session is not closed, or the process dies: no
\* handler of the sweeper looks at a session of this kind.
WorkerDies(w) == /\ ~Has(w, "idle") /\ Fault
                 /\ lost' = lost \union {Doc(w)}
                 /\ Stops(w)
                 /\ KeepsRequest /\ UNCHANGED <<number, tosign, oficial>>

(* _handle_reserved_orphans of workers/sweeper_escri.py *)

Held(d) == \E w \in Workers : Doc(w) = d
SweepReserved(d) ==
  /\ number[d].st = "RESERVED" /\ (d \in Slow \/ ~Held(d))
  /\ number' = [number EXCEPT ![d].st = "CANCELLED"]
  /\ KeepsRequest /\ UNCHANGED <<worker, tosign, oficial, lost>> /\ NoFault

-----------------------------------------------------------------------------
WorkerGoes(w) ==
  \/ ClaimSession(w) \/ Compose(w) \/ SendToSign(w) \/ Check(w) \/ Reserve(w) \/ Stamp(w)
  \/ Confirm(w) \/ Upload(w) \/ Finalize(w) \/ SignDocument(w) \/ Clean(w) \/ Cancel(w)
  \/ Close(w) \/ Tell(w)
WorkerFails(w) == \/ ComposeFails(w) \/ EarlyFails(w) \/ LateFails(w) \/ CancelFails(w)
                  \/ WorkerDies(w)

Next == \/ RequestNext /\ UNCHANGED <<deliveryVars, issueVars>>
        \/ DeliveryNext /\ UNCHANGED <<requestVars, issueVars>>
        \/ \E w \in Workers : WorkerGoes(w) \/ WorkerFails(w)
        \/ \E d \in Docs : SweepReserved(d)

Spec == Init /\ [][Next]_vars

\* The workers, the senders and the sweepers are loops that are restarted with
\* their process; nobody has to send a request.
Fairness ==
  /\ \A w \in Workers : WF_vars(WorkerGoes(w))
  /\ \A s \in Senders : WF_vars(SenderGoes(s) /\ UNCHANGED <<requestVars, issueVars>>)
  /\ \A d \in Docs : WF_vars(SweepJob(d) /\ UNCHANGED <<requestVars, issueVars>>)
FairSpec == Spec /\ Fairness

-----------------------------------------------------------------------------
\* Requests that repeat one another leave one document on its way, as long as
\* the key did not expire and no request found the row of its key gone: the
\* insertion with ON CONFLICT, and complete, release and the failures between.
OneDocumentPerKey == lapsed # {} \/ Cardinality({d \in keyed : sess[d] # "none"}) <= 1

\* A number that is not cancelled belongs to one document, and the official PDF
\* of a confirmed number is its document's, although the sweeper may take a
\* reservation from a job at work and give its number to another document.
OfficialPdfIsOwn ==
  \A d \in Docs :
    /\ number[d].st = "CONFIRMED" => oficial[number[d].num] = d
    /\ \A e \in Docs \ {d} : ~(/\ {number[d].st, number[e].st} \cap {"none", "CANCELLED"} = {}
                               /\ number[d].num = number[e].num)

\* A signed document keeps a confirmed number and its PDF.
SignedIsIssued ==
  \A d \in Docs : draft[d] = "signed" =>
    number[d].st = "CONFIRMED" /\ oficial[number[d].num] = d

\* The portal is told of a signature only when the document is signed and issued,
\* of a failure only when it is not signed, and never of both: whatever is lost
\* or sent twice on the way.
ToldIsTrue == \A d \in Docs :
  /\ "signed" \in received[d] => draft[d] = "signed"
  /\ "signature_failed" \in received[d] => draft[d] # "signed"

\* The portal is told what became of a document that was queued, or the attempts
\* are used up, or the job was lost with its worker: the portal hears nothing.
PortalIsTold == \A d \in Docs :
  sess[d] = "pending" ~> (received[d] # {} \/ job[d].st = "failed" \/ d \in lost)

=============================================================================
