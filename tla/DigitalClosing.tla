---------------------------- MODULE DigitalClosing ----------------------------
(***************************************************************************)
(* The worker's job 'digital_complete' (digital_completion.py and its      *)
(* handler in workers/escri.py) and what the sweeper does with what polls  *)
(* and workers leave behind.  A document has one such job at a time; the   *)
(* worker that has it is the document's own process.                       *)
(***************************************************************************)
EXTENDS DigitalBatch

AtC(d, at) == close[d].at = at
StepC(d, at) == close' = [close EXCEPT ![d].at = at]
Fails(d, why) == close' = [close EXCEPT ![d].at = "fail", ![d].why = why]
CloseKeeps == UNCHANGED <<saved, open, req>>
Own(d) == row[d].s

-----------------------------------------------------------------------------
(* cerrar_firma_digital *)

Claim(d) == /\ AtC(d, "idle") /\ row[d].st = "pending"
            /\ row' = [row EXCEPT ![d].st = "processing"]
            /\ StepC(d, "check")
            /\ UNCHANGED <<lockVars, document, official, sess, fall, faults>> /\ CloseKeeps

\* A session that ended, and one its batch waits for, is not promoted.
AlwaysCloses(s) == TRUE
MayClose(s) == sess[s].st \in {"pending", "completing"}

CloseCheck(d) ==
  /\ AtC(d, "check")
  /\ IF MayClose(Own(d)) THEN StepC(d, "read")
     ELSE Fails(d, "stale")
  /\ UNCHANGED <<lockVars, document, official, sess, row, fall, faults>> /\ CloseKeeps

\* leer_pdf_firmado: the key names the document and not the session.  A number
\* gets here CONFIRMING, because the poll confirmed it before it saved the PDF
\* (cas_pre_done), and completar_numerador does not confirm it again.
CloseRead(d) ==
  /\ AtC(d, "read")
  /\ IF saved[d] = 0 THEN Fails(d, "lost")
     ELSE close' = [close EXCEPT ![d].pdf = saved[d],
                      ![d].at = IF d \in Numbered THEN "upload" ELSE "put"]
  /\ UNCHANGED <<lockVars, document, official, sess, row, fall, faults>> /\ CloseKeeps

CloseUpload(d) ==
  /\ AtC(d, "upload")
  /\ official' = [official EXCEPT ![d] = close[d].pdf]
  /\ StepC(d, "finalize")
  /\ UNCHANGED <<lockVars, document, sess, row, fall, faults>> /\ CloseKeeps

\* NumeratorUploadError: the number stays CONFIRMING.
CloseUploadFails(d) ==
  /\ AtC(d, "upload") /\ Fault
  /\ Fails(d, "upload")
  /\ UNCHANGED <<lockVars, document, official, sess, row, fall>> /\ CloseKeeps

\* finalize_number only logs that the number is not CONFIRMING with this ticket.
CloseFinalize(d) ==
  /\ AtC(d, "finalize")
  /\ od' = IF Holds(d, row[d].tk, "CONFIRMING") THEN [od EXCEPT ![d].st = "CONFIRMED"]
           ELSE od
  /\ StepC(d, "draft")
  /\ UNCHANGED <<lockVars, draft, signer, official, sess, row, fall, faults>> /\ CloseKeeps

\* actualizar_numerador_en_bd; a document rejected meanwhile is an alert.
CloseDraft(d) ==
  /\ AtC(d, "draft")
  /\ draft' = IF draft[d] = "sent_to_sign" THEN [draft EXCEPT ![d] = "signed"] ELSE draft
  /\ StepC(d, "settle")
  /\ UNCHANGED <<lockVars, od, signer, official, sess, row, fall, faults>> /\ CloseKeeps

\* What fails after the upload is left to the sweeper.
CloseGivesUp(d) == /\ AtC(d, "finalize") \/ AtC(d, "draft")
                   /\ StepC(d, "settle") /\ Fault
                   /\ UNCHANGED <<lockVars, document, official, sess, row, fall>>
                   /\ CloseKeeps

\* release_signing_lock_R2_success: the signed PDF of a signer who is not the
\* numerator goes back to tosign/.
ClosePut(d) ==
  LET s == close[d].pdf IN
  /\ AtC(d, "put")
  /\ tosign' = [tosign EXCEPT ![d] = sess[s].pdf \union {s}]
  /\ StepC(d, "settle")
  /\ UNCHANGED <<key, inprocess, move, document, official, sess, row, fall, faults>>
  /\ CloseKeeps

CloseSettle(d) ==
  /\ AtC(d, "settle")
  /\ Settle(d, d) /\ StepC(d, "signer")
  /\ UNCHANGED <<document, official, sess, row, fall, faults>> /\ CloseKeeps

\* actualizar_firmante; its failure is only logged.
CloseSigner(d) ==
  /\ AtC(d, "signer") /\ IsStill(d)
  /\ \/ signer' = [signer EXCEPT ![d] = "signed"] /\ NoFault
     \/ UNCHANGED signer /\ Fault
  /\ StepC(d, "mark")
  /\ UNCHANGED <<lockVars, draft, od, official, sess, row, fall>> /\ CloseKeeps

CloseMarkSigned(d) ==
  /\ AtC(d, "mark")
  /\ sess' = Marked(Own(d), {"pending", "completing"}, "signed")
  /\ StepC(d, "tidy")
  /\ UNCHANGED <<lockVars, document, official, row, fall, faults>> /\ CloseKeeps

CloseTidy(d) == /\ AtC(d, "tidy")
                /\ saved' = [saved EXCEPT ![d] = 0]
                /\ StepC(d, "row")
                /\ UNCHANGED <<lockVars, document, official, sess, row, open, req, fall,
                               faults>>

CloseRow(d) ==
  /\ AtC(d, "row")
  /\ row' = IF row[d].st = "processing" THEN [row EXCEPT ![d].st = "signed"] ELSE row
  /\ close' = [close EXCEPT ![d] = Asleep]
  /\ UNCHANGED <<lockVars, document, official, sess, fall, faults>> /\ CloseKeeps

-----------------------------------------------------------------------------
(* _process_digital_complete_job, when it is not closed *)

FailRow(d) ==
  /\ AtC(d, "fail")
  /\ row' = IF row[d].st = "processing" THEN [row EXCEPT ![d].st = "failed"] ELSE row
  /\ StepC(d, "failed")
  /\ UNCHANGED <<lockVars, document, official, sess, fall, faults>> /\ CloseKeeps

\* Where the number may be CONFIRMING, or nobody knows, the batch stays.
FailSession(d) ==
  LET s == Own(d)
      why == close[d].why
      falls == sess[s].batch # 0 /\ why = "stale"
  IN /\ AtC(d, "failed")
     /\ sess' = [Marked(s, {"pending", "completing"}, "failed") EXCEPT
                   ![s].partial = @ \/ (why = "upload"
                                        /\ sess[s].st \in {"pending", "completing"})]
     /\ close' = [close EXCEPT ![d] = IF falls THEN [@ EXCEPT !.at = "drop"] ELSE Asleep]
     /\ UNCHANGED <<lockVars, document, official, row, fall, faults>> /\ CloseKeeps

\* _tirar_la_tanda_si_es_de_una.
DropBatch(d) == /\ AtC(d, "drop")
                /\ Calls(sess[Own(d)].batch)
                /\ close' = [close EXCEPT ![d] = Asleep]
                /\ UNCHANGED <<lockVars, document, official, sess, row, faults>> /\ CloseKeeps

\* The worker dies; no handler of the sweeper looks at such a row.
WorkerDies(d) == /\ ~AtC(d, "idle")
                 /\ close' = [close EXCEPT ![d] = Asleep]
                 /\ Dead(d) /\ Fault
                 /\ UNCHANGED <<store, document, official, sess, row, fall>> /\ CloseKeeps

CloseGoes(d) == \/ Claim(d) \/ CloseCheck(d) \/ CloseRead(d)
                \/ CloseUpload(d) \/ CloseFinalize(d) \/ CloseDraft(d) \/ ClosePut(d)
                \/ CloseSettle(d) \/ CloseSigner(d) \/ CloseMarkSigned(d)
                \/ CloseTidy(d) \/ CloseRow(d) \/ FailRow(d) \/ FailSession(d)
                \/ DropBatch(d)
CloseFaults(d) == CloseUploadFails(d) \/ CloseGivesUp(d) \/ WorkerDies(d)

-----------------------------------------------------------------------------
(* The sweeper.  Its ages are minutes and a request takes seconds, so the  *)
(* request that reserved or confirmed the number has ended.                *)

Abandoned(d, st) ==
  LET tk == od[d].tk IN
  /\ od[d].st = st
  /\ ~(InQueue(d) /\ row[d].tk = tk)
  /\ \A s \in Sessions : Doc(s) = d /\ sess[s].tk = tk =>
       /\ sess[s].used \/ sess[s].late
       /\ sess[s].st \notin {"completing", "waiting_batch"}
  /\ \A o \in Openers : open[o].d = d => open[o].tk # tk
  /\ \A r \in Requests : req[r].s # 0 => Doc(req[r].s) # d
  /\ close[d].at = "idle"
SweepKeeps == UNCHANGED <<lockVars, results, row, open, req, close, fall, faults>>

\* _handle_reserved_orphans.
SweepReserved(d) == /\ Abandoned(d, "RESERVED")
                    /\ CancelTicket(d, od[d].tk, {"RESERVED"})
                    /\ UNCHANGED <<draft, signer, sess>> /\ SweepKeeps

\* What becomes of a number that was left CONFIRMING.
WasSaved(d) == saved[d] # 0
WasIssued(d) == official[d] # 0

\* _handle_confirming_expired and _resolve_digital_confirming_orphan.
SweepConfirming(d) ==
  /\ Abandoned(d, "CONFIRMING")
  /\ \E s \in Sessions : Doc(s) = d /\ sess[s].tk = od[d].tk
  /\ IF WasIssued(d)
     THEN /\ od' = [od EXCEPT ![d].st = "CONFIRMED"]
          /\ draft' = IF draft[d] = "sent_to_sign" THEN [draft EXCEPT ![d] = "signed"]
                      ELSE draft
          /\ UNCHANGED sess
     ELSE /\ CancelTicket(d, od[d].tk, {"RESERVED", "CONFIRMING"})
          /\ sess' = [s \in Sessions |->
                        IF Doc(s) = d /\ sess[s].tk = od[d].tk /\ sess[s].st = "pending"
                        THEN [sess[s] EXCEPT !.st = "failed"] ELSE sess[s]]
          /\ UNCHANGED draft
  /\ UNCHANGED signer /\ SweepKeeps

\* _handle_confirmed_not_signed, and the job it queues.
SweepConfirmed(d) ==
  /\ od[d].st = "CONFIRMED" /\ draft[d] = "sent_to_sign"
  /\ row[d].tk = od[d].tk /\ ~InQueue(d)
  /\ draft' = [draft EXCEPT ![d] = "signed"]
  /\ signer' = [signer EXCEPT ![d] = "signed"]
  /\ UNCHANGED <<od, sess>> /\ SweepKeeps

Sweep(d) == SweepReserved(d) \/ SweepConfirming(d) \/ SweepConfirmed(d)
ClosingNext == \E d \in Docs : CloseGoes(d) \/ CloseFaults(d) \/ Sweep(d)
=============================================================================
