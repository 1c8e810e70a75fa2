---------------------------- MODULE DigitalSigning ----------------------------
(***************************************************************************)
(* Signatures with a token: the handlers, the batches, the worker, the     *)
(* sweeper and the lock on the PDF together, and what they guarantee.      *)
(***************************************************************************)
EXTENDS DigitalClosing

Elsewhere == UNCHANGED <<document, results, sess, row, open, req, close, fall, faults>>
Locks == \/ \E a \in Callers : LockStep(a) /\ Elsewhere
         \/ \E d \in Docs : KeyExpires(d) /\ Elsewhere

Next == SessionNext \/ BatchNext \/ ClosingNext \/ Locks
Spec == Init /\ [][Next]_vars

\* Whoever has begun goes on, the worker claims, the jobs come round and the
\* clock goes on.  Nobody has to poll, to sign, to cancel or to open again.
Fairness ==
  /\ \A a \in Callers : WF_vars(LockStep(a) /\ Elsewhere)
  /\ \A o \in Openers : WF_vars(OpenGoes(o) \/ (open[o].left # {} /\ OpenLook(o)))
  /\ \A r \in Requests : WF_vars(SessionGoes(r) \/ BatchGoes(r))
  /\ WF_vars(OrphanLook) /\ WF_vars(Undo(Job))
  /\ \A f \in Fallers : WF_vars(FallGoes(f))
  /\ \A d \in Docs : WF_vars(CloseGoes(d)) /\ WF_vars(Sweep(d))
  /\ WF_vars(SweepBatches)
  /\ \A s \in Sessions : WF_vars(BecomesLate(s))
FairSpec == Spec /\ Fairness

-----------------------------------------------------------------------------
Siblings(s, t) == sess[s].batch # 0 /\ sess[t].batch = sess[s].batch
Ended == Caidos \union {"signed"}

\* A number that is CONFIRMED has its PDF in the official bucket, whether the
\* worker finalized it or the sweeper resolved what a worker left CONFIRMING.
ConfirmedHasPdf == \A d \in Docs : od[d].st = "CONFIRMED" => official[d] # 0

\* What the user cancelled is not issued, however late his cancellation came
\* and however far the poll had gone with his signature (cancel.py, the check
\* of cerrar_firma_digital).
IssuedWasWanted ==
  \A d \in Docs : official[d] # 0 => sess[official[d]].st # "cancelled"

\* A document with a number is signed in one session only, although an older
\* session may give the PDF back while a newer one is open on the same ticket.
OneSignature ==
  \A d \in Numbered : \A s, t \in Sessions :
    Doc(s) = d /\ Doc(t) = d /\ sess[s].st = "signed" /\ sess[t].st = "signed" => s = t

\* The worker closes a session with the PDF that this session signed, although
\* signed-pending/ has one key for all the sessions of a document.
OwnPdf == \A d \in Numbered : close[d].pdf # 0 => close[d].pdf = Own(d)

\* No document of a batch is signed while another still waits for the token:
\* polls that register at the same time and repeated closings never close a
\* batch that is not complete (registrar_firma_de_una, _cerrar_tanda_completa).
NoneBeforeAll ==
  \A s, t \in Sessions :
    Siblings(s, t) /\ sess[s].st = "signed" => sess[t].st # "pending"

\* Nor is its PDF in the official bucket.
NoneIssuedBeforeAll ==
  \A s, t \in Sessions :
    Siblings(s, t) /\ official[Doc(s)] = s => sess[t].st # "pending"

\* A session that ended stays as it ended: polls, cancellations, the worker, the
\* sweeper and cancelar_tanda never revive it and never turn a signature into
\* a failure.
EndedStays == [][\A s \in Sessions : sess[s].st \in Ended => sess'[s].st = sess[s].st]_vars

\* A worker died while it closed, or the row of the queue is over, by a rejection
\* or by a closing that failed, and the session did not hear of it: no handler
\* of the sweeper looks at such a session.
Forsaken(d) == /\ d \in Docs /\ AtC(d, "idle")
               /\ \/ row[d].st = "processing"
                  \/ row[d].st \in {"expired", "failed"} /\ sess[Own(d)].st = "completing"

\* A session ends, whether the user signs, cancels or goes away, and whatever
\* dies on the way, the worker that closes it excepted.
SessionsEnd == \A s \in Sessions :
                 (sess[s].st \in Vivos) ~> (sess[s].st \in Ended \/ Forsaken(Doc(s)))

\* A number reserved for a session is issued or goes back, also when the step
\* that fails comes after the confirmation, where the handlers' own
\* cancellation by ticket does not reach it.
NumbersEnd == \A d \in Docs :
                (od[d].st \in {"RESERVED", "CONFIRMING"})
                  ~> (od[d].st \in {"CONFIRMED", "CANCELLED"} \/ Forsaken(d))

\* A session of a batch that fell is cleaned: somebody gives back its PDF and its
\* number.  A closing that failed at the upload is the exception.
FallenIsCleaned ==
  \A s \in Sessions : (sess[s].batch # 0 /\ Dirty(s)) ~> (sess[s].clean \/ sess[s].partial)
=============================================================================
