---------------------------- MODULE CommonSigners ----------------------------
(***************************************************************************)
(* The common signers of a document with everything that moves its PDF:    *)
(* requests, workers, the sweeper and the rejection of the document.       *)
(***************************************************************************)
EXTENDS CommonWorker

(* workers/sweeper_escri.py *)

\* _handle_common_pending_expired: no worker claimed the row in time.
SweepPending ==
  /\ IsStill(Sweeper) /\ Fault("overdue")
  /\ \E s \in Sessions : sess[s].st = "pending" /\ sess' = [sess EXCEPT ![s].st = "expired"]
  /\ Release(Sweeper, Doc)
  /\ UNCHANGED <<draft, signer, memory>>

\* _handle_common_processing_expired: nobody renews the claim of a worker that died.
AbandonedPending(s) == sess[s].st = "pending" /\ sess[s].by # Nobody
Abandoned(s) == /\ sess[s].st = "processing"
                /\ \A w \in Workers : worker[w].at = "idle" \/ Its(w) # s
SweepProcessing ==
  /\ IsStill(Sweeper)
  /\ \E s \in Sessions : Abandoned(s) /\ sess' = Requeued(s)
  /\ UNCHANGED <<lockVars, draft, signer, memory, faults>>

-----------------------------------------------------------------------------
(* reject_document, of a document sent to sign that has no number *)

RejectIs(at) == reject = at /\ IsStill(Rejecter)

\* The check of the status, and _cleanup_pdf_from_r2.
Reject == /\ RejectIs("idle") /\ draft = "sent_to_sign"
          /\ tosign' = [tosign EXCEPT ![Doc] = NoPdf]
          /\ reject' = "tx"
          /\ UNCHANGED <<key, inprocess, move, draft, signer, sess, worker, request, faults>>

\* update_signers_to_rejected_query leaves who signed as he is.
RejectTx == /\ RejectIs("tx")
            /\ draft' = "rejected"
            /\ signer' = [u \in Signers |-> IF signer[u] = "signed" THEN "signed"
                                            ELSE "rejected"]
            /\ reject' = "expire"
            /\ UNCHANGED <<lockVars, sess, worker, request, faults>>

RejectExpire ==
  /\ RejectIs("expire")
  /\ sess' = [s \in Sessions |-> IF sess[s].st \in {"pending", "processing"}
                                 THEN [sess[s] EXCEPT !.st = "expired"] ELSE sess[s]]
  /\ reject' = "clear"
  /\ UNCHANGED <<lockVars, draft, signer, worker, request, faults>>

\* delete_inprocess_on_reject.
RejectClear == /\ RejectIs("clear")
               /\ Settle(Rejecter, Doc) /\ reject' = "idle"
               /\ UNCHANGED <<draft, signer, sess, worker, request, faults>>

RejectGoes == RejectTx \/ RejectExpire \/ RejectClear

-----------------------------------------------------------------------------
Elsewhere == UNCHANGED <<draft, signer, sess, memory>>
Moves(a) == LockStep(a) /\ Elsewhere /\ NoFault
Locks == \/ \E a \in Callers : Moves(a)
         \/ KeyExpires(Doc) /\ Elsewhere /\ Fault("key")
Next == \/ RequestNext \/ WorkerNext \/ SweepPending \/ SweepProcessing
        \/ Reject \/ RejectGoes \/ Locks
Spec == Init /\ [][Next]_vars

\* What has begun goes on, workers claim and the sweeper comes round.  Nobody
\* has to sign or to reject.
Fairness == /\ \A a \in Callers : WF_vars(Moves(a))
            /\ \A r \in Requests : WF_vars(RequestGoes(r))
            /\ \A w \in Workers : WF_vars(WorkerGoes(w)) /\ WF_vars(Claim(w))
            /\ WF_vars(SweepProcessing) /\ WF_vars(RejectGoes)
FairSpec == Spec /\ Fairness

-----------------------------------------------------------------------------
WorkerSteps == {"idle", "look", "payload", "compare", "read", "absent", "save", "sign",
                "fence", "put", "uploaded", "settle", "marker", "signer", "mark", "clean",
                "fail", "failed"}
WorkerMemory == [at : WorkerSteps,
                 s : Sessions \union {None}, pdf : Pdfs \union {NoPdf}, resumes : BOOLEAN]
RequestMemory == [at : {"idle", "lock", "wait", "dead", "kept"}, u : Signers \union {Nobody}]

TypeOK == /\ LockTypeOK
          /\ draft \in {"sent_to_sign", "rejected"}
          /\ signer \in [Signers -> {"pending", "signed", "rejected"}]
          /\ sess \in [Sessions -> Session]
          /\ worker \in [Workers -> WorkerMemory]
          /\ request \in [Requests -> RequestMemory]
          /\ reject \in {"idle", "tx", "expire", "clear"}
          /\ faults \in 0 .. MaxFaults

\* The PDF as the next one will find it.
Current == IF tosign[Doc] # NoPdf THEN tosign[Doc] ELSE inprocess[Doc]

\* Who counts as having signed has his signature in the document's PDF, also
\* after retries that did not sign again and locks that were given back.
SignedIsInPdf ==
  draft = "sent_to_sign" /\ reject = "idle" /\ Current # NoPdf
    => \A u \in Signers : signer[u] = "signed" => Current[u] > 0

\* Nobody's signature is put twice into a PDF, however often his job is retried.
SignedOnce ==
  draft = "sent_to_sign"
    => \A pdf \in {tosign[Doc], inprocess[Doc]} \ {NoPdf} : \A u \in Signers : pdf[u] < 2

\* A session ends, whatever dies on the way.
SessionsEnd == \A s \in Sessions : (sess[s].st \in {"pending", "processing"})
                 ~> (sess[s].st \in {"signed", "failed", "expired"})

\* The PDF comes back for the next signer, unless a request died with it, found
\* that its signer had another, or queued him again after he had signed.
Forgotten == \/ \E r \in Requests : request[r].at \in {"dead", "kept"}
             \/ \E s \in Sessions : sess[s].st = "signed" /\ sess[s].sha = NoPdf
PdfComesBack == (inprocess[Doc] # NoPdf) ~> (inprocess[Doc] = NoPdf \/ Forgotten)
=============================================================================
