---------------------------- MODULE CommonWorker ----------------------------
(***************************************************************************)
(* EscriWorker._process_common_job (workers/escri.py): one step for each   *)
(* read or write of shared state.  A worker that finds its session tried   *)
(* before infers from what the store holds whether the signed PDF was      *)
(* uploaded; if it was, it must not sign again.                            *)
(***************************************************************************)
EXTENDS CommonQueue

At(w, at) == worker[w].at = at /\ IsStill(w)
Step(w, at) == worker' = [worker EXCEPT ![w].at = at]
Done(w) == worker' = [worker EXCEPT ![w] = Asleep]
Its(w) == worker[w].s
User(w) == sess[Its(w)].u
WorkerKeeps == UNCHANGED <<draft, request, reject>>

Claim(w) ==
  /\ At(w, "idle")
  /\ \E s \in Sessions :
       /\ sess[s].st = "pending"
       /\ sess' = [sess EXCEPT ![s].st = "processing", ![s].by = w]
       /\ worker' = [worker EXCEPT ![w].at = "look", ![w].s = s]
  /\ UNCHANGED <<lockVars, signer, faults>> /\ WorkerKeeps

\* The signature is in the database already: only the session is closed.
Look(w) == /\ At(w, "look")
           /\ Step(w, IF signer[User(w)] = "signed" THEN "mark" ELSE "payload")
           /\ UNCHANGED <<lockVars, signer, sess, faults>> /\ WorkerKeeps

\* _resume_after_upload: the rest without the signature.
Resumes(w) == worker' = [worker EXCEPT ![w].at = "marker", ![w].resumes = TRUE]

\* signed_uploaded in the payload; the saved hash is a variable of the handler
\* from here on.
NeverMarked(w) == FALSE
Marked(w) == sess[Its(w)].up

Payload(w) ==
  /\ At(w, "payload")
  /\ IF Marked(w) THEN Resumes(w)
     ELSE worker' = [worker EXCEPT ![w].at = "compare", ![w].pdf = sess[Its(w)].sha]
  /\ UNCHANGED <<lockVars, signer, sess, faults>> /\ WorkerKeeps

\* tosign/ holds another PDF than the one this session began with: it is taken
\* for the one this session signed.
Retried(w) == worker[w].pdf # NoPdf
Uploaded(w) == worker[w].pdf # NoPdf /\ tosign[Doc] \notin {NoPdf, worker[w].pdf}

Compare(w) == /\ At(w, "compare")
              /\ IF Uploaded(w) THEN Resumes(w) ELSE Step(w, "read")
              /\ UNCHANGED <<lockVars, signer, sess, faults>> /\ WorkerKeeps

Read(w) ==
  /\ At(w, "read")
  /\ IF inprocess[Doc] = NoPdf
     THEN Step(w, IF worker[w].pdf = NoPdf THEN "fail" ELSE "absent")
     ELSE worker' = [worker EXCEPT ![w].at = "save", ![w].pdf = inprocess[Doc]]
  /\ UNCHANGED <<lockVars, signer, sess, faults>> /\ WorkerKeeps

Absent(w) == /\ At(w, "absent")
             /\ IF Uploaded(w) THEN Resumes(w) ELSE Step(w, "fail")
             /\ UNCHANGED <<lockVars, signer, sess, faults>> /\ WorkerKeeps

Save(w) == /\ At(w, "save")
           /\ sess' = [sess EXCEPT ![Its(w)].sha = worker[w].pdf]
           /\ Step(w, "sign")
           /\ UNCHANGED <<lockVars, signer, faults>> /\ WorkerKeeps

\* The heartbeat found the claim gone.
GivesUp(w) == /\ At(w, "read") \/ At(w, "sign")
              /\ ~Owns(w, Its(w))
              /\ Done(w)
              /\ UNCHANGED <<lockVars, signer, sess, faults>> /\ WorkerKeeps

\* Notary signs the copy the worker has.
Sign(w) == /\ At(w, "sign")
           /\ worker' = [worker EXCEPT ![w].at = "fence", ![w].pdf = SignedBy(@, User(w))]
           /\ UNCHANGED <<lockVars, signer, sess, faults>> /\ WorkerKeeps

\* Nothing is uploaded for a session that is not this worker's any more.
Fence(w) == /\ At(w, "fence")
            /\ IF Owns(w, Its(w)) THEN Step(w, "put") ELSE Done(w)
            /\ UNCHANGED <<lockVars, signer, sess, faults>> /\ WorkerKeeps

Put(w) == /\ At(w, "put")
          /\ tosign' = [tosign EXCEPT ![Doc] = worker[w].pdf]
          /\ Step(w, "uploaded")
          /\ UNCHANGED <<key, inprocess, move, signer, sess, faults>> /\ WorkerKeeps

\* The mark in the payload, in release_signing_lock_R2_success, comes before the
\* key and the copy in inprocess/ are deleted; _process_common_job repeats it.
MarkUploaded(w) == /\ At(w, "uploaded")
                   /\ sess' = [sess EXCEPT ![Its(w)].up = TRUE]
                   /\ Step(w, "settle")
                   /\ UNCHANGED <<lockVars, signer, faults>> /\ WorkerKeeps

SettleUpload(w) == /\ At(w, "settle")
                   /\ Settle(w, Doc) /\ Step(w, "marker")
                   /\ UNCHANGED <<signer, sess, faults>> /\ WorkerKeeps

Marker(w) == /\ At(w, "marker")
             /\ sess' = [sess EXCEPT ![Its(w)].up = TRUE]
             /\ Step(w, "signer")
             /\ UNCHANGED <<lockVars, signer, faults>> /\ WorkerKeeps

\* update_signer_status_to_signed_query: whatever the row says.
UpdateSigner(w) == /\ At(w, "signer")
                   /\ signer' = [signer EXCEPT ![User(w)] = "signed"]
                   /\ Step(w, "mark")
                   /\ UNCHANGED <<lockVars, sess, faults>> /\ WorkerKeeps

\* _mark_session_signed_common: the claim, or a session nobody has claimed.
MaySettle(w, s) == Owns(w, s) \/ sess[s].st = "pending"

MarkSession(w) ==
  /\ At(w, "mark")
  /\ sess' = IF MaySettle(w, Its(w))
             THEN [sess EXCEPT ![Its(w)].st = "signed", ![Its(w)].by = w] ELSE sess
  /\ IF worker[w].resumes THEN Step(w, "clean") ELSE Done(w)
  /\ UNCHANGED <<lockVars, signer, faults>> /\ WorkerKeeps

\* A worker that resumed deletes what is in inprocess/, without asking whose it is.
CleanNothing(w) == /\ At(w, "clean") /\ Done(w)
                   /\ UNCHANGED <<lockVars, signer, sess, faults>> /\ WorkerKeeps
Clean(w) == /\ At(w, "clean")
            /\ inprocess' = [inprocess EXCEPT ![Doc] = NoPdf]
            /\ Done(w)
            /\ UNCHANGED <<key, tosign, move, signer, sess, faults>> /\ WorkerKeeps

-----------------------------------------------------------------------------
(* What fails *)

\* Before the upload: the database, the store or Notary.
Breaks(w) == /\ \E at \in {"look", "payload", "compare", "save", "sign", "put"} : At(w, at)
             /\ Fault("before") /\ Step(w, "fail")
             /\ UNCHANGED <<lockVars, signer, sess>> /\ WorkerKeeps

GiveBack(w) == /\ At(w, "fail")
               /\ Release(w, Doc) /\ Step(w, "failed")
               /\ UNCHANGED <<signer, sess, faults>> /\ WorkerKeeps

MarkFailed(w) == /\ At(w, "failed")
                 /\ sess' = Finished(Its(w), "failed")
                 /\ Done(w)
                 /\ UNCHANGED <<lockVars, signer, faults>> /\ WorkerKeeps

\* After it: _requeue_or_fail_post_upload.
BreaksLate(w) ==
  /\ At(w, "marker") \/ At(w, "signer") \/ At(w, "mark")
  /\ Fault("after")
  /\ LET s == Its(w)
         n == IF sess[s].tries < Retries THEN sess[s].tries + 1 ELSE Retries
     IN sess' = [(IF n = Retries THEN Finished(s, "failed") ELSE Requeued(s))
                   EXCEPT ![s].tries = n]
  /\ Done(w)
  /\ UNCHANGED <<lockVars, signer>> /\ WorkerKeeps

WorkerDies(w) == /\ worker[w].at # "idle" /\ Fault("worker")
                 /\ Dead(w) /\ Done(w)
                 /\ UNCHANGED <<store, signer, sess>> /\ WorkerKeeps

WorkerGoes(w) ==
  \/ Look(w) \/ Payload(w) \/ Compare(w) \/ Read(w) \/ Absent(w) \/ Save(w)
  \/ Sign(w) \/ Fence(w) \/ Put(w) \/ MarkUploaded(w) \/ SettleUpload(w)
  \/ Marker(w) \/ UpdateSigner(w) \/ MarkSession(w) \/ Clean(w)
  \/ GiveBack(w) \/ MarkFailed(w)
WorkerNext == \E w \in Workers : \/ Claim(w) \/ GivesUp(w) \/ WorkerGoes(w)
                                 \/ Breaks(w) \/ BreaksLate(w) \/ WorkerDies(w)
=============================================================================
