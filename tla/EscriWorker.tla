----------------------------- MODULE EscriWorker -----------------------------
(***************************************************************************)
(* EscriWorker._process_job of workers/escri.py, one step per statement    *)
(* that reads or writes shared state.  A worker has one job of the         *)
(* document at a time, because it waits for its whole batch before it      *)
(* claims again; another process may claim the same session when the       *)
(* sweeper took it for dead.                                               *)
(***************************************************************************)
EXTENDS SigningQueue

At(w, pc) == worker[w].pc = pc
Goto(w, pc) == worker' = [worker EXCEPT ![w].pc = pc]
Done(w) == worker' = [worker EXCEPT ![w] = Idle]

Claim(w) ==
  /\ At(w, "idle")
  /\ \E s \in Slots :
       /\ sess[s].st = "pending"
       /\ sess' = [sess EXCEPT ![s].st = "processing", ![s].by = w, ![s].late = FALSE]
       /\ worker' = [worker EXCEPT ![w] = [pc |-> "guard", s |-> s,
                                           tk |-> sess[s].tk, load |-> sess[s].load]]
  /\ UNCHANGED <<document, od, files, queued, alerted, sweep, handlers, faults>>

\* The heartbeat renews the claim.
Renew(w) == /\ ~At(w, "idle") /\ Held(worker[w].s, w) /\ sess[worker[w].s].late
            /\ sess' = [sess EXCEPT ![worker[w].s].late = FALSE]
            /\ UNCHANGED <<document, od, files, queued, alerted, worker, sweep,
                           handlers, faults>>

\* An autoheal session goes straight to the draft, and so does any session
\* of a document whose number is CONFIRMED, whoever's ticket it carries.
SkipsWhenCommitted(w) == worker[w].load.heal \/ od.st \in {"CONFIRMING", "CONFIRMED"}
SkipsSigning(w) == worker[w].load.heal \/ od.st = "CONFIRMED"

Guard(w) == /\ At(w, "guard")
            /\ Goto(w, IF SkipsSigning(w) THEN "markdoc" ELSE "sign")
            /\ UNCHANGED <<document, od, files, sess, queued, alerted, sweep,
                           handlers, faults>>

\* The status of the reservation could not be read: back to the queue, at
\* most MaxGuard times, whoever holds the session by now.
GuardUnread(w) ==
  /\ At(w, "guard") \/ At(w, "stale")
  /\ LET s == worker[w].s
         n == worker[w].load.tries + 1
     IN sess' = IF sess[s].st # "processing" THEN sess
                ELSE IF n >= MaxGuard THEN Ended(s, "failed")
                ELSE Requeued(s, [worker[w].load EXCEPT !.tries = n])
  /\ Done(w) /\ Fault
  /\ UNCHANGED <<document, od, files, queued, alerted, sweep, handlers>>

\* Download from tosign/ and signature by Notary.
Sign(w) == /\ At(w, "sign")
           /\ Goto(w, IF ~tosign THEN "error"
                      ELSE IF worker[w].load.resume THEN "fence" ELSE "confirm")
           /\ UNCHANGED <<document, od, files, sess, queued, alerted, sweep,
                          handlers, faults>>

\* The heartbeat found the claim gone before Notary was called.
SignLost(w) == /\ At(w, "sign") /\ ~Held(worker[w].s, w)
               /\ Done(w)
               /\ UNCHANGED <<document, od, files, sess, queued, alerted, sweep,
                              handlers, faults>>

\* Notary's circuit breaker is open.
BreakerOpen(w) == /\ At(w, "sign")
                  /\ LET s == worker[w].s
                     IN sess' = IF sess[s].st = "processing"
                                THEN Requeued(s, sess[s].load) ELSE sess
                  /\ Done(w) /\ Fault
                  /\ UNCHANGED <<document, od, files, queued, alerted, sweep, handlers>>

\* confirm_number: RESERVED -> CONFIRMING for the session's own ticket.
Confirm(w) == /\ At(w, "confirm")
              /\ IF Holds(worker[w].tk, "RESERVED")
                 THEN od' = [od EXCEPT !.st = "CONFIRMING"] /\ Goto(w, "fence")
                 ELSE Goto(w, "stale") /\ UNCHANGED od
              /\ UNCHANGED <<document, files, sess, queued, alerted, sweep,
                             handlers, faults>>

\* StaleReservationError: someone else confirmed this ticket, or it is gone.
Stale(w) ==
  /\ At(w, "stale")
  /\ \/ Holds(worker[w].tk, "CONFIRMED") /\ Goto(w, "markdoc")
     \/ /\ Holds(worker[w].tk, "CONFIRMING")
        /\ worker' = [worker EXCEPT ![w].pc = "fence", ![w].load.resume = TRUE]
     \/ /\ ~Holds(worker[w].tk, "CONFIRMED") /\ ~Holds(worker[w].tk, "CONFIRMING")
        /\ Goto(w, "fail")
  /\ UNCHANGED <<document, od, files, sess, queued, alerted, sweep, handlers, faults>>

Fence(w) == /\ At(w, "fence")
            /\ IF Held(worker[w].s, w) THEN Goto(w, "upload") ELSE Done(w)
            /\ UNCHANGED <<document, od, files, sess, queued, alerted, sweep,
                           handlers, faults>>

\* Each signature gives other bytes: an upload replaces what was there.
NewPdf == pdf' = IF pdf = 1 THEN 2 ELSE 1

UploadToNowhere(w) == /\ At(w, "upload")
                      /\ Goto(w, "finalize")
                      /\ UNCHANGED <<document, od, files, sess, queued, alerted, sweep,
                                     handlers, faults>>
Upload(w) == /\ At(w, "upload")
             /\ NewPdf
             /\ Goto(w, "finalize")
             /\ UNCHANGED <<document, od, tosign, sess, queued, alerted, sweep,
                            handlers, faults>>

\* finalize_number does not complain when the ticket is not CONFIRMING.
FinalizeSkipped(w) == /\ At(w, "finalize")
                      /\ Goto(w, "markdoc")
                      /\ UNCHANGED <<document, od, files, sess, queued, alerted, sweep,
                                     handlers, faults>>
Finalize(w) == /\ At(w, "finalize")
               /\ od' = IF Holds(worker[w].tk, "CONFIRMING")
                        THEN [od EXCEPT !.st = "CONFIRMED"] ELSE od
               /\ Goto(w, "markdoc")
               /\ UNCHANGED <<document, files, sess, queued, alerted, sweep,
                              handlers, faults>>

\* One transaction; it rolls back when the draft is not sent_to_sign.
MarkDocument(w) ==
  /\ At(w, "markdoc")
  /\ IF draft = "sent_to_sign"
     THEN /\ draft' = "signed" /\ signer' = "signed" /\ UNCHANGED regime
          /\ Goto(w, "marksess")
     ELSE Goto(w, "rejected") /\ UNCHANGED document
  /\ UNCHANGED <<od, files, sess, queued, alerted, sweep, handlers, faults>>

\* A session that another worker has claimed is left to it.
MarkSession(w) ==
  /\ At(w, "marksess")
  /\ LET s == worker[w].s
     IN sess' = IF sess[s].st = "pending" \/ Held(s, w)
                THEN Ended(s, "signed") ELSE sess
  /\ Done(w)
  /\ UNCHANGED <<document, od, files, queued, alerted, sweep, handlers, faults>>

-----------------------------------------------------------------------------
(* Exception handlers *)

\* DocumentRejectedWhileInQueueError.  When the number is not CONFIRMED, or
\* its status cannot be read, the code asks the object store client for a
\* method it does not have (delete_oficial), so the PDF stays; then it gives
\* the number up.
Rejected(w) ==
  /\ At(w, "rejected")
  /\ \/ NoFault /\ Goto(w, IF od.st = "CONFIRMED" THEN "conflict" ELSE "giveup")
     \/ Fault /\ Goto(w, "giveup")
  /\ UNCHANGED <<document, od, files, sess, queued, alerted, sweep, handlers>>

\* Any other error.  A committed number is not given up: its session is
\* marked signed when CONFIRMED, and left in processing when CONFIRMING.
Error(w) ==
  /\ At(w, "error")
  /\ \/ /\ NoFault
        /\ \/ od.st = "CONFIRMED" /\ Goto(w, "marksess")
           \/ od.st = "CONFIRMING" /\ Done(w)
           \/ od.st \notin {"CONFIRMED", "CONFIRMING"} /\ Goto(w, "giveup")
     \/ Fault /\ Goto(w, "giveup")
  /\ UNCHANGED <<document, od, files, sess, queued, alerted, sweep, handlers>>

GiveUp(w) == /\ At(w, "giveup")
             /\ IF worker[w].load.resume THEN UNCHANGED od ELSE CancelTicket(worker[w].tk)
             /\ Goto(w, "fail")
             /\ UNCHANGED <<document, files, sess, queued, alerted, sweep,
                            handlers, faults>>

\* _mark_session_failed does not ask who holds the claim.
MarkFailed(w) ==
  /\ At(w, "fail") \/ At(w, "conflict")
  /\ LET s == worker[w].s
     IN sess' = IF sess[s].st = "processing"
                THEN [sess EXCEPT ![s] = [NoSession EXCEPT !.st = "failed",
                                                           !.conflict = At(w, "conflict")]]
                ELSE sess
  /\ Done(w)
  /\ UNCHANGED <<document, od, files, queued, alerted, sweep, handlers, faults>>

-----------------------------------------------------------------------------
(* What goes wrong *)

Body == {"guard", "sign", "confirm", "stale", "fence", "upload", "finalize",
         "markdoc", "marksess"}

\* A query, the upload or Notary fails.
Fails(w) == /\ worker[w].pc \in Body
            /\ Goto(w, "error") /\ Fault
            /\ UNCHANGED <<document, od, files, sess, queued, alerted, sweep, handlers>>

\* The process dies; its session stays claimed.
Crash(w) == /\ ~At(w, "idle")
            /\ Done(w) /\ Fault
            /\ UNCHANGED <<document, od, files, sess, queued, alerted, sweep, handlers>>

\* A clean shutdown gives the session back; a thread that was uploading is
\* not stopped.
Shutdown(w) == /\ worker[w].pc \in Body
               /\ LET s == worker[w].s
                  IN sess' = IF Held(s, w)
                             THEN [sess EXCEPT ![s].st = "pending", ![s].by = NoWorker]
                             ELSE sess
               /\ \/ UNCHANGED pdf
                  \/ At(w, "upload") /\ NewPdf
               /\ Done(w) /\ Fault
               /\ UNCHANGED <<document, od, tosign, queued, alerted, sweep, handlers>>

WorkerStep(w) == \/ Claim(w) \/ Guard(w) \/ Sign(w) \/ Confirm(w) \/ Stale(w)
                 \/ Fence(w) \/ Upload(w) \/ Finalize(w)
                 \/ MarkDocument(w) \/ MarkSession(w)
                 \/ Rejected(w) \/ Error(w) \/ GiveUp(w) \/ MarkFailed(w)

WorkerNext(w) == \/ WorkerStep(w) \/ Renew(w) \/ SignLost(w)
                 \/ GuardUnread(w) \/ BreakerOpen(w)
                 \/ Fails(w) \/ Crash(w) \/ Shutdown(w)
=============================================================================
