----------------------------- MODULE EscriSweeper -----------------------------
(***************************************************************************)
(* The handlers of workers/sweeper_escri.py that look after job_type       *)
(* 'sign'.  All but the first and the last of them select rows and write   *)
(* later, in another statement.                                            *)
(***************************************************************************)
EXTENDS SigningQueue

Looked(pc, s, t, load) == /\ sweep.pc = "idle"
                          /\ sweep' = [pc |-> pc, s |-> s, tk |-> t, load |-> load]
Swept == sweep' = Idle

\* _handle_pending_expired: no worker came for the session in time.
PendingExpires(s) ==
  /\ sweep.pc = "idle"
  /\ sess[s].st = "pending"
  /\ sess' = Ended(s, "expired") /\ Fault
  /\ UNCHANGED <<document, od, files, queued, alerted, worker, sweep, handlers>>

\* The expires_at of a claim passes: by itself when nobody works on it.
WorkedOn(s) == \E w \in Workers : worker[w].s = s /\ Held(s, w)
BecomesLate(s) ==
  /\ sess[s].st = "processing" /\ ~sess[s].late
  /\ sess' = [sess EXCEPT ![s].late = TRUE]
  /\ IF WorkedOn(s) THEN Fault ELSE NoFault
  /\ UNCHANGED <<document, od, files, queued, alerted, worker, sweep, handlers>>

\* _handle_processing_expired: select, then read the reservation.
LateLook(s) ==
  /\ sess[s].st = "processing" /\ sess[s].late
  /\ \/ /\ NoFault
        /\ Looked("requeue", s, 0, [sess[s].load EXCEPT
                                      !.resume = @ \/ od.st = "CONFIRMING"])
     \/ Fault /\ Looked("requeue", s, 0, sess[s].load)
  /\ UNCHANGED <<document, od, files, sess, queued, alerted, worker, handlers>>

\* The UPDATE does not ask again whether the claim is late.
LateForgotten == /\ sweep.pc = "requeue"
                 /\ Swept
                 /\ UNCHANGED <<document, od, files, sess, queued, alerted, worker,
                                handlers, faults>>
LateRequeue == /\ sweep.pc = "requeue"
               /\ sess' = IF sess[sweep.s].st = "processing"
                          THEN Requeued(sweep.s, sweep.load) ELSE sess
               /\ Swept
               /\ UNCHANGED <<document, od, files, queued, alerted, worker,
                              handlers, faults>>

\* _handle_reserved_orphans.
OrphanQueuedLook == /\ od.st = "RESERVED" /\ ~LiveFor(od.tk) /\ queued
                    /\ Looked("orphan", 0, od.tk, Fresh)
                    /\ UNCHANGED <<document, od, files, sess, queued, alerted, worker,
                                   handlers, faults>>
OrphanLook == /\ od.st = "RESERVED" /\ ~LiveFor(od.tk)
              /\ Looked("orphan", 0, od.tk, Fresh)
              /\ UNCHANGED <<document, od, files, sess, queued, alerted, worker,
                             handlers, faults>>

OrphanCancel == /\ sweep.pc = "orphan"
                /\ CancelTicket(sweep.tk)
                /\ Swept
                /\ UNCHANGED <<document, files, sess, queued, alerted, worker,
                               handlers, faults>>

\* _handle_confirming_expired: skips a number that never had a session.
NeverQueuedLook == /\ od.st = "CONFIRMING" /\ ~LiveFor(od.tk)
                   /\ ~queued
                   /\ Looked("resume", 0, od.tk, [Fresh EXCEPT !.resume = TRUE])
                   /\ UNCHANGED <<document, od, files, sess, queued, alerted,
                                  worker, handlers, faults>>
ConfirmingLook == /\ od.st = "CONFIRMING" /\ ~LiveFor(od.tk)
                  /\ queued
                  /\ Looked("resume", 0, od.tk, [Fresh EXCEPT !.resume = TRUE])
                  /\ UNCHANGED <<document, od, files, sess, queued, alerted,
                                 worker, handlers, faults>>

\* _handle_confirmed_not_signed.
LiveConfirmedLook == /\ od.st = "CONFIRMED" /\ draft = "sent_to_sign"
                     /\ queued /\ LiveFor(od.tk)
                     /\ Looked("heal", 0, od.tk,
                               [Fresh EXCEPT !.resume = TRUE, !.heal = TRUE])
                     /\ UNCHANGED <<document, od, files, sess, queued, alerted,
                                    worker, handlers, faults>>
ConfirmedLook == /\ od.st = "CONFIRMED" /\ draft = "sent_to_sign"
                 /\ queued /\ ~LiveFor(od.tk)
                 /\ Looked("heal", 0, od.tk,
                           [Fresh EXCEPT !.resume = TRUE, !.heal = TRUE])
                 /\ UNCHANGED <<document, od, files, sess, queued, alerted,
                                worker, handlers, faults>>

\* The INSERT of both; the unique index may refuse it.
Reinsert == /\ sweep.pc \in {"resume", "heal"}
            /\ IF SomeLive THEN UNCHANGED <<sess, queued>>
               ELSE Enqueue(sweep.tk, sweep.load)
            /\ Swept
            /\ UNCHANGED <<document, od, files, alerted, worker, handlers, faults>>

\* _handle_confirmed_rejected_conflict: reports once, with a failed session
\* as a marker.
ConflictReport == /\ sweep.pc = "idle"
                  /\ od.st = "CONFIRMED" /\ draft = "rejected" /\ ~alerted
                  /\ alerted' = TRUE
                  /\ queued' = TRUE
                  /\ UNCHANGED <<document, od, files, sess, worker, sweep,
                                 handlers, faults>>

SweepLook == \/ \E s \in Slots : LateLook(s)
             \/ OrphanLook \/ ConfirmingLook \/ ConfirmedLook \/ ConflictReport
SweepWrite == LateRequeue \/ OrphanCancel \/ Reinsert

SweepNext == \/ SweepLook \/ SweepWrite
             \/ \E s \in Slots : PendingExpires(s) \/ BecomesLate(s)
=============================================================================
