---------------------------- MODULE DigitalSessions ----------------------------
(***************************************************************************)
(* The handlers of one session: dispatch_digital_signing opens it, the     *)
(* polls of the browser carry the answer of FirmadorGDI to the queue, the  *)
(* user cancels it, a job expires it; and a rejection of the document.     *)
(***************************************************************************)
EXTENDS DigitalQueue

others == <<close, fall>>

-----------------------------------------------------------------------------
(* dispatch_digital_signing *)

AtO(o, at) == open[o].at = at
StepO(o, at) == open' = [open EXCEPT ![o].at = at]
OpenKeeps == UNCHANGED <<results, row, req, close, draft, signer>>

\* Bound: the sessions that may still be opened.
Begun == {s \in Sessions : sess[s].st # "none"}
Opening == {o \in Openers : ~AtO(o, "idle")}
ToOpen == UNION {{o} \X open[o].left : o \in Openers}
MayOpen(n) ==
  Cardinality(Begun) + Cardinality(Opening) + Cardinality(ToOpen) + n <= MaxSessions

\* _get_signing_data: it is this signer's turn.
OpenLook(o) ==
  /\ AtO(o, "idle")
  /\ open[o].left # {} \/ MayOpen(IF o \in Batches THEN Cardinality(Docs) ELSE 1)
  /\ \E d \in (IF open[o].left # {} THEN open[o].left ELSE Docs) :
       /\ signer[d] = "pending"
       /\ o \in Batches /\ open[o].left = {} => \A e \in Docs : signer[e] = "pending"
       /\ open' = [open EXCEPT ![o].at = "lock", ![o].d = d,
                     ![o].left = (IF open[o].left # {} THEN open[o].left
                                  ELSE IF o \in Batches THEN Docs ELSE {d}) \ {d}]
  /\ UNCHANGED <<lockVars, od, sess, fall, faults>> /\ OpenKeeps

OpenLock(o) == /\ AtO(o, "lock")
               /\ Acquire(o, open[o].d)
               /\ StepO(o, "wait")
               /\ UNCHANGED <<od, sess, fall, faults>> /\ OpenKeeps

\* What abrir_tanda does when one of its documents could not be prepared.
Reverts(o) == /\ open' = [open EXCEPT ![o] = Closed]
              /\ IF open[o].batch = 0 THEN UNCHANGED fall ELSE Calls(open[o].batch)

OpenLost(o) == /\ AtO(o, "wait") /\ move[o].at = "lost"
               /\ Dead(o) /\ Reverts(o)
               /\ UNCHANGED <<store, od, sess, faults>> /\ OpenKeeps

OpenWon(o) == /\ AtO(o, "wait") /\ move[o].at = "won"
              /\ Dead(o)
              /\ StepO(o, IF open[o].d \in Numbered THEN "reserve" ELSE "read")
              /\ UNCHANGED <<store, od, sess, fall, faults>> /\ OpenKeeps

\* reserve_number: a reservation that is alive answers with its own ticket;
\* one older than GLOBAL_NUMBERING_TIMEOUT_MIN is replaced.
OpenReserve(o) ==
  LET d == open[o].d IN
  /\ AtO(o, "reserve")
  /\ \/ /\ od[d].st \in {"RESERVED", "CONFIRMING", "CONFIRMED"}
        /\ open' = [open EXCEPT ![o].at = "read", ![o].tk = od[d].tk]
        /\ UNCHANGED od
     \/ /\ od[d].st \in {"NONE", "CANCELLED", "RESERVED"}
        /\ od' = [od EXCEPT ![d] = [st |-> "RESERVED", tk |-> @.tk + 1]]
        /\ open' = [open EXCEPT ![o].at = "read", ![o].tk = od[d].tk + 1]
  /\ UNCHANGED <<lockVars, sess, fall, faults>> /\ OpenKeeps

\* The reservation fails: its handler gives the PDF back, and then so does
\* the one around it.
OpenReserveFails(o) == /\ AtO(o, "reserve")
                       /\ Release(o, open[o].d)
                       /\ StepO(o, "again") /\ Fault
                       /\ UNCHANGED <<od, sess, fall>> /\ OpenKeeps

OpenAgain(o) == /\ AtO(o, "again") /\ IsStill(o)
                /\ Release(o, open[o].d)
                /\ StepO(o, "undo")
                /\ UNCHANGED <<od, sess, fall, faults>> /\ OpenKeeps

\* The PDF in inprocess/ is read and stamped.
OpenRead(o) ==
  /\ AtO(o, "read")
  /\ IF inprocess[open[o].d] # NoPdf
     THEN /\ open' = [open EXCEPT ![o].at = "start", ![o].pdf = inprocess[open[o].d]]
          /\ UNCHANGED lockVars
     ELSE StepO(o, "undo") /\ Release(o, open[o].d)
  /\ UNCHANGED <<od, sess, fall, faults>> /\ OpenKeeps

NextSession == CHOOSE s \in Sessions :
                 /\ sess[s].st = "none"
                 /\ \A t \in Sessions : sess[t].st = "none" => s <= t

\* start_signing: the session is inserted; a batch goes on with its next
\* document.
OpenStart(o) ==
  /\ AtO(o, "start")
  /\ LET s == NextSession
         b == IF o \notin Batches THEN 0
              ELSE IF open[o].batch = 0 THEN s ELSE open[o].batch
     IN /\ sess' = [sess EXCEPT ![s] =
                      [NoSession EXCEPT !.st = "pending", !.d = open[o].d,
                                        !.tk = open[o].tk, !.batch = b,
                                        !.pdf = open[o].pdf]]
        /\ open' = [open EXCEPT ![o] = IF open[o].left = {} THEN Closed
                       ELSE [Closed EXCEPT !.left = open[o].left, !.batch = b]]
  /\ UNCHANGED <<lockVars, od, fall, faults>> /\ OpenKeeps

OpenStartFails(o) == /\ AtO(o, "start")
                     /\ Release(o, open[o].d)
                     /\ StepO(o, "undo") /\ Fault
                     /\ UNCHANGED <<od, sess, fall>> /\ OpenKeeps

\* The number is cancelled by document, whatever ticket it has by now.
OpenUndo(o) == /\ AtO(o, "undo") /\ IsStill(o)
               /\ IF open[o].tk # 0 THEN CancelNumber(open[o].d) ELSE UNCHANGED od
               /\ Reverts(o)
               /\ UNCHANGED <<lockVars, sess, faults>> /\ OpenKeeps

\* The process dies.
OpenDies(o) == /\ ~AtO(o, "idle")
               /\ open' = [open EXCEPT ![o] = Closed]
               /\ Dead(o) /\ Fault
               /\ UNCHANGED <<store, od, sess, fall>> /\ OpenKeeps

OpenGoes(o) == \/ OpenLock(o) \/ OpenLost(o) \/ OpenWon(o) \/ OpenReserve(o)
               \/ OpenAgain(o) \/ OpenRead(o) \/ OpenStart(o) \/ OpenUndo(o)
OpenNext(o) == OpenLook(o) \/ OpenGoes(o) \/ OpenReserveFails(o)
               \/ OpenStartFails(o) \/ OpenDies(o)

-----------------------------------------------------------------------------
(* FirmadorGDI, and the clock *)

\* The manifest of a batch, published when abrir_tanda has opened all of it:
\* before, FirmadorGDI does not know of its sessions.
Published(b) == \A d \in Docs : \E s \in OfBatch(b) : Doc(s) = d

\* POST digital-signature/storage.
Put(s) == /\ sess[s].st = "pending" /\ sess[s].answer = "none"
          /\ sess[s].batch # 0 => Published(sess[s].batch)
          /\ \E a \in Answers : sess' = [sess EXCEPT ![s].answer = a]
          /\ UNCHANGED <<lockVars, document, results, row, open, req, others, faults>>

\* expires_at passes; nobody asks for it when the session is closing or ended
\* and its answer was used.
BecomesLate(s) == /\ s \in Slow /\ sess[s].st # "none" /\ ~sess[s].late
                  /\ sess[s].st \in {"pending", "waiting_batch"} \/ ~sess[s].used
                  /\ sess' = [sess EXCEPT ![s].late = TRUE]
                  /\ UNCHANGED <<lockVars, document, results, row, open, req, others,
                                 faults>>

-----------------------------------------------------------------------------
(* poll_signing *)

AtR(r, at) == req[r].at = at
StepR(r, at) == req' = [req EXCEPT ![r].at = at]
Rest(r) == req' = [req EXCEPT ![r] = Resting]
ReqKeeps == UNCHANGED <<draft, signer, official, open, others>>

\* The PDF is given back, then the steps of todo, one statement each.
GivesBack(r, s, todo) ==
  /\ Release(r, Doc(s))
  /\ req' = [req EXCEPT ![r] = [Resting EXCEPT !.at = "undo", !.s = s, !.todo = todo]]

IfNumbered(s, step) == IF Doc(s) \in Numbered THEN <<step>> ELSE <<>>

\* One of these steps.  An update finds the session pending or does nothing.
Undo(r) ==
  LET s == req[r].s
      step == Head(req[r].todo)
  IN /\ AtR(r, "undo") /\ IsStill(r)
     /\ CASE step = "ticket" -> CancelTicket(Doc(s), sess[s].tk, {"RESERVED"})
          [] step = "number" -> CancelNumber(Doc(s))
          [] OTHER -> UNCHANGED od
     /\ sess' = IF step \in Caidos THEN Marked(s, {"pending"}, step) ELSE sess
     /\ req' = [req EXCEPT ![r] = IF Len(req[r].todo) = 1 THEN Resting
                                  ELSE [@ EXCEPT !.todo = Tail(req[r].todo)]]
     /\ UNCHANGED <<lockVars, saved, row, faults>> /\ ReqKeeps

\* The session is read.  One that is late expires at once.
PollLook(r) ==
  /\ AtR(r, "idle")
  /\ \E s \in Sessions :
       /\ sess[s].st = "pending"
       /\ IF sess[s].late
          THEN GivesBack(r, s, <<"expired">> \o IfNumbered(s, "ticket"))
          ELSE /\ req' = [req EXCEPT ![r].at = "ask", ![r].s = s]
               /\ UNCHANGED lockVars
  /\ UNCHANGED <<od, saved, sess, row, faults>> /\ ReqKeeps

\* FirmadorGDIProvider.poll_signing, and what the handler does with every
\* answer that is no signature.
PollAsk(r) ==
  LET s == req[r].s
      a == sess[s].answer
  IN /\ AtR(r, "ask")
     /\ CASE a = "none" -> Rest(r) /\ UNCHANGED lockVars
          [] a = "cancel" -> GivesBack(r, s, IfNumbered(s, "ticket") \o <<"cancelled">>)
          [] a = "broken" -> GivesBack(r, s, <<"failed">>)
          [] a = "other" -> GivesBack(r, s, IfNumbered(s, "number") \o <<"failed">>)
          [] OTHER -> StepR(r, "consume") /\ UNCHANGED lockVars
     /\ UNCHANGED <<od, saved, sess, row, faults>> /\ ReqKeeps

\* _mark_consumed: one poll uses the answer.
PollConsume(r) ==
  LET s == req[r].s IN
  /\ AtR(r, "consume")
  /\ IF sess[s].used THEN Rest(r) /\ UNCHANGED sess
     ELSE StepR(r, "cert") /\ sess' = [sess EXCEPT ![s].used = TRUE]
  /\ UNCHANGED <<lockVars, od, saved, row, faults>> /\ ReqKeeps

\* validate_cert_full, and then the number of a numerator.
SavesFirst(s) == "save"
AfterCert(s) == IF Doc(s) \in Numbered THEN "confirm" ELSE "save"

PollCert(r) ==
  LET s == req[r].s IN
  /\ AtR(r, "cert")
  /\ IF sess[s].answer = "revoked"
     THEN GivesBack(r, s, IfNumbered(s, "number") \o <<"failed">>)
     ELSE /\ StepR(r, AfterCert(s))
          /\ UNCHANGED lockVars
  /\ UNCHANGED <<od, saved, sess, row, faults>> /\ ReqKeeps

\* confirm_number: RESERVED -> CONFIRMING, or a reservation that is not ours.
ConfirmsAgain(d, tk) == Holds(d, tk, "RESERVED") \/ Holds(d, tk, "CONFIRMING")
Confirms(d, tk) == Holds(d, tk, "RESERVED")

PollConfirm(r) ==
  LET s == req[r].s IN
  /\ AtR(r, "confirm")
  /\ IF Confirms(Doc(s), sess[s].tk)
     THEN /\ od' = [od EXCEPT ![Doc(s)].st = "CONFIRMING"]
          /\ StepR(r, "save") /\ UNCHANGED lockVars
     ELSE GivesBack(r, s, <<"failed">>) /\ UNCHANGED od
  /\ UNCHANGED <<saved, sess, row, faults>> /\ ReqKeeps

\* confirm_number raises something else: the number is cancelled first.
PollConfirmFails(r) ==
  LET s == req[r].s IN
  /\ AtR(r, "confirm") /\ Fault
  /\ CancelTicket(Doc(s), sess[s].tk, {"RESERVED"})
  /\ GivesBack(r, s, <<"failed">>)
  /\ UNCHANGED <<saved, sess, row>> /\ ReqKeeps

\* guardar_pdf_firmado.
PollSave(r) ==
  LET s == req[r].s IN
  /\ AtR(r, "save")
  /\ saved' = [saved EXCEPT ![Doc(s)] = s]
  /\ StepR(r, IF sess[s].batch # 0 THEN "register" ELSE "enqueue")
  /\ UNCHANGED <<lockVars, od, sess, row, faults>> /\ ReqKeeps

PollSaveFails(r) ==
  LET s == req[r].s IN
  /\ AtR(r, "save") /\ Fault
  /\ GivesBack(r, s, IfNumbered(s, "ticket") \o <<"failed">>)
  /\ UNCHANGED <<od, saved, sess, row>> /\ ReqKeeps

PollEnqueue(r) ==
  /\ AtR(r, "enqueue")
  /\ Encolar(req[r].s)
  /\ StepR(r, "completing")
  /\ UNCHANGED <<lockVars, od, saved, sess, faults>> /\ ReqKeeps

\* marcar_sesion_completing.
PollCompleting(r) ==
  /\ AtR(r, "completing")
  /\ sess' = Marked(req[r].s, {"pending"}, "completing")
  /\ Rest(r)
  /\ UNCHANGED <<lockVars, od, saved, row, faults>> /\ ReqKeeps

\* The process dies, or an exception nobody catches.
RequestDies(r) == /\ ~AtR(r, "idle")
                  /\ Rest(r) /\ Dead(r) /\ Fault
                  /\ UNCHANGED <<store, od, saved, sess, row>> /\ ReqKeeps

PollGoes(r) == \/ PollAsk(r) \/ PollConsume(r) \/ PollCert(r) \/ PollConfirm(r)
               \/ PollSave(r) \/ PollEnqueue(r) \/ PollCompleting(r) \/ Undo(r)

-----------------------------------------------------------------------------
(* cancel_signing: only a session whose answer nobody has used *)

Cancel(r) ==
  /\ AtR(r, "idle")
  /\ \E s \in Sessions :
       /\ sess[s].st = "pending" /\ ~sess[s].used
       /\ sess' = [Marked(s, {"pending"}, "cancelled") EXCEPT ![s].clean = TRUE]
       /\ req' = [req EXCEPT ![r].at = "clear", ![r].s = s]
  /\ UNCHANGED <<lockVars, od, saved, row, faults>> /\ ReqKeeps

\* The provider forgets the answer, and the PDF is given back.
CancelClear(r) ==
  LET s == req[r].s IN
  /\ AtR(r, "clear")
  /\ sess' = [sess EXCEPT ![s].answer = "none"]
  /\ IF Doc(s) \in Numbered THEN GivesBack(r, s, <<"ticket">>)
     ELSE Release(r, Doc(s)) /\ Rest(r)
  /\ UNCHANGED <<od, saved, row, faults>> /\ ReqKeeps

-----------------------------------------------------------------------------
(* The job: sessions that are pending after their time.  It gives the PDF  *)
(* back before it marks the session.                                       *)

OverdueUnused(s) == sess[s].st = "pending" /\ sess[s].late /\ ~sess[s].used
Overdue(s) == sess[s].st = "pending" /\ sess[s].late

OrphanLook == /\ AtR(Job, "idle")
              /\ \E s \in Sessions : Overdue(s) /\ GivesBack(Job, s, <<"expired">>)
              /\ UNCHANGED <<od, saved, sess, row, faults>> /\ ReqKeeps

-----------------------------------------------------------------------------
(* reject_document *)

RejectKeeps == UNCHANGED <<results, sess, open, others, faults>>

\* Its checks, and the PDF to sign deleted.
Reject(r) == /\ AtR(r, "idle") /\ r \in Rejections
             /\ \E d \in Docs :
                  /\ draft[d] # "rejected" /\ signer[d] = "pending"
                  /\ od[d].st \notin {"CONFIRMING", "CONFIRMED"}
                  /\ tosign' = [tosign EXCEPT ![d] = NoPdf]
                  /\ req' = [req EXCEPT ![r].at = "tx", ![r].d = d]
             /\ UNCHANGED <<key, inprocess, move, document, row>> /\ RejectKeeps

RejectTx(r) ==
  LET d == req[r].d IN
  /\ AtR(r, "tx")
  /\ IF od[d].st \in {"CONFIRMING", "CONFIRMED"} \/ draft[d] # "sent_to_sign"
     THEN Rest(r) /\ UNCHANGED document
     ELSE /\ CancelNumber(d)
          /\ draft' = [draft EXCEPT ![d] = "rejected"]
          /\ signer' = [signer EXCEPT ![d] = "rejected"]
          /\ StepR(r, "expire")
  /\ UNCHANGED <<lockVars, row>> /\ RejectKeeps

\* _expire_pending_signing_sessions.
RejectExpire(r) ==
  LET d == req[r].d IN
  /\ AtR(r, "expire")
  /\ row' = IF InQueue(d) THEN [row EXCEPT ![d].st = "expired"] ELSE row
  /\ StepR(r, "number")
  /\ UNCHANGED <<lockVars, document>> /\ RejectKeeps

\* _cancel_reserved_number_if_exists and delete_inprocess_on_reject.
RejectNumber(r) ==
  LET d == req[r].d IN
  /\ AtR(r, "number")
  /\ CancelNumber(d) /\ Settle(r, d) /\ Rest(r)
  /\ UNCHANGED <<draft, signer, row>> /\ RejectKeeps

RejectGoes(r) == RejectTx(r) \/ RejectExpire(r) \/ RejectNumber(r)

-----------------------------------------------------------------------------
SessionGoes(r) == PollGoes(r) \/ CancelClear(r) \/ RejectGoes(r)
SessionNext ==
  \/ \E o \in Openers : OpenNext(o)
  \/ \E s \in Sessions : Put(s) \/ BecomesLate(s)
  \/ \E r \in Requests : \/ PollLook(r) \/ SessionGoes(r)
                         \/ Cancel(r) \/ Reject(r)
                         \/ PollConfirmFails(r) \/ PollSaveFails(r) \/ RequestDies(r)
  \/ OrphanLook \/ Undo(Job) \/ RequestDies(Job)
=============================================================================
