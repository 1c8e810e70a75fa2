----------------------------- MODULE DigitalBatch -----------------------------
(***************************************************************************)
(* Batches (batch_digital.py): the documents of a batch are closed         *)
(* together, when the last one has been signed, or fall together.  Several *)
(* polls register at the same time, and cancelar_tanda is called by the    *)
(* user, by a poll, by the worker and by two handlers of the sweeper; it   *)
(* works on the sessions as it read them.                                  *)
(***************************************************************************)
EXTENDS DigitalSessions

-----------------------------------------------------------------------------
(* registrar_firma_de_una *)

\* UPDATE ... 'waiting_batch'; to lose the race is only logged.
PollRegister(r) ==
  LET s == req[r].s IN
  /\ AtR(r, "register")
  /\ sess' = Marked(s, {"pending"}, "waiting_batch")
  /\ StepR(r, "siblings")
  /\ UNCHANGED <<lockVars, od, saved, row, faults>> /\ ReqKeeps

In(b, st) == {s \in OfBatch(b) : sess[s].st \in st}
WaitsForNone(b) == In(b, {"waiting_batch", "completing"}) = {}
Waits(b) == In(b, {"pending"}) # {} \/ In(b, {"waiting_batch", "completing"}) = {}

\* The batch falls if one of them fell, waits if one is still to be signed,
\* and is closed otherwise, with the states that were read here.
PollSiblings(r) ==
  LET b == sess[req[r].s].batch IN
     /\ AtR(r, "siblings")
     /\ IF In(b, Caidos) # {} THEN Rest(r) /\ Calls(b)
        ELSE /\ UNCHANGED fall
             /\ IF Waits(b) THEN Rest(r)
                ELSE req' = [req EXCEPT ![r].at = "closing",
                               ![r].left = In(b, {"waiting_batch", "completing"})]
     /\ UNCHANGED <<lockVars, od, saved, sess, row, faults>>
     /\ UNCHANGED <<draft, signer, official, open, close>>

First(S) == CHOOSE s \in S : \A t \in S : s <= t

\* _cerrar_tanda_completa: the job first, the mark of the session after.
CloseEnqueue(r) == /\ AtR(r, "closing")
                   /\ Encolar(First(req[r].left))
                   /\ StepR(r, "marking")
                   /\ UNCHANGED <<lockVars, od, saved, sess, faults>> /\ ReqKeeps

CloseMark(r) ==
  LET s == First(req[r].left) IN
  /\ AtR(r, "marking")
  /\ sess' = Marked(s, {"waiting_batch"}, "completing")
  /\ req' = [req EXCEPT ![r] = IF @.left = {s} THEN Resting
                               ELSE [@ EXCEPT !.at = "closing",
                                             !.left = req[r].left \ {s}]]
  /\ UNCHANGED <<lockVars, od, saved, row, faults>> /\ ReqKeeps

\* A job that cannot be queued fells the batch, those already queued too.
CloseFails(r) == /\ AtR(r, "closing") /\ Fault
                 /\ Calls(sess[req[r].s].batch) /\ Rest(r)
                 /\ UNCHANGED <<lockVars, od, saved, sess, row>>
                 /\ UNCHANGED <<draft, signer, official, open, close>>

BatchGoes(r) == PollRegister(r) \/ PollSiblings(r) \/ CloseEnqueue(r) \/ CloseMark(r)

-----------------------------------------------------------------------------
(* cancelar_tanda *)

AtF(f, at) == fall[f].at = at
StepF(f, at) == fall' = [fall EXCEPT ![f].at = at]
FallKeeps == UNCHANGED <<draft, signer, official, row, open, req, close, faults>>
Live(s) == sess[s].st \in Vivos
Dirty(s) == sess[s].st \in Caidos /\ ~sess[s].clean

\* The sessions are read once: those that are alive, those of them whose
\* closing has begun, and those that fell and were not cleaned.
FallSelect(f) ==
  LET B == OfBatch(fall[f].batch) IN
  /\ AtF(f, "select")
  /\ fall' = [fall EXCEPT ![f] =
       [@ EXCEPT !.at = "next", !.live = {s \in B : Live(s)},
                 !.flying = {s \in B : sess[s].st = "completing"},
                 !.left = {s \in B : Live(s) \/ Dirty(s)}]]
  /\ UNCHANGED <<lockVars, od, saved, sess>> /\ FallKeeps

\* The next one is taken, unless its state is another by now.
AlwaysTaken(s, live) == TRUE
Taken(s, live) == IF live THEN Live(s) ELSE ~sess[s].clean

FallNext(f) ==
  /\ AtF(f, "next") /\ IsStill(f)
  /\ IF fall[f].left = {}
     THEN fall' = [fall EXCEPT ![f] = Standing] /\ UNCHANGED sess
     ELSE LET s == First(fall[f].left)
              live == s \in fall[f].live
              taken == Taken(s, live)
          IN /\ fall' = [fall EXCEPT ![f] =
                           [@ EXCEPT !.at = IF taken THEN "pdf" ELSE "next",
                                     !.s = s, !.left = fall[f].left \ {s}]]
             /\ sess' = IF ~taken THEN sess
                        ELSE [sess EXCEPT ![s].st = IF live THEN "failed" ELSE @,
                                          ![s].clean = TRUE]
  /\ UNCHANGED <<lockVars, od, saved>> /\ FallKeeps

\* borrar_pdf_firmado.
FallPdf(f) ==
  LET s == fall[f].s IN
  /\ AtF(f, "pdf")
  /\ saved' = [saved EXCEPT ![Doc(s)] = 0]
  /\ StepF(f, IF Doc(s) \in Numbered /\ s \notin fall[f].flying THEN "number"
              ELSE "release")
  /\ UNCHANGED <<lockVars, od, sess>> /\ FallKeeps

FallNumber(f) ==
  LET s == fall[f].s IN
  /\ AtF(f, "number")
  /\ CancelTicket(Doc(s), sess[s].tk, {"RESERVED", "CONFIRMING"})
  /\ StepF(f, "release")
  /\ UNCHANGED <<lockVars, saved, sess>> /\ FallKeeps

FallRelease(f) == /\ AtF(f, "release")
                  /\ Release(f, Doc(fall[f].s)) /\ StepF(f, "next")
                  /\ UNCHANGED <<od, saved, sess>> /\ FallKeeps

\* Whoever called dies; what was marked is not cleaned again.
FallDies(f) == /\ ~AtF(f, "idle")
               /\ fall' = [fall EXCEPT ![f] = Standing]
               /\ Dead(f) /\ Fault
               /\ UNCHANGED <<store, od, saved, sess, draft, signer, official, row, open,
                              req, close>>

FallGoes(f) == FallSelect(f) \/ FallNext(f) \/ FallPdf(f) \/ FallNumber(f) \/ FallRelease(f)

-----------------------------------------------------------------------------
(* Who calls it *)

CallKeeps == UNCHANGED <<lockVars, document, results, sess, row, open, req, close, faults>>
Opened == {sess[s].batch : s \in {t \in Sessions : sess[t].batch # 0}}

\* The user, at any moment; nothing happens when there is nothing to cancel.
CancelBatch == /\ \E b \in Opened : /\ \E s \in OfBatch(b) : Live(s) \/ Dirty(s)
                                    /\ Calls(b)
               /\ CallKeeps

\* _handle_tandas_huerfanas.
LateBatch(b) ==
  LET Waiting == {s \in OfBatch(b) : sess[s].st \in {"pending", "waiting_batch"}}
  IN /\ Waiting # {} /\ \A s \in Waiting : sess[s].late
     /\ Calls(b) /\ CallKeeps

\* _handle_tandas_caidas_sin_limpiar: nobody in play, and no closing that
\* failed while its PDF was uploaded.
FailedBatch(b) == /\ \E s \in OfBatch(b) : Dirty(s) /\ sess[s].st = "failed"
                  /\ \A s \in OfBatch(b) : ~Live(s) /\ ~sess[s].partial
                  /\ Calls(b) /\ CallKeeps

DirtyBatch(b) == /\ \E s \in OfBatch(b) : Dirty(s)
                 /\ \A s \in OfBatch(b) : ~Live(s) /\ ~sess[s].partial
                 /\ Calls(b) /\ CallKeeps

SweepBatches == \E b \in Opened : LateBatch(b) \/ DirtyBatch(b)

BatchNext == \/ \E r \in Requests : BatchGoes(r) \/ CloseFails(r)
             \/ \E f \in Fallers : FallGoes(f) \/ FallDies(f)
             \/ CancelBatch \/ SweepBatches
=============================================================================
