----------------------------- MODULE EscriSigning -----------------------------
(***************************************************************************)
(* The signature of a document by its numerator: handlers, workers and     *)
(* sweeper together, and what must hold of them in both regimes.           *)
(***************************************************************************)
EXTENDS EscriWorker, EscriSweeper, SigningHandlers

Next == \/ \E w \in Workers : WorkerNext(w)
        \/ SweepNext
        \/ HandlerNext

\* A worker that runs goes on with its job and asks for the next one; the
\* sweeper goes through all its handlers in every pass; a request that was
\* accepted is carried on.  Nobody has to ask for anything.
Fairness ==
  /\ \A w \in Workers : WF_vars(WorkerStep(w))
  /\ WF_vars(SweepWrite)
  /\ WF_vars(\E s \in Slots : BecomesLate(s) /\ NoFault)
  /\ WF_vars(SweepLook /\ NoFault)
  /\ WF_vars(StartStep) /\ WF_vars(RejectStep)
  /\ \A r \in Requests : WF_vars(RequestStep(r))

SafeSpec == Init /\ [][Next]_vars
Spec == SafeSpec /\ Fairness

-----------------------------------------------------------------------------
(* Safety *)

\* A document takes effect (its draft is signed, its signer has signed) only
\* under an issued number: no path of a worker marks it before CONFIRMED.
SignedIsIssued == (draft = "signed" \/ signer = "signed") => od.st = "CONFIRMED"

\* An issued number has its PDF in the official bucket, and a PDF there
\* belongs to a number that nobody takes back.
IssuedHasPdf == od.st = "CONFIRMED" => pdf # 0
PdfIsCommitted == pdf # 0 => od.st \in {"CONFIRMING", "CONFIRMED"}

\* A committed reservation stays committed under its ticket, whatever retries,
\* sweeps, rejections and late workers do; an issued one stays issued.
CommittedStays ==
  [][od.st \in {"CONFIRMING", "CONFIRMED"} =>
       /\ od'.tk = od.tk
       /\ od'.st \in {od.st, "CONFIRMED"}]_vars

\* A session is reported signed only when the number is issued.
SessionSignedIsIssued ==
  \A s \in Slots : sess[s].st = "signed" => od.st = "CONFIRMED"

\* The document implements the promise made about official numbers.
Number == INSTANCE Issuance WITH
  Tickets <- Tickets,
  phase <- CASE od.st \in {"NONE", "CANCELLED"} -> "open"
             [] od.st = "RESERVED" -> "reserved"
             [] od.st = "CONFIRMING" -> "committed"
             [] od.st = "CONFIRMED" ->
                  IF signer = "signed" THEN "effective" ELSE "issued",
  ticket <- IF od.st \in {"NONE", "CANCELLED"} THEN 0 ELSE od.tk

ImplementsIssuance == Number!Spec

-----------------------------------------------------------------------------
(* Liveness *)

\* Every session ends, whichever worker or sweeper takes it over, unless the
\* PDF to sign was deleted.
SessionsEnd == \A s \in Slots : IsLive(s) ~> (~IsLive(s) \/ ~tosign)

\* A reservation does not stay without a decision.
ReservationResolves == od.st = "RESERVED" ~> od.st # "RESERVED"

\* A committed number is issued as long as there is a PDF to sign.  In the
\* SPECIAL regime nothing resumes what a failed request left.
Deferred(st) == regime = "GLOBAL" /\ od.st = st
CommittedIsIssued == Deferred("CONFIRMING") ~> (od.st = "CONFIRMED" \/ ~tosign)

\* An issued number reaches the draft, or the conflict is reported.
IssuedReachesDraft ==
  Deferred("CONFIRMED") ~> (draft = "signed" \/ alerted \/ draft = "draft")

=============================================================================
