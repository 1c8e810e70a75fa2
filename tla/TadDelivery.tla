----------------------------- MODULE TadDelivery -----------------------------
(***************************************************************************)
(* The webhooks that tell the citizens' portal (TAD) what became of a      *)
(* document: rows of public.tad_webhook_jobs, the workers that claim and   *)
(* post them and the sweeper that takes them back from a worker that died. *)
(* Each document is announced at most once, so a row is named after it.    *)
(***************************************************************************)
EXTENDS Naturals, FiniteSets

CONSTANTS Docs,         \* the citizens' documents
          Senders,      \* instances of TadWebhookWorker
          MaxAttempts,  \* WEBHOOK_MAX_ATTEMPTS
          MaxFaults,    \* bound: things that go wrong in the back end
          NoDoc         \* stands for no document

ASSUME DeliveryAssumption ==
  MaxAttempts \in Nat \ {0} /\ MaxFaults \in Nat /\ NoDoc \notin Docs

VARIABLES job,       \* tad_webhook_jobs
          sender,    \* memory of the workers
          received,  \* what the portal was told of each document
          faults     \* how many things went wrong

deliveryVars == <<job, sender, received>>

Events == {"signed", "signature_failed"}
Job == [st : {"none", "pending", "processing", "sent", "failed"},
        event : Events \union {"none"}, attempts : 0 .. MaxAttempts]
NoJob == [st |-> "none", event |-> "none", attempts |-> 0]
Resting == [at |-> "idle", doc |-> NoDoc, attempts |-> 0]

Fault == faults < MaxFaults /\ faults' = faults + 1
NoFault == faults' = faults

DeliveryTypeOK ==
  /\ job \in [Docs -> Job]
  /\ sender \in [Senders -> [at : {"idle", "post", "mark", "requeue"},
                             doc : Docs \union {NoDoc}, attempts : 0 .. MaxAttempts]]
  /\ received \in [Docs -> SUBSET Events]
  /\ faults \in 0 .. MaxFaults

DeliveryInit == /\ job = [d \in Docs |-> NoJob]
                /\ sender = [s \in Senders |-> Resting]
                /\ received = [d \in Docs |-> {}]
                /\ faults = 0

-----------------------------------------------------------------------------
\* enqueue_tad_webhook: one transaction.
EnqueueWebhook(d, e) == job' = [job EXCEPT ![d] = [NoJob EXCEPT !.st = "pending", !.event = e]]

(* TadWebhookWorker and send_tad_webhook_job *)

Its(s) == sender[s].doc
SenderTo(s, at) == sender' = [sender EXCEPT ![s].at = at]
SenderEnds(s) == sender' = [sender EXCEPT ![s] = Resting]

\* available_at only delays the claim.  The attempt is counted in memory.
Claim(s) ==
  /\ sender[s].at = "idle"
  /\ \E d \in Docs :
       /\ job[d].st = "pending"
       /\ job' = [job EXCEPT ![d].st = "processing"]
       /\ sender' = [sender EXCEPT ![s] =
                       [at |-> "post", doc |-> d, attempts |-> job[d].attempts + 1]]
  /\ UNCHANGED received /\ NoFault

\* 2xx, an answer that is lost, and a portal that is not there.
PostOk(s) == /\ sender[s].at = "post"
             /\ received' = [received EXCEPT ![Its(s)] = @ \union {job[Its(s)].event}]
             /\ SenderTo(s, "mark")
             /\ UNCHANGED job /\ NoFault
PostAnswerLost(s) == /\ sender[s].at = "post"
                     /\ received' = [received EXCEPT ![Its(s)] = @ \union {job[Its(s)].event}]
                     /\ SenderTo(s, "requeue")
                     /\ UNCHANGED job /\ NoFault
PostFails(s) == /\ sender[s].at = "post"
                /\ SenderTo(s, "requeue")
                /\ UNCHANGED <<job, received>> /\ NoFault

\* _mark_job_sent; its failure is one more failed attempt.
MarkSent(s) == /\ sender[s].at = "mark"
               /\ job' = [job EXCEPT ![Its(s)].st = "sent"]
               /\ SenderEnds(s)
               /\ UNCHANGED received /\ NoFault
MarkFails(s) == /\ sender[s].at = "mark" /\ Fault
                /\ SenderTo(s, "requeue")
                /\ UNCHANGED <<job, received>>

\* _requeue_or_fail.
Exhausted(s) == sender[s].attempts >= MaxAttempts
RequeueOrFail(s) ==
  /\ sender[s].at = "requeue"
  /\ job' = [job EXCEPT ![Its(s)].st = IF Exhausted(s) THEN "failed" ELSE "pending",
                        ![Its(s)].attempts = sender[s].attempts]
  /\ SenderEnds(s)
  /\ UNCHANGED received /\ NoFault

\* The process dies, or the database fails outside the handler's try: the row
\* stays 'processing' and nobody holds it.
SenderDies(s) == /\ sender[s].at # "idle" /\ Fault
                 /\ SenderEnds(s)
                 /\ UNCHANGED <<job, received>>

\* sweep_tad_webhook_jobs: five minutes are far more than a post may take (15 s),
\* so what it takes back nobody holds.  The attempt is not counted.
LeftAsClaimed == "processing"
SweptStatus == "pending"
SweepJob(d) == /\ job[d].st = "processing"
               /\ \A s \in Senders : Its(s) # d
               /\ job' = [job EXCEPT ![d].st = SweptStatus]
               /\ UNCHANGED <<sender, received>> /\ NoFault

SenderGoes(s) == Claim(s) \/ PostOk(s) \/ PostAnswerLost(s) \/ PostFails(s)
                 \/ MarkSent(s) \/ RequeueOrFail(s)
DeliveryNext == \/ \E s \in Senders : SenderGoes(s) \/ MarkFails(s) \/ SenderDies(s)
                \/ \E d \in Docs : SweepJob(d)
=============================================================================
