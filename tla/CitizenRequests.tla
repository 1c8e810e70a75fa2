--------------------------- MODULE CitizenRequests ---------------------------
(***************************************************************************)
(* POST of a document by the citizens' portal: the Idempotency-Key of      *)
(* services/citizens/idempotency.py around create_and_sign_citizen_document *)
(* (citizen_signing.py), which leaves a draft sent to sign and a row of    *)
(* signing_sessions with job_type 'sign_citizen'.  One step for each       *)
(* statement of the database.  All keyed requests carry the same key.      *)
(***************************************************************************)
EXTENDS TadDelivery

CONSTANTS Requests,   \* requests of the portal, at the same time
          Keyless     \* those that may also come without a key

VARIABLES keyRow,    \* the row of tad_idempotency_keys
          lapsed,    \* how the key was free once more although it was used
          request,   \* memory of api_tad_create_document
          draft,     \* document_draft.status
          keyed,     \* the documents that were created under the key
          sess       \* signing_sessions.status

requestVars == <<keyRow, lapsed, request, draft, keyed, sess>>

NoRow == [st |-> "none", doc |-> NoDoc, expired |-> FALSE]
KeyRow == [st : {"none", "in_flight", "completed"}, doc : Docs \union {NoDoc},
           expired : BOOLEAN]
Away == [at |-> "idle", doc |-> NoDoc, keyed |-> FALSE]
Request == [at : {"idle", "purge", "insert", "read", "create", "prepare", "enqueue",
                  "revert", "complete", "release"},
            doc : Docs \union {NoDoc}, keyed : BOOLEAN]

RequestTypeOK ==
  /\ keyRow \in KeyRow
  /\ lapsed \subseteq {"expired", "vanished"}
  /\ request \in [Requests -> Request]
  /\ draft \in [Docs -> {"none", "draft", "sent_to_sign", "signed"}]
  /\ keyed \subseteq Docs
  /\ sess \in [Docs -> {"none", "pending", "processing", "signed", "failed"}]

RequestInit == /\ keyRow = NoRow
               /\ lapsed = {}
               /\ request = [r \in Requests |-> Away]
               /\ draft = [d \in Docs |-> "none"]
               /\ keyed = {}
               /\ sess = [d \in Docs |-> "none"]

At(r, at) == request[r].at = at
To(r, at) == request' = [request EXCEPT ![r].at = at]
Answer(r) == request' = [request EXCEPT ![r] = Away]
\* The handler's except: a request without a key has nothing to release.
Errs(r) == IF request[r].keyed THEN To(r, "release") ELSE Answer(r)

-----------------------------------------------------------------------------
(* idempotency.begin *)

Unused == {d \in Docs : draft[d] = "none"}
Arrive(r) == /\ At(r, "idle") /\ Unused # {}
             /\ \/ request' = [request EXCEPT ![r] =
                                 [Away EXCEPT !.at = "purge", !.keyed = TRUE]]
                \/ /\ r \in Keyless
                   /\ request' = [request EXCEPT ![r] = [Away EXCEPT !.at = "create"]]
             /\ UNCHANGED <<keyRow, lapsed, draft, keyed, sess>> /\ NoFault

Purge(r) == /\ At(r, "purge")
            /\ keyRow' = IF keyRow.expired THEN NoRow ELSE keyRow
            /\ To(r, "insert")
            /\ UNCHANGED <<lapsed, draft, keyed, sess>> /\ NoFault

\* ON CONFLICT DO NOTHING.
NeverConflicts == TRUE
Free == keyRow.st = "none"
Insert(r) ==
  /\ At(r, "insert")
  /\ IF Free THEN /\ keyRow' = [NoRow EXCEPT !.st = "in_flight"]
                  /\ To(r, "create")
             ELSE UNCHANGED keyRow /\ To(r, "read")
  /\ UNCHANGED <<lapsed, draft, keyed, sess>> /\ NoFault

\* 409, also for another body under the key, or the stored answer; a row that is gone meanwhile lets the
\* request go on, without a row of its own.
Read(r) ==
  /\ At(r, "read")
  /\ IF keyRow.st = "none" THEN To(r, "create") /\ lapsed' = lapsed \union {"vanished"}
                           ELSE Answer(r) /\ UNCHANGED lapsed
  /\ UNCHANGED <<keyRow, draft, keyed, sess>> /\ NoFault

(* create_and_sign_citizen_document *)

\* create_document: the draft and the citizen, its only signer and numerator.
Fresh == CHOOSE d \in Unused : TRUE
Create(r) ==
  /\ At(r, "create") /\ Unused # {}
  /\ draft' = [draft EXCEPT ![Fresh] = "draft"]
  /\ keyed' = IF request[r].keyed THEN keyed \union {Fresh} ELSE keyed
  /\ request' = [request EXCEPT ![r].at = "prepare", ![r].doc = Fresh]
  /\ UNCHANGED <<keyRow, lapsed, sess>> /\ NoFault

\* A validation, the store or the database fails before the document is sent.
CreateFails(r) == /\ At(r, "create") \/ At(r, "prepare")
                  /\ Fault /\ Errs(r)
                  /\ UNCHANGED <<keyRow, lapsed, draft, keyed, sess>>

\* preparar_documento_para_firma: compare and set.
Prepare(r) == /\ At(r, "prepare") /\ draft[request[r].doc] = "draft"
              /\ draft' = [draft EXCEPT ![request[r].doc] = "sent_to_sign"]
              /\ To(r, "enqueue")
              /\ UNCHANGED <<keyRow, lapsed, keyed, sess>> /\ NoFault

\* enqueue_citizen_signing.
Enqueue(r) == /\ At(r, "enqueue")
              /\ sess' = [sess EXCEPT ![request[r].doc] = "pending"]
              /\ IF request[r].keyed THEN To(r, "complete") ELSE Answer(r)
              /\ UNCHANGED <<keyRow, lapsed, draft, keyed>> /\ NoFault

EnqueueFails(r) == /\ At(r, "enqueue") /\ Fault
                   /\ To(r, "revert")
                   /\ UNCHANGED <<keyRow, lapsed, draft, keyed, sess>>
Revert(r) == /\ At(r, "revert")
             /\ draft' = [draft EXCEPT ![request[r].doc] =
                            IF @ = "sent_to_sign" THEN "draft" ELSE @]
             /\ Errs(r)
             /\ UNCHANGED <<keyRow, lapsed, keyed, sess>> /\ NoFault
RevertFails(r) == /\ At(r, "revert") /\ Fault
                  /\ Errs(r)
                  /\ UNCHANGED <<keyRow, lapsed, draft, keyed, sess>>

(* idempotency.complete and release *)

\* WHERE names the key, not who inserted the row.
Complete(r) ==
  /\ At(r, "complete")
  /\ keyRow' = IF keyRow.st = "none" THEN keyRow
               ELSE [keyRow EXCEPT !.st = "completed", !.doc = request[r].doc]
  /\ Answer(r)
  /\ UNCHANGED <<lapsed, draft, keyed, sess>> /\ NoFault

\* Only a row that is still in flight.
Releasable == keyRow.st = "in_flight"
Release(r) == /\ At(r, "release")
              /\ keyRow' = IF Releasable THEN NoRow ELSE keyRow
              /\ Answer(r)
              /\ UNCHANGED <<lapsed, draft, keyed, sess>> /\ NoFault

\* complete and release only log a failure of the database: the row stays.
ClosingFails(r) == /\ At(r, "complete") \/ At(r, "release")
                   /\ Fault /\ Answer(r)
                   /\ UNCHANGED <<keyRow, lapsed, draft, keyed, sess>>

Dies(r) == /\ ~At(r, "idle") /\ Fault
           /\ Answer(r)
           /\ UNCHANGED <<keyRow, lapsed, draft, keyed, sess>>

\* IDEMPOTENCY_TTL_HOURS are far more than a request takes.
KeyExpires == /\ keyRow.st # "none" /\ ~keyRow.expired /\ Fault
              /\ \A r \in Requests : At(r, "idle")
              /\ keyRow' = [keyRow EXCEPT !.expired = TRUE]
              /\ lapsed' = lapsed \union {"expired"}
              /\ UNCHANGED <<request, draft, keyed, sess>>

RequestGoes(r) == \/ Purge(r) \/ Insert(r) \/ Read(r) \/ Create(r) \/ Prepare(r)
                  \/ Enqueue(r) \/ Revert(r) \/ Complete(r) \/ Release(r)
RequestFails(r) == \/ CreateFails(r) \/ EnqueueFails(r) \/ RevertFails(r)
                   \/ ClosingFails(r) \/ Dies(r)
RequestNext == \/ \E r \in Requests : Arrive(r) \/ RequestGoes(r) \/ RequestFails(r)
               \/ KeyExpires
=============================================================================
