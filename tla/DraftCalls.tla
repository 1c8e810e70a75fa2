----------------------------- MODULE DraftCalls -----------------------------
(***************************************************************************)
(* What is done to a document that exists.  In draft or rejected: save     *)
(* (editing.py), files to embed (embedded_files.py) and the PDF of an      *)
(* imported document (import_service.py); only the files are added and     *)
(* removed under the lock of the row of document_draft.  Its start, and    *)
(* how it leaves its editor: rejected (rejection.py), deleted              *)
(* (deletion.py) or signed.  The signature is told in the four steps that  *)
(* meet the document; SigningQueue and the modules on it, DigitalSigning   *)
(* and CommonSigners have the rest.                                        *)
(***************************************************************************)
EXTENDS Drafts

-----------------------------------------------------------------------------
(* start_document_signing_process of signing.py: the document is read,     *)
(* taken by a conditional UPDATE of its status, and given back if its PDF  *)
(* cannot be made.  A start that finds it taken or sent changes nothing.   *)
(* Neither the start nor the signers look at is_deleted.                   *)

\* The content that goes in the PDF is read here, before the document is taken.
StartRead(c) == /\ May(c, "start") /\ Editable
                /\ call' = [call EXCEPT ![c].op = "start", ![c].at = "take",
                                        ![c].content = draft.content, ![c].original = draft.st]
                /\ NoFault
                /\ UNCHANGED <<document, embedded, tosign, official>>

StartTake(c) == /\ At(c, "start", "take")
                /\ IF draft.st = call[c].original
                   THEN draft' = [draft EXCEPT !.st = "sent_to_sign"] /\ Goto(c, "collect")
                   ELSE End(c) /\ UNCHANGED draft
                /\ NoFault
                /\ UNCHANGED <<type, embedded, tosign, official>>

\* The recipients of a NOTA are validated; the files to embed are read, and a
\* file without its object fails the start.
Complete == (type = "NOTA" => draft.to) /\ rows \subseteq objects
StartCollect(c) == /\ At(c, "start", "collect")
                   /\ IF Complete
                      THEN call' = [call EXCEPT ![c].at = "compose", ![c].files = rows]
                      ELSE Goto(c, "rollback")
                   /\ NoFault
                   /\ UNCHANGED <<document, embedded, tosign, official>>

\* generate_final_document_pdf: without content the PDF must be there already;
\* else the recipients are read again and the composer makes it.
TrustsTheUpload(c) ==
  /\ At(c, "start", "compose")
  /\ IF call[c].content = NoContent
     THEN Goto(c, "check")
     ELSE call' = [call EXCEPT ![c].at = "store", ![c].to = draft.to]
  /\ NoFault
  /\ UNCHANGED <<document, embedded, tosign, official>>
StartCompose(c) ==
  /\ At(c, "start", "compose")
  /\ IF call[c].content = NoContent
     THEN Goto(c, IF tosign # NoPdf THEN "check" ELSE "rollback")
     ELSE call' = [call EXCEPT ![c].at = "store", ![c].to = draft.to]
  /\ NoFault
  /\ UNCHANGED <<document, embedded, tosign, official>>
StartStore(c) == /\ At(c, "start", "store")
                 /\ tosign' = Pdf(call[c].content, call[c].files, call[c].to)
                 /\ Goto(c, "check")
                 /\ NoFault
                 /\ UNCHANGED <<document, embedded, official>>

\* A PDF without the marker that signatures need is deleted, if the object
\* store answers.
StartCheck(c) == /\ At(c, "start", "check")
                 /\ \/ NoFault /\ Goto(c, "finish") /\ UNCHANGED tosign
                    \/ NoFault /\ Goto(c, "rollback") /\ tosign' = NoPdf
                    \/ Fault /\ Goto(c, "rollback") /\ UNCHANGED tosign
                 /\ UNCHANGED <<document, embedded, official>>

\* update_document_to_sent_to_sign_query does not look at the status.
StartFinish(c) == /\ At(c, "start", "finish")
                  /\ draft' = [draft EXCEPT !.st = "sent_to_sign", !.sent_at = TRUE]
                  /\ End(c)
                  /\ NoFault
                  /\ UNCHANGED <<type, embedded, tosign, official>>

KeepsTheDocument(c) == /\ At(c, "start", "rollback")
                       /\ End(c)
                       /\ NoFault
                       /\ UNCHANGED <<document, embedded, tosign, official>>
StartRollback(c) ==
  /\ At(c, "start", "rollback")
  /\ draft' = IF draft.st = "sent_to_sign" THEN [draft EXCEPT !.st = call[c].original] ELSE draft
  /\ End(c)
  /\ NoFault
  /\ UNCHANGED <<type, embedded, tosign, official>>

\* A query, the composer or the object store fails: the document is given back.
StartFails(c) == /\ call[c].op = "start" /\ call[c].at \in {"collect", "compose", "store", "check"}
                 /\ Goto(c, "rollback")
                 /\ Fault
                 /\ UNCHANGED <<document, embedded, tosign, official>>

StartStep(c) == \/ StartTake(c) \/ StartCollect(c) \/ StartCompose(c) \/ StartStore(c)
                \/ StartCheck(c) \/ StartFinish(c) \/ StartRollback(c)

-----------------------------------------------------------------------------
(* Edits *)

\* save_document_changes looks at the status, validates what it was given ...
SaveCheck(c) == /\ May(c, "save") /\ Editable
                /\ Begin(c, "save", "commit")
                /\ NoFault
                /\ UNCHANGED <<document, embedded, tosign, official>>
\* ... and writes by id, in one transaction.
SaveCommit(c) ==
  /\ At(c, "save", "commit")
  /\ \E v \in Versions \union {draft.content}, to \in IF type = "NOTA" THEN BOOLEAN ELSE {draft.to} :
       draft' = [draft EXCEPT !.content = v, !.to = to]
  /\ End(c)
  /\ NoFault
  /\ UNCHANGED <<type, embedded, tosign, official>>

\* upload_embedded_file: the row of the file, under the lock; then its object,
\* without which the row is removed again.  A file gets a new identifier.
NewFiles == Files \ (rows \union objects \union official.files
                     \union UNION {call[d].files : d \in Calls})
AnyStatus(c) == \E f \in NewFiles :
  /\ May(c, "upload") /\ draft.st # "none" /\ type \in Accepting
  /\ rows' = rows \union {f}
  /\ call' = [call EXCEPT ![c].op = "upload", ![c].at = "put", ![c].files = {f}]
  /\ NoFault
  /\ UNCHANGED <<document, objects, tosign, official>>
UploadRow(c) == \E f \in NewFiles :
  /\ May(c, "upload") /\ Editable /\ type \in Accepting
  /\ rows' = rows \union {f}
  /\ call' = [call EXCEPT ![c].op = "upload", ![c].at = "put", ![c].files = {f}]
  /\ NoFault
  /\ UNCHANGED <<document, objects, tosign, official>>
UploadPut(c) == /\ At(c, "upload", "put")
                /\ \/ NoFault /\ objects' = objects \union call[c].files /\ End(c)
                   \/ Fault /\ Goto(c, "undo") /\ UNCHANGED objects
                /\ UNCHANGED <<document, rows, tosign, official>>
UploadUndo(c) == /\ At(c, "upload", "undo")
                 /\ rows' = rows \ call[c].files
                 /\ End(c)
                 /\ NoFault
                 /\ UNCHANGED <<document, objects, tosign, official>>

\* delete_embedded_file: the row under the lock, then the object if the store answers.
RemoveRow(c) == \E f \in rows :
  /\ May(c, "remove") /\ Editable
  /\ rows' = rows \ {f}
  /\ call' = [call EXCEPT ![c].op = "remove", ![c].at = "object", ![c].files = {f}]
  /\ NoFault
  /\ UNCHANGED <<document, objects, tosign, official>>
RemoveObject(c) == /\ At(c, "remove", "object")
                   /\ \/ NoFault /\ objects' = objects \ call[c].files
                      \/ Fault /\ UNCHANGED objects
                   /\ End(c)
                   /\ UNCHANGED <<document, rows, tosign, official>>

\* replace_imported_pdf: only in draft, looked at before the composer works;
\* the old PDF is deleted and the new one put, either of which may fail.
ReplaceCheck(c) == /\ May(c, "replace") /\ draft.st = "draft" /\ type = "Importado"
                   /\ Begin(c, "replace", "clean")
                   /\ NoFault
                   /\ UNCHANGED <<document, embedded, tosign, official>>
ReplaceClean(c) == /\ At(c, "replace", "clean")
                   /\ \/ NoFault /\ tosign' = NoPdf /\ Goto(c, "put")
                      \/ Fault /\ End(c) /\ UNCHANGED tosign
                   /\ UNCHANGED <<document, embedded, official>>
ReplacePut(c) == /\ At(c, "replace", "put")
                 /\ \/ NoFault /\ \E v \in Versions : tosign' = Pdf(v, {}, FALSE)
                    \/ Fault /\ UNCHANGED tosign
                 /\ End(c)
                 /\ UNCHANGED <<document, embedded, official>>

EditStep(c) == \/ SaveCommit(c) \/ UploadPut(c) \/ UploadUndo(c) \/ RemoveObject(c)
               \/ ReplaceClean(c) \/ ReplacePut(c)

-----------------------------------------------------------------------------
(* Rejection, deletion and signature *)

\* reject_document deletes the PDF before it knows that it can reject.
RejectCheck(c) == /\ May(c, "reject")
                  /\ draft.st \in {"draft", "sent_to_sign"} /\ official.st # "CONFIRMED"
                  /\ Begin(c, "reject", "clean")
                  /\ NoFault
                  /\ UNCHANGED <<document, embedded, tosign, official>>
RejectClean(c) == /\ At(c, "reject", "clean")
                  /\ \/ NoFault /\ tosign' = NoPdf
                     \/ Fault /\ UNCHANGED tosign
                  /\ Goto(c, "reject")
                  /\ UNCHANGED <<document, embedded, official>>
Reject(c) == /\ At(c, "reject", "reject")
             /\ IF draft.st \in {"draft", "sent_to_sign"} /\ official.st # "CONFIRMED"
                THEN /\ draft' = [draft EXCEPT !.st = "rejected", !.sent_at = FALSE]
                     /\ official' = NoOfficial
                ELSE UNCHANGED <<draft, official>>
             /\ End(c)
             /\ NoFault
             /\ UNCHANGED <<type, embedded, tosign>>

\* delete_document looks at the status once; the PDF and the files go before
\* the row is marked.
DeleteCheck(c) == /\ May(c, "delete") /\ Editable /\ ~draft.deleted
                  /\ Begin(c, "delete", "clean")
                  /\ NoFault
                  /\ UNCHANGED <<document, embedded, tosign, official>>
DeleteClean(c) == /\ At(c, "delete", "clean")
                  /\ \/ NoFault /\ tosign' = NoPdf
                     \/ Fault /\ UNCHANGED tosign
                  /\ Goto(c, "purge")
                  /\ UNCHANGED <<document, embedded, official>>
\* purge_document_embedded_files: the objects of the rows it read, then every row.
DeletePurge(c) == /\ At(c, "delete", "purge")
                  /\ \/ NoFault /\ rows' = {} /\ objects' = objects \ rows
                     \/ Fault /\ UNCHANGED embedded
                  /\ Goto(c, "delete")
                  /\ UNCHANGED <<document, tosign, official>>
Delete(c) == /\ At(c, "delete", "delete")
             /\ draft' = [draft EXCEPT !.deleted = TRUE]
             /\ End(c)
             /\ NoFault
             /\ UNCHANGED <<type, embedded, tosign, official>>

\* The numerator asks for sent_to_sign and no more; the reservation copies the content.
SignReserve(c) == /\ May(c, "sign") /\ draft.st = "sent_to_sign" /\ official.st = "none"
                  /\ official' = [NoOfficial EXCEPT !.st = "RESERVED", !.by = c,
                                                    !.content = draft.content]
                  /\ Begin(c, "sign", "pdf")
                  /\ NoFault
                  /\ UNCHANGED <<document, embedded, tosign>>
Reserved(c) == official.st = "RESERVED" /\ official.by = c
SignPdf(c) == /\ At(c, "sign", "pdf")
              /\ IF tosign # NoPdf
                 THEN /\ call' = [call EXCEPT ![c].at = "mark", ![c].pdf = tosign]
                      /\ UNCHANGED official
                 ELSE /\ official' = IF Reserved(c) THEN NoOfficial ELSE official
                      /\ End(c)
              /\ NoFault
              /\ UNCHANGED <<document, embedded, tosign>>
\* The number is issued, and the draft marked if it is still sent_to_sign.
SignMark(c) == /\ At(c, "sign", "mark")
               /\ official' = IF Reserved(c)
                              THEN [official EXCEPT !.st = "CONFIRMED", !.pdf = call[c].pdf]
                              ELSE official
               /\ IF Reserved(c) /\ draft.st = "sent_to_sign"
                  THEN /\ draft' = [draft EXCEPT !.st = "signed"]
                       /\ tosign' = NoPdf
                       /\ Goto(c, "promote")
                  ELSE End(c) /\ UNCHANGED <<draft, tosign>>
               /\ NoFault
               /\ UNCHANGED <<type, embedded>>
\* promote_embedded_files_to_official
SignPromote(c) == /\ At(c, "sign", "promote")
                  /\ official' = [official EXCEPT !.files = rows]
                  /\ rows' = {} /\ objects' = objects \ rows
                  /\ End(c)
                  /\ NoFault
                  /\ UNCHANGED <<document, tosign>>

EndStep(c) == \/ RejectClean(c) \/ Reject(c)
              \/ DeleteClean(c) \/ DeletePurge(c) \/ Delete(c)
              \/ SignPdf(c) \/ SignMark(c) \/ SignPromote(c)
=============================================================================
