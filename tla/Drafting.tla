------------------------------- MODULE Drafting ------------------------------
(***************************************************************************)
(* The document, its editors, its starts, its rejections, deletions and    *)
(* signatures together.                                                    *)
(***************************************************************************)
EXTENDS DraftCalls

\* An error that nobody handles, or the death of the process: the call is over,
\* what it did stays.
Dies(c) == /\ call[c] # Idle
           /\ End(c)
           /\ Fault
           /\ UNCHANGED <<document, embedded, tosign, official>>

Arrive(c) == \/ Create(c) \/ ImportPut(c) \/ StartRead(c) \/ SaveCheck(c) \/ UploadRow(c)
             \/ RemoveRow(c) \/ ReplaceCheck(c) \/ RejectCheck(c) \/ DeleteCheck(c)
             \/ SignReserve(c)
Step(c) == ImportInsert(c) \/ StartStep(c) \/ EditStep(c) \/ EndStep(c)

\* Another call was under way with a start, other than one on the embedded files.
Disturbing == {"save", "replace", "reject", "delete", "sign"}
Met == \E c, d \in Calls : call[c].op = "start" /\ call[d].op \in Disturbing
\* A start, a rejection or a signature that dies leaves the document as it is.
Left(c) == call[c].op \in {"start", "reject", "sign"}

\* The history that the properties refer to.
Remember(new) == marks' = marks \union new \union (IF Met' THEN {"met"} ELSE {})

Act(c) == (Arrive(c) \/ Step(c) \/ StartFails(c)) /\ Remember({})
Next == \E c \in Calls : \/ Act(c)
                         \/ Dies(c) /\ Remember(IF Left(c) THEN {"left"} ELSE {})

Spec == Init /\ [][Next]_vars
\* A call that was made goes on; nobody has to make one.
Fairness == \A c \in Calls : WF_vars(Step(c) /\ Remember({}))
FairSpec == Spec /\ Fairness

-----------------------------------------------------------------------------
Agrees(pdf, content, files) ==
  /\ content # NoContent => pdf.content = content
  /\ pdf.files = files
  /\ type = "NOTA" => pdf.to

\* While no save, replacement, rejection, deletion or signature is under way
\* together with a start, and none of those dies, a document that was sent has
\* its PDF, with the content, the recipients and the files of the draft:
\* whatever is uploaded and removed at the same time, and however often a start
\* failed and was made again.
SentHasItsPdf ==
  (/\ draft.st = "sent_to_sign" /\ draft.sent_at /\ marks = {}
   /\ \A c \in Calls : call[c].op # "reject")
  => /\ tosign # NoPdf
     /\ Agrees(tosign, draft.content, rows)

\* Under the same condition, what is kept of an official document is what was signed.
SignedAsWritten ==
  (/\ official.st = "CONFIRMED" /\ marks = {}
   /\ \A c \in Calls : ~At(c, "sign", "promote"))
  => Agrees(official.pdf, official.content, official.files)

\* A document that a start has taken is given back or sent, whoever rejects,
\* saves or starts it meanwhile, unless a call dies.
StartsEnd == [](draft.st = "sent_to_sign" /\ ~draft.sent_at
                => <>(draft.st # "sent_to_sign" \/ draft.sent_at \/ "left" \in marks))
=============================================================================
