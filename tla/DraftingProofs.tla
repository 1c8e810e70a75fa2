---------------------------- MODULE DraftingProofs ---------------------------
(***************************************************************************)
(* What is proved of Drafting for any calls, each of which may be made of  *)
(* any services again and again, whatever fails: its types, and, for types *)
(* of document that are not both imported and given files, that what is    *)
(* sent and what is signed is what was written.  The properties speak of   *)
(* behaviours in which no call has met a start and none was left half-way  *)
(* (marks = {}); Good says what holds of them in every state.              *)
(***************************************************************************)
EXTENDS Drafting, TLAPS

-----------------------------------------------------------------------------
(* Types *)

\* Only a start that has read a content gets to the store.
StoreOK == \A c \in Calls : At(c, "start", "store") => call[c].content # NoContent

\* The history has its type.
LEMMA MarksTyped ==
  ASSUME TypeOK, NEW new \in SUBSET {"left"}, Remember(new)
  PROVE  marks' \subseteq {"met", "left"}
BY DEF TypeOK, Remember

\* A signature remembers the PDF it signs.
LEMMA MarkTyped ==
  ASSUME NEW m \in Memory, NEW pdf \in Pdfs \union {NoPdf}
  PROVE  [m EXCEPT !.at = "mark", !.pdf = pdf] \in Memory
BY DEF Memory, Steps

\* A call that goes on, not to the store, and one that ends.
LEMMA GotoTyped ==
  ASSUME TypeOK, StoreOK, NEW c \in Calls, NEW at \in Steps, at # "store", Goto(c, at)
  PROVE  call' \in [Calls -> Memory] /\ StoreOK'
<1>1. call' \in [Calls -> Memory]
  BY DEF TypeOK, Goto, Memory
<1>2. StoreOK'
  BY DEF TypeOK, Goto, Memory, StoreOK, At
<1> QED BY <1>1, <1>2

LEMMA EndTyped ==
  ASSUME TypeOK, StoreOK, NEW c \in Calls, End(c)
  PROVE  call' \in [Calls -> Memory] /\ StoreOK'
<1>1. Idle \in Memory
  BY DEF Idle, Memory, Services, Steps, EDITABLE_DOCUMENT_STATES
<1>2. call' \in [Calls -> Memory]
  BY <1>1 DEF TypeOK, End
<1>3. StoreOK'
  BY DEF TypeOK, End, Idle, StoreOK, At
<1> QED BY <1>2, <1>3

\* The types after a call was made ...
LEMMA ArriveTyped ==
  ASSUME TypeOK, StoreOK, NEW c \in Calls, Arrive(c), marks' \subseteq {"met", "left"}
  PROVE  TypeOK' /\ StoreOK'
<1> USE DraftAssumption DEF TypeOK, Draft, Official, Memory, Services, Steps, StoreOK, At, May,
     Begin, NoFault, Status, EDITABLE_DOCUMENT_STATES, document, embedded, Idle
<1>1. CASE Create(c)
  <2>1. PICK to : /\ to \in IF type = "NOTA" THEN BOOLEAN ELSE {FALSE}
                  /\ draft' = [draft EXCEPT !.st = "draft", !.to = to]
    BY <1>1 DEF Create
  <2>2. to \in BOOLEAN
    BY <2>1
  <2>3. draft' \in Draft
    BY <2>1, <2>2
  <2> QED BY <1>1, <2>3 DEF Create
<1>2. CASE ImportPut(c)
  BY <1>2 DEF ImportPut, Pdf, Pdfs
<1>3. CASE StartRead(c)
  BY <1>3 DEF StartRead, Editable
<1>4. CASE SaveCheck(c)
  BY <1>4 DEF SaveCheck
<1>5. CASE UploadRow(c)
  BY <1>5 DEF UploadRow, NewFiles
<1>6. CASE RemoveRow(c)
  BY <1>6 DEF RemoveRow
<1>7. CASE ReplaceCheck(c)
  BY <1>7 DEF ReplaceCheck
<1>8. CASE RejectCheck(c)
  BY <1>8 DEF RejectCheck
<1>9. CASE DeleteCheck(c)
  BY <1>9 DEF DeleteCheck
<1>10. CASE SignReserve(c)
  BY <1>10 DEF SignReserve, NoOfficial
<1> QED BY <1>1, <1>2, <1>3, <1>4, <1>5, <1>6, <1>7, <1>8, <1>9, <1>10 DEF Arrive

\* ... and after it went on, failed or died.
LEMMA StepTyped ==
  ASSUME TypeOK, StoreOK, NEW c \in Calls,
         Step(c) \/ StartFails(c) \/ Dies(c), marks' \subseteq {"met", "left"}
  PROVE  TypeOK' /\ StoreOK'
<1> USE DraftAssumption DEF TypeOK, Draft, Official, Memory, Services, Steps, StoreOK, At, Goto,
     End, NoFault, Fault, Status, EDITABLE_DOCUMENT_STATES, document, embedded, Idle
<1>1. CASE ImportInsert(c)
  BY <1>1 DEF ImportInsert
<1>2. CASE StartTake(c)
  <2>1. draft' \in Draft
    BY <1>2 DEF StartTake
  <2>2. call' \in [Calls -> Memory] /\ StoreOK'
    BY <1>2, GotoTyped, EndTyped DEF StartTake
  <2> QED BY <1>2, <2>1, <2>2 DEF StartTake
<1>3. CASE StartCollect(c)
  BY <1>3 DEF StartCollect
<1>4. CASE StartCompose(c)
  BY <1>4 DEF StartCompose
<1>5. CASE StartStore(c)
  BY <1>5 DEF StartStore, Pdf, Pdfs
<1>6. CASE StartCheck(c)
  BY <1>6 DEF StartCheck
<1>7. CASE StartFinish(c)
  BY <1>7 DEF StartFinish
<1>8. CASE StartRollback(c)
  BY <1>8 DEF StartRollback
<1>9. CASE SaveCommit(c)
  <2>1. PICK v \in Versions \union {draft.content},
             to \in IF type = "NOTA" THEN BOOLEAN ELSE {draft.to} :
          draft' = [draft EXCEPT !.content = v, !.to = to]
    BY <1>9 DEF SaveCommit
  <2>2. to \in BOOLEAN
    BY <2>1
  <2>3. draft' \in Draft
    BY <2>1, <2>2
  <2> QED BY <1>9, <2>3 DEF SaveCommit
<1>10. CASE UploadPut(c)
  <2>1. objects' \subseteq Files
    BY <1>10 DEF UploadPut
  <2>2. call' \in [Calls -> Memory] /\ StoreOK'
    BY <1>10, GotoTyped, EndTyped DEF UploadPut
  <2>3. faults' \in 0 .. MaxFaults
    BY <1>10 DEF UploadPut
  <2> QED BY <1>10, <2>1, <2>2, <2>3 DEF UploadPut
<1>11. CASE UploadUndo(c)
  BY <1>11 DEF UploadUndo
<1>12. CASE RemoveObject(c)
  BY <1>12 DEF RemoveObject
<1>13. CASE ReplaceClean(c)
  <2>1. call' \in [Calls -> Memory] /\ StoreOK'
    BY <1>13, GotoTyped, EndTyped DEF ReplaceClean
  <2>2. faults' \in 0 .. MaxFaults
    BY <1>13 DEF ReplaceClean
  <2> QED BY <1>13, <2>1, <2>2 DEF ReplaceClean
<1>14. CASE ReplacePut(c)
  <2>1. tosign' \in Pdfs \union {NoPdf}
    <3>1. tosign' = tosign \/ \E v \in Versions : tosign' = Pdf(v, {}, FALSE)
      BY <1>14 DEF ReplacePut
    <3>2. ASSUME NEW v \in Versions, tosign' = Pdf(v, {}, FALSE)
          PROVE  tosign' \in Pdfs
      BY <3>2 DEF Pdf, Pdfs
    <3>3. CASE tosign' = tosign
      BY <3>3
    <3> QED BY <3>1, <3>2, <3>3
  <2>2. call' \in [Calls -> Memory] /\ StoreOK'
    BY <1>14, EndTyped DEF ReplacePut
  <2>3. faults' \in 0 .. MaxFaults
    <3>1. UNCHANGED faults \/ (faults < MaxFaults /\ faults' = faults + 1)
      BY <1>14, Zenon DEF ReplacePut
    <3> QED BY <3>1
  <2> QED BY <1>14, <2>1, <2>2, <2>3 DEF ReplacePut
<1>15. CASE RejectClean(c)
  BY <1>15 DEF RejectClean
<1>16. CASE Reject(c)
  <2>1. draft' \in Draft
    <3>1. [draft EXCEPT !.st = "rejected", !.sent_at = FALSE] \in Draft
      OBVIOUS
    <3> QED BY <1>16, <3>1 DEF Reject
  <2>2. official' \in Official
    BY <1>16 DEF Reject, NoOfficial
  <2> QED BY <1>16, <2>1, <2>2 DEF Reject
<1>17. CASE DeleteClean(c)
  BY <1>17 DEF DeleteClean
<1>18. CASE DeletePurge(c)
  BY <1>18 DEF DeletePurge
<1>19. CASE Delete(c)
  BY <1>19 DEF Delete
<1>20. CASE SignPdf(c)
  <2>1. official' \in Official
    BY <1>20 DEF SignPdf, NoOfficial
  <2>2. call' \in [Calls -> Memory] /\ StoreOK'
    <3>1. CASE tosign # NoPdf
      <4>1. call' = [call EXCEPT ![c].at = "mark", ![c].pdf = tosign]
        BY <1>20, <3>1 DEF SignPdf
      <4>2. [call[c] EXCEPT !.at = "mark", !.pdf = tosign] \in Memory
        BY MarkTyped
      <4>3. call' = [call EXCEPT ![c] = [call[c] EXCEPT !.at = "mark", !.pdf = tosign]]
        BY <4>1
      <4>4. call' \in [Calls -> Memory]
        BY <4>2, <4>3
      <4> QED BY <4>1, <4>4
    <3>2. CASE tosign = NoPdf
      BY <1>20, <3>2, EndTyped DEF SignPdf
    <3> QED BY <3>1, <3>2
  <2> QED BY <1>20, <2>1, <2>2 DEF SignPdf
<1>21. CASE SignMark(c)
  <2>1. official' \in Official
    BY <1>21 DEF SignMark
  <2>2. call' \in [Calls -> Memory] /\ StoreOK'
    BY <1>21, GotoTyped, EndTyped DEF SignMark
  <2>3. draft' \in Draft
    BY <1>21 DEF SignMark
  <2> QED BY <1>21, <2>1, <2>2, <2>3 DEF SignMark
<1>22. CASE SignPromote(c)
  BY <1>22 DEF SignPromote
<1>23. CASE StartFails(c)
  BY <1>23 DEF StartFails
<1>24. CASE Dies(c)
  BY <1>24 DEF Dies
<1> QED BY <1>1, <1>2, <1>3, <1>4, <1>5, <1>6, <1>7, <1>8, <1>9, <1>10, <1>11, <1>12, <1>13,
           <1>14, <1>15, <1>16, <1>17, <1>18, <1>19, <1>20, <1>21, <1>22, <1>23, <1>24
        DEF Step, StartStep, EditStep, EndStep

-----------------------------------------------------------------------------
(* As long as nothing has met a start and no call was left half-way *)

\* The service a call is one of; a start that has taken the document.
Op(c, op) == call[c].op = op
Taken(c) == Op(c, "start") /\ call[c].at # "take"

\* No file of an upload that is under way is among the rows.
Sealed == \A c \in Calls : Op(c, "upload") => call[c].files \cap rows = {}

\* What holds of each call, as long as nothing has met a start and none was left.
StartOK(c) == Op(c, "start") =>
  /\ call[c].content = draft.content
  /\ type = "Importado" => call[c].files = {}
  /\ Taken(c) => draft.st = "sent_to_sign" /\ ~draft.sent_at
  /\ call[c].at \in {"compose", "store", "check", "finish"} =>
       Sealed /\ call[c].files = rows /\ (type = "NOTA" => draft.to)
  /\ call[c].at = "store" => call[c].to = draft.to
  /\ call[c].at \in {"check", "finish"} =>
       tosign # NoPdf /\ Agrees(tosign, draft.content, rows)
EditOK(c) == /\ call[c].op \in {"save", "replace", "delete"} => Editable
             /\ Op(c, "replace") => type = "Importado"
ImportOK(c) == Op(c, "import") => draft.st = "none" /\ type = "Importado"
UploadOK(c) == Op(c, "upload") => call[c].files \cap objects = {}
SignOK(c) ==
  /\ At(c, "sign", "mark") /\ Reserved(c) => Agrees(call[c].pdf, draft.content, rows)
  /\ At(c, "sign", "promote") =>
       /\ official.st = "CONFIRMED" /\ official.by = c /\ Sealed
       /\ Agrees(official.pdf, official.content, rows)
CallOK(c) == StartOK(c) /\ EditOK(c) /\ ImportOK(c) /\ UploadOK(c) /\ SignOK(c)

\* Two calls.
Apart(c, d) == c # d =>
  /\ ~(Taken(c) /\ Taken(d))
  /\ ~(Op(c, "start") /\ call[d].op \in Disturbing)
  /\ ~(Op(c, "import") /\ Op(d, "import"))
  /\ Op(c, "upload") /\ Op(d, "upload") => call[c].files \cap call[d].files = {}

Kept ==
  /\ draft.st \in {"none"} \union EDITABLE_DOCUMENT_STATES => ~draft.sent_at
  /\ draft.st = "sent_to_sign" => draft.sent_at \/ \E c \in Calls : Taken(c)
  /\ type = "Importado" => rows = {} /\ (tosign # NoPdf => tosign.files = {})
  /\ type # "Importado" /\ tosign # NoPdf => draft.content # NoContent
Sent == draft.st = "sent_to_sign" /\ draft.sent_at =>
  /\ Sealed
  /\ tosign # NoPdf => Agrees(tosign, draft.content, rows)
  /\ (\A c \in Calls : ~Op(c, "reject")) => tosign # NoPdf
Issuing ==
  /\ official.st = "RESERVED" =>
       /\ draft.st = "sent_to_sign" /\ draft.sent_at
       /\ official.content = draft.content
  /\ official.st = "CONFIRMED" =>
       /\ draft.st = "signed"
       /\ (\A c \in Calls : ~At(c, "sign", "promote"))
            => Agrees(official.pdf, official.content, official.files)

Good ==
  /\ \A c \in Calls : CallOK(c)
  /\ \A c, d \in Calls : Apart(c, d)
  /\ Kept /\ Sent /\ Issuing

Setting == TypeOK /\ TypeOK' /\ Good /\ StoreOK /\ ~Met'

USE DraftAssumption, NoPdfAssumption
    DEF Setting, StoreOK, TypeOK, Draft, Official, Memory, Good, CallOK, StartOK, EditOK, ImportOK,
        UploadOK, SignOK, Apart, Kept, Sent, Issuing, Op, Taken, Sealed, At, May, Begin, Goto, End,
        Idle, Fault, NoFault, document, embedded, Editable, EDITABLE_DOCUMENT_STATES, Agrees,
        Reserved

\* A call that disturbs is alone with the document as far as starts go.
LEMMA NoStart ==
  ASSUME NEW c \in Calls, Good, call[c].op \in Disturbing
  PROVE  \A d \in Calls : ~Op(d, "start")
BY DEF Disturbing

\* Creation: nobody can work on a document that does not exist.
LEMMA CreationKeeps ==
  ASSUME NEW c \in Calls, Setting, "Importado" \notin Accepting
  PROVE  /\ Create(c) => Good'
         /\ ImportPut(c) => Good'
         /\ ImportInsert(c) => Good'
<1>1. ASSUME Create(c) PROVE Good'
  <2>1. \A d \in Calls : StartOK(d)'
    BY <1>1 DEF Create
  <2>2. \A d \in Calls : EditOK(d)' /\ ImportOK(d)' /\ UploadOK(d)' /\ SignOK(d)'
    <3>1. \A d \in Calls : EditOK(d)' /\ ImportOK(d)'
      BY <1>1 DEF Create, Met, Disturbing
    <3>2. \A d \in Calls : UploadOK(d)' /\ SignOK(d)'
      BY <1>1 DEF Create
    <3> QED BY <3>1, <3>2
  <2>3. \A d, e \in Calls : Apart(d, e)'
    BY <1>1 DEF Create, Met, Disturbing
  <2>4. Kept' /\ Sent' /\ Issuing'
    BY <1>1 DEF Create
  <2> QED BY <2>1, <2>2, <2>3, <2>4
<1>2. ASSUME ImportPut(c) PROVE Good'
  BY <1>2 DEF ImportPut, Pdf, Met, Disturbing
<1>3. ASSUME ImportInsert(c) PROVE Good'
  BY <1>3 DEF ImportInsert, Met, Disturbing
<1> QED BY <1>1, <1>2, <1>3

\* A start: the document has one at a time, which finds what it read as it was.
LEMMA StartKeeps ==
  ASSUME NEW c \in Calls, Setting, "Importado" \notin Accepting
  PROVE  /\ StartRead(c) => Good'
         /\ StartTake(c) => Good'
         /\ StartCollect(c) => Good'
         /\ StartCompose(c) => Good'
         /\ StartStore(c) => Good'
         /\ StartCheck(c) => Good'
         /\ StartFinish(c) => Good'
         /\ StartRollback(c) => Good'
         /\ StartFails(c) => Good'
<1>1. ASSUME StartRead(c) PROVE Good'
  <2>1. \A d \in Calls : StartOK(d)'
    BY <1>1 DEF StartRead
  <2>2. \A d \in Calls : EditOK(d)' /\ ImportOK(d)' /\ UploadOK(d)' /\ SignOK(d)'
    BY <1>1 DEF StartRead, Met, Disturbing
  <2>3. \A d, e \in Calls : Apart(d, e)'
    BY <1>1 DEF StartRead, Met, Disturbing
  <2>4. Kept' /\ Sent' /\ Issuing'
    BY <1>1 DEF StartRead
  <2> QED BY <2>1, <2>2, <2>3, <2>4
<1>2. ASSUME StartTake(c) PROVE Good'
  <2>1. \A d \in Calls : StartOK(d)'
    <3>1. ASSUME NEW d \in Calls, d # c PROVE StartOK(d)'
      BY <1>2, <3>1 DEF StartTake
    <3>2. StartOK(c)'
      BY <1>2 DEF StartTake
    <3> QED BY <3>1, <3>2
  <2>2. \A d \in Calls : EditOK(d)' /\ ImportOK(d)' /\ UploadOK(d)' /\ SignOK(d)'
    BY <1>2 DEF StartTake, Met, Disturbing
  <2>3. \A d, e \in Calls : Apart(d, e)'
    BY <1>2 DEF StartTake, Met, Disturbing
  <2>4. Kept' /\ Sent' /\ Issuing'
    <3>1. Kept'
      BY <1>2 DEF StartTake
    <3>2. Sent'
      BY <1>2 DEF StartTake
    <3>3. Issuing'
      BY <1>2 DEF StartTake
    <3> QED BY <3>1, <3>2, <3>3
  <2> QED BY <2>1, <2>2, <2>3, <2>4
<1>3. ASSUME StartCollect(c) PROVE Good'
  <2>1. \A d \in Calls : StartOK(d)'
    <3>1. ASSUME NEW d \in Calls, d # c PROVE StartOK(d)'
      BY <1>3, <3>1 DEF StartCollect, Complete
    <3>2. StartOK(c)'
      BY <1>3 DEF StartCollect, Complete
    <3> QED BY <3>1, <3>2
  <2>2. \A d \in Calls : EditOK(d)' /\ ImportOK(d)' /\ UploadOK(d)' /\ SignOK(d)'
    BY <1>3 DEF StartCollect, Complete, Met, Disturbing
  <2>3. \A d, e \in Calls : Apart(d, e)'
    BY <1>3 DEF StartCollect, Complete, Met, Disturbing
  <2>4. Kept' /\ Sent' /\ Issuing'
    BY <1>3 DEF StartCollect, Complete
  <2> QED BY <2>1, <2>2, <2>3, <2>4
<1>4. ASSUME StartCompose(c) PROVE Good'
  <2>1. \A d \in Calls : StartOK(d)'
    <3>1. ASSUME NEW d \in Calls, d # c PROVE StartOK(d)'
      BY <1>4, <3>1 DEF StartCompose
    <3>2. CASE call[c].content = NoContent /\ tosign # NoPdf
      <4>1. type = "Importado" /\ rows = {} /\ tosign.files = {}
        BY <1>4, <3>2 DEF StartCompose
      <4>2. Agrees(tosign, draft.content, rows)
        BY <1>4, <3>2, <4>1 DEF StartCompose
      <4>3. StartOK(c)'
        BY <1>4, <3>2, <4>2 DEF StartCompose
      <4> QED BY <3>1, <4>3
    <3>3. CASE call[c].content = NoContent /\ tosign = NoPdf
      <4>1. StartOK(c)'
        BY <1>4, <3>3 DEF StartCompose
      <4> QED BY <3>1, <4>1
    <3>4. CASE call[c].content # NoContent
      <4>1. StartOK(c)'
        BY <1>4, <3>4 DEF StartCompose
      <4> QED BY <3>1, <4>1
    <3> QED BY <3>2, <3>3, <3>4
  <2>2. \A d \in Calls : EditOK(d)' /\ ImportOK(d)' /\ UploadOK(d)' /\ SignOK(d)'
    BY <1>4 DEF StartCompose, Met, Disturbing
  <2>3. \A d, e \in Calls : Apart(d, e)'
    BY <1>4 DEF StartCompose, Met, Disturbing
  <2>4. Kept' /\ Sent' /\ Issuing'
    BY <1>4 DEF StartCompose
  <2> QED BY <2>1, <2>2, <2>3, <2>4
<1>5. ASSUME StartStore(c) PROVE Good'
  <2>1. \A d \in Calls : StartOK(d)'
    <3>1. ASSUME NEW d \in Calls, d # c PROVE StartOK(d)'
      BY <1>5, <3>1 DEF StartStore
    <3>2. draft.content # NoContent /\ Agrees(tosign', draft.content, rows)
      BY <1>5 DEF StartStore, Pdf
    <3>3. tosign' # NoPdf
      <4>1. call[c].content \in Versions
        BY <1>5 DEF StartStore
      <4>2. tosign' \in Pdfs
        BY <1>5, <4>1 DEF StartStore, Pdf, Pdfs
      <4> QED BY <4>2
    <3>4. StartOK(c)'
      BY <1>5, <3>2, <3>3 DEF StartStore
    <3> QED BY <3>1, <3>4
  <2>2. \A d \in Calls : EditOK(d)' /\ ImportOK(d)' /\ UploadOK(d)' /\ SignOK(d)'
    BY <1>5 DEF StartStore, Pdf, Met, Disturbing
  <2>3. \A d, e \in Calls : Apart(d, e)'
    BY <1>5 DEF StartStore, Pdf, Met, Disturbing
  <2>4. Kept' /\ Sent' /\ Issuing'
    <3>1. Kept'
      BY <1>5 DEF StartStore, Pdf
    <3>2. Sent'
      BY <1>5 DEF StartStore, Pdf
    <3>3. Issuing'
      BY <1>5 DEF StartStore, Pdf
    <3> QED BY <3>1, <3>2, <3>3
  <2> QED BY <2>1, <2>2, <2>3, <2>4
<1>6. ASSUME StartCheck(c) PROVE Good'
  <2>1. \A d \in Calls : StartOK(d)'
    <3>1. ASSUME NEW d \in Calls, d # c PROVE StartOK(d)'
      BY <1>6, <3>1 DEF StartCheck
    <3>2. StartOK(c)'
      BY <1>6 DEF StartCheck
    <3> QED BY <3>1, <3>2
  <2>2. \A d \in Calls : EditOK(d)' /\ ImportOK(d)' /\ UploadOK(d)' /\ SignOK(d)'
    BY <1>6 DEF StartCheck, Met, Disturbing
  <2>3. \A d, e \in Calls : Apart(d, e)'
    BY <1>6 DEF StartCheck, Met, Disturbing
  <2>4. Kept' /\ Sent' /\ Issuing'
    BY <1>6 DEF StartCheck
  <2> QED BY <2>1, <2>2, <2>3, <2>4
<1>7. ASSUME StartFinish(c) PROVE Good'
  BY <1>7 DEF StartFinish, Met, Disturbing
<1>8. ASSUME StartRollback(c) PROVE Good'
  BY <1>8 DEF StartRollback, Met, Disturbing
<1>9. ASSUME StartFails(c) PROVE Good'
  BY <1>9 DEF StartFails, Met, Disturbing
<1> QED BY <1>1, <1>2, <1>3, <1>4, <1>5, <1>6, <1>7, <1>8, <1>9

\* A save or a new PDF meets no start; files come and go only while the document is not
\* sealed.
LEMMA EditKeeps ==
  ASSUME NEW c \in Calls, Setting, "Importado" \notin Accepting
  PROVE  /\ SaveCheck(c) => Good'
         /\ SaveCommit(c) => Good'
         /\ UploadRow(c) => Good'
         /\ UploadPut(c) => Good'
         /\ UploadUndo(c) => Good'
         /\ RemoveRow(c) => Good'
         /\ RemoveObject(c) => Good'
         /\ ReplaceCheck(c) => Good'
         /\ ReplaceClean(c) => Good'
         /\ ReplacePut(c) => Good'
<1>1. ASSUME SaveCheck(c) PROVE Good'
  BY <1>1 DEF SaveCheck, Met, Disturbing
<1>2. ASSUME SaveCommit(c) PROVE Good'
  <2>1. \A d \in Calls : StartOK(d)'
    <3>1. \A d \in Calls : ~Op(d, "start")
      BY <1>2, NoStart DEF SaveCommit, Disturbing
    <3>2. \A d \in Calls : ~Op(d, "start")'
      BY <1>2, <3>1 DEF SaveCommit
    <3> QED BY <3>2
  <2>2. \A d \in Calls : EditOK(d)' /\ ImportOK(d)' /\ UploadOK(d)' /\ SignOK(d)'
    BY <1>2 DEF SaveCommit, Met, Disturbing
  <2>3. \A d, e \in Calls : Apart(d, e)'
    BY <1>2 DEF SaveCommit, Met, Disturbing
  <2>4. Kept' /\ Sent' /\ Issuing'
    BY <1>2 DEF SaveCommit
  <2> QED BY <2>1, <2>2, <2>3, <2>4
<1>3. ASSUME UploadRow(c) PROVE Good'
  BY <1>3 DEF UploadRow, NewFiles, Met, Disturbing
<1>4. ASSUME UploadPut(c) PROVE Good'
  <2>1. \A d \in Calls : StartOK(d)'
    <3>1. CASE End(c)
      BY <1>4, <3>1 DEF UploadPut
    <3>2. CASE Goto(c, "undo")
      BY <1>4, <3>2 DEF UploadPut
    <3> QED BY <1>4, <3>1, <3>2 DEF UploadPut
  <2>2. \A d \in Calls : EditOK(d)' /\ ImportOK(d)' /\ UploadOK(d)' /\ SignOK(d)'
    BY <1>4 DEF UploadPut, Met, Disturbing
  <2>3. \A d, e \in Calls : Apart(d, e)'
    BY <1>4 DEF UploadPut, Met, Disturbing
  <2>4. Kept' /\ Sent' /\ Issuing'
    <3>1. Kept'
      BY <1>4 DEF UploadPut
    <3>2. Sent'
      BY <1>4 DEF UploadPut
    <3>3. Issuing'
      BY <1>4 DEF UploadPut
    <3> QED BY <3>1, <3>2, <3>3
  <2> QED BY <2>1, <2>2, <2>3, <2>4
<1>5. ASSUME UploadUndo(c) PROVE Good'
  BY <1>5 DEF UploadUndo, Met, Disturbing
<1>6. ASSUME RemoveRow(c) PROVE Good'
  BY <1>6 DEF RemoveRow, Met, Disturbing
<1>7. ASSUME RemoveObject(c) PROVE Good'
  BY <1>7 DEF RemoveObject, Met, Disturbing
<1>8. ASSUME ReplaceCheck(c) PROVE Good'
  BY <1>8 DEF ReplaceCheck, Met, Disturbing
<1>9. ASSUME ReplaceClean(c) PROVE Good'
  <2>1. \A d \in Calls : StartOK(d)'
    <3>1. \A d \in Calls : ~Op(d, "start")
      BY <1>9, NoStart DEF ReplaceClean, Disturbing
    <3>2. \A d \in Calls : ~Op(d, "start")'
      BY <1>9, <3>1 DEF ReplaceClean
    <3> QED BY <3>2
  <2>2. \A d \in Calls : EditOK(d)' /\ ImportOK(d)' /\ UploadOK(d)' /\ SignOK(d)'
    BY <1>9 DEF ReplaceClean, Met, Disturbing
  <2>3. \A d, e \in Calls : Apart(d, e)'
    BY <1>9 DEF ReplaceClean, Met, Disturbing
  <2>4. Kept' /\ Sent' /\ Issuing'
    BY <1>9 DEF ReplaceClean
  <2> QED BY <2>1, <2>2, <2>3, <2>4
<1>10. ASSUME ReplacePut(c) PROVE Good'
  <2>1. \A d \in Calls : StartOK(d)'
    BY <1>10 DEF ReplacePut, Pdf
  <2>2. \A d \in Calls : EditOK(d)' /\ ImportOK(d)' /\ UploadOK(d)' /\ SignOK(d)'
    BY <1>10 DEF ReplacePut, Pdf, Met, Disturbing
  <2>3. \A d, e \in Calls : Apart(d, e)'
    BY <1>10 DEF ReplacePut, Pdf, Met, Disturbing
  <2>4. Kept' /\ Sent' /\ Issuing'
    <3>1. Kept'
      BY <1>10 DEF ReplacePut, Pdf
    <3>2. Sent'
      BY <1>10 DEF ReplacePut, Pdf
    <3>3. Issuing'
      BY <1>10 DEF ReplacePut, Pdf
    <3> QED BY <3>1, <3>2, <3>3
  <2> QED BY <2>1, <2>2, <2>3, <2>4
<1> QED BY <1>1, <1>2, <1>3, <1>4, <1>5, <1>6, <1>7, <1>8, <1>9, <1>10

\* A rejection and a deletion meet no start; the number is that of the content sent.
LEMMA EndKeeps ==
  ASSUME NEW c \in Calls, Setting, "Importado" \notin Accepting
  PROVE  /\ RejectCheck(c) => Good'
         /\ RejectClean(c) => Good'
         /\ Reject(c) => Good'
         /\ DeleteCheck(c) => Good'
         /\ DeleteClean(c) => Good'
         /\ DeletePurge(c) => Good'
         /\ Delete(c) => Good'
         /\ SignReserve(c) => Good'
         /\ SignPdf(c) => Good'
         /\ SignMark(c) => Good'
         /\ SignPromote(c) => Good'
<1>1. ASSUME RejectCheck(c) PROVE Good'
  BY <1>1 DEF RejectCheck, Met, Disturbing
<1>2. ASSUME RejectClean(c) PROVE Good'
  <2>1. \A d \in Calls : StartOK(d)'
    <3>1. \A d \in Calls : ~Op(d, "start")
      BY <1>2, NoStart DEF RejectClean, Disturbing
    <3>2. \A d \in Calls : ~Op(d, "start")'
      BY <1>2, <3>1 DEF RejectClean
    <3> QED BY <3>2
  <2>2. \A d \in Calls : EditOK(d)' /\ ImportOK(d)' /\ UploadOK(d)' /\ SignOK(d)'
    BY <1>2 DEF RejectClean, Met, Disturbing
  <2>3. \A d, e \in Calls : Apart(d, e)'
    BY <1>2 DEF RejectClean, Met, Disturbing
  <2>4. Kept' /\ Sent' /\ Issuing'
    BY <1>2 DEF RejectClean
  <2> QED BY <2>1, <2>2, <2>3, <2>4
<1>3. ASSUME Reject(c) PROVE Good'
  <2>1. \A d \in Calls : StartOK(d)'
    <3>1. \A d \in Calls : ~Op(d, "start")
      BY <1>3, NoStart DEF Reject, NoOfficial, Disturbing
    <3>2. \A d \in Calls : ~Op(d, "start")'
      BY <1>3, <3>1 DEF Reject, NoOfficial
    <3> QED BY <3>2
  <2>2. \A d \in Calls : EditOK(d)' /\ ImportOK(d)' /\ UploadOK(d)' /\ SignOK(d)'
    <3>1. CASE draft.st \in {"draft", "sent_to_sign"} /\ official.st # "CONFIRMED"
      <4>1. /\ draft'.st = "rejected" /\ draft'.sent_at = FALSE
            /\ draft'.content = draft.content /\ draft'.to = draft.to
        <5>1. draft' = [draft EXCEPT !.st = "rejected", !.sent_at = FALSE]
          BY <1>3, <3>1, Zenon DEF Reject
        <5>2. draft \in [st : Status, sent_at : BOOLEAN, content : Versions \union {NoContent},
                        to : BOOLEAN, deleted : BOOLEAN]
          OBVIOUS
        <5> QED BY ONLY <5>1, <5>2
      <4>2. \A d \in Calls : EditOK(d)' /\ ImportOK(d)'
        BY <1>3, <3>1, <4>1 DEF Reject
      <4>3. \A d \in Calls : UploadOK(d)'
        BY <1>3, <3>1 DEF Reject
      <4>4. \A d \in Calls : SignOK(d)'
        BY <1>3, <3>1, <4>1 DEF Reject, NoOfficial
      <4> QED BY <4>2, <4>3, <4>4
    <3>2. CASE ~(draft.st \in {"draft", "sent_to_sign"} /\ official.st # "CONFIRMED")
      BY <1>3, <3>2 DEF Reject, Met, Disturbing
    <3> QED BY <3>1, <3>2
  <2>3. \A d, e \in Calls : Apart(d, e)'
    BY <1>3 DEF Reject, NoOfficial, Met, Disturbing
  <2>4. Kept' /\ Sent' /\ Issuing'
    <3>1. CASE draft.st \in {"draft", "sent_to_sign"} /\ official.st # "CONFIRMED"
      <4>1. /\ draft'.st = "rejected" /\ draft'.sent_at = FALSE
            /\ draft'.content = draft.content /\ draft'.to = draft.to
        <5>1. draft' = [draft EXCEPT !.st = "rejected", !.sent_at = FALSE]
          BY <1>3, <3>1, Zenon DEF Reject
        <5>2. draft \in [st : Status, sent_at : BOOLEAN, content : Versions \union {NoContent},
                        to : BOOLEAN, deleted : BOOLEAN]
          OBVIOUS
        <5> QED BY ONLY <5>1, <5>2
      <4> QED BY <1>3, <3>1, <4>1 DEF Reject, NoOfficial
    <3>2. CASE ~(draft.st \in {"draft", "sent_to_sign"} /\ official.st # "CONFIRMED")
      BY <1>3, <3>2 DEF Reject
    <3> QED BY <3>1, <3>2
  <2> QED BY <2>1, <2>2, <2>3, <2>4
<1>4. ASSUME DeleteCheck(c) PROVE Good'
  BY <1>4 DEF DeleteCheck, Met, Disturbing
<1>5. ASSUME DeleteClean(c) PROVE Good'
  BY <1>5 DEF DeleteClean, Met, Disturbing
<1>6. ASSUME DeletePurge(c) PROVE Good'
  BY <1>6 DEF DeletePurge, Met, Disturbing
<1>7. ASSUME Delete(c) PROVE Good'
  BY <1>7 DEF Delete, Met, Disturbing
<1>8. ASSUME SignReserve(c) PROVE Good'
  <2>1. \A d \in Calls : StartOK(d)'
    BY <1>8 DEF SignReserve, NoOfficial
  <2>2. \A d \in Calls : EditOK(d)' /\ ImportOK(d)' /\ UploadOK(d)' /\ SignOK(d)'
    BY <1>8 DEF SignReserve, NoOfficial, Met, Disturbing
  <2>3. \A d, e \in Calls : Apart(d, e)'
    BY <1>8 DEF SignReserve, NoOfficial, Met, Disturbing
  <2>4. Kept' /\ Sent' /\ Issuing'
    BY <1>8 DEF SignReserve, NoOfficial
  <2> QED BY <2>1, <2>2, <2>3, <2>4
<1>9. ASSUME SignPdf(c) PROVE Good'
  <2>1. \A d \in Calls : StartOK(d)'
    <3>1. \A d \in Calls : ~Op(d, "start")
      BY <1>9, NoStart DEF SignPdf, NoOfficial, Disturbing
    <3>2. \A d \in Calls : ~Op(d, "start")'
      BY <1>9, <3>1 DEF SignPdf, NoOfficial
    <3> QED BY <3>2
  <2>2. \A d \in Calls : EditOK(d)' /\ ImportOK(d)' /\ UploadOK(d)' /\ SignOK(d)'
    BY <1>9 DEF SignPdf, NoOfficial, Met, Disturbing
  <2>3. \A d, e \in Calls : Apart(d, e)'
    BY <1>9 DEF SignPdf, NoOfficial, Met, Disturbing
  <2>4. Kept' /\ Sent' /\ Issuing'
    <3>1. CASE tosign # NoPdf
      <4>1. Kept'
        <5>1. \A d \in Calls : ~Taken(d)
          BY <1>9, NoStart DEF SignPdf, Disturbing
        <5> QED BY <1>9, <3>1, <5>1 DEF SignPdf
      <4>2. Sent'
        BY <1>9, <3>1 DEF SignPdf
      <4>3. Issuing'
        BY <1>9, <3>1 DEF SignPdf
      <4> QED BY <4>1, <4>2, <4>3
    <3>2. CASE ~(tosign # NoPdf)
      <4>1. Kept'
        BY <1>9, <3>2 DEF SignPdf, NoOfficial
      <4>2. Sent'
        BY <1>9, <3>2 DEF SignPdf, NoOfficial
      <4>3. Issuing'
        BY <1>9, <3>2 DEF SignPdf, NoOfficial
      <4> QED BY <4>1, <4>2, <4>3
    <3> QED BY <3>1, <3>2
  <2> QED BY <2>1, <2>2, <2>3, <2>4
<1>10. ASSUME SignMark(c) PROVE Good'
  <2>1. \A d \in Calls : StartOK(d)'
    <3>1. \A d \in Calls : ~Op(d, "start")
      BY <1>10, NoStart DEF SignMark, Disturbing
    <3>2. \A d \in Calls : ~Op(d, "start")'
      BY <1>10, <3>1 DEF SignMark
    <3> QED BY <3>2
  <2>2. \A d \in Calls : EditOK(d)' /\ ImportOK(d)' /\ UploadOK(d)' /\ SignOK(d)'
    <3>1. CASE Reserved(c) /\ draft.st = "sent_to_sign"
      <4>1. \A d \in Calls : EditOK(d)' /\ ImportOK(d)'
        BY <1>10, <3>1 DEF SignMark, Met, Disturbing
      <4>2. \A d \in Calls : UploadOK(d)'
        BY <1>10, <3>1 DEF SignMark, Met, Disturbing
      <4>3. \A d \in Calls : SignOK(d)'
        BY <1>10, <3>1 DEF SignMark, Met, Disturbing
      <4> QED BY <4>1, <4>2, <4>3
    <3>2. CASE ~(Reserved(c) /\ draft.st = "sent_to_sign")
      <4>1. \A d \in Calls : EditOK(d)' /\ ImportOK(d)'
        BY <1>10, <3>2 DEF SignMark, Met, Disturbing
      <4>2. \A d \in Calls : UploadOK(d)'
        BY <1>10, <3>2 DEF SignMark, Met, Disturbing
      <4>3. \A d \in Calls : SignOK(d)'
        BY <1>10, <3>2 DEF SignMark, Met, Disturbing
      <4> QED BY <4>1, <4>2, <4>3
    <3> QED BY <3>1, <3>2
  <2>3. \A d, e \in Calls : Apart(d, e)'
    BY <1>10 DEF SignMark, Met, Disturbing
  <2>4. Kept' /\ Sent' /\ Issuing'
    BY <1>10 DEF SignMark
  <2> QED BY <2>1, <2>2, <2>3, <2>4
<1>11. ASSUME SignPromote(c) PROVE Good'
  BY <1>11 DEF SignPromote, Met, Disturbing
<1> QED BY <1>1, <1>2, <1>3, <1>4, <1>5, <1>6, <1>7, <1>8, <1>9, <1>10, <1>11

\* The death of a call that may die unnoticed.
LEMMA DeathKeeps ==
  ASSUME NEW c \in Calls, Setting, "Importado" \notin Accepting, Dies(c), ~Left(c)
  PROVE  Good'
BY DEF Dies, Left, Met, Disturbing

\* There is no document yet.
LEMMA GoodInitially ==
  ASSUME Init
  PROVE  Good
BY DEF Init, NoOfficial, Disturbing

HIDE DEF Setting, StoreOK, TypeOK, Draft, Official, Memory, Good, CallOK, StartOK, EditOK,
         ImportOK, UploadOK, SignOK, Apart, Kept, Sent, Issuing, Op, Taken, Sealed, At, May,
         Begin, Goto, End, Idle, Fault, NoFault, document, embedded, Editable,
         EDITABLE_DOCUMENT_STATES, Agrees, Reserved

-----------------------------------------------------------------------------
(* Theorems *)

\* The types go with StoreOK.
Typed == TypeOK /\ StoreOK

\* The types, at first and after a step.
LEMMA TypeInit ==
  ASSUME Init
  PROVE  Typed
BY DraftAssumption
   DEF Init, Typed, TypeOK, StoreOK, At, Idle, Draft, Official, Memory, NoOfficial, Status, Steps,
       EDITABLE_DOCUMENT_STATES

LEMMA TypeStep ==
  ASSUME Typed, Next
  PROVE  Typed'
<1>1. PICK c \in Calls : \/ Act(c)
                         \/ Dies(c) /\ Remember(IF Left(c) THEN {"left"} ELSE {})
  BY DEF Next
<1>2. marks' \subseteq {"met", "left"}
  BY <1>1 DEF Act, Remember, Typed, TypeOK
<1>3. CASE Arrive(c)
  BY <1>2, <1>3, ArriveTyped DEF Typed
<1>4. CASE Step(c) \/ StartFails(c) \/ Dies(c)
  BY <1>2, <1>4, StepTyped DEF Typed
<1> QED BY <1>1, <1>3, <1>4 DEF Act

\* The row, the files, the PDF and the memory of every call have their types, whatever the
\* calls are and however they meet.
THEOREM TypeCorrect == Spec => []TypeOK
<1>1. Init => Typed
  BY TypeInit
<1>2. Typed /\ [Next]_vars => Typed'
  <2>1. ASSUME Typed, UNCHANGED vars PROVE Typed'
    BY <2>1 DEF Typed, TypeOK, StoreOK, At, vars
  <2> QED BY <2>1, TypeStep
<1>3. Typed => TypeOK
  BY DEF Typed
<1> QED BY <1>1, <1>2, <1>3, PTL DEF Spec

DInv == Typed /\ (marks = {} => Good)

\* A step after which the history is still empty keeps what is good.
LEMMA GoodStep ==
  ASSUME DInv, Next, "Importado" \notin Accepting, marks' = {}
  PROVE  Good'
<1>1. PICK c \in Calls : \/ Act(c)
                         \/ Dies(c) /\ Remember(IF Left(c) THEN {"left"} ELSE {})
  BY DEF Next
<1>2. marks = {} /\ ~Met' /\ (Dies(c) /\ ~Act(c) => ~Left(c))
  BY <1>1 DEF Act, Remember
<1>3. Setting
  BY <1>2, TypeStep DEF DInv, Typed, Setting
<1>4. CASE Act(c)
  BY <1>3, <1>4, CreationKeeps, StartKeeps, EditKeeps, EndKeeps
     DEF Act, Arrive, Step, StartStep, EditStep, EndStep
<1>5. CASE Dies(c) /\ ~Act(c)
  BY <1>2, <1>3, <1>5, DeathKeeps
<1> QED BY <1>1, <1>4, <1>5

\* As long as no call has met a start and none was left half-way, the document is what the
\* calls at work on it rely on.
THEOREM Invariance ==
  ASSUME "Importado" \notin Accepting
  PROVE  Spec => []DInv
<1>1. Init => DInv
  BY TypeInit, GoodInitially DEF DInv
<1>2. DInv /\ [Next]_vars => DInv'
  <2>1. ASSUME DInv, Next PROVE DInv'
    BY <2>1, TypeStep, GoodStep DEF DInv
  <2>2. ASSUME DInv, UNCHANGED vars PROVE DInv'
    BY <2>2 DEF DInv, Typed, Good, TypeOK, StoreOK, CallOK, StartOK, EditOK, ImportOK, UploadOK,
                SignOK, Apart, Kept, Sent, Issuing, Op, Taken, Sealed, At, Editable, Agrees,
                Reserved, vars
  <2> QED BY <2>1, <2>2
<1> QED BY <1>1, <1>2, PTL DEF Spec

\* A document that was sent has its PDF, with the content, the recipients and the files of the
\* draft, although files come and go and starts fail and are made again, and whoever else
\* asks to start it: the conditional UPDATE lets one through, and from then on nobody edits.
THEOREM SentAsWritten ==
  ASSUME "Importado" \notin Accepting
  PROVE  Spec => []SentHasItsPdf
<1>1. DInv => SentHasItsPdf
  BY DEF DInv, Good, Sent, Op, SentHasItsPdf
<1> QED BY Invariance, <1>1, PTL

\* What is kept of an official document is what its signers had before them: the number
\* copies the content, the files are those of the PDF.
THEOREM SignedWhatWasWritten ==
  ASSUME "Importado" \notin Accepting
  PROVE  Spec => []SignedAsWritten
<1>1. DInv => SignedAsWritten
  BY DEF DInv, Good, Issuing, SignedAsWritten
<1> QED BY Invariance, <1>1, PTL
=============================================================================
