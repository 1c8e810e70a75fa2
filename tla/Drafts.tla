-------------------------------- MODULE Drafts -------------------------------
(***************************************************************************)
(* One document before it is official: its row in document_draft, the      *)
(* files to embed (rows, and objects under editing/), the PDF to sign in   *)
(* tosign/ and what is kept of it once it is numbered.  A call is one call *)
(* of a service of services/documents; it may be made again when it has    *)
(* ended.  Nothing but the tests of each service keeps two calls apart.    *)
(***************************************************************************)
EXTENDS Naturals

CONSTANTS Calls,
          Does,         \* the services each call may be made of
          Types,        \* document_types.type of the document
          Accepting,    \* the types with accepts_embedded_files
          Versions,     \* what can be written in it
          NoContent,    \* content IS NULL: nothing written, or imported
          Files, NoPdf, NoCall,
          MaxFaults     \* bound: calls that fail or die

Services == {"create", "import", "start", "save", "upload", "remove", "replace",
             "reject", "delete", "sign"}

ASSUME DraftAssumption ==
  /\ Does \in [Calls -> SUBSET Services]
  /\ Types \subseteq {"HTML", "NOTA", "Importado"} /\ Accepting \subseteq Types \ {"NOTA"}
  /\ NoContent \notin Versions /\ NoCall \notin Calls
  /\ MaxFaults \in Nat

VARIABLES type,
          draft,      \* status, sent_to_sign_at IS NOT NULL, content, recipients, is_deleted
          rows,       \* document_draft_embedded_files
          objects,    \* their objects
          tosign,     \* the PDF to sign
          official,   \* official_documents and its list of embedded files
          call,       \* the memory of each call
          marks,      \* what has happened to starts: met by others, left half-way
          faults

document == <<type, draft>>
embedded == <<rows, objects>>
vars == <<type, draft, rows, objects, tosign, official, call, marks, faults>>

Status == {"none", "draft", "rejected", "sent_to_sign", "signed"}
EDITABLE_DOCUMENT_STATES == {"draft", "rejected"}

Pdf(content, files, to) == [content |-> content, files |-> files, to |-> to]
Pdfs == [content : Versions, files : SUBSET Files, to : BOOLEAN]
ASSUME NoPdfAssumption == NoPdf \notin Pdfs
NoOfficial == [st |-> "none", by |-> NoCall, content |-> NoContent, pdf |-> NoPdf, files |-> {}]

Steps == {"idle", "insert", "take", "collect", "compose", "store", "check", "finish", "rollback",
          "commit", "put", "undo", "object", "clean", "purge", "reject", "delete", "pdf", "mark",
          "promote"}
Idle == [op |-> "none", at |-> "idle", content |-> NoContent, files |-> {}, to |-> FALSE,
         original |-> "draft", pdf |-> NoPdf]

Draft == [st : Status, sent_at : BOOLEAN, content : Versions \union {NoContent},
          to : BOOLEAN, deleted : BOOLEAN]
Official == [st : {"none", "RESERVED", "CONFIRMED"}, by : Calls \union {NoCall},
             content : Versions \union {NoContent}, pdf : Pdfs \union {NoPdf},
             files : SUBSET Files]
Memory == [op : Services \union {"none"}, at : Steps, content : Versions \union {NoContent},
           files : SUBSET Files, to : BOOLEAN, original : EDITABLE_DOCUMENT_STATES,
           pdf : Pdfs \union {NoPdf}]

TypeOK ==
  /\ type \in Types
  /\ draft \in Draft
  /\ rows \subseteq Files /\ objects \subseteq Files
  /\ tosign \in Pdfs \union {NoPdf}
  /\ official \in Official
  /\ call \in [Calls -> Memory]
  /\ marks \subseteq {"met", "left"}
  /\ faults \in 0..MaxFaults

Init == /\ type \in Types
        /\ draft = [st |-> "none", sent_at |-> FALSE, content |-> NoContent, to |-> FALSE,
                    deleted |-> FALSE]
        /\ rows = {} /\ objects = {} /\ tosign = NoPdf /\ official = NoOfficial
        /\ call = [c \in Calls |-> Idle]
        /\ marks = {} /\ faults = 0

May(c, op) == call[c] = Idle /\ op \in Does[c]
At(c, op, at) == call[c].op = op /\ call[c].at = at
Begin(c, op, at) == call' = [call EXCEPT ![c].op = op, ![c].at = at]
Goto(c, at) == call' = [call EXCEPT ![c].at = at]
End(c) == call' = [call EXCEPT ![c] = Idle]

Fault == faults < MaxFaults /\ faults' = faults + 1
NoFault == UNCHANGED faults
Editable == draft.st \in EDITABLE_DOCUMENT_STATES

-----------------------------------------------------------------------------
(* Creation *)

\* create_document: one transaction; a NOTA may come with its recipients.
Create(c) == /\ May(c, "create") /\ draft.st = "none" /\ type # "Importado"
             /\ \E to \in IF type = "NOTA" THEN BOOLEAN ELSE {FALSE} :
                  draft' = [draft EXCEPT !.st = "draft", !.to = to]
             /\ UNCHANGED <<type, embedded, tosign, official, call, faults>>

\* create_imported_document, which has the document for itself as it gives it a new
\* identifier, puts the PDF first, and takes it away if the transaction fails.
ImportPut(c) == /\ May(c, "import") /\ draft.st = "none" /\ type = "Importado"
                /\ \A d \in Calls : call[d].op # "import"
                /\ \E v \in Versions : tosign' = Pdf(v, {}, FALSE)
                /\ Begin(c, "import", "insert")
                /\ NoFault
                /\ UNCHANGED <<document, embedded, official>>
ImportInsert(c) == /\ At(c, "import", "insert")
                   /\ \/ NoFault /\ draft' = [draft EXCEPT !.st = "draft"] /\ UNCHANGED tosign
                      \/ Fault /\ tosign' = NoPdf /\ UNCHANGED draft
                   /\ End(c)
                   /\ UNCHANGED <<type, embedded, official>>
=============================================================================
