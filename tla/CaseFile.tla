------------------------------- MODULE CaseFile ------------------------------
(***************************************************************************)
(* The official documents of a case (services/cases/documents.py and       *)
(* subsanacion.py): each is linked under the next order number, which is   *)
(* read and written under a lock on the row of the case.  A document gets  *)
(* in directly, by the acceptance of a proposal, by itself when it is      *)
(* numbered (auto_link_trigger.py), as the record of a movement (PV), or   *)
(* as the one that amends an entry.  Everything else is checked before the *)
(* transaction and not again.                                              *)
(***************************************************************************)
EXTENDS CaseRequests

VARIABLES links,     \* case_official_documents, in the order they were committed
          proposal,  \* case_proposed_documents
          official,  \* the documents with a number
          accepted   \* the proposals that an acceptance took off the list

fileVars == <<links, proposal, official, accepted>>

Entry(d, n) == [doc |-> d, order |-> n, active |-> TRUE]
NoRow == [doc |-> NoDoc, st |-> "none", auto |-> FALSE]

\* A case as its creation leaves it, with its cover (CAEX), and the documents
\* ds that were signed by themselves.
FileInit(cover, ds) == /\ links = <<Entry(cover, 1)>>
                       /\ proposal = [p \in Proposals |-> NoRow]
                       /\ official = ds \union {cover}
                       /\ accepted = {}

Linked(d) == \E i \in DOMAIN links : links[i].doc = d /\ links[i].active
MaxOrder == IF links = << >> THEN 0
            ELSE CHOOSE n \in {links[i].order : i \in DOMAIN links} :
                   \A i \in DOMAIN links : links[i].order <= n

-----------------------------------------------------------------------------
(* Linking *)

\* The case exists and the user may edit it: a request that is refused does
\* nothing, and is left out.
StartLink(r, d) == /\ May(r, "link") /\ Free /\ d \in official
                   /\ Begin(r, [Made("check", "link") EXCEPT !.doc = d])
                   /\ UNCHANGED fileVars /\ NoFault

\* accept_proposed_document, collect_auto_link_results: the proposal is active
\* and its document signed.
StartAccept(r, p) ==
  /\ Free /\ proposal[p].st = "active" /\ proposal[p].doc \in official
  /\ \E op \in {"accept", "autolink"} :
       /\ May(r, op) /\ (op = "autolink" => proposal[p].auto)
       /\ Begin(r, [Made("check", op) EXCEPT !.doc = proposal[p].doc, !.prop = p])
  /\ UNCHANGED fileVars /\ NoFault

\* subsanar_document_service: entry i is still active and d is not in the case.
StartSubsanar(r, i, d) ==
  /\ May(r, "subsanar") /\ Free
  /\ links[i].active /\ d \in official /\ ~Linked(d)
  /\ Begin(r, [Made("amend", "subsanar") EXCEPT !.doc = d, !.row = i])
  /\ UNCHANGED fileVars /\ NoFault

\* The duplicate check of link_official_document, then its transaction begins.
Check(r) == /\ req[r].at = "check" /\ Free
            /\ IF Linked(req[r].doc) THEN End(r)
               ELSE req' = [req EXCEPT ![r].at = "lock"]
            /\ UNCHANGED fileVars /\ NoFault

\* UPDATE case_official_documents ... WHERE id = $2, active or not.
Amend(r) == /\ req[r].at = "amend" /\ Unlocked(req[r].row, r)
            /\ req' = [req EXCEPT ![r].at = "lock", ![r].holds = {req[r].row}]
            /\ UNCHANGED fileVars /\ NoFault

\* SELECT ... FOR UPDATE on the case, and MAX(order_number).
PlainRead(r) == TRUE
ForUpdate(r) == Unlocked(CaseRow, r)
LockCase(r) == /\ req[r].at = "lock" /\ ForUpdate(r)
               /\ req' = [req EXCEPT ![r].at = "insert", ![r].order = MaxOrder + 1,
                                     ![r].holds = @ \union {CaseRow}]
               /\ UNCHANGED fileVars /\ NoFault

\* INSERT, the movement, and COMMIT.
CommitLink(r) ==
  LET kept == [i \in DOMAIN links |-> [links[i] EXCEPT !.active = @ /\ i # req[r].row]]
  IN /\ req[r].at = "insert"
     /\ links' = Append(kept, Entry(req[r].doc, req[r].order))
     /\ IF req[r].prop = NoProposal THEN End(r)
        ELSE req' = [req EXCEPT ![r].at = "deactivate", ![r].holds = {}]
     /\ UNCHANGED <<proposal, official, accepted>> /\ NoFault

-----------------------------------------------------------------------------
(* Proposals *)

\* propose_document_to_case; auto: auto_link_on_sign.
Propose(r, p, d) ==
  /\ May(r, "propose") /\ Free /\ proposal[p].st = "none"
  /\ \E auto \in BOOLEAN :
       proposal' = [proposal EXCEPT ![p] = [doc |-> d, st |-> "active", auto |-> auto]]
  /\ End(r)
  /\ UNCHANGED <<links, official, accepted>> /\ NoFault

\* The last statement of an acceptance.
Deactivate(r) == /\ req[r].at = "deactivate" /\ Free
                 /\ proposal' = [proposal EXCEPT ![req[r].prop].st = "inactive"]
                 /\ accepted' = accepted \union {req[r].prop}
                 /\ End(r)
                 /\ UNCHANGED <<links, official>> /\ NoFault

\* reject_proposed_document: checked first, then deactivated by its id alone.
StartReject(r, p) == /\ May(r, "reject") /\ Free /\ proposal[p].st = "active"
                     /\ Begin(r, [Made("reject", "reject") EXCEPT !.prop = p])
                     /\ UNCHANGED fileVars /\ NoFault
Reject(r) == /\ req[r].at = "reject" /\ Free
             /\ proposal' = [proposal EXCEPT ![req[r].prop].st = "inactive"]
             /\ End(r)
             /\ UNCHANGED <<links, official, accepted>> /\ NoFault

\* A draft is signed and numbered.
BecomesOfficial(d) == /\ d \notin official
                      /\ official' = official \union {d}
                      /\ UNCHANGED <<req, links, proposal, accepted>> /\ NoFault

FileGoes(r) == Check(r) \/ Amend(r) \/ LockCase(r) \/ CommitLink(r)
               \/ Deactivate(r) \/ Reject(r)
FileStarts(r) == \/ \E d \in Docs : StartLink(r, d) \/ \E i \in DOMAIN links : StartSubsanar(r, i, d)
                 \/ \E p \in Proposals : \/ StartAccept(r, p) \/ StartReject(r, p)
                                         \/ \E d \in Docs : Propose(r, p, d)
=============================================================================
