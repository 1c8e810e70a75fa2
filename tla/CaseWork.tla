------------------------------- MODULE CaseWork ------------------------------
(***************************************************************************)
(* A case in progress: requests that link, propose, accept and amend       *)
(* documents, with those that give tasks to its sectors and close them.    *)
(* They meet in the pool of connections, and in the record (PV) that an    *)
(* assignment or its closing enters into the file.                         *)
(***************************************************************************)
EXTENDS CaseFile, CaseTasks

CONSTANTS Cover, Signed,           \* the case's cover; documents signed before
          FirstSector, FirstAssignment, FirstTasks

ASSUME CaseWorkAssumption ==
  /\ Cover \in Docs /\ Signed \subseteq Docs
  /\ FirstSector \in Sectors /\ FirstAssignment \in Assignments
  /\ FirstTasks \subseteq Tasks /\ FirstTasks # {}

vars == <<req, faults, fileVars, taskVars>>

Init == /\ CallsInit
        /\ FileInit(Cover, Signed)
        /\ TasksInit(FirstAssignment, FirstSector, FirstTasks)

\* create_transfer_document numbers the record at once, and it is linked like
\* any other; nobody asked for it, or it failed: the answer carries a warning.
EmitPV(r, d) == /\ req[r].at = "emit" /\ d \notin official
                /\ official' = official \union {d}
                /\ req' = [req EXCEPT ![r] = [Made("check", "emit") EXCEPT !.doc = d]]
                /\ UNCHANGED <<links, proposal, accepted, taskVars>> /\ NoFault
NoPV(r) == /\ req[r].at = "emit" /\ End(r)
           /\ UNCHANGED <<fileVars, taskVars>> /\ NoFault

Goes(r) == \/ FileGoes(r) /\ UNCHANGED taskVars
           \/ TaskGoes(r) /\ UNCHANGED fileVars
           \/ AcquireTimesOut(r) /\ UNCHANGED <<fileVars, taskVars>> /\ NoFault
           \/ NoPV(r) \/ \E d \in Docs : EmitPV(r, d)
Next == \/ \E r \in Requests : \/ Goes(r)
                               \/ FileStarts(r) /\ UNCHANGED taskVars
                               \/ TaskStarts(r) /\ UNCHANGED fileVars
                               \/ Fails(r) /\ UNCHANGED <<fileVars, taskVars>>
        \/ \E d \in Docs : BecomesOfficial(d) /\ UNCHANGED taskVars

Spec == Init /\ [][Next]_vars
\* A service that was called goes on by itself; nobody has to call one.
FairSpec == Spec /\ \A r \in Requests : WF_vars(Goes(r))

-----------------------------------------------------------------------------
TypeOK ==
  /\ req \in [Requests -> Calls]
  /\ links \in Seq([doc : Docs, order : Nat \ {0}, active : BOOLEAN])
  /\ proposal \in [Proposals -> [doc : Docs \union {NoDoc}, auto : BOOLEAN,
                                 st : {"none", "active", "inactive"}]]
  /\ official \subseteq Docs /\ accepted \subseteq Proposals
  /\ task \in [Tasks -> Task] /\ late \subseteq Tasks /\ met \subseteq Assignments
  /\ assignment \in [Assignments -> [st : {"none", "active", "closed"},
                                     sector : Sectors \union {NoSector}]]
  /\ faults \in 0 .. MaxFaults

\* Whoever links a document, and however many do at once, the file of the case
\* is the book that its readers take it for: every entry has the number of its
\* place, and no entry changes but to be struck out.  (The order numbers of
\* link_official_document and of subsanar_document_service.)
Ledger == INSTANCE CaseLedger WITH book <- links
ImplementsLedger == Ledger!Spec

\* A proposal that was taken off the list by its acceptance, by hand or by the
\* numbering of its document, has its document in the file, whatever failed on
\* the way.  (accept_proposed_document: it links first.)
AcceptedIsLinked == \A p \in accepted : \E i \in DOMAIN links : links[i].doc = proposal[p].doc

\* Who closed a task, and who had it then, does not change, though two may
\* close it at once, or one close it while another gives it to somebody, or
\* closes the whole assignment.  (The conditional updates of tasks.py.)
ClosedTaskStays == [][\A t \in Tasks : task[t].st = "closed" => task'[t] = task[t]]_task

\* A sector whose intervention is over has no task open, but for those that
\* were added while it was being closed; one that has none open is over, but
\* where two of its tasks were closed at once and each saw the other open.
\* (The count inside the transaction of close_task; the cascade of
\* close_assignment.)
AssignmentsMatchTasks == \A a \in Assignments :
  /\ assignment[a].st = "closed" => OpenIn(a) \subseteq late
  /\ assignment[a].st = "active" /\ a \notin met => OpenIn(a) # {}

\* A request ends, though the pool is full of transactions that wait for one
\* more connection, and though two of them wait for each other's rows.  (The
\* budget of _acquire_healthy_conn.)
RequestsEnd == \A r \in Requests : Running(r) ~> ~Running(r)
=============================================================================
