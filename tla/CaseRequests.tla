---------------------------- MODULE CaseRequests -----------------------------
(***************************************************************************)
(* What the requests on one case (expediente) share: the pool of database  *)
(* connections and the row locks of their transactions (database.py).  A   *)
(* request is one call of a service of services/cases; it is made once.    *)
(* Its statements outside a transaction take a connection each, and so do  *)
(* the reads that a service makes on its own while its transaction is      *)
(* open.                                                                   *)
(***************************************************************************)
EXTENDS Naturals, Sequences, FiniteSets

CONSTANTS Requests,
          Does,         \* the services each request may call
          Conns,        \* ASYNCPG_MAX_SIZE
          MaxFaults,    \* bound: requests that fail or die half-way
          Docs, NoDoc, Proposals, NoProposal,
          Tasks, NoTask, Assignments, NoAssignment, Sectors, NoSector,
          CaseRow       \* the row of cases

Services == {"link", "accept", "autolink", "reject", "propose", "subsanar",
             "assign", "closetask", "reassign", "closeassign", "emit"}

ASSUME CaseAssumption ==
  /\ Does \in [Requests -> SUBSET Services]
  /\ Conns \in Nat \ {0} /\ MaxFaults \in Nat
  /\ NoDoc \notin Docs /\ NoProposal \notin Proposals
  /\ NoTask \notin Tasks /\ NoAssignment \notin Assignments /\ NoSector \notin Sectors

VARIABLES req,     \* the memory of each request
          faults   \* how many failed half-way

\* at: the next step; row: the entry of the file it amends, 0 if none;
\* order: the order number it read; last: no other task was open when it
\* counted; closing: the tasks it has closed; holds: the rows it has locked.
Made(at, op) == [at |-> at, op |-> op, doc |-> NoDoc, prop |-> NoProposal, row |-> 0,
                 order |-> 0, task |-> NoTask, asg |-> NoAssignment, sector |-> NoSector,
                 last |-> FALSE, closing |-> {}, holds |-> {}]
Ended == Made("done", "none")
CallsInit == req = [r \in Requests |-> Made("new", "none")] /\ faults = 0

Steps == {"new", "done", "check", "amend", "lock", "insert", "deactivate", "reject", "assign",
          "close", "movement", "tasks", "record", "reassign", "emit"}
Calls == [at : Steps, op : Services \union {"none"}, doc : Docs \union {NoDoc},
          prop : Proposals \union {NoProposal}, row : Nat, order : Nat,
          task : Tasks \union {NoTask}, asg : Assignments \union {NoAssignment},
          sector : Sectors \union {NoSector}, last : BOOLEAN, closing : SUBSET Tasks,
          holds : SUBSET (Nat \union Tasks \union Assignments \union {CaseRow})]

May(r, op) == req[r].at = "new" /\ op \in Does[r]
Begin(r, call) == req' = [req EXCEPT ![r] = call]
End(r) == req' = [req EXCEPT ![r] = Ended]
NoFault == UNCHANGED faults
Running(r) == req[r].at \notin {"new", "done"}

-----------------------------------------------------------------------------
(* The pool *)

InTransaction == {"amend", "lock", "insert", "close", "movement", "tasks", "record"}
Free == Cardinality({r \in Requests : req[r].at \in InTransaction}) < Conns

\* The steps that ask for a connection: _record_assignment_close asks for one
\* more, with its caller's transaction open.
Asks(r) == req[r].at \in {"check", "deactivate", "reject", "assign", "reassign", "record"}

\* _acquire_healthy_conn: nobody waits for ever, DatabaseBusyError.
WaitsForever(r) == FALSE
Saturated(r) == Asks(r) /\ ~Free
AcquireTimesOut(r) == Saturated(r) /\ End(r)

-----------------------------------------------------------------------------
(* The row locks: held until the transaction ends, committed or not *)

Unlocked(row, r) == \A q \in Requests \ {r} : row \notin req[q].holds
Blocks(q, r, rows) == rows \intersect req[q].holds # {} /\ q # r

\* An error of the database, or the death of the process: the transaction that
\* is open is rolled back, what was committed stays.
GoesOn(r) == /\ Running(r) /\ faults < MaxFaults
             /\ faults' = faults + 1
             /\ IF req[r].prop = NoProposal THEN End(r)
                ELSE req' = [req EXCEPT ![r].at = "deactivate", ![r].holds = {}]
Fails(r) == /\ Running(r) /\ faults < MaxFaults
            /\ faults' = faults + 1 /\ End(r)
=============================================================================
