------------------------------ MODULE CaseTasks ------------------------------
(***************************************************************************)
(* The sectors a case is assigned to and their tasks (services/cases/      *)
(* tasks.py, and close_assignment of transfer.py).  An assignment is       *)
(* closed by a request of its own, with its tasks, or by the request that  *)
(* closes its last task.  The two lock the same rows in opposite orders.   *)
(***************************************************************************)
EXTENDS CaseRequests

VARIABLES task,        \* case_assignment_tasks
          assignment,  \* case_movements with type 'assignment'
          late,        \* tasks added when their assignment was being closed
          met          \* assignments with two tasks that were closed at once

taskVars == <<task, assignment, late, met>>

NoOne == "no one"
People == Requests \union {NoOne}
\* by: closed_by; user: assigned_user_id, named by the request that set it.
Task == [st : {"none", "open", "closed"}, asg : Assignments \union {NoAssignment},
         by : People, user : People]
NoTaskYet == [st |-> "none", asg |-> NoAssignment, by |-> NoOne, user |-> NoOne]
OpenTask(a) == [NoTaskYet EXCEPT !.st = "open", !.asg = a]
NoMovement == [st |-> "none", sector |-> NoSector]

\* A case in progress: sector s has been given the tasks ts, in assignment a.
TasksInit(a, s, ts) ==
  /\ task = [t \in Tasks |-> IF t \in ts THEN OpenTask(a) ELSE NoTaskYet]
  /\ assignment = [b \in Assignments |-> IF b = a THEN [st |-> "active", sector |-> s]
                                         ELSE NoMovement]
  /\ late = {} /\ met = {}

OpenIn(a) == {t \in Tasks : task[t].asg = a /\ task[t].st = "open"}
AllCounted(t) == OpenIn(task[t].asg)
Others(t) == OpenIn(task[t].asg) \ {t}
ActiveOf(s) == {a \in Assignments : assignment[a].st = "active" /\ assignment[a].sector = s}

\* Somebody has counted the tasks of a as its last, or closed them all, and has
\* not committed; two at once have counted them.
BeingClosed(a) == \E q \in Requests : req[q].asg = a /\ (req[q].last \/ req[q].at = "record")
Meets(r, a) == \E q \in Requests \ {r} : req[q].asg = a /\ req[q].at = "close"

-----------------------------------------------------------------------------
(* ensure_assignment_and_create_task *)

\* Bound: rows that the requests under way may still need.
Room == LET asking == Cardinality({q \in Requests : req[q].at = "assign"})
        IN /\ Cardinality({t \in Tasks : task[t].st = "none"}) > asking
           /\ Cardinality({a \in Assignments : assignment[a].st = "none"}) > asking

\* The active assignment of the sector, if there is one.
StartAssign(r, s) ==
  /\ May(r, "assign") /\ Free /\ Room
  /\ \E a \in IF ActiveOf(s) = {} THEN {NoAssignment} ELSE ActiveOf(s) :
       Begin(r, [Made("assign", "assign") EXCEPT !.asg = a, !.sector = s])
  /\ UNCHANGED taskVars /\ NoFault

\* One transaction: the assignment, unless there was one, and the task.
Assign(r, a, t) ==
  /\ req[r].at = "assign" /\ Free
  /\ task[t].st = "none"
  /\ IF req[r].asg = NoAssignment
     THEN /\ assignment[a].st = "none"
          /\ assignment' = [assignment EXCEPT ![a] = [st |-> "active", sector |-> req[r].sector]]
     ELSE a = req[r].asg /\ UNCHANGED assignment
  /\ task' = [task EXCEPT ![t] = OpenTask(a)]
  /\ late' = IF assignment[a].st = "closed" \/ BeingClosed(a) THEN late \union {t} ELSE late
  /\ req' = [req EXCEPT ![r] = Made("emit", "emit")]
  /\ UNCHANGED met /\ NoFault

-----------------------------------------------------------------------------
(* close_task *)

\* The task is open; its transaction begins, and counts the others that are.
StartCloseTask(r, t) ==
  /\ May(r, "closetask") /\ Free /\ task[t].st = "open"
  /\ Begin(r, [Made("close", "closetask") EXCEPT !.task = t, !.asg = task[t].asg,
                                                !.last = (Others(t) = {})])
  /\ UNCHANGED taskVars /\ NoFault

\* UPDATE ... WHERE id = $3 AND status = 'open': no row, and it is refused.
AnyStatus(t) == TRUE
StillOpen(t) == task[t].st = "open"
CloseTask(r) ==
  LET t == req[r].task
  IN /\ req[r].at = "close" /\ Unlocked(t, r)
     /\ CASE ~StillOpen(t) -> End(r) /\ UNCHANGED <<task, met>>
          [] StillOpen(t) /\ req[r].last ->
               /\ req' = [req EXCEPT ![r].at = "movement", ![r].holds = {t},
                                     ![r].closing = {t}]
               /\ UNCHANGED <<task, met>>
          [] OTHER ->
               /\ task' = [task EXCEPT ![t].st = "closed", ![t].by = r]
               /\ met' = IF Meets(r, req[r].asg) THEN met \union {req[r].asg} ELSE met
               /\ End(r)
     /\ UNCHANGED <<assignment, late>> /\ NoFault

-----------------------------------------------------------------------------
(* close_assignment *)

\* closed_at is null; its transaction begins.
StartCloseAssignment(r, a) ==
  /\ May(r, "closeassign") /\ Free /\ assignment[a].st = "active"
  /\ Begin(r, [Made("movement", "closeassign") EXCEPT !.asg = a])
  /\ UNCHANGED taskVars /\ NoFault

\* The movement is locked by whoever closes it.
CloseMovement(r) ==
  /\ req[r].at = "movement" /\ Unlocked(req[r].asg, r)
  /\ req' = [req EXCEPT ![r].holds = @ \union {req[r].asg},
                        ![r].at = IF req[r].op = "closeassign" THEN "tasks" ELSE "record"]
  /\ UNCHANGED taskVars /\ NoFault

\* UPDATE case_assignment_tasks ... WHERE assignment_id = $3 AND status = 'open'.
CloseTasks(r) ==
  LET open == OpenIn(req[r].asg)
  IN /\ req[r].at = "tasks" /\ \A t \in open : Unlocked(t, r)
     /\ req' = [req EXCEPT ![r].at = "record", ![r].closing = open,
                           ![r].holds = @ \union open]
     /\ UNCHANGED taskVars /\ NoFault

\* _record_assignment_close reads with connections of its own; then COMMIT.
Record(r) ==
  /\ req[r].at = "record" /\ Free
  /\ task' = [t \in Tasks |-> IF t \in req[r].closing
                              THEN [task[t] EXCEPT !.st = "closed", !.by = r] ELSE task[t]]
  /\ assignment' = [assignment EXCEPT ![req[r].asg].st = "closed"]
  /\ req' = [req EXCEPT ![r] = Made("emit", "emit")]
  /\ UNCHANGED <<late, met>> /\ NoFault

-----------------------------------------------------------------------------
(* update_task *)

StartReassign(r, t) ==
  /\ May(r, "reassign") /\ Free /\ task[t].st = "open"
  /\ Begin(r, [Made("reassign", "reassign") EXCEPT !.task = t])
  /\ UNCHANGED taskVars /\ NoFault

Reassign(r) ==
  LET t == req[r].task
  IN /\ req[r].at = "reassign" /\ Free /\ Unlocked(t, r)
     /\ task' = IF StillOpen(t) THEN [task EXCEPT ![t].user = r] ELSE task
     /\ End(r)
     /\ UNCHANGED <<assignment, late, met>> /\ NoFault

-----------------------------------------------------------------------------
\* PostgreSQL rolls one back of two that wait for a row of each other.
Wanted(r) == CASE req[r].at = "close" -> {req[r].task}
               [] req[r].at = "movement" -> {req[r].asg}
               [] req[r].at = "tasks" -> OpenIn(req[r].asg)
               [] OTHER -> {}
Deadlocked(r) == \E q \in Requests : Blocks(q, r, Wanted(r)) /\ Blocks(r, q, Wanted(q))
Aborted(r) == Deadlocked(r) /\ End(r) /\ UNCHANGED taskVars /\ NoFault

TaskGoes(r) == \/ CloseTask(r) \/ CloseMovement(r) \/ CloseTasks(r) \/ Record(r)
               \/ Reassign(r) \/ Aborted(r)
               \/ \E a \in Assignments, t \in Tasks : Assign(r, a, t)
TaskStarts(r) == \/ \E s \in Sectors : StartAssign(r, s)
                 \/ \E t \in Tasks : StartCloseTask(r, t) \/ StartReassign(r, t)
                 \/ \E a \in Assignments : StartCloseAssignment(r, a)
=============================================================================
