SPECIFICATION FairSpec
CONSTANTS
  r1 = r1
  r2 = r2
  r3 = r3
  Requests = {r1, r2, r3}
  Does <- MCDoes
  Conns = 2
  MaxFaults = 1
  Docs = {cover, d1, d2}
  NoDoc = NoDoc
  Cover = cover
  Signed = {d1}
  Proposals = {p1}
  NoProposal = NoProposal
  Tasks = {t1, t2, t3, t4}
  NoTask = NoTask
  FirstTasks = {t1, t2}
  Assignments = {a1, a2, a3}
  NoAssignment = NoAssignment
  FirstAssignment = a1
  Sectors = {s1, s2}
  NoSector = NoSector
  FirstSector = s1
  CaseRow = caserow
INVARIANTS AcceptedIsLinked AssignmentsMatchTasks
PROPERTIES ImplementsLedger ClosedTaskStays RequestsEnd
CHECK_DEADLOCK FALSE
