SPECIFICATION FairSpec
CONSTANTS
  d1 = d1
  d2 = d2
  o1 = o1
  o2 = o2
  p1 = p1
  p2 = p2
  f1 = f1
  sweep = sweep
  Docs = {d1}
  Numbered = {d1}
  Openers = {o1, o2}
  Batches = {o2}
  Requests = {p1}
  Rejections = {p1}
  Job = sweep
  Fallers = {f1}
  Callers = {o1, o2, p1, sweep, d1, f1}
  Answers = {"cancel", "broken", "other", "revoked", "signed"}
  Slow = {1}
  Pdfs = {{}, {1}}
  NoDoc = NoDoc
  NoPdf = NoPdf
  MaxSessions = 1
  MaxFaults = 1
INVARIANTS ConfirmedHasPdf
PROPERTIES SessionsEnd NumbersEnd FallenIsCleaned
CHECK_DEADLOCK FALSE
