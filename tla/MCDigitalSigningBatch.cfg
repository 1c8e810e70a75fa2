SPECIFICATION BatchSpec
CONSTANTS
  d1 = d1
  d2 = d2
  o1 = o1
  o2 = o2
  p1 = p1
  p2 = p2
  f1 = f1
  sweep = sweep
  Docs = {d1, d2}
  Numbered = {d1}
  Openers = {}
  Batches = {}
  Requests = {p1, p2}
  Rejections = {}
  Job = sweep
  Fallers = {f1}
  Callers = {p1, p2, sweep, d1, d2, f1}
  Answers = {"signed"}
  Slow = {}
  Pdfs = {{}, {1}, {2}, {1, 2}}
  NoDoc = NoDoc
  NoPdf = NoPdf
  MaxSessions = 2
  MaxFaults = 0
INVARIANTS NoneBeforeAll NoneIssuedBeforeAll
PROPERTIES EndedStays
SYMMETRY Symmetry
CHECK_DEADLOCK FALSE
