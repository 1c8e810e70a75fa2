SPECIFICATION Spec
CONSTANTS
  d1 = d1
  d2 = d2
  o1 = o1
  o2 = o2
  p1 = p1
  p2 = p2
  f1 = f1
  sweep = sweep
  Docs = {d1}
  Numbered = {d1}
  Openers = {o1}
  Batches = {}
  Requests = {p1, p2}
  Rejections = {}
  Job = sweep
  Fallers = {f1}
  Callers = {o1, p1, p2, sweep, d1, f1}
  Answers = {"signed"}
  Slow = {1, 2}
  Pdfs = {{}, {1}, {2}, {1, 2}}
  NoDoc = NoDoc
  NoPdf = NoPdf
  MaxSessions = 2
  MaxFaults = 0
INVARIANTS OneSignature OwnPdf IssuedWasWanted
SYMMETRY Symmetry
CHECK_DEADLOCK FALSE
