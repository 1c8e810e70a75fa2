SPECIFICATION FairSpec
CONSTANTS
  Doc = d
  Docs = {d}
  Signers = {u1, u2}
  Requests = {r1, r2}
  Impatient = {u1}
  Workers = {w1}
  Sweeper = sweep
  Rejecter = rej
  Callers = {w1, r1, r2, sweep, rej}
  Retries = 2
  MaxSessions = 2
  Mishaps = {"insert", "request", "before", "after", "worker", "overdue", "key"}
  MaxFaults = 1
  Pdfs <- MCPdfs
  NoDoc = NoDoc
  NoPdf = NoPdf
INVARIANTS SignedIsInPdf SignedOnce
PROPERTIES SessionsEnd 
CHECK_DEADLOCK FALSE
