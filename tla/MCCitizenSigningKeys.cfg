SPECIFICATION Spec
CONSTANTS
  Docs = {d1, d2}
  Slow = {}
  Senders = {}
  Requests = {r1, r2}
  Workers = {w1}
  Keyless = {r2}
  MaxAttempts = 2
  MaxFaults = 2
  NoDoc = NoDoc
INVARIANTS OneDocumentPerKey
CHECK_DEADLOCK FALSE
