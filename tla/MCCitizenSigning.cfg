SPECIFICATION FairSpec
CONSTANTS
  Docs = {d1, d2}
  Slow = {d1}
  Senders = {s1}
  Requests = {r1}
  Workers = {w1, w2}
  Keyless = {r1}
  MaxAttempts = 2
  MaxFaults = 1
  NoDoc = NoDoc
INVARIANTS OfficialPdfIsOwn SignedIsIssued ToldIsTrue
PROPERTIES PortalIsTold
CHECK_DEADLOCK FALSE
