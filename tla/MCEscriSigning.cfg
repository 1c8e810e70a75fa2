SPECIFICATION SafeSpec
CONSTANTS
  Workers = {w1, w2}
  NoWorker = NoWorker
  Requests = {r1, r2}
  MaxSessions = 2
  MaxTickets = 1
  MaxFaults = 1
  MaxGuard = 2
SYMMETRY Symmetry
CONSTRAINT OneGlobalRequest
INVARIANTS SignedIsIssued IssuedHasPdf PdfIsCommitted SessionSignedIsIssued
CHECK_DEADLOCK FALSE
