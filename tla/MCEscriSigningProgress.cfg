SPECIFICATION Spec
CONSTANTS
  Workers = {w1}
  NoWorker = NoWorker
  Requests = {r1}
  MaxSessions = 1
  MaxTickets = 2
  MaxFaults = 1
  MaxGuard = 2
PROPERTIES ImplementsIssuance SessionsEnd ReservationResolves CommittedIsIssued IssuedReachesDraft
CHECK_DEADLOCK FALSE
