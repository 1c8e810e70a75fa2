SPECIFICATION Spec
CONSTANTS
  Docs = {d1, d2, d3}
  Lanes = {l1}
  Users = {u1, u2}
  Batches = {b1}
  NoDoc = NoDoc
  NoLane = NoLane
  NoUser = NoUser
  NoBatch = NoBatch
  MaxNumber = 3
  MaxClock = 4
SYMMETRY Symmetry
INVARIANTS UniqueNumbers LoneReservationOwnsItsLane
PROPERTIES ImplementsRegistry
CHECK_DEADLOCK FALSE
