SPECIFICATION Spec
CONSTANTS
  Docs = {d1, d2}
  Citizens = {c1}
  Automatic = {a1}
  Tests = {t1}
  NoDoc = NoDoc
  Indexed = {"RESERVED", "CONFIRMING", "CONFIRMED"}
  MaxSeq = 3
  MaxClock = 4
SYMMETRY Symmetry
PROPERTIES ImplementsRegistry
CHECK_DEADLOCK FALSE
