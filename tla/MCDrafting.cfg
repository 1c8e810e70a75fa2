SPECIFICATION FairSpec
CONSTANTS
  c1 = c1
  c2 = c2
  c3 = c3
  Calls = {c1, c2, c3}
  Does <- MCDoes
  Types = {"HTML", "NOTA", "Importado"}
  Accepting = {"HTML"}
  Versions = {v1, v2}
  NoContent = NoContent
  Files = {f1}
  NoPdf = NoPdf
  NoCall = NoCall
  MaxFaults = 1
CONSTRAINTS NothingLeft SignedTogether
INVARIANTS SentHasItsPdf 
PROPERTIES StartsEnd
CHECK_DEADLOCK FALSE
