SPECIFICATION Spec
CONSTANTS
  w1 = w1
  w2 = w2
  w3 = w3
  r1 = r1
  r2 = r2
  WriteCalls = {w1, w2, w3}
  ReadCalls = {}
  TryCalls = {w3}
  Cap = 1
  RunReadChan = FALSE
  HasMain = FALSE
  Timeouts = {}
  HasServicer = TRUE
  HasFlushTime = FALSE
  SlowSenders = TRUE
  ReadErrs = {}
  WriteErrs = {}
SYMMETRY WriterSymmetry
INVARIANTS OneOwner NothingLeft
PROPERTY ParkedNeverPanics
