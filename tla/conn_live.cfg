SPECIFICATION FairSpec
CONSTANTS
  w1 = w1
  w2 = w2
  w3 = w3
  r1 = r1
  r2 = r2
  WriteCalls = {w1}
  ReadCalls = {}
  TryCalls = {}
  Cap = 1
  RunReadChan = FALSE
  HasMain = TRUE
  Timeouts = {}
  HasServicer = TRUE
  HasFlushTime = FALSE
  SlowSenders = TRUE
  ReadErrs = {"TypCloseReadReset"}
  WriteErrs = {}
PROPERTY QuitReturns
