SPECIFICATION Spec
CONSTANTS
  w1 = w1
  w2 = w2
  w3 = w3
  r1 = r1
  r2 = r2
  WriteCalls = {w1}
  ReadCalls = {r1}
  TryCalls = {}
  Cap = 1
  RunReadChan = TRUE
  HasMain = TRUE
  Timeouts = {"TypCloseReadTimeout"}
  HasServicer = TRUE
  HasFlushTime = TRUE
  SlowSenders = FALSE
  ReadErrs = {}
  WriteErrs = {"TypCloseWriteErr"}
INVARIANTS NoSendOnClosed NoStuckBytes
