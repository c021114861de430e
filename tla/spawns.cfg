SPECIFICATION BenchSpec
CONSTANTS
  Calls = {c1, c2, c3, c4}
  Waits = {c1, c2, c4}
  Panics = {c2}
  WaitChans = {k1, k2}
  Size = 2
  HasCtx = TRUE
  BatchItems = {d1, d2, d3}
  BatchFlushes = {f1}
  BatchCloses = {x1}
  BatchSize = 2
  ChanSize = 2
  ListItems = {d1, d2}
  ListCloses = {x1, x2}
  ListSizes = {0, 1}
  MayPanic = TRUE
CHECK_DEADLOCK FALSE
INVARIANTS OneAtATime WaitsForItsOwn InOrderOnce FlushCovers CloseIsACut
PROPERTIES CallsReturn AddedIsHandled LastCloseEnds SentIsHandled
