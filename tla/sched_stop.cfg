CONSTANTS
  Workers = {w1, w2}
  Caller = w2
  NoThread = NoThread
  Main = Main
  Waker = Waker
  Tasks = {f1, c1}
  Callbacks = {c1}
  AnyThread = AnyThread
  Pins = {AnyThread}
  Movers = {}
  YieldOps = {"ready"}
  MaxYields <- MCOneYield
  NoEntry = NoEntry
SPECIFICATION LiveSpec
INVARIANTS
  StoppedIsDrained
PROPERTIES
  QueuedTaskRuns
  StopReturns
