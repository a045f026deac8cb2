CONSTANTS
  WaitKinds = {"event", "timer"}
  Workers = {w1}
  Caller = NoThread
  NoThread = NoThread
  Main = Main
  Waker = Waker
  Tasks = {c1}
  Callbacks = {c1}
  AnyThread = AnyThread
  Pins = {AnyThread}
  Movers = {}
  YieldOps = {}
  MaxYields <- MCNoYield
  NoEntry = NoEntry
SPECIFICATION IOSpec
INVARIANTS
  QueuedTaskWakesIdle
