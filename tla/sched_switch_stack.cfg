CONSTANTS
  Workers = {w1, w2}
  Caller = NoThread
  NoThread = NoThread
  Main = Main
  Waker = Waker
  Tasks = {f1}
  Callbacks = {}
  AnyThread = AnyThread
  Pins = {AnyThread, w1, w2}
  Movers = {f1}
  YieldOps = {}
  MaxYields <- MCOneYield
  NoEntry = NoEntry
SPECIFICATION Spec
INVARIANTS
  MovedStackIsPrivate
