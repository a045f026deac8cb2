CONSTANTS
  WaitKinds = {"timer"}
  Workers = {w1, w2}
  Caller = NoThread
  NoThread = NoThread
  Main = Main
  Waker = Waker
  Tasks = {f1, c1}
  Callbacks = {c1}
  AnyThread = AnyThread
  Pins = {AnyThread}
  Movers = {}
  YieldOps = {"plain"}
  MaxYields <- MCOneYield
  NoEntry = NoEntry
SPECIFICATION IOSpec
SYMMETRY MCSymmetry
INVARIANTS
  StopLosesNothing
