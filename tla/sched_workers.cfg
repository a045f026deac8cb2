CONSTANTS
  Workers = {w1, w2}
  Caller = NoThread
  NoThread = NoThread
  Main = Main
  Waker = Waker
  Tasks = {f1, c1}
  Callbacks = {c1}
  AnyThread = AnyThread
  Pins = {AnyThread, w1}
  Movers = {f1}
  YieldOps = {"plain", "ready"}
  MaxYields <- MCTwoYields
  NoEntry = NoEntry
SPECIFICATION Spec
INVARIANTS
  TypeOK
  ActiveAccounting
  IdleAccounting
  NoFault
  OneThreadPerStack
  OneTokenPerTask
