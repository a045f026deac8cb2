CONSTANTS
  f1 = f1
  f2 = f2
  Fibers = {f1, f2}
  NoFiber = NoFiber
  Fds <- MCFds
  Timeouts <- MCTimeouts
  ConnectTimeout = 1
  Never <- MCNever
  Uses <- MCUses
  MaxCalls <- MCMaxCalls
  MaxAge = 1
  MaxLength = 60
  MaxHeader = 40
  BufferSize = 6
  Programs <- MCPrograms
  Bodies <- MCBodies
  BaseSize = 2
  Bytes = {0, 1}
  Unset = 7
  MaxSize = 5
  Group = 2
  Width = 5
  Keys = {"a", "Bad"}
  Names = {"a"}
  Texts = {"1", "2", "?"}
  Values = {"1", "2"}
  Default = "0"
  MaxTime = 2
  Loggers <- MCLoggers
  Root = "root"
  Levels = {0, 1, 4}
  Formatters = {"F", "G", "open", "unknown"}
  Pattern <- MCPattern
  Layout <- MCLayout
  Defines <- MCDefines
  Listeners = {l1, l2}
  Clients = {c1, c2}
  MaxThreads = 2
SPECIFICATION LibSpec
CHECK_DEADLOCK FALSE
INVARIANTS
  TypeOK
  SocketsAreManaged
  RequestIsMessage
  NeverReadsPastEnd
  AnswerEnds
  CodesReadBack
  NoEditIsMissed
  LoggersFollowConfig
  ObjectIsHandedOver
PROPERTIES
  NeverBlocksThread
  TimeIsKept
  ConnectIsTrue
  TimedCallReturns
  ImplementsBuffer
  
