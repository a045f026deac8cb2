CONSTANTS
  f1 = f1
  f2 = f2
  Fibers = {f1, f2}
  NoFiber = NoFiber
  Fds <- MCFds
  Timeouts <- MCTimeouts
  ConnectTimeout = 1
  Never <- MCNever
  Uses <- MCReads
  MaxCalls <- MCMaxCalls
  MaxAge = 1
SPECIFICATION Spec
CHECK_DEADLOCK FALSE
PROPERTIES
  TimeoutEndsWait
