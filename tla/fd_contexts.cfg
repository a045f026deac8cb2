CONSTANTS
  i1 = i1
  i2 = i2
  Fds <- MCFds
  IdleThreads = {i1, i2}
  Uses <- MCUses
  Hangups = FALSE
  Asserts = FALSE
  TableSize = 32
  MaxAdds = 6
SPECIFICATION Spec
INVARIANTS
  TypeOK
  NoFault
  WaiterIsRegistered
  WatchedIffRegistered
  PendingIsExact
PROPERTIES
  FateIsFinal
