CONSTANTS
  i1 = i1
  i2 = i2
  Fds <- MCFds
  IdleThreads = {i1, i2}
  Uses <- MCReader
  Hangups = TRUE
  Asserts = TRUE
  TableSize = 32
  MaxAdds = 1
SPECIFICATION Spec
INVARIANTS
  NoFault
