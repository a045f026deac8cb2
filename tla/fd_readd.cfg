CONSTANTS
  i1 = i1
  i2 = i2
  Fds <- MCFds
  IdleThreads = {i1, i2}
  Uses <- MCReader
  Hangups = FALSE
  Asserts = TRUE
  TableSize = 32
  MaxAdds = 2
SPECIFICATION Spec
INVARIANTS
  NoFault
