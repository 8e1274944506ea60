SPECIFICATION FairSpec
CONSTANTS
  a = a
  b = b
  Conns = {a, b}
  None = None
  Capacity = 1
  BatchLimit = 2
  DialLimit = 1
INVARIANTS TypeOK SessionInOrder
PROPERTIES AbandonedTasksEnd FindsServer
