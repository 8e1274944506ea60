SPECIFICATION Spec
CONSTANTS
  game = game
  editor = editor
  kenzo = kenzo
  Engines = {game}
  Tuis = {kenzo}
  Capacity = 1024
  LogLimit = 3
  BatchLimit = 2
INVARIANT TuiMissesNothing
CHECK_DEADLOCK FALSE
