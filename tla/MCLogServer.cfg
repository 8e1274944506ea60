SPECIFICATION FairSpec
CONSTANTS
  game = game
  editor = editor
  kenzo = kenzo
  Engines = {game, editor}
  Tuis = {kenzo}
  Capacity = 2
  LogLimit = 3
  BatchLimit = 2
INVARIANTS TypeOK StoredAsWritten ExitSavesSession MissesOnlyTheGap
PROPERTIES ImplementsStream WaitingEngineIsServed TuiCatchesUp
CHECK_DEADLOCK FALSE
