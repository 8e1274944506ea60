SPECIFICATION FairSpec
CONSTANTS
  main = main
  gameplay = gameplay
  worker0 = worker0
  worker1 = worker1
  Producers = {main, gameplay}
  Workers = {worker0, worker1}
  LogLimit = 3
  MaxAttempts = 2
INVARIANTS TypeOK SlotToken NoStrandedLog KeepsOrder EachLogOnce
PROPERTIES EveryLogAttempted StopEnds
