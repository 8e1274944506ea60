SPECIFICATION FairSpec
CONSTANTS
  main = main
  gameplay = gameplay
  Clients = {main, gameplay}
  Size = 0
  Hardware = 3
  JobLimit = 4
INVARIANTS TypeOK NoLostWakeup
PROPERTIES WaitIdleMeansDone ImplementsWorkQueue QueuedJobsStart OrderlyCallsReturn
