SPECIFICATION Spec
CONSTANTS
  main = main
  gameplay = gameplay
  worker0 = worker0
  worker1 = worker1
  Producers = {main, gameplay}
  Workers = {worker0, worker1}
  LogLimit = 2
  MaxAttempts = 2
INVARIANT StopWaitsForBackgroundWork
