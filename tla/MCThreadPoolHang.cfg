SPECIFICATION FairSpec
CONSTANTS
  main = main
  gameplay = gameplay
  Clients = {main, gameplay}
  Size = 4
  Hardware = 2
  JobLimit = 2
PROPERTY DestructorEnds
