SPECIFICATION FairSpec
CONSTANTS
  a = a
  b = b
  c = c
  x = x
  here = here
  there = there
  seed = seed
  Requests = {r1, r2, r3}
  Tasks <- MCTasks
  Projects <- MCProjects
  ProjectOf <- MCProjectOf
  SeedRows <- MCSeedRows
  Calls <- MCCalls
INVARIANTS
  TypeOK
  DependenciesWellFormed
  AcyclicUnlessRaced
PROPERTIES
  CircularRefusalJustified
  EveryCallAnswered
CHECK_DEADLOCK FALSE
