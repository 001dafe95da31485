SPECIFICATION Spec
CONSTANTS
  a = a
  b = b
  c = c
  x = x
  here = here
  there = there
  seed = seed
  Requests = {r1, r2}
  Tasks <- MCTasks
  Projects <- MCProjects
  ProjectOf <- MCProjectOf
  SeedRows <- MCSeedRows
  Calls <- MCCalls
INVARIANT NoCircularDependency
CHECK_DEADLOCK FALSE
