SPECIFICATION FairSpec
CONSTANTS
  main = main
  other = other
  visitor = visitor
  request = request
  worker = worker
  Databases = {main, other}
  Callers = {visitor, request, worker}
  Workers = {worker}
  ProjectOf <- MCProjectOf
  MaxProvisions = 3
  MaxFaults = 1
INVARIANTS ReadyWhenServed OnePool StopLeavesNothing
PROPERTIES StopEnds RetryServed
CHECK_DEADLOCK FALSE
