SPECIFICATION Spec
CONSTANTS
  MaxAttempts = 2
  Jobs = {j1}
  Summaries = {j1}
  Plumbing = {}
  KeyedJobs = {j1}
  Slots = {s1, s2}
  Operators = {o1, o2}
  CliOperators = {o2}
  NoJob = NoJob
  Redeliveries = TRUE
  PromptRestart = TRUE
  RefillThreshold = 0
  ReformatRetries = 1
  MaxCopies = 1
  MaxCrashes = 0
  MaxFaults = 0
  MaxRequests = 2
SYMMETRY Symmetric
INVARIANTS ResultsMatchStatus LocksAreHeld CallsBounded
CHECK_DEADLOCK FALSE
