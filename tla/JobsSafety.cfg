SPECIFICATION Spec
CONSTANTS
  MaxAttempts = 2
  Jobs = {j1}
  Summaries = {j1}
  Plumbing = {}
  KeyedJobs = {j1}
  Slots = {s1, s2}
  Operators = {o1}
  CliOperators = {}
  NoJob = NoJob
  Redeliveries = TRUE
  PromptRestart = TRUE
  RefillThreshold = 0
  ReformatRetries = 0
  MaxCopies = 1
  MaxCrashes = 1
  MaxFaults = 1
  MaxRequests = 1
SYMMETRY Symmetric
INVARIANTS SingleGenerator ResultsMatchStatus CallsBounded LocksAreHeld NoStrandedRow
PROPERTIES TerminalIsFinal ImplementsLifecycle
CHECK_DEADLOCK FALSE
