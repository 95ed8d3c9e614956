SPECIFICATION FairSpec
CONSTANTS
  MaxAttempts = 2
  Jobs = {j1, j2}
  Summaries = {}
  Plumbing = {j2}
  KeyedJobs = {}
  Slots = {s1}
  Operators = {}
  CliOperators = {}
  NoJob = NoJob
  Redeliveries = FALSE
  PromptRestart = FALSE
  RefillThreshold = 0
  ReformatRetries = 1
  MaxCopies = 2
  MaxCrashes = 2
  MaxFaults = 0
  MaxRequests = 0
INVARIANT NoStrandedRow
PROPERTIES Settles DrainEnds
CHECK_DEADLOCK FALSE
