SPECIFICATION FairSpec
CONSTANTS
  MaxAttempts = 2
  Jobs = {j1}
  Summaries = {}
  Plumbing = {}
  KeyedJobs = {}
  Slots = {s1}
  Operators = {}
  CliOperators = {}
  NoJob = NoJob
  Redeliveries = FALSE
  PromptRestart = FALSE
  RefillThreshold = 0
  ReformatRetries = 1
  MaxCopies = 2
  MaxCrashes = 1
  MaxFaults = 1
  MaxRequests = 0
PROPERTY DrainSurvivesOutage
CHECK_DEADLOCK FALSE
