SPECIFICATION FairSpec
CONSTANTS
  Sessions = {s1, s2}
  Joins = {j1}
  Dirs = {d1}
  DirOf <- MCDirOf
  Cloned = {d1}
  Team = team
  Nobody = nobody
  MaxKills = 1
  MaxFaults = 1
  d1 = d1
INVARIANTS OneIdentity KeyUsable NotSelfIssued
PROPERTIES ImplementsKeyStore EveryoneEnds
CHECK_DEADLOCK FALSE
