SPECIFICATION Spec
CONSTANTS
  Sessions = {s1, s2}
  Joins = {j1}
  Dirs = {d1}
  DirOf <- MCDirOf
  Cloned = {d1}
  Team = team
  Nobody = nobody
  MaxKills = 0
  MaxFaults = 0
  d1 = d1
INVARIANT AlwaysOneIdentity
CHECK_DEADLOCK FALSE
