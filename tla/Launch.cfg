SPECIFICATION FairSpec
CONSTANTS
  Daemons = {d1, d2, d3}
  NoOne = NoOne
  MaxFaults = 2
  MaxStops = 1
INVARIANTS OwnPostgresAdoptable StateNamesServer
PROPERTY ServerComesBack
CHECK_DEADLOCK FALSE
