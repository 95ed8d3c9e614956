SPECIFICATION FairSpec
CONSTANTS
  Concurrency = 3
  MaxJobs = 7
INVARIANTS SlotsBounded NoLostWakeup NoJobLost
PROPERTIES ImplementsLanes LiveFirst LanesClear
CHECK_DEADLOCK FALSE
