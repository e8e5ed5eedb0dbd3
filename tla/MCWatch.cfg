SPECIFICATION MCSpec
CONSTANTS
  Second = 5
  KeepaliveTime = 3
  TryTimes = 3
  MaxBoot = 2
  MaxLate = 2
  MaxStall = 1
INVARIANTS
  WatchTypeOK
  NothingOverlooked
PROPERTIES
  ExactNoFalseAlarm
  RunningIsWatched
  Recovers
