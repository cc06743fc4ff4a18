\* Two sleepers, one of which is killed; two slots, a counter that wraps at 7.
SPECIFICATION FairSpec
CONSTANTS
  Pids = {1, 2}
  Slots = {0, 1}
  Kills = {1}
  Wrap = 7
  Low = 3
  MaxSleep = 2
  MaxLag = 1
INVARIANTS
  SleeperHasTimer
PROPERTIES
  NeverEarly
  ScanWakesDue
  DeathFreesItsOwn
  SleepersWake
