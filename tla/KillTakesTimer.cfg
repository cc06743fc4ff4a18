\* The target of a kill is woken while the kill looks at its wait.
SPECIFICATION Spec
CONSTANTS
  Pids = {1, 2}
  Slots = {0, 1}
  Kills = {1}
  Wrap = 8
  Low = 4
  MaxSleep = 2
  MaxLag = 1
INVARIANTS
  NoDeadWait
