\* A command entered behind a prompt of 56 characters.
SPECIFICATION Spec
CONSTANTS
  LineMax = 64
  HighBit <- InverseVideo
  MaxFds = 6
  Places <- Everywhere
  Typed <- CutTexts
  Probes = {}
  QueueMax = 1
  ShellPid = 1
  Volatile = {}
  Faults = {}
  Breaks = FALSE
  Routes = {}
INVARIANTS
  RunsOnlyCompleteLines
