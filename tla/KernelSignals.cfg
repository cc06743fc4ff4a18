\* Parent and child that stop, continue and kill each other; console breaks.
SPECIFICATION Spec
CONSTANTS
  MaxProcs = 3
  MaxContexts = 3
  BootTasks = {1}
  BootCatch = {}
  SpawnCatch = {FALSE}
  Syscalls <- SignalCalls
  SentSignals <- JobSignals
  SelfKill = TRUE
  Breaks = TRUE
  Routes = {1}
INVARIANTS
  SlotsAccounted
PROPERTIES
  SignalPhaseSparesOwners
  OnlyKillRevives
