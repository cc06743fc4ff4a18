\* Two processes that exit.
SPECIFICATION Spec
CONSTANTS
  MaxProcs = 3
  MaxContexts = 3
  BootTasks = {1, 2}
  BootCatch = {}
  SpawnCatch = {FALSE}
  Syscalls = {"exit"}
  SentSignals = {}
  SelfKill = FALSE
  Breaks = FALSE
  Routes = {1}
INVARIANT NoStrandedGate
