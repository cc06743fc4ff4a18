\* A parent waits for a foreground child that a console break ends.
SPECIFICATION Spec
CONSTANTS
  MaxProcs = 3
  MaxContexts = 3
  BootTasks = {1}
  BootCatch = {}
  SpawnCatch = {FALSE}
  Syscalls = {"waitpid", "spawn"}
  SentSignals = {}
  SelfKill = FALSE
  Breaks = TRUE
  Routes = {1}
INVARIANT WaitpidWakePending
