\* One boot task that spawns; three slots, two contexts; INT is caught.
SPECIFICATION Spec
CONSTANTS
  MaxProcs = 4
  MaxContexts = 3
  BootTasks = {1}
  BootCatch = {1}
  SpawnCatch = {TRUE}
  Syscalls <- LifecycleCalls
  SentSignals = {}
  SelfKill = FALSE
  Breaks = TRUE
  Routes = {1, 2}
INVARIANTS
  TypeOK
  OneRunning
  HolderOwns
  RequestAllowed
  RequestHasOwner
  WaitpidWakePending
  SlotsAccounted
