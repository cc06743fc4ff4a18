\* Two processes and a child that contend for PROC and FILE_IO, under fairness.
SPECIFICATION FairSpec
CONSTANTS
  MaxProcs = 4
  MaxContexts = 4
  BootTasks = {1, 2}
  BootCatch = {}
  SpawnCatch = {FALSE}
  Syscalls <- GateCalls
  SentSignals = {}
  SelfKill = FALSE
  Breaks = FALSE
  Routes = {255}
INVARIANTS
  LineMatchesWaits
  FreeGateIsRetried
  OwnerCanRun
PROPERTIES
  WaitersAreWoken
  RunnableRuns
