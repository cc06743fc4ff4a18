\* Every kind of command line, every call may fail, the console is taken away.
SPECIFICATION FairSpec
CONSTANTS
  LineMax = 64
  HighBit <- InverseVideo
  MaxFds = 6
  Places <- Everywhere
  Typed <- AllTexts
  Probes <- Short
  QueueMax = 1
  ShellPid = 1
  Volatile <- JustA
  Faults = {"getcwd", "open", "seek", "spawn", "chdir", "read"}
  Breaks = TRUE
  Routes = {"shell", "other", "none"}
INVARIANTS
  TypeOK
  DescriptorsOwned
  RunsWhatWasTyped
  ParserAgrees
  ConsoleFollowsChild
PROPERTIES
  ChangesDirAsTold
  ShellReturns
  BreakIsTaken
