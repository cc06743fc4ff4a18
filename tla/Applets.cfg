\* One run of every applet, with short transfers, failures and busy neighbours.
SPECIFICATION FairSpec
CONSTANTS
  LineMax = 64
  HighBit <- SevenBits
  Jobs <- Uses
  Bytes = {"1", "2", "3", "4", "7"}
  Paths <- Names
  Stored <- Disk
  Stdin <- Input
  Cwd <- Here
  BufferSize = 2
  Slots = {1, 2, 3}
  Entries <- Kinds
  Listing <- Places
  Pids = {0, 1, 2}
  Infos <- States
  Processes <- Tasks
  Changes = 2
  Values <- Numbers1
  Probes <- Words3
  Faults = {"open", "read", "write", "close", "getcwd", "signal", "path", "opendir", "readdir", "info"}
INVARIANTS
  CatExact
  CopyComplete
  HandlesClosed
  Diagnosed
  ListsStable
  ReportsStable
  NumbersAgree
PROPERTIES
  Terminates
CHECK_DEADLOCK FALSE
