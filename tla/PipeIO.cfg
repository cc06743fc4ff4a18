\* Two tasks with the ping pipe between them, every descriptor call.
SPECIFICATION Spec
CONSTANTS
    MaxProcs = 3
    MaxFds = 2
    OpenMax = 3
    MaxPipes = 1
    PipeBufSize = 2
    Consoles = 1
    BootPipes = 1
    Byte <- TwoBytes
    IoTasks <- BootTwo
    Lens <- ShortLens
    Texts <- ShortTexts
    OpenModes <- ReadWrite
    Calls <- EveryCall
INVARIANTS RefsCounted SlotsValid WaiterHoldsEnd
PROPERTY PipesAreFifos
