\* A reader and a writer that closes or exits.
SPECIFICATION Spec
CONSTANTS
    MaxProcs = 3
    MaxFds = 2
    OpenMax = 3
    MaxPipes = 1
    PipeBufSize = 2
    Consoles = 1
    BootPipes = 1
    Byte <- TwoBytes
    IoTasks <- BootTwo
    Lens <- ShortLens
    Texts <- ShortTexts
    OpenModes <- ReadWrite
    Calls <- PlainCalls
INVARIANT ReaderSeesEof
