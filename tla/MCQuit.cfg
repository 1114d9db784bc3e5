CONSTANTS
    MaxPigs = 2
    MaxTuners = 0
    BatchSize = 1
    ExitAfter = 0
    Skip = 0
    ReadMode = FALSE
    SourceLen = 0
    DaqStartFails = FALSE
    RecvFails = FALSE
    Sources = 0
    PrepFails = FALSE
    ChangePrivileges = TRUE
    UnprivStart = {TRUE, FALSE}
    StartPaused = FALSE
    Console = {}
    Signals = {"quit"}
    HostTables = {TRUE}
    MaxConsole = 1
    MaxLoads = 1
SPECIFICATION FairSpec
PROPERTY Implemented
PROPERTY QuitEnds
PROPERTY PigsRun
