CONSTANTS
    MaxPigs = 1
    MaxTuners = 0
    BatchSize = 1
    ExitAfter = 0
    Skip = 0
    ReadMode = TRUE
    SourceLen = 1
    DaqStartFails = FALSE
    RecvFails = FALSE
    Sources = 1
    PrepFails = FALSE
    ChangePrivileges = FALSE
    UnprivStart = {FALSE}
    StartPaused = FALSE
    Console = {"pause", "quit"}
    Signals = {}
    HostTables = {TRUE}
    MaxConsole = 2
    MaxLoads = 1
SPECIFICATION FairSpec
PROPERTY QuitEnds
