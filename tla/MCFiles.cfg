CONSTANTS
    MaxPigs = 2
    MaxTuners = 0
    BatchSize = 2
    ExitAfter = 2
    Skip = 1
    ReadMode = TRUE
    SourceLen = 3
    DaqStartFails = TRUE
    RecvFails = FALSE
    Sources = 2
    PrepFails = TRUE
    ChangePrivileges = FALSE
    UnprivStart = {FALSE}
    StartPaused = TRUE
    Console = {"resume", "resume_n"}
    Signals = {}
    HostTables = {TRUE}
    MaxConsole = 1
    MaxLoads = 1
SPECIFICATION Spec
INVARIANT TypeOK
INVARIANT AssertsHold
