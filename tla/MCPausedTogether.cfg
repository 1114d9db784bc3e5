CONSTANTS
    MaxPigs = 2
    MaxTuners = 0
    BatchSize = 1
    ExitAfter = 0
    Skip = 0
    ReadMode = FALSE
    SourceLen = 0
    DaqStartFails = FALSE
    RecvFails = FALSE
    Sources = 0
    PrepFails = FALSE
    ChangePrivileges = TRUE
    UnprivStart = {FALSE}
    StartPaused = TRUE
    Console = {}
    Signals = {}
    HostTables = {TRUE}
    MaxConsole = 0
    MaxLoads = 1
SPECIFICATION Spec
INVARIANT StaysPaused
