CONSTANTS
    MaxPigs = 1
    MaxTuners = 1
    BatchSize = 1
    ExitAfter = 0
    Skip = 0
    ReadMode = TRUE
    SourceLen = 1
    DaqStartFails = FALSE
    RecvFails = FALSE
    Sources = 1
    PrepFails = FALSE
    ChangePrivileges = FALSE
    UnprivStart = {FALSE}
    StartPaused = FALSE
    Console = {"reload_policy"}
    Signals = {}
    HostTables = {TRUE}
    MaxConsole = 1
    MaxLoads = 2
SPECIFICATION Spec
INVARIANT CommandsHeld
