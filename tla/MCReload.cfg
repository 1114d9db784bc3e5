CONSTANTS
    MaxPigs = 2
    MaxTuners = 1
    BatchSize = 1
    ExitAfter = 0
    Skip = 0
    ReadMode = FALSE
    SourceLen = 0
    DaqStartFails = FALSE
    RecvFails = FALSE
    Sources = 0
    PrepFails = FALSE
    ChangePrivileges = FALSE
    UnprivStart = {FALSE}
    StartPaused = FALSE
    Console = {"reload_config", "reload_hosts"}
    Signals = {}
    HostTables = {TRUE}
    MaxConsole = 2
    MaxLoads = 3
SPECIFICATION TunedSpec
INVARIANT CommandsAlive
INVARIANT ConfAlive
 
INVARIANT SwapComplete
PROPERTY ReloadEnds
