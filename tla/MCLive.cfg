CONSTANTS
    MaxPigs = 2
    MaxTuners = 0
    BatchSize = 1
    ExitAfter = 0
    Skip = 0
    ReadMode = FALSE
    SourceLen = 0
    DaqStartFails = FALSE
    RecvFails = TRUE
    Sources = 0
    PrepFails = FALSE
    ChangePrivileges = FALSE
    UnprivStart = {FALSE}
    StartPaused = FALSE
    Console = {"pause", "resume", "quit", "other", "reload_hosts", "reload_policy"}
    Signals = {"int"}
    HostTables = {FALSE}
    MaxConsole = 1
    MaxLoads = 2
SPECIFICATION Spec
INVARIANT DroveCounted
INVARIANT CommandsNoticed
 
