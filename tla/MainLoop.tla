------------------------------ MODULE MainLoop ------------------------------
(***************************************************************************)
(* The main thread (main.cc): the drove of pigs, the main loop, the        *)
(* privilege drop, the console commands and signals, and the reaping of    *)
(* commands; composed with the packet threads of Analyzer.                 *)
(*                                                                         *)
(* Pushing a command to several pigs, and reaping from several, is one     *)
(* step: a pig sees its own queues change once, and the main thread alone  *)
(* puts references back.  The DAQ interrupts that follow a push are steps  *)
(* of their own, each reading the pig's state of that moment.              *)
(***************************************************************************)
EXTENDS Analyzer

CONSTANTS
    Sources,            \* bound: capture files queued in Trough (read mode)
    PrepFails,          \* Pig::prep may fail
    ChangePrivileges,   \* SnortConfig::change_privileges()
    UnprivStart,        \* the DAQ's can_start_unprivileged(): a set of booleans
    StartPaused,        \* --pause
    Console,            \* the console commands users give
    Signals,            \* the commands signals ask for
    HostTables,         \* whether a loaded hosts file gives a table: a set of booleans
    MaxLoads            \* bound: configurations and tables loaded

ASSUME MainAssumption ==
    /\ {Sources, MaxLoads} \subseteq Nat
    /\ {PrepFails, ChangePrivileges, StartPaused} \subseteq BOOLEAN
    /\ UnprivStart \subseteq BOOLEAN /\ HostTables \subseteq BOOLEAN

VARIABLES
    mloc, midx,         \* where the main thread is, and the pig in its hands
    analyzer, athread,  \* Pig::analyzer and Pig::athread, null or not
    awaiting,           \* Pig::awaiting_privilege_change
    privileged_start,   \* Pig::requires_privileged_start, the same for every pig
    pigs_started, all_pthreads_started,
    swine, pending_privileges, dropped,
    paused, exit_requested,
    trough,             \* files Trough has not handed out
    orphans,            \* orphan_commands
    to_interrupt,       \* pigs a command was pushed to and that are not interrupted yet
    reload_in_progress,
    conf, attribs,      \* the main thread's configuration and host attribute table
    freed_conf, freed_attribs,  \* the ones deleted
    last_attribs,       \* the latest table loaded; conf is the latest configuration
    given               \* console commands and signals so far

mainvars == <<mloc, midx, analyzer, athread, awaiting, privileged_start, pigs_started,
              all_pthreads_started, swine, pending_privileges, dropped, paused, exit_requested,
              trough, orphans, to_interrupt, reload_in_progress, conf, attribs, freed_conf,
              freed_attribs, last_attribs, given>>

vars == <<anvars, mainvars>>

pigvars  == <<analyzer, athread, awaiting, pigs_started, all_pthreads_started, swine,
              pending_privileges, dropped>>
confvars == <<reload_in_progress, conf, attribs, freed_conf, freed_attribs,
              last_attribs>>
uservars == <<paused, exit_requested, given>>

-----------------------------------------------------------------------------
(* Commands *)

HasThread(p) == analyzer[p] /\ athread[p]

(* Mutant: one reference for all pigs. *)
SendOneRef(id, c, D) ==
    LET to == {p \in D : HasThread(p)}
    IN  /\ cmds' = [cmds EXCEPT ![id] = [c EXCEPT !.refs = IF to = {} THEN 0 ELSE 1]]
        /\ pending' = [p \in Pigs |-> IF p \in to THEN Append(pending[p], id) ELSE pending[p]]
        /\ to_interrupt' = to
        /\ orphans' = IF to = {} THEN orphans \union {id} ELSE orphans
        /\ UNCHANGED <<an, completed, uncompleted, poke, poke_lost>>

(* Pig::queue_command of a new command for the pigs of D that have a       *)
(* thread, up to the push of Analyzer::execute; an orphan if there is      *)
(* none.  The guard says that a new object has an identity of its own;     *)
(* AssertsHold checks that it never stands in the way.                     *)
Send(id, c, D) ==
    LET to == {p \in D : HasThread(p)}
    IN  /\ cmds[id] = Dead
        /\ cmds' = [cmds EXCEPT ![id] = [c EXCEPT !.refs = Cardinality(to)]]
        /\ pending' = [p \in Pigs |-> IF p \in to THEN Append(pending[p], id) ELSE pending[p]]
        /\ to_interrupt' = to
        /\ orphans' = IF to = {} THEN orphans \union {id} ELSE orphans
        /\ UNCHANGED <<an, completed, uncompleted, poke, poke_lost>>

(* Mutant: takes only a running pig to be in the DAQ acquire loop soon. *)
InterruptRunning ==
    \E p \in to_interrupt :
        /\ to_interrupt' = to_interrupt \ {p}
        /\ an' = [an EXCEPT ![p].interrupted = @ \/ an[p].state = "RUNNING"]
        /\ UNCHANGED <<pending, completed, uncompleted, cmds, poke, poke_lost, mloc, midx, pigvars,
                       confvars, uservars, trough, orphans>>

(* Mutant: no interrupt. *)
InterruptNone ==
    \E p \in to_interrupt :
        /\ to_interrupt' = to_interrupt \ {p}
        /\ UNCHANGED <<anvars, mloc, midx, pigvars, confvars, uservars, trough, orphans>>

(* The rest of Analyzer::execute. *)
Interrupt ==
    \E p \in to_interrupt :
        /\ to_interrupt' = to_interrupt \ {p}
        /\ an' = [an EXCEPT ![p].interrupted =
                     @ \/ an[p].state \in {"STARTED", "RUNNING", "PAUSED"}]
        /\ UNCHANGED <<pending, completed, uncompleted, cmds, poke, poke_lost, mloc, midx, pigvars,
                       confvars, uservars, trough, orphans>>

(* main_broadcast_command *)
Broadcast(id, c) == Send(id, c, Pigs)

(* Mutant: any command's end ends the reload. *)
DestroyEndsReload(ids) ==
    LET swaps == {cmds[id] : id \in {i \in ids : cmds[i].kind = "swap"}}
    IN  /\ freed_conf' = freed_conf \union ({c.old_conf : c \in swaps} \ {None})
        /\ freed_attribs' = freed_attribs \union ({c.old_attribs : c \in swaps} \ {None})
        /\ reload_in_progress' = (reload_in_progress /\ ids = {})
        /\ UNCHANGED <<conf, attribs, last_attribs>>

(* ~ACSwap and ~Swapper for each swap among the commands deleted. *)
Destroy(ids) ==
    LET swaps == {cmds[id] : id \in {i \in ids : cmds[i].kind = "swap"}}
    IN  /\ freed_conf' = freed_conf \union ({c.old_conf : c \in swaps} \ {None})
        /\ freed_attribs' = freed_attribs \union ({c.old_attribs : c \in swaps} \ {None})
        /\ reload_in_progress' = (reload_in_progress /\ swaps = {})
        /\ UNCHANGED <<conf, attribs, last_attribs>>

(* Mutant: deletes a command at the first reference put back. *)
ReapAtOnce(Q, O) ==
    LET gone == O \union {id \in CmdIds : \E p \in Pigs : id \in Q[p]}
    IN  /\ cmds' = [id \in CmdIds |-> IF id \in gone THEN Dead ELSE cmds[id]]
        /\ Destroy(gone)

(* reap_command on every command of Q[p], for each pig p: puts the         *)
(* references back and deletes the commands whose count becomes 0, with    *)
(* the orphans of O.                                                       *)
Reap(Q, O) ==
    LET back(id) == Cardinality({p \in Pigs : id \in Q[p]})
        gone == O \union {id \in CmdIds : back(id) > 0 /\ cmds[id].refs = back(id)}
    IN  /\ cmds' = [id \in CmdIds |->
                      IF id \in gone THEN Dead ELSE [cmds[id] EXCEPT !.refs = @ - back(id)]]
        /\ Destroy(gone)

-----------------------------------------------------------------------------
(* Pigs *)

(* Pig::prep; the constructor's set_state(NEW) pokes at once. *)
Prep(p) ==
    /\ an' = [an EXCEPT ![p] = NewAnalyzer]
    /\ analyzer' = [analyzer EXCEPT ![p] = TRUE]
    /\ PutPoke(p)
    /\ swine' = swine + 1

(* Pig::start: the thread gets the configuration and table of the moment. *)
PigStart(p) ==
    /\ athread' = [athread EXCEPT ![p] = TRUE]
    /\ an' = [an EXCEPT ![p].pc = "init", ![p].conf = conf, ![p].attribs = attribs]
    /\ UNCHANGED <<pending, completed, uncompleted, cmds, poke, poke_lost, orphans, to_interrupt,
                   confvars>>

(* Pig::stop: waits for the thread, then reaps the completed and the       *)
(* pending commands and deletes the analyzer with what is left in it.      *)
PigStop(p) ==
    /\ an[p].pc = "done" /\ ~an[p].to_poke
    /\ athread' = [athread EXCEPT ![p] = FALSE]
    /\ analyzer' = [analyzer EXCEPT ![p] = FALSE]
    /\ Reap([q \in Pigs |-> IF q = p THEN completed[p] \union Range(pending[p]) ELSE {}], {})
    /\ an' = [an EXCEPT ![p] = NewAnalyzer]
    /\ pending' = [pending EXCEPT ![p] = <<>>]
    /\ completed' = [completed EXCEPT ![p] = {}]
    /\ uncompleted' = [uncompleted EXCEPT ![p] = [id \in CmdIds |-> 0]]
    /\ UNCHANGED <<poke, poke_lost, orphans, to_interrupt>>

-----------------------------------------------------------------------------
(* The main loop *)

(* In live mode every pig is prepared before the loop. *)
PrepAll ==
    /\ mloc = "prep"
    /\ \/ Prep(midx)
       \/ PrepFails /\ UNCHANGED <<an, analyzer, poke, poke_lost, swine>>
    /\ mloc' = IF midx = MaxPigs THEN "loop" ELSE "prep"
    /\ midx' = IF midx = MaxPigs THEN None ELSE midx + 1
    /\ UNCHANGED <<pending, completed, uncompleted, cmds, athread, awaiting, pigs_started,
                   all_pthreads_started, pending_privileges, dropped, confvars, uservars, trough,
                   orphans, to_interrupt>>

KeepGoing == swine > 0 \/ paused \/ (trough > 0 /\ ~exit_requested)

(* main_read returns a pig. *)
MainRead ==
    /\ mloc = "loop" /\ KeepGoing /\ poke # <<>>
    /\ midx' = Head(poke) /\ poke' = Tail(poke)
    /\ mloc' = "handle"
    /\ UNCHANGED <<an, pending, completed, uncompleted, cmds, poke_lost, pigvars, confvars,
                   uservars, trough, orphans, to_interrupt>>

(* A notification of an analyzer that is gone. *)
HandleGone ==
    /\ mloc = "handle" /\ ~analyzer[midx]
    /\ pending_privileges' = IF pending_privileges > 0 THEN pending_privileges - 1 ELSE 0
    /\ mloc' = "post"
    /\ UNCHANGED <<anvars, midx, analyzer, athread, awaiting, pigs_started,
                   all_pthreads_started, swine, dropped, confvars, uservars, trough, orphans, to_interrupt>>

HandleNew ==
    /\ mloc = "handle" /\ analyzer[midx] /\ an[midx].state = "NEW"
    /\ PigStart(midx)
    /\ mloc' = "post"
    /\ UNCHANGED <<midx, analyzer, awaiting, pigs_started, all_pthreads_started, swine,
                   pending_privileges, dropped, uservars, trough>>

(* Mutant: the last pig sends to itself only. *)
AdvanceAlone(wait, id, c) ==
    IF wait /\ pending_privileges > 1 /\ ~dropped
    THEN /\ awaiting' = [awaiting EXCEPT ![midx] = TRUE]
         /\ pending_privileges' = pending_privileges - 1
         /\ UNCHANGED <<anvars, orphans, to_interrupt, dropped>>
    ELSE /\ Send(id, c, {midx})
         /\ dropped' = wait
         /\ UNCHANGED <<awaiting, pending_privileges>>

(* Mutant: nobody waits for the privileges. *)
AdvanceAtOnce(wait, id, c) ==
    Send(id, c, {midx}) /\ UNCHANGED <<awaiting, pending_privileges, dropped>>

(* The INITIALIZED case (wait = privileged_start, c = ACStart) and the     *)
(* STARTED case (wait = the opposite, c = ACRun) of handle().  Until every *)
(* pig is counted nothing is sent; the last one drops the privileges and   *)
(* sends to all.                                                           *)
Advance(wait, id, c) ==
    IF wait /\ pending_privileges > 0 /\ ~dropped
    THEN LET left == IF awaiting[midx] THEN pending_privileges ELSE pending_privileges - 1
         IN  /\ awaiting' = [awaiting EXCEPT ![midx] = TRUE]
             /\ pending_privileges' = left
             /\ IF left > 0
                THEN UNCHANGED <<anvars, orphans, to_interrupt, dropped>>
                ELSE dropped' = TRUE /\ Broadcast(id, c)
    ELSE /\ Send(id, c, {midx})
         /\ UNCHANGED <<awaiting, pending_privileges, dropped>>

HandleInitialized ==
    /\ mloc = "handle" /\ analyzer[midx] /\ an[midx].state = "INITIALIZED"
    /\ mloc' = "post"
    /\ Advance(privileged_start, StartId(midx), Command("start", 0, 0))
    /\ UNCHANGED <<midx, analyzer, athread, pigs_started, all_pthreads_started, swine, confvars,
                   uservars, trough>>

HandleStarted ==
    /\ mloc = "handle" /\ analyzer[midx] /\ an[midx].state = "STARTED"
    /\ mloc' = "post"
    /\ Advance(~privileged_start, RunId(midx), Command("run", 0, IF paused THEN 1 ELSE 0))
    /\ UNCHANGED <<midx, analyzer, athread, pigs_started, all_pthreads_started, swine, confvars,
                   uservars, trough>>

(* Mutant: the pig that died is still counted. *)
HandleStoppedCounted ==
    /\ mloc = "handle" /\ analyzer[midx] /\ an[midx].state = "STOPPED"
    /\ PigStop(midx)
    /\ mloc' = "post"
    /\ UNCHANGED <<midx, awaiting, pigs_started, all_pthreads_started, swine, pending_privileges,
                   dropped, uservars, trough>>

HandleStopped ==
    /\ mloc = "handle" /\ analyzer[midx] /\ an[midx].state = "STOPPED"
    /\ PigStop(midx)
    /\ swine' = swine - 1
    /\ mloc' = "post"
    /\ UNCHANGED <<midx, awaiting, pigs_started, all_pthreads_started, pending_privileges,
                   dropped, uservars, trough>>

HandleOther ==
    /\ mloc = "handle" /\ analyzer[midx] /\ an[midx].state \in {"RUNNING", "PAUSED"}
    /\ mloc' = "post"
    /\ UNCHANGED <<anvars, midx, pigvars, confvars, uservars, trough, orphans, to_interrupt>>

(* What follows handle() in the loop; it reads the state once more.  None  *)
(* stands for an idx that nobody reads again.                              *)
AfterHandle ==
    /\ mloc = "post"
    /\ pigs_started' = [pigs_started EXCEPT
                          ![midx] = @ \/ (analyzer[midx] /\ an[midx].state = "STARTED")]
    /\ mloc' = IF swine = 0 /\ exit_requested THEN "done" ELSE "loop"
    /\ midx' = None
    /\ UNCHANGED <<anvars, analyzer, athread, awaiting, all_pthreads_started, swine,
                   pending_privileges, dropped, confvars, uservars, trough, orphans, to_interrupt>>

(* get_lazy_pig *)
LazyPig(p) == ~analyzer[p] /\ \A q \in 1 .. p - 1 : analyzer[q]

AllStarted ==
    all_pthreads_started \/
    \A p \in 1 .. (IF trough > 0 THEN MaxPigs ELSE swine) : pigs_started[p]

(* main_read returns nothing: the start-up flag, then a new pig for the    *)
(* next file if there is room, or else service_check().                    *)
MainIdle ==
    /\ mloc = "loop" /\ KeepGoing /\ poke = <<>>
    /\ all_pthreads_started' = AllStarted
    /\ IF ~exit_requested /\ swine < MaxPigs /\ trough > 0
       THEN /\ trough' = trough - 1
            /\ \/ \E p \in Pigs : LazyPig(p) /\ Prep(p)
               \/ PrepFails /\ UNCHANGED <<an, analyzer, poke, poke_lost, swine>>
            /\ UNCHANGED mloc
       ELSE /\ mloc' = "service"
            /\ UNCHANGED <<an, analyzer, poke, poke_lost, swine, trough>>
    /\ UNCHANGED <<pending, completed, uncompleted, cmds, midx, athread, awaiting, pigs_started,
                   pending_privileges, dropped, confvars, uservars, orphans, to_interrupt>>

LoopExit ==
    /\ mloc = "loop" /\ ~KeepGoing
    /\ mloc' = "done"
    /\ UNCHANGED <<anvars, midx, pigvars, confvars, uservars, trough, orphans, to_interrupt>>

-----------------------------------------------------------------------------
(* The commands of users and signals *)

(* main_pause, main_resume, main_quit, and the commands that only have the *)
(* packet threads do something this model does not show.                   *)
UserPause ==
    Broadcast(given + 1, Command("pause", 0, 0)) /\ paused' = TRUE /\ UNCHANGED <<exit_requested, confvars>>

UserResume(n) ==
    Broadcast(given + 1, Command("resume", 0, n)) /\ paused' = FALSE /\ UNCHANGED <<exit_requested, confvars>>

UserQuit ==
    Broadcast(given + 1, Command("stop", 0, 0)) /\ exit_requested' = TRUE /\ UNCHANGED <<paused, confvars>>

UserOther ==
    Broadcast(given + 1, Command("other", 0, 0)) /\ UNCHANGED <<paused, exit_requested, confvars>>

(* Every reload command is refused while a swap is in progress. *)
Refused == reload_in_progress /\ UNCHANGED <<anvars, orphans, to_interrupt, paused, exit_requested, confvars>>

SendSwap(c) ==
    /\ Broadcast(given + 1, c)
    /\ reload_in_progress' = TRUE
    /\ UNCHANGED <<paused, exit_requested, freed_conf, freed_attribs>>

(* main_reload_config: the new configuration may name a hosts file, whose  *)
(* loading may fail; activate() then leaves the main thread no table.      *)
UserReloadConfig ==
    \/ Refused
    \/ /\ ~reload_in_progress /\ conf < MaxLoads /\ last_attribs < MaxLoads
       /\ \E loaded \in HostTables : LET table == IF loaded THEN last_attribs + 1 ELSE None IN
             /\ conf' = conf + 1
             /\ attribs' = table
             /\ last_attribs' = IF table # None THEN table ELSE last_attribs
             /\ SendSwap([Command("swap", 0, 0) EXCEPT
                   !.old_conf = conf, !.new_conf = conf + 1,
                   !.old_attribs = attribs, !.new_attribs = table])

(* main_reload_policy, main_reload_module, main_delete_inspector. *)
UserReloadPolicy ==
    \/ Refused
    \/ /\ ~reload_in_progress /\ conf < MaxLoads
       /\ conf' = conf + 1
       /\ UNCHANGED <<attribs, last_attribs>>
       /\ SendSwap([Command("swap", 0, 0) EXCEPT !.old_conf = conf, !.new_conf = conf + 1])

(* main_reload_hosts *)
UserReloadHosts ==
    \/ Refused
    \/ /\ ~reload_in_progress /\ last_attribs < MaxLoads /\ TRUE \in HostTables
       /\ attribs' = last_attribs + 1 /\ last_attribs' = last_attribs + 1
       /\ UNCHANGED conf
       /\ SendSwap([Command("swap", 0, 0) EXCEPT
             !.old_attribs = attribs, !.new_attribs = last_attribs + 1])
    \/ /\ ~reload_in_progress /\ FALSE \in HostTables
       /\ attribs' = None
       /\ UNCHANGED <<anvars, orphans, to_interrupt, paused, exit_requested, reload_in_progress, conf,
                      freed_conf, freed_attribs, last_attribs>>

(* A reload whose new configuration or policy is bad changes nothing. *)
UserCommand(k) ==
    \/ k = "pause"  /\ UserPause
    \/ k = "resume" /\ UserResume(0)
    \/ k = "resume_n" /\ UserResume(1)
    \/ k = "quit"   /\ UserQuit
    \/ k = "int"    /\ IF paused THEN UserResume(0) ELSE UserQuit
    \/ k = "other"  /\ UserOther
    \/ k = "reload_config" /\ UserReloadConfig
    \/ k = "reload_policy" /\ UserReloadPolicy
    \/ k = "reload_hosts"  /\ UserReloadHosts

Serve(k) ==
    /\ given < MaxConsole /\ given' = given + 1
    /\ UserCommand(k)
    /\ UNCHANGED <<midx, pigvars, trough>>

(* ControlMgmt::service_users runs what the users typed, one command or    *)
(* several, and the main loop goes on without house keeping.               *)
ServiceUsers ==
    /\ mloc \in {"service", "shell"}
    /\ all_pthreads_started
    /\ \/ \E k \in Console : Serve(k) /\ mloc' = "shell"
       \/ /\ mloc = "shell" /\ mloc' = "loop"
          /\ UNCHANGED <<anvars, midx, pigvars, confvars, uservars, trough, orphans, to_interrupt>>

(* house_keeping: signal_check, at most one signal ... *)
SignalCheck ==
    /\ mloc = "service" /\ all_pthreads_started
    /\ \E k \in Signals : Serve(k)
    /\ mloc' = "reap"

(* ... and reap_commands. *)
HouseKeeping ==
    /\ mloc \in {"service", "reap"}
    /\ Reap(completed, orphans)
    /\ completed' = [p \in Pigs |-> {}]
    /\ orphans' = {}
    /\ mloc' = "loop"
    /\ UNCHANGED <<an, pending, uncompleted, poke, poke_lost, midx, pigvars, uservars, trough, to_interrupt>>

-----------------------------------------------------------------------------
Init ==
    /\ an = [p \in Pigs |-> NewAnalyzer]
    /\ pending = [p \in Pigs |-> <<>>]
    /\ completed = [p \in Pigs |-> {}]
    /\ uncompleted = [p \in Pigs |-> [id \in CmdIds |-> 0]]
    /\ cmds = [id \in CmdIds |-> Dead]
    /\ poke = <<>> /\ poke_lost = FALSE
    /\ mloc = IF ReadMode THEN "loop" ELSE "prep"
    /\ midx = IF ReadMode THEN None ELSE 1
    /\ analyzer = [p \in Pigs |-> FALSE]
    /\ athread = [p \in Pigs |-> FALSE]
    /\ awaiting = [p \in Pigs |-> FALSE]
    /\ privileged_start \in UnprivStart
    /\ pigs_started = [p \in Pigs |-> FALSE]
    /\ all_pthreads_started = FALSE
    /\ swine = 0
    /\ pending_privileges = IF ChangePrivileges THEN MaxPigs ELSE 0
    /\ dropped = FALSE
    /\ paused = StartPaused /\ exit_requested = FALSE
    /\ trough = IF ReadMode THEN Sources ELSE 0
    /\ orphans = {} /\ to_interrupt = {}
    /\ reload_in_progress = FALSE
    /\ conf = 1 /\ attribs = 1 /\ last_attribs = 1
    /\ freed_conf = {} /\ freed_attribs = {}
    /\ given = 0

MainStep ==
    \/ PrepAll \/ MainRead
    \/ HandleGone \/ HandleNew \/ HandleInitialized \/ HandleStarted \/ HandleStopped \/ HandleOther
    \/ AfterHandle \/ MainIdle \/ LoopExit
    \/ ServiceUsers \/ SignalCheck \/ HouseKeeping

MainThread ==
    /\ UNCHANGED privileged_start
    /\ \/ Interrupt
       \/ to_interrupt = {} /\ MainStep

PacketThreads == \E p \in Pigs : PacketThread(p) /\ UNCHANGED mainvars

Terminated == mloc = "done" /\ UNCHANGED vars

Next == MainThread \/ PacketThreads \/ Terminated

Spec == Init /\ [][Next]_vars

(* The scheduler runs every thread. *)
FairSpec ==
    /\ Spec
    /\ WF_vars(MainThread)
    /\ \A p \in Pigs : WF_vars(PacketThread(p) /\ UNCHANGED mainvars)

(* A tuner of a pig that keeps running ends: it is given a bounded piece   *)
(* of its work with every message and every timeout.                       *)
Tuned(p) ==
    /\ Unfinished(p) # {}
    /\ PacketThread(p) /\ uncompleted'[p] # uncompleted[p] /\ UNCHANGED mainvars

TunedSpec == FairSpec /\ \A p \in Pigs : SF_vars(Tuned(p))

-----------------------------------------------------------------------------
(* Properties *)

AnalyzerType ==
    [state : States, pc : {"none", "init", "loop", "drain", "term", "done"}, to_poke : BOOLEAN,
     exit_requested : BOOLEAN, interrupted : BOOLEAN, exit_after_cnt : Nat, pause_after_cnt : Nat,
     skip_cnt : Nat, left : Nat, cur : CmdIds \union {None}, conf : Nat, attribs : Nat]

CommandType ==
    [kind : {"none", "start", "run", "stop", "pause", "resume", "swap", "other"}, refs : 0 .. MaxPigs,
     arg : 0 .. 1, old_conf : Nat, new_conf : Nat, old_attribs : Nat, new_attribs : Nat]

(* Every variable keeps to its type; in particular no reference count and  *)
(* no counter of pigs or privileges ever passes below 0 or above its       *)
(* number of pigs.                                                         *)
TypeOK ==
    /\ an \in [Pigs -> AnalyzerType]
    /\ pending \in [Pigs -> Seq(CmdIds)]
    /\ completed \in [Pigs -> SUBSET CmdIds]
    /\ uncompleted \in [Pigs -> [CmdIds -> 0 .. MaxTuners]]
    /\ cmds \in [CmdIds -> CommandType]
    /\ poke \in Seq(Pigs) /\ poke_lost \in BOOLEAN
    /\ mloc \in {"prep", "loop", "handle", "post", "service", "shell", "reap", "done"}
    /\ midx \in Pigs \union {None}
    /\ analyzer \in [Pigs -> BOOLEAN] /\ athread \in [Pigs -> BOOLEAN]
    /\ awaiting \in [Pigs -> BOOLEAN] /\ pigs_started \in [Pigs -> BOOLEAN]
    /\ privileged_start \in BOOLEAN
    /\ all_pthreads_started \in BOOLEAN /\ dropped \in BOOLEAN /\ paused \in BOOLEAN
    /\ exit_requested \in BOOLEAN /\ reload_in_progress \in BOOLEAN
    /\ swine \in 0 .. MaxPigs /\ pending_privileges \in 0 .. MaxPigs
    /\ trough \in Nat /\ given \in 0 .. MaxConsole
    /\ conf \in Nat /\ attribs \in Nat /\ last_attribs \in Nat
    /\ orphans \subseteq CmdIds /\ to_interrupt \subseteq Pigs
    /\ freed_conf \subseteq Nat /\ freed_attribs \subseteq Nat

(* The pigs that have command id in a queue or in their hands. *)
Holders(id) ==
    {p \in Pigs : id \in Range(pending[p]) \union completed[p] \union Unfinished(p) \union {an[p].cur}}

(* No packet thread holds a command that the main thread has deleted: its  *)
(* reference count covers every pig that has it (queue_command and         *)
(* reap_command of main.cc), and an orphan is with no pig.                 *)
CommandsAlive ==
    /\ \A id \in CmdIds : Cardinality(Holders(id)) <= cmds[id].refs
    /\ \A id \in orphans : cmds[id] # Dead /\ cmds[id].refs = 0

(* "Reap all analyzer commands, completed or not" (Pig::stop): a command   *)
(* has no reference beyond those of the pigs that still have it, so that   *)
(* it is deleted once they are done with it.                               *)
CommandsHeld == \A id \in CmdIds : cmds[id].refs = Cardinality(Holders(id))

(* No thread uses, and no swap still to be applied brings in, a            *)
(* configuration that ~Swapper has deleted.                                *)
ConfAlive ==
    /\ conf \notin freed_conf
    /\ \A p \in Pigs : athread[p] => an[p].conf \notin freed_conf
    /\ \A id \in CmdIds : cmds[id].new_conf \notin freed_conf

(* The same for host attribute tables. *)
AttribsAlive ==
    /\ attribs \notin freed_attribs
    /\ \A p \in Pigs : athread[p] => an[p].attribs \notin freed_attribs

(* When no reload is in progress every packet thread, whenever it was      *)
(* started, has the configuration the main thread has: ~ACSwap reports     *)
(* "reload complete" and lets the next reload in only then.                *)
SwapComplete ==
    ~reload_in_progress => \A p \in Pigs : athread[p] => an[p].conf = conf

TakesCommands(p) ==
    pending[p] # <<>> /\ (an[p].pc = "drain" \/ (an[p].pc = "loop" /\ ~an[p].exit_requested))

(* The asserts of Analyzer::start, Analyzer::run and Pig::start hold       *)
(* whenever these are about to be called, however commands and             *)
(* notifications are delayed, and handle() never makes a START or a RUN    *)
(* for a pig while its last one is alive.                                  *)
AssertsHold ==
    /\ \A p \in Pigs : TakesCommands(p) =>
          LET kind == cmds[Head(pending[p])].kind
          IN  /\ kind = "start" => an[p].state = "INITIALIZED"
              /\ kind = "run" => an[p].state = "STARTED"
    /\ mloc = "handle" /\ analyzer[midx] =>
          /\ athread[midx] <=> an[midx].state # "NEW"
          /\ an[midx].state = "INITIALIZED" => cmds[StartId(midx)] = Dead
          /\ an[midx].state = "STARTED" => cmds[RunId(midx)] = Dead

(* swine counts the analyzers, a thread has one, and the main loop ends    *)
(* only when every thread has been joined.                                 *)
DroveCounted ==
    /\ swine = Cardinality({p \in Pigs : analyzer[p]})
    /\ \A p \in Pigs : athread[p] => analyzer[p]
    /\ mloc = "done" => swine = 0

(* A pig that is receiving packets and has commands waiting has been       *)
(* interrupted, or the main thread is about to interrupt it                *)
(* (Analyzer::execute): no command waits for the traffic to pause.         *)
CommandsNoticed ==
    \A p \in Pigs : an[p].pc = "loop" /\ an[p].state = "RUNNING" /\ pending[p] # <<>> =>
        an[p].interrupted \/ an[p].exit_requested \/ p \in to_interrupt

(* --pause: until a user says resume no pig processes packets. *)
StaysPaused == StartPaused /\ given = 0 => \A p \in Pigs : an[p].state # "RUNNING"

(* "maximum number of state change notifications per pig" (snort_main):    *)
(* pig_poke has room for every notification.                               *)
NotificationsFit == ~poke_lost

LifecycleSpec ==
    INSTANCE Lifecycle WITH life <- [p \in Pigs |-> IF analyzer[p] THEN an[p].state ELSE "NONE"]

(* The analyzers live as main/dev_notes.txt says, privileges dropped       *)
(* before a pig runs: every step is a step of Lifecycle or none.           *)
Implemented == LifecycleSpec!Spec

(* quit ends the program: every pig stops, is joined, and main_loop ends.  *)
QuitEnds == exit_requested ~> mloc = "done"

(* A pig that has been initialized gets its START and its RUN, or stops.   *)
PigsRun ==
    \A p \in Pigs : an[p].state \in {"INITIALIZED", "STARTED"} ~>
        an[p].state \notin {"INITIALIZED", "STARTED"}

(* A reload that was begun completes, and the next one can be asked for. *)
ReloadEnds == reload_in_progress ~> ~reload_in_progress
=============================================================================
