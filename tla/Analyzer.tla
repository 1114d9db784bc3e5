------------------------------ MODULE Analyzer ------------------------------
(***************************************************************************)
(* The packet threads (main/analyzer.cc), the commands they are sent       *)
(* (main/analyzer_command.cc, main/swapper.cc) and what they share with    *)
(* the main thread: the three work queues, the DAQ interrupt flag and the  *)
(* poke ring (main_poke in main.cc).  The main thread is in MainLoop,      *)
(* which extends this module.                                              *)
(*                                                                         *)
(* A packet is one DAQ message; what detection does with it is not here.   *)
(* A configuration and a host attribute table are numbers: the k-th one    *)
(* loaded.                                                                 *)
(***************************************************************************)
EXTENDS Naturals, Sequences, FiniteSets, Functions

CONSTANTS
    MaxPigs,        \* max_pigs: ThreadConfig::get_instance_max()
    MaxConsole,     \* bound: commands users and signals give
    MaxTuners,      \* bound: reload tuners of one new configuration
    BatchSize,      \* daq_instance->get_batch_size()
    ExitAfter,      \* sc->pkt_cnt (-n), 0 for none
    Skip,           \* sc->pkt_skip
    ReadMode,       \* sources are finite (files)
    SourceLen,      \* bound: messages in one file
    DaqStartFails,  \* daq_instance->start() may fail
    RecvFails       \* a receive may return ERROR, NOBUF or INVALID

ASSUME AnalyzerAssumption ==
    /\ {MaxPigs, BatchSize} \subseteq Nat \ {0}
    /\ {MaxConsole, MaxTuners, ExitAfter, Skip, SourceLen} \subseteq Nat
    /\ {ReadMode, DaqStartFails, RecvFails} \subseteq BOOLEAN

Pigs == 1 .. MaxPigs
None == 0       \* no command, no configuration, no table; real ones count from 1

(* The identity of a command object: its number if a user or a signal gave *)
(* it, otherwise the ACStart or the ACRun made on the notice of pig p.     *)
CmdIds == 1 .. MaxConsole + 2 * MaxPigs
StartId(p) == MaxConsole + p
RunId(p) == MaxConsole + MaxPigs + p

States == {"NEW", "INITIALIZED", "STARTED", "RUNNING", "PAUSED", "STOPPED"}

(* Mutant: room for one notification per pig. *)
PokeCapacityPerPig == MaxPigs + 1 - 2

(* NUM_STATES counts the six states; snort_main makes the ring one larger  *)
(* than a notification per pig and state, and Ring keeps two slots free.   *)
NumStates == 6
PokeCapacity == MaxPigs * NumStates + 1 - 2

VARIABLES
    an,             \* one record per pig: its Analyzer, its thread and the thread's locals
    pending,        \* pending_work_queue of each analyzer: a sequence of commands
    completed,      \* completed_work_queue: a set, its order decides nothing
    uncompleted,    \* uncompleted_work_queue: tuners left, 0 for a command not in it
    cmds,           \* the command objects alive, by identity
    poke,           \* pig_poke
    poke_lost       \* TRUE once a put into a full pig_poke was ignored

anvars == <<an, pending, completed, uncompleted, cmds, poke, poke_lost>>

(* pc of the packet thread: none before Pig::start and after join; init in *)
(* operator() before the state is INITIALIZED; loop at the top of          *)
(* analyze(); drain in handle_commands(); term after analyze(); done when  *)
(* operator() has returned.  to_poke: set_state has stored the state and   *)
(* has not called main_poke yet; cur is the command whose execute did it.  *)
NewAnalyzer ==
    [state |-> "NEW", pc |-> "none", to_poke |-> FALSE, exit_requested |-> FALSE,
     interrupted |-> FALSE, exit_after_cnt |-> ExitAfter, pause_after_cnt |-> 0,
     skip_cnt |-> Skip, left |-> SourceLen, cur |-> None, conf |-> None, attribs |-> None]

(* Fields: refs is ref_count, arg is ACRun::paused or ACResume::msg_cnt,   *)
(* the last four belong to the Swapper of an ACSwap.                       *)
Command(kind, refs, arg) ==
    [kind |-> kind, refs |-> refs, arg |-> arg,
     old_conf |-> None, new_conf |-> None, old_attribs |-> None, new_attribs |-> None]

Dead == Command("none", 0, 0)

(* main_poke: a full ring ignores the notification. *)
PutPoke(p) ==
    IF Len(poke) < PokeCapacity
    THEN poke' = Append(poke, p) /\ UNCHANGED poke_lost
    ELSE poke_lost' = TRUE /\ UNCHANGED poke

-----------------------------------------------------------------------------
(* What a command does to the analyzer record a that executes it. *)

SetState(a, s) == [a EXCEPT !.state = s, !.to_poke = TRUE]

Start(a, ok) == SetState([a EXCEPT !.exit_requested = @ \/ ~ok], "STARTED")

Run(a, is_paused) == SetState(a, IF is_paused = 1 THEN "PAUSED" ELSE "RUNNING")

Stop(a) == [a EXCEPT !.exit_requested = TRUE]

Pause(a) == IF a.state = "RUNNING" THEN SetState(a, "PAUSED") ELSE a

(* Mutant: resumes a pig in any state. *)
ResumeAnyState(a, msg_cnt) == SetState([a EXCEPT !.pause_after_cnt = msg_cnt], "RUNNING")

Resume(a, msg_cnt) ==
    IF a.state = "PAUSED"
    THEN SetState([a EXCEPT !.pause_after_cnt = msg_cnt], "RUNNING")
    ELSE a

(* Mutant: forgets the host attribute table. *)
SwapConfOnly(a, c) == [a EXCEPT !.conf = IF c.new_conf # None THEN c.new_conf ELSE @]

(* Swapper::apply: a null member leaves what the thread has. *)
Swap(a, c) ==
    [a EXCEPT !.conf = IF c.new_conf # None THEN c.new_conf ELSE @,
              !.attribs = IF c.new_attribs # None THEN c.new_attribs ELSE @]

Execute(a, c, ok) ==
    CASE c.kind = "start"  -> Start(a, ok)
      [] c.kind = "run"    -> Run(a, c.arg)
      [] c.kind = "stop"   -> Stop(a)
      [] c.kind = "pause"  -> Pause(a)
      [] c.kind = "resume" -> Resume(a, c.arg)
      [] c.kind = "swap"   -> Swap(a, c)
      [] OTHER             -> a       \* statistics, rotate, DAQ reload

(* Mutant: a command that is done at once is not put with the completed.   *)
ExecutedForgets(p, id) ==
    \E tuners \in IF cmds[id].new_conf # None THEN 0 .. MaxTuners ELSE {0} :
        /\ uncompleted' = [uncompleted EXCEPT ![p][id] = tuners]
        /\ cmds' = [cmds EXCEPT ![id].arg = IF cmds[id].kind = "run" THEN 0 ELSE @]
        /\ UNCHANGED completed

(* handle_command after execute.  ACRun clears its own flag when it has     *)
(* run.  An ACSwap with a configuration builds its list of tuners (those    *)
(* whose tinit() is TRUE) and runs the first; while tuners remain it is     *)
(* uncompleted.                                                             *)
Executed(p, id) ==
    \E tuners \in IF cmds[id].new_conf # None THEN 0 .. MaxTuners ELSE {0} :
        /\ uncompleted' = [uncompleted EXCEPT ![p][id] = tuners]
        /\ completed' = [completed EXCEPT ![p] = IF tuners = 0 THEN @ \union {id} ELSE @]
        /\ cmds' = [cmds EXCEPT ![id].arg = IF cmds[id].kind = "run" THEN 0 ELSE @]

(* handle_command on a nonempty queue, up to the main_poke of set_state if *)
(* the command calls that.                                                 *)
HandleCommand(p) ==
    LET id == Head(pending[p]) IN
    /\ pending' = [pending EXCEPT ![p] = Tail(@)]
    /\ \E ok \in IF DaqStartFails THEN BOOLEAN ELSE {TRUE} :
          LET a == Execute(an[p], cmds[id], ok) IN
          /\ an' = [an EXCEPT ![p] = [a EXCEPT !.cur = IF a.to_poke THEN id ELSE None]]
          /\ IF a.to_poke THEN UNCHANGED <<completed, uncompleted, cmds>> ELSE Executed(p, id)
    /\ UNCHANGED <<poke, poke_lost>>

(* The main_poke of set_state and, in a command, the rest of it. *)
Poke(p) ==
    /\ an[p].to_poke
    /\ an' = [an EXCEPT ![p].to_poke = FALSE, ![p].cur = None]
    /\ PutPoke(p)
    /\ IF an[p].cur # None THEN Executed(p, an[p].cur) ELSE UNCHANGED <<completed, uncompleted, cmds>>
    /\ UNCHANGED pending

Unfinished(p) == {id \in CmdIds : uncompleted[p][id] > 0}

(* n calls of handle_uncompleted_commands: each call applies the swap      *)
(* again and runs the first tuner left, which finishes or does not.        *)
HandleUncompleted(p, n) ==
    \E left \in [Unfinished(p) -> 0 .. MaxTuners] :
        /\ \A id \in Unfinished(p) :
              left[id] <= uncompleted[p][id] /\ uncompleted[p][id] <= left[id] + n
        /\ uncompleted' = [uncompleted EXCEPT ![p] =
                             [id \in CmdIds |-> IF id \in Unfinished(p) THEN left[id] ELSE 0]]
        /\ completed' = [completed EXCEPT ![p] =
                           @ \union {id \in Unfinished(p) : left[id] = 0}]

(* What the swaps applied again leave a with; there is one at most. *)
Reapplied(a, p, n) ==
    IF n = 0 \/ Unfinished(p) = {}
    THEN a
    ELSE Swap(a, cmds[CHOOSE id \in Unfinished(p) : TRUE])

-----------------------------------------------------------------------------
(* The packet thread. *)

(* operator() up to set_state(INITIALIZED).  The Swapper it applies was    *)
(* made by Pig::start with the configuration and table of that moment.     *)
ThreadInit(p) ==
    /\ an[p].pc = "init"
    /\ an' = [an EXCEPT ![p] = SetState([@ EXCEPT !.pc = "loop"], "INITIALIZED")]
    /\ UNCHANGED <<pending, completed, uncompleted, cmds, poke, poke_lost>>

(* analyze(), not running: one command per turn, or sleep when none. *)
AnalyzeStalled(p) ==
    /\ an[p].pc = "loop" /\ ~an[p].exit_requested /\ an[p].state # "RUNNING"
    /\ pending[p] # <<>>
    /\ HandleCommand(p)

Lesser(m, n) == IF m < n THEN m ELSE n

Capped(n, limit) == IF limit > 0 THEN Lesser(n, limit) ELSE n

(* Mutant: forgets the pause_after count. *)
MaxRecvNoPause(a) == Capped(BatchSize, a.exit_after_cnt)

MaxRecv(a) == Capped(Capped(BatchSize, a.exit_after_cnt), a.pause_after_cnt)

(* How many messages receive_messages may get, and the status it returns   *)
(* with n of them; DAQ library.  A file is read in full batches until the  *)
(* short one at its end; an interrupt cuts a batch short.                  *)
RecvCounts(a) ==
    IF ~ReadMode THEN 0 .. MaxRecv(a)
    ELSE IF a.interrupted THEN 0 .. Lesser(MaxRecv(a), a.left)
    ELSE {Lesser(MaxRecv(a), a.left)}

RecvStatus(a, n) ==
    IF a.interrupted THEN {"INTERRUPTED"}
    ELSE IF ReadMode THEN {IF n < MaxRecv(a) THEN "EOF" ELSE "OK"}
    ELSE {"OK", "TIMEOUT"} \union (IF RecvFails THEN {"ERROR"} ELSE {})

(* The message counters at the end of process_messages. *)
CountDown(a, num_recv) ==
    LET e == IF a.exit_after_cnt > 0 /\ a.exit_after_cnt = num_recv THEN Stop(a) ELSE a
        q == IF a.pause_after_cnt > 0 /\ a.pause_after_cnt = num_recv THEN Pause(e) ELSE e
        Less(cnt) == IF cnt > 0 THEN cnt - num_recv ELSE 0
    IN  [q EXCEPT !.exit_after_cnt = Less(@), !.pause_after_cnt = Less(@)]

(* analyze(), running: process_messages, then what the status asks for;    *)
(* TIMEOUT runs idle(), whose commands part is one more call of            *)
(* handle_uncompleted_commands.                                            *)
AnalyzeRunning(p) ==
    LET a == an[p] IN
    /\ a.pc = "loop" /\ ~a.exit_requested /\ a.state = "RUNNING"
    /\ \E n \in RecvCounts(a) : \E rstat \in RecvStatus(a, n) :
          LET skipped == Lesser(n, a.skip_cnt)
              calls   == n - skipped + IF rstat = "TIMEOUT" THEN 1 ELSE 0
          IN  /\ HandleUncompleted(p, calls)
              /\ an' = [an EXCEPT ![p] =
                   [CountDown(Reapplied(a, p, calls), n - skipped) EXCEPT
                      !.skip_cnt = @ - skipped,
                      !.left = IF ReadMode THEN @ - n ELSE @,
                      !.interrupted = FALSE,
                      !.pc = CASE rstat = "INTERRUPTED" -> "drain"
                               [] rstat \in {"EOF", "ERROR"} -> "term"
                               [] OTHER -> "loop"]]
    /\ UNCHANGED <<pending, cmds, poke, poke_lost>>

(* handle_commands: until the queue is found empty. *)
Drain(p) ==
    /\ an[p].pc = "drain"
    /\ pending[p] # <<>>
    /\ HandleCommand(p)

Drained(p) ==
    /\ an[p].pc = "drain"
    /\ pending[p] = <<>>
    /\ an' = [an EXCEPT ![p].pc = "loop"]
    /\ UNCHANGED <<pending, completed, uncompleted, cmds, poke, poke_lost>>

(* The loop of analyze() ends when exit_requested is seen. *)
AnalyzeExit(p) ==
    /\ an[p].pc = "loop" /\ an[p].exit_requested
    /\ an' = [an EXCEPT ![p].pc = "term"]
    /\ UNCHANGED <<pending, completed, uncompleted, cmds, poke, poke_lost>>

(* term() and the last set_state. *)
ThreadTerm(p) ==
    /\ an[p].pc = "term"
    /\ an' = [an EXCEPT ![p] = SetState([@ EXCEPT !.pc = "done"], "STOPPED")]
    /\ UNCHANGED <<pending, completed, uncompleted, cmds, poke, poke_lost>>

PacketThread(p) ==
    \/ Poke(p)
    \/ /\ ~an[p].to_poke
       /\ \/ ThreadInit(p)
          \/ AnalyzeStalled(p)
          \/ AnalyzeRunning(p)
          \/ Drain(p)
          \/ Drained(p)
          \/ AnalyzeExit(p)
          \/ ThreadTerm(p)
=============================================================================
