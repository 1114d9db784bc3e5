----------------------------- MODULE Life_proof -----------------------------
(***************************************************************************)
(* The START and the RUN of a pig: on which notification each is made, how *)
(* long it is alive, and where it finds the analyzer. Every step keeps     *)
(* this, no assertion about an analyzer's state fails, and every step is   *)
(* one that Lifecycle allows.                                              *)
(***************************************************************************)
EXTENDS Threads_proof

USE ZenonT(30)

-----------------------------------------------------------------------------
(* The life of an analyzer *)

Handled(p) == mloc = "handle" /\ midx = p

(* A notification of pig p is on its way or in the hands of main_loop. *)
Noticed(p) == an[p].to_poke \/ p \in Range(poke) \/ Handled(p)

(* p is in s once at most. *)
Alone(p, s) == \A i, j \in 1 .. Len(s) : s[i] = p /\ s[j] = p => i = j

(* There is no more than one. *)
NoticedOnce(p) ==
    /\ an[p].to_poke => p \notin Range(poke) /\ ~Handled(p)
    /\ Handled(p) => p \notin Range(poke)
    /\ Alone(p, poke)

(* Where the thread is, and the state it has stored. *)
Placed(p) ==
    /\ athread[p] <=> an[p].pc # "none"
    /\ ~athread[p] => pending[p] = <<>> /\ completed[p] = {}
    /\ an[p].pc \in {"none", "init"} => an[p].state = "NEW" /\ ~an[p].to_poke
    /\ an[p].pc \in {"loop", "drain", "term"} =>
          an[p].state \in {"INITIALIZED", "STARTED", "RUNNING", "PAUSED"}
    /\ an[p].pc = "done" => an[p].state = "STOPPED"

(* The START and the RUN a pig has are its own. *)
OwnOnly(p) ==
    \A id \in CmdIds : id > MaxConsole /\ Held(id, pending[p], completed[p], uncompleted[p], an[p]) =>
        id \in {StartId(p), RunId(p)}

(* They are alive only while the pig has them. *)
OwnAlive(p) ==
    \A id \in {StartId(p), RunId(p)} : cmds[id].kind # "none" =>
        cmds[id].refs = 1 /\ (id \in Range(pending[p]) \/ id \in completed[p] \/ an[p].cur = id)

(* How far START and RUN are: a START is made on the only notification of  *)
(* INITIALIZED, a RUN on that of STARTED.                                  *)
Stage(p) ==
    LET start == cmds[StartId(p)].kind
        run   == cmds[RunId(p)].kind
        s     == an[p].state
    IN  /\ s = "NEW" => start = "none" /\ run = "none"
        /\ s = "NEW" /\ analyzer[p] => NoticedOnce(p)
        /\ s = "NEW" /\ athread[p] => ~Noticed(p)
        /\ s \in {"INITIALIZED", "STARTED"} => NoticedOnce(p)
        /\ s = "INITIALIZED" => run = "none" /\ (start # "none" => ~Noticed(p))
        /\ s = "STARTED" => StartId(p) \notin Range(pending[p]) /\ (run # "none" => ~Noticed(p))
        /\ s \in {"RUNNING", "PAUSED"} => {StartId(p), RunId(p)} \cap Range(pending[p]) = {}

(* A pig that runs, or is about to, is interrupted for its commands. *)
Called(p) ==
    /\ an[p].pc = "loop" /\ pending[p] # <<>>
    /\ \/ an[p].state \in {"RUNNING", "PAUSED"}
       \/ an[p].state = "STARTED" /\ RunId(p) \in Range(pending[p])
    => an[p].interrupted \/ an[p].exit_requested \/ p \in to_interrupt

(* The kinds of the commands, and no pig started before all are prepared. *)
Sorted ==
    /\ \A id \in CmdIds :
          /\ cmds[id].kind = "none" => cmds[id] = Dead
          /\ cmds[id].kind = "start" => \E p \in Pigs : id = StartId(p)
          /\ cmds[id].kind = "run" => \E p \in Pigs : id = RunId(p)
          /\ cmds[id].kind \notin {"none", "start", "run"} => id <= MaxConsole
    /\ mloc = "prep" => \A p \in Pigs : ~athread[p] /\ (p \in Range(poke) => p < midx)
    /\ pending_privileges = 0

Life(p) == Placed(p) /\ OwnOnly(p) /\ OwnAlive(p) /\ Stage(p) /\ Called(p)

LifeInv == Sorted /\ \A p \in Pigs : Life(p)

-----------------------------------------------------------------------------
(* What the steps have in common *)

(* The identities of START and RUN are apart from each other and from      *)
(* those of the commands given.                                            *)
LEMMA OwnIds ==
    ASSUME NEW p \in Pigs, NEW q \in Pigs
    PROVE  /\ StartId(p) \in CmdIds /\ RunId(p) \in CmdIds /\ StartId(p) # None /\ RunId(p) # None
           /\ StartId(p) > MaxConsole /\ RunId(p) > MaxConsole /\ StartId(p) # RunId(q)
           /\ StartId(p) = StartId(q) => p = q
           /\ RunId(p) = RunId(q) => p = q
<1>1. MaxPigs \in Nat \ {0} /\ MaxConsole \in Nat
  BY AnalyzerAssumption
<1> QED
  BY <1>1, SMTT(20) DEF Pigs, StartId, RunId, CmdIds, None

(* main_poke of p notifies of p, or is lost. *)
LEMMA PutPokeNotices ==
    ASSUME TypeOK, NEW p \in Pigs, PutPoke(p)
    PROVE  /\ \A q \in Pigs : q \in Range(poke') => q = p \/ q \in Range(poke)
           /\ \A q \in Pigs : q # p /\ Alone(q, poke) => Alone(q, poke')
           /\ p \notin Range(poke) => Alone(p, poke')
<1>1. poke \in Seq(Pigs) /\ Len(poke) \in Nat /\ Range(poke) = {poke[i] : i \in 1 .. Len(poke)}
  <2>1. poke \in Seq(Pigs)
    BY DEF TypeOK
  <2>2. Len(poke) \in Nat /\ DOMAIN poke = 1 .. Len(poke)
    BY <2>1, SMTT(20)
  <2> QED
    BY <2>1, <2>2 DEF Range
<1>2. CASE poke' = Append(poke, p)
  <2>1. Len(poke') = Len(poke) + 1
    BY <1>1, <1>2, SMTT(20)
  <2>2. \A i \in 1 .. Len(poke') : poke'[i] = (IF i = Len(poke) + 1 THEN p ELSE poke[i])
    BY <1>1, <1>2, SMTT(20)
  <2>3. Range(poke') = Range(poke) \union {p}
    BY <1>1, <1>2, AppendFacts, SMTT(20)
  <2>4. ASSUME NEW q \in Pigs, q # p, Alone(q, poke) PROVE Alone(q, poke')
    BY <1>1, <2>1, <2>2, <2>4, SMTT(20) DEF Alone
  <2>5. ASSUME p \notin Range(poke) PROVE Alone(p, poke')
    <3>1. \A i \in 1 .. Len(poke) : poke[i] # p
      BY <1>1, <2>5
    <3> QED
      BY <1>1, <2>1, <2>2, <3>1, SMTT(20) DEF Alone
  <2> QED
    BY <2>3, <2>4, <2>5
<1>3. CASE poke' = poke
  <2>1. ASSUME p \notin Range(poke) PROVE Alone(p, poke)
    BY <1>1, <2>1 DEF Alone
  <2> QED
    BY <1>3, <2>1
<1> QED
  BY <1>2, <1>3 DEF PutPoke

(* Nothing that matters to the life of q changes, and no notification of   *)
(* q is added.                                                             *)
LEMMA LifeKept ==
    ASSUME NEW q \in Pigs, Life(q),
           an'[q] = an[q], pending'[q] = pending[q], completed'[q] = completed[q],
           uncompleted'[q] = uncompleted[q], athread'[q] = athread[q], analyzer'[q] => analyzer[q],
           \A id \in {StartId(q), RunId(q)} :
              cmds'[id].kind = cmds[id].kind /\ cmds'[id].refs = cmds[id].refs,
           Noticed(q)' => Noticed(q), NoticedOnce(q) => NoticedOnce(q)',
           q \in to_interrupt => q \in to_interrupt'
    PROVE  Life(q)'
<1>1. Placed(q) /\ OwnOnly(q) /\ OwnAlive(q) /\ Stage(q) /\ Called(q)
  BY DEF Life
<1>2. Placed(q)'
  BY <1>1 DEF Placed
<1>3. OwnOnly(q)'
  BY <1>1 DEF OwnOnly
<1>4. OwnAlive(q)'
  BY <1>1 DEF OwnAlive
<1>5. Stage(q)'
  BY <1>1 DEF Stage
<1>6. Called(q)'
  BY <1>1 DEF Called
<1> QED
  BY <1>2, <1>3, <1>4, <1>5, <1>6 DEF Life

(* A command that a pig has is alive. *)
LEMMA HeldAlive ==
    ASSUME Inv, Sorted, NEW p \in Pigs, NEW id \in CmdIds,
           Held(id, pending[p], completed[p], uncompleted[p], an[p])
    PROVE  cmds[id].kind # "none"
<1>1. TypeOK /\ CommandsAlive
  BY DEF Inv
<1>2. Holders(id) \in SUBSET Pigs /\ p \in Holders(id)
  BY DEF Held, Holders, Unfinished
<1>3. Cardinality(Holders(id)) \in 0 .. MaxPigs
  BY <1>2, StillCounting DEF Counting
<1>4. Cardinality(Holders(id)) # 0
  BY <1>2, StillCounting DEF Counting
<1>5. cmds[id].refs # 0
  BY <1>1, <1>3, <1>4, SMTT(20) DEF CommandsAlive
<1> QED
  BY <1>5, SMTT(20) DEF Sorted, Dead, Command

(* START and RUN are commands of these kinds and of no other. *)
LEMMA OwnKinds ==
    ASSUME Inv, Sorted, NEW p \in Pigs
    PROVE  /\ cmds[StartId(p)].kind \in {"none", "start"} /\ cmds[StartId(p)].new_conf = None
           /\ cmds[RunId(p)].kind \in {"none", "run"} /\ cmds[RunId(p)].new_conf = None
<1>1. MaxConsole \in Nat /\ \A id \in CmdIds : id > MaxConsole => ~(id <= MaxConsole)
  BY AnalyzerAssumption, SMTT(20) DEF CmdIds
<1>2. cmds[StartId(p)].kind \in {"none", "start"}
  BY <1>1, OwnIds DEF Sorted
<1>3. cmds[RunId(p)].kind \in {"none", "run"}
  BY <1>1, OwnIds DEF Sorted
<1>4. \A id \in CmdIds : cmds[id].kind # "swap" => cmds[id].new_conf = None
  BY DEF Inv, SwapsAlive
<1> QED
  BY <1>2, <1>3, <1>4, OwnIds

-----------------------------------------------------------------------------
(* Steps of a packet thread *)

(* What a packet thread does changes no life but its own. *)
LEMMA PacketLife ==
    ASSUME LifeInv, NEW p \in Pigs, UNCHANGED mainvars, SameCommands, athread[p],
           \A id \in CmdIds : cmds[id].kind = "none" => cmds'[id] = cmds[id],
           \A q \in Pigs : q # p =>
              /\ an'[q] = an[q] /\ pending'[q] = pending[q]
              /\ completed'[q] = completed[q] /\ uncompleted'[q] = uncompleted[q]
              /\ q \in Range(poke') => q \in Range(poke)
              /\ Alone(q, poke) => Alone(q, poke'),
           Life(p)'
    PROVE  LifeInv'
<1>1. Sorted /\ \A q \in Pigs : Life(q)
  BY DEF LifeInv
<1>2. Sorted'
  <2>1. mloc' # "prep" /\ pending_privileges' = 0
    BY <1>1 DEF Sorted, mainvars
  <2> QED
    BY <1>1, <2>1, SMTT(20) DEF Sorted, SameCommands
<1>3. ASSUME NEW q \in Pigs, q # p PROVE Life(q)'
  <2>1. /\ an'[q] = an[q] /\ pending'[q] = pending[q]
        /\ completed'[q] = completed[q] /\ uncompleted'[q] = uncompleted[q]
        /\ q \in Range(poke') => q \in Range(poke)
        /\ Alone(q, poke) => Alone(q, poke')
    BY <1>3
  <2>2. /\ athread'[q] = athread[q] /\ analyzer'[q] = analyzer[q] /\ to_interrupt' = to_interrupt
        /\ mloc' = mloc /\ midx' = midx
    BY DEF mainvars
  <2>3. \A id \in {StartId(q), RunId(q)} :
            cmds'[id].kind = cmds[id].kind /\ cmds'[id].refs = cmds[id].refs
    BY OwnIds DEF SameCommands
  <2>4. (Noticed(q)' => Noticed(q)) /\ (NoticedOnce(q) => NoticedOnce(q)')
    BY <2>1, <2>2 DEF Noticed, NoticedOnce, Handled
  <2> QED
    BY <1>1, <2>1, <2>2, <2>3, <2>4, LifeKept
<1> QED
  BY <1>2, <1>3 DEF LifeInv

(* What a step of p that moves no command does to the life of p, b being   *)
(* what becomes of its analyzer.                                           *)
LEMMA OwnLife ==
    ASSUME Inv, LifeInv, NEW p \in Pigs, UNCHANGED mainvars, an[p].pc # "none",
           UNCHANGED <<pending, completed, uncompleted, cmds, poke>>,
           NEW b, an' = [an EXCEPT ![p] = b], b.cur = an[p].cur,
           b.pc \notin {"none", "init"},
           b.pc \in {"loop", "drain", "term"} =>
              b.state \in {"INITIALIZED", "STARTED", "RUNNING", "PAUSED"},
           b.pc = "done" => b.state = "STOPPED",
           \/ b.state = an[p].state /\ b.to_poke = an[p].to_poke
           \/ an[p].state = "NEW" /\ b.state = "INITIALIZED"
           \/ b.state = "STOPPED",
           b.pc = "loop" /\ pending[p] # <<>> => b.state = "INITIALIZED"
    PROVE  LifeInv'
<1>1. TypeOK /\ Sorted /\ Life(p)
  BY DEF Inv, LifeInv
<1>2. Placed(p) /\ OwnOnly(p) /\ OwnAlive(p) /\ Stage(p) /\ Called(p)
  BY <1>1 DEF Life
<1>3. an'[p] = b /\ \A q \in Pigs : q # p => an'[q] = an[q]
  BY <1>1 DEF TypeOK
<1>4. /\ athread' = athread /\ analyzer' = analyzer /\ to_interrupt' = to_interrupt
      /\ mloc' = mloc /\ midx' = midx
  BY DEF mainvars
<1>5. athread[p] /\ Placed(p)'
  BY <1>2, <1>3, <1>4 DEF Placed
<1>6. OwnOnly(p)' /\ OwnAlive(p)'
  BY <1>2, <1>3 DEF OwnOnly, OwnAlive, Held
<1>7. Stage(p)'
  <2>1. CASE b.state = an[p].state /\ b.to_poke = an[p].to_poke
    <3>1. (Noticed(p)' => Noticed(p)) /\ (NoticedOnce(p) => NoticedOnce(p)')
      BY <1>3, <1>4, <2>1 DEF Noticed, NoticedOnce, Handled
    <3> QED
      BY <1>2, <1>3, <1>4, <2>1, <3>1 DEF Stage
  <2>2. CASE an[p].state = "NEW" /\ b.state = "INITIALIZED"
    <3>1. ~Noticed(p) /\ cmds[StartId(p)].kind = "none" /\ cmds[RunId(p)].kind = "none"
      BY <1>2, <1>5, <2>2 DEF Stage
    <3>2. Alone(p, poke)
      <4>1. p \notin Range(poke) /\ DOMAIN poke = 1 .. Len(poke)
        BY <1>1, <3>1, SMTT(20) DEF Noticed, TypeOK
      <4> QED
        BY <4>1 DEF Alone, Range
    <3>3. NoticedOnce(p)'
      BY <1>4, <3>1, <3>2 DEF Noticed, NoticedOnce, Handled
    <3> QED
      BY <1>3, <2>2, <3>1, <3>3 DEF Stage
  <2>3. CASE b.state = "STOPPED"
    BY <1>3, <2>3 DEF Stage
  <2> QED
    BY <2>1, <2>2, <2>3
<1>8. Called(p)'
  BY <1>3 DEF Called
<1>9. SameCommands
  BY <1>1 DEF SameCommands, TypeOK
<1> QED
  BY <1>3, <1>5, <1>6, <1>7, <1>8, <1>9, PacketLife DEF Life

(* The steps that move no command. *)
LEMMA MovesLife ==
    ASSUME Inv, LifeInv, NEW p \in Pigs, UNCHANGED mainvars, ~an[p].to_poke,
           ThreadInit(p) \/ Drained(p) \/ AnalyzeExit(p) \/ ThreadTerm(p)
    PROVE  LifeInv'
<1>1. an[p] \in AnalyzerType /\ Placed(p)
  BY DEF Inv, TypeOK, LifeInv, Life
<1>2. UNCHANGED <<pending, completed, uncompleted, cmds, poke>>
  BY DEF ThreadInit, Drained, AnalyzeExit, ThreadTerm
<1>3. CASE ThreadInit(p)
  <2> DEFINE b == SetState([an[p] EXCEPT !.pc = "loop"], "INITIALIZED")
  <2>1. an[p].pc = "init" /\ an[p].state = "NEW" /\ an' = [an EXCEPT ![p] = b]
    BY <1>1, <1>3 DEF ThreadInit, Placed
  <2>2. b.cur = an[p].cur /\ b.pc = "loop" /\ b.state = "INITIALIZED"
    BY <1>1 DEF SetState, AnalyzerType
  <2> HIDE DEF b
  <2> QED
    BY <1>2, <2>1, <2>2, OwnLife
<1>4. CASE Drained(p)
  <2> DEFINE b == [an[p] EXCEPT !.pc = "loop"]
  <2>1. an[p].pc = "drain" /\ pending[p] = <<>> /\ an' = [an EXCEPT ![p] = b]
    BY <1>4 DEF Drained
  <2>2. b.cur = an[p].cur /\ b.pc = "loop" /\ b.state = an[p].state /\ b.to_poke = an[p].to_poke
    BY <1>1 DEF AnalyzerType
  <2>3. an[p].state \in {"INITIALIZED", "STARTED", "RUNNING", "PAUSED"}
    BY <1>1, <2>1 DEF Placed
  <2> HIDE DEF b
  <2> QED
    BY <1>2, <2>1, <2>2, <2>3, OwnLife
<1>5. CASE AnalyzeExit(p)
  <2> DEFINE b == [an[p] EXCEPT !.pc = "term"]
  <2>1. an[p].pc = "loop" /\ an' = [an EXCEPT ![p] = b]
    BY <1>5 DEF AnalyzeExit
  <2>2. b.cur = an[p].cur /\ b.pc = "term" /\ b.state = an[p].state /\ b.to_poke = an[p].to_poke
    BY <1>1 DEF AnalyzerType
  <2>3. an[p].state \in {"INITIALIZED", "STARTED", "RUNNING", "PAUSED"}
    BY <1>1, <2>1 DEF Placed
  <2> HIDE DEF b
  <2> QED
    BY <1>2, <2>1, <2>2, <2>3, OwnLife
<1>6. CASE ThreadTerm(p)
  <2> DEFINE b == SetState([an[p] EXCEPT !.pc = "done"], "STOPPED")
  <2>1. an[p].pc = "term" /\ an' = [an EXCEPT ![p] = b]
    BY <1>6 DEF ThreadTerm
  <2>2. b.cur = an[p].cur /\ b.pc = "done" /\ b.state = "STOPPED"
    BY <1>1 DEF SetState, AnalyzerType
  <2> HIDE DEF b
  <2> QED
    BY <1>2, <2>1, <2>2, OwnLife
<1> QED
  BY <1>3, <1>4, <1>5, <1>6

(* What the execution of a command does to the state of the analyzer: only *)
(* a START, a RUN, or a pause or resume of one that runs changes it.       *)
LEMMA ExecuteLife ==
    ASSUME NEW a \in AnalyzerType, NEW c \in CommandType, NEW ok \in BOOLEAN
    PROVE  LET b == Execute(a, c, ok) IN
           /\ b.pc = a.pc /\ b.interrupted = a.interrupted
           /\ a.exit_requested => b.exit_requested
           /\ c.kind = "start" => b.state = "STARTED"
           /\ c.kind = "run" => b.state \in {"RUNNING", "PAUSED"}
           /\ c.kind \notin {"start", "run"} =>
                 \/ b.state = a.state /\ b.to_poke = a.to_poke
                 \/ a.state \in {"RUNNING", "PAUSED"} /\ b.state \in {"RUNNING", "PAUSED"}
<1>1. CASE c.kind = "start"
  BY <1>1 DEF Execute, Start, SetState, AnalyzerType
<1>2. CASE c.kind = "run"
  BY <1>2 DEF Execute, Run, SetState, AnalyzerType
<1>3. CASE c.kind = "stop"
  BY <1>3 DEF Execute, Stop, AnalyzerType
<1>4. CASE c.kind = "pause"
  BY <1>4 DEF Execute, Pause, SetState, AnalyzerType
<1>5. CASE c.kind = "resume"
  BY <1>5 DEF Execute, Resume, SetState, AnalyzerType
<1>6. CASE c.kind = "swap"
  BY <1>6 DEF Execute, Swap, AnalyzerType
<1>7. CASE c.kind \notin {"start", "run", "stop", "pause", "resume", "swap"}
  BY <1>7 DEF Execute
<1> QED
  BY <1>1, <1>2, <1>3, <1>4, <1>5, <1>6, <1>7

(* The end of a command that p had: it is with the completed ones unless   *)
(* it is a swap.                                                           *)
LEMMA ExecutedLife ==
    ASSUME TypeOK, NEW p \in Pigs, NEW id \in CmdIds, Executed(p, id)
    PROVE  /\ \A jd \in CmdIds : cmds[jd].kind = "none" => cmds'[jd] = cmds[jd]
           /\ \A q \in Pigs : q # p => completed'[q] = completed[q] /\ uncompleted'[q] = uncompleted[q]
           /\ completed[p] \subseteq completed'[p] /\ completed'[p] \subseteq completed[p] \union {id}
           /\ \A jd \in CmdIds : uncompleted'[p][jd] > 0 => uncompleted[p][jd] > 0 \/ jd = id
           /\ cmds[id].new_conf = None => id \in completed'[p]
<1>1. /\ completed \in [Pigs -> SUBSET CmdIds] /\ uncompleted \in [Pigs -> [CmdIds -> 0 .. MaxTuners]]
      /\ cmds \in [CmdIds -> CommandType]
  BY DEF TypeOK
<1>2. PICK tuners \in IF cmds[id].new_conf # None THEN 0 .. MaxTuners ELSE {0} :
        /\ uncompleted' = [uncompleted EXCEPT ![p][id] = tuners]
        /\ completed' = [completed EXCEPT ![p] = IF tuners = 0 THEN @ \union {id} ELSE @]
  BY DEF Executed
<1>3. cmds' = [cmds EXCEPT ![id].arg = IF cmds[id].kind = "run" THEN 0 ELSE @]
  BY DEF Executed
<1>4. ASSUME NEW jd \in CmdIds, cmds[jd].kind = "none" PROVE cmds'[jd] = cmds[jd]
  <2>1. CASE jd # id
    BY <1>1, <1>3, <2>1
  <2>2. CASE jd = id
    <3>1. cmds'[id] = [cmds[id] EXCEPT !.arg = cmds[id].arg]
      BY <1>1, <1>3, <1>4, <2>2
    <3>2. cmds[id] \in CommandType
      BY <1>1
    <3> QED
      BY <2>2, <3>1, <3>2 DEF CommandType
  <2> QED
    BY <2>1, <2>2
<1>5. \A q \in Pigs : q # p => completed'[q] = completed[q] /\ uncompleted'[q] = uncompleted[q]
  BY <1>1, <1>2
<1>6. completed'[p] = IF tuners = 0 THEN completed[p] \union {id} ELSE completed[p]
  BY <1>1, <1>2
<1>7. uncompleted'[p] = [uncompleted[p] EXCEPT ![id] = tuners]
  BY <1>1, <1>2
<1>8. \A jd \in CmdIds : uncompleted'[p][jd] > 0 => uncompleted[p][jd] > 0 \/ jd = id
  BY <1>1, <1>7
<1> QED
  BY <1>2, <1>4, <1>5, <1>6, <1>8, SMTT(20)

(* handle_command: a START is executed by an analyzer that is INITIALIZED, *)
(* a RUN by one that is STARTED.                                           *)
LEMMA CommandStage ==
    ASSUME Inv, LifeInv, NEW p \in Pigs, an[p].pc \in {"loop", "drain"}, pending[p] # <<>>
    PROVE  LET id == Head(pending[p]) IN
           /\ id \in CmdIds
           /\ cmds[id].kind = "start" => id = StartId(p) /\ an[p].state = "INITIALIZED"
           /\ cmds[id].kind = "run" => id = RunId(p) /\ an[p].state = "STARTED"
<1> DEFINE id == Head(pending[p])
<1>1. TypeOK /\ Sorted /\ Placed(p) /\ OwnOnly(p) /\ Stage(p)
  BY DEF Inv, LifeInv, Life
<1>2. id \in CmdIds /\ id \in Range(pending[p])
  BY <1>1, TailFacts, SMTT(20) DEF TypeOK
<1> HIDE DEF id
<1>3. an[p].state \in {"INITIALIZED", "STARTED", "RUNNING", "PAUSED"}
  BY <1>1 DEF Placed
<1>4. Held(id, pending[p], completed[p], uncompleted[p], an[p])
  BY <1>2 DEF Held
<1>5. id > MaxConsole => id \in {StartId(p), RunId(p)}
  BY <1>1, <1>2, <1>4 DEF OwnOnly
<1>6. ASSUME cmds[id].kind = "start" PROVE id = StartId(p) /\ an[p].state = "INITIALIZED"
  <2>1. PICK q \in Pigs : id = StartId(q)
    BY <1>1, <1>2, <1>6 DEF Sorted
  <2>2. id = StartId(p)
    BY <1>5, <2>1, OwnIds
  <2> QED
    BY <1>1, <1>2, <1>3, <2>2 DEF Stage
<1>7. ASSUME cmds[id].kind = "run" PROVE id = RunId(p) /\ an[p].state = "STARTED"
  <2>1. PICK q \in Pigs : id = RunId(q)
    BY <1>1, <1>2, <1>7 DEF Sorted
  <2>2. id = RunId(p)
    BY <1>5, <2>1, OwnIds
  <2> QED
    BY <1>1, <1>2, <1>3, <1>7, <2>2 DEF Stage
<1> QED
  BY <1>2, <1>6, <1>7 DEF id

(* handle_command keeps the lives. *)
LEMMA CommandLife ==
    ASSUME Inv, LifeInv, NEW p \in Pigs, UNCHANGED mainvars, ~an[p].to_poke,
           an[p].pc \in {"loop", "drain"}, pending[p] # <<>>, HandleCommand(p)
    PROVE  LifeInv'
<1> DEFINE id == Head(pending[p])
           a == an[p]
<1>1. TypeOK /\ OnceEach /\ Sorted /\ Life(p)
  BY DEF Inv, LifeInv
<1>2. Placed(p) /\ OwnOnly(p) /\ OwnAlive(p) /\ Stage(p) /\ Called(p)
  BY <1>1 DEF Life
<1>3. /\ a \in AnalyzerType /\ pending[p] \in Seq(CmdIds) /\ cmds \in [CmdIds -> CommandType]
      /\ OneTime(pending[p]) /\ a.cur = None
  BY <1>1 DEF TypeOK, OnceEach, Apart
<1>4. /\ id \in CmdIds
      /\ cmds[id].kind = "start" => id = StartId(p) /\ a.state = "INITIALIZED"
      /\ cmds[id].kind = "run" => id = RunId(p) /\ a.state = "STARTED"
  BY CommandStage
<1>5. Range(pending[p]) = {id} \union Range(Tail(pending[p])) /\ id \notin Range(Tail(pending[p]))
  BY <1>3, TailFacts
<1>6. /\ pending' = [pending EXCEPT ![p] = Tail(pending[p])]
      /\ poke' = poke
  BY DEF HandleCommand
<1>7. pending'[p] = Tail(pending[p]) /\ \A q \in Pigs : q # p => pending'[q] = pending[q]
  BY <1>1, <1>6 DEF TypeOK
<1>8. PICK ok \in BOOLEAN :
         LET b == Execute(a, cmds[id], ok) IN
         /\ an' = [an EXCEPT ![p] = [b EXCEPT !.cur = IF b.to_poke THEN id ELSE None]]
         /\ IF b.to_poke THEN UNCHANGED <<completed, uncompleted, cmds>> ELSE Executed(p, id)
  BY DEF HandleCommand
<1> DEFINE b == Execute(a, cmds[id], ok)
           d == [b EXCEPT !.cur = IF b.to_poke THEN id ELSE None]
<1>9. /\ an' = [an EXCEPT ![p] = d]
      /\ IF b.to_poke THEN UNCHANGED <<completed, uncompleted, cmds>> ELSE Executed(p, id)
  BY <1>8
<1>10. cmds[id] \in CommandType /\ b \in AnalyzerType
  <2>1. cmds[id] \in CommandType
    BY <1>3, <1>4
  <2> QED
    BY <2>1, <1>3, ExecuteFacts DEF Steady
<1>11. /\ b.pc = a.pc /\ b.interrupted = a.interrupted /\ (a.exit_requested => b.exit_requested)
       /\ cmds[id].kind = "start" => b.state = "STARTED"
       /\ cmds[id].kind = "run" => b.state \in {"RUNNING", "PAUSED"}
       /\ cmds[id].kind \notin {"start", "run"} =>
             \/ b.state = a.state /\ b.to_poke = a.to_poke
             \/ a.state \in {"RUNNING", "PAUSED"} /\ b.state \in {"RUNNING", "PAUSED"}
  BY <1>3, <1>10, ExecuteLife, SMTT(20)
<1> HIDE DEF b
<1>12. /\ d.pc = b.pc /\ d.interrupted = b.interrupted /\ d.exit_requested = b.exit_requested
       /\ d.state = b.state /\ d.to_poke = b.to_poke /\ d.cur = IF b.to_poke THEN id ELSE None
  BY <1>10 DEF AnalyzerType
<1> HIDE DEF d, id, a
<1>13. an'[p] = d /\ \A q \in Pigs : q # p => an'[q] = an[q]
  BY <1>1, <1>9 DEF TypeOK
<1>14. /\ SameCommands /\ \A jd \in CmdIds : cmds[jd].kind = "none" => cmds'[jd] = cmds[jd]
       /\ \A q \in Pigs : q # p => completed'[q] = completed[q] /\ uncompleted'[q] = uncompleted[q]
       /\ completed[p] \subseteq completed'[p] /\ completed'[p] \subseteq completed[p] \union {id}
       /\ \A jd \in CmdIds : uncompleted'[p][jd] > 0 => uncompleted[p][jd] > 0 \/ jd = id
       /\ cmds[id].new_conf = None => id \in completed'[p] \/ d.cur = id
  <2>1. CASE b.to_poke
    BY <1>1, <1>9, <1>12, <2>1 DEF SameCommands, TypeOK
  <2>2. CASE ~b.to_poke
    BY <1>1, <1>4, <1>9, <2>2, ExecutedFacts, ExecutedLife
  <2> QED
    BY <2>1, <2>2
<1>15. /\ athread' = athread /\ analyzer' = analyzer /\ to_interrupt' = to_interrupt
       /\ mloc' = mloc /\ midx' = midx
  BY DEF mainvars
<1>16. athread[p] /\ Placed(p)'
  <2>1. athread[p] /\ a.state \in {"INITIALIZED", "STARTED", "RUNNING", "PAUSED"}
    BY <1>2 DEF Placed, a
  <2>2. d.state \in {"INITIALIZED", "STARTED", "RUNNING", "PAUSED"} /\ d.pc \in {"loop", "drain"}
    BY <2>1, <1>11, <1>12 DEF a
  <2> QED
    BY <2>1, <2>2, <1>13, <1>15 DEF Placed
<1>17. OwnOnly(p)'
  <2>1. ASSUME NEW jd \in CmdIds, Held(jd, pending'[p], completed'[p], uncompleted'[p], an'[p])
        PROVE  Held(jd, pending[p], completed[p], uncompleted[p], an[p])
    <3>1. None \notin CmdIds
      BY SMTT(20) DEF None, CmdIds
    <3> QED
      BY <2>1, <3>1, <1>5, <1>7, <1>12, <1>13, <1>14, SMTT(20) DEF Held
  <2> QED
    BY <1>2, <2>1 DEF OwnOnly
<1>18. OwnAlive(p)'
  <2> SUFFICES ASSUME NEW jd \in {StartId(p), RunId(p)}, cmds'[jd].kind # "none"
               PROVE  /\ cmds'[jd].refs = 1
                      /\ jd \in Range(pending'[p]) \/ jd \in completed'[p] \/ an'[p].cur = jd
    BY DEF OwnAlive
  <2>1. jd \in CmdIds /\ jd # None /\ cmds[jd].new_conf = None
    BY <1>1, OwnIds, OwnKinds
  <2>2. /\ cmds'[jd].refs = 1
        /\ jd \in Range(pending[p]) \/ jd \in completed[p] \/ a.cur = jd
    BY <2>1, <1>2, <1>14 DEF OwnAlive, SameCommands, a
  <2> QED
    BY <2>1, <2>2, <1>3, <1>5, <1>7, <1>13, <1>14
<1>19. Stage(p)'
  <2>1. StartId(p) \in CmdIds /\ RunId(p) \in CmdIds /\ StartId(p) # RunId(p)
    BY OwnIds
  <2>2. cmds'[StartId(p)].kind = cmds[StartId(p)].kind /\ cmds'[RunId(p)].kind = cmds[RunId(p)].kind
    BY <2>1, <1>14 DEF SameCommands
  <2>3. CASE cmds[id].kind = "start"
    <3>1. ~Noticed(p) /\ cmds[RunId(p)].kind = "none"
      BY <2>3, <1>2, <1>4 DEF Stage, a
    <3>2. Alone(p, poke)
      <4>1. p \notin Range(poke) /\ DOMAIN poke = 1 .. Len(poke)
        BY <1>1, <3>1, SMTT(20) DEF Noticed, TypeOK
      <4> QED
        BY <4>1 DEF Alone, Range
    <3>3. NoticedOnce(p)'
      BY <1>6, <1>15, <3>1, <3>2 DEF Noticed, NoticedOnce, Handled
    <3>4. d.state = "STARTED" /\ StartId(p) \notin Range(pending'[p])
      BY <2>3, <1>4, <1>5, <1>7, <1>11, <1>12
    <3> QED
      BY <2>2, <3>1, <3>3, <3>4, <1>13 DEF Stage
  <2>4. CASE cmds[id].kind = "run"
    <3>1. StartId(p) \notin Range(pending[p]) /\ d.state \in {"RUNNING", "PAUSED"} /\ id = RunId(p)
      BY <2>4, <1>2, <1>4, <1>11, <1>12 DEF Stage, a
    <3>2. {StartId(p), RunId(p)} \cap Range(pending'[p]) = {}
      BY <3>1, <1>5, <1>7
    <3> QED
      BY <3>1, <3>2, <1>13 DEF Stage
  <2>5. CASE cmds[id].kind \notin {"start", "run"}
    <3>1. CASE d.state = a.state /\ d.to_poke = a.to_poke
      <4>1. (Noticed(p)' => Noticed(p)) /\ (NoticedOnce(p) => NoticedOnce(p)')
        BY <3>1, <1>6, <1>13, <1>15 DEF Noticed, NoticedOnce, Handled, a
      <4>2. Range(pending'[p]) \subseteq Range(pending[p])
        BY <1>5, <1>7
      <4> QED
        BY <2>2, <3>1, <4>1, <4>2, <1>2, <1>13, <1>15 DEF Stage, a
    <3>2. CASE a.state \in {"RUNNING", "PAUSED"} /\ d.state \in {"RUNNING", "PAUSED"}
      <4>1. {StartId(p), RunId(p)} \cap Range(pending'[p]) = {}
        BY <3>2, <1>2, <1>5, <1>7 DEF Stage, a
      <4> QED
        BY <3>2, <4>1, <1>13 DEF Stage
    <3> QED
      BY <2>5, <3>1, <3>2, <1>11, <1>12
  <2> QED
    BY <2>3, <2>4, <2>5
<1>20. Called(p)'
  <2> SUFFICES ASSUME d.pc = "loop",
                      \/ d.state \in {"RUNNING", "PAUSED"}
                      \/ d.state = "STARTED" /\ RunId(p) \in Range(pending'[p])
               PROVE  d.interrupted \/ d.exit_requested \/ p \in to_interrupt
    BY <1>13, <1>15 DEF Called
  <2>1. RunId(p) \in Range(pending'[p]) => RunId(p) \in Range(pending[p])
    BY <1>5, <1>7
  <2>2. RunId(p) \in Range(pending[p]) => cmds[RunId(p)].kind # "none"
    BY <1>1, OwnIds, HeldAlive DEF Held
  <2>3. \/ a.state \in {"RUNNING", "PAUSED"}
        \/ a.state = "STARTED" /\ RunId(p) \in Range(pending[p])
    <3>1. CASE cmds[id].kind = "start"
      <4>1. cmds[RunId(p)].kind = "none" /\ d.state = "STARTED"
        BY <3>1, <1>2, <1>4, <1>11, <1>12 DEF Stage, a
      <4> QED
        BY <4>1, <2>1, <2>2
    <3>2. CASE cmds[id].kind = "run"
      BY <3>2, <1>4, <1>5
    <3>3. CASE cmds[id].kind \notin {"start", "run"}
      BY <3>3, <2>1, <1>11, <1>12
    <3> QED
      BY <3>1, <3>2, <3>3
  <2>4. a.interrupted \/ a.exit_requested \/ p \in to_interrupt
    BY <2>3, <1>2, <1>11, <1>12 DEF Called, a
  <2> QED
    BY <2>4, <1>11, <1>12
<1>21. Life(p)'
  BY <1>16, <1>17, <1>18, <1>19, <1>20 DEF Life
<1>22. \A q \in Pigs : q # p =>
          /\ an'[q] = an[q] /\ pending'[q] = pending[q]
          /\ completed'[q] = completed[q] /\ uncompleted'[q] = uncompleted[q]
          /\ q \in Range(poke') => q \in Range(poke)
          /\ Alone(q, poke) => Alone(q, poke')
  BY <1>6, <1>7, <1>13, <1>14
<1> QED
  BY <1>14, <1>16, <1>21, <1>22, PacketLife

(* The notification, and the end of the command that made it. *)
LEMMA PokeLife ==
    ASSUME Inv, LifeInv, NEW p \in Pigs, UNCHANGED mainvars, Poke(p)
    PROVE  LifeInv'
<1> DEFINE id == an[p].cur
           b == [an[p] EXCEPT !.to_poke = FALSE, !.cur = None]
<1>1. TypeOK /\ OnceEach /\ Sorted /\ Life(p)
  BY DEF Inv, LifeInv
<1>2. Placed(p) /\ OwnOnly(p) /\ OwnAlive(p) /\ Stage(p) /\ Called(p)
  BY <1>1 DEF Life
<1>3. /\ an[p].to_poke /\ an' = [an EXCEPT ![p] = b] /\ PutPoke(p) /\ pending' = pending
      /\ IF id # None THEN Executed(p, id) ELSE UNCHANGED <<completed, uncompleted, cmds>>
  BY DEF Poke
<1>4. an[p] \in AnalyzerType /\ an \in [Pigs -> AnalyzerType]
  BY <1>1 DEF TypeOK
<1>5. /\ b.pc = an[p].pc /\ b.state = an[p].state /\ b.interrupted = an[p].interrupted
      /\ b.exit_requested = an[p].exit_requested /\ b.to_poke = FALSE /\ b.cur = None
      /\ id \in CmdIds \union {None}
  BY <1>4 DEF AnalyzerType
<1> HIDE DEF b
<1>6. an'[p] = b /\ \A q \in Pigs : q # p => an'[q] = an[q]
  BY <1>3, <1>4
<1> HIDE DEF id
<1>7. /\ SameCommands /\ \A jd \in CmdIds : cmds[jd].kind = "none" => cmds'[jd] = cmds[jd]
      /\ \A q \in Pigs : q # p => completed'[q] = completed[q] /\ uncompleted'[q] = uncompleted[q]
      /\ completed[p] \subseteq completed'[p] /\ completed'[p] \subseteq completed[p] \union {id}
      /\ \A jd \in CmdIds : uncompleted'[p][jd] > 0 => uncompleted[p][jd] > 0 \/ jd = id
      /\ id # None /\ cmds[id].new_conf = None => id \in completed'[p]
  <2>1. CASE id = None
    BY <1>1, <1>3, <2>1 DEF SameCommands, TypeOK
  <2>2. CASE id # None
    BY <1>1, <1>3, <1>5, <2>2, ExecutedFacts, ExecutedLife
  <2> QED
    BY <2>1, <2>2
<1>8. /\ athread' = athread /\ analyzer' = analyzer /\ to_interrupt' = to_interrupt
      /\ mloc' = mloc /\ midx' = midx
  BY DEF mainvars
<1>9. /\ \A q \in Pigs : q \in Range(poke') => q = p \/ q \in Range(poke)
      /\ \A q \in Pigs : q # p /\ Alone(q, poke) => Alone(q, poke')
      /\ p \notin Range(poke) => Alone(p, poke')
  BY <1>1, <1>3, PutPokeNotices
<1>10. athread[p] /\ Placed(p)'
  BY <1>2, <1>3, <1>5, <1>6, <1>8 DEF Placed
<1>11. OwnOnly(p)'
  <2>1. ASSUME NEW jd \in CmdIds, Held(jd, pending'[p], completed'[p], uncompleted'[p], an'[p])
        PROVE  Held(jd, pending[p], completed[p], uncompleted[p], an[p])
    <3>1. None \notin CmdIds
      BY SMTT(20) DEF None, CmdIds
    <3> QED
      BY <2>1, <3>1, <1>3, <1>5, <1>6, <1>7 DEF Held, id
  <2> QED
    BY <1>2, <2>1 DEF OwnOnly
<1>12. OwnAlive(p)'
  <2> SUFFICES ASSUME NEW jd \in {StartId(p), RunId(p)}, cmds'[jd].kind # "none"
               PROVE  /\ cmds'[jd].refs = 1
                      /\ jd \in Range(pending'[p]) \/ jd \in completed'[p] \/ an'[p].cur = jd
    BY DEF OwnAlive
  <2>1. jd \in CmdIds /\ jd # None /\ cmds[jd].new_conf = None
    BY <1>1, OwnIds, OwnKinds
  <2>2. /\ cmds'[jd].refs = 1
        /\ jd \in Range(pending[p]) \/ jd \in completed[p] \/ id = jd
    BY <2>1, <1>2, <1>7 DEF OwnAlive, SameCommands, id
  <2> QED
    BY <2>1, <2>2, <1>3, <1>7
<1>13. Stage(p)'
  <2>1. cmds'[StartId(p)].kind = cmds[StartId(p)].kind /\ cmds'[RunId(p)].kind = cmds[RunId(p)].kind
    BY OwnIds, <1>7 DEF SameCommands
  <2>2. Noticed(p)' => Noticed(p)
    BY <1>3 DEF Noticed
  <2>3. NoticedOnce(p) => NoticedOnce(p)'
    BY <1>3, <1>5, <1>6, <1>8, <1>9 DEF NoticedOnce, Handled
  <2> QED
    BY <2>1, <2>2, <2>3, <1>2, <1>3, <1>5, <1>6, <1>8 DEF Stage
<1>14. Called(p)'
  BY <1>2, <1>3, <1>5, <1>6, <1>8 DEF Called
<1>15. Life(p)'
  BY <1>10, <1>11, <1>12, <1>13, <1>14 DEF Life
<1>16. \A q \in Pigs : q # p =>
          /\ an'[q] = an[q] /\ pending'[q] = pending[q]
          /\ completed'[q] = completed[q] /\ uncompleted'[q] = uncompleted[q]
          /\ q \in Range(poke') => q \in Range(poke)
          /\ Alone(q, poke) => Alone(q, poke')
  BY <1>3, <1>6, <1>7, <1>9
<1> QED
  BY <1>7, <1>10, <1>15, <1>16, PacketLife

(* A batch of messages leaves the analyzer running, or pauses it. *)
LEMMA BatchLife ==
    ASSUME Inv, NEW p \in Pigs, NEW a \in AnalyzerType, a.state = "RUNNING", NEW n \in Nat, NEW m
    PROVE  LET b == CountDown(Reapplied(a, p, n), m)
           IN  b.state \in {"RUNNING", "PAUSED"} /\ b.cur = a.cur /\ DOMAIN b = DOMAIN a
<1> DEFINE r == Reapplied(a, p, n)
           e == IF r.exit_after_cnt > 0 /\ r.exit_after_cnt = m THEN Stop(r) ELSE r
           q == IF r.pause_after_cnt > 0 /\ r.pause_after_cnt = m THEN Pause(e) ELSE e
           Less(cnt) == IF cnt > 0 THEN cnt - m ELSE 0
<1>1. r \in AnalyzerType /\ r.cur = a.cur
  BY ReappliedFacts DEF Inv, Steady
<1>2. r.state = "RUNNING"
  <2>1. CASE n = 0 \/ Unfinished(p) = {}
    BY <2>1 DEF Reapplied
  <2>2. CASE ~(n = 0 \/ Unfinished(p) = {})
    <3>1. r = Swap(a, cmds[CHOOSE id \in Unfinished(p) : TRUE])
      BY <2>2 DEF Reapplied
    <3> QED
      BY <3>1 DEF Swap, AnalyzerType
  <2> QED
    BY <2>1, <2>2
<1> HIDE DEF r
<1>3. e \in AnalyzerType /\ e.cur = a.cur /\ e.state = "RUNNING"
  BY <1>1, <1>2 DEF Stop, AnalyzerType
<1> HIDE DEF e
<1>4. q \in AnalyzerType /\ q.cur = a.cur /\ q.state \in {"RUNNING", "PAUSED"}
  BY <1>3 DEF Pause, SetState, AnalyzerType, States
<1>5. CountDown(r, m) = [q EXCEPT !.exit_after_cnt = Less(@), !.pause_after_cnt = Less(@)]
  BY DEF CountDown, q, e
<1> DEFINE u == Less(q.exit_after_cnt)
           v == Less(q.pause_after_cnt)
<1>6. CountDown(r, m) = [q EXCEPT !.exit_after_cnt = u, !.pause_after_cnt = v]
  BY <1>5
<1> HIDE DEF q, u, v
<1> QED
  BY <1>4, <1>6 DEF r, AnalyzerType

(* A pass of analyze() over a batch of messages keeps the lives: it ends   *)
(* in handle_commands if it was interrupted.                               *)
LEMMA RunningLife ==
    ASSUME Inv, LifeInv, NEW p \in Pigs, UNCHANGED mainvars, AnalyzeRunning(p), Inv'
    PROVE  LifeInv'
<1> DEFINE a == an[p]
<1>1. TypeOK /\ OnceEach /\ Sorted /\ Life(p) /\ TypeOK'
  BY DEF Inv, LifeInv
<1>2. Placed(p) /\ OwnOnly(p) /\ OwnAlive(p) /\ Stage(p) /\ Called(p)
  BY <1>1 DEF Life
<1>3. /\ a.pc = "loop" /\ ~a.exit_requested /\ a.state = "RUNNING"
      /\ UNCHANGED <<pending, cmds, poke>> /\ a \in AnalyzerType
  BY <1>1 DEF AnalyzeRunning, TypeOK
<1> DEFINE Pass(n, rstat) ==
        LET skipped == Lesser(n, a.skip_cnt)
            calls   == n - skipped + IF rstat = "TIMEOUT" THEN 1 ELSE 0
        IN  /\ HandleUncompleted(p, calls)
            /\ an' = [an EXCEPT ![p] =
                 [CountDown(Reapplied(a, p, calls), n - skipped) EXCEPT
                    !.skip_cnt = @ - skipped,
                    !.left = IF ReadMode THEN @ - n ELSE @,
                    !.interrupted = FALSE,
                    !.pc = CASE rstat = "INTERRUPTED" -> "drain"
                             [] rstat \in {"EOF", "ERROR"} -> "term"
                             [] OTHER -> "loop"]]
<1>4. \E n \in RecvCounts(a) : \E rstat \in RecvStatus(a, n) : Pass(n, rstat)
  BY DEF AnalyzeRunning
<1>5. PICK n \in RecvCounts(a) : \E rstat \in RecvStatus(a, n) : Pass(n, rstat)
  BY <1>4
<1>6. PICK rstat \in RecvStatus(a, n) : Pass(n, rstat)
  BY <1>5
<1> DEFINE skipped == Lesser(n, a.skip_cnt)
           calls == n - skipped + IF rstat = "TIMEOUT" THEN 1 ELSE 0
           d == CountDown(Reapplied(a, p, calls), n - skipped)
           at == CASE rstat = "INTERRUPTED" -> "drain"
                   [] rstat \in {"EOF", "ERROR"} -> "term"
                   [] OTHER -> "loop"
           b == [d EXCEPT !.skip_cnt = d.skip_cnt - skipped,
                          !.left = IF ReadMode THEN d.left - n ELSE d.left,
                          !.interrupted = FALSE, !.pc = at]
<1>7. an' = [an EXCEPT ![p] = b] /\ HandleUncompleted(p, calls)
  BY <1>6
<1>8. calls \in Nat
  <2>1. n \in Nat /\ a.skip_cnt \in Nat
    BY <1>3, RecvBound DEF AnalyzerType
  <2> HIDE DEF a
  <2> QED
    BY <2>1, SMTT(20) DEF Lesser
<1>9. at \in {"drain", "term", "loop"} /\ (at = "loop" => ~a.interrupted)
  BY DEF RecvStatus
<1> HIDE DEF Pass, a, skipped, calls, at
<1>10. d.state \in {"RUNNING", "PAUSED"} /\ d.cur = a.cur /\ DOMAIN d = DOMAIN a
  BY <1>3, <1>8, BatchLife, SMTT(20)
<1> HIDE DEF d
<1>11. DOMAIN a = DOMAIN NewAnalyzer
  BY <1>3 DEF AnalyzerType, NewAnalyzer
<1>12. b.state = d.state /\ b.cur = a.cur /\ b.pc = at
  BY <1>10, <1>11 DEF NewAnalyzer
<1> HIDE DEF b
<1>13. an'[p] = b /\ \A q \in Pigs : q # p => an'[q] = an[q]
  BY <1>1, <1>7 DEF TypeOK
<1>14. PICK rest \in [Unfinished(p) -> 0 .. MaxTuners] :
        /\ uncompleted' = [uncompleted EXCEPT ![p] =
                             [id \in CmdIds |-> IF id \in Unfinished(p) THEN rest[id] ELSE 0]]
        /\ completed' = [completed EXCEPT ![p] =
                           completed[p] \union {id \in Unfinished(p) : rest[id] = 0}]
  BY <1>7 DEF HandleUncompleted
<1>15. /\ \A q \in Pigs : q # p => completed'[q] = completed[q] /\ uncompleted'[q] = uncompleted[q]
       /\ completed'[p] = completed[p] \union {id \in Unfinished(p) : rest[id] = 0}
       /\ uncompleted'[p] = [id \in CmdIds |-> IF id \in Unfinished(p) THEN rest[id] ELSE 0]
  BY <1>1, <1>14 DEF TypeOK
<1>16. \A id \in CmdIds : uncompleted'[p][id] > 0 \/ id \in completed'[p] =>
                              uncompleted[p][id] > 0 \/ id \in completed[p]
  <2>1. \A id \in CmdIds : id \in Unfinished(p) <=> uncompleted[p][id] > 0
    BY DEF Unfinished
  <2>2. \A id \in CmdIds : id \notin Unfinished(p) => ~(uncompleted'[p][id] > 0)
    BY <1>15, SMTT(20)
  <2> QED
    BY <2>1, <2>2, <1>15
<1>17. /\ athread' = athread /\ analyzer' = analyzer /\ to_interrupt' = to_interrupt
       /\ mloc' = mloc /\ midx' = midx
  BY DEF mainvars
<1>18. athread[p] /\ Placed(p)'
  BY <1>2, <1>3, <1>9, <1>10, <1>12, <1>13, <1>17 DEF Placed, a
<1>19. OwnOnly(p)'
  BY <1>2, <1>3, <1>12, <1>13, <1>16 DEF OwnOnly, Held, a
<1>20. OwnAlive(p)'
  BY <1>2, <1>3, <1>12, <1>13, <1>15 DEF OwnAlive, a
<1>21. Stage(p)'
  BY <1>2, <1>3, <1>10, <1>12, <1>13 DEF Stage, a
<1>22. Called(p)'
  BY <1>2, <1>3, <1>9, <1>12, <1>13, <1>17 DEF Called, a
<1>23. Life(p)' /\ SameCommands
  BY <1>1, <1>3, <1>18, <1>19, <1>20, <1>21, <1>22 DEF Life, SameCommands, TypeOK
<1> QED
  BY <1>3, <1>13, <1>15, <1>18, <1>23, PacketLife

(* Every step of a packet thread keeps the lives. *)
LEMMA PacketThreadLife ==
    ASSUME Inv, LifeInv, NEW p \in Pigs, UNCHANGED mainvars, PacketThread(p)
    PROVE  LifeInv'
<1>1. CASE Poke(p)
  BY <1>1, PokeLife
<1>2. CASE ~Poke(p)
  <2>1. ~an[p].to_poke /\ Inv'
    BY <1>2, PacketThreadKeeps DEF PacketThread
  <2>2. CASE AnalyzeStalled(p) \/ Drain(p)
    BY <2>1, <2>2, CommandLife DEF AnalyzeStalled, Drain
  <2>3. CASE AnalyzeRunning(p)
    BY <2>1, <2>3, RunningLife
  <2> QED
    BY <1>2, <2>1, <2>2, <2>3, MovesLife DEF PacketThread
<1> QED
  BY <1>1, <1>2

-----------------------------------------------------------------------------
(* Steps of the main thread *)

(* A step that leaves the analyzers, the commands and the ring alone, and  *)
(* reads no notification.                                                  *)
LEMMA QuietLife ==
    ASSUME LifeInv, UNCHANGED <<an, pending, completed, uncompleted, cmds, poke, analyzer, athread>>,
           pending_privileges' = 0, to_interrupt = {} \/ to_interrupt' = to_interrupt,
           mloc' \notin {"handle", "prep"} \/ UNCHANGED <<mloc, midx>>
    PROVE  LifeInv'
<1>1. Sorted /\ \A q \in Pigs : Life(q)
  BY DEF LifeInv
<1>2. Sorted'
  BY <1>1 DEF Sorted
<1>3. ASSUME NEW q \in Pigs PROVE Life(q)'
  <2>1. (Noticed(q)' => Noticed(q)) /\ (NoticedOnce(q) => NoticedOnce(q)')
    BY DEF Noticed, NoticedOnce, Handled
  <2> QED
    BY <1>1, <2>1, LifeKept
<1> QED
  BY <1>2, <1>3 DEF LifeInv

(* What is left of a queue without its head. *)
LEMMA TailAlone ==
    ASSUME NEW s \in Seq(Pigs), s # <<>>, NEW q \in Pigs, Alone(q, s)
    PROVE  Alone(q, Tail(s)) /\ (Head(s) = q => q \notin Range(Tail(s)))
<1>1. /\ Len(s) \in Nat \ {0} /\ Head(s) = s[1] /\ Tail(s) \in Seq(Pigs)
      /\ Len(Tail(s)) = Len(s) - 1
  BY SMTT(20)
<1>2. \A i \in 1 .. Len(s) - 1 : Tail(s)[i] = s[i + 1]
  BY SMTT(20)
<1>3. Alone(q, Tail(s))
  <2> SUFFICES ASSUME NEW i \in 1 .. Len(s) - 1, NEW j \in 1 .. Len(s) - 1,
                      Tail(s)[i] = q, Tail(s)[j] = q
               PROVE  i = j
    BY <1>1 DEF Alone
  <2>1. i + 1 \in 1 .. Len(s) /\ j + 1 \in 1 .. Len(s) /\ s[i + 1] = q /\ s[j + 1] = q
    BY <1>1, <1>2, SMTT(20)
  <2>2. i + 1 = j + 1
    BY <2>1 DEF Alone
  <2> QED
    BY <2>2, SMTT(20)
<1>4. ASSUME Head(s) = q, q \in Range(Tail(s)) PROVE FALSE
  <2>1. PICK i \in 1 .. Len(s) - 1 : Tail(s)[i] = q
    BY <1>1, <1>4, SMTT(20) DEF Range
  <2>2. i + 1 \in 1 .. Len(s) /\ s[i + 1] = q /\ 1 \in 1 .. Len(s) /\ s[1] = q
    BY <1>1, <1>2, <1>4, <2>1, SMTT(20)
  <2>3. i + 1 = 1
    BY <2>2 DEF Alone
  <2> QED
    BY <2>3, SMTT(20)
<1> QED
  BY <1>3, <1>4

(* main_read takes a notification out of the ring. *)
LEMMA ReadLife == ASSUME Inv, LifeInv, to_interrupt = {}, MainRead PROVE LifeInv'
<1>1. Sorted /\ (\A q \in Pigs : Life(q)) /\ poke \in Seq(Pigs)
  BY DEF LifeInv, Inv, TypeOK
<1>2. /\ mloc = "loop" /\ poke # <<>> /\ midx' = Head(poke) /\ poke' = Tail(poke) /\ mloc' = "handle"
      /\ UNCHANGED <<an, pending, completed, uncompleted, cmds, analyzer, athread, pending_privileges>>
  BY DEF MainRead, pigvars
<1>3. Sorted'
  BY <1>1, <1>2 DEF Sorted
<1>4. Range(poke) = {Head(poke)} \union Range(Tail(poke))
  BY <1>1, <1>2, TailFacts
<1>5. ASSUME NEW q \in Pigs PROVE Life(q)'
  <2>1. Noticed(q)' => Noticed(q)
    BY <1>2, <1>4 DEF Noticed, Handled
  <2>2. ASSUME NoticedOnce(q) PROVE NoticedOnce(q)'
    <3>1. Alone(q, Tail(poke)) /\ (Head(poke) = q => q \notin Range(Tail(poke)))
      BY <1>1, <1>2, <2>2, TailAlone DEF NoticedOnce
    <3> QED
      BY <1>2, <1>4, <2>2, <3>1 DEF NoticedOnce, Handled
  <2> QED
    BY <1>1, <1>2, <2>1, <2>2, LifeKept
<1> QED
  BY <1>3, <1>5 DEF LifeInv

(* A new analyzer is notified of once. *)
LEMMA PrepLife ==
    ASSUME Inv, LifeInv, NEW p \in Pigs, ~analyzer[p], Prep(p), p \notin Range(poke),
           UNCHANGED <<pending, completed, uncompleted, cmds, athread, to_interrupt>>,
           mloc # "handle", mloc' # "handle"
    PROVE  \A q \in Pigs : Life(q)'
<1>1. TypeOK /\ OnceEach /\ DroveCounted /\ \A q \in Pigs : Life(q)
  BY DEF LifeInv, Inv
<1>2. Placed(p) /\ OwnOnly(p) /\ OwnAlive(p) /\ ~athread[p]
  BY <1>1 DEF Life, DroveCounted
<1>3. an' = [an EXCEPT ![p] = NewAnalyzer] /\ analyzer' = [analyzer EXCEPT ![p] = TRUE] /\ PutPoke(p)
  BY DEF Prep
<1>4. /\ an'[p] = NewAnalyzer /\ \A q \in Pigs : q # p => an'[q] = an[q] /\ analyzer'[q] = analyzer[q]
  BY <1>1, <1>3 DEF TypeOK
<1>5. /\ \A q \in Pigs : q \in Range(poke') => q = p \/ q \in Range(poke)
      /\ \A q \in Pigs : q # p /\ Alone(q, poke) => Alone(q, poke')
      /\ p \notin Range(poke) => Alone(p, poke')
  BY <1>1, <1>3, PutPokeNotices
<1>6. /\ NewAnalyzer.state = "NEW" /\ NewAnalyzer.pc = "none" /\ NewAnalyzer.to_poke = FALSE
      /\ NewAnalyzer.cur = None /\ None \notin CmdIds
  BY SMTT(20) DEF NewAnalyzer, None, CmdIds
<1>7. pending[p] = <<>> /\ completed[p] = {} /\ an[p].cur = None /\ Range(<<>>) = {}
  BY <1>1, <1>2, EmptyFacts DEF Placed, OnceEach, Apart
<1>8. cmds[StartId(p)].kind = "none" /\ cmds[RunId(p)].kind = "none"
  BY <1>2, <1>6, <1>7, OwnIds DEF OwnAlive
<1>9. Life(p)'
  <2>1. Placed(p)'
    BY <1>2, <1>4, <1>6, <1>7 DEF Placed
  <2>2. OwnOnly(p)'
    BY <1>2, <1>4, <1>6 DEF OwnOnly, Held
  <2>3. OwnAlive(p)'
    BY <1>8 DEF OwnAlive
  <2>4. NoticedOnce(p)'
    BY <1>4, <1>5, <1>6 DEF NoticedOnce, Handled
  <2>5. Stage(p)' /\ Called(p)'
    BY <1>2, <1>4, <1>6, <1>8, <2>4 DEF Stage, Called
  <2> QED
    BY <2>1, <2>2, <2>3, <2>5 DEF Life
<1>10. ASSUME NEW q \in Pigs, q # p PROVE Life(q)'
  <2>1. (Noticed(q)' => Noticed(q)) /\ (NoticedOnce(q) => NoticedOnce(q)')
    BY <1>4, <1>5, <1>10 DEF Noticed, NoticedOnce, Handled
  <2> QED
    BY <1>1, <1>4, <1>10, <2>1, LifeKept
<1> QED
  BY <1>9, <1>10

(* In live mode. *)
LEMMA PrepAllLife == ASSUME Inv, LifeInv, to_interrupt = {}, PrepAll PROVE LifeInv'
<1>1. Sorted /\ TypeOK /\ InHand /\ \A q \in Pigs : Life(q)
  BY DEF LifeInv, Inv
<1>2. /\ mloc = "prep" /\ mloc' \in {"prep", "loop"} /\ (mloc' = "prep" => midx' = midx + 1)
      /\ UNCHANGED <<pending, completed, uncompleted, cmds, athread, to_interrupt, pending_privileges>>
  BY DEF PrepAll
<1>3. midx \in Pigs /\ ~analyzer[midx] /\ \A p \in Pigs : ~athread[p] /\ (p \in Range(poke) => p < midx)
  <2>1. midx \in Pigs /\ midx >= midx
    BY <1>1, <1>2, SMTT(20) DEF InHand, Pigs
  <2> QED
    BY <1>1, <1>2, <2>1 DEF InHand, Sorted
<1>4. midx \notin Range(poke) /\ \A p \in Pigs : p < midx => p < midx + 1
  BY <1>3, SMTT(20) DEF Pigs
<1>5. CASE Prep(midx)
  <2>1. \A q \in Pigs : Life(q)'
    BY <1>2, <1>3, <1>4, <1>5, PrepLife
  <2>2. \A q \in Pigs : q \in Range(poke') => q = midx \/ q \in Range(poke)
    BY <1>1, <1>3, <1>5, PutPokeNotices DEF Prep
  <2>3. \A q \in Pigs : q \in Range(poke') => q < midx + 1
    BY <1>3, <1>4, <2>2, SMTT(20) DEF Pigs
  <2>4. Sorted'
    BY <1>1, <1>2, <1>3, <2>3 DEF Sorted
  <2> QED
    BY <2>1, <2>4 DEF LifeInv
<1>6. CASE UNCHANGED <<an, analyzer, poke>>
  <2>1. Sorted'
    BY <1>1, <1>2, <1>3, <1>4, <1>6 DEF Sorted
  <2>2. ASSUME NEW q \in Pigs PROVE Life(q)'
    <3>1. (Noticed(q)' => Noticed(q)) /\ (NoticedOnce(q) => NoticedOnce(q)')
      BY <1>2, <1>6 DEF Noticed, NoticedOnce, Handled
    <3> QED
      BY <1>1, <1>2, <1>6, <3>1, LifeKept
  <2> QED
    BY <2>1, <2>2 DEF LifeInv
<1> QED
  BY <1>5, <1>6 DEF PrepAll

(* In read mode, when main_read finds the ring empty. *)
LEMMA IdleLife == ASSUME Inv, LifeInv, to_interrupt = {}, MainIdle PROVE LifeInv'
<1>1. Sorted /\ \A q \in Pigs : Life(q)
  BY DEF LifeInv
<1>2. /\ mloc = "loop" /\ poke = <<>>
      /\ UNCHANGED <<pending, completed, uncompleted, cmds, midx, athread, pending_privileges, to_interrupt>>
  BY DEF MainIdle
<1>3. pending_privileges' = 0
  BY <1>1, <1>2 DEF Sorted
<1>4. ASSUME NEW p \in Pigs, LazyPig(p), Prep(p), UNCHANGED mloc PROVE LifeInv'
  <2>1. ~analyzer[p] /\ p \notin Range(poke) /\ mloc' = "loop"
    BY <1>2, <1>4, EmptyFacts DEF LazyPig
  <2>2. \A q \in Pigs : Life(q)'
    BY <1>2, <1>4, <2>1, PrepLife
  <2>3. Sorted'
    BY <1>1, <1>2, <2>1 DEF Sorted
  <2> QED
    BY <2>2, <2>3 DEF LifeInv
<1>5. CASE UNCHANGED <<an, analyzer, poke>> /\ mloc' \in {"loop", "service"}
  BY <1>2, <1>3, <1>5, QuietLife
<1> QED
  BY <1>2, <1>4, <1>5 DEF MainIdle

(* The thread is started on the only notification of NEW. *)
LEMMA NewLife == ASSUME Inv, LifeInv, to_interrupt = {}, HandleNew PROVE LifeInv'
<1>1. Sorted /\ TypeOK /\ \A q \in Pigs : Life(q)
  BY DEF LifeInv, Inv
<1>2. PICK p \in Pigs : p = midx
  BY DEF Inv, InHand, HandleNew
<1> DEFINE b == [an[p] EXCEPT !.pc = "init", !.conf = conf, !.attribs = attribs]
<1>3. /\ mloc = "handle" /\ mloc' = "post" /\ analyzer[p] /\ an[p].state = "NEW"
      /\ athread' = [athread EXCEPT ![p] = TRUE] /\ an' = [an EXCEPT ![p] = b]
      /\ UNCHANGED <<pending, completed, uncompleted, cmds, poke, analyzer, midx, to_interrupt,
                     pending_privileges>>
  BY <1>2 DEF HandleNew, PigStart
<1>4. an[p] \in AnalyzerType /\ Placed(p) /\ OwnOnly(p) /\ OwnAlive(p) /\ Stage(p)
  BY <1>1, <1>2 DEF Life, TypeOK
<1>5. b.state = "NEW" /\ b.pc = "init" /\ b.to_poke = an[p].to_poke /\ b.cur = an[p].cur
  BY <1>3, <1>4 DEF AnalyzerType
<1> HIDE DEF b
<1>6. /\ an'[p] = b /\ athread'[p] = TRUE
      /\ \A q \in Pigs : q # p => an'[q] = an[q] /\ athread'[q] = athread[q]
  BY <1>1, <1>3, <1>2 DEF TypeOK
<1>7. an[p].pc \in {"none", "init"} /\ ~an[p].to_poke
  BY <1>3, <1>4 DEF Placed, AnalyzerType
<1>8. NoticedOnce(p) /\ Handled(p) /\ cmds[StartId(p)].kind = "none" /\ cmds[RunId(p)].kind = "none"
  BY <1>2, <1>3, <1>4 DEF Stage, Handled
<1>9. ~Noticed(p)' /\ NoticedOnce(p)'
  BY <1>3, <1>5, <1>6, <1>7, <1>8 DEF Noticed, NoticedOnce, Handled
<1>10. Life(p)'
  <2>1. Placed(p)'
    BY <1>5, <1>6, <1>7 DEF Placed
  <2>2. OwnOnly(p)' /\ OwnAlive(p)'
    BY <1>3, <1>4, <1>5, <1>6 DEF OwnOnly, OwnAlive, Held
  <2>3. Stage(p)' /\ Called(p)'
    BY <1>3, <1>5, <1>6, <1>8, <1>9 DEF Stage, Called
  <2> QED
    BY <2>1, <2>2, <2>3 DEF Life
<1>11. ASSUME NEW q \in Pigs, q # p PROVE Life(q)'
  <2>1. (Noticed(q)' => Noticed(q)) /\ (NoticedOnce(q) => NoticedOnce(q)')
    BY <1>3, <1>6, <1>11 DEF Noticed, NoticedOnce, Handled
  <2> QED
    BY <1>1, <1>3, <1>6, <1>11, <2>1, LifeKept
<1>12. Sorted'
  BY <1>1, <1>3 DEF Sorted
<1> QED
  BY <1>10, <1>11, <1>12 DEF LifeInv

(* A command is pushed to q. *)
LEMMA PushLife ==
    ASSUME NEW q \in Pigs, Life(q), athread[q], NEW id \in CmdIds,
           an'[q] = an[q], completed'[q] = completed[q], uncompleted'[q] = uncompleted[q],
           Range(pending'[q]) = Range(pending[q]) \union {id},
           athread'[q] = athread[q], analyzer'[q] = analyzer[q],
           \A jd \in {StartId(q), RunId(q)} \ {id} :
              cmds'[jd].kind = cmds[jd].kind /\ cmds'[jd].refs = cmds[jd].refs,
           id > MaxConsole => id \in {StartId(q), RunId(q)} /\ cmds'[id].refs = 1,
           q \in to_interrupt', Stage(q)'
    PROVE  Life(q)'
<1>1. Placed(q) /\ OwnOnly(q) /\ OwnAlive(q)
  BY DEF Life
<1>2. Placed(q)'
  BY <1>1 DEF Placed
<1>3. OwnOnly(q)'
  BY <1>1 DEF OwnOnly, Held
<1>4. OwnAlive(q)'
  <2> SUFFICES ASSUME NEW jd \in {StartId(q), RunId(q)}, cmds'[jd].kind # "none"
               PROVE  /\ cmds'[jd].refs = 1
                      /\ jd \in Range(pending'[q]) \/ jd \in completed'[q] \/ an'[q].cur = jd
    BY DEF OwnAlive
  <2>1. jd > MaxConsole
    BY OwnIds
  <2> QED
    BY <1>1, <2>1 DEF OwnAlive
<1>5. Called(q)'
  BY DEF Called
<1> QED
  BY <1>2, <1>3, <1>4, <1>5 DEF Life

(* What queue_command does to the queue of q and to the commands. *)
LEMMA SendLife ==
    ASSUME Inv, NEW id \in CmdIds, NEW c \in CommandType, NEW D \in SUBSET Pigs, Send(id, c, D)
    PROVE  /\ \A jd \in CmdIds : jd # id => cmds'[jd] = cmds[jd]
           /\ cmds'[id].kind = c.kind
           /\ \A p \in Pigs : (D = {p} /\ HasThread(p)) => cmds'[id].refs = 1
           /\ \A q \in Pigs : ~(q \in D /\ HasThread(q)) => pending'[q] = pending[q]
           /\ \A q \in D : HasThread(q) =>
                 Range(pending'[q]) = Range(pending[q]) \union {id} /\ q \in to_interrupt'
           /\ UNCHANGED <<an, completed, uncompleted, poke>>
<1> DEFINE to == {p \in D : HasThread(p)}
           e == [c EXCEPT !.refs = Cardinality(to)]
<1>1. /\ cmds' = [cmds EXCEPT ![id] = e] /\ to_interrupt' = to
      /\ pending' = [p \in Pigs |-> IF p \in to THEN Append(pending[p], id) ELSE pending[p]]
      /\ UNCHANGED <<an, completed, uncompleted, poke>>
  BY DEF Send
<1>2. e.kind = c.kind /\ e.refs = Cardinality(to)
  BY DEF CommandType
<1> HIDE DEF e
<1>3. cmds'[id] = e /\ \A jd \in CmdIds : jd # id => cmds'[jd] = cmds[jd]
  BY <1>1 DEF Inv, TypeOK
<1>4. ASSUME NEW p \in Pigs, D = {p}, HasThread(p) PROVE Cardinality(to) = 1
  <2>1. to = {p}
    BY <1>4
  <2> QED
    BY <2>1, StillCounting DEF Counting
<1>5. \A q \in Pigs : pending'[q] = IF q \in to THEN Append(pending[q], id) ELSE pending[q]
  BY <1>1
<1>6. \A q \in Pigs : Range(Append(pending[q], id)) = Range(pending[q]) \union {id}
  BY AppendFacts, SMTT(20) DEF Inv, TypeOK
<1> QED
  BY <1>1, <1>2, <1>3, <1>4, <1>5, <1>6

(* A command that a user or a signal gave. *)
LEMMA GivenLife ==
    ASSUME Inv, LifeInv, to_interrupt = {}, NEW id \in CmdIds, id <= MaxConsole, NEW c \in CommandType,
           c.kind \notin {"none", "start", "run"}, Send(id, c, Pigs),
           UNCHANGED <<analyzer, athread, pending_privileges>>, mloc' \notin {"handle", "prep"}
    PROVE  LifeInv'
<1>1. Pigs \in SUBSET Pigs
  OBVIOUS
<1>2. Sorted /\ TypeOK /\ \A q \in Pigs : Life(q)
  BY DEF LifeInv, Inv
<1>3. \A jd \in CmdIds : jd # id => cmds'[jd] = cmds[jd]
  BY <1>1, SendLife
<1>4. cmds'[id].kind = c.kind /\ UNCHANGED <<an, completed, uncompleted, poke>>
  BY <1>1, SendLife
<1>5. Sorted'
  BY <1>2, <1>3, <1>4 DEF Sorted
<1>6. ASSUME NEW q \in Pigs PROVE Life(q)'
  <2>1. ~(id > MaxConsole) /\ id \notin {StartId(q), RunId(q)} /\ StartId(q) \in CmdIds /\ RunId(q) \in CmdIds
    <3>1. MaxConsole \in Nat /\ id \in Nat
      BY AnalyzerAssumption, SMTT(20) DEF CmdIds
    <3>2. ~(id > MaxConsole)
      BY <3>1, SMTT(20)
    <3> QED
      BY <3>2, OwnIds
  <2>2. \A jd \in {StartId(q), RunId(q)} : cmds'[jd] = cmds[jd]
    BY <1>3, <2>1
  <2>3. (Noticed(q)' => Noticed(q)) /\ (NoticedOnce(q) => NoticedOnce(q)')
    BY <1>4 DEF Noticed, NoticedOnce, Handled
  <2>4. CASE ~HasThread(q)
    <3>1. pending'[q] = pending[q]
      BY <1>1, <2>4, SendLife
    <3> QED
      BY <1>2, <1>4, <2>2, <2>3, <3>1, LifeKept
  <2>5. CASE HasThread(q)
    <3>1. Range(pending'[q]) = Range(pending[q]) \union {id} /\ q \in to_interrupt' /\ athread[q]
      BY <1>1, <2>5, SendLife DEF HasThread
    <3>2. Stage(q)
      BY <1>2 DEF Life
    <3>3. Stage(q)'
      BY <1>4, <2>1, <2>2, <2>3, <3>1, <3>2 DEF Stage
    <3> QED
      BY <1>2, <1>4, <2>1, <2>2, <3>1, <3>3, PushLife
  <2> QED
    BY <2>4, <2>5
<1> QED
  BY <1>5, <1>6 DEF LifeInv

(* The START on the notification of INITIALIZED, the RUN on that of        *)
(* STARTED: it is the only one, so that each is made once.                 *)
LEMMA AdvanceLife ==
    ASSUME Inv, LifeInv, to_interrupt = {}, HandleInitialized \/ HandleStarted
    PROVE  LifeInv'
<1>1. Sorted /\ TypeOK /\ \A q \in Pigs : Life(q)
  BY DEF LifeInv, Inv
<1>2. PICK p \in Pigs : p = midx
  BY DEF Inv, InHand, HandleInitialized, HandleStarted
<1>3. /\ mloc = "handle" /\ mloc' = "post" /\ analyzer[p] /\ an[p].state \in {"INITIALIZED", "STARTED"}
      /\ UNCHANGED <<analyzer, athread, midx>>
  BY <1>2 DEF HandleInitialized, HandleStarted
<1>4. pending_privileges = 0 /\ ~(pending_privileges > 0)
  BY <1>1, SMTT(20) DEF Sorted
<1>5. PICK id \in CmdIds, c \in CommandType :
        /\ Send(id, c, {p}) /\ UNCHANGED pending_privileges
        /\ \/ an[p].state = "INITIALIZED" /\ id = StartId(p) /\ c.kind = "start"
           \/ an[p].state = "STARTED" /\ id = RunId(p) /\ c.kind = "run"
  <2>1. CASE HandleInitialized
    <3>1. Send(StartId(p), Command("start", 0, 0), {p}) /\ UNCHANGED pending_privileges
      BY <1>2, <1>4, <2>1 DEF HandleInitialized, Advance
    <3>2. StartId(p) \in CmdIds /\ Command("start", 0, 0) \in CommandType /\ Command("start", 0, 0).kind = "start"
      BY <1>2, CommandFacts
    <3>3. an[p].state = "INITIALIZED"
      BY <1>2, <2>1 DEF HandleInitialized
    <3> QED
      BY <3>1, <3>2, <3>3
  <2>2. CASE HandleStarted
    <3> DEFINE arg == IF paused THEN 1 ELSE 0
    <3>1. Send(RunId(p), Command("run", 0, arg), {p}) /\ UNCHANGED pending_privileges
      BY <1>2, <1>4, <2>2 DEF HandleStarted, Advance
    <3>2. arg \in {0, 1}
      OBVIOUS
    <3> HIDE DEF arg
    <3>3. RunId(p) \in CmdIds /\ Command("run", 0, arg) \in CommandType /\ Command("run", 0, arg).kind = "run"
      BY <1>2, <3>2, CommandFacts
    <3>4. an[p].state = "STARTED"
      BY <1>2, <2>2 DEF HandleStarted
    <3> QED
      BY <3>1, <3>3, <3>4
  <2> QED
    BY <2>1, <2>2
<1>6. {p} \in SUBSET Pigs
  BY <1>2
<1>7. Placed(p) /\ Stage(p)
  BY <1>1, <1>2 DEF Life
<1>8. athread[p] /\ HasThread(p)
  BY <1>3, <1>7 DEF Placed, HasThread
<1>9. /\ \A jd \in CmdIds : jd # id => cmds'[jd] = cmds[jd]
      /\ cmds'[id].kind = c.kind /\ cmds'[id].refs = 1
      /\ Range(pending'[p]) = Range(pending[p]) \union {id} /\ p \in to_interrupt'
      /\ UNCHANGED <<an, completed, uncompleted, poke>>
  BY <1>1, <1>2, <1>5, <1>6, <1>8, SendLife
<1>10. Sorted'
  <2>1. c.kind = "start" => \E q \in Pigs : id = StartId(q)
    BY <1>2, <1>5
  <2>2. c.kind = "run" => \E q \in Pigs : id = RunId(q)
    BY <1>2, <1>5
  <2>3. c.kind \in {"start", "run"}
    BY <1>5
  <2> QED
    BY <1>1, <1>3, <1>5, <1>9, <2>1, <2>2, <2>3 DEF Sorted
<1>11. Life(p)'
  <2>1. NoticedOnce(p) /\ Handled(p)
    BY <1>2, <1>3, <1>7 DEF Stage, Handled
  <2>2. ~Noticed(p)' /\ NoticedOnce(p)'
    BY <1>3, <1>9, <2>1 DEF Noticed, NoticedOnce, Handled
  <2>3. StartId(p) \in CmdIds /\ RunId(p) \in CmdIds /\ StartId(p) # RunId(p) /\ id \in {StartId(p), RunId(p)}
    BY <1>2, <1>5, OwnIds
  <2>4. Stage(p)'
    BY <1>5, <1>7, <1>9, <2>2, <2>3, SMTT(20) DEF Stage
  <2>5. \A jd \in {StartId(p), RunId(p)} \ {id} : cmds'[jd] = cmds[jd]
    BY <1>9, <2>3
  <2>6. Life(p) /\ athread'[p] = athread[p] /\ analyzer'[p] = analyzer[p]
    BY <1>1, <1>3, <1>2
  <2> QED
    BY <1>2, <1>8, <1>9, <2>3, <2>4, <2>5, <2>6, PushLife
<1>12. ASSUME NEW q \in Pigs, q # p PROVE Life(q)'
  <2>1. pending'[q] = pending[q]
    BY <1>1, <1>5, <1>6, <1>12, SendLife
  <2>2. \A jd \in {StartId(q), RunId(q)} : cmds'[jd] = cmds[jd]
    BY <1>2, <1>5, <1>9, <1>12, OwnIds
  <2>3. (Noticed(q)' => Noticed(q)) /\ (NoticedOnce(q) => NoticedOnce(q)')
    BY <1>3, <1>9 DEF Noticed, NoticedOnce, Handled
  <2> QED
    BY <1>1, <1>3, <1>9, <2>1, <2>2, <2>3, LifeKept
<1> QED
  BY <1>10, <1>11, <1>12 DEF LifeInv

(* Who gives command id back, and the commands reaping deletes. *)
Back(Q, id) == {p \in Pigs : id \in Q[p]}

Gone(Q, O) ==
    O \union {id \in CmdIds : /\ Cardinality(Back(Q, id)) > 0
                              /\ cmds[id].refs = Cardinality(Back(Q, id))}

(* Reaping deletes a START or a RUN that its pig gives back, and leaves    *)
(* the others as they are.                                                 *)
LEMMA ReapLife ==
    ASSUME Inv, LifeInv, NEW Q \in [Pigs -> SUBSET CmdIds], NEW O \in SUBSET orphans, Reap(Q, O),
           \A p \in Pigs : \A id \in Q[p] : id \in completed[p] \/ id \in Range(pending[p])
    PROVE  /\ \A q \in Pigs : \A id \in {StartId(q), RunId(q)} :
                 cmds'[id] = IF id \in Q[q] THEN Dead ELSE cmds[id]
           /\ \A id \in CmdIds : cmds'[id].kind = "none" => cmds'[id] = Dead
           /\ \A id \in CmdIds : cmds'[id].kind \in {"none", cmds[id].kind}
<1>1. TypeOK /\ CommandsAlive /\ OrphansReal /\ Sorted /\ \A q \in Pigs : Life(q)
  BY DEF LifeInv, Inv
<1>2. ASSUME NEW id \in CmdIds
      PROVE  cmds'[id] = IF id \in Gone(Q, O) THEN Dead
                         ELSE [cmds[id] EXCEPT !.refs = cmds[id].refs - Cardinality(Back(Q, id))]
  BY DEF Reap, Gone, Back
<1>3. Dead.kind = "none" /\ Dead.refs = 0
  BY DEF Dead, Command
<1>4. ASSUME NEW id \in CmdIds, Back(Q, id) = {}, id \notin O PROVE cmds'[id] = cmds[id]
  <2>1. Cardinality(Back(Q, id)) = 0
    BY <1>4, StillCounting DEF Counting
  <2>2. id \notin Gone(Q, O)
    BY <1>4, <2>1, SMTT(20) DEF Gone
  <2>3. cmds[id] \in CommandType
    BY <1>1 DEF TypeOK
  <2>4. cmds[id].refs - 0 = cmds[id].refs
    BY <2>3, AnalyzerAssumption, SMTT(20) DEF CommandType
  <2> QED
    BY <1>2, <2>1, <2>2, <2>3, <2>4, SMTT(20) DEF CommandType
<1>5. ASSUME NEW id \in CmdIds, NEW p \in Back(Q, id)
      PROVE  p \in Pigs /\ Held(id, pending[p], completed[p], uncompleted[p], an[p]) /\ cmds[id].kind # "none"
  <2>1. p \in Pigs /\ Held(id, pending[p], completed[p], uncompleted[p], an[p])
    BY DEF Back, Held
  <2> QED
    BY <1>1, <2>1, HeldAlive
<1>6. ASSUME NEW q \in Pigs, NEW id \in {StartId(q), RunId(q)}
      PROVE  cmds'[id] = IF id \in Q[q] THEN Dead ELSE cmds[id]
  <2>1. id \in CmdIds /\ id > MaxConsole
    BY OwnIds
  <2>2. OwnAlive(q)
    BY <1>1 DEF Life
  <2>3. id \notin O
    BY <1>1, <2>1, <2>2, SMTT(20) DEF OwnAlive, CommandsAlive, OrphansReal
  <2>4. ASSUME NEW p \in Back(Q, id) PROVE p = q
    <3>1. p \in Pigs /\ Held(id, pending[p], completed[p], uncompleted[p], an[p])
      BY <1>5, <2>1
    <3>2. id \in {StartId(p), RunId(p)}
      BY <1>1, <2>1, <3>1 DEF Life, OwnOnly
    <3> QED
      BY <3>1, <3>2, OwnIds
  <2>5. CASE id \in Q[q]
    <3>1. Back(Q, id) = {q} /\ cmds[id].refs = 1
      <4>1. q \in Back(Q, id)
        BY <2>5 DEF Back
      <4>2. cmds[id].kind # "none"
        BY <4>1, <1>5, <2>1
      <4> QED
        BY <4>1, <4>2, <2>2, <2>4 DEF OwnAlive
    <3>2. Cardinality(Back(Q, id)) = 1
      BY <3>1, StillCounting DEF Counting
    <3>3. id \in Gone(Q, O)
      BY <2>1, <3>1, <3>2, SMTT(20) DEF Gone
    <3> QED
      BY <1>2, <2>1, <2>5, <3>3
  <2>6. CASE id \notin Q[q]
    <3>1. Back(Q, id) = {}
      BY <2>4, <2>6 DEF Back
    <3> QED
      BY <1>4, <2>1, <2>3, <2>6, <3>1
  <2> QED
    BY <2>5, <2>6
<1>7. ASSUME NEW id \in CmdIds
      PROVE  cmds'[id].kind \in {"none", cmds[id].kind} /\ (cmds'[id].kind = "none" => cmds'[id] = Dead)
  <2>1. cmds[id] \in CommandType
    BY <1>1 DEF TypeOK
  <2>2. CASE id \in Gone(Q, O)
    BY <1>2, <1>3, <2>2
  <2>3. CASE id \notin Gone(Q, O)
    <3>1. cmds'[id].kind = cmds[id].kind
      BY <1>2, <2>1, <2>3 DEF CommandType
    <3>2. ASSUME cmds[id].kind = "none" PROVE cmds'[id] = Dead
      <4>1. cmds[id] = Dead /\ Back(Q, id) = {} /\ id \notin O
        BY <1>1, <1>5, <3>2, <2>3 DEF Sorted, Gone
      <4> QED
        BY <4>1, <1>4
    <3> QED
      BY <3>1, <3>2
  <2> QED
    BY <2>2, <2>3
<1> QED
  BY <1>6, <1>7

(* reap_commands *)
LEMMA HouseKeepingLife == ASSUME Inv, LifeInv, to_interrupt = {}, HouseKeeping PROVE LifeInv'
<1>1. Sorted /\ TypeOK /\ \A q \in Pigs : Life(q)
  BY DEF LifeInv, Inv
<1>2. /\ mloc' = "loop" /\ Reap(completed, orphans) /\ completed' = [p \in Pigs |-> {}]
      /\ UNCHANGED <<an, pending, uncompleted, poke, analyzer, athread, pending_privileges, to_interrupt>>
  BY DEF HouseKeeping, pigvars
<1>3. completed \in [Pigs -> SUBSET CmdIds] /\ orphans \in SUBSET orphans
  BY <1>1 DEF TypeOK
<1>4. /\ \A q \in Pigs : \A id \in {StartId(q), RunId(q)} :
            cmds'[id] = IF id \in completed[q] THEN Dead ELSE cmds[id]
      /\ \A id \in CmdIds : cmds'[id].kind = "none" => cmds'[id] = Dead
      /\ \A id \in CmdIds : cmds'[id].kind \in {"none", cmds[id].kind}
  BY <1>2, <1>3, ReapLife
<1>5. Sorted'
  BY <1>1, <1>2, <1>4 DEF Sorted
<1>6. ASSUME NEW q \in Pigs PROVE Life(q)'
  <2>1. Placed(q) /\ OwnOnly(q) /\ OwnAlive(q) /\ Stage(q) /\ Called(q) /\ completed'[q] = {}
    BY <1>1, <1>2 DEF Life
  <2>2. \A id \in {StartId(q), RunId(q)} :
            \/ cmds'[id].kind = "none"
            \/ cmds'[id] = cmds[id] /\ id \notin completed[q]
    BY <1>4, SMTT(20) DEF Dead, Command
  <2>3. (Noticed(q)' => Noticed(q)) /\ (NoticedOnce(q) => NoticedOnce(q)')
    BY <1>2 DEF Noticed, NoticedOnce, Handled
  <2>4. Placed(q)' /\ Called(q)'
    BY <1>2, <2>1 DEF Placed, Called
  <2>5. OwnOnly(q)'
    BY <1>2, <2>1 DEF OwnOnly, Held
  <2>6. OwnAlive(q)'
    BY <1>2, <2>1, <2>2 DEF OwnAlive
  <2>7. Stage(q)'
    BY <1>2, <2>1, <2>2, <2>3 DEF Stage
  <2> QED
    BY <2>4, <2>5, <2>6, <2>7 DEF Life
<1> QED
  BY <1>5, <1>6 DEF LifeInv

(* Pig::stop gives back every command the pig has, its START and its RUN   *)
(* among them.                                                             *)
LEMMA StoppedLife == ASSUME Inv, LifeInv, to_interrupt = {}, HandleStopped PROVE LifeInv'
<1>1. Sorted /\ TypeOK /\ OnceEach /\ \A q \in Pigs : Life(q)
  BY DEF LifeInv, Inv
<1>2. PICK p \in Pigs : p = midx
  BY DEF Inv, InHand, HandleStopped
<1> DEFINE Q == [q \in Pigs |-> IF q = p THEN completed[p] \union Range(pending[p]) ELSE {}]
<1>3. /\ mloc = "handle" /\ mloc' = "post" /\ ~an[p].to_poke
      /\ athread' = [athread EXCEPT ![p] = FALSE] /\ analyzer' = [analyzer EXCEPT ![p] = FALSE]
      /\ Reap(Q, {}) /\ an' = [an EXCEPT ![p] = NewAnalyzer]
      /\ pending' = [pending EXCEPT ![p] = <<>>] /\ completed' = [completed EXCEPT ![p] = {}]
      /\ uncompleted' = [uncompleted EXCEPT ![p] = [id \in CmdIds |-> 0]]
      /\ UNCHANGED <<poke, to_interrupt, midx, pending_privileges>>
  BY <1>2 DEF HandleStopped, PigStop
<1>4. Range(pending[p]) \subseteq CmdIds
  <2>1. pending[p] \in Seq(CmdIds)
    BY <1>1, <1>2 DEF TypeOK
  <2> QED
    BY <2>1, RangeFacts
<1>5. Q \in [Pigs -> SUBSET CmdIds] /\ {} \in SUBSET orphans
      /\ Q[p] = completed[p] \union Range(pending[p]) /\ \A q \in Pigs : q # p => Q[q] = {}
  <2>1. completed[p] \in SUBSET CmdIds
    BY <1>1, <1>2 DEF TypeOK
  <2> QED
    BY <1>2, <1>4, <2>1
<1> HIDE DEF Q
<1>6. \A q \in Pigs : \A id \in Q[q] : id \in completed[q] \/ id \in Range(pending[q])
  BY <1>5
<1>7. /\ \A q \in Pigs : \A id \in {StartId(q), RunId(q)} :
            cmds'[id] = IF id \in Q[q] THEN Dead ELSE cmds[id]
      /\ \A id \in CmdIds : cmds'[id].kind = "none" => cmds'[id] = Dead
      /\ \A id \in CmdIds : cmds'[id].kind \in {"none", cmds[id].kind}
  BY <1>3, <1>5, <1>6, ReapLife
<1>8. Sorted'
  BY <1>1, <1>3, <1>7 DEF Sorted
<1>9. /\ an'[p] = NewAnalyzer /\ athread'[p] = FALSE /\ analyzer'[p] = FALSE /\ pending'[p] = <<>>
      /\ completed'[p] = {} /\ uncompleted'[p] = [id \in CmdIds |-> 0]
      /\ \A q \in Pigs : q # p =>
            /\ an'[q] = an[q] /\ athread'[q] = athread[q] /\ analyzer'[q] = analyzer[q]
            /\ pending'[q] = pending[q] /\ completed'[q] = completed[q] /\ uncompleted'[q] = uncompleted[q]
  BY <1>1, <1>3, <1>2 DEF TypeOK
<1>10. Life(p)'
  <2>1. /\ NewAnalyzer.state = "NEW" /\ NewAnalyzer.pc = "none" /\ NewAnalyzer.to_poke = FALSE
        /\ NewAnalyzer.cur = None /\ None \notin CmdIds /\ Range(<<>>) = {} /\ ~(0 > 0)
    BY EmptyFacts, SMTT(20) DEF NewAnalyzer, None, CmdIds
  <2>2. an[p].cur = None
    BY <1>1, <1>3, <1>2 DEF OnceEach, Apart
  <2>3. OwnAlive(p)
    BY <1>1, <1>2 DEF Life
  <2>4. \A id \in {StartId(p), RunId(p)} : cmds'[id].kind = "none"
    BY <1>2, <1>5, <1>7, <2>2, <2>3, OwnIds, SMTT(20) DEF OwnAlive, Dead, Command
  <2>5. Placed(p)'
    BY <1>9, <2>1 DEF Placed
  <2>6. OwnOnly(p)'
    BY <1>9, <2>1 DEF OwnOnly, Held
  <2>7. OwnAlive(p)'
    BY <2>4 DEF OwnAlive
  <2>8. Stage(p)' /\ Called(p)'
    BY <1>9, <2>1, <2>4 DEF Stage, Called
  <2> QED
    BY <2>5, <2>6, <2>7, <2>8 DEF Life
<1>11. ASSUME NEW q \in Pigs, q # p PROVE Life(q)'
  <2>1. \A id \in {StartId(q), RunId(q)} : cmds'[id] = cmds[id]
    BY <1>5, <1>7, <1>11
  <2>2. (Noticed(q)' => Noticed(q)) /\ (NoticedOnce(q) => NoticedOnce(q)')
    BY <1>3, <1>9, <1>11 DEF Noticed, NoticedOnce, Handled
  <2> QED
    BY <1>1, <1>3, <1>9, <1>11, <2>1, <2>2, LifeKept
<1> QED
  BY <1>8, <1>10, <1>11 DEF LifeInv

(* The interrupt finds a pig that has, or will have, a RUN waiting in a    *)
(* state in which it is interrupted.                                       *)
LEMMA InterruptLife == ASSUME Inv, LifeInv, Interrupt PROVE LifeInv'
<1>1. Sorted /\ TypeOK /\ \A q \in Pigs : Life(q)
  BY DEF LifeInv, Inv
<1>2. PICK p \in to_interrupt :
        /\ to_interrupt' = to_interrupt \ {p}
        /\ an' = [an EXCEPT ![p].interrupted = @ \/ an[p].state \in {"STARTED", "RUNNING", "PAUSED"}]
  BY DEF Interrupt
<1>3. UNCHANGED <<pending, completed, uncompleted, cmds, poke, mloc, midx, athread, analyzer, pending_privileges>>
  BY DEF Interrupt, pigvars
<1>4. p \in Pigs /\ an \in [Pigs -> AnalyzerType]
  BY <1>1, <1>2 DEF TypeOK
<1> DEFINE b == [an[p] EXCEPT !.interrupted =
                    an[p].interrupted \/ an[p].state \in {"STARTED", "RUNNING", "PAUSED"}]
<1>5. an'[p] = b /\ \A q \in Pigs : q # p => an'[q] = an[q]
  BY <1>2, <1>4
<1>6. /\ b.pc = an[p].pc /\ b.state = an[p].state /\ b.to_poke = an[p].to_poke /\ b.cur = an[p].cur
      /\ an[p].state \in {"STARTED", "RUNNING", "PAUSED"} => b.interrupted
  BY <1>4 DEF AnalyzerType
<1> HIDE DEF b
<1>7. Sorted'
  BY <1>1, <1>3 DEF Sorted
<1>8. Life(p)'
  <2>1. Placed(p) /\ OwnOnly(p) /\ OwnAlive(p) /\ Stage(p)
    BY <1>1, <1>4 DEF Life
  <2>2. (Noticed(p)' => Noticed(p)) /\ (NoticedOnce(p) => NoticedOnce(p)')
    BY <1>3, <1>5, <1>6 DEF Noticed, NoticedOnce, Handled
  <2>3. Placed(p)' /\ Called(p)'
    BY <1>3, <1>5, <1>6, <2>1 DEF Placed, Called
  <2>4. OwnOnly(p)' /\ OwnAlive(p)'
    BY <1>3, <1>5, <1>6, <2>1 DEF OwnOnly, OwnAlive, Held
  <2>5. Stage(p)'
    BY <1>3, <1>5, <1>6, <2>1, <2>2 DEF Stage
  <2> QED
    BY <2>3, <2>4, <2>5 DEF Life
<1>9. ASSUME NEW q \in Pigs, q # p PROVE Life(q)'
  <2>1. (Noticed(q)' => Noticed(q)) /\ (NoticedOnce(q) => NoticedOnce(q)')
    BY <1>3, <1>5, <1>9 DEF Noticed, NoticedOnce, Handled
  <2> QED
    BY <1>1, <1>2, <1>3, <1>5, <1>9, <2>1, LifeKept
<1> QED
  BY <1>7, <1>8, <1>9 DEF LifeInv

(* What users and signals ask for. *)
LEMMA ServeLife ==
    ASSUME Inv, LifeInv, to_interrupt = {}, NEW k, Serve(k), mloc' \in {"shell", "reap"}
    PROVE  LifeInv'
<1>1. TypeOK /\ Sorted
  BY DEF Inv, LifeInv
<1>2. /\ given < MaxConsole /\ UserCommand(k)
      /\ UNCHANGED <<midx, analyzer, athread, pending_privileges>>
  BY DEF Serve, pigvars
<1>3. given + 1 \in CmdIds /\ given + 1 <= MaxConsole
  <2>1. MaxConsole \in Nat /\ given \in 0 .. MaxConsole
    BY <1>1, AnalyzerAssumption DEF TypeOK
  <2> QED
    BY <2>1, <1>2, CommandFacts, SMTT(20)
<1>4. ASSUME NEW c \in CommandType, c.kind \notin {"none", "start", "run"}, Broadcast(given + 1, c)
      PROVE  LifeInv'
  BY <1>2, <1>3, <1>4, GivenLife DEF Broadcast
<1>5. ASSUME NEW kind \in {"pause", "resume", "stop", "other"}, NEW arg \in {0, 1},
             Broadcast(given + 1, Command(kind, 0, arg))
      PROVE  LifeInv'
  <2>1. Command(kind, 0, arg) \in CommandType /\ Command(kind, 0, arg).kind = kind
    BY CommandFacts
  <2> QED
    BY <1>4, <1>5, <2>1
<1>6. CASE UserPause \/ UserResume(0) \/ UserResume(1) \/ UserQuit \/ UserOther
  BY <1>5, <1>6 DEF UserPause, UserResume, UserQuit, UserOther
<1>7. ASSUME UNCHANGED <<anvars, to_interrupt>> PROVE LifeInv'
  <2>1. pending_privileges' = 0
    BY <1>1, <1>2 DEF Sorted
  <2> QED
    BY <1>2, <1>7, <2>1, QuietLife DEF anvars
<1>8. CASE Refused
  BY <1>7, <1>8 DEF Refused
<1>9. conf \in Nat /\ attribs \in Nat /\ last_attribs \in Nat /\ None \in Nat
      /\ conf + 1 \in Nat /\ last_attribs + 1 \in Nat
  BY <1>1, SMTT(20) DEF TypeOK, None
<1>10. CASE UserReloadConfig
  <2>1. CASE ~Refused
    <3>1. PICK loaded \in HostTables : LET table == IF loaded THEN last_attribs + 1 ELSE None IN
             SendSwap([Command("swap", 0, 0) EXCEPT
                   !.old_conf = conf, !.new_conf = conf + 1,
                   !.old_attribs = attribs, !.new_attribs = table])
      BY <1>10, <2>1 DEF UserReloadConfig
    <3> DEFINE table == IF loaded THEN last_attribs + 1 ELSE None
               c == ConfigSwap(conf, conf + 1, attribs, table)
    <3>2. SendSwap(c)
      BY <3>1 DEF ConfigSwap
    <3>3. table \in Nat
      BY <1>9
    <3> HIDE DEF table
    <3>4. c \in CommandType /\ c.kind = "swap"
      BY <1>9, <3>3, SwapFacts, SMTT(20)
    <3> HIDE DEF c
    <3> QED
      BY <1>4, <3>2, <3>4 DEF SendSwap
  <2> QED
    BY <1>8, <2>1
<1>11. CASE UserReloadPolicy
  <2> DEFINE c == PolicySwap(conf, conf + 1)
  <2>1. c \in CommandType /\ c.kind = "swap"
    BY <1>9, SwapFacts, SMTT(20)
  <2>2. Refused \/ SendSwap(c)
    BY <1>11 DEF UserReloadPolicy, PolicySwap
  <2> HIDE DEF c
  <2> QED
    BY <1>4, <1>8, <2>1, <2>2 DEF SendSwap
<1>12. CASE UserReloadHosts
  <2> DEFINE c == HostsSwap(attribs, last_attribs + 1)
  <2>1. c \in CommandType /\ c.kind = "swap"
    BY <1>9, SwapFacts, SMTT(20)
  <2>2. Refused \/ SendSwap(c) \/ UNCHANGED <<anvars, to_interrupt>>
    BY <1>12 DEF UserReloadHosts, HostsSwap
  <2> HIDE DEF c
  <2> QED
    BY <1>4, <1>7, <1>8, <2>1, <2>2 DEF SendSwap
<1> QED
  BY <1>2, <1>6, <1>10, <1>11, <1>12 DEF UserCommand

(* Every step of the main thread keeps the lives. *)
LEMMA MainThreadLife == ASSUME Inv, LifeInv, MainThread PROVE LifeInv'
<1>1. pending_privileges = 0
  BY DEF LifeInv, Sorted
<1>2. CASE Interrupt
  BY <1>2, InterruptLife
<1>3. CASE to_interrupt = {} /\ (PrepAll \/ MainRead \/ MainIdle \/ HandleNew \/ HouseKeeping)
  BY <1>3, PrepAllLife, ReadLife, IdleLife, NewLife, HouseKeepingLife
<1>4. CASE to_interrupt = {} /\ (HandleInitialized \/ HandleStarted \/ HandleStopped)
  BY <1>4, AdvanceLife, StoppedLife
<1>5. CASE to_interrupt = {} /\ (HandleGone \/ HandleOther \/ AfterHandle \/ LoopExit)
  <2>1. UNCHANGED <<an, pending, completed, uncompleted, cmds, poke, analyzer, athread>>
    BY <1>5 DEF HandleGone, HandleOther, AfterHandle, LoopExit, anvars, pigvars
  <2>2. mloc' \in {"post", "done", "loop"}
    BY <1>5 DEF HandleGone, HandleOther, AfterHandle, LoopExit
  <2>3. pending_privileges' = 0
    BY <1>1, <1>5, SMTT(20) DEF HandleGone, HandleOther, AfterHandle, LoopExit, pigvars
  <2> QED
    BY <1>5, <2>1, <2>2, <2>3, QuietLife
<1>6. CASE to_interrupt = {} /\ (ServiceUsers \/ SignalCheck)
  <2>1. CASE \E k : Serve(k) /\ mloc' \in {"shell", "reap"}
    BY <1>6, <2>1, ServeLife
  <2>2. CASE mloc' = "loop" /\ UNCHANGED <<anvars, pigvars>>
    BY <1>1, <1>6, <2>2, QuietLife DEF anvars, pigvars
  <2> QED
    BY <1>6, <2>1, <2>2 DEF ServiceUsers, SignalCheck
<1> QED
  BY <1>2, <1>3, <1>4, <1>5, <1>6 DEF MainThread, MainStep

(* Without privileges to drop, lives begin in order. *)
LEMMA InitLife == ASSUME ~ChangePrivileges, Init PROVE LifeInv
<1>1. Dead.kind = "none" /\ Range(<<>>) = {} /\ Len(<<>>) = 0 /\ None \notin CmdIds /\ ~(0 > 0)
  BY EmptyFacts, SMTT(20) DEF Dead, Command, None, CmdIds
<1>2. /\ NewAnalyzer.state = "NEW" /\ NewAnalyzer.pc = "none" /\ NewAnalyzer.to_poke = FALSE
      /\ NewAnalyzer.cur = None
  BY DEF NewAnalyzer
<1>3. /\ an = [p \in Pigs |-> NewAnalyzer] /\ pending = [p \in Pigs |-> <<>>]
      /\ completed = [p \in Pigs |-> {}] /\ uncompleted = [p \in Pigs |-> [id \in CmdIds |-> 0]]
      /\ cmds = [id \in CmdIds |-> Dead] /\ poke = <<>> /\ pending_privileges = 0
      /\ analyzer = [p \in Pigs |-> FALSE] /\ athread = [p \in Pigs |-> FALSE]
  BY DEF Init
<1>4. Sorted
  BY <1>1, <1>3 DEF Sorted
<1>5. ASSUME NEW p \in Pigs PROVE Life(p)
  <2>1. /\ an[p] = NewAnalyzer /\ pending[p] = <<>> /\ completed[p] = {} /\ ~athread[p] /\ ~analyzer[p]
        /\ \A id \in CmdIds : ~(uncompleted[p][id] > 0)
    BY <1>1, <1>3
  <2>2. \A id \in {StartId(p), RunId(p)} : cmds[id].kind = "none"
    BY <1>1, <1>3, OwnIds
  <2>3. Placed(p)
    BY <1>2, <2>1 DEF Placed
  <2>4. OwnOnly(p)
    BY <1>1, <1>2, <2>1 DEF OwnOnly, Held
  <2>5. OwnAlive(p)
    BY <2>2 DEF OwnAlive
  <2>6. Stage(p) /\ Called(p)
    BY <1>2, <2>1, <2>2 DEF Stage, Called
  <2> QED
    BY <2>3, <2>4, <2>5, <2>6 DEF Life
<1> QED
  BY <1>4, <1>5 DEF LifeInv

(* LifeInv is inductive. *)
LEMMA LifeStep == Inv /\ LifeInv /\ [Next]_vars => LifeInv'
<1> SUFFICES ASSUME Inv, LifeInv, [Next]_vars PROVE LifeInv'
  OBVIOUS
<1>1. CASE MainThread
  BY <1>1, MainThreadLife
<1>2. CASE PacketThreads
  BY <1>2, PacketThreadLife DEF PacketThreads
<1>3. CASE UNCHANGED vars
  <2>1. pending_privileges' = 0
    BY <1>3 DEF LifeInv, Sorted, vars, mainvars
  <2> QED
    BY <1>3, <2>1, QuietLife DEF vars, anvars, mainvars
<1> QED
  BY <1>1, <1>2, <1>3 DEF Next, Terminated

(* The asserts hold in these lives. *)
LEMMA AssertsLife == ASSUME Inv, LifeInv PROVE AssertsHold
<1>1. ASSUME NEW p \in Pigs, TakesCommands(p)
      PROVE  LET kind == cmds[Head(pending[p])].kind
             IN  /\ kind = "start" => an[p].state = "INITIALIZED"
                 /\ kind = "run" => an[p].state = "STARTED"
  BY <1>1, CommandStage DEF TakesCommands
<1>2. ASSUME mloc = "handle", analyzer[midx]
      PROVE  /\ athread[midx] <=> an[midx].state # "NEW"
             /\ an[midx].state = "INITIALIZED" => cmds[StartId(midx)] = Dead
             /\ an[midx].state = "STARTED" => cmds[RunId(midx)] = Dead
  <2>1. midx \in Pigs
    BY <1>2 DEF Inv, InHand
  <2>2. Placed(midx) /\ Stage(midx) /\ Noticed(midx) /\ an[midx] \in AnalyzerType
    BY <1>2, <2>1 DEF LifeInv, Life, Noticed, Handled, Inv, TypeOK
  <2>3. athread[midx] <=> an[midx].state # "NEW"
    BY <1>2, <2>2 DEF Placed, Stage, AnalyzerType
  <2>4. /\ an[midx].state = "INITIALIZED" => cmds[StartId(midx)].kind = "none"
        /\ an[midx].state = "STARTED" => cmds[RunId(midx)].kind = "none"
    BY <2>2 DEF Stage
  <2>5. StartId(midx) \in CmdIds /\ RunId(midx) \in CmdIds
    BY <2>1, OwnIds
  <2> QED
    BY <2>3, <2>4, <2>5 DEF LifeInv, Sorted
<1> QED
  BY <1>1, <1>2 DEF AssertsHold

-----------------------------------------------------------------------------
(* The analyzers live as Lifecycle says *)

(* A running packet thread stays running or pauses. *)
LEMMA RunningMoves ==
    ASSUME Inv, NEW p \in Pigs, AnalyzeRunning(p)
    PROVE  an'[p].state \in {"RUNNING", "PAUSED"} /\ \A q \in Pigs : q # p => an'[q] = an[q]
<1> DEFINE a == an[p]
<1>1. TypeOK
  BY DEF Inv
<1>3. a.state = "RUNNING" /\ a \in AnalyzerType
  BY <1>1 DEF AnalyzeRunning, TypeOK
<1> DEFINE Pass(n, rstat) ==
        LET skipped == Lesser(n, a.skip_cnt)
            calls   == n - skipped + IF rstat = "TIMEOUT" THEN 1 ELSE 0
        IN  /\ HandleUncompleted(p, calls)
            /\ an' = [an EXCEPT ![p] =
                 [CountDown(Reapplied(a, p, calls), n - skipped) EXCEPT
                    !.skip_cnt = @ - skipped,
                    !.left = IF ReadMode THEN @ - n ELSE @,
                    !.interrupted = FALSE,
                    !.pc = CASE rstat = "INTERRUPTED" -> "drain"
                             [] rstat \in {"EOF", "ERROR"} -> "term"
                             [] OTHER -> "loop"]]
<1>4. \E n \in RecvCounts(a) : \E rstat \in RecvStatus(a, n) : Pass(n, rstat)
  BY DEF AnalyzeRunning
<1>5. PICK n \in RecvCounts(a) : \E rstat \in RecvStatus(a, n) : Pass(n, rstat)
  BY <1>4
<1>6. PICK rstat \in RecvStatus(a, n) : Pass(n, rstat)
  BY <1>5
<1> DEFINE skipped == Lesser(n, a.skip_cnt)
           calls == n - skipped + IF rstat = "TIMEOUT" THEN 1 ELSE 0
           d == CountDown(Reapplied(a, p, calls), n - skipped)
           at == CASE rstat = "INTERRUPTED" -> "drain"
                   [] rstat \in {"EOF", "ERROR"} -> "term"
                   [] OTHER -> "loop"
           b == [d EXCEPT !.skip_cnt = d.skip_cnt - skipped,
                          !.left = IF ReadMode THEN d.left - n ELSE d.left,
                          !.interrupted = FALSE, !.pc = at]
<1>7. an' = [an EXCEPT ![p] = b] /\ HandleUncompleted(p, calls)
  BY <1>6
<1>8. calls \in Nat
  <2>1. n \in Nat /\ a.skip_cnt \in Nat
    BY <1>3, RecvBound DEF AnalyzerType
  <2> HIDE DEF a
  <2> QED
    BY <2>1, SMTT(20) DEF Lesser
<1>9. at \in {"drain", "term", "loop"}
  OBVIOUS
<1> HIDE DEF Pass, a, skipped, calls, at
<1>10. d.state \in {"RUNNING", "PAUSED"} /\ d.cur = a.cur /\ DOMAIN d = DOMAIN a
  BY <1>3, <1>8, BatchLife, SMTT(20)
<1> HIDE DEF d
<1>11. DOMAIN a = DOMAIN NewAnalyzer
  BY <1>3 DEF AnalyzerType, NewAnalyzer
<1>12. b.state = d.state /\ b.cur = a.cur /\ b.pc = at
  BY <1>10, <1>11 DEF NewAnalyzer
<1> HIDE DEF b
<1>13. an'[p] = b /\ \A q \in Pigs : q # p => an'[q] = an[q]
  BY <1>1, <1>7 DEF TypeOK
<1> QED
  BY <1>10, <1>12, <1>13

(* The states a packet thread goes from and to. *)
Moves ==
    {<<"NEW", "INITIALIZED">>, <<"INITIALIZED", "STARTED">>, <<"STARTED", "RUNNING">>,
     <<"STARTED", "PAUSED">>, <<"RUNNING", "PAUSED">>, <<"PAUSED", "RUNNING">>,
     <<"INITIALIZED", "STOPPED">>, <<"STARTED", "STOPPED">>, <<"RUNNING", "STOPPED">>,
     <<"PAUSED", "STOPPED">>}

(* A packet thread stays in its state, or moves along Moves. *)
LEMMA ThreadMoves ==
    ASSUME Inv, LifeInv, NEW p \in Pigs, PacketThread(p)
    PROVE  /\ athread[p] /\ \A q \in Pigs : q # p => an'[q] = an[q]
           /\ an'[p].state = an[p].state \/ <<an[p].state, an'[p].state>> \in Moves
<1> DEFINE a == an[p]
           Goal(b) == /\ athread[p] /\ b \in AnalyzerType
                      /\ b.state = a.state \/ <<a.state, b.state>> \in Moves
<1>1. TypeOK /\ Placed(p) /\ a \in AnalyzerType
  BY DEF Inv, LifeInv, Life, TypeOK
<1>2. CASE Poke(p)
  <2>1. an' = [an EXCEPT ![p] = [a EXCEPT !.to_poke = FALSE, !.cur = None]] /\ a.to_poke
    BY <1>2 DEF Poke
  <2>2. athread[p]
    BY <1>1, <2>1 DEF Placed
  <2> QED
    BY <1>1, <2>1, <2>2 DEF TypeOK, AnalyzerType
<1>3. CASE ThreadInit(p)
  <2>1. an' = [an EXCEPT ![p] = SetState([a EXCEPT !.pc = "loop"], "INITIALIZED")] /\ a.pc = "init"
    BY <1>3 DEF ThreadInit
  <2>2. athread[p] /\ a.state = "NEW"
    BY <1>1, <2>1 DEF Placed
  <2> QED
    BY <1>1, <2>1, <2>2 DEF TypeOK, AnalyzerType, SetState, Moves
<1>4. CASE ThreadTerm(p)
  <2>1. an' = [an EXCEPT ![p] = SetState([a EXCEPT !.pc = "done"], "STOPPED")] /\ a.pc = "term"
    BY <1>4 DEF ThreadTerm
  <2>2. athread[p] /\ a.state \in {"INITIALIZED", "STARTED", "RUNNING", "PAUSED"}
    BY <1>1, <2>1 DEF Placed
  <2> QED
    BY <1>1, <2>1, <2>2 DEF TypeOK, AnalyzerType, SetState, Moves
<1>5. CASE Drained(p) \/ AnalyzeExit(p)
  <2>1. a.pc \in {"loop", "drain"} /\ \E at \in {"loop", "term"} : an' = [an EXCEPT ![p] = [a EXCEPT !.pc = at]]
    BY <1>5 DEF Drained, AnalyzeExit
  <2>2. athread[p]
    BY <1>1, <2>1 DEF Placed
  <2> QED
    BY <1>1, <2>1, <2>2, SMTT(20) DEF TypeOK, AnalyzerType
<1>6. CASE AnalyzeStalled(p) \/ Drain(p)
  <2>1. a.pc \in {"loop", "drain"} /\ pending[p] # <<>> /\ HandleCommand(p)
    BY <1>6 DEF AnalyzeStalled, Drain
  <2> DEFINE id == Head(pending[p])
  <2>2. /\ id \in CmdIds
        /\ cmds[id].kind = "start" => a.state = "INITIALIZED"
        /\ cmds[id].kind = "run" => a.state = "STARTED"
    BY <2>1, CommandStage
  <2>3. PICK ok \in BOOLEAN : LET b == Execute(a, cmds[id], ok) IN
           an' = [an EXCEPT ![p] = [b EXCEPT !.cur = IF b.to_poke THEN id ELSE None]]
    BY <2>1 DEF HandleCommand
  <2> DEFINE b == Execute(a, cmds[id], ok)
             d == [b EXCEPT !.cur = IF b.to_poke THEN id ELSE None]
  <2>4. an' = [an EXCEPT ![p] = d]
    BY <2>3
  <2> HIDE DEF id
  <2>5. cmds[id] \in CommandType /\ athread[p]
    BY <1>1, <2>1, <2>2 DEF TypeOK, Placed
  <2>6. b \in AnalyzerType
    BY <1>1, <2>5, ExecuteFacts DEF Steady
  <2>7. /\ cmds[id].kind = "start" => b.state = "STARTED"
        /\ cmds[id].kind = "run" => b.state \in {"RUNNING", "PAUSED"}
        /\ cmds[id].kind \notin {"start", "run"} =>
              b.state = a.state \/ (a.state \in {"RUNNING", "PAUSED"} /\ b.state \in {"RUNNING", "PAUSED"})
    BY <1>1, <2>5, ExecuteLife
  <2> HIDE DEF b
  <2>8. d.state = b.state
    BY <2>6 DEF AnalyzerType
  <2> HIDE DEF d
  <2>9. an'[p] = d /\ \A q \in Pigs : q # p => an'[q] = an[q]
    BY <1>1, <2>4 DEF TypeOK
  <2>10. b.state = a.state \/ <<a.state, b.state>> \in Moves
    BY <2>2, <2>7, SMTT(20) DEF Moves
  <2> QED
    BY <2>5, <2>8, <2>9, <2>10
<1>7. CASE AnalyzeRunning(p)
  <2>1. a.pc = "loop" /\ a.state = "RUNNING"
    BY <1>7 DEF AnalyzeRunning
  <2>2. (an'[p].state \in {"RUNNING", "PAUSED"}) /\ \A q \in Pigs : q # p => an'[q] = an[q]
    BY <1>7, RunningMoves
  <2>3. athread[p]
    BY <1>1, <2>1 DEF Placed
  <2> QED
    BY <2>1, <2>2, <2>3 DEF Moves
<1> QED
  BY <1>2, <1>3, <1>4, <1>5, <1>6, <1>7 DEF PacketThread

(* The life of pig p, as Lifecycle sees it. *)
LifeOf(p) == IF analyzer[p] THEN an[p].state ELSE "NONE"

(* One pig moves, the others stay. *)
LEMMA MoveOne ==
    ASSUME NEW p \in Pigs, NEW S, NEW to, LifeOf(p) \in S, LifeOf(p)' = to,
           \A q \in Pigs : q # p => LifeOf(q)' = LifeOf(q), UNCHANGED dropped
    PROVE  LifecycleSpec!Move(p, S, to)
BY DEF LifecycleSpec!Move, LifeOf

(* No pig moves. *)
LEMMA MoveNone ==
    ASSUME \A q \in Pigs : LifeOf(q)' = LifeOf(q), UNCHANGED dropped
    PROVE  UNCHANGED LifecycleSpec!lifevars
BY DEF LifecycleSpec!lifevars, LifeOf

(* Every step is a step of Lifecycle, or none. *)
LEMMA LifecycleStep ==
    ASSUME ~ChangePrivileges, Inv, LifeInv, [Next]_vars
    PROVE  [LifecycleSpec!Next]_(LifecycleSpec!lifevars)
<1>1. TypeOK /\ InHand /\ DroveCounted /\ pending_privileges = 0
  BY DEF Inv, LifeInv, Sorted
<1>2. ASSUME UNCHANGED <<analyzer, dropped>>, \A q \in Pigs : an'[q].state = an[q].state
      PROVE  [LifecycleSpec!Next]_(LifecycleSpec!lifevars)
  BY <1>2, MoveNone DEF LifeOf
<1>3. ASSUME NEW p \in Pigs, ~analyzer[p], Prep(p), UNCHANGED dropped
      PROVE  LifecycleSpec!Next
  <2>1. LifeOf(p) = "NONE" /\ LifeOf(p)' = "NEW" /\ \A q \in Pigs : q # p => LifeOf(q)' = LifeOf(q)
    BY <1>1, <1>3 DEF Prep, LifeOf, TypeOK, NewAnalyzer
  <2>2. LifecycleSpec!Move(p, {"NONE"}, "NEW")
    BY <1>3, <2>1, MoveOne, SMTT(20)
  <2> QED
    BY <2>2 DEF LifecycleSpec!Next
<1>4. CASE PacketThreads
  <2>1. PICK p \in Pigs : PacketThread(p) /\ UNCHANGED mainvars
    BY <1>4 DEF PacketThreads
  <2>2. /\ athread[p] /\ \A q \in Pigs : q # p => an'[q] = an[q]
        /\ an'[p].state = an[p].state \/ <<an[p].state, an'[p].state>> \in Moves
    BY <2>1, ThreadMoves
  <2>3. analyzer[p] /\ analyzer' = analyzer /\ dropped' = dropped
    BY <1>1, <2>1, <2>2 DEF DroveCounted, mainvars
  <2>4. /\ LifeOf(p) = an[p].state /\ LifeOf(p)' = an'[p].state
        /\ \A q \in Pigs : q # p => LifeOf(q)' = LifeOf(q)
    BY <2>2, <2>3 DEF LifeOf
  <2>5. CASE an'[p].state = an[p].state
    BY <1>2, <2>2, <2>3, <2>5
  <2>6. CASE <<an[p].state, an'[p].state>> \in Moves
    <3>1. \/ an[p].state = "NEW" /\ an'[p].state = "INITIALIZED"
          \/ an[p].state = "INITIALIZED" /\ an'[p].state = "STARTED"
          \/ an[p].state = "STARTED" /\ an'[p].state \in {"RUNNING", "PAUSED"}
          \/ an[p].state = "RUNNING" /\ an'[p].state = "PAUSED"
          \/ an[p].state = "PAUSED" /\ an'[p].state = "RUNNING"
          \/ an[p].state \in {"INITIALIZED", "STARTED", "RUNNING", "PAUSED"} /\ an'[p].state = "STOPPED"
      BY <2>6 DEF Moves
    <3>2. ASSUME NEW S, NEW to, an[p].state \in S, an'[p].state = to PROVE LifecycleSpec!Move(p, S, to)
      BY <2>3, <2>4, <3>2, MoveOne
    <3>3. \/ LifecycleSpec!Move(p, {"NEW"}, "INITIALIZED")
          \/ LifecycleSpec!Move(p, {"INITIALIZED"}, "STARTED")
          \/ \E to \in {"RUNNING", "PAUSED"} : LifecycleSpec!Move(p, {"STARTED"}, to)
          \/ LifecycleSpec!Move(p, {"RUNNING"}, "PAUSED")
          \/ LifecycleSpec!Move(p, {"PAUSED"}, "RUNNING")
          \/ LifecycleSpec!Move(p, {"INITIALIZED", "STARTED", "RUNNING", "PAUSED"}, "STOPPED")
      BY <3>1, <3>2, SMTT(20)
    <3> QED
      BY <3>3 DEF LifecycleSpec!Next
  <2> QED
    BY <2>2, <2>5, <2>6
<1>5. CASE UNCHANGED vars
  BY <1>2, <1>5 DEF vars, anvars, mainvars
<1>6. CASE Interrupt
  <2>1. PICK p \in to_interrupt : an' = [an EXCEPT ![p].interrupted =
                                        @ \/ an[p].state \in {"STARTED", "RUNNING", "PAUSED"}]
    BY <1>6 DEF Interrupt
  <2>2. \A q \in Pigs : an'[q].state = an[q].state
    BY <1>1, <2>1, SMTT(20) DEF TypeOK, AnalyzerType
  <2> QED
    BY <1>2, <1>6, <2>2 DEF Interrupt, pigvars
<1>7. CASE PrepAll
  <2>1. midx \in Pigs /\ midx >= midx /\ UNCHANGED dropped
    BY <1>1, <1>7, SMTT(20) DEF PrepAll, InHand, Pigs
  <2>2. ~analyzer[midx]
    BY <1>1, <1>7, <2>1 DEF PrepAll, InHand
  <2>3. CASE Prep(midx)
    BY <1>3, <2>1, <2>2, <2>3
  <2>4. CASE UNCHANGED <<an, analyzer>>
    BY <1>2, <2>1, <2>4
  <2> QED
    BY <1>7, <2>3, <2>4 DEF PrepAll
<1>8. CASE MainIdle
  <2>1. UNCHANGED dropped
    BY <1>8 DEF MainIdle
  <2>2. CASE \E p \in Pigs : LazyPig(p) /\ Prep(p)
    BY <1>3, <2>1, <2>2 DEF LazyPig
  <2>3. CASE UNCHANGED <<an, analyzer>>
    BY <1>2, <2>1, <2>3
  <2> QED
    BY <1>8, <2>2, <2>3 DEF MainIdle
<1>9. CASE HandleNew
  <2>1. /\ midx \in Pigs /\ UNCHANGED <<analyzer, dropped>>
        /\ an' = [an EXCEPT ![midx].pc = "init", ![midx].conf = conf, ![midx].attribs = attribs]
    BY <1>1, <1>9 DEF HandleNew, PigStart, InHand
  <2>2. \A q \in Pigs : an'[q].state = an[q].state
    <3>1. an[midx] \in AnalyzerType
      BY <1>1, <2>1 DEF TypeOK
    <3> DEFINE b == [an[midx] EXCEPT !.pc = "init", !.conf = conf, !.attribs = attribs]
    <3>2. b.state = an[midx].state
      BY <3>1 DEF AnalyzerType
    <3>3. an' = [an EXCEPT ![midx] = b]
      BY <2>1
    <3> HIDE DEF b
    <3> QED
      BY <1>1, <2>1, <3>2, <3>3 DEF TypeOK
  <2> QED
    BY <1>2, <2>1, <2>2
<1>10. CASE HandleInitialized \/ HandleStarted
  <2>1. ~(pending_privileges > 0)
    BY <1>1, SMTT(20)
  <2>2. UNCHANGED <<an, analyzer, dropped>>
    BY <1>10, <2>1 DEF HandleInitialized, HandleStarted, Advance, Send
  <2> QED
    BY <1>2, <2>2
<1>11. CASE HandleStopped
  <2>1. midx \in Pigs
    BY <1>1, <1>11 DEF HandleStopped, InHand
  <2>2. PICK p \in Pigs : p = midx
    BY <2>1
  <2>3. /\ analyzer[p] /\ an[p].state = "STOPPED" /\ UNCHANGED dropped
        /\ an' = [an EXCEPT ![p] = NewAnalyzer] /\ analyzer' = [analyzer EXCEPT ![p] = FALSE]
    BY <1>11, <2>2 DEF HandleStopped, PigStop
  <2>4. analyzer'[p] = FALSE /\ \A q \in Pigs : q # p => an'[q] = an[q] /\ analyzer'[q] = analyzer[q]
    BY <1>1, <2>3 DEF TypeOK
  <2>5. /\ LifeOf(p) = "STOPPED" /\ LifeOf(p)' = "NONE"
        /\ \A q \in Pigs : q # p => LifeOf(q)' = LifeOf(q)
    BY <2>3, <2>4, SMTT(20) DEF LifeOf
  <2>6. LifecycleSpec!Move(p, {"STOPPED"}, "NONE")
    BY <2>3, <2>5, MoveOne, SMTT(20)
  <2> QED
    BY <2>6 DEF LifecycleSpec!Next
<1>12. CASE MainRead \/ HandleGone \/ HandleOther \/ AfterHandle \/ LoopExit \/ HouseKeeping
  <2>1. UNCHANGED <<an, analyzer, dropped>>
    BY <1>12 DEF MainRead, HandleGone, HandleOther, AfterHandle, LoopExit, HouseKeeping, anvars, pigvars
  <2> QED
    BY <1>2, <2>1
<1>13. CASE ServiceUsers \/ SignalCheck
  <2>1. ASSUME NEW k, Serve(k) PROVE UNCHANGED <<an, analyzer, dropped>>
    <3>1. UserCommand(k) /\ UNCHANGED <<analyzer, dropped>>
      BY <2>1 DEF Serve, pigvars
    <3>2. ASSUME NEW id, NEW c, Broadcast(id, c) PROVE UNCHANGED an
      BY <3>2 DEF Broadcast, Send
    <3>3. UNCHANGED an
      BY <3>1, <3>2 DEF UserCommand, UserPause, UserResume, UserQuit, UserOther, UserReloadConfig,
                        UserReloadPolicy, UserReloadHosts, SendSwap, Refused, anvars
    <3> QED
      BY <3>1, <3>3
  <2>2. UNCHANGED <<an, analyzer, dropped>>
    BY <1>13, <2>1 DEF ServiceUsers, SignalCheck, anvars, pigvars
  <2> QED
    BY <1>2, <2>2
<1> QED
  BY <1>4, <1>5, <1>6, <1>7, <1>8, <1>9, <1>10, <1>11, <1>12, <1>13
     DEF Next, MainThread, MainStep, Terminated
=============================================================================
