--------------------------- MODULE Threads_proof ----------------------------
(***************************************************************************)
(* The inductive invariant of MainLoop, facts about queues, commands and   *)
(* the pigs' counters, and that every step of a packet thread, and every   *)
(* step of the main thread that gives no command back, keeps the           *)
(* invariant.                                                              *)
(***************************************************************************)
EXTENDS MainLoop, TLAPS

USE ZenonT(30)

(* No command twice in a queue. *)
OneTime(s) == \A i, j \in 1 .. Len(s) : s[i] = s[j] => i = j

(* A pig with the queues s, done and left and the analyzer a has a command *)
(* in one place only, and in its hands only until it has notified the main *)
(* thread.                                                                 *)
Apart(s, done, left, a) ==
    /\ OneTime(s)
    /\ \A id \in Range(s) : id \notin done /\ left[id] = 0 /\ a.cur # id
    /\ \A id \in done : left[id] = 0 /\ a.cur # id
    /\ a.cur # None => a.to_poke

Held(id, s, done, left, a) == id \in Range(s) \/ id \in done \/ left[id] > 0 \/ a.cur = id

OnceEach == \A p \in Pigs : Apart(pending[p], completed[p], uncompleted[p], an[p])

(* The pig in the hands of the main thread. *)
InHand ==
    /\ mloc \in {"handle", "post"} => midx \in Pigs
    /\ mloc = "prep" => midx \in Pigs /\ \A q \in Pigs : q >= midx => ~analyzer[q]

(* The swaps alive and the configurations they name: one at a time, it     *)
(* brings the configuration in force and takes away the one before.        *)
SwapsAlive ==
    /\ conf \in Nat \ {0}
    /\ freed_conf \subseteq 1 .. conf - 1
    /\ \A id \in CmdIds :
          /\ cmds[id].kind # "swap" => cmds[id].new_conf = None
          /\ cmds[id].kind = "swap" =>
                /\ reload_in_progress
                /\ cmds[id].new_conf \in {None, conf}
                /\ cmds[id].old_conf \in {None} \union ((1 .. conf - 1) \ freed_conf)
    /\ \A id, jd \in CmdIds : cmds[id].kind = "swap" /\ cmds[jd].kind = "swap" => id = jd

(* A thread has the configuration in force, or a swap is on its way to it. *)
UpToDate ==
    \A p \in Pigs : athread[p] =>
        \/ an[p].conf = conf
        \/ \E id \in Range(pending[p]) :
              cmds[id].kind = "swap" /\ cmds[id].new_conf = conf /\ cmds[id].old_conf = an[p].conf

OrphansReal == \A id \in orphans : cmds[id].kind # "none"

(* How many pigs there are in a part of the drove. This holds in any       *)
(* state; it is here for the lemmas to find.                               *)
Counting ==
    /\ Cardinality({}) = 0 /\ \A p \in Pigs : Cardinality({p}) = 1
    /\ \A B \in SUBSET Pigs : Cardinality(B) \in 0 .. MaxPigs /\ (Cardinality(B) = 0 => B = {})
    /\ \A B \in SUBSET Pigs : \A A \in SUBSET B :
          /\ Cardinality(A) <= Cardinality(B)
          /\ Cardinality(B \ A) = Cardinality(B) - Cardinality(A)
    /\ \A B \in SUBSET Pigs : \A p \in Pigs \ B : Cardinality(B \union {p}) = Cardinality(B) + 1

(* The inductive invariant. *)
Inv ==
    /\ Counting
    /\ TypeOK /\ OnceEach /\ InHand /\ CommandsAlive /\ OrphansReal /\ DroveCounted
    /\ SwapsAlive /\ UpToDate

-----------------------------------------------------------------------------
(* Sequences and counts *)

(* What Head and Tail make of a queue that holds nothing twice. *)
LEMMA TailFacts ==
    ASSUME NEW S, NEW s \in Seq(S), s # <<>>
    PROVE  /\ Head(s) \in S /\ Tail(s) \in Seq(S)
           /\ Range(s) = {Head(s)} \union Range(Tail(s))
           /\ OneTime(s) => OneTime(Tail(s)) /\ Head(s) \notin Range(Tail(s))
<1>1. Len(s) \in Nat \ {0} /\ Head(s) = s[1] /\ Head(s) \in S /\ Tail(s) \in Seq(S)
  BY SMTT(20)
<1>2. Len(Tail(s)) = Len(s) - 1 /\ \A i \in 1 .. Len(s) - 1 : Tail(s)[i] = s[i + 1]
  BY SMTT(20)
<1>3. Range(s) = {s[i] : i \in 1 .. Len(s)} /\ Range(Tail(s)) = {Tail(s)[i] : i \in 1 .. Len(s) - 1}
  <2>1. DOMAIN s = 1 .. Len(s) /\ DOMAIN Tail(s) = 1 .. Len(Tail(s))
    BY <1>1, SMTT(20)
  <2> QED
    BY <2>1, <1>2 DEF Range
<1>4. ASSUME NEW x \in Range(s) PROVE x = Head(s) \/ x \in Range(Tail(s))
  <2>1. PICK i \in 1 .. Len(s) : x = s[i]
    BY <1>3, <1>4
  <2>2. CASE i = 1
    BY <2>1, <2>2, <1>1
  <2>3. CASE i # 1
    <3>1. i - 1 \in 1 .. Len(s) - 1 /\ Tail(s)[i - 1] = x
      BY <2>1, <2>3, <1>1, <1>2, SMTT(20)
    <3> QED
      BY <3>1, <1>3
  <2> QED
    BY <2>2, <2>3
<1>5. ASSUME NEW x \in Range(Tail(s)) PROVE \E i \in 2 .. Len(s) : x = s[i]
  <2>1. PICK i \in 1 .. Len(s) - 1 : x = Tail(s)[i]
    BY <1>3, <1>5
  <2> QED
    BY <2>1, <1>2, <1>1, SMTT(20)
<1>6. Range(s) = {Head(s)} \union Range(Tail(s))
  BY <1>1, <1>3, <1>4, <1>5, SMTT(20)
<1>7. ASSUME OneTime(s) PROVE OneTime(Tail(s)) /\ Head(s) \notin Range(Tail(s))
  <2>1. ASSUME NEW i \in 1 .. Len(Tail(s)), NEW j \in 1 .. Len(Tail(s)), Tail(s)[i] = Tail(s)[j]
        PROVE  i = j
    <3>1. i + 1 \in 1 .. Len(s) /\ j + 1 \in 1 .. Len(s) /\ s[i + 1] = s[j + 1]
      BY <2>1, <1>1, <1>2, SMTT(20)
    <3> QED
      BY <3>1, <1>7, <2>1, <1>1, <1>2, SMTT(20) DEF OneTime
  <2>2. Head(s) \notin Range(Tail(s))
    BY <1>1, <1>5, <1>7, SMTT(20) DEF OneTime
  <2> QED
    BY <2>1, <2>2 DEF OneTime
<1> QED
  BY <1>1, <1>6, <1>7

(* What Append makes of a queue. *)
LEMMA AppendFacts ==
    ASSUME NEW S, NEW s \in Seq(S), NEW e \in S
    PROVE  /\ Append(s, e) \in Seq(S)
           /\ Range(Append(s, e)) = Range(s) \union {e}
           /\ OneTime(s) /\ e \notin Range(s) => OneTime(Append(s, e))
<1>1. Len(s) \in Nat /\ Append(s, e) \in Seq(S) /\ Len(Append(s, e)) = Len(s) + 1
  BY SMTT(20)
<1>2. \A i \in 1 .. Len(s) : Append(s, e)[i] = s[i]
  BY SMTT(20)
<1>3. Append(s, e)[Len(s) + 1] = e
  BY SMTT(20)
<1>4. Range(s) = {s[i] : i \in 1 .. Len(s)} /\ Range(Append(s, e)) = {Append(s, e)[i] : i \in 1 .. Len(s) + 1}
  <2>1. DOMAIN s = 1 .. Len(s) /\ DOMAIN Append(s, e) = 1 .. Len(Append(s, e))
    BY <1>1, SMTT(20)
  <2> QED
    BY <2>1, <1>1 DEF Range
<1>5. ASSUME NEW x \in Range(Append(s, e)) PROVE x \in Range(s) \union {e}
  <2>1. PICK i \in 1 .. Len(s) + 1 : x = Append(s, e)[i]
    BY <1>4, <1>5
  <2>2. i \in 1 .. Len(s) \/ i = Len(s) + 1
    BY <1>1, SMTT(20)
  <2> QED
    BY <2>1, <2>2, <1>2, <1>3, <1>4
<1>6. ASSUME NEW x \in Range(s) \union {e} PROVE x \in Range(Append(s, e))
  <2>1. CASE x = e
    BY <2>1, <1>1, <1>3, <1>4, SMTT(20)
  <2>2. CASE x # e
    <3>1. PICK i \in 1 .. Len(s) : x = s[i]
      BY <2>2, <1>4, <1>6
    <3>2. i \in 1 .. Len(s) + 1 /\ x = Append(s, e)[i]
      BY <3>1, <1>1, <1>2, SMTT(20)
    <3> QED
      BY <3>2, <1>4
  <2> QED
    BY <2>1, <2>2
<1>7. ASSUME OneTime(s), e \notin Range(s) PROVE OneTime(Append(s, e))
  <2>1. \A i \in 1 .. Len(s) : s[i] # e
    BY <1>7, <1>4
  <2> QED
    BY <2>1, <1>1, <1>2, <1>3, <1>7, SMTT(20) DEF OneTime
<1> QED
  BY <1>1, <1>5, <1>6, <1>7

(* The empty queue. *)
LEMMA EmptyFacts == ASSUME NEW S PROVE <<>> \in Seq(S) /\ Range(<<>>) = {} /\ OneTime(<<>>)
BY SMTT(20) DEF Range, OneTime

(* What a queue holds. *)
LEMMA RangeFacts == ASSUME NEW S, NEW s \in Seq(S) PROVE Range(s) \subseteq S
BY SMTT(20) DEF Range

(* The counts do not change. *)
LEMMA StillCounting == Inv => Counting /\ Counting'
BY DEF Inv, Counting

-----------------------------------------------------------------------------
(* What the steps of a packet thread make of its analyzer record *)

(* What may become of an analyzer between two commands. *)
Steady(a, b) ==
    /\ b \in AnalyzerType
    /\ b.cur = a.cur
    /\ a.to_poke => b.to_poke

(* set_state keeps the record's type and all but the state and to_poke. *)
LEMMA SetStateFacts ==
    ASSUME NEW a \in AnalyzerType, NEW s \in States
    PROVE  /\ Steady(a, SetState(a, s)) /\ SetState(a, s).conf = a.conf
           /\ SetState(a, s).skip_cnt = a.skip_cnt /\ SetState(a, s).left = a.left
           /\ SetState(a, s).exit_after_cnt = a.exit_after_cnt
           /\ SetState(a, s).pause_after_cnt = a.pause_after_cnt
BY DEF AnalyzerType, SetState, Steady

(* Executing a command keeps the record's type; only a swap changes the    *)
(* configuration, to the one it brings if it brings one.                   *)
LEMMA ExecuteFacts ==
    ASSUME NEW a \in AnalyzerType, NEW c \in CommandType, NEW ok \in BOOLEAN
    PROVE  /\ Steady(a, Execute(a, c, ok))
           /\ Execute(a, c, ok).conf =
                 IF c.kind = "swap" /\ c.new_conf # None THEN c.new_conf ELSE a.conf
<1>1. ASSUME NEW e \in BOOLEAN PROVE Steady(a, [a EXCEPT !.exit_requested = e])
                                 /\ [a EXCEPT !.exit_requested = e].conf = a.conf
  BY DEF AnalyzerType, Steady
<1>2. ASSUME NEW n \in Nat PROVE Steady(a, [a EXCEPT !.pause_after_cnt = n])
                             /\ [a EXCEPT !.pause_after_cnt = n].conf = a.conf
  BY DEF AnalyzerType, Steady
<1>3. Steady(a, a)
  BY DEF Steady
<1>4. CASE c.kind = "start"
  <2> DEFINE b == [a EXCEPT !.exit_requested = @ \/ ~ok]
  <2>1. Steady(a, b) /\ b.conf = a.conf
    BY DEF AnalyzerType, Steady
  <2>2. Steady(b, SetState(b, "STARTED")) /\ SetState(b, "STARTED").conf = b.conf
    BY <2>1, SetStateFacts DEF Steady, States
  <2>3. Execute(a, c, ok) = SetState(b, "STARTED")
    BY <1>4 DEF Execute, Start
  <2> HIDE DEF b
  <2> QED
    BY <2>1, <2>2, <2>3, <1>4 DEF Steady
<1>5. CASE c.kind = "run"
  <2>1. Execute(a, c, ok) = SetState(a, IF c.arg = 1 THEN "PAUSED" ELSE "RUNNING")
    BY <1>5 DEF Execute, Run
  <2> QED
    BY <2>1, <1>5, SetStateFacts DEF States
<1>6. CASE c.kind = "stop"
  BY <1>6, <1>1 DEF Execute, Stop
<1>7. CASE c.kind = "pause"
  BY <1>7, <1>3, SetStateFacts DEF Execute, Pause, States
<1>8. CASE c.kind = "resume"
  <2> DEFINE b == [a EXCEPT !.pause_after_cnt = c.arg]
  <2>1. Steady(a, b) /\ b.conf = a.conf
    BY <1>2, SMTT(20) DEF CommandType
  <2>2. Steady(b, SetState(b, "RUNNING")) /\ SetState(b, "RUNNING").conf = b.conf
    BY <2>1, SetStateFacts DEF Steady, States
  <2>3. Execute(a, c, ok) = IF a.state = "PAUSED" THEN SetState(b, "RUNNING") ELSE a
    BY <1>8 DEF Execute, Resume
  <2> HIDE DEF b
  <2> QED
    BY <2>1, <2>2, <2>3, <1>3, <1>8 DEF Steady
<1>9. CASE c.kind = "swap"
  BY <1>9 DEF Execute, Swap, AnalyzerType, CommandType, Steady
<1>10. CASE c.kind \notin {"start", "run", "stop", "pause", "resume", "swap"}
  BY <1>10, <1>3 DEF Execute
<1> QED
  BY <1>4, <1>5, <1>6, <1>7, <1>8, <1>9, <1>10

(* receive_messages is asked for no more than each of the counters that    *)
(* are set, so that no counter wraps in process_messages.                  *)
LEMMA RecvBound ==
    ASSUME NEW a \in AnalyzerType, NEW n \in RecvCounts(a)
    PROVE  /\ n \in Nat
           /\ a.exit_after_cnt > 0 => n <= a.exit_after_cnt
           /\ a.pause_after_cnt > 0 => n <= a.pause_after_cnt
           /\ ReadMode => n <= a.left
<1>1. BatchSize \in Nat \ {0}
  BY AnalyzerAssumption
<1>2. a.exit_after_cnt \in Nat /\ a.pause_after_cnt \in Nat /\ a.left \in Nat
  BY DEF AnalyzerType
<1>3. /\ MaxRecv(a) \in Nat
      /\ a.exit_after_cnt > 0 => MaxRecv(a) <= a.exit_after_cnt
      /\ a.pause_after_cnt > 0 => MaxRecv(a) <= a.pause_after_cnt
  BY <1>1, <1>2, SMTT(20) DEF MaxRecv, Capped, Lesser
<1>4. n \in Nat /\ n <= MaxRecv(a) /\ (ReadMode => n <= a.left)
  BY <1>2, <1>3, SMTT(20) DEF RecvCounts, Lesser
<1> QED
  BY <1>2, <1>3, <1>4, SMTT(20)

(* The end of process_messages, n messages after it began. *)
LEMMA CountDownFacts ==
    ASSUME NEW a \in AnalyzerType, NEW n \in Nat,
           a.exit_after_cnt > 0 => n <= a.exit_after_cnt,
           a.pause_after_cnt > 0 => n <= a.pause_after_cnt
    PROVE  Steady(a, CountDown(a, n)) /\ CountDown(a, n).conf = a.conf
           /\ CountDown(a, n).skip_cnt = a.skip_cnt /\ CountDown(a, n).left = a.left
<1> DEFINE e == IF a.exit_after_cnt > 0 /\ a.exit_after_cnt = n THEN Stop(a) ELSE a
           q == IF a.pause_after_cnt > 0 /\ a.pause_after_cnt = n THEN Pause(e) ELSE e
           Less(cnt) == IF cnt > 0 THEN cnt - n ELSE 0
<1>0. CountDown(a, n) = [q EXCEPT !.exit_after_cnt = Less(@), !.pause_after_cnt = Less(@)]
  BY DEF CountDown
<1>1. /\ Steady(a, e) /\ e.conf = a.conf /\ e.skip_cnt = a.skip_cnt /\ e.left = a.left
      /\ e.exit_after_cnt = a.exit_after_cnt /\ e.pause_after_cnt = a.pause_after_cnt
  BY DEF AnalyzerType, Steady, Stop
<1> HIDE DEF e
<1>2. /\ Steady(e, Pause(e)) /\ Pause(e).conf = e.conf
      /\ Pause(e).skip_cnt = e.skip_cnt /\ Pause(e).left = e.left
      /\ Pause(e).exit_after_cnt = e.exit_after_cnt /\ Pause(e).pause_after_cnt = e.pause_after_cnt
  BY <1>1, SetStateFacts DEF Steady, Pause, States
<1>3. /\ Steady(a, q) /\ q.conf = a.conf /\ q.skip_cnt = a.skip_cnt /\ q.left = a.left
      /\ q.exit_after_cnt = a.exit_after_cnt /\ q.pause_after_cnt = a.pause_after_cnt
  BY <1>1, <1>2 DEF Steady
<1> HIDE DEF q
<1>4. a.exit_after_cnt \in Nat /\ a.pause_after_cnt \in Nat
  BY DEF AnalyzerType
<1>5. Less(q.exit_after_cnt) \in Nat /\ Less(q.pause_after_cnt) \in Nat
  BY <1>3, <1>4, SMTT(20)
<1> DEFINE u == Less(q.exit_after_cnt)
           v == Less(q.pause_after_cnt)
<1>6. CountDown(a, n) = [q EXCEPT !.exit_after_cnt = u, !.pause_after_cnt = v]
  BY <1>0
<1>7. q \in AnalyzerType /\ q.cur = a.cur /\ (a.to_poke => q.to_poke) /\ u \in Nat /\ v \in Nat
  BY <1>3, <1>5 DEF Steady
<1> HIDE DEF Less, u, v
<1> QED
  BY <1>3, <1>6, <1>7 DEF AnalyzerType, Steady

-----------------------------------------------------------------------------
(* Steps of a packet thread *)

(* The commands are the same objects, but for ACRun's flag. *)
SameCommands ==
    /\ cmds' \in [CmdIds -> CommandType]
    /\ \A id \in CmdIds :
          /\ cmds'[id].kind = cmds[id].kind /\ cmds'[id].refs = cmds[id].refs
          /\ cmds'[id].old_conf = cmds[id].old_conf /\ cmds'[id].new_conf = cmds[id].new_conf

(* A step that changes only what belongs to pig p, gives p no command it   *)
(* did not have, and lets go of a swap only when p has its configuration.  *)
LEMMA PacketKeeps ==
    ASSUME Inv, NEW p \in Pigs, UNCHANGED mainvars, SameCommands,
           NEW b \in AnalyzerType, an' = [an EXCEPT ![p] = b],
           NEW s \in Seq(CmdIds), pending' = [pending EXCEPT ![p] = s],
           NEW done \in SUBSET CmdIds, completed' = [completed EXCEPT ![p] = done],
           NEW left \in [CmdIds -> 0 .. MaxTuners], uncompleted' = [uncompleted EXCEPT ![p] = left],
           poke' \in Seq(Pigs), poke_lost' \in BOOLEAN,
           Apart(s, done, left, b),
           \A id \in CmdIds : Held(id, s, done, left, b) =>
               Held(id, pending[p], completed[p], uncompleted[p], an[p]),
           \/ b.conf = conf
           \/ /\ b.conf = an[p].conf
              /\ \A id \in Range(pending[p]) :
                    cmds[id].kind = "swap" /\ cmds[id].new_conf = conf => id \in Range(s)
    PROVE  Inv'
<1>1. TypeOK /\ OnceEach /\ InHand /\ CommandsAlive /\ OrphansReal /\ DroveCounted /\ SwapsAlive /\ UpToDate
  BY DEF Inv
<1>2. TypeOK'
  <2>1. /\ an' \in [Pigs -> AnalyzerType] /\ pending' \in [Pigs -> Seq(CmdIds)]
        /\ completed' \in [Pigs -> SUBSET CmdIds]
        /\ uncompleted' \in [Pigs -> [CmdIds -> 0 .. MaxTuners]]
    BY <1>1 DEF TypeOK
  <2>2. cmds' \in [CmdIds -> CommandType]
    BY DEF SameCommands
  <2> QED
    BY <1>1, <2>1, <2>2 DEF TypeOK, mainvars
<1>3. \A q \in Pigs :
        /\ an'[q] = IF q = p THEN b ELSE an[q]
        /\ pending'[q] = IF q = p THEN s ELSE pending[q]
        /\ completed'[q] = IF q = p THEN done ELSE completed[q]
        /\ uncompleted'[q] = IF q = p THEN left ELSE uncompleted[q]
  BY <1>1 DEF TypeOK
<1>4. OnceEach'
  BY <1>1, <1>3, SMTT(20) DEF OnceEach
<1>5. InHand' /\ DroveCounted'
  BY <1>1 DEF InHand, DroveCounted, mainvars
<1>6. ASSUME NEW id \in CmdIds PROVE Cardinality(Holders(id)') <= cmds'[id].refs
  <2>1. Holders(id)' \subseteq Holders(id)
    <3> SUFFICES ASSUME NEW q \in Holders(id)' PROVE q \in Holders(id)
      OBVIOUS
    <3>1. q \in Pigs /\ Held(id, pending'[q], completed'[q], uncompleted'[q], an'[q])
      BY DEF Holders, Held, Unfinished
    <3>2. Held(id, pending[q], completed[q], uncompleted[q], an[q])
      BY <3>1, <1>3
    <3> QED
      BY <3>1, <3>2 DEF Holders, Held, Unfinished
  <2>2. Cardinality(Holders(id)') <= Cardinality(Holders(id))
    BY <2>1, StillCounting DEF Holders, Counting
  <2>3. Cardinality(Holders(id)) <= cmds[id].refs /\ cmds'[id].refs = cmds[id].refs
    BY <1>1 DEF CommandsAlive, SameCommands
  <2>4. Cardinality(Holders(id)') \in Nat /\ Cardinality(Holders(id)) \in Nat /\ cmds[id].refs \in Nat
    <3>1. Holders(id) \in SUBSET Pigs /\ Holders(id)' \in SUBSET Pigs
      BY DEF Holders
    <3>2. cmds[id].refs \in Nat
      BY <1>1, SMTT(20) DEF TypeOK, CommandType
    <3> QED
      BY <3>1, <3>2, StillCounting, SMTT(20) DEF Counting
  <2> QED
    BY <2>2, <2>3, <2>4, SMTT(20)
<1>7. OrphansReal' /\ CommandsAlive'
  <2>1. orphans' = orphans /\ orphans \subseteq CmdIds
    BY <1>1 DEF TypeOK, mainvars
  <2>2. OrphansReal'
    BY <2>1, <1>1 DEF OrphansReal, SameCommands
  <2>3. \A id \in orphans' : cmds'[id] # Dead /\ cmds'[id].refs = 0
    <3>1. Dead.kind = "none"
      BY DEF Dead, Command
    <3>2. \A id \in orphans : id \in CmdIds /\ cmds[id].refs = 0 /\ cmds'[id].kind # "none"
      BY <2>1, <2>2, <1>1 DEF OrphansReal, CommandsAlive
    <3> QED
      BY <2>1, <3>1, <3>2 DEF SameCommands
  <2> QED
    BY <2>2, <2>3, <1>6 DEF CommandsAlive
<1>8. SwapsAlive'
  BY <1>1 DEF SwapsAlive, SameCommands, mainvars
<1>9. UpToDate'
  <2> SUFFICES ASSUME NEW q \in Pigs, athread'[q]
               PROVE  \/ an'[q].conf = conf'
                      \/ \E id \in Range(pending'[q]) : cmds'[id].kind = "swap"
                            /\ cmds'[id].new_conf = conf' /\ cmds'[id].old_conf = an'[q].conf
    BY DEF UpToDate
  <2>1. conf' = conf /\ athread[q]
    BY DEF mainvars
  <2>2. \/ an[q].conf = conf
        \/ \E id \in Range(pending[q]) :
              cmds[id].kind = "swap" /\ cmds[id].new_conf = conf /\ cmds[id].old_conf = an[q].conf
    BY <2>1, <1>1 DEF UpToDate
  <2>3. \A id \in Range(pending[q]) : id \in CmdIds
    <3>1. pending[q] \in Seq(CmdIds)
      BY <1>1 DEF TypeOK
    <3> QED
      BY <3>1, RangeFacts
  <2> QED
    <3>1. CASE q # p
      BY <2>1, <2>2, <2>3, <3>1, <1>3 DEF SameCommands
    <3>2. CASE q = p /\ b.conf = conf
      BY <2>1, <3>2, <1>3
    <3>3. CASE q = p /\ b.conf # conf
      <4>1. b.conf = an[p].conf /\ an'[q] = b /\ pending'[q] = s
        BY <3>3, <1>3
      <4>2. PICK id \in Range(pending[p]) :
              cmds[id].kind = "swap" /\ cmds[id].new_conf = conf /\ cmds[id].old_conf = an[p].conf
        BY <2>2, <3>3, <4>1
      <4>3. id \in Range(s) /\ id \in CmdIds
        BY <4>2, <3>3, <2>3
      <4> QED
        BY <4>1, <4>2, <4>3, <2>1 DEF SameCommands
    <3> QED
      BY <3>1, <3>2, <3>3
<1> QED
  BY <1>1, <1>2, <1>4, <1>5, <1>7, <1>8, <1>9, StillCounting DEF Inv

(* The end of a command puts it into one of the two queues. *)
LEMMA ExecutedFacts ==
    ASSUME TypeOK, NEW p \in Pigs, NEW id \in CmdIds, Executed(p, id)
    PROVE  /\ SameCommands
           /\ \E tuners \in 0 .. MaxTuners :
                 /\ completed' = [completed EXCEPT ![p] =
                                    IF tuners = 0 THEN completed[p] \union {id} ELSE completed[p]]
                 /\ uncompleted' = [uncompleted EXCEPT ![p] = [uncompleted[p] EXCEPT ![id] = tuners]]
<1>1. SameCommands
  <2>1. cmds' = [cmds EXCEPT ![id] = [cmds[id] EXCEPT !.arg = IF cmds[id].kind = "run" THEN 0 ELSE cmds[id].arg]]
    BY DEF Executed
  <2>2. cmds \in [CmdIds -> CommandType]
    BY DEF TypeOK
  <2> DEFINE c == [cmds[id] EXCEPT !.arg = IF cmds[id].kind = "run" THEN 0 ELSE cmds[id].arg]
  <2>3. /\ c \in CommandType /\ c.kind = cmds[id].kind /\ c.refs = cmds[id].refs
        /\ c.old_conf = cmds[id].old_conf /\ c.new_conf = cmds[id].new_conf
    BY <2>2, SMTT(20) DEF CommandType
  <2> HIDE DEF c
  <2>4. cmds' = [cmds EXCEPT ![id] = c]
    BY <2>1 DEF c
  <2> QED
    BY <2>2, <2>3, <2>4 DEF SameCommands
<1>2. MaxTuners \in Nat
  BY AnalyzerAssumption
<1>3. PICK tuners \in IF cmds[id].new_conf # None THEN 0 .. MaxTuners ELSE {0} :
        /\ uncompleted' = [uncompleted EXCEPT ![p][id] = tuners]
        /\ completed' = [completed EXCEPT ![p] = IF tuners = 0 THEN @ \union {id} ELSE @]
  BY DEF Executed
<1>4. tuners \in 0 .. MaxTuners
  BY <1>2, <1>3, SMTT(20)
<1>5. completed' = [completed EXCEPT ![p] = IF tuners = 0 THEN completed[p] \union {id} ELSE completed[p]]
  BY <1>3
<1>6. uncompleted' = [uncompleted EXCEPT ![p] = [uncompleted[p] EXCEPT ![id] = tuners]]
  BY <1>3
<1> QED
  BY <1>1, <1>4, <1>5, <1>6
-----------------------------------------------------------------------------
(* The steps of a packet thread. *)

(* handle_command keeps the invariant. *)
LEMMA HandleCommandKeeps ==
    ASSUME Inv, NEW p \in Pigs, UNCHANGED mainvars, ~an[p].to_poke, pending[p] # <<>>,
           HandleCommand(p)
    PROVE  Inv'
<1> DEFINE id == Head(pending[p])
           s == Tail(pending[p])
<1>1. TypeOK /\ OnceEach /\ SwapsAlive
  BY DEF Inv
<1>2. /\ an[p] \in AnalyzerType /\ pending[p] \in Seq(CmdIds) /\ completed[p] \in SUBSET CmdIds
      /\ uncompleted[p] \in [CmdIds -> 0 .. MaxTuners] /\ poke \in Seq(Pigs) /\ poke_lost \in BOOLEAN
      /\ cmds \in [CmdIds -> CommandType]
  BY <1>1 DEF TypeOK
<1>3. /\ id \in CmdIds /\ s \in Seq(CmdIds) /\ OneTime(s) /\ id \notin Range(s)
      /\ Range(pending[p]) = {id} \union Range(s)
  BY <1>1, <1>2, TailFacts DEF OnceEach, Apart
<1>4. Apart(pending[p], completed[p], uncompleted[p], an[p])
  BY <1>1 DEF OnceEach
<1>5. PICK ok \in BOOLEAN :
        LET a == Execute(an[p], cmds[id], ok) IN
        /\ an' = [an EXCEPT ![p] = [a EXCEPT !.cur = IF a.to_poke THEN id ELSE None]]
        /\ IF a.to_poke THEN UNCHANGED <<completed, uncompleted, cmds>> ELSE Executed(p, id)
  BY DEF HandleCommand
<1>6. pending' = [pending EXCEPT ![p] = s] /\ poke' = poke /\ poke_lost' = poke_lost
  BY DEF HandleCommand
<1> DEFINE a == Execute(an[p], cmds[id], ok)
           b == [a EXCEPT !.cur = IF a.to_poke THEN id ELSE None]
<1>7. /\ a \in AnalyzerType
      /\ a.conf = IF cmds[id].kind = "swap" /\ cmds[id].new_conf # None THEN cmds[id].new_conf ELSE an[p].conf
  BY <1>2, <1>3, ExecuteFacts, SMTT(20) DEF Steady
<1>8. an' = [an EXCEPT ![p] = b]
  BY <1>5
<1>9. IF a.to_poke THEN UNCHANGED <<completed, uncompleted, cmds>> ELSE Executed(p, id)
  BY <1>5
<1> HIDE DEF a, id, s
<1>10. b \in AnalyzerType /\ b.conf = a.conf /\ b.to_poke = a.to_poke
       /\ b.cur = IF a.to_poke THEN id ELSE None
  BY <1>3, <1>7 DEF AnalyzerType
<1> HIDE DEF b
<1>11. None \notin CmdIds
  BY SMTT(20) DEF None, CmdIds
<1>12. \/ b.conf = conf
       \/ /\ b.conf = an[p].conf
          /\ \A jd \in Range(pending[p]) :
                cmds[jd].kind = "swap" /\ cmds[jd].new_conf = conf => jd \in Range(s)
  <2>1. CASE cmds[id].kind = "swap" /\ cmds[id].new_conf # None
    BY <2>1, <1>1, <1>3, <1>7, <1>10 DEF SwapsAlive
  <2>2. CASE ~(cmds[id].kind = "swap" /\ cmds[id].new_conf # None)
    <3>1. conf # None
      BY <1>1 DEF SwapsAlive, None
    <3> QED
      BY <2>2, <3>1, <1>3, <1>7, <1>10
  <2> QED
    BY <2>1, <2>2
<1>13. CASE a.to_poke
  <2>1. SameCommands
    BY <1>13, <1>9, <1>2 DEF SameCommands
  <2>2. completed' = [completed EXCEPT ![p] = completed[p]]
        /\ uncompleted' = [uncompleted EXCEPT ![p] = uncompleted[p]]
    BY <1>13, <1>9, <1>1 DEF TypeOK
  <2>3. Apart(s, completed[p], uncompleted[p], b)
    BY <1>3, <1>4, <1>10, <1>13 DEF Apart
  <2>4. \A jd \in CmdIds : Held(jd, s, completed[p], uncompleted[p], b) =>
               Held(jd, pending[p], completed[p], uncompleted[p], an[p])
    BY <1>3, <1>10, <1>13 DEF Held
  <2> QED
    BY <2>1, <2>2, <2>3, <2>4, <1>2, <1>3, <1>6, <1>8, <1>10, <1>12, PacketKeeps
<1>14. CASE ~a.to_poke
  <2>1. SameCommands
    BY <1>14, <1>9, <1>1, <1>3, ExecutedFacts
  <2>2. PICK tuners \in 0 .. MaxTuners :
          /\ completed' = [completed EXCEPT ![p] =
                             IF tuners = 0 THEN completed[p] \union {id} ELSE completed[p]]
          /\ uncompleted' = [uncompleted EXCEPT ![p] = [uncompleted[p] EXCEPT ![id] = tuners]]
    BY <1>14, <1>9, <1>1, <1>3, ExecutedFacts
  <2> DEFINE done == IF tuners = 0 THEN completed[p] \union {id} ELSE completed[p]
             left == [uncompleted[p] EXCEPT ![id] = tuners]
  <2>3. done \in SUBSET CmdIds /\ left \in [CmdIds -> 0 .. MaxTuners]
        /\ \A jd \in CmdIds : left[jd] = IF jd = id THEN tuners ELSE uncompleted[p][jd]
    BY <1>2, <1>3
  <2>4. completed' = [completed EXCEPT ![p] = done] /\ uncompleted' = [uncompleted EXCEPT ![p] = left]
    BY <2>2
  <2>5. \A jd \in Range(s) : jd \in CmdIds /\ jd # id
    BY <1>3, RangeFacts
  <2>6. \A jd \in done : jd \in CmdIds /\ (jd = id => tuners = 0) /\ (jd # id => jd \in completed[p])
    BY <1>2, <1>3, <1>4 DEF Apart
  <2> HIDE DEF done, left
  <2>7. Apart(s, done, left, b)
    <3>1. ASSUME NEW jd \in Range(s) PROVE jd \notin done /\ left[jd] = 0 /\ b.cur # jd
      BY <3>1, <2>3, <2>5, <2>6, <1>3, <1>4, <1>10, <1>11, <1>14 DEF Apart
    <3>2. ASSUME NEW jd \in done PROVE left[jd] = 0 /\ b.cur # jd
      BY <3>2, <2>3, <2>6, <1>4, <1>10, <1>11, <1>14 DEF Apart
    <3> QED
      BY <3>1, <3>2, <1>3, <1>10, <1>14 DEF Apart
  <2>8. \A jd \in CmdIds : Held(jd, s, done, left, b) =>
               Held(jd, pending[p], completed[p], uncompleted[p], an[p])
    BY <2>3, <2>6, <1>3, <1>10, <1>11, <1>14 DEF Held
  <2> QED
    BY <2>1, <2>3, <2>4, <2>7, <2>8, <1>2, <1>3, <1>6, <1>8, <1>10, <1>12, PacketKeeps
<1> QED
  BY <1>13, <1>14

(* main_poke keeps the ring a queue of pigs. *)
LEMMA PutPokeFacts ==
    ASSUME TypeOK, NEW p \in Pigs, PutPoke(p)
    PROVE  poke' \in Seq(Pigs) /\ poke_lost' \in BOOLEAN
<1>1. Append(poke, p) \in Seq(Pigs)
  BY AppendFacts DEF TypeOK
<1> QED
  BY <1>1 DEF PutPoke, TypeOK

(* A step that changes an analyzer's record only, and neither its command  *)
(* nor its configuration, keeps the invariant.                             *)
LEMMA SteadyKeeps ==
    ASSUME Inv, NEW p \in Pigs, UNCHANGED mainvars,
           UNCHANGED <<pending, completed, uncompleted, cmds, poke, poke_lost>>,
           NEW b, an' = [an EXCEPT ![p] = b], Steady(an[p], b), b.conf = an[p].conf
    PROVE  Inv'
<1>1. TypeOK /\ OnceEach
  BY DEF Inv
<1>2. /\ b \in AnalyzerType /\ pending[p] \in Seq(CmdIds) /\ completed[p] \in SUBSET CmdIds
      /\ uncompleted[p] \in [CmdIds -> 0 .. MaxTuners] /\ poke \in Seq(Pigs) /\ poke_lost \in BOOLEAN
      /\ cmds \in [CmdIds -> CommandType]
  BY <1>1 DEF TypeOK, Steady
<1>3. /\ pending' = [pending EXCEPT ![p] = pending[p]]
      /\ completed' = [completed EXCEPT ![p] = completed[p]]
      /\ uncompleted' = [uncompleted EXCEPT ![p] = uncompleted[p]]
  BY <1>1 DEF TypeOK
<1>4. SameCommands
  BY <1>2 DEF SameCommands
<1>5. Apart(pending[p], completed[p], uncompleted[p], b)
  BY <1>1 DEF OnceEach, Apart, Steady
<1>6. \A id \in CmdIds : Held(id, pending[p], completed[p], uncompleted[p], b) =>
          Held(id, pending[p], completed[p], uncompleted[p], an[p])
  BY DEF Held, Steady
<1> QED
  BY <1>2, <1>3, <1>4, <1>5, <1>6, PacketKeeps

(* The notification, and the end of the command that made it. *)
LEMMA PokeKeeps ==
    ASSUME Inv, NEW p \in Pigs, UNCHANGED mainvars, Poke(p)
    PROVE  Inv'
<1> DEFINE id == an[p].cur
           b == [an[p] EXCEPT !.to_poke = FALSE, !.cur = None]
<1>1. TypeOK /\ OnceEach
  BY DEF Inv
<1>2. /\ an[p] \in AnalyzerType /\ pending[p] \in Seq(CmdIds) /\ completed[p] \in SUBSET CmdIds
      /\ uncompleted[p] \in [CmdIds -> 0 .. MaxTuners] /\ cmds \in [CmdIds -> CommandType]
  BY <1>1 DEF TypeOK
<1>3. poke' \in Seq(Pigs) /\ poke_lost' \in BOOLEAN
  BY <1>1, PutPokeFacts DEF Poke
<1>4. Apart(pending[p], completed[p], uncompleted[p], an[p])
  BY <1>1 DEF OnceEach
<1>5. an' = [an EXCEPT ![p] = b] /\ pending' = [pending EXCEPT ![p] = pending[p]]
  BY <1>1 DEF Poke, TypeOK
<1>6. b \in AnalyzerType /\ b.cur = None /\ b.conf = an[p].conf
  BY <1>2 DEF AnalyzerType
<1> HIDE DEF b
<1>7. None \notin CmdIds
  BY SMTT(20) DEF None, CmdIds
<1>8. \A jd \in Range(pending[p]) : jd \in CmdIds
  BY <1>2, RangeFacts
<1>9. CASE id = None
  <2>1. completed' = [completed EXCEPT ![p] = completed[p]]
        /\ uncompleted' = [uncompleted EXCEPT ![p] = uncompleted[p]]
        /\ cmds' = cmds
    BY <1>9, <1>1 DEF Poke, TypeOK
  <2>2. SameCommands
    BY <2>1, <1>2 DEF SameCommands
  <2>3. Apart(pending[p], completed[p], uncompleted[p], b)
    BY <1>2, <1>4, <1>6, <1>7, <1>8 DEF Apart
  <2>4. \A jd \in CmdIds : Held(jd, pending[p], completed[p], uncompleted[p], b) =>
               Held(jd, pending[p], completed[p], uncompleted[p], an[p])
    BY <1>6, <1>7 DEF Held
  <2> QED
    BY <2>1, <2>2, <2>3, <2>4, <1>2, <1>3, <1>5, <1>6, PacketKeeps
<1>10. CASE id # None
  <2>1. id \in CmdIds /\ Executed(p, id)
    BY <1>10, <1>2 DEF Poke, AnalyzerType
  <2> HIDE DEF id
  <2>2. SameCommands
    BY <2>1, <1>1, ExecutedFacts
  <2>3. PICK tuners \in 0 .. MaxTuners :
          /\ completed' = [completed EXCEPT ![p] =
                             IF tuners = 0 THEN completed[p] \union {id} ELSE completed[p]]
          /\ uncompleted' = [uncompleted EXCEPT ![p] = [uncompleted[p] EXCEPT ![id] = tuners]]
    BY <2>1, <1>1, ExecutedFacts
  <2> DEFINE done == IF tuners = 0 THEN completed[p] \union {id} ELSE completed[p]
             left == [uncompleted[p] EXCEPT ![id] = tuners]
  <2>4. done \in SUBSET CmdIds /\ left \in [CmdIds -> 0 .. MaxTuners]
        /\ \A jd \in CmdIds : left[jd] = IF jd = id THEN tuners ELSE uncompleted[p][jd]
    BY <1>2, <2>1
  <2>5. completed' = [completed EXCEPT ![p] = done] /\ uncompleted' = [uncompleted EXCEPT ![p] = left]
    BY <2>3
  <2>6. id \notin Range(pending[p]) /\ id \notin completed[p]
    BY <1>4 DEF Apart, id
  <2>7. \A jd \in done : jd \in CmdIds /\ (jd = id => tuners = 0) /\ (jd # id => jd \in completed[p])
    BY <2>1, <2>6, <1>2
  <2> HIDE DEF done, left
  <2>8. Apart(pending[p], done, left, b)
    <3>1. ASSUME NEW jd \in Range(pending[p]) PROVE jd \notin done /\ left[jd] = 0 /\ b.cur # jd
      BY <3>1, <2>4, <2>6, <2>7, <1>4, <1>6, <1>7, <1>8 DEF Apart
    <3>2. ASSUME NEW jd \in done PROVE left[jd] = 0 /\ b.cur # jd
      BY <3>2, <2>4, <2>7, <1>4, <1>6, <1>7 DEF Apart
    <3> QED
      BY <3>1, <3>2, <1>4, <1>6 DEF Apart
  <2>9. \A jd \in CmdIds : Held(jd, pending[p], done, left, b) =>
               Held(jd, pending[p], completed[p], uncompleted[p], an[p])
    BY <2>4, <2>7, <1>6, <1>7 DEF Held, id
  <2> QED
    BY <2>2, <2>4, <2>5, <2>8, <2>9, <1>2, <1>3, <1>5, <1>6, PacketKeeps
<1> QED
  BY <1>9, <1>10

(* Applying an unfinished swap again leaves a thread the configuration it  *)
(* had or gives it the one in force.                                       *)
LEMMA ReappliedFacts ==
    ASSUME TypeOK, SwapsAlive, NEW p \in Pigs, NEW a \in AnalyzerType, NEW n \in Nat
    PROVE  LET r == Reapplied(a, p, n) IN
           /\ Steady(a, r) /\ r.conf \in {a.conf, conf}
           /\ r.skip_cnt = a.skip_cnt /\ r.left = a.left
           /\ r.exit_after_cnt = a.exit_after_cnt /\ r.pause_after_cnt = a.pause_after_cnt
<1>1. CASE n = 0 \/ Unfinished(p) = {}
  BY <1>1 DEF Reapplied, Steady
<1>2. CASE ~(n = 0 \/ Unfinished(p) = {})
  <2> DEFINE id == CHOOSE jd \in Unfinished(p) : TRUE
  <2>1. id \in CmdIds
    BY <1>2 DEF Unfinished
  <2>2. Reapplied(a, p, n) = Swap(a, cmds[id])
    BY <1>2 DEF Reapplied
  <2> HIDE DEF id
  <2>3. cmds[id] \in CommandType /\ cmds[id].new_conf \in {None, conf}
    BY <2>1 DEF TypeOK, SwapsAlive
  <2> DEFINE x == IF cmds[id].new_conf # None THEN cmds[id].new_conf ELSE a.conf
             y == IF cmds[id].new_attribs # None THEN cmds[id].new_attribs ELSE a.attribs
  <2>4. x \in Nat /\ y \in Nat /\ x \in {a.conf, conf}
    BY <2>3 DEF CommandType, AnalyzerType
  <2>5. Swap(a, cmds[id]) = [a EXCEPT !.conf = x, !.attribs = y]
    BY DEF Swap
  <2> HIDE DEF x, y
  <2> DEFINE r == [a EXCEPT !.conf = x, !.attribs = y]
  <2>6. r \in AnalyzerType
    BY <2>4 DEF AnalyzerType
  <2>7. /\ r.conf = x /\ r.cur = a.cur /\ r.to_poke = a.to_poke
        /\ r.skip_cnt = a.skip_cnt /\ r.left = a.left
        /\ r.exit_after_cnt = a.exit_after_cnt /\ r.pause_after_cnt = a.pause_after_cnt
    BY DEF AnalyzerType
  <2>8. Reapplied(a, p, n) = r
    BY <2>2, <2>5
  <2> HIDE DEF r
  <2> QED
    BY <2>4, <2>6, <2>7, <2>8 DEF Steady
<1> QED
  BY <1>1, <1>2

(* A pass of analyze() over a batch of messages keeps the invariant. *)
LEMMA AnalyzeRunningKeeps ==
    ASSUME Inv, NEW p \in Pigs, UNCHANGED mainvars, ~an[p].to_poke, AnalyzeRunning(p)
    PROVE  Inv'
<1> DEFINE a == an[p]
<1>1. TypeOK /\ OnceEach /\ SwapsAlive
  BY DEF Inv
<1>2. /\ a \in AnalyzerType /\ pending[p] \in Seq(CmdIds) /\ completed[p] \in SUBSET CmdIds
      /\ uncompleted[p] \in [CmdIds -> 0 .. MaxTuners] /\ cmds \in [CmdIds -> CommandType]
      /\ poke \in Seq(Pigs) /\ poke_lost \in BOOLEAN
  BY <1>1 DEF TypeOK
<1>3. Apart(pending[p], completed[p], uncompleted[p], a) /\ a.cur = None
  BY <1>1 DEF OnceEach, Apart
<1> DEFINE Pass(n, rstat) ==
        LET skipped == Lesser(n, a.skip_cnt)
            calls   == n - skipped + IF rstat = "TIMEOUT" THEN 1 ELSE 0
        IN  /\ HandleUncompleted(p, calls)
            /\ an' = [an EXCEPT ![p] =
                 [CountDown(Reapplied(a, p, calls), n - skipped) EXCEPT
                    !.skip_cnt = @ - skipped,
                    !.left = IF ReadMode THEN @ - n ELSE @,
                    !.interrupted = FALSE,
                    !.pc = CASE rstat = "INTERRUPTED" -> "drain"
                             [] rstat \in {"EOF", "ERROR"} -> "term"
                             [] OTHER -> "loop"]]
<1>0. \E n \in RecvCounts(a) : \E rstat \in RecvStatus(a, n) : Pass(n, rstat)
  BY DEF AnalyzeRunning
<1>4. PICK n \in RecvCounts(a) : \E rstat \in RecvStatus(a, n) : Pass(n, rstat)
  BY <1>0
<1>5. PICK rstat \in RecvStatus(a, n) : Pass(n, rstat)
  BY <1>4
<1> DEFINE skipped == Lesser(n, a.skip_cnt)
           calls == n - skipped + IF rstat = "TIMEOUT" THEN 1 ELSE 0
           r == Reapplied(a, p, calls)
           d == CountDown(r, n - skipped)
           at == CASE rstat = "INTERRUPTED" -> "drain"
                   [] rstat \in {"EOF", "ERROR"} -> "term"
                   [] OTHER -> "loop"
           b == [d EXCEPT !.skip_cnt = d.skip_cnt - skipped,
                          !.left = IF ReadMode THEN d.left - n ELSE d.left,
                          !.interrupted = FALSE, !.pc = at]
<1>20. an' = [an EXCEPT ![p] = b] /\ HandleUncompleted(p, calls)
  BY <1>5
<1>6. /\ n \in Nat /\ skipped \in Nat /\ skipped <= n /\ skipped <= a.skip_cnt
      /\ n - skipped \in Nat /\ n - skipped <= n /\ calls \in Nat
      /\ ReadMode => n <= a.left
      /\ a.exit_after_cnt > 0 => n <= a.exit_after_cnt
      /\ a.pause_after_cnt > 0 => n <= a.pause_after_cnt
      /\ a.skip_cnt \in Nat /\ a.left \in Nat /\ a.exit_after_cnt \in Nat /\ a.pause_after_cnt \in Nat
  <2>1. /\ n \in Nat
        /\ ReadMode => n <= a.left
        /\ a.exit_after_cnt > 0 => n <= a.exit_after_cnt
        /\ a.pause_after_cnt > 0 => n <= a.pause_after_cnt
    BY <1>2, RecvBound
  <2>2. a.skip_cnt \in Nat /\ a.left \in Nat /\ a.exit_after_cnt \in Nat /\ a.pause_after_cnt \in Nat
    BY <1>2 DEF AnalyzerType
  <2> HIDE DEF a
  <2> QED
    BY <2>1, <2>2, SMTT(20) DEF Lesser
<1>7. at \in {"drain", "term", "loop"}
  OBVIOUS
<1> HIDE DEF Pass, a, skipped, calls, at
<1>8. /\ Steady(a, r) /\ r.conf \in {a.conf, conf}
      /\ r.skip_cnt = a.skip_cnt /\ r.left = a.left
      /\ r.exit_after_cnt = a.exit_after_cnt /\ r.pause_after_cnt = a.pause_after_cnt
  BY <1>1, <1>2, <1>6, ReappliedFacts
<1> HIDE DEF r
<1>9. Steady(r, d) /\ d.conf = r.conf /\ d.skip_cnt = r.skip_cnt /\ d.left = r.left
  <2>1. r \in AnalyzerType
    BY <1>8 DEF Steady
  <2>2. (r.exit_after_cnt > 0 => n - skipped <= r.exit_after_cnt)
        /\ (r.pause_after_cnt > 0 => n - skipped <= r.pause_after_cnt)
    BY <1>6, <1>8, SMTT(20)
  <2> QED
    BY <2>1, <2>2, <1>6, CountDownFacts
<1> HIDE DEF d
<1>10. b \in AnalyzerType /\ b.cur = None /\ b.conf \in {a.conf, conf}
  <2>1. d \in AnalyzerType /\ d.cur = None /\ d.conf \in {a.conf, conf}
    BY <1>3, <1>8, <1>9 DEF Steady
  <2>2. d.skip_cnt - skipped \in Nat /\ (IF ReadMode THEN d.left - n ELSE d.left) \in Nat
    BY <1>6, <1>8, <1>9, SMTT(20)
  <2> QED
    BY <2>1, <2>2, <1>7 DEF AnalyzerType
<1> HIDE DEF b
<1>11. PICK rest \in [Unfinished(p) -> 0 .. MaxTuners] :
        /\ uncompleted' = [uncompleted EXCEPT ![p] =
                             [id \in CmdIds |-> IF id \in Unfinished(p) THEN rest[id] ELSE 0]]
        /\ completed' = [completed EXCEPT ![p] =
                           completed[p] \union {id \in Unfinished(p) : rest[id] = 0}]
  BY <1>20 DEF HandleUncompleted
<1> DEFINE left == [id \in CmdIds |-> IF id \in Unfinished(p) THEN rest[id] ELSE 0]
           done == completed[p] \union {id \in Unfinished(p) : rest[id] = 0}
<1>12. Unfinished(p) \subseteq CmdIds /\ MaxTuners \in Nat
       /\ \A id \in CmdIds : id \in Unfinished(p) <=> uncompleted[p][id] > 0
  BY AnalyzerAssumption DEF Unfinished
<1>13. /\ done \in SUBSET CmdIds
       /\ \A id \in done : id \in completed[p] \/ (id \in Unfinished(p) /\ rest[id] = 0)
  BY <1>2, <1>12
<1>21. \A id \in CmdIds : left[id] \in 0 .. MaxTuners
                          /\ left[id] = IF id \in Unfinished(p) THEN rest[id] ELSE 0
  BY <1>11, <1>12, SMTT(20)
<1>22. left \in [CmdIds -> 0 .. MaxTuners]
  BY <1>21
<1>14. uncompleted' = [uncompleted EXCEPT ![p] = left] /\ completed' = [completed EXCEPT ![p] = done]
  BY <1>11
<1> HIDE DEF left, done
<1>23. None \notin CmdIds
  BY SMTT(20) DEF None, CmdIds
<1>15. \A id \in Range(pending[p]) : id \in CmdIds
  BY <1>2, RangeFacts
<1>16. Apart(pending[p], done, left, b)
  <2>1. ASSUME NEW id \in Range(pending[p]) PROVE id \notin done /\ left[id] = 0 /\ b.cur # id
    <3>1. id \in CmdIds /\ id \notin completed[p] /\ uncompleted[p][id] = 0
      BY <1>3, <1>15 DEF Apart
    <3>2. id \notin Unfinished(p)
      BY <3>1, <1>12, SMTT(20)
    <3> QED
      BY <3>1, <3>2, <1>10, <1>13, <1>21, <1>23
  <2>2. ASSUME NEW id \in done PROVE left[id] = 0 /\ b.cur # id
    <3>1. id \in CmdIds /\ b.cur # id
      BY <1>10, <1>13, <1>23
    <3>2. CASE id \in Unfinished(p)
      <4>1. uncompleted[p][id] # 0
        BY <3>1, <3>2, <1>12, SMTT(20)
      <4>2. rest[id] = 0
        BY <4>1, <1>3, <1>13 DEF Apart
      <4> QED
        BY <4>2, <3>1, <1>21
    <3>3. CASE id \notin Unfinished(p)
      BY <3>1, <3>3, <1>21
    <3> QED
      BY <3>1, <3>2, <3>3
  <2> QED
    BY <2>1, <2>2, <1>3, <1>10 DEF Apart
<1>17. \A id \in CmdIds : Held(id, pending[p], done, left, b) =>
          Held(id, pending[p], completed[p], uncompleted[p], an[p])
  <2> SUFFICES ASSUME NEW id \in CmdIds, Held(id, pending[p], done, left, b)
               PROVE  Held(id, pending[p], completed[p], uncompleted[p], an[p])
    OBVIOUS
  <2>1. ~(0 > 0)
    BY SMTT(20)
  <2>2. id \notin Unfinished(p) => left[id] = 0
    BY <1>21
  <2>3. id \in Range(pending[p]) \/ id \in completed[p] \/ id \in Unfinished(p)
    BY <2>1, <2>2, <1>10, <1>13, <1>23 DEF Held
  <2> QED
    BY <2>3, <1>12 DEF Held
<1>18. SameCommands /\ poke' = poke /\ poke_lost' = poke_lost
       /\ pending' = [pending EXCEPT ![p] = pending[p]]
  BY <1>1, <1>2 DEF AnalyzeRunning, SameCommands, TypeOK
<1>19. b.conf = conf \/ b.conf = an[p].conf
  BY <1>10 DEF a
<1> QED
  BY <1>2, <1>20, <1>10, <1>13, <1>14, <1>16, <1>17, <1>18, <1>19, <1>22, PacketKeeps

(* Every step of a packet thread keeps the invariant. *)
LEMMA PacketThreadKeeps ==
    ASSUME Inv, NEW p \in Pigs, UNCHANGED mainvars, PacketThread(p)
    PROVE  Inv'
<1>1. CASE Poke(p)
  BY <1>1, PokeKeeps
<1>2. CASE ~Poke(p)
  <2>1. an[p] \in AnalyzerType /\ an \in [Pigs -> AnalyzerType]
    BY DEF Inv, TypeOK
  <2>2. ASSUME NEW c \in {"loop", "term", "done"}
        PROVE  LET b == [an[p] EXCEPT !.pc = c] IN
               Steady(an[p], b) /\ b.conf = an[p].conf
    BY <2>1 DEF Steady, AnalyzerType
  <2>3. ASSUME NEW c \in {"loop", "term", "done"}, NEW s \in States
        PROVE  LET b == SetState([an[p] EXCEPT !.pc = c], s) IN
               Steady(an[p], b) /\ b.conf = an[p].conf
    <3> DEFINE d == [an[p] EXCEPT !.pc = c]
    <3>1. Steady(an[p], d) /\ d.conf = an[p].conf
      BY <2>2
    <3> HIDE DEF d
    <3>2. Steady(d, SetState(d, s)) /\ SetState(d, s).conf = d.conf
      BY <3>1, SetStateFacts DEF Steady
    <3>3. Steady(an[p], SetState(d, s)) /\ SetState(d, s).conf = an[p].conf
      BY <3>1, <3>2 DEF Steady
    <3> QED
      BY <3>3 DEF d
  <2>4. ~an[p].to_poke
    BY <1>2 DEF PacketThread
  <2>5. CASE ThreadInit(p)
    <3> DEFINE b == SetState([an[p] EXCEPT !.pc = "loop"], "INITIALIZED")
    <3>1. an' = [an EXCEPT ![p] = b] /\ UNCHANGED <<pending, completed, uncompleted, cmds, poke, poke_lost>>
      BY <2>5 DEF ThreadInit
    <3>2. Steady(an[p], b) /\ b.conf = an[p].conf
      BY <2>3 DEF States
    <3> HIDE DEF b
    <3> QED
      BY <3>1, <3>2, SteadyKeeps
  <2>6. CASE AnalyzeStalled(p) \/ Drain(p)
    BY <2>4, <2>6, HandleCommandKeeps DEF AnalyzeStalled, Drain
  <2>7. CASE AnalyzeRunning(p)
    BY <2>4, <2>7, AnalyzeRunningKeeps
  <2>8. CASE Drained(p) \/ AnalyzeExit(p)
    <3>1. PICK c \in {"loop", "term"} : an' = [an EXCEPT ![p] = [an[p] EXCEPT !.pc = c]]
      BY <2>8 DEF Drained, AnalyzeExit
    <3> DEFINE b == [an[p] EXCEPT !.pc = c]
    <3>2. an' = [an EXCEPT ![p] = b] /\ UNCHANGED <<pending, completed, uncompleted, cmds, poke, poke_lost>>
      BY <3>1, <2>8 DEF Drained, AnalyzeExit
    <3>3. Steady(an[p], b) /\ b.conf = an[p].conf
      BY <2>2
    <3> HIDE DEF b
    <3> QED
      BY <3>2, <3>3, SteadyKeeps
  <2>9. CASE ThreadTerm(p)
    <3> DEFINE b == SetState([an[p] EXCEPT !.pc = "done"], "STOPPED")
    <3>1. an' = [an EXCEPT ![p] = b] /\ UNCHANGED <<pending, completed, uncompleted, cmds, poke, poke_lost>>
      BY <2>9 DEF ThreadTerm
    <3>2. Steady(an[p], b) /\ b.conf = an[p].conf
      BY <2>3 DEF States
    <3> HIDE DEF b
    <3> QED
      BY <3>1, <3>2, SteadyKeeps
  <2> QED
    BY <1>2, <2>5, <2>6, <2>7, <2>8, <2>9 DEF PacketThread
<1> QED
  BY <1>1, <1>2

-----------------------------------------------------------------------------
(* Commands *)

(* The identities of commands, and the commands made. *)
LEMMA CommandFacts ==
    /\ \A p \in Pigs : StartId(p) \in CmdIds /\ RunId(p) \in CmdIds
    /\ \A n \in 0 .. MaxConsole : n < MaxConsole => n + 1 \in CmdIds
    /\ \A kind \in {"start", "run", "stop", "pause", "resume", "swap", "other"}, arg \in {0, 1} :
          LET c == Command(kind, 0, arg) IN
          c \in CommandType /\ c.kind = kind /\ c.new_conf = None /\ c.old_conf = None
<1>1. MaxPigs \in Nat \ {0} /\ MaxConsole \in Nat
  BY AnalyzerAssumption
<1>2. \A p \in Pigs : StartId(p) \in CmdIds /\ RunId(p) \in CmdIds
  BY <1>1, SMTT(20) DEF Pigs, StartId, RunId, CmdIds
<1>3. \A n \in 0 .. MaxConsole : n < MaxConsole => n + 1 \in CmdIds
  BY <1>1, SMTT(20) DEF CmdIds
<1>4. ASSUME NEW kind \in {"start", "run", "stop", "pause", "resume", "swap", "other"},
             NEW arg \in {0, 1}
      PROVE  LET c == Command(kind, 0, arg) IN
             c \in CommandType /\ c.kind = kind /\ c.new_conf = None /\ c.old_conf = None
  BY <1>1, SMTT(20) DEF Command, CommandType, None
<1> QED
  BY <1>2, <1>3, <1>4

(* The swaps of main_reload_config, main_reload_policy, main_reload_hosts. *)
ConfigSwap(oc, nc, oa, na) ==
    [Command("swap", 0, 0) EXCEPT !.old_conf = oc, !.new_conf = nc, !.old_attribs = oa, !.new_attribs = na]
PolicySwap(oc, nc) == [Command("swap", 0, 0) EXCEPT !.old_conf = oc, !.new_conf = nc]
HostsSwap(oa, na) == [Command("swap", 0, 0) EXCEPT !.old_attribs = oa, !.new_attribs = na]

(* They are swaps, whatever their members. *)
LEMMA SwapFacts ==
    ASSUME NEW oc \in Nat, NEW nc \in Nat, NEW oa \in Nat, NEW na \in Nat
    PROVE  /\ \A c \in {ConfigSwap(oc, nc, oa, na), PolicySwap(oc, nc)} :
                 c \in CommandType /\ c.kind = "swap" /\ c.old_conf = oc /\ c.new_conf = nc
           /\ LET c == HostsSwap(oa, na)
              IN  c \in CommandType /\ c.kind = "swap" /\ c.old_conf = None /\ c.new_conf = None
<1> DEFINE s == Command("swap", 0, 0)
<1>1. s \in CommandType /\ s.kind = "swap" /\ s.old_conf = None /\ s.new_conf = None
  BY CommandFacts
<1> HIDE DEF s
<1> DEFINE t == [s EXCEPT !.old_conf = oc, !.new_conf = nc]
           u == [s EXCEPT !.old_attribs = oa, !.new_attribs = na]
           v == [t EXCEPT !.old_attribs = oa, !.new_attribs = na]
<1>2. t \in CommandType /\ t.kind = "swap" /\ t.old_conf = oc /\ t.new_conf = nc
  BY <1>1 DEF CommandType
<1>3. u \in CommandType /\ u.kind = "swap" /\ u.old_conf = None /\ u.new_conf = None
  BY <1>1 DEF CommandType
<1> HIDE DEF t
<1>4. v \in CommandType /\ v.kind = "swap" /\ v.old_conf = oc /\ v.new_conf = nc
  BY <1>2 DEF CommandType
<1> QED
  BY <1>2, <1>3, <1>4 DEF s, t, ConfigSwap, PolicySwap, HostsSwap

-----------------------------------------------------------------------------
(* Steps of the main thread that leave the commands alone *)

(* A step that moves no command keeps the invariant, if a thread it starts *)
(* has the configuration in force.                                         *)
LEMMA QuietKeeps ==
    ASSUME Inv, UNCHANGED <<pending, completed, uncompleted, cmds, orphans>>,
           UNCHANGED <<reload_in_progress, conf, freed_conf>>, TypeOK', InHand', DroveCounted',
           \A q \in Pigs :
              /\ an'[q].cur \in {None, an[q].cur}
              /\ an'[q].cur # None => an'[q].to_poke
              /\ athread'[q] => (athread[q] /\ an'[q].conf = an[q].conf) \/ an'[q].conf = conf
    PROVE  Inv'
<1>1. TypeOK /\ OnceEach /\ CommandsAlive /\ OrphansReal /\ SwapsAlive /\ UpToDate
  BY DEF Inv
<1>2. None \notin CmdIds
  BY SMTT(20) DEF None, CmdIds
<1>3. ASSUME NEW q \in Pigs
      PROVE  /\ pending'[q] = pending[q] /\ completed'[q] = completed[q]
             /\ uncompleted'[q] = uncompleted[q]
             /\ \A id \in Range(pending[q]) : id \in CmdIds
             /\ \A id \in completed[q] : id \in CmdIds
  <2>1. pending[q] \in Seq(CmdIds) /\ completed[q] \in SUBSET CmdIds
    BY <1>1 DEF TypeOK
  <2>2. \A id \in Range(pending[q]) : id \in CmdIds
    BY <2>1, RangeFacts
  <2> QED
    BY <2>1, <2>2
<1>4. OnceEach'
  <2> SUFFICES ASSUME NEW q \in Pigs
               PROVE  Apart(pending'[q], completed'[q], uncompleted'[q], an'[q])
    BY DEF OnceEach
  <2>1. Apart(pending[q], completed[q], uncompleted[q], an[q])
    BY <1>1 DEF OnceEach
  <2> QED
    BY <2>1, <1>2, <1>3, SMTT(20) DEF Apart
<1>5. CommandsAlive'
  <2>1. ASSUME NEW id \in CmdIds PROVE Cardinality(Holders(id)') <= cmds'[id].refs
    <3>1. Holders(id)' \in SUBSET Holders(id) /\ Holders(id) \in SUBSET Pigs /\ Holders(id)' \in SUBSET Pigs
      BY <1>2, <1>3, SMTT(20) DEF Holders, Unfinished
    <3>2. Cardinality(Holders(id)') <= Cardinality(Holders(id))
      BY <3>1, StillCounting DEF Counting
    <3>3. Cardinality(Holders(id)') \in Nat /\ Cardinality(Holders(id)) \in Nat
      BY <3>1, StillCounting, SMTT(20) DEF Counting
    <3>4. cmds[id].refs \in Nat /\ Cardinality(Holders(id)) <= cmds[id].refs
      BY <1>1, SMTT(20) DEF TypeOK, CommandType, CommandsAlive
    <3> QED
      BY <3>2, <3>3, <3>4, SMTT(20)
  <2> QED
    BY <2>1, <1>1 DEF CommandsAlive
<1>6. OrphansReal' /\ SwapsAlive'
  BY <1>1 DEF OrphansReal, SwapsAlive
<1>7. UpToDate'
  BY <1>1, <1>3, SMTT(20) DEF UpToDate
<1> QED
  BY <1>4, <1>5, <1>6, <1>7, StillCounting DEF Inv

(* Preparing a pig that is not there adds it to the drove. *)
LEMMA PrepFacts ==
    ASSUME Inv, NEW p \in Pigs, ~analyzer[p], Prep(p), athread' = athread
    PROVE  /\ an' \in [Pigs -> AnalyzerType] /\ analyzer' \in [Pigs -> BOOLEAN]
           /\ poke' \in Seq(Pigs) /\ poke_lost' \in BOOLEAN /\ swine' \in 0 .. MaxPigs
           /\ swine' = Cardinality({q \in Pigs : analyzer'[q]})
           /\ \A q \in Pigs : q # p => analyzer'[q] = analyzer[q]
           /\ \A q \in Pigs : athread'[q] => analyzer'[q]
           /\ \A q \in Pigs :
                 /\ an'[q].cur \in {None, an[q].cur}
                 /\ an'[q].cur # None => an'[q].to_poke
                 /\ athread'[q] => athread[q] /\ an'[q].conf = an[q].conf
<1>1. TypeOK /\ OnceEach /\ DroveCounted
  BY DEF Inv
<1>2. NewAnalyzer \in AnalyzerType /\ NewAnalyzer.cur = None
  <2>1. ExitAfter \in Nat /\ Skip \in Nat /\ SourceLen \in Nat /\ None \in Nat
    BY AnalyzerAssumption DEF None
  <2> QED
    BY <2>1 DEF NewAnalyzer, AnalyzerType, States
<1>3. poke' \in Seq(Pigs) /\ poke_lost' \in BOOLEAN
  BY <1>1, PutPokeFacts DEF Prep
<1>4. an' = [an EXCEPT ![p] = NewAnalyzer] /\ analyzer' = [analyzer EXCEPT ![p] = TRUE] /\ swine' = swine + 1
  BY DEF Prep
<1>5. /\ an \in [Pigs -> AnalyzerType] /\ analyzer \in [Pigs -> BOOLEAN]
      /\ athread \in [Pigs -> BOOLEAN] /\ swine \in 0 .. MaxPigs
  BY <1>1 DEF TypeOK
<1>6. an' \in [Pigs -> AnalyzerType] /\ analyzer' \in [Pigs -> BOOLEAN]
  BY <1>2, <1>4, <1>5
<1>7. \A q \in Pigs : an'[q] = (IF q = p THEN NewAnalyzer ELSE an[q])
                      /\ analyzer'[q] = (IF q = p THEN TRUE ELSE analyzer[q])
  BY <1>4, <1>5
<1>8. ~athread[p] /\ \A q \in Pigs : athread[q] => analyzer[q]
  BY <1>1 DEF DroveCounted
<1>9. swine' = Cardinality({q \in Pigs : analyzer'[q]}) /\ swine' \in 0 .. MaxPigs
  <2> DEFINE A == {q \in Pigs : analyzer[q]}
             B == {q \in Pigs : analyzer'[q]}
  <2>1. B = A \union {p} /\ p \notin A
    BY <1>7
  <2>2. A \in SUBSET Pigs /\ B \in SUBSET Pigs /\ swine = Cardinality(A)
    BY <1>1 DEF DroveCounted
  <2> HIDE DEF A, B
  <2>3. Cardinality(B) \in 0 .. MaxPigs
    BY <2>2, StillCounting DEF Counting
  <2>4. Cardinality(B) = Cardinality(A) + 1
    BY <2>1, <2>2, StillCounting DEF Counting
  <2>5. swine' = Cardinality(B)
    BY <2>2, <2>4, <1>4
  <2> QED
    BY <2>3, <2>5 DEF B
<1>10. \A q \in Pigs : /\ an'[q].cur \in {None, an[q].cur}
                       /\ an'[q].cur # None => an'[q].to_poke
                       /\ athread'[q] => athread[q] /\ an'[q].conf = an[q].conf
  BY <1>1, <1>2, <1>7, <1>8 DEF OnceEach, Apart
<1>11. \A q \in Pigs : athread'[q] => analyzer'[q]
  BY <1>7, <1>8
<1> QED
  BY <1>3, <1>6, <1>7, <1>9, <1>10, <1>11

(* A step that leaves the analyzers alone too. *)
LEMMA IdleKeeps ==
    ASSUME Inv, UNCHANGED <<an, pending, completed, uncompleted, cmds, orphans>>,
           UNCHANGED <<analyzer, athread, swine, reload_in_progress, conf, freed_conf>>,
           TypeOK', InHand', mloc' = "done" => swine = 0
    PROVE  Inv'
<1>1. OnceEach /\ DroveCounted
  BY DEF Inv
<1>2. DroveCounted'
  BY <1>1 DEF DroveCounted
<1>3. \A q \in Pigs : an[q].cur # None => an[q].to_poke
  BY <1>1 DEF OnceEach, Apart
<1> QED
  BY <1>2, <1>3, QuietKeeps

(* Analyzer::execute's interrupt. *)
LEMMA InterruptKeeps == ASSUME Inv, UNCHANGED privileged_start, Interrupt PROVE Inv'
<1>1. TypeOK /\ OnceEach /\ DroveCounted /\ InHand
  BY DEF Inv
<1>2. PICK p \in to_interrupt :
        /\ to_interrupt' = to_interrupt \ {p}
        /\ an' = [an EXCEPT ![p].interrupted = @ \/ an[p].state \in {"STARTED", "RUNNING", "PAUSED"}]
        /\ UNCHANGED <<pending, completed, uncompleted, cmds, poke, poke_lost, mloc, midx, pigvars,
                       confvars, uservars, trough, orphans>>
  BY DEF Interrupt
<1> DEFINE i == an[p].interrupted \/ an[p].state \in {"STARTED", "RUNNING", "PAUSED"}
           b == [an[p] EXCEPT !.interrupted = i]
<1>3. p \in Pigs /\ an \in [Pigs -> AnalyzerType] /\ an' = [an EXCEPT ![p] = b]
  BY <1>1, <1>2 DEF TypeOK
<1>4. i \in BOOLEAN
  OBVIOUS
<1> HIDE DEF i
<1>5. b \in AnalyzerType /\ b.cur = an[p].cur /\ b.to_poke = an[p].to_poke /\ b.conf = an[p].conf
  BY <1>3, <1>4, SMTT(20) DEF AnalyzerType
<1> HIDE DEF b
<1>6. TypeOK'
  <2>1. an' \in [Pigs -> AnalyzerType]
    BY <1>3, <1>5
  <2>2. UNCHANGED <<pending, completed, uncompleted, cmds, poke, poke_lost, mloc, midx, pigvars,
                    confvars, uservars, trough, orphans>> /\ to_interrupt' \subseteq to_interrupt
    BY <1>2
  <2> QED
    BY <1>1, <2>1, <2>2, SMTT(20) DEF TypeOK, pigvars, confvars, uservars
<1>7. InHand' /\ DroveCounted'
  BY <1>1, <1>2 DEF InHand, DroveCounted, pigvars
<1>8. \A q \in Pigs : /\ an'[q].cur = an[q].cur /\ an'[q].conf = an[q].conf
                      /\ an[q].cur # None => an'[q].to_poke
  BY <1>1, <1>3, <1>5 DEF OnceEach, Apart
<1>9. athread' = athread
  BY <1>2 DEF pigvars
<1> QED
  BY <1>2, <1>6, <1>7, <1>8, <1>9, QuietKeeps DEF confvars

(* The preparation of the drove in live mode. *)
LEMMA PrepAllKeeps == ASSUME Inv, UNCHANGED privileged_start, PrepAll PROVE Inv'
<1>1. TypeOK /\ OnceEach /\ DroveCounted /\ InHand
  BY DEF Inv
<1>2. midx \in Pigs /\ (\A q \in Pigs : q >= midx => ~analyzer[q]) /\ MaxPigs \in Nat \ {0}
  BY <1>1, AnalyzerAssumption DEF PrepAll, InHand
<1>3. ~analyzer[midx]
  BY <1>2, SMTT(20) DEF Pigs
<1>4. /\ mloc' \in {"loop", "prep"} /\ midx' \in Pigs \union {None}
      /\ mloc' = "prep" => midx' \in Pigs /\ midx' = midx + 1
  BY <1>2, SMTT(20) DEF PrepAll, Pigs
<1>5. UNCHANGED <<pending, completed, uncompleted, cmds, athread, awaiting, pigs_started,
                  all_pthreads_started, pending_privileges, dropped, confvars, uservars, trough,
                  orphans, to_interrupt>>
  BY DEF PrepAll
<1>6. CASE Prep(midx)
  <2>1. /\ an' \in [Pigs -> AnalyzerType] /\ analyzer' \in [Pigs -> BOOLEAN]
        /\ poke' \in Seq(Pigs) /\ poke_lost' \in BOOLEAN /\ swine' \in 0 .. MaxPigs
        /\ swine' = Cardinality({q \in Pigs : analyzer'[q]})
        /\ \A q \in Pigs : q # midx => analyzer'[q] = analyzer[q]
        /\ \A q \in Pigs : athread'[q] => analyzer'[q]
        /\ \A q \in Pigs :
              /\ an'[q].cur \in {None, an[q].cur}
              /\ an'[q].cur # None => an'[q].to_poke
              /\ athread'[q] => athread[q] /\ an'[q].conf = an[q].conf
    BY <1>2, <1>3, <1>5, <1>6, PrepFacts
  <2>2. TypeOK'
    BY <1>1, <1>4, <1>5, <2>1 DEF TypeOK, confvars, uservars
  <2>3. InHand'
    <3>1. ASSUME mloc' = "prep", NEW q \in Pigs, q >= midx' PROVE ~analyzer'[q]
      <4>1. q # midx /\ q >= midx
        BY <3>1, <1>2, <1>4, SMTT(20) DEF Pigs
      <4> QED
        BY <4>1, <1>2, <2>1
    <3> QED
      BY <3>1, <1>4 DEF InHand
  <2>4. DroveCounted'
    BY <1>4, <2>1 DEF DroveCounted
  <2> QED
    BY <1>5, <2>1, <2>2, <2>3, <2>4, QuietKeeps DEF confvars
<1>7. CASE UNCHANGED <<an, analyzer, poke, poke_lost, swine>>
  <2>1. TypeOK'
    BY <1>1, <1>4, <1>5, <1>7 DEF TypeOK, confvars, uservars
  <2>2. InHand'
    BY <1>2, <1>4, <1>7, SMTT(20) DEF InHand, Pigs
  <2> QED
    BY <1>4, <1>5, <1>7, <2>1, <2>2, IdleKeeps DEF confvars
<1> QED
  BY <1>6, <1>7 DEF PrepAll

(* Reading a notification, and the notifications that change no analyzer. *)
LEMMA LoopStepsKeep ==
    ASSUME Inv, UNCHANGED privileged_start,
           MainRead \/ HandleGone \/ HandleOther \/ AfterHandle \/ LoopExit
    PROVE  Inv'
<1>1. TypeOK /\ InHand
  BY DEF Inv
<1>2. CASE MainRead
  <2>1. Head(poke) \in Pigs /\ Tail(poke) \in Seq(Pigs)
    BY <1>1, <1>2, TailFacts DEF MainRead, TypeOK
  <2>2. TypeOK' /\ InHand'
    BY <1>1, <1>2, <2>1, SMTT(20) DEF MainRead, TypeOK, InHand, pigvars, confvars, uservars
  <2> QED
    BY <1>2, <2>2, IdleKeeps DEF MainRead, pigvars, confvars
<1>3. CASE HandleGone
  <2>1. pending_privileges' \in 0 .. MaxPigs
    <3>1. pending_privileges \in 0 .. MaxPigs /\ MaxPigs \in Nat
      BY <1>1, AnalyzerAssumption DEF TypeOK
    <3>2. pending_privileges' = IF pending_privileges > 0 THEN pending_privileges - 1 ELSE 0
      BY <1>3 DEF HandleGone
    <3> QED
      BY <3>1, <3>2, SMTT(20)
  <2>2. TypeOK' /\ InHand'
    BY <1>1, <1>3, <2>1 DEF HandleGone, TypeOK, InHand, anvars, confvars, uservars
  <2> QED
    BY <1>3, <2>2, IdleKeeps DEF HandleGone, anvars, confvars
<1>4. CASE HandleOther
  <2>1. TypeOK' /\ InHand'
    BY <1>1, <1>4 DEF HandleOther, TypeOK, InHand, anvars, pigvars, confvars, uservars
  <2> QED
    BY <1>4, <2>1, IdleKeeps DEF HandleOther, anvars, pigvars, confvars
<1>5. CASE AfterHandle
  <2>1. TypeOK' /\ InHand'
    BY <1>1, <1>5 DEF AfterHandle, TypeOK, InHand, anvars, confvars, uservars
  <2> QED
    BY <1>5, <2>1, IdleKeeps DEF AfterHandle, anvars, confvars
<1>6. CASE LoopExit
  <2>1. TypeOK' /\ InHand'
    BY <1>1, <1>6 DEF LoopExit, TypeOK, InHand, anvars, pigvars, confvars, uservars
  <2>2. swine = 0
    BY <1>1, <1>6, SMTT(20) DEF LoopExit, KeepGoing, TypeOK
  <2> QED
    BY <1>6, <2>1, <2>2, IdleKeeps DEF LoopExit, anvars, pigvars, confvars
<1> QED
  BY <1>2, <1>3, <1>4, <1>5, <1>6

(* Pig::start gives the thread the configuration in force. *)
LEMMA HandleNewKeeps == ASSUME Inv, UNCHANGED privileged_start, HandleNew PROVE Inv'
<1>1. TypeOK /\ OnceEach /\ InHand /\ DroveCounted /\ midx \in Pigs /\ analyzer[midx]
  BY DEF Inv, InHand, HandleNew
<1> DEFINE b == [an[midx] EXCEPT !.pc = "init", !.conf = conf, !.attribs = attribs]
<1>2. /\ an' = [an EXCEPT ![midx] = b] /\ athread' = [athread EXCEPT ![midx] = TRUE]
      /\ an \in [Pigs -> AnalyzerType] /\ athread \in [Pigs -> BOOLEAN]
      /\ conf \in Nat /\ attribs \in Nat
  BY <1>1 DEF HandleNew, PigStart, TypeOK
<1>3. b \in AnalyzerType /\ b.cur = an[midx].cur /\ b.to_poke = an[midx].to_poke /\ b.conf = conf
  BY <1>1, <1>2 DEF AnalyzerType
<1> HIDE DEF b
<1>4. an' \in [Pigs -> AnalyzerType] /\ athread' \in [Pigs -> BOOLEAN]
  BY <1>2, <1>3
<1>5. /\ UNCHANGED <<pending, completed, uncompleted, cmds, poke, poke_lost, orphans, to_interrupt, confvars>>
      /\ UNCHANGED <<midx, analyzer, awaiting, pigs_started, all_pthreads_started, swine,
                     pending_privileges, dropped, uservars, trough>>
      /\ mloc' = "post"
  BY DEF HandleNew, PigStart
<1>6. TypeOK' /\ InHand'
  BY <1>1, <1>4, <1>5, SMTT(20) DEF TypeOK, InHand, confvars, uservars
<1>7. \A q \in Pigs : an'[q] = (IF q = midx THEN b ELSE an[q])
                      /\ athread'[q] = (IF q = midx THEN TRUE ELSE athread[q])
  BY <1>2
<1>8. DroveCounted'
  BY <1>1, <1>5, <1>7 DEF DroveCounted
<1>9. \A q \in Pigs :
        /\ an'[q].cur = an[q].cur
        /\ an'[q].cur # None => an'[q].to_poke
        /\ athread'[q] => (athread[q] /\ an'[q].conf = an[q].conf) \/ an'[q].conf = conf
  BY <1>1, <1>3, <1>7 DEF OnceEach, Apart
<1> QED
  BY <1>5, <1>6, <1>8, <1>9, QuietKeeps DEF confvars

(* The loop without a notification to handle. *)
LEMMA MainIdleKeeps == ASSUME Inv, UNCHANGED privileged_start, MainIdle PROVE Inv'
<1>1. TypeOK /\ OnceEach /\ DroveCounted /\ InHand
  BY DEF Inv
<1>2. /\ mloc' \in {"loop", "service"}
      /\ UNCHANGED <<pending, completed, uncompleted, cmds, midx, athread, awaiting, pigs_started,
                     pending_privileges, dropped, confvars, uservars, orphans, to_interrupt>>
  BY DEF MainIdle
<1>3. all_pthreads_started' \in BOOLEAN
  BY DEF MainIdle, AllStarted
<1>4. trough' \in Nat
  BY <1>1, SMTT(20) DEF MainIdle, TypeOK
<1>5. CASE UNCHANGED <<an, analyzer, poke, poke_lost, swine>>
  <2>1. TypeOK' /\ InHand'
    BY <1>1, <1>2, <1>3, <1>4, <1>5 DEF TypeOK, InHand, confvars, uservars
  <2> QED
    BY <1>2, <1>5, <2>1, IdleKeeps DEF confvars
<1>6. CASE \E p \in Pigs : LazyPig(p) /\ Prep(p)
  <2>1. PICK p \in Pigs : ~analyzer[p] /\ Prep(p)
    BY <1>6 DEF LazyPig
  <2>2. /\ an' \in [Pigs -> AnalyzerType] /\ analyzer' \in [Pigs -> BOOLEAN]
        /\ poke' \in Seq(Pigs) /\ poke_lost' \in BOOLEAN /\ swine' \in 0 .. MaxPigs
        /\ swine' = Cardinality({q \in Pigs : analyzer'[q]})
        /\ \A q \in Pigs : athread'[q] => analyzer'[q]
        /\ \A q \in Pigs :
              /\ an'[q].cur \in {None, an[q].cur}
              /\ an'[q].cur # None => an'[q].to_poke
              /\ athread'[q] => athread[q] /\ an'[q].conf = an[q].conf
    BY <1>2, <2>1, PrepFacts
  <2>3. TypeOK' /\ InHand' /\ DroveCounted'
    BY <1>1, <1>2, <1>3, <1>4, <2>2 DEF TypeOK, InHand, DroveCounted, confvars, uservars
  <2> QED
    BY <1>2, <2>2, <2>3, QuietKeeps DEF confvars
<1> QED
  BY <1>5, <1>6 DEF MainIdle

-----------------------------------------------------------------------------
(* Sending commands *)

(* queue_command to the pigs of D: the new command is with the pigs its    *)
(* references stand for and with nobody else, since a dead object is with  *)
(* nobody.                                                                 *)
LEMMA SendFacts ==
    ASSUME Inv, NEW id \in CmdIds, NEW c \in CommandType, c.kind # "none",
           NEW D \in SUBSET Pigs, Send(id, c, D)
    PROVE  /\ cmds' \in [CmdIds -> CommandType] /\ pending' \in [Pigs -> Seq(CmdIds)]
           /\ to_interrupt' \subseteq Pigs /\ orphans' \subseteq CmdIds
           /\ OnceEach' /\ CommandsAlive' /\ OrphansReal'
           /\ \A jd \in CmdIds : jd # id => cmds'[jd] = cmds[jd]
           /\ cmds'[id].kind = c.kind /\ cmds'[id].old_conf = c.old_conf /\ cmds'[id].new_conf = c.new_conf
           /\ cmds[id].kind = "none"
           /\ \A p \in Pigs : Range(pending[p]) \subseteq Range(pending'[p])
           /\ \A p \in D : HasThread(p) => id \in Range(pending'[p])
           /\ UNCHANGED <<an, completed, uncompleted, poke, poke_lost>>
<1> DEFINE to == {p \in D : HasThread(p)}
           n == Cardinality(to)
           e == [c EXCEPT !.refs = n]
<1>1. TypeOK /\ OnceEach /\ CommandsAlive /\ OrphansReal
  BY DEF Inv
<1>2. /\ cmds[id] = Dead /\ cmds' = [cmds EXCEPT ![id] = e]
      /\ pending' = [p \in Pigs |-> IF p \in to THEN Append(pending[p], id) ELSE pending[p]]
      /\ to_interrupt' = to
      /\ orphans' = IF to = {} THEN orphans \union {id} ELSE orphans
      /\ UNCHANGED <<an, completed, uncompleted, poke, poke_lost>>
  BY DEF Send
<1>3. to \in SUBSET Pigs /\ n \in 0 .. MaxPigs
  BY StillCounting DEF Counting
<1>4. /\ e \in CommandType /\ e.refs = n /\ e.kind = c.kind
      /\ e.old_conf = c.old_conf /\ e.new_conf = c.new_conf
  BY <1>3 DEF CommandType
<1>5. Dead.refs = 0 /\ Dead.kind = "none"
  BY DEF Dead, Command
<1> HIDE DEF e, n
<1>6. /\ cmds' \in [CmdIds -> CommandType] /\ cmds'[id] = e
      /\ \A jd \in CmdIds : jd # id => cmds'[jd] = cmds[jd]
  BY <1>1, <1>2, <1>4 DEF TypeOK
<1>7. Holders(id) = {}
  <2>1. Cardinality(Holders(id)) <= 0
    BY <1>1, <1>2, <1>5 DEF CommandsAlive
  <2>2. Holders(id) \in SUBSET Pigs
    BY DEF Holders
  <2>3. Cardinality(Holders(id)) \in 0 .. MaxPigs
    BY <2>2, StillCounting DEF Counting
  <2>4. Cardinality(Holders(id)) = 0
    BY <2>1, <2>3, SMTT(20)
  <2> QED
    BY <2>2, <2>4, StillCounting DEF Counting
<1>8. \A p \in Pigs : id \notin Range(pending[p]) /\ id \notin completed[p] /\ id \notin Unfinished(p)
                      /\ an[p].cur # id
  BY <1>7 DEF Holders
<1>9. ASSUME NEW p \in Pigs
      PROVE  /\ pending[p] \in Seq(CmdIds) /\ pending'[p] \in Seq(CmdIds) /\ OneTime(pending'[p])
             /\ Range(pending'[p]) = IF p \in to THEN Range(pending[p]) \union {id} ELSE Range(pending[p])
  <2>1. pending[p] \in Seq(CmdIds) /\ OneTime(pending[p])
    BY <1>1 DEF TypeOK, OnceEach, Apart
  <2>2. pending'[p] = IF p \in to THEN Append(pending[p], id) ELSE pending[p]
    BY <1>2
  <2> HIDE DEF to
  <2>3. /\ Append(pending[p], id) \in Seq(CmdIds) /\ OneTime(Append(pending[p], id))
        /\ Range(Append(pending[p], id)) = Range(pending[p]) \union {id}
    BY <2>1, <1>8, AppendFacts
  <2> QED
    BY <2>1, <2>2, <2>3
<1>10. pending' \in [Pigs -> Seq(CmdIds)]
  BY <1>2, <1>9
<1> HIDE DEF to
<1>11. OnceEach'
  <2> SUFFICES ASSUME NEW p \in Pigs
               PROVE  Apart(pending'[p], completed[p], uncompleted[p], an[p])
    BY <1>2 DEF OnceEach
  <2>1. Apart(pending[p], completed[p], uncompleted[p], an[p])
    BY <1>1 DEF OnceEach
  <2>2. uncompleted[p][id] = 0
    BY <1>1, <1>8, SMTT(20) DEF TypeOK, Unfinished
  <2>3. ASSUME NEW jd \in Range(pending'[p])
        PROVE  jd \notin completed[p] /\ uncompleted[p][jd] = 0 /\ an[p].cur # jd
    BY <2>1, <2>2, <2>3, <1>8, <1>9 DEF Apart
  <2> QED
    BY <2>1, <2>3, <1>9 DEF Apart
<1>12. ASSUME NEW jd \in CmdIds PROVE Cardinality(Holders(jd)') <= cmds'[jd].refs
  <2>1. Holders(jd)' = IF jd = id THEN to ELSE Holders(jd)
    <3>1. \A p \in Pigs : /\ completed'[p] = completed[p] /\ Unfinished(p)' = Unfinished(p) /\ an'[p] = an[p]
                          /\ id \notin completed[p] /\ id \notin Unfinished(p) /\ an[p].cur # id
                          /\ jd \in Range(pending'[p]) <=>
                                jd \in Range(pending[p]) \/ (jd = id /\ p \in to)
      BY <1>2, <1>8, <1>9 DEF Unfinished
    <3>2. CASE jd = id
      BY <3>1, <3>2, <1>3, <1>8 DEF Holders
    <3>3. CASE jd # id
      BY <3>1, <3>3 DEF Holders
    <3> QED
      BY <3>2, <3>3
  <2>2. CASE jd = id
    BY <2>1, <2>2, <1>3, <1>4, <1>6, SMTT(20) DEF n
  <2>3. CASE jd # id
    BY <2>1, <2>3, <1>1, <1>6 DEF CommandsAlive
  <2> QED
    BY <2>2, <2>3
<1>13. ASSUME NEW jd \in orphans'
       PROVE  jd \in CmdIds /\ cmds'[jd].kind # "none" /\ cmds'[jd] # Dead /\ cmds'[jd].refs = 0
  <2>1. CASE jd = id
    <3>1. id \notin orphans
      BY <1>1, <1>2 DEF CommandsAlive
    <3>2. to = {}
      BY <2>1, <3>1, <1>2, <1>13
    <3>3. n = 0
      BY <3>2, StillCounting DEF n, Counting
    <3> QED
      BY <2>1, <3>3, <1>4, <1>5, <1>6
  <2>2. CASE jd # id
    <3>1. jd \in orphans
      BY <2>2, <1>2, <1>13
    <3> QED
      BY <3>1, <2>2, <1>1, <1>6 DEF CommandsAlive, OrphansReal, TypeOK
  <2> QED
    BY <2>1, <2>2
<1>14. CommandsAlive' /\ OrphansReal'
  BY <1>12, <1>13 DEF CommandsAlive, OrphansReal
<1>15. \A p \in D : HasThread(p) => id \in Range(pending'[p])
  BY <1>3, <1>9 DEF to
<1> QED
  BY <1>2, <1>3, <1>4, <1>5, <1>6, <1>9, <1>10, <1>11, <1>13, <1>14, <1>15

(* The types of what sending a command leaves alone. *)
OwnTypes ==
    /\ mloc \in {"prep", "loop", "handle", "post", "service", "shell", "reap", "done"}
    /\ midx \in Pigs \union {None}
    /\ analyzer \in [Pigs -> BOOLEAN] /\ athread \in [Pigs -> BOOLEAN]
    /\ awaiting \in [Pigs -> BOOLEAN] /\ pigs_started \in [Pigs -> BOOLEAN]
    /\ privileged_start \in BOOLEAN
    /\ all_pthreads_started \in BOOLEAN /\ dropped \in BOOLEAN /\ paused \in BOOLEAN
    /\ exit_requested \in BOOLEAN /\ reload_in_progress \in BOOLEAN
    /\ swine \in 0 .. MaxPigs /\ pending_privileges \in 0 .. MaxPigs
    /\ trough \in Nat /\ given \in 0 .. MaxConsole
    /\ conf \in Nat /\ attribs \in Nat /\ last_attribs \in Nat
    /\ freed_conf \subseteq Nat /\ freed_attribs \subseteq Nat

(* A command other than a swap. *)
LEMMA SendKeeps ==
    ASSUME Inv, NEW id \in CmdIds, NEW c \in CommandType, c.kind \notin {"none", "swap"},
           c.new_conf = None, NEW D \in SUBSET Pigs, Send(id, c, D),
           UNCHANGED <<confvars, analyzer, athread, swine>>, OwnTypes', InHand', mloc' # "done"
    PROVE  Inv'
<1>1. TypeOK /\ DroveCounted /\ SwapsAlive /\ UpToDate
  BY DEF Inv
<1>2. /\ cmds' \in [CmdIds -> CommandType] /\ pending' \in [Pigs -> Seq(CmdIds)]
      /\ to_interrupt' \subseteq Pigs /\ orphans' \subseteq CmdIds
      /\ OnceEach' /\ CommandsAlive' /\ OrphansReal'
      /\ \A jd \in CmdIds : jd # id => cmds'[jd] = cmds[jd]
      /\ cmds'[id].kind = c.kind /\ cmds'[id].old_conf = c.old_conf /\ cmds'[id].new_conf = c.new_conf
      /\ cmds[id].kind = "none"
      /\ \A p \in Pigs : Range(pending[p]) \subseteq Range(pending'[p])
      /\ UNCHANGED <<an, completed, uncompleted, poke, poke_lost>>
  BY SendFacts
<1>3. TypeOK'
  BY <1>1, <1>2 DEF TypeOK, OwnTypes
<1>4. DroveCounted'
  BY <1>1 DEF DroveCounted
<1>5. SwapsAlive'
  BY <1>1, <1>2 DEF SwapsAlive, confvars
<1>6. UpToDate'
  <2> SUFFICES ASSUME NEW p \in Pigs, athread[p]
               PROVE  \/ an[p].conf = conf
                      \/ \E jd \in Range(pending'[p]) : cmds'[jd].kind = "swap"
                            /\ cmds'[jd].new_conf = conf /\ cmds'[jd].old_conf = an[p].conf
    BY <1>2 DEF UpToDate, confvars
  <2>1. CASE an[p].conf # conf
    <3>1. PICK jd \in Range(pending[p]) :
            cmds[jd].kind = "swap" /\ cmds[jd].new_conf = conf /\ cmds[jd].old_conf = an[p].conf
      BY <2>1, <1>1 DEF UpToDate
    <3>2. pending[p] \in Seq(CmdIds)
      BY <1>1 DEF TypeOK
    <3>3. jd \in CmdIds /\ jd # id /\ jd \in Range(pending'[p])
      <4>1. jd \in CmdIds
        BY <3>1, <3>2, RangeFacts
      <4> QED
        BY <4>1, <3>1, <1>2
    <3> QED
      BY <3>1, <3>3, <1>2
  <2> QED
    BY <2>1
<1> QED
  BY <1>2, <1>3, <1>4, <1>5, <1>6, StillCounting DEF Inv

(* The START and RUN of handle(), at once or when the privileges are       *)
(* dropped.                                                                *)
LEMMA AdvanceKeeps ==
    ASSUME Inv, UNCHANGED privileged_start, NEW wait \in BOOLEAN, NEW id \in CmdIds,
           NEW c \in CommandType, c.kind \in {"start", "run"}, c.new_conf = None,
           mloc = "handle", mloc' = "post", Advance(wait, id, c),
           UNCHANGED <<midx, analyzer, athread, pigs_started, all_pthreads_started, swine, confvars,
                       uservars, trough>>
    PROVE  Inv'
<1>1. TypeOK /\ InHand /\ midx \in Pigs
  BY DEF Inv, InHand
<1>2. InHand' /\ MaxPigs \in Nat
  BY <1>1, AnalyzerAssumption DEF InHand
<1>3. CASE wait /\ pending_privileges > 0 /\ ~dropped
  <2> DEFINE left == IF awaiting[midx] THEN pending_privileges ELSE pending_privileges - 1
  <2>1. /\ awaiting' = [awaiting EXCEPT ![midx] = TRUE] /\ pending_privileges' = left
        /\ IF left > 0 THEN UNCHANGED <<anvars, orphans, to_interrupt, dropped>>
                       ELSE dropped' = TRUE /\ Broadcast(id, c)
    BY <1>3 DEF Advance
  <2>2. left \in 0 .. MaxPigs
    BY <1>1, <1>2, <1>3, SMTT(20) DEF TypeOK
  <2> HIDE DEF left
  <2>3. CASE left > 0
    <3>1. TypeOK'
      BY <1>1, <2>1, <2>2, <2>3 DEF TypeOK, anvars, confvars, uservars
    <3> QED
      BY <1>2, <2>1, <2>3, <3>1, IdleKeeps DEF anvars, confvars
  <2>4. CASE ~(left > 0)
    <3>1. OwnTypes'
      BY <1>1, <2>1, <2>2, <2>4 DEF TypeOK, OwnTypes, confvars, uservars
    <3>2. Send(id, c, Pigs)
      BY <2>1, <2>4 DEF Broadcast
    <3> QED
      BY <1>2, <3>1, <3>2, SendKeeps
  <2> QED
    BY <2>3, <2>4
<1>4. CASE ~(wait /\ pending_privileges > 0 /\ ~dropped)
  <2>1. Send(id, c, {midx}) /\ UNCHANGED <<awaiting, pending_privileges, dropped>>
    BY <1>4 DEF Advance
  <2>2. OwnTypes'
    BY <1>1, <2>1 DEF TypeOK, OwnTypes, confvars, uservars
  <2>3. {midx} \in SUBSET Pigs
    BY <1>1
  <2> QED
    BY <1>2, <2>1, <2>2, <2>3, SendKeeps
<1> QED
  BY <1>3, <1>4

(* The notifications INITIALIZED and STARTED. *)
LEMMA HandleAdvanceKeeps ==
    ASSUME Inv, UNCHANGED privileged_start, HandleInitialized \/ HandleStarted
    PROVE  Inv'
<1>1. TypeOK /\ midx \in Pigs
  BY DEF Inv, InHand, HandleInitialized, HandleStarted
<1>2. privileged_start \in BOOLEAN
  BY <1>1 DEF TypeOK
<1>3. CASE HandleInitialized
  <2> DEFINE c == Command("start", 0, 0)
  <2>1. c \in CommandType /\ c.kind = "start" /\ c.new_conf = None /\ StartId(midx) \in CmdIds
    BY <1>1, CommandFacts
  <2> HIDE DEF c
  <2>2. /\ mloc = "handle" /\ mloc' = "post" /\ Advance(privileged_start, StartId(midx), c)
        /\ UNCHANGED <<midx, analyzer, athread, pigs_started, all_pthreads_started, swine, confvars,
                       uservars, trough>>
    BY <1>3 DEF HandleInitialized, c
  <2> QED
    BY <1>2, <2>1, <2>2, AdvanceKeeps
<1>4. CASE HandleStarted
  <2> DEFINE c == Command("run", 0, IF paused THEN 1 ELSE 0)
  <2>1. c \in CommandType /\ c.kind = "run" /\ c.new_conf = None /\ RunId(midx) \in CmdIds
    BY <1>1, CommandFacts
  <2> HIDE DEF c
  <2>2. /\ mloc = "handle" /\ mloc' = "post" /\ Advance(~privileged_start, RunId(midx), c)
        /\ UNCHANGED <<midx, analyzer, athread, pigs_started, all_pthreads_started, swine, confvars,
                       uservars, trough>>
    BY <1>4 DEF HandleStarted, c
  <2>3. (~privileged_start) \in BOOLEAN
    BY <1>2
  <2> QED
    BY <2>1, <2>2, <2>3, AdvanceKeeps
<1> QED
  BY <1>3, <1>4

(* A swap, sent when none is alive: every thread has the configuration in  *)
(* force, which becomes the one before.                                    *)
LEMMA SendSwapKeeps ==
    ASSUME Inv, ~reload_in_progress, reload_in_progress' = TRUE,
           NEW id \in CmdIds, NEW c \in CommandType, c.kind = "swap", Send(id, c, Pigs),
           UNCHANGED <<analyzer, athread, swine, freed_conf>>, OwnTypes', InHand', mloc' # "done",
           \/ conf' = conf /\ c.new_conf = None /\ c.old_conf = None
           \/ conf' = conf + 1 /\ c.new_conf = conf + 1 /\ c.old_conf = conf
    PROVE  Inv'
<1>1. TypeOK /\ DroveCounted /\ SwapsAlive /\ UpToDate
  BY DEF Inv
<1>2. /\ cmds' \in [CmdIds -> CommandType] /\ pending' \in [Pigs -> Seq(CmdIds)]
      /\ to_interrupt' \subseteq Pigs /\ orphans' \subseteq CmdIds
      /\ OnceEach' /\ CommandsAlive' /\ OrphansReal'
      /\ \A jd \in CmdIds : jd # id => cmds'[jd] = cmds[jd]
      /\ cmds'[id].kind = c.kind /\ cmds'[id].old_conf = c.old_conf /\ cmds'[id].new_conf = c.new_conf
      /\ \A p \in Pigs : HasThread(p) => id \in Range(pending'[p])
      /\ UNCHANGED <<an, completed, uncompleted, poke, poke_lost>>
  <2>1. c.kind # "none" /\ Pigs \in SUBSET Pigs
    OBVIOUS
  <2> QED
    BY <2>1, SendFacts
<1>3. TypeOK'
  BY <1>1, <1>2 DEF TypeOK, OwnTypes
<1>4. DroveCounted'
  BY <1>1 DEF DroveCounted
<1>5. \A jd \in CmdIds : cmds[jd].kind # "swap" /\ cmds[jd].new_conf = None
  BY <1>1 DEF SwapsAlive
<1>6. \A p \in Pigs : athread[p] => an[p].conf = conf /\ HasThread(p)
  <2> SUFFICES ASSUME NEW p \in Pigs, athread[p] PROVE an[p].conf = conf /\ HasThread(p)
    OBVIOUS
  <2>1. \A jd \in Range(pending[p]) : jd \in CmdIds
    <3>1. pending[p] \in Seq(CmdIds)
      BY <1>1 DEF TypeOK
    <3> QED
      BY <3>1, RangeFacts
  <2> QED
    BY <2>1, <1>1, <1>5 DEF UpToDate, DroveCounted, HasThread
<1>7. SwapsAlive'
  <2>1. conf \in Nat \ {0} /\ freed_conf \subseteq 1 .. conf - 1
    BY <1>1 DEF SwapsAlive
  <2>2. conf' \in Nat \ {0} /\ freed_conf' \subseteq 1 .. conf' - 1
    BY <2>1, SMTT(20)
  <2>3. c.new_conf \in {None, conf'} /\ c.old_conf \in {None} \union ((1 .. conf' - 1) \ freed_conf')
    BY <2>1, SMTT(20)
  <2> QED
    BY <2>2, <2>3, <1>2, <1>5 DEF SwapsAlive
<1>8. UpToDate'
  <2> SUFFICES ASSUME NEW p \in Pigs, athread[p]
               PROVE  \/ an[p].conf = conf'
                      \/ \E jd \in Range(pending'[p]) : cmds'[jd].kind = "swap"
                            /\ cmds'[jd].new_conf = conf' /\ cmds'[jd].old_conf = an[p].conf
    BY <1>2 DEF UpToDate
  <2> QED
    BY <1>2, <1>6
<1> QED
  BY <1>2, <1>3, <1>4, <1>7, <1>8, StillCounting DEF Inv

(* What a user or a signal asks for. *)
LEMMA ServeKeeps ==
    ASSUME Inv, UNCHANGED privileged_start, NEW k, Serve(k), mloc' \in {"shell", "reap"}
    PROVE  Inv'
<1>1. TypeOK /\ InHand /\ SwapsAlive
  BY DEF Inv
<1>2. /\ given < MaxConsole /\ given' = given + 1 /\ UserCommand(k)
      /\ UNCHANGED <<midx, pigvars, trough>>
  BY DEF Serve
<1>3. InHand' /\ mloc' # "done" /\ MaxConsole \in Nat /\ given' \in 0 .. MaxConsole /\ given + 1 \in CmdIds
  <2>1. MaxConsole \in Nat /\ given \in 0 .. MaxConsole
    BY <1>1, AnalyzerAssumption DEF TypeOK
  <2>2. given' \in 0 .. MaxConsole
    BY <2>1, <1>2, SMTT(20)
  <2> QED
    BY <2>1, <2>2, <1>2, CommandFacts DEF InHand
<1>4. ASSUME paused' \in BOOLEAN, exit_requested' \in BOOLEAN, UNCHANGED confvars
      PROVE  OwnTypes'
  BY <1>1, <1>2, <1>3, <1>4 DEF TypeOK, OwnTypes, pigvars, confvars
<1>5. ASSUME NEW kind \in {"pause", "resume", "stop", "other"}, NEW arg \in {0, 1},
             Broadcast(given + 1, Command(kind, 0, arg)),
             paused' \in BOOLEAN, exit_requested' \in BOOLEAN, UNCHANGED confvars
      PROVE  Inv'
  <2> DEFINE c == Command(kind, 0, arg)
  <2>1. c \in CommandType /\ c.kind = kind /\ c.new_conf = None
    BY CommandFacts
  <2>2. Send(given + 1, c, Pigs)
    BY <1>5 DEF Broadcast
  <2>3. OwnTypes' /\ UNCHANGED <<confvars, analyzer, athread, swine>>
    BY <1>2, <1>4, <1>5 DEF pigvars
  <2> HIDE DEF c
  <2>4. c.kind \notin {"none", "swap"}
    BY <2>1
  <2> QED
    BY <1>3, <2>1, <2>2, <2>3, <2>4, SendKeeps
<1>6. CASE Refused
  <2>1. TypeOK'
    BY <1>1, <1>2, <1>3, <1>6 DEF Refused, TypeOK, anvars, pigvars, confvars
  <2> QED
    BY <1>2, <1>3, <1>6, <2>1, IdleKeeps DEF Refused, anvars, pigvars, confvars
<1>7. ASSUME ~reload_in_progress, NEW c \in CommandType, c.kind = "swap", SendSwap(c),
             attribs' \in Nat, last_attribs' \in Nat,
             \/ conf' = conf /\ c.new_conf = None /\ c.old_conf = None
             \/ conf' = conf + 1 /\ c.new_conf = conf + 1 /\ c.old_conf = conf
      PROVE  Inv'
  <2>1. /\ Send(given + 1, c, Pigs) /\ reload_in_progress' = TRUE
        /\ UNCHANGED <<paused, exit_requested, freed_conf, freed_attribs>>
    BY <1>7 DEF SendSwap, Broadcast
  <2>2. conf' \in Nat
    BY <1>1, <1>7, SMTT(20) DEF TypeOK
  <2>3. OwnTypes'
    BY <1>1, <1>2, <1>3, <1>7, <2>1, <2>2 DEF TypeOK, OwnTypes, pigvars
  <2>4. UNCHANGED <<analyzer, athread, swine, freed_conf>>
    BY <1>2, <2>1 DEF pigvars
  <2> QED
    BY <1>3, <1>7, <2>1, <2>3, <2>4, SendSwapKeeps
<1>9. conf \in Nat /\ attribs \in Nat /\ last_attribs \in Nat /\ None \in Nat
  BY <1>1 DEF TypeOK, None

<1>10. CASE UserReloadConfig
  <2>1. CASE ~Refused
    <3>1. PICK loaded \in HostTables : LET table == IF loaded THEN last_attribs + 1 ELSE None IN
             /\ conf' = conf + 1
             /\ attribs' = table
             /\ last_attribs' = IF table # None THEN table ELSE last_attribs
             /\ SendSwap([Command("swap", 0, 0) EXCEPT
                   !.old_conf = conf, !.new_conf = conf + 1,
                   !.old_attribs = attribs, !.new_attribs = table])
      BY <1>10, <2>1 DEF UserReloadConfig
    <3> DEFINE table == IF loaded THEN last_attribs + 1 ELSE None
               c == ConfigSwap(conf, conf + 1, attribs, table)
    <3>2. conf' = conf + 1 /\ attribs' = table /\ SendSwap(c)
          /\ last_attribs' = IF table # None THEN table ELSE last_attribs
      BY <3>1 DEF ConfigSwap
    <3>3. table \in Nat /\ conf + 1 \in Nat
      BY <1>9, SMTT(20)
    <3> HIDE DEF table
    <3>4. c \in CommandType /\ c.kind = "swap" /\ c.old_conf = conf /\ c.new_conf = conf + 1
      BY <1>9, <3>3, SwapFacts, SMTT(20)
    <3> HIDE DEF c
    <3>5. ~reload_in_progress /\ attribs' \in Nat /\ last_attribs' \in Nat
      BY <1>9, <1>10, <2>1, <3>2, <3>3 DEF UserReloadConfig
    <3> QED
      BY <1>7, <3>2, <3>4, <3>5
  <2> QED
    BY <1>6, <2>1
<1>11. CASE UserReloadPolicy
  <2>1. CASE ~Refused
    <3> DEFINE c == PolicySwap(conf, conf + 1)
    <3>1. /\ ~reload_in_progress /\ conf' = conf + 1 /\ UNCHANGED <<attribs, last_attribs>> /\ SendSwap(c)
      BY <1>11, <2>1 DEF UserReloadPolicy, PolicySwap
    <3>2. c \in CommandType /\ c.kind = "swap" /\ c.old_conf = conf /\ c.new_conf = conf + 1
      <4>1. conf + 1 \in Nat
        BY <1>9, SMTT(20)
      <4> QED
        BY <4>1, <1>9, SwapFacts, SMTT(20)
    <3> HIDE DEF c
    <3> QED
      BY <1>7, <1>9, <3>1, <3>2
  <2> QED
    BY <1>6, <2>1
<1>12. CASE UserReloadHosts
  <2> DEFINE c == HostsSwap(attribs, last_attribs + 1)
  <2>1. CASE ~reload_in_progress /\ attribs' = last_attribs + 1 /\ last_attribs' = last_attribs + 1
             /\ UNCHANGED conf /\ SendSwap(c)
    <3>1. c \in CommandType /\ c.kind = "swap" /\ c.old_conf = None /\ c.new_conf = None
      <4>1. last_attribs + 1 \in Nat
        BY <1>9, SMTT(20)
      <4> QED
        BY <4>1, <1>9, SwapFacts, SMTT(20)
    <3> HIDE DEF c
    <3>2. attribs' \in Nat /\ last_attribs' \in Nat
      BY <1>9, <2>1, SMTT(20)
    <3> QED
      BY <1>7, <2>1, <3>1, <3>2
  <2>2. CASE attribs' = None /\ UNCHANGED <<anvars, orphans, to_interrupt, paused, exit_requested,
                                            reload_in_progress, conf, freed_conf, freed_attribs, last_attribs>>
    <3>1. TypeOK'
      BY <1>1, <1>2, <1>3, <1>9, <2>2 DEF TypeOK, anvars, pigvars
    <3> QED
      BY <1>2, <1>3, <2>2, <3>1, IdleKeeps DEF anvars, pigvars
  <2> QED
    BY <1>6, <1>12, <2>1, <2>2 DEF UserReloadHosts, HostsSwap
<1>13. CASE UserPause \/ UserResume(0) \/ UserResume(1) \/ UserQuit \/ UserOther
  BY <1>1, <1>5, <1>13 DEF UserPause, UserResume, UserQuit, UserOther, TypeOK
<1> QED
  BY <1>2, <1>10, <1>11, <1>12, <1>13 DEF UserCommand
=============================================================================
