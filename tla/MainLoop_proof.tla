--------------------------- MODULE MainLoop_proof ---------------------------
(***************************************************************************)
(* The steps of the main thread keep the invariant, those that delete      *)
(* commands included, and with it the theorems about MainLoop for any      *)
(* number of pigs, commands, files and configurations.                     *)
(***************************************************************************)
EXTENDS Life_proof, FiniteSetTheorems

USE ZenonT(30)

-----------------------------------------------------------------------------
(* Reaping commands *)

(* Reaping from pigs what they have, so that they no longer have it: a     *)
(* command that is deleted is with nobody, and the others keep a reference *)
(* for each pig that has them.                                             *)
LEMMA ReapCounts ==
    ASSUME Inv, NEW Q \in [Pigs -> SUBSET CmdIds], NEW O \in SUBSET orphans, Reap(Q, O),
           NEW id \in CmdIds,
           \A p \in Pigs : id \in Q[p] => p \in Holders(id) /\ p \notin Holders(id)',
           Holders(id)' \subseteq Holders(id)
    PROVE  /\ cmds'[id] \in CommandType
           /\ Cardinality(Holders(id)') <= cmds'[id].refs
           /\ id \in Gone(Q, O) => cmds'[id] = Dead /\ Holders(id)' = {}
           /\ id \notin Gone(Q, O) =>
                 /\ cmds'[id].kind = cmds[id].kind
                 /\ cmds'[id].old_conf = cmds[id].old_conf /\ cmds'[id].new_conf = cmds[id].new_conf
           /\ id \in orphans \ O => id \notin Gone(Q, O) /\ cmds'[id].refs = 0
<1> DEFINE H == Holders(id)
           G == Holders(id)'
           B == Back(Q, id)
           b == Cardinality(B)
           r == cmds[id].refs
<1>1. TypeOK /\ CommandsAlive
  BY DEF Inv
<1>2. H \in SUBSET Pigs /\ G \in SUBSET Pigs /\ B \in SUBSET Pigs
  BY DEF Holders, Back
<1>3. B \subseteq H /\ G \subseteq H \ B
  BY DEF Back
<1>4. Cardinality(H) <= r /\ r \in 0 .. MaxPigs /\ cmds[id] \in CommandType /\ MaxPigs \in Nat
      /\ (id \in orphans => r = 0)
  BY <1>1, AnalyzerAssumption DEF CommandsAlive, TypeOK, CommandType
<1>5. cmds'[id] = IF id \in Gone(Q, O) THEN Dead ELSE [cmds[id] EXCEPT !.refs = r - b]
  BY DEF Reap, Gone, Back
<1>6. id \in Gone(Q, O) <=> id \in O \/ (b > 0 /\ r = b)
  BY DEF Gone
<1> HIDE DEF H, G, B, b, r
<1>7. Cardinality(H) \in Nat /\ Cardinality(G) \in Nat /\ b \in Nat
  BY <1>2, <1>4, StillCounting, SMTT(20) DEF b, Counting
<1>8. Cardinality(H \ B) = Cardinality(H) - b
  BY <1>2, <1>3, StillCounting DEF b, Counting
<1>9. Cardinality(G) <= Cardinality(H \ B)
  <2>1. H \ B \in SUBSET Pigs
    BY <1>2
  <2> QED
    BY <2>1, <1>2, <1>3, StillCounting DEF Counting
<1>10. Cardinality(G) <= r - b /\ r - b \in 0 .. MaxPigs
  BY <1>4, <1>7, <1>8, <1>9, SMTT(20)
<1>11. id \in O => r = 0 /\ b = 0
  BY <1>4, <1>10, <1>7, SMTT(20)
<1>12. Dead.refs = 0 /\ Dead \in CommandType
  BY <1>4, SMTT(20) DEF Dead, Command, CommandType, None
<1>13. CASE id \in Gone(Q, O)
  <2>1. r - b = 0
    BY <1>4, <1>6, <1>7, <1>11, <1>13, SMTT(20)
  <2>2. Cardinality(G) = 0
    BY <2>1, <1>7, <1>10, SMTT(20)
  <2>3. G = {}
    BY <2>2, <1>2, StillCounting DEF Counting
  <2>4. id \notin orphans \ O
    BY <1>4, <1>6, <1>7, <1>10, <1>13, SMTT(20)
  <2> QED
    BY <2>2, <2>3, <2>4, <1>5, <1>12, <1>13, SMTT(20) DEF G
<1>14. CASE id \notin Gone(Q, O)
  <2> DEFINE c == [cmds[id] EXCEPT !.refs = r - b]
  <2>1. /\ c \in CommandType /\ c.refs = r - b /\ c.kind = cmds[id].kind
        /\ c.old_conf = cmds[id].old_conf /\ c.new_conf = cmds[id].new_conf
    BY <1>4, <1>10 DEF CommandType
  <2> HIDE DEF c
  <2>2. cmds'[id] = c
    BY <1>5, <1>14 DEF c
  <2>3. id \in orphans \ O => r - b = 0
    BY <1>4, <1>7, <1>10, SMTT(20)
  <2> QED
    BY <2>1, <2>2, <2>3, <1>10, <1>14 DEF G
<1> QED
  BY <1>13, <1>14

(* Reaping keeps the commands and the configurations in use alive, and a   *)
(* swap ends only when no thread waits for it.                             *)
LEMMA ReapKeeps ==
    ASSUME Inv, NEW Q \in [Pigs -> SUBSET CmdIds], NEW O \in SUBSET orphans, Reap(Q, O),
           orphans' = orphans \ O,
           \A id \in CmdIds : \A p \in Pigs : id \in Q[p] => p \in Holders(id) /\ p \notin Holders(id)',
           \A id \in CmdIds : Holders(id)' \subseteq Holders(id),
           \A p \in Pigs : athread'[p] =>
              athread[p] /\ an'[p].conf = an[p].conf /\ pending'[p] = pending[p]
    PROVE  /\ cmds' \in [CmdIds -> CommandType] /\ reload_in_progress' \in BOOLEAN
           /\ freed_conf' \subseteq Nat /\ freed_attribs' \subseteq Nat
           /\ UNCHANGED <<conf, attribs, last_attribs>>
           /\ CommandsAlive' /\ OrphansReal' /\ SwapsAlive' /\ UpToDate'
<1> DEFINE gone == Gone(Q, O)
           swaps == {cmds[id] : id \in {i \in gone : cmds[i].kind = "swap"}}
<1>1. TypeOK /\ CommandsAlive /\ OrphansReal /\ SwapsAlive /\ UpToDate
  BY DEF Inv
<1>2. ASSUME NEW id \in CmdIds
      PROVE  /\ cmds'[id] \in CommandType
             /\ Cardinality(Holders(id)') <= cmds'[id].refs
             /\ id \in gone => cmds'[id] = Dead /\ Holders(id)' = {}
             /\ id \notin gone =>
                   /\ cmds'[id].kind = cmds[id].kind
                   /\ cmds'[id].old_conf = cmds[id].old_conf /\ cmds'[id].new_conf = cmds[id].new_conf
             /\ id \in orphans \ O => id \notin gone /\ cmds'[id].refs = 0
  BY ReapCounts
<1>3. /\ freed_conf' = freed_conf \union ({c.old_conf : c \in swaps} \ {None})
      /\ freed_attribs' = freed_attribs \union ({c.old_attribs : c \in swaps} \ {None})
      /\ reload_in_progress' = (reload_in_progress /\ swaps = {})
      /\ UNCHANGED <<conf, attribs, last_attribs>>
  BY DEF Reap, Destroy, Gone, Back
<1>4. cmds' = [id \in CmdIds |-> cmds'[id]]
  BY DEF Reap
<1>5. cmds' \in [CmdIds -> CommandType]
  BY <1>2, <1>4
<1>6. gone \subseteq CmdIds /\ swaps \subseteq CommandType
  BY <1>1, SMTT(20) DEF TypeOK, Gone
<1>7. reload_in_progress' \in BOOLEAN
  BY <1>3
<1>8. freed_conf' \subseteq Nat /\ freed_attribs' \subseteq Nat
  <2>1. \A c \in swaps : c.old_conf \in Nat /\ c.old_attribs \in Nat
    BY <1>6 DEF CommandType
  <2>2. freed_conf \subseteq Nat /\ freed_attribs \subseteq Nat
    BY <1>1 DEF TypeOK
  <2> HIDE DEF swaps, gone
  <2> QED
    BY <2>1, <2>2, <1>3
<1>9. Dead.kind = "none" /\ Dead.new_conf = None
  BY DEF Dead, Command
<1> HIDE DEF gone
<1>10. CommandsAlive' /\ OrphansReal'
  <2>1. ASSUME NEW id \in orphans \ O
        PROVE  cmds'[id].kind # "none" /\ cmds'[id] # Dead /\ cmds'[id].refs = 0
    <3>1. id \in CmdIds /\ cmds[id].kind # "none"
      BY <1>1 DEF TypeOK, OrphansReal
    <3> QED
      BY <3>1, <1>2, <1>9, <2>1
  <2> QED
    BY <2>1, <1>2 DEF CommandsAlive, OrphansReal
<1>11. SwapsAlive'
  <2>1. CASE swaps = {}
    <3>1. /\ freed_conf' = freed_conf /\ conf' = conf /\ (reload_in_progress => reload_in_progress')
      BY <2>1, <1>3
    <3>2. ASSUME NEW id \in CmdIds
          PROVE  \/ cmds'[id].kind = "none" /\ cmds'[id].new_conf = None
                 \/ /\ cmds'[id].kind = cmds[id].kind
                    /\ cmds'[id].old_conf = cmds[id].old_conf /\ cmds'[id].new_conf = cmds[id].new_conf
      BY <1>2, <1>9
    <3>3. \A id \in CmdIds : cmds'[id].kind = "swap" => cmds[id].kind = "swap"
      BY <3>2
    <3> HIDE DEF swaps
    <3>4. ASSUME NEW id \in CmdIds
          PROVE  /\ cmds'[id].kind # "swap" => cmds'[id].new_conf = None
                 /\ cmds'[id].kind = "swap" =>
                       /\ reload_in_progress'
                       /\ cmds'[id].new_conf \in {None, conf}
                       /\ cmds'[id].old_conf \in {None} \union ((1 .. conf - 1) \ freed_conf)
      <4>1. CASE cmds'[id].kind = "none" /\ cmds'[id].new_conf = None
        BY <4>1
      <4>2. CASE /\ cmds'[id].kind = cmds[id].kind
                 /\ cmds'[id].old_conf = cmds[id].old_conf /\ cmds'[id].new_conf = cmds[id].new_conf
        BY <4>2, <3>1, <1>1 DEF SwapsAlive
      <4> QED
        BY <3>2, <4>1, <4>2
    <3>5. \A id, jd \in CmdIds : cmds'[id].kind = "swap" /\ cmds'[jd].kind = "swap" => id = jd
      BY <3>3, <1>1 DEF SwapsAlive
    <3>6. conf \in Nat \ {0} /\ freed_conf \subseteq 1 .. conf - 1
      BY <1>1 DEF SwapsAlive
    <3> QED
      BY <3>1, <3>4, <3>5, <3>6 DEF SwapsAlive
  <2>2. CASE swaps # {}
    <3>1. PICK d \in gone : cmds[d].kind = "swap"
      BY <2>2
    <3>2. d \in CmdIds
      BY <1>6
    <3>3. \A id \in CmdIds : cmds[id].kind = "swap" => id = d
      BY <3>1, <3>2, <1>1 DEF SwapsAlive
    <3>4. \A id \in CmdIds : cmds'[id].kind # "swap" /\ cmds'[id].new_conf = None
      <4>1. ASSUME NEW id \in CmdIds PROVE cmds'[id].kind # "swap" /\ cmds'[id].new_conf = None
        <5>1. CASE id \in gone
          BY <5>1, <1>2, <1>9
        <5>2. CASE id \notin gone
          <6>1. cmds[id].kind # "swap"
            BY <5>2, <3>1, <3>3
          <6> QED
            BY <5>2, <6>1, <1>2, <1>1 DEF SwapsAlive
        <5> QED
          BY <5>1, <5>2
      <4> QED
        BY <4>1
    <3>5. \A c \in swaps : c.old_conf \in {None} \union (1 .. conf - 1)
      <4>1. \A id \in CmdIds : cmds[id].kind = "swap" => cmds[id].old_conf \in {None} \union (1 .. conf - 1)
        BY <1>1 DEF SwapsAlive
      <4> QED
        BY <4>1, <1>6
    <3>6. conf \in Nat \ {0} /\ freed_conf \subseteq 1 .. conf - 1
      BY <1>1 DEF SwapsAlive
    <3> HIDE DEF swaps
    <3>7. freed_conf' \subseteq 1 .. conf - 1 /\ conf' = conf
      BY <3>5, <3>6, <1>3
    <3> QED
      BY <3>4, <3>6, <3>7 DEF SwapsAlive
  <2> QED
    BY <2>1, <2>2
<1>12. UpToDate'
  <2>1. ASSUME NEW p \in Pigs, athread'[p]
        PROVE  \/ an'[p].conf = conf
               \/ \E id \in Range(pending'[p]) :
                     cmds'[id].kind = "swap" /\ cmds'[id].new_conf = conf /\ cmds'[id].old_conf = an'[p].conf
    <3>1. athread[p] /\ an'[p].conf = an[p].conf /\ pending'[p] = pending[p]
      BY <2>1
    <3>2. CASE an[p].conf = conf
      BY <3>1, <3>2
    <3>3. CASE an[p].conf # conf
      <4>1. PICK id \in Range(pending[p]) :
               cmds[id].kind = "swap" /\ cmds[id].new_conf = conf /\ cmds[id].old_conf = an[p].conf
        BY <3>1, <3>3, <1>1 DEF UpToDate
      <4>2. pending[p] \in Seq(CmdIds)
        BY <1>1 DEF TypeOK
      <4>3. id \in CmdIds
        BY <4>1, <4>2, RangeFacts
      <4>4. p \in Holders(id)'
        BY <4>1, <3>1 DEF Holders
      <4>5. id \notin gone
        BY <4>3, <4>4, <1>2
      <4> QED
        BY <4>1, <4>3, <4>5, <3>1, <1>2
    <3> QED
      BY <3>2, <3>3
  <2>2. conf' = conf
    BY <1>3
  <2> QED
    BY <2>1, <2>2 DEF UpToDate
<1> QED
  BY <1>3, <1>5, <1>7, <1>8, <1>10, <1>11, <1>12

(* The commands of the main loop's house keeping. *)
LEMMA HouseKeepingKeeps == ASSUME Inv, UNCHANGED privileged_start, HouseKeeping PROVE Inv'
<1>1. TypeOK /\ OnceEach /\ InHand /\ DroveCounted
  BY DEF Inv
<1>2. completed \in [Pigs -> SUBSET CmdIds] /\ completed' = [p \in Pigs |-> {}] /\ Reap(completed, orphans)
  BY <1>1 DEF TypeOK, HouseKeeping
<1>3. UNCHANGED <<an, pending, uncompleted, athread, analyzer, swine, poke, poke_lost, midx>> /\ orphans' = {}
      /\ mloc' = "loop"
  BY DEF HouseKeeping, pigvars
<1>4. ASSUME NEW id \in CmdIds, NEW p \in Pigs, id \in completed[p]
      PROVE  p \in Holders(id) /\ p \notin Holders(id)'
  <2>1. /\ id \notin Range(pending[p]) /\ uncompleted[p][id] = 0 /\ an[p].cur # id
    BY <1>1, <1>4 DEF OnceEach, Apart
  <2>2. ~(0 > 0)
    BY SMTT(20)
  <2>3. id \notin Unfinished(p)
    BY <2>1, <2>2 DEF Unfinished
  <2>4. Unfinished(p)' = Unfinished(p) /\ completed'[p] = {}
    BY <1>2, <1>3 DEF Unfinished
  <2> QED
    BY <2>1, <2>3, <2>4, <1>3, <1>4 DEF Holders
<1>5. ASSUME NEW id \in CmdIds PROVE Holders(id)' \subseteq Holders(id)
  BY <1>2, <1>3 DEF Holders, Unfinished
<1>6. /\ cmds' \in [CmdIds -> CommandType] /\ reload_in_progress' \in BOOLEAN
      /\ freed_conf' \subseteq Nat /\ freed_attribs' \subseteq Nat
      /\ UNCHANGED <<conf, attribs, last_attribs>>
      /\ CommandsAlive' /\ OrphansReal' /\ SwapsAlive' /\ UpToDate'
  <2>1. orphans' = orphans \ orphans
    BY <1>3
  <2>2. \A p \in Pigs : athread'[p] =>
           athread[p] /\ an'[p].conf = an[p].conf /\ pending'[p] = pending[p]
    BY <1>3
  <2> QED
    BY <2>1, <2>2, <1>2, <1>4, <1>5, ReapKeeps
<1>7. TypeOK'
  BY <1>1, <1>2, <1>3, <1>6 DEF TypeOK, HouseKeeping, pigvars, uservars
<1>8. OnceEach'
  <2>1. ASSUME NEW p \in Pigs PROVE Apart(pending[p], {}, uncompleted[p], an[p])
    BY <1>1 DEF OnceEach, Apart
  <2> QED
    BY <2>1, <1>2, <1>3 DEF OnceEach
<1>9. InHand' /\ DroveCounted'
  BY <1>1, <1>3 DEF InHand, DroveCounted
<1> QED
  BY <1>6, <1>7, <1>8, <1>9, StillCounting DEF Inv

(* Pig::stop of a pig that has been joined. *)
LEMMA HandleStoppedKeeps == ASSUME Inv, UNCHANGED privileged_start, HandleStopped PROVE Inv'
<1> DEFINE p == midx
           Q == [q \in Pigs |-> IF q = p THEN completed[p] \union Range(pending[p]) ELSE {}]
           none == [id \in CmdIds |-> 0]
<1>1. TypeOK /\ OnceEach /\ InHand /\ DroveCounted /\ p \in Pigs /\ analyzer[p]
  BY DEF Inv, InHand, HandleStopped
<1>2. /\ an \in [Pigs -> AnalyzerType] /\ pending \in [Pigs -> Seq(CmdIds)]
      /\ completed \in [Pigs -> SUBSET CmdIds] /\ uncompleted \in [Pigs -> [CmdIds -> 0 .. MaxTuners]]
      /\ analyzer \in [Pigs -> BOOLEAN] /\ athread \in [Pigs -> BOOLEAN] /\ swine \in 0 .. MaxPigs
      /\ MaxTuners \in Nat /\ MaxPigs \in Nat
  BY <1>1, AnalyzerAssumption DEF TypeOK
<1>3. /\ an' = [an EXCEPT ![p] = NewAnalyzer] /\ pending' = [pending EXCEPT ![p] = <<>>]
      /\ completed' = [completed EXCEPT ![p] = {}] /\ uncompleted' = [uncompleted EXCEPT ![p] = none]
      /\ athread' = [athread EXCEPT ![p] = FALSE] /\ analyzer' = [analyzer EXCEPT ![p] = FALSE]
      /\ swine' = swine - 1 /\ mloc' = "post" /\ Reap(Q, {})
      /\ UNCHANGED <<midx, orphans, poke, poke_lost, to_interrupt>>
      /\ UNCHANGED <<awaiting, pigs_started, all_pthreads_started, pending_privileges, dropped, uservars, trough>>
  BY DEF HandleStopped, PigStop
<1>4. NewAnalyzer \in AnalyzerType /\ NewAnalyzer.cur = None
  <2>1. ExitAfter \in Nat /\ Skip \in Nat /\ SourceLen \in Nat /\ None \in Nat
    BY AnalyzerAssumption DEF None
  <2> QED
    BY <2>1 DEF NewAnalyzer, AnalyzerType, States
<1>5. none \in [CmdIds -> 0 .. MaxTuners] /\ <<>> \in Seq(CmdIds) /\ Range(<<>>) = {} /\ OneTime(<<>>)
  BY <1>2, EmptyFacts, SMTT(20)
<1> HIDE DEF p
<1>6. /\ an' \in [Pigs -> AnalyzerType] /\ pending' \in [Pigs -> Seq(CmdIds)]
      /\ completed' \in [Pigs -> SUBSET CmdIds] /\ uncompleted' \in [Pigs -> [CmdIds -> 0 .. MaxTuners]]
      /\ analyzer' \in [Pigs -> BOOLEAN] /\ athread' \in [Pigs -> BOOLEAN]
  BY <1>2, <1>3, <1>4, <1>5
<1>7. ASSUME NEW q \in Pigs
      PROVE  /\ q = p => /\ an'[q] = NewAnalyzer /\ pending'[q] = <<>> /\ completed'[q] = {}
                         /\ uncompleted'[q] = none /\ ~athread'[q] /\ ~analyzer'[q]
             /\ q # p => /\ an'[q] = an[q] /\ pending'[q] = pending[q] /\ completed'[q] = completed[q]
                         /\ uncompleted'[q] = uncompleted[q] /\ athread'[q] = athread[q]
                         /\ analyzer'[q] = analyzer[q]
  BY <1>2, <1>3
<1>8. ASSUME NEW id \in CmdIds PROVE Holders(id)' \subseteq Holders(id) \ {p}
  <2>1. ASSUME NEW q \in Holders(id)' PROVE q \in Holders(id) /\ q # p
    <3>1. q \in Pigs /\ id \in Range(pending'[q]) \union completed'[q] \union Unfinished(q)' \union {an'[q].cur}
      BY DEF Holders
    <3>2. q # p
      <4>1. SUFFICES ASSUME q = p PROVE FALSE
        OBVIOUS
      <4>2. Range(pending'[q]) = {} /\ completed'[q] = {} /\ an'[q].cur = None /\ uncompleted'[q] = none
        BY <4>1, <3>1, <1>4, <1>5, <1>7
      <4>3. none[id] = 0 /\ None \notin CmdIds
        BY SMTT(20) DEF None, CmdIds
      <4>4. id \notin Unfinished(q)'
        <5>1. ~(0 > 0)
          BY SMTT(20)
        <5> QED
          BY <4>2, <4>3, <5>1 DEF Unfinished
      <4> QED
        BY <3>1, <4>2, <4>3, <4>4
    <3>3. Unfinished(q)' = Unfinished(q)
      BY <3>1, <3>2, <1>7 DEF Unfinished
    <3> QED
      BY <3>1, <3>2, <3>3, <1>7 DEF Holders
  <2> QED
    BY <2>1
<1>9. ASSUME NEW id \in CmdIds, NEW q \in Pigs, id \in Q[q]
      PROVE  q \in Holders(id) /\ q \notin Holders(id)'
  <2>1. q = p /\ id \in completed[p] \union Range(pending[p])
    BY <1>9
  <2> QED
    BY <2>1, <1>8 DEF Holders
<1>10. /\ cmds' \in [CmdIds -> CommandType] /\ reload_in_progress' \in BOOLEAN
       /\ freed_conf' \subseteq Nat /\ freed_attribs' \subseteq Nat
       /\ UNCHANGED <<conf, attribs, last_attribs>>
       /\ CommandsAlive' /\ OrphansReal' /\ SwapsAlive' /\ UpToDate'
  <2>1. Range(pending[p]) \subseteq CmdIds
    <3>1. pending[p] \in Seq(CmdIds)
      BY <1>1, <1>2
    <3> QED
      BY <3>1, RangeFacts
  <2>2. Q \in [Pigs -> SUBSET CmdIds]
    BY <2>1, <1>1, <1>2
  <2>3. orphans' = orphans \ {} /\ {} \in SUBSET orphans
    BY <1>3
  <2>4. \A q \in Pigs : athread'[q] =>
           athread[q] /\ an'[q].conf = an[q].conf /\ pending'[q] = pending[q]
    BY <1>7
  <2>5. \A id \in CmdIds : Holders(id)' \subseteq Holders(id)
    BY <1>8
  <2> HIDE DEF Q
  <2> QED
    BY <2>2, <2>3, <2>4, <2>5, <1>3, <1>9, ReapKeeps
<1>11. swine' = Cardinality({q \in Pigs : analyzer'[q]}) /\ swine' \in 0 .. MaxPigs
  <2> DEFINE A == {q \in Pigs : analyzer[q]}
             B == {q \in Pigs : analyzer'[q]}
  <2>1. B = A \ {p} /\ p \in A
    BY <1>1, <1>7
  <2>2. A \in SUBSET Pigs /\ B \in SUBSET Pigs /\ swine = Cardinality(A)
    BY <1>1 DEF DroveCounted
  <2> HIDE DEF A, B
  <2>3. Cardinality(B) \in 0 .. MaxPigs
    BY <2>2, StillCounting DEF Counting
  <2>4. {p} \in SUBSET A /\ Cardinality({p}) = 1
    BY <2>1, <2>2, StillCounting DEF Counting
  <2>5. Cardinality(B) = Cardinality(A) - 1
    BY <2>1, <2>2, <2>4, StillCounting DEF Counting
  <2> QED
    BY <2>2, <2>3, <2>5, <1>3 DEF B
<1>12. DroveCounted' /\ InHand'
  BY <1>1, <1>3, <1>7, <1>11 DEF DroveCounted, InHand, p
<1>13. TypeOK'
  BY <1>1, <1>3, <1>6, <1>10, <1>11 DEF TypeOK, uservars
<1>14. OnceEach'
  <2>1. ASSUME NEW q \in Pigs PROVE Apart(pending'[q], completed'[q], uncompleted'[q], an'[q])
    <3>1. CASE q = p
      BY <3>1, <1>4, <1>5, <1>7 DEF Apart
    <3>2. CASE q # p
      BY <3>2, <1>1, <1>7 DEF OnceEach
    <3> QED
      BY <3>1, <3>2
  <2> QED
    BY <2>1 DEF OnceEach
<1> QED
  BY <1>10, <1>12, <1>13, <1>14, StillCounting DEF Inv

-----------------------------------------------------------------------------
(* The whole system *)

(* service_check: users and signals. *)
LEMMA ServiceKeeps ==
    ASSUME Inv, UNCHANGED privileged_start, ServiceUsers \/ SignalCheck
    PROVE  Inv'
<1>1. TypeOK /\ InHand
  BY DEF Inv
<1>2. CASE \E k : Serve(k) /\ mloc' \in {"shell", "reap"}
  BY <1>2, ServeKeeps
<1>3. CASE /\ mloc' = "loop"
           /\ UNCHANGED <<anvars, midx, pigvars, confvars, uservars, trough, orphans, to_interrupt>>
  <2>1. TypeOK' /\ InHand'
    BY <1>1, <1>3 DEF TypeOK, InHand, anvars, pigvars, confvars, uservars
  <2> QED
    BY <1>3, <2>1, IdleKeeps DEF anvars, pigvars, confvars
<1> QED
  BY <1>2, <1>3 DEF ServiceUsers, SignalCheck

(* Every step of the main thread. *)
LEMMA MainThreadKeeps == ASSUME Inv, MainThread PROVE Inv'
<1>1. UNCHANGED privileged_start
  BY DEF MainThread
<1>2. CASE Interrupt
  BY <1>1, <1>2, InterruptKeeps
<1>3. CASE PrepAll
  BY <1>1, <1>3, PrepAllKeeps
<1>4. CASE MainRead \/ HandleGone \/ HandleOther \/ AfterHandle \/ LoopExit
  BY <1>1, <1>4, LoopStepsKeep
<1>5. CASE HandleNew
  BY <1>1, <1>5, HandleNewKeeps
<1>6. CASE HandleInitialized \/ HandleStarted
  BY <1>1, <1>6, HandleAdvanceKeeps
<1>7. CASE HandleStopped
  BY <1>1, <1>7, HandleStoppedKeeps
<1>8. CASE MainIdle
  BY <1>1, <1>8, MainIdleKeeps
<1>9. CASE ServiceUsers \/ SignalCheck
  BY <1>1, <1>9, ServiceKeeps
<1>10. CASE HouseKeeping
  BY <1>1, <1>10, HouseKeepingKeeps
<1> QED
  BY <1>2, <1>3, <1>4, <1>5, <1>6, <1>7, <1>8, <1>9, <1>10 DEF MainThread, MainStep

(* The drove is finite, and so is every part of it. *)
LEMMA DroveCounts == Counting
<1>1. MaxPigs \in Nat \ {0}
  BY AnalyzerAssumption
<1>2. IsFiniteSet(Pigs) /\ Cardinality(Pigs) = MaxPigs
  BY <1>1, FS_Interval, SMTT(20) DEF Pigs
<1>3. ASSUME NEW B \in SUBSET Pigs
      PROVE  IsFiniteSet(B) /\ Cardinality(B) \in 0 .. MaxPigs /\ (Cardinality(B) = 0 => B = {})
  <2>1. IsFiniteSet(B) /\ Cardinality(B) <= Cardinality(Pigs)
    BY <1>2, FS_Subset
  <2>2. Cardinality(B) \in Nat /\ (Cardinality(B) = 0 => B = {})
    BY <2>1, FS_CardinalityType, FS_EmptySet
  <2> QED
    BY <2>1, <2>2, <1>1, <1>2, SMTT(20)
<1>4. ASSUME NEW B \in SUBSET Pigs, NEW A \in SUBSET B
      PROVE  Cardinality(A) <= Cardinality(B) /\ Cardinality(B \ A) = Cardinality(B) - Cardinality(A)
  <2>1. B \cap A = A /\ A \in SUBSET Pigs
    BY <1>4
  <2>2. IsFiniteSet(B)
    BY <1>3
  <2>3. Cardinality(A) <= Cardinality(B)
    BY <2>2, FS_Subset
  <2>4. Cardinality(B \ A) = Cardinality(B) - Cardinality(B \cap A)
    BY <2>2, FS_Difference
  <2> QED
    BY <2>1, <2>3, <2>4
<1>5. ASSUME NEW B \in SUBSET Pigs, NEW p \in Pigs \ B
      PROVE  Cardinality(B \union {p}) = Cardinality(B) + 1
  BY <1>3, FS_AddElement
<1>6. Cardinality({}) = 0 /\ \A p \in Pigs : Cardinality({p}) = 1
  BY FS_EmptySet, FS_Singleton
<1> QED
  BY <1>3, <1>4, <1>5, <1>6 DEF Counting

(* The program starts with no analyzer and no command. *)
LEMMA InitInv == Init => Inv
<1> SUFFICES ASSUME Init PROVE Inv
  OBVIOUS
<1>1. NewAnalyzer \in AnalyzerType /\ NewAnalyzer.cur = None
  <2>1. ExitAfter \in Nat /\ Skip \in Nat /\ SourceLen \in Nat /\ None \in Nat
    BY AnalyzerAssumption DEF None
  <2> QED
    BY <2>1 DEF NewAnalyzer, AnalyzerType, States
<1>2. /\ MaxPigs \in Nat \ {0} /\ MaxTuners \in Nat /\ MaxConsole \in Nat /\ Sources \in Nat
      /\ StartPaused \in BOOLEAN /\ UnprivStart \subseteq BOOLEAN /\ None \in Nat /\ None \notin CmdIds
  BY AnalyzerAssumption, MainAssumption, SMTT(20) DEF None, CmdIds
<1>3. Dead \in CommandType /\ Dead.kind = "none" /\ Dead.refs = 0 /\ Dead.new_conf = None
  BY <1>2, SMTT(20) DEF Dead, Command, CommandType
<1>4. <<>> \in Seq(CmdIds) /\ <<>> \in Seq(Pigs) /\ Range(<<>>) = {} /\ OneTime(<<>>)
  BY EmptyFacts
<1>5. /\ an = [p \in Pigs |-> NewAnalyzer] /\ pending = [p \in Pigs |-> <<>>]
      /\ completed = [p \in Pigs |-> {}] /\ uncompleted = [p \in Pigs |-> [id \in CmdIds |-> 0]]
      /\ cmds = [id \in CmdIds |-> Dead] /\ orphans = {} /\ freed_conf = {} /\ conf = 1
      /\ ~reload_in_progress
  BY DEF Init
<1>6. /\ an \in [Pigs -> AnalyzerType] /\ pending \in [Pigs -> Seq(CmdIds)]
      /\ completed \in [Pigs -> SUBSET CmdIds] /\ uncompleted \in [Pigs -> [CmdIds -> 0 .. MaxTuners]]
      /\ cmds \in [CmdIds -> CommandType]
  BY <1>1, <1>2, <1>3, <1>4, <1>5, SMTT(20)
<1>7. mloc \in {"prep", "loop"} /\ midx \in Pigs \union {None} /\ (mloc = "prep" => midx = 1)
  BY <1>2, SMTT(20) DEF Init, Pigs
<1>8. TypeOK
  <2>1. trough \in Nat /\ pending_privileges \in 0 .. MaxPigs
    BY <1>2, SMTT(20) DEF Init
  <2>2. /\ analyzer \in [Pigs -> BOOLEAN] /\ athread \in [Pigs -> BOOLEAN]
        /\ awaiting \in [Pigs -> BOOLEAN] /\ pigs_started \in [Pigs -> BOOLEAN]
    BY DEF Init
  <2>3. /\ poke \in Seq(Pigs) /\ poke_lost \in BOOLEAN /\ privileged_start \in BOOLEAN
        /\ all_pthreads_started \in BOOLEAN /\ dropped \in BOOLEAN /\ paused \in BOOLEAN
        /\ exit_requested \in BOOLEAN /\ reload_in_progress \in BOOLEAN
        /\ orphans \subseteq CmdIds /\ to_interrupt \subseteq Pigs
        /\ freed_conf \subseteq Nat /\ freed_attribs \subseteq Nat
    BY <1>2, <1>4 DEF Init
  <2>4. /\ swine \in 0 .. MaxPigs /\ given \in 0 .. MaxConsole
        /\ conf \in Nat /\ attribs \in Nat /\ last_attribs \in Nat
    BY <1>2, SMTT(20) DEF Init
  <2> QED
    BY <2>1, <2>2, <2>3, <2>4, <1>6, <1>7 DEF TypeOK
<1>9. OnceEach
  BY <1>1, <1>4, <1>5 DEF OnceEach, Apart
<1>10. InHand
  BY <1>2, <1>7, SMTT(20) DEF InHand, Init, Pigs
<1>11. CommandsAlive /\ OrphansReal
  <2>1. ASSUME NEW id \in CmdIds PROVE Holders(id) = {}
    <3>1. ASSUME NEW p \in Pigs
          PROVE  Range(pending[p]) = {} /\ completed[p] = {} /\ Unfinished(p) = {} /\ an[p].cur # id
      <4>1. ~(0 > 0)
        BY SMTT(20)
      <4> QED
        BY <4>1, <1>1, <1>2, <1>4, <1>5 DEF Unfinished
    <3> QED
      BY <3>1 DEF Holders
  <2>2. \A id \in CmdIds : cmds[id].refs = 0
    BY <1>3, <1>5
  <2>3. Cardinality({}) = 0 /\ 0 <= 0
    BY DroveCounts DEF Counting
  <2>4. \A id \in CmdIds : Cardinality(Holders(id)) <= cmds[id].refs
    BY <2>1, <2>2, <2>3
  <2> QED
    BY <2>4, <1>5 DEF CommandsAlive, OrphansReal
<1>12. DroveCounted
  <2>1. {p \in Pigs : analyzer[p]} = {} /\ \A p \in Pigs : ~athread[p]
    BY DEF Init
  <2> QED
    BY <2>1, DroveCounts DEF DroveCounted, Init, Counting
<1>13. SwapsAlive
  BY <1>3, <1>5, SMTT(20) DEF SwapsAlive
<1>14. UpToDate
  BY DEF UpToDate, Init
<1> QED
  BY <1>8, <1>9, <1>10, <1>11, <1>12, <1>13, <1>14, DroveCounts DEF Inv

(* Inv depends on the variables only. *)
LEMMA StutterKeeps == Inv /\ UNCHANGED vars => Inv'
<1> SUFFICES ASSUME Inv, UNCHANGED vars PROVE Inv'
  OBVIOUS
<1>1. TypeOK /\ InHand /\ DroveCounted
  BY DEF Inv
<1>2. TypeOK' /\ InHand'
  BY <1>1, SMTT(20) DEF TypeOK, InHand, vars, anvars, mainvars
<1>3. mloc' = "done" => swine = 0
  BY <1>1 DEF DroveCounted, vars, mainvars
<1> QED
  BY <1>2, <1>3, IdleKeeps DEF vars, anvars, mainvars

(* Inv is inductive. *)
LEMMA InvStep == Inv /\ [Next]_vars => Inv'
<1> SUFFICES ASSUME Inv, [Next]_vars PROVE Inv'
  OBVIOUS
<1>1. CASE MainThread
  BY <1>1, MainThreadKeeps
<1>2. CASE PacketThreads
  BY <1>2, PacketThreadKeeps DEF PacketThreads
<1>3. CASE UNCHANGED vars
  BY <1>3, StutterKeeps
<1> QED
  BY <1>1, <1>2, <1>3 DEF Next, Terminated

(* Every reachable state satisfies the inductive invariant. *)
THEOREM Invariance == Spec => []Inv
  BY InitInv, InvStep, PTL DEF Spec

(* Main and packet threads keep to their types: no reference count of a    *)
(* command passes below 0 or above the number of pigs, and swine and       *)
(* privileges_to_drop stay within it, for any number of pigs.              *)
THEOREM TypeCorrect == Spec => []TypeOK
<1>1. Inv => TypeOK
  BY DEF Inv
<1> QED
  BY <1>1, Invariance, PTL

(* No packet thread ever has a command that reap_command has deleted.      *)
THEOREM NoDeadCommand == Spec => []CommandsAlive
<1>1. Inv => CommandsAlive
  BY DEF Inv
<1> QED
  BY <1>1, Invariance, PTL

(* The main loop's count of pigs is right, and main_loop ends only when    *)
(* every packet thread has been joined.                                    *)
THEOREM PigsCounted == Spec => []DroveCounted
<1>1. Inv => DroveCounted
  BY DEF Inv
<1> QED
  BY <1>1, Invariance, PTL

(* ~Swapper never deletes the configuration a packet thread or the main    *)
(* thread uses, or one that a swap is still to bring in.                   *)
THEOREM NoDeadConf == Spec => []ConfAlive
<1>1. Inv => ConfAlive
  <2> SUFFICES ASSUME Inv PROVE ConfAlive
    OBVIOUS
  <2>1. TypeOK /\ SwapsAlive /\ UpToDate
    BY DEF Inv
  <2>2. conf \in Nat \ {0} /\ conf \notin freed_conf /\ None \notin freed_conf
    BY <2>1, SMTT(20) DEF SwapsAlive, None
  <2>3. ASSUME NEW p \in Pigs, athread[p] PROVE an[p].conf \notin freed_conf
    <3>1. CASE an[p].conf = conf
      BY <3>1, <2>2
    <3>2. CASE an[p].conf # conf
      <4>1. PICK id \in Range(pending[p]) : cmds[id].kind = "swap" /\ cmds[id].old_conf = an[p].conf
        BY <3>2, <2>1, <2>3 DEF UpToDate
      <4>2. pending[p] \in Seq(CmdIds)
        BY <2>1 DEF TypeOK
      <4>3. id \in CmdIds
        BY <4>1, <4>2, RangeFacts
      <4>4. an[p].conf \in {None} \union ((1 .. conf - 1) \ freed_conf)
        BY <4>1, <4>3, <2>1 DEF SwapsAlive
      <4> QED
        BY <4>4, <2>2
    <3> QED
      BY <3>1, <3>2
  <2>4. ASSUME NEW id \in CmdIds PROVE cmds[id].new_conf \notin freed_conf
    <3>1. cmds[id].new_conf \in {None, conf}
      BY <2>1 DEF SwapsAlive
    <3> QED
      BY <3>1, <2>2
  <2> QED
    BY <2>2, <2>3, <2>4 DEF ConfAlive
<1> QED
  BY <1>1, Invariance, PTL

(* When ~ACSwap has reported the reload complete, every packet thread has  *)
(* the configuration of the main thread.                                   *)
THEOREM ReloadComplete == Spec => []SwapComplete
<1>1. Inv => SwapComplete
  <2> SUFFICES ASSUME Inv, ~reload_in_progress, NEW p \in Pigs, athread[p] PROVE an[p].conf = conf
    BY DEF SwapComplete
  <2>1. TypeOK /\ SwapsAlive /\ UpToDate
    BY DEF Inv
  <2>2. SUFFICES ASSUME an[p].conf # conf PROVE FALSE
    OBVIOUS
  <2>3. PICK id \in Range(pending[p]) : cmds[id].kind = "swap"
    BY <2>1, <2>2 DEF UpToDate
  <2>4. pending[p] \in Seq(CmdIds)
    BY <2>1 DEF TypeOK
  <2>5. id \in CmdIds
    BY <2>3, <2>4, RangeFacts
  <2> QED
    BY <2>1, <2>3, <2>5 DEF SwapsAlive
<1> QED
  BY <1>1, Invariance, PTL

-----------------------------------------------------------------------------
(* The life of an analyzer *)

(* Every reachable state satisfies it, if there are no privileges to drop. *)
LEMMA Lives == ASSUME ~ChangePrivileges PROVE Spec => [](Inv /\ LifeInv)
<1>1. Init => LifeInv
  BY InitLife
<1> QED
  BY <1>1, LifeStep, Invariance, PTL DEF Spec

(* A pig that is receiving packets never has a command waiting without     *)
(* having been interrupted, or being about to be.                          *)
THEOREM NoCommandWaits == ASSUME ~ChangePrivileges PROVE Spec => []CommandsNoticed
<1>1. LifeInv => CommandsNoticed
  BY DEF LifeInv, Life, Called, CommandsNoticed
<1> QED
  BY <1>1, Lives, PTL

(* The asserts of Analyzer::start, Analyzer::run and Pig::start hold, and  *)
(* no START or RUN is made twice.                                          *)
THEOREM AssertsNeverFail == ASSUME ~ChangePrivileges PROVE Spec => []AssertsHold
<1>1. Inv /\ LifeInv => AssertsHold
  BY AssertsLife
<1> QED
  BY <1>1, Lives, PTL

(* Without privileges to drop, every analyzer lives as Lifecycle says: the *)
(* states main/dev_notes.txt names, in their order.                        *)
THEOREM LivesAsPromised == ASSUME ~ChangePrivileges PROVE Spec => Implemented
<1>1. Init => LifecycleSpec!Init
  BY DEF Init, LifecycleSpec!Init
<1>2. Inv /\ LifeInv /\ [Next]_vars => [LifecycleSpec!Next]_(LifecycleSpec!lifevars)
  BY LifecycleStep
<1> QED
  BY <1>1, <1>2, Lives, PTL DEF Spec, Implemented, LifecycleSpec!Spec
=============================================================================
