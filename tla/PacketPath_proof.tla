-------------------------- MODULE PacketPath_proof --------------------------
(***************************************************************************)
(* The proofs about PacketPath that hold for every number of messages,     *)
(* contexts, requests and flows: what a worker searches stays suspended,   *)
(* and no flow's chain of suspended packets waits for nobody.              *)
(***************************************************************************)
EXTENDS PacketPath, TLAPS

USE ZenonT(30)

(* The stack of contexts: a wire packet or a flush, on it a packet rebuilt   *)
(* from it, and nothing between packets.                                     *)
Stack ==
    /\ pc \in {"rebuild", "unhold", "pclear"} => Len(busy) = 1
    /\ pc = "inspect" => Len(busy) \in {1, 2}
    /\ pc \notin {"rebuild", "unhold", "pclear", "inspect"} => busy = <<>>
    /\ \A i \in 1 .. Len(busy) : ctx[busy[i]].state = "busy"
    /\ Len(busy) >= 1 => ctx[busy[1]].kind \in {"wire", "flush"}
    /\ Len(busy) = 2 => ctx[busy[2]].kind = "pdu" /\ busy[1] # busy[2]

OnHold(r) == \E i \in 1 .. Len(onhold) : onhold[i] = r

Chained(c, f) == \E i \in 1 .. Len(chain[f]) : chain[f][i] = c

(* The offloader: a request on hold has a packet of its own, which is        *)
(* suspended, offloaded and in its flow's chain.                             *)
Offloaded ==
    /\ \A i, j \in 1 .. Len(onhold) : onhold[i] = onhold[j] => i = j
    /\ \A r \in Requests : req[r].pkt # None <=> OnHold(r)
    /\ \A r \in Requests : req[r].offload => OnHold(r)
    /\ \A r \in Requests : worker[r] = "search" => req[r].offload
    /\ \A r \in Requests : req[r].pkt # None =>
          ctx[req[r].pkt].state = "suspended" /\ ctx[req[r].pkt].offloaded
    /\ \A r, q \in Requests : req[r].pkt # None /\ req[r].pkt = req[q].pkt => r = q
    /\ \A c \in Contexts : ctx[c].offloaded =>
          /\ \E r \in Requests : req[r].pkt = c
          /\ ctx[c].flow \in Flows /\ Chained(c, ctx[c].flow)

(* The chains: suspended packets of the flow, each once; the front is with   *)
(* the offloader unless the chain is being worked on.                        *)
Chains ==
    /\ \A f \in Flows : \A i \in 1 .. Len(chain[f]) :
          ctx[chain[f][i]].state = "suspended" /\ ctx[chain[f][i]].flow = f
    /\ \A f \in Flows : \A i, j \in 1 .. Len(chain[f]) : chain[f][i] = chain[f][j] => i = j
    /\ \A f \in Flows : chain[f] # <<>> /\ resuming # f => ctx[chain[f][1]].offloaded
    /\ resuming # None => chain[resuming] # <<>> /\ ~ctx[chain[resuming][1]].offloaded

(* The retry queue holds what is due. *)
Due ==
    /\ due <= Len(retryq)
    /\ due > 0 => \/ pc = "retry"
                  \/ ret = "retry" /\ pc \in {"start", "inspect", "rebuild", "unhold", "timeouts", "flush"}

(* The message in hand, and those of wire packets. *)
Messages ==
    /\ cur # None <=> pc = "start"
    /\ \A c \in Contexts : ctx[c].kind = "wire" => ctx[c].msg # None

IInv == TypeOK /\ Stack /\ Offloaded /\ Chains /\ Due /\ Messages

(* Types when the thread stays where it is. *)
LEMMA ControlTypes ==
    ASSUME TypeOK, UNCHANGED <<pc, ret, cur, target, due, idling, stalled, rebuilt, unpurged>>,
           ctx' \in [Contexts -> Context], busy' \in Seq(Contexts), chain' \in [Flows -> Seq(Contexts)],
           req' \in [Requests -> [pkt : Contexts \cup {None}, offload : BOOLEAN, go : BOOLEAN]],
           onhold' \in Seq(Requests), worker' \in [Requests -> {"idle", "woken", "search", "exit"}],
           pool' \subseteq Msgs, rx' \in Seq(Msgs), retryq' \in Seq(Msgs), heldq' \in Seq(Msgs),
           resuming' \in Flows \cup {None}
    PROVE  TypeOK'
  BY SMTT(20) DEF TypeOK
-----------------------------------------------------------------------------
(* What the operators on sequences do. *)

(* A sequence has a length ... *)
LEMMA SeqLength ==
    ASSUME NEW S, NEW s \in Seq(S)
    PROVE  Len(s) \in Nat /\ DOMAIN s = 1 .. Len(s) /\ s \in [1 .. Len(s) -> S]
  BY SMTT(20)

(* ... which is 0 if and only if it is empty ... *)
LEMMA SeqEmpty ==
    ASSUME NEW S
    PROVE  <<>> \in Seq(S) /\ Len(<<>>) = 0 /\ \A s \in Seq(S) : s # <<>> => Len(s) \in Nat \ {0}
  BY SMTT(20)

(* ... and elements. *)
LEMMA SeqElement ==
    ASSUME NEW S, NEW s \in Seq(S), NEW i \in 1 .. Len(s)
    PROVE  s[i] \in S
  BY SMTT(20)

(* A part of a sequence. *)
LEMMA SubSeqFacts ==
    ASSUME NEW S, NEW s \in Seq(S), NEW m \in 1 .. Len(s) + 1, NEW n \in m - 1 .. Len(s)
    PROVE  /\ SubSeq(s, m, n) \in Seq(S) /\ Len(SubSeq(s, m, n)) = n - m + 1
           /\ \A i \in 1 .. n - m + 1 : SubSeq(s, m, n)[i] = s[m + i - 1]
  BY SMTT(20)

(* Two sequences, one after the other. *)
LEMMA ConcatFacts ==
    ASSUME NEW S, NEW s \in Seq(S), NEW t \in Seq(S)
    PROVE  /\ s \o t \in Seq(S) /\ Len(s \o t) = Len(s) + Len(t)
           /\ \A i \in 1 .. Len(s) + Len(t) :
                 (s \o t)[i] = IF i <= Len(s) THEN s[i] ELSE t[i - Len(s)]
  BY SMTT(20)

(* Front drops the last element. *)
LEMMA FrontFacts ==
    ASSUME NEW S, NEW s \in Seq(S), s # <<>>
    PROVE  /\ Front(s) \in Seq(S) /\ Len(Front(s)) = Len(s) - 1
           /\ \A i \in 1 .. Len(s) - 1 : Front(s)[i] = s[i]
           /\ Last(s) = s[Len(s)] /\ Last(s) \in S /\ Len(s) \in Nat \ {0}
  <1>1. Len(s) \in Nat /\ Len(s) # 0 /\ \A i \in 1 .. Len(s) : s[i] \in S
    BY SeqEmpty, SeqLength, SeqElement
  <1>2. /\ SubSeq(s, 1, Len(s) - 1) \in Seq(S) /\ Len(SubSeq(s, 1, Len(s) - 1)) = Len(s) - 1
        /\ \A i \in 1 .. Len(s) - 1 : SubSeq(s, 1, Len(s) - 1)[i] = s[i]
    <2>1. 1 \in Int /\ Len(s) - 1 \in Int /\ \A i \in 1 .. Len(s) - 1 : s[i] \in S
      BY <1>1, SMTT(20)
    <2>. DEFINE n == Len(s) - 1
    <2>2. n \in Nat
      BY <1>1, SMTT(20)
    <2>3. \A i \in 1 .. n : s[i] \in S
      BY <2>1
    <2>. HIDE DEF n
    <2>4. /\ SubSeq(s, 1, n) \in Seq(S) /\ Len(SubSeq(s, 1, n)) = n
          /\ \A i \in 1 .. n : SubSeq(s, 1, n)[i] = s[i]
      BY <2>2, <2>3, SubSeqFacts, SMTT(20)
    <2>. QED  BY <2>4 DEF n
  <1>. QED  BY <1>1, <1>2, SMTT(20) DEF Front, Last

(* RemoveAt closes the gap. *)
LEMMA RemoveAtFacts ==
    ASSUME NEW S, NEW s \in Seq(S), NEW i \in 1 .. Len(s)
    PROVE  /\ RemoveAt(s, i) \in Seq(S) /\ Len(RemoveAt(s, i)) = Len(s) - 1
           /\ \A j \in 1 .. i - 1 : RemoveAt(s, i)[j] = s[j]
           /\ \A j \in i .. Len(s) - 1 : RemoveAt(s, i)[j] = s[j + 1]
  <1>1. Len(s) \in Nat /\ i \in Nat /\ 1 <= i /\ i <= Len(s) /\ \A j \in 1 .. Len(s) : s[j] \in S
    BY SeqLength, SeqElement, SMTT(20)
  <1> DEFINE a == SubSeq(s, 1, i - 1)
             b == SubSeq(s, i + 1, Len(s))
  <1>2. a \in Seq(S) /\ Len(a) = i - 1 /\ \A j \in 1 .. i - 1 : a[j] = s[j]
    <2>1. 1 \in Int /\ i - 1 \in Int /\ \A j \in 1 .. i - 1 : s[j] \in S
      BY <1>1, SMTT(20)
    <2>. QED  BY <1>1, <2>1, SubSeqFacts, SMTT(20)
  <1>3. b \in Seq(S) /\ Len(b) = Len(s) - i /\ \A j \in 1 .. Len(s) - i : b[j] = s[i + j]
    <2>1. i + 1 \in Int /\ Len(s) \in Int /\ \A j \in i + 1 .. Len(s) : s[j] \in S
      BY <1>1, SMTT(20)
    <2>. DEFINE m == i + 1
                n == Len(s)
    <2>2. m \in Nat /\ n \in Nat /\ m <= n + 1
      BY <1>1, SMTT(20)
    <2>3. \A j \in m .. n : s[j] \in S
      BY <2>1
    <2>. HIDE DEF m, n
    <2>4. /\ SubSeq(s, m, n) \in Seq(S) /\ Len(SubSeq(s, m, n)) = n - m + 1
          /\ \A j \in 1 .. n - m + 1 : SubSeq(s, m, n)[j] = s[m + j - 1]
      BY <2>2, <2>3, SubSeqFacts, SMTT(20)
    <2>5. \A j \in Nat : m + j - 1 = i + j
      BY <1>1, SMTT(20) DEF m
    <2>6. n - m + 1 = Len(s) - i
      BY <1>1, SMTT(20) DEF m, n
    <2>7. \A j \in 1 .. Len(s) - i : SubSeq(s, m, n)[j] = s[i + j]
      <3>. TAKE j \in 1 .. Len(s) - i
      <3>1. j \in Nat /\ j \in 1 .. n - m + 1
        BY <1>1, <2>6, SMTT(20)
      <3>. QED  BY <2>4, <2>5, <3>1
    <2>. QED  BY <2>4, <2>6, <2>7 DEF m, n
  <1>4. /\ a \o b \in Seq(S) /\ Len(a \o b) = Len(s) - 1
        /\ \A j \in 1 .. Len(s) - 1 : (a \o b)[j] = IF j <= i - 1 THEN a[j] ELSE b[j - (i - 1)]
    <2>. HIDE DEF a, b
    <2>1. /\ a \o b \in Seq(S) /\ Len(a \o b) = Len(a) + Len(b)
          /\ \A j \in 1 .. Len(a) + Len(b) : (a \o b)[j] =
                IF j <= Len(a) THEN a[j] ELSE b[j - Len(a)]
      BY <1>2, <1>3, ConcatFacts
    <2>2. Len(a) + Len(b) = Len(s) - 1
      BY <1>1, <1>2, <1>3, SMTT(20)
    <2>. QED  BY <1>2, <2>1, <2>2
  <1>5. RemoveAt(s, i) = a \o b
    BY DEF RemoveAt
  <1>. HIDE DEF a, b
  <1>6. \A j \in i .. Len(s) - 1 : (a \o b)[j] = s[j + 1]
    <2>. TAKE j \in i .. Len(s) - 1
    <2>1. j - (i - 1) \in 1 .. Len(s) - i /\ j \in 1 .. Len(s) - 1 /\ ~(j <= i - 1)
      BY <1>1, SMTT(20)
    <2>2. (a \o b)[j] = b[j - (i - 1)]
      BY <1>4, <2>1
    <2>3. b[j - (i - 1)] = s[i + (j - (i - 1))]
      BY <1>3, <2>1
    <2>. QED  BY <1>1, <2>2, <2>3, SMTT(20)
  <1>7. \A j \in 1 .. i - 1 : (a \o b)[j] = s[j]
    BY <1>1, <1>2, <1>4, SMTT(20)
  <1>. QED  BY <1>4, <1>5, <1>6, <1>7

(* Tail drops the first element. *)
LEMMA TailFacts ==
    ASSUME NEW S, NEW s \in Seq(S), s # <<>>
    PROVE  /\ Tail(s) \in Seq(S) /\ Len(Tail(s)) = Len(s) - 1
           /\ \A i \in 1 .. Len(s) - 1 : Tail(s)[i] = s[i + 1]
           /\ Head(s) = s[1] /\ Head(s) \in S /\ Len(s) \in Nat \ {0}
  BY SMTT(20)

(* Append adds at the end. *)
LEMMA AppendFacts ==
    ASSUME NEW S, NEW s \in Seq(S), NEW e \in S
    PROVE  /\ Append(s, e) \in Seq(S) /\ Len(Append(s, e)) = Len(s) + 1
           /\ \A i \in 1 .. Len(s) : Append(s, e)[i] = s[i]
           /\ Append(s, e)[Len(s) + 1] = e /\ Append(s, e) # <<>>
  BY SMTT(20)

(* The range of a sequence. *)
LEMMA RangeFacts ==
    ASSUME NEW S, NEW s \in Seq(S)
    PROVE  /\ \A x : x \in Range(s) <=> \E i \in 1 .. Len(s) : s[i] = x
           /\ Range(s) \subseteq S
  BY SMTT(20) DEF Range
-----------------------------------------------------------------------------
(* What the steps do to contexts. *)

(* d keeps all that the invariant is about. *)
Kept(d) ==
    /\ ctx'[d].state = ctx[d].state /\ ctx'[d].kind = ctx[d].kind
    /\ ctx'[d].flow = ctx[d].flow /\ ctx'[d].msg = ctx[d].msg
    /\ ctx'[d].offloaded = ctx[d].offloaded

(* A context that is done with is as at the start. *)
LEMMA IdleFacts ==
    /\ IdleContext \in Context
    /\ IdleContext.state = "idle" /\ IdleContext.kind = None /\ IdleContext.offloaded = FALSE
    /\ IdleContext.kind \notin {"wire", "pdu", "flush"}
  BY PacketPathAssumption DEF IdleContext, Context, Acts

(* A delayed action leaves a packet with one of the actions. *)
LEMMA DelayedFacts ==
    ASSUME NEW a \in Acts, NEW d \in {"allow", "drop", "retry"}
    PROVE  Delayed(a, d) \subseteq Acts
  BY DEF Delayed, Acts

(* The message of a packet that is done goes where post_process says. *)
LEMMA PostProcessFacts ==
    ASSUME TypeOK, NEW m \in Msgs, NEW a \in Acts, PostProcess(m, a)
    PROVE  /\ pool' \subseteq Msgs /\ retryq' \in Seq(Msgs) /\ heldq' \in Seq(Msgs)
           /\ Len(retryq') >= Len(retryq)
  <1>1. pool \subseteq Msgs /\ retryq \in Seq(Msgs) /\ heldq \in Seq(Msgs)
    BY DEF TypeOK
  <1>2. Len(retryq) \in Nat
    BY <1>1, SeqLength
  <1>3. /\ Append(retryq, m) \in Seq(Msgs) /\ Len(Append(retryq, m)) = Len(retryq) + 1
        /\ Append(heldq, m) \in Seq(Msgs)
    BY <1>1, AppendFacts
  <1>4. CASE retryq' = Append(retryq, m) /\ UNCHANGED <<pool, heldq>>
    BY <1>1, <1>2, <1>3, <1>4, SMTT(20)
  <1>5. CASE heldq' = Append(heldq, m) /\ UNCHANGED <<pool, retryq>>
    BY <1>1, <1>2, <1>3, <1>5, SMTT(20)
  <1>6. CASE pool' = pool \cup {m} /\ UNCHANGED <<retryq, heldq>>
    BY <1>1, <1>2, <1>6, SMTT(20)
  <1>. QED  BY <1>4, <1>5, <1>6 DEF PostProcess

(* Finishing a packet frees its context, and may set the action of the     *)
(* packet it was rebuilt from.                                             *)
LEMMA FinishFacts ==
    ASSUME TypeOK, NEW c \in Contexts, Finish(c), ctx[c].kind = "wire" => ctx[c].msg # None
    PROVE  /\ ctx' \in [Contexts -> Context] /\ ctx'[c] = IdleContext
           /\ \A d \in Contexts \ {c} : Kept(d)
           /\ pool' \subseteq Msgs /\ retryq' \in Seq(Msgs) /\ heldq' \in Seq(Msgs)
           /\ Len(retryq') >= Len(retryq)
  <1>1. /\ ctx \in [Contexts -> Context] /\ pool \subseteq Msgs
        /\ retryq \in Seq(Msgs) /\ heldq \in Seq(Msgs)
    BY DEF TypeOK
  <1>2. Len(retryq) \in Nat
    BY <1>1, SeqLength
  <1> DEFINE wire == IF ctx[c].kind = "wire" THEN c ELSE ctx[c].parent
             acts == wire # None /\ ctx[wire].kind = "wire"
  <1>3. PICK d \in {"allow", "drop", "retry"} :
           \E a \in IF acts THEN Delayed(ctx[wire].act, d) ELSE {"allow"} :
                IF ctx[c].kind = "wire"
                THEN /\ PostProcess(ctx[c].msg, a)
                     /\ ctx' = [ctx EXCEPT ![c] = IdleContext]
                ELSE /\ ctx' = IF acts
                               THEN [ctx EXCEPT ![wire].act = a, ![c] = IdleContext]
                               ELSE [ctx EXCEPT ![c] = IdleContext]
                     /\ UNCHANGED <<pool, retryq, heldq>>
    BY DEF Finish
  <1>4. wire \in Contexts \cup {None}
    BY <1>1 DEF Context
  <1>5. acts => wire \in Contexts /\ ctx[wire].act \in Acts
    BY <1>1, <1>4 DEF Context
  <1>. HIDE DEF wire, acts
  <1>6. PICK a \in IF acts THEN Delayed(ctx[wire].act, d) ELSE {"allow"} :
                IF ctx[c].kind = "wire"
                THEN /\ PostProcess(ctx[c].msg, a)
                     /\ ctx' = [ctx EXCEPT ![c] = IdleContext]
                ELSE /\ ctx' = IF acts
                               THEN [ctx EXCEPT ![wire].act = a, ![c] = IdleContext]
                               ELSE [ctx EXCEPT ![c] = IdleContext]
                     /\ UNCHANGED <<pool, retryq, heldq>>
    BY <1>3
  <1>7. a \in Acts
    <2>1. CASE acts
      BY <1>5, <1>6, <2>1, DelayedFacts
    <2>2. CASE ~acts
      BY <1>6, <2>2 DEF Acts
    <2>. QED  BY <2>1, <2>2
  <1>8. ASSUME ctx' = [ctx EXCEPT ![c] = IdleContext]
        PROVE  /\ ctx' \in [Contexts -> Context] /\ ctx'[c] = IdleContext
               /\ \A x \in Contexts \ {c} : Kept(x)
    BY <1>1, <1>8, IdleFacts DEF Kept
  <1>9. ASSUME acts, ctx' = [ctx EXCEPT ![wire].act = a, ![c] = IdleContext]
        PROVE  /\ ctx' \in [Contexts -> Context] /\ ctx'[c] = IdleContext
               /\ \A x \in Contexts \ {c} : Kept(x)
    <2> DEFINE mid == [ctx EXCEPT ![wire].act = a]
    <2>1. mid \in [Contexts -> Context]
      BY <1>1, <1>5, <1>7, <1>9 DEF Context
    <2>2. \A x \in Contexts :
             /\ mid[x].state = ctx[x].state /\ mid[x].kind = ctx[x].kind
             /\ mid[x].flow = ctx[x].flow /\ mid[x].msg = ctx[x].msg
             /\ mid[x].offloaded = ctx[x].offloaded
      BY <1>1, <1>5, <1>9 DEF Context
    <2>3. ctx' = [mid EXCEPT ![c] = IdleContext]
      BY <1>9
    <2>. HIDE DEF mid
    <2>. QED  BY <2>1, <2>2, <2>3, IdleFacts DEF Kept
  <1>10. CASE ctx[c].kind = "wire"
    <2>1. ctx[c].msg \in Msgs
      BY <1>1, <1>10 DEF Context
    <2>2. PostProcess(ctx[c].msg, a) /\ ctx' = [ctx EXCEPT ![c] = IdleContext]
      BY <1>6, <1>10
    <2>. QED  BY <1>7, <1>8, <2>1, <2>2, PostProcessFacts
  <1>11. CASE ctx[c].kind # "wire"
    <2>1. UNCHANGED <<pool, retryq, heldq>>
      BY <1>6, <1>11
    <2>2. /\ ctx' \in [Contexts -> Context] /\ ctx'[c] = IdleContext
          /\ \A x \in Contexts \ {c} : Kept(x)
      BY <1>6, <1>8, <1>9, <1>11
    <2>. QED  BY <1>1, <1>2, <2>1, <2>2, SMTT(20)
  <1>. QED  BY <1>10, <1>11

(* The context that is entered was idle and is the new top of the stack. *)
Entered(c, kind, f, m) ==
    /\ ctx[c].state = "idle" /\ ctx'[c].state = "busy" /\ ctx'[c].kind = kind
    /\ ctx'[c].flow = f /\ ctx'[c].msg = m /\ ctx'[c].offloaded = FALSE
    /\ \A d \in Contexts \ {c} : Kept(d)
    /\ busy' = Append(busy, c)

(* Entering a context does that. *)
LEMMA EnterFacts ==
    ASSUME TypeOK, Idle # {}, NEW kind \in {"wire", "pdu", "flush"}, NEW f \in Flows \cup {None},
           NEW m \in Msgs \cup {None}, NEW p \in Contexts \cup {None}, Enter(kind, f, m, p)
    PROVE  /\ ctx' \in [Contexts -> Context] /\ chain' = chain
           /\ \E c \in Contexts : Entered(c, kind, f, m)
  <1> DEFINE c == NextContext
             new == [IdleContext EXCEPT !.state = "busy", !.kind = kind, !.flow = f,
                                        !.msg = m, !.parent = p]
  <1>1. c \in Contexts /\ ctx[c].state = "idle"
    BY DEF NextContext, Idle
  <1>2. ctx \in [Contexts -> Context]
    BY DEF TypeOK
  <1>3. /\ new \in Context /\ new.state = "busy" /\ new.kind = kind /\ new.flow = f
        /\ new.msg = m /\ new.offloaded = FALSE
    BY DEF IdleContext, Context, Acts
  <1>4. ctx' = [ctx EXCEPT ![c] = new] /\ busy' = Append(busy, c) /\ chain' = chain
    BY DEF Enter
  <1>. HIDE DEF c, new
  <1>5. ctx' \in [Contexts -> Context] /\ ctx'[c] = new /\ \A d \in Contexts \ {c} : Kept(d)
    BY <1>1, <1>2, <1>3, <1>4 DEF Kept
  <1>6. Entered(c, kind, f, m)
    BY <1>1, <1>3, <1>4, <1>5 DEF Entered
  <1>. QED  BY <1>1, <1>4, <1>5, <1>6

(* What only concerns the offloader and the chains is kept by a step that   *)
(* leaves them alone and keeps every suspended packet.                      *)
LEMMA OffloaderFrame ==
    ASSUME TypeOK, Offloaded, Chains, UNCHANGED <<chain, req, onhold, worker, resuming>>,
           \A d \in Contexts : ctx[d].state = "suspended" => Kept(d),
           \A d \in Contexts : ctx'[d].offloaded => Kept(d)
    PROVE  Offloaded' /\ Chains'
  <1>1. /\ req \in [Requests -> [pkt : Contexts \cup {None}, offload : BOOLEAN, go : BOOLEAN]]
        /\ chain \in [Flows -> Seq(Contexts)] /\ resuming \in Flows \cup {None}
    BY DEF TypeOK
  <1>2. \A f \in Flows : \A i \in 1 .. Len(chain[f]) : chain[f][i] \in Contexts
    BY <1>1, SeqElement
  <1>3. \A f \in Flows : \A i \in 1 .. Len(chain[f]) : Kept(chain[f][i])
    BY <1>2 DEF Chains
  <1>4. \A f \in Flows : chain[f] # <<>> => 1 \in 1 .. Len(chain[f])
    BY <1>1, SeqEmpty, SMTT(20)
  <1>5. \A r \in Requests : req[r].pkt # None => req[r].pkt \in Contexts /\ Kept(req[r].pkt)
    BY <1>1 DEF Offloaded
  <1>6. Chains'
    <2>1. (resuming # None => chain[resuming] # <<>> /\ ~ctx[chain[resuming][1]].offloaded)'
      BY <1>1, <1>3, <1>4, SMTT(20) DEF Chains, Kept
    <2>2. (\A f \in Flows : chain[f] # <<>> /\ resuming # f => ctx[chain[f][1]].offloaded)'
      BY <1>3, <1>4, SMTT(20) DEF Chains, Kept
    <2>. QED  BY <1>3, <2>1, <2>2, SMTT(20) DEF Chains, Kept
  <1>7. Offloaded'
    <2>1. (\A c \in Contexts : ctx[c].offloaded =>
              /\ \E r \in Requests : req[r].pkt = c
              /\ ctx[c].flow \in Flows /\ Chained(c, ctx[c].flow))'
      BY SMTT(20) DEF Offloaded, Kept, Chained
    <2>2. (\A r \in Requests : req[r].pkt # None =>
              ctx[req[r].pkt].state = "suspended" /\ ctx[req[r].pkt].offloaded)'
      BY <1>5 DEF Offloaded, Kept
    <2>. QED  BY <2>1, <2>2, SMTT(20) DEF Offloaded, OnHold
  <1>. QED  BY <1>6, <1>7
-----------------------------------------------------------------------------
(* A step of the packet thread that touches neither contexts nor offloader. *)
LEMMA ControlFrame ==
    ASSUME IInv, UNCHANGED <<switcher, offloader>>, resuming' = resuming, TypeOK', Due',
           (cur # None)' <=> (pc = "start")',
           pc' \in {"rebuild", "unhold", "pclear"} => Len(busy) = 1,
           pc' = "inspect" => Len(busy) \in {1, 2},
           pc' \notin {"rebuild", "unhold", "pclear", "inspect"} => busy = <<>>
    PROVE  IInv'
  <1>1. UNCHANGED <<ctx, busy, chain, req, onhold, worker, resuming>>
    BY DEF switcher, offloader
  <1>2. Offloaded' /\ Chains'
    BY <1>1, OffloaderFrame DEF IInv, Kept
  <1>3. Stack'
    BY <1>1 DEF IInv, Stack
  <1>4. Messages'
    BY <1>1 DEF IInv, Messages
  <1>. QED  BY <1>2, <1>3, <1>4 DEF IInv

(* Messages come and go, and the thread goes on to the next thing. *)
LEMMA MessageSteps ==
    ASSUME IInv,
           Received \/ Onloaded \/ NextPacket \/ PassMessage \/ NoMoreMessages
    PROVE  IInv'
  <1>. USE PacketPathAssumption DEF switcher, offloader, msgs
  <1>1. TypeOK /\ Stack /\ Due /\ Messages
    BY DEF IInv
  <1>2. CASE Received
    <2>1. TypeOK'
      BY <1>1, <1>2 DEF TypeOK, Received
    <2>2. Due'
      BY <1>1, <1>2 DEF TypeOK, Due, Received
    <2>. QED  BY <1>1, <1>2, <2>1, <2>2, ControlFrame DEF Received, Stack, Messages
  <1>3. CASE Onloaded
    <2>1. TypeOK'
      BY <1>1, <1>3, SMTT(20) DEF TypeOK, Onloaded, RetryNow
    <2>2. Due'
      BY <1>1, <1>3, SMTT(20) DEF TypeOK, Due, Onloaded, RetryNow
    <2>. QED  BY <1>1, <1>3, <2>1, <2>2, ControlFrame DEF Onloaded, RetryNow, Stack, Messages
  <1>4. CASE NextPacket
    <2>1. rx \in Seq(Msgs) /\ rx # <<>>
      BY <1>1, <1>4 DEF TypeOK, NextPacket
    <2>2. Head(rx) \in Msgs /\ Tail(rx) \in Seq(Msgs)
      BY <2>1, TailFacts
    <2>3. TypeOK' /\ cur' # None
      BY <1>1, <1>4, <2>2 DEF TypeOK, NextPacket
    <2>4. Due'
      BY <1>1, <1>4 DEF TypeOK, Due, NextPacket
    <2>. QED  BY <1>1, <1>4, <2>3, <2>4, ControlFrame DEF NextPacket, Stack, Messages
  <1>5. CASE PassMessage
    <2>1. TypeOK'
      BY <1>1, <1>5, TailFacts, SMTT(20) DEF TypeOK, PassMessage
    <2>2. Due'
      BY <1>1, <1>5 DEF TypeOK, Due, PassMessage
    <2>. QED  BY <1>1, <1>5, <2>1, <2>2, ControlFrame DEF PassMessage, Stack, Messages
  <1>6. CASE NoMoreMessages
    <2>1. TypeOK'
      BY <1>1, <1>6, SMTT(20) DEF TypeOK, NoMoreMessages, RetryNow
    <2>2. Due'
      BY <1>1, <1>6, SMTT(20) DEF TypeOK, Due, NoMoreMessages, RetryNow
    <2>. QED  BY <1>1, <1>6, <2>1, <2>2, ControlFrame DEF NoMoreMessages, RetryNow, Stack, Messages
  <1>. QED  BY <1>2, <1>3, <1>4, <1>5, <1>6

(* Queued messages are retried; held ones are looked at. *)
LEMMA QueueSteps ==
    ASSUME IInv, RetryPacket \/ RetryDone \/ NoneExpired \/ Expired \/ Discard
    PROVE  IInv'
  <1>. USE PacketPathAssumption DEF switcher, offloader, msgs
  <1>1. TypeOK /\ Stack /\ Due /\ Messages
    BY DEF IInv
  <1>2. CASE RetryPacket
    <2>1. retryq \in Seq(Msgs) /\ retryq # <<>> /\ due \in Nat /\ due - 1 \in Nat
      BY <1>1, <1>2, SMTT(20) DEF TypeOK, Due, RetryPacket
    <2>2. Head(retryq) \in Msgs /\ Tail(retryq) \in Seq(Msgs) /\ Len(Tail(retryq)) = Len(retryq) - 1
      BY <2>1, TailFacts
    <2>3. TypeOK' /\ cur' # None
      BY <1>1, <1>2, <2>1, <2>2 DEF TypeOK, RetryPacket
    <2>4. Due'
      BY <1>1, <1>2, <2>1, <2>2, SMTT(20) DEF TypeOK, Due, RetryPacket
    <2>. QED  BY <1>1, <1>2, <2>3, <2>4, ControlFrame DEF RetryPacket, Stack, Messages
  <1>3. CASE RetryDone
    <2>1. TypeOK'
      BY <1>1, <1>3 DEF TypeOK, RetryDone
    <2>2. Due'
      BY <1>1, <1>3, SMTT(20) DEF TypeOK, Due, RetryDone
    <2>. QED  BY <1>1, <1>3, <2>1, <2>2, ControlFrame DEF RetryDone, Stack, Messages
  <1>4. CASE NoneExpired
    <2>1. TypeOK'
      BY <1>1, <1>4 DEF TypeOK, NoneExpired
    <2>2. Due'
      BY <1>1, <1>4 DEF TypeOK, Due, NoneExpired
    <2>. QED  BY <1>1, <1>4, <2>1, <2>2, ControlFrame DEF NoneExpired, Stack, Messages, TypeOK
  <1>5. CASE Expired
    <2>1. heldq \in Seq(Msgs) /\ heldq # <<>>
      BY <1>1, <1>5 DEF TypeOK, Expired
    <2>2. Head(heldq) \in Msgs
      BY <2>1, TailFacts
    <2>3. TypeOK'
      BY <1>1, <1>5, <2>2 DEF TypeOK, Expired
    <2>4. Due'
      BY <1>1, <1>5 DEF TypeOK, Due, Expired
    <2>. QED  BY <1>1, <1>5, <2>3, <2>4, ControlFrame DEF Expired, Stack, Messages
  <1>6. CASE Discard
    <2>1. TypeOK'
      <3>1. CASE retryq = <<>>
        BY <1>1, <1>6, <3>1, SMTT(20) DEF TypeOK, Discard
      <3>2. CASE retryq # <<>>
        <4>1. retryq \in Seq(Msgs)
          BY <1>1 DEF TypeOK
        <4>2. Head(retryq) \in Msgs /\ Tail(retryq) \in Seq(Msgs)
          BY <3>2, <4>1, TailFacts
        <4>. QED  BY <1>1, <1>6, <3>2, <4>2 DEF TypeOK, Discard
      <3>. QED  BY <3>1, <3>2
    <2>2. Due'
      <3>1. due = 0
        BY <1>1, <1>6, SMTT(20) DEF TypeOK, Due, Discard
      <3>2. Len(retryq') \in Nat
        BY <2>1, SMTT(20) DEF TypeOK
      <3>. QED  BY <1>6, <3>1, <3>2, SMTT(20) DEF Due, Discard
    <2>. QED  BY <1>1, <1>6, <2>1, <2>2, ControlFrame DEF Discard, Stack, Messages
  <1>. QED  BY <1>2, <1>3, <1>4, <1>5, <1>6

(* The thread leaves the loop, retires the flows and ends. *)
LEMMA TermSteps ==
    ASSUME IInv, Exit \/ PurgeFlow \/ PurgeOnloaded \/ Join \/ Stall \/ Rebuild
    PROVE  IInv'
  <1>. USE PacketPathAssumption DEF switcher, offloader, msgs
  <1>1. TypeOK /\ Stack /\ Due /\ Messages
    BY DEF IInv
  <1>2. CASE Exit
    <2>1. TypeOK'
      BY <1>1, <1>2 DEF TypeOK, Exit
    <2>2. Due'
      BY <1>1, <1>2 DEF TypeOK, Due, Exit
    <2>. QED  BY <1>1, <1>2, <2>1, <2>2, ControlFrame DEF Exit, Stack, Messages
  <1>3. CASE PurgeFlow
    <2>1. TypeOK'
      BY <1>1, <1>3 DEF TypeOK, PurgeFlow
    <2>2. Due'
      BY <1>1, <1>3 DEF TypeOK, Due, PurgeFlow
    <2>3. pc' \in {"discard", "pwait"}
      BY <1>3 DEF PurgeFlow
    <2>. QED  BY <1>1, <1>3, <2>1, <2>2, <2>3, ControlFrame DEF PurgeFlow, Stack, Messages
  <1>4. CASE PurgeOnloaded
    <2>1. TypeOK'
      BY <1>1, <1>4 DEF TypeOK, PurgeOnloaded, Through
    <2>2. Due'
      BY <1>1, <1>4 DEF TypeOK, Due, PurgeOnloaded
    <2>. QED  BY <1>1, <1>4, <2>1, <2>2, ControlFrame DEF PurgeOnloaded, Stack, Messages
  <1>5. CASE Join
    <2>1. TypeOK'
      BY <1>1, <1>5 DEF TypeOK, Join
    <2>2. Due'
      BY <1>1, <1>5 DEF TypeOK, Due, Join
    <2>. QED  BY <1>1, <1>5, <2>1, <2>2, ControlFrame DEF Join, Stack, Messages
  <1>6. CASE Stall
    <2>1. TypeOK'
      BY <1>1, <1>6 DEF TypeOK, Stall
    <2>2. Due'
      BY <1>1, <1>6 DEF TypeOK, Due, Stall
    <2>. QED  BY <1>1, <1>6, <2>1, <2>2, ControlFrame DEF Stall, Stack, Messages
  <1>7. CASE Rebuild
    <2>1. TypeOK'
      BY <1>1, <1>7, SMTT(20) DEF TypeOK, Rebuild
    <2>2. Due'
      BY <1>1, <1>7 DEF TypeOK, Due, Rebuild, Inspecting
    <2>3. Len(busy) = 1
      <3>1. busy \in Seq(Contexts) /\ Len(busy) \in {1, 2} /\ busy # <<>>
        BY <1>1, <1>7, SeqEmpty, SMTT(20) DEF TypeOK, Stack, Rebuild, Inspecting
      <3>2. ctx[busy[Len(busy)]].kind # "pdu"
        BY <1>7, <3>1, FrontFacts DEF Rebuild, Top
      <3>. QED  BY <1>1, <3>1, <3>2 DEF Stack
    <2>. QED  BY <1>1, <1>7, <2>1, <2>2, <2>3, ControlFrame DEF Rebuild, Inspecting, Stack, Messages
  <1>. QED  BY <1>2, <1>3, <1>4, <1>5, <1>6, <1>7

(* A batch is received. *)
LEMMA ReceiveStep ==
    ASSUME IInv, Receive
    PROVE  IInv'
  <1>. USE PacketPathAssumption DEF switcher, offloader, msgs
  <1>1. TypeOK /\ Stack /\ Due /\ Messages
    BY DEF IInv
  <1>2. PICK s \in Batches : rx' = s /\ pool' = pool \ Range(s)
                             /\ idling' \in IF s = <<>> THEN BOOLEAN ELSE {FALSE}
    BY DEF Receive
  <1>3. s \in Seq(Msgs)
    <2>1. PICK n \in 0 .. BatchSize : s \in [1 .. n -> pool]
      BY <1>2, SMTT(20) DEF Batches, SeqOf
    <2>2. n \in Nat /\ pool \subseteq Msgs
      BY <1>1, SMTT(20) DEF TypeOK
    <2>. QED  BY <2>1, <2>2, SMTT(20)
  <1>4. idling' \in BOOLEAN
    BY <1>2
  <1>5. TypeOK'
    BY <1>1, <1>2, <1>3, <1>4 DEF TypeOK, Receive
  <1>6. Due'
    BY <1>1 DEF TypeOK, Due, Receive
  <1>. QED  BY <1>1, <1>5, <1>6, ControlFrame DEF Receive, Stack, Messages

(* The steps of a worker. *)
LEMMA WorkerSteps ==
    ASSUME IInv, NEW r \in Requests, WorkerCheck(r) \/ WorkerSearch(r)
    PROVE  IInv'
  <1>. USE DEF switcher, msgs, control
  <1>1. TypeOK /\ Stack /\ Offloaded /\ Chains /\ Due /\ Messages
    BY DEF IInv
  <1>2. UNCHANGED <<ctx, busy, chain, onhold, pool, rx, retryq, heldq, pc, ret, cur, target,
                    due, idling, stalled, resuming, rebuilt, unpurged>>
    BY DEF WorkerCheck, WorkerSearch
  <1>3. /\ req \in [Requests -> [pkt : Contexts \cup {None}, offload : BOOLEAN, go : BOOLEAN]]
        /\ worker \in [Requests -> {"idle", "woken", "search", "exit"}]
    BY <1>1 DEF TypeOK
  <1>4. /\ req' \in [Requests -> [pkt : Contexts \cup {None}, offload : BOOLEAN, go : BOOLEAN]]
        /\ worker' \in [Requests -> {"idle", "woken", "search", "exit"}]
        /\ \A q \in Requests : req'[q].pkt = req[q].pkt /\ (req'[q].offload => req[q].offload)
        /\ \A q \in Requests : worker'[q] = "search" => req'[q].offload
    <2>1. \A q \in Requests : worker[q] = "search" => req[q].offload
      BY <1>1 DEF Offloaded
    <2>2. CASE WorkerCheck(r)
      BY <1>3, <2>1, <2>2 DEF WorkerCheck
    <2>3. CASE WorkerSearch(r)
      <3>1. /\ req' \in [Requests -> [pkt : Contexts \cup {None}, offload : BOOLEAN, go : BOOLEAN]]
            /\ \A q \in Requests : req'[q].pkt = req[q].pkt
            /\ \A q \in Requests : req'[q].offload = (q # r /\ req[q].offload)
        BY <1>3, <2>3 DEF WorkerSearch
      <3>2. /\ worker' \in [Requests -> {"idle", "woken", "search", "exit"}]
            /\ \A q \in Requests : worker'[q] = "search" => q # r /\ worker[q] = "search"
        BY <1>3, <2>3 DEF WorkerSearch
      <3>. QED  BY <2>1, <3>1, <3>2
    <2>. QED  BY <2>2, <2>3
  <1>5. TypeOK'
    BY <1>1, <1>2, <1>4, SMTT(20) DEF TypeOK
  <1>6. Stack' /\ Chains' /\ Due' /\ Messages'
    <2>1. Stack'
      BY <1>1, <1>2 DEF Stack
    <2>2. Chains'
      BY <1>1, <1>2, SMTT(20) DEF Chains
    <2>3. Due' /\ Messages'
      BY <1>1, <1>2 DEF Due, Messages
    <2>. QED  BY <2>1, <2>2, <2>3
  <1>7. Offloaded'
    <2>1. \A q \in Requests : OnHold(q)' <=> OnHold(q)
      BY <1>2 DEF OnHold
    <2>2. \A c \in Contexts : Chained(c, ctx[c].flow)' <=> Chained(c, ctx[c].flow)
      BY <1>2 DEF Chained
    <2>3. (\A q \in Requests : (req[q].pkt # None <=> OnHold(q)) /\ (req[q].offload => OnHold(q)))'
      BY <1>1, <1>4, <2>1 DEF Offloaded
    <2>4. (\A q \in Requests : req[q].pkt # None =>
              ctx[req[q].pkt].state = "suspended" /\ ctx[req[q].pkt].offloaded)'
      BY <1>1, <1>2, <1>4, SMTT(20) DEF Offloaded
    <2>5. (\A q, s \in Requests : req[q].pkt # None /\ req[q].pkt = req[s].pkt => q = s)'
      <3>1. \A q, s \in Requests : req[q].pkt # None /\ req[q].pkt = req[s].pkt => q = s
        BY <1>1 DEF Offloaded
      <3>. QED  BY <1>4, <3>1
    <2>6. (\A c \in Contexts : ctx[c].offloaded =>
              /\ \E q \in Requests : req[q].pkt = c
              /\ ctx[c].flow \in Flows /\ Chained(c, ctx[c].flow))'
      <3>1. \A c \in Contexts : ctx[c].offloaded =>
               /\ \E q \in Requests : req[q].pkt = c
               /\ ctx[c].flow \in Flows /\ Chained(c, ctx[c].flow)
        BY <1>1 DEF Offloaded
      <3>2. \A c \in Contexts : (\E q \in Requests : req[q].pkt = c) =>
               \E q \in Requests : req'[q].pkt = c
        BY <1>4
      <3>. QED  BY <1>2, <2>2, <3>1, <3>2
    <2>7. (\A i, j \in 1 .. Len(onhold) : onhold[i] = onhold[j] => i = j)'
      BY <1>1, <1>2 DEF Offloaded
    <2>. QED  BY <1>4, <2>3, <2>4, <2>5, <2>6, <2>7 DEF Offloaded
  <1>. QED  BY <1>5, <1>6, <1>7 DEF IInv

(* Letting go of a held packet takes it out of the queue. *)
LEMMA UnheldFacts ==
    ASSUME TypeOK, NEW f
    PROVE  Unheld(f) \in Seq(Msgs)
  <1>1. heldq \in Seq(Msgs) /\ DOMAIN heldq = 1 .. Len(heldq)
    BY SeqLength DEF TypeOK
  <1>. DEFINE at == {i \in DOMAIN heldq : FlowOf[heldq[i]] = f}
              i == CHOOSE j \in at : TRUE
  <1>2. CASE at = {}
    BY <1>1, <1>2 DEF Unheld
  <1>3. CASE at # {}
    <2>1. i \in 1 .. Len(heldq)
      BY <1>1, <1>3
    <2>2. Unheld(f) = RemoveAt(heldq, i)
      BY <1>3 DEF Unheld
    <2>. QED  BY <1>1, <2>1, <2>2, RemoveAtFacts, SMTT(20)
  <1>. QED  BY <1>2, <1>3

(* Setting a packet's action keeps all that the invariant is about. *)
LEMMA ActFacts ==
    ASSUME TypeOK, NEW c \in Contexts, NEW a \in Acts, ctx' = [ctx EXCEPT ![c].act = a]
    PROVE  ctx' \in [Contexts -> Context] /\ \A d \in Contexts : Kept(d)
  <1>1. ctx \in [Contexts -> Context]
    BY DEF TypeOK
  <1>2. ctx' \in [Contexts -> Context]
    BY <1>1, SMTT(20) DEF Context
  <1>3. \A d \in Contexts : Kept(d)
    BY <1>1, SMTT(20) DEF Context, Kept
  <1>. QED  BY <1>2, <1>3

(* The top of the stack, while there is one. *)
LEMMA TopFacts ==
    ASSUME IInv, pc \in {"rebuild", "unhold", "pclear", "inspect"}
    PROVE  /\ busy \in Seq(Contexts) /\ Len(busy) \in {1, 2} /\ busy # <<>>
           /\ Top = busy[Len(busy)] /\ Top \in Contexts /\ ctx[Top].state = "busy"
  <1>1. busy \in Seq(Contexts) /\ Len(busy) \in {1, 2} /\ busy # <<>>
    BY SeqEmpty, SMTT(20) DEF IInv, TypeOK, Stack
  <1>2. Top = busy[Len(busy)] /\ Top \in Contexts
    BY <1>1, FrontFacts DEF Top
  <1>. QED  BY <1>1, <1>2, SMTT(20) DEF IInv, Stack

(* A packet is held, or the flow's held packet let go. *)
LEMMA HoldSteps ==
    ASSUME IInv, Hold \/ FinalizeHeld
    PROVE  IInv'
  <1>. USE DEF offloader, msgs
  <1>1. TypeOK /\ Stack /\ Offloaded /\ Chains /\ Due /\ Messages
    BY DEF IInv
  <1>2. pc \in {"unhold", "inspect"}
    BY DEF Hold, FinalizeHeld, Inspecting
  <1>3. Top \in Contexts /\ busy \in Seq(Contexts)
    BY <1>2, TopFacts
  <1>4. \E a \in Acts : ctx' = [ctx EXCEPT ![Top].act = a]
    <2>1. CASE Hold
      BY <2>1 DEF Hold, Acts
    <2>2. CASE FinalizeHeld
      <3>1. ctx[Top].act \in Acts
        BY <1>1, <1>3 DEF TypeOK, Context
      <3>2. ctx' = [ctx EXCEPT ![Top].act = IF ctx[Top].act = "hold" THEN "allow" ELSE ctx[Top].act]
        BY <1>1, <1>3, <2>2 DEF TypeOK, Context, FinalizeHeld
      <3>. QED  BY <3>1, <3>2 DEF Acts
    <2>. QED  BY <2>1, <2>2
  <1>5. ctx' \in [Contexts -> Context] /\ \A d \in Contexts : Kept(d)
    BY <1>1, <1>3, <1>4, ActFacts
  <1>6. /\ UNCHANGED <<busy, chain, req, onhold, worker, rx, retryq, ret, cur, target, due,
                       idling, stalled, resuming, rebuilt, unpurged>>
        /\ pc' = "inspect"
    BY DEF Hold, FinalizeHeld, Inspecting, control
  <1>7. pool' \subseteq Msgs /\ heldq' \in Seq(Msgs)
    <2>1. CASE Hold
      BY <1>1, <2>1 DEF Hold, TypeOK
    <2>2. CASE FinalizeHeld
      <3>1. Held(ctx[Top].flow) \subseteq Msgs
        BY <1>1, RangeFacts DEF Held, TypeOK
      <3>. QED  BY <1>1, <2>2, <3>1, UnheldFacts DEF FinalizeHeld, TypeOK
    <2>. QED  BY <2>1, <2>2
  <1>8. TypeOK'
    BY <1>1, <1>5, <1>6, <1>7 DEF TypeOK
  <1>9. Offloaded' /\ Chains'
    BY <1>1, <1>5, <1>6, OffloaderFrame
  <1>10. Stack'
    <2>1. \A i \in 1 .. Len(busy) : busy[i] \in Contexts /\ Kept(busy[i])
      BY <1>3, <1>5, SeqElement
    <2>2. Len(busy) \in {1, 2}
      BY <1>2, TopFacts
    <2>. QED  BY <1>1, <1>2, <1>6, <2>1, <2>2, SMTT(20) DEF Stack, Kept
  <1>11. Due' /\ Messages'
    BY <1>1, <1>2, <1>5, <1>6 DEF Due, Messages, Kept, TypeOK
  <1>. QED  BY <1>8, <1>9, <1>10, <1>11 DEF IInv

(* What entering a context does to the invariant. *)
LEMMA EnterFrame ==
    ASSUME IInv, Idle # {}, NEW kind \in {"wire", "pdu", "flush"}, NEW f \in Flows \cup {None},
           NEW m \in Msgs \cup {None}, NEW p \in Contexts \cup {None}, Enter(kind, f, m, p),
           UNCHANGED <<offloader, msgs, ret, due, idling, resuming, rebuilt, unpurged>>,
           stalled' = FALSE, target' = target, pc' = "inspect", cur' = None,
           kind = "wire" => m # None,
           pc \in {"start", "rebuild", "flush"} \/ (pc = "pflush" /\ due = 0),
           IF kind = "pdu" THEN pc = "rebuild" ELSE pc # "rebuild"
    PROVE  IInv'
  <1>. USE DEF offloader, msgs
  <1>1. TypeOK /\ Stack /\ Offloaded /\ Chains /\ Due /\ Messages
    BY DEF IInv
  <1>2. ctx' \in [Contexts -> Context] /\ chain' = chain
    BY <1>1, EnterFacts
  <1>3. PICK c \in Contexts : Entered(c, kind, f, m)
    BY <1>1, EnterFacts
  <1>4. /\ busy \in Seq(Contexts) /\ busy' \in Seq(Contexts) /\ Len(busy') = Len(busy) + 1
        /\ \A i \in 1 .. Len(busy) : busy'[i] = busy[i]
        /\ busy'[Len(busy) + 1] = c /\ Len(busy) \in Nat
    <2>1. busy \in Seq(Contexts) /\ busy' = Append(busy, c)
      BY <1>1, <1>3 DEF TypeOK, Entered
    <2>. QED  BY <2>1, AppendFacts, SeqLength, SMTT(20)
  <1>5. TypeOK'
    BY <1>1, <1>2, <1>4 DEF TypeOK
  <1>6. Offloaded' /\ Chains'
    <2>1. \A d \in Contexts : ctx[d].state = "suspended" => Kept(d)
      BY <1>3 DEF Entered
    <2>2. \A d \in Contexts : ctx'[d].offloaded => Kept(d)
      BY <1>3 DEF Entered
    <2>. QED  BY <1>1, <1>2, <2>1, <2>2, OffloaderFrame
  <1>7. Stack'
    <2>1. \A i \in 1 .. Len(busy) : busy[i] \in Contexts \ {c} /\ Kept(busy[i])
      BY <1>1, <1>3, <1>4, SeqElement DEF Stack, Entered
    <2>2. CASE kind = "pdu"
      <3>1. Len(busy) = 1
        BY <1>1, <2>2 DEF Stack
      <3>2. Len(busy') = 2 /\ busy'[1] = busy[1] /\ busy'[2] = c
        BY <1>4, <3>1, SMTT(20)
      <3>3. ctx[busy[1]].state = "busy" /\ ctx[busy[1]].kind \in {"wire", "flush"}
        BY <1>1, <3>1, SMTT(20) DEF Stack
      <3>4. busy[1] # c /\ Kept(busy[1])
        BY <2>1, <3>1, SMTT(20)
      <3>5. ctx'[busy[1]].state = "busy" /\ ctx'[busy[1]].kind \in {"wire", "flush"}
        BY <3>3, <3>4 DEF Kept
      <3>6. ctx'[c].state = "busy" /\ ctx'[c].kind = "pdu"
        BY <1>3, <2>2 DEF Entered
      <3>. QED  BY <3>2, <3>4, <3>5, <3>6, SMTT(20) DEF Stack
    <2>3. CASE kind # "pdu"
      <3>1. Len(busy) = 0
        BY <1>1, <2>3, SMTT(20) DEF Stack
      <3>2. Len(busy') = 1 /\ busy'[1] = c
        BY <1>4, <3>1, SMTT(20)
      <3>3. ctx'[c].state = "busy" /\ ctx'[c].kind = kind
        BY <1>3 DEF Entered
      <3>. QED  BY <2>3, <3>2, <3>3, SMTT(20) DEF Stack
    <2>. QED  BY <2>2, <2>3
  <1>8. Due'
    BY <1>1 DEF Due, TypeOK
  <1>9. Messages'
    BY <1>1, <1>3 DEF Messages, Kept, Entered
  <1>. QED  BY <1>5, <1>6, <1>7, <1>8, <1>9 DEF IInv

(* The steps that enter a context. *)
LEMMA EnterSteps ==
    ASSUME IInv, Start \/ Rebuilt \/ EnterFlush
    PROVE  IInv'
  <1>. USE PacketPathAssumption
  <1>1. TypeOK /\ Stack /\ Due /\ Messages
    BY DEF IInv
  <1>2. CASE Start
    <2>1. cur \in Msgs /\ FlowOf[cur] \in Flows \cup {None}
      BY <1>1, <1>2 DEF TypeOK, Messages, Start
    <2>2. Enter("wire", FlowOf[cur], cur, None)
      BY <1>2 DEF Start
    <2>. QED  BY <1>2, <2>1, <2>2, EnterFrame DEF Start, Through
  <1>3. CASE Rebuilt
    <2>1. Top \in Contexts
      BY <1>3, TopFacts DEF Rebuilt
    <2>2. ctx[Top].flow \in Flows \cup {None} /\ ctx[Top].msg \in Msgs \cup {None}
      BY <1>1, <2>1 DEF TypeOK, Context
    <2>. DEFINE p == IF ctx[Top].kind = "wire" THEN Top ELSE None
    <2>3. p \in Contexts \cup {None} /\ Enter("pdu", ctx[Top].flow, ctx[Top].msg, p)
      BY <1>3, <2>1 DEF Rebuilt
    <2>4. cur' = None
      BY <1>1, <1>3 DEF Rebuilt, Messages
    <2>. HIDE DEF p
    <2>. QED  BY <1>3, <2>2, <2>3, <2>4, EnterFrame DEF Rebuilt, Through
  <1>4. CASE EnterFlush
    <2>1. target \in Flows \cup {None} /\ Enter("flush", target, None, None)
      BY <1>1, <1>4 DEF TypeOK, EnterFlush
    <2>2. cur' = None /\ (pc = "pflush" => due = 0)
      BY <1>1, <1>4, SMTT(20) DEF EnterFlush, Messages, Due, TypeOK
    <2>. QED  BY <1>4, <2>1, <2>2, EnterFrame DEF EnterFlush, Through
  <1>. QED  BY <1>2, <1>3, <1>4

(* Leaving the top context uncovers the wire packet or the flush, if any. *)
LEMMA PopStack ==
    ASSUME IInv, pc \in {"pclear", "inspect"}, busy' = Front(busy),
           \A d \in Contexts \ {Top} : Kept(d),
           \/ Len(busy) = 2 /\ pc' = "unhold"
           \/ Len(busy) = 1 /\ pc' \notin {"rebuild", "unhold", "pclear", "inspect"}
    PROVE  busy' \in Seq(Contexts) /\ Stack'
  <1>1. /\ busy \in Seq(Contexts) /\ Len(busy) \in {1, 2} /\ busy # <<>>
        /\ Top = busy[Len(busy)] /\ Top \in Contexts
    BY TopFacts
  <1>2. /\ busy' \in Seq(Contexts) /\ Len(busy') = Len(busy) - 1
        /\ \A i \in 1 .. Len(busy) - 1 : busy'[i] = busy[i]
    BY <1>1, FrontFacts
  <1>3. CASE Len(busy) = 2
    <2>1. /\ busy[1] \in Contexts \ {Top} /\ busy'[1] = busy[1]
          /\ ctx[busy[1]].state = "busy" /\ ctx[busy[1]].kind \in {"wire", "flush"}
      BY <1>1, <1>2, <1>3, SeqElement, SMTT(20) DEF IInv, Stack
    <2>2. Kept(busy[1])
      BY <2>1
    <2>. QED  BY <1>2, <1>3, <2>1, <2>2, SMTT(20) DEF Stack, Kept
  <1>4. CASE Len(busy) = 1
    <2>1. busy' = <<>> /\ Len(busy') = 0
      BY <1>2, <1>4, SeqEmpty, SMTT(20)
    <2>. QED  BY <1>2, <1>4, <2>1, SMTT(20) DEF Stack
  <1>. QED  BY <1>1, <1>3, <1>4

(* A packet that is done or suspended is the wire packet, or one rebuilt. *)
LEMMA AfterFacts ==
    ASSUME IInv, pc = "inspect", ctx[Top].kind # "flush"
    PROVE  \/ Len(busy) = 2 /\ AfterPacket = "unhold"
           \/ Len(busy) = 1 /\ AfterPacket = "timeouts"
  BY TopFacts, SMTT(20) DEF IInv, Stack, AfterPacket

(* A packet's detection completes on the spot. *)
LEMMA FinishSteps ==
    ASSUME IInv, Complete \/ Skip
    PROVE  IInv'
  <1>. USE DEF offloader
  <1>1. TypeOK /\ Stack /\ Offloaded /\ Chains /\ Due /\ Messages
    BY DEF IInv
  <1>2. FinishTop /\ pc = "inspect" /\ ctx[Top].kind # "flush"
    BY DEF Complete, Skip, Inspecting
  <1>3. Top \in Contexts /\ ctx[Top].state = "busy"
    BY <1>2, TopFacts
  <1>4. /\ ctx' \in [Contexts -> Context] /\ ctx'[Top] = IdleContext
        /\ \A d \in Contexts \ {Top} : Kept(d)
        /\ pool' \subseteq Msgs /\ retryq' \in Seq(Msgs) /\ heldq' \in Seq(Msgs)
        /\ Len(retryq') >= Len(retryq)
    BY <1>1, <1>2, <1>3, FinishFacts DEF FinishTop, Messages
  <1>5. /\ busy' = Front(busy) /\ pc' = AfterPacket
        /\ rebuilt' = IF ctx[Top].kind = "wire" THEN 0 ELSE rebuilt
        /\ UNCHANGED <<chain, req, onhold, worker, rx, ret, cur, target, due, idling, stalled,
                       resuming, unpurged>>
    BY <1>2 DEF FinishTop
  <1>6. AfterPacket \in {"timeouts", "unhold"}
    BY DEF AfterPacket
  <1>7. busy' \in Seq(Contexts) /\ Stack'
    BY <1>2, <1>4, <1>5, AfterFacts, PopStack
  <1>8. TypeOK'
    BY <1>1, <1>4, <1>5, <1>6, <1>7, SMTT(20) DEF TypeOK
  <1>9. Offloaded' /\ Chains'
    <2>1. \A d \in Contexts : ctx[d].state = "suspended" => Kept(d)
      BY <1>3, <1>4
    <2>2. \A d \in Contexts : ctx'[d].offloaded => Kept(d)
      BY <1>4, IdleFacts
    <2>. QED  BY <1>1, <1>5, <2>1, <2>2, OffloaderFrame
  <1>10. Due'
    BY <1>1, <1>2, <1>4, <1>5, <1>6, SMTT(20) DEF Due, TypeOK
  <1>11. Messages'
    BY <1>1, <1>2, <1>4, <1>5, <1>6, IdleFacts DEF Messages, Kept
  <1>. QED  BY <1>7, <1>8, <1>9, <1>10, <1>11 DEF IInv

(* A flush is over, or a flow retired. *)
LEMMA FlushSteps ==
    ASSUME IInv, FlushEnd \/ PurgeCleared
    PROVE  IInv'
  <1>. USE DEF offloader, msgs
  <1>1. TypeOK /\ Stack /\ Offloaded /\ Chains /\ Due /\ Messages
    BY DEF IInv
  <1>2. pc \in {"pclear", "inspect"} /\ (pc = "inspect" => ctx[Top].kind = "flush")
    BY DEF FlushEnd, PurgeCleared, Inspecting
  <1>3. Top \in Contexts /\ ctx[Top].state = "busy" /\ Len(busy) = 1
    BY <1>1, <1>2, TopFacts DEF Stack
  <1>4. pool' \subseteq Msgs /\ heldq' \in Seq(Msgs)
    <2>1. CASE FlushEnd
      <3>1. Held(target) \subseteq Msgs
        BY <1>1, RangeFacts DEF Held, TypeOK
      <3>. QED  BY <1>1, <2>1, <3>1, UnheldFacts DEF FlushEnd, TypeOK
    <2>2. CASE PurgeCleared
      BY <1>1, <2>2 DEF PurgeCleared, TypeOK
    <2>. QED  BY <2>1, <2>2
  <1>5. /\ UNCHANGED <<chain, req, onhold, worker, rx, retryq, ret, cur, due, idling, resuming,
                       unpurged>>
        /\ stalled' \in BOOLEAN /\ rebuilt' \in Nat
    <2>1. CASE FlushEnd
      BY <1>1, <2>1 DEF FlushEnd, TypeOK
    <2>2. CASE PurgeCleared
      BY <1>1, <2>2 DEF PurgeCleared, Through, TypeOK
    <2>. QED  BY <2>1, <2>2
  <1>6. CASE ctx' = ctx
    <2>1. UNCHANGED <<ctx, busy, target>> /\ pc' = "pclear" /\ pc = "inspect" /\ ret = "purge"
      <3>1. IdleContext.state # ctx[Top].state
        BY <1>3, IdleFacts
      <3>2. ctx' # [ctx EXCEPT ![Top] = IdleContext]
        BY <1>1, <1>3, <1>6, <3>1 DEF TypeOK
      <3>. QED  BY <3>2 DEF FlushEnd, PurgeCleared, Inspecting
    <2>2. TypeOK'
      BY <1>1, <1>4, <1>5, <2>1 DEF TypeOK
    <2>3. Offloaded' /\ Chains'
      BY <1>1, <1>5, <2>1, OffloaderFrame DEF Kept
    <2>4. Stack'
      BY <1>1, <1>3, <2>1 DEF Stack
    <2>5. Due' /\ Messages'
      BY <1>1, <1>5, <2>1 DEF Due, Messages, TypeOK
    <2>. QED  BY <2>2, <2>3, <2>4, <2>5 DEF IInv
  <1>7. CASE ctx' # ctx
    <2>1. /\ ctx' = [ctx EXCEPT ![Top] = IdleContext] /\ busy' = Front(busy) /\ target' = None
          /\ pc' \in {"onload", "retry", "timeouts", "purge"}
          /\ due > 0 => pc' = "retry"
      BY <1>1, <1>7 DEF FlushEnd, PurgeCleared, Inspecting, Due, TypeOK
    <2>2. /\ ctx' \in [Contexts -> Context] /\ ctx'[Top] = IdleContext
          /\ \A d \in Contexts \ {Top} : Kept(d)
      BY <1>1, <1>3, <2>1, IdleFacts DEF TypeOK, Kept
    <2>3. busy' \in Seq(Contexts) /\ Stack'
      BY <1>2, <1>3, <2>1, <2>2, PopStack
    <2>4. TypeOK'
      BY <1>1, <1>4, <1>5, <2>1, <2>2, <2>3 DEF TypeOK
    <2>5. Offloaded' /\ Chains'
      <3>1. \A d \in Contexts : ctx[d].state = "suspended" => Kept(d)
        BY <1>3, <2>2
      <3>2. \A d \in Contexts : ctx'[d].offloaded => Kept(d)
        BY <2>2, IdleFacts
      <3>. QED  BY <1>1, <1>5, <3>1, <3>2, OffloaderFrame
    <2>6. Due'
      BY <1>1, <1>5, <2>1 DEF Due, TypeOK
    <2>7. Messages'
      BY <1>1, <1>2, <1>5, <2>1, <2>2, IdleFacts DEF Messages, Kept
    <2>. QED  BY <2>3, <2>4, <2>5, <2>6, <2>7 DEF IInv
  <1>. QED  BY <1>6, <1>7
-----------------------------------------------------------------------------
(* The steps that suspend and resume packets. *)

(* d is in g's chain after the step. *)
ChainedNext(d, g) == \E i \in 1 .. Len(chain'[g]) : chain'[g][i] = d

(* Suspending a packet puts it at the end of its flow's chain. *)
LEMMA SuspendFrame ==
    ASSUME IInv, NEW o \in BOOLEAN, Suspend(o), Inspecting, ctx[Top].kind # "flush",
           ctx[Top].flow # None, o \/ chain[ctx[Top].flow] # <<>>
    PROVE  /\ Top \in Contexts /\ ctx[Top].state = "busy" /\ ctx[Top].flow \in Flows
           /\ ctx' \in [Contexts -> Context] /\ \A d \in Contexts \ {Top} : Kept(d)
           /\ ctx'[Top].state = "suspended" /\ ctx'[Top].offloaded = o
           /\ ctx'[Top].flow = ctx[Top].flow
           /\ ctx'[Top].kind = ctx[Top].kind /\ ctx'[Top].msg = ctx[Top].msg
           /\ busy' \in Seq(Contexts) /\ chain' \in [Flows -> Seq(Contexts)]
           /\ \A g \in Flows, d \in Contexts : Chained(d, g) => ChainedNext(d, g)
           /\ ChainedNext(Top, ctx[Top].flow)
           /\ Stack' /\ Chains'
  <1>1. TypeOK /\ Stack /\ Offloaded /\ Chains /\ pc = "inspect" /\ resuming = None
    BY DEF IInv, Inspecting
  <1>2. Top \in Contexts /\ ctx[Top].state = "busy"
    BY <1>1, TopFacts
  <1>3. ctx \in [Contexts -> Context] /\ chain \in [Flows -> Seq(Contexts)]
    BY <1>1 DEF TypeOK
  <1>. DEFINE c == Top
              f == ctx[Top].flow
  <1>4. f \in Flows
    BY <1>2, <1>3 DEF Context
  <1>5. /\ ctx' = [ctx EXCEPT ![c].state = "suspended", ![c].offloaded = o]
        /\ busy' = Front(busy) /\ chain' = [chain EXCEPT ![f] = Append(@, c)]
        /\ pc' = AfterPacket /\ resuming' = resuming
    BY DEF Suspend
  <1>6. c \in Contexts /\ ctx[c].state = "busy"
    BY <1>2
  <1>7. /\ AfterPacket \in {"timeouts", "unhold"}
        /\ \/ Len(busy) = 2 /\ AfterPacket = "unhold"
           \/ Len(busy) = 1 /\ AfterPacket = "timeouts"
    BY <1>1, AfterFacts
  <1>8. ctx[c].flow = f /\ (o \/ chain[f] # <<>>)
    OBVIOUS
  <1>9. \A d \in Contexts \ {c} : d \in Contexts \ {Top}
    OBVIOUS
  <1>10. Top = c /\ ctx[Top].flow = f
    OBVIOUS
  <1>. HIDE DEF c, f
  <1>11. /\ ctx' \in [Contexts -> Context] /\ \A d \in Contexts \ {c} : Kept(d)
         /\ ctx'[c].state = "suspended" /\ ctx'[c].offloaded = o /\ ctx'[c].flow = f
         /\ ctx'[c].kind = ctx[c].kind /\ ctx'[c].msg = ctx[c].msg
    <2>. DEFINE mid == [ctx EXCEPT ![c].state = "suspended"]
    <2>1. /\ mid \in [Contexts -> Context] /\ \A d \in Contexts \ {c} : mid[d] = ctx[d]
          /\ mid[c].state = "suspended" /\ mid[c].flow = f
          /\ mid[c].kind = ctx[c].kind /\ mid[c].msg = ctx[c].msg
      BY <1>3, <1>6, <1>8 DEF Context
    <2>2. ctx' = [mid EXCEPT ![c].offloaded = o]
      BY <1>5
    <2>. HIDE DEF mid
    <2>3. /\ ctx' \in [Contexts -> Context] /\ \A d \in Contexts \ {c} : ctx'[d] = mid[d]
          /\ ctx'[c].state = mid[c].state /\ ctx'[c].flow = mid[c].flow /\ ctx'[c].offloaded = o
          /\ ctx'[c].kind = mid[c].kind /\ ctx'[c].msg = mid[c].msg
      BY <1>6, <2>1, <2>2, SMTT(20) DEF Context
    <2>. QED  BY <2>1, <2>3 DEF Kept
  <1>12. busy' \in Seq(Contexts) /\ Stack'
    BY <1>1, <1>5, <1>7, <1>10, <1>11, PopStack
  <1>13. /\ chain' \in [Flows -> Seq(Contexts)] /\ \A g \in Flows \ {f} : chain'[g] = chain[g]
         /\ Len(chain[f]) \in Nat /\ Len(chain'[f]) = Len(chain[f]) + 1
         /\ \A i \in 1 .. Len(chain[f]) : chain'[f][i] = chain[f][i]
         /\ chain'[f][Len(chain[f]) + 1] = c
    BY <1>3, <1>4, <1>5, <1>6, AppendFacts, SeqLength, SMTT(20)
  <1>14. \A g \in Flows, d \in Contexts : Chained(d, g) => ChainedNext(d, g)
    BY <1>3, <1>13, SMTT(20) DEF Chained, ChainedNext
  <1>15. ChainedNext(c, f)
    BY <1>13, SMTT(20) DEF ChainedNext
  <1>16. Chains'
    <2>1. \A g \in Flows : \A i \in 1 .. Len(chain[g]) :
             /\ chain[g][i] \in Contexts \ {c} /\ Kept(chain[g][i])
             /\ ctx[chain[g][i]].state = "suspended" /\ ctx[chain[g][i]].flow = g
      BY <1>1, <1>3, <1>6, <1>11, SeqElement, SMTT(20) DEF Chains
    <2>2. (\A g \in Flows : \A i \in 1 .. Len(chain[g]) :
             ctx[chain[g][i]].state = "suspended" /\ ctx[chain[g][i]].flow = g)'
      BY <1>11, <1>13, <2>1, SMTT(20) DEF Kept
    <2>3. (\A g \in Flows : \A i, j \in 1 .. Len(chain[g]) : chain[g][i] = chain[g][j] => i = j)'
      <3>1. \A g \in Flows : \A i, j \in 1 .. Len(chain[g]) : chain[g][i] = chain[g][j] => i = j
        BY <1>1 DEF Chains
      <3>2. \A i \in 1 .. Len(chain[f]) : chain[f][i] # c
        BY <1>4, <2>1
      <3>3. ASSUME NEW i \in 1 .. Len(chain'[f]), NEW j \in 1 .. Len(chain'[f]),
                   chain'[f][i] = chain'[f][j]
            PROVE  i = j
        <4>1. /\ i \in 1 .. Len(chain[f]) \/ i = Len(chain[f]) + 1
              /\ j \in 1 .. Len(chain[f]) \/ j = Len(chain[f]) + 1
          BY <1>13, SMTT(20)
        <4>. QED  BY <1>4, <1>13, <3>1, <3>2, <3>3, <4>1
      <3>4. \A g \in Flows \ {f} : \A i, j \in 1 .. Len(chain'[g]) : chain'[g][i] = chain'[g][j] => i = j
        BY <1>13, <3>1
      <3>. QED  BY <3>3, <3>4
    <2>4. \A g \in Flows : chain[g] # <<>> =>
             1 \in 1 .. Len(chain[g]) /\ ctx[chain[g][1]].offloaded
      BY <1>1, <1>3, <1>4, SeqEmpty, PacketPathAssumption, SMTT(20) DEF Chains
    <2>5. (\A g \in Flows : chain[g] # <<>> => ctx[chain[g][1]].offloaded)'
      <3>1. \A g \in Flows \ {f} : chain'[g] # <<>> => ctx'[chain'[g][1]].offloaded
        BY <1>13, <2>1, <2>4, SMTT(20) DEF Kept
      <3>2. CASE chain[f] = <<>>
        <4>1. Len(chain[f]) = 0
          BY <3>2, SMTT(20)
        <4>2. chain'[f][1] = c
          BY <1>13, <4>1, SMTT(20)
        <4>3. ctx'[c].offloaded
          BY <1>8, <1>11, <3>2
        <4>. QED  BY <3>1, <4>2, <4>3
      <3>3. CASE chain[f] # <<>>
        BY <1>4, <1>13, <2>1, <2>4, <3>1, <3>3, SMTT(20) DEF Kept
      <3>. QED  BY <3>2, <3>3
    <2>. QED  BY <1>1, <1>5, <2>2, <2>3, <2>5 DEF Chains
  <1>. QED  BY <1>4, <1>6, <1>10, <1>11, <1>12, <1>13, <1>14, <1>15, <1>16

(* What does not concern the offloader when a packet is suspended. *)
LEMMA SuspendRest ==
    ASSUME IInv, NEW o \in BOOLEAN, Suspend(o), Inspecting, ctx[Top].kind # "flush",
           ctx[Top].flow # None, o \/ chain[ctx[Top].flow] # <<>>,
           req' \in [Requests -> [pkt : Contexts \cup {None}, offload : BOOLEAN, go : BOOLEAN]],
           onhold' \in Seq(Requests),
           worker' \in [Requests -> {"idle", "woken", "search", "exit"}], Offloaded'
    PROVE  IInv'
  <1>1. TypeOK /\ Due /\ Messages /\ pc = "inspect"
    BY DEF IInv, Inspecting
  <1>2. /\ Top \in Contexts /\ ctx' \in [Contexts -> Context]
        /\ \A d \in Contexts \ {Top} : Kept(d)
        /\ ctx'[Top].kind = ctx[Top].kind /\ ctx'[Top].msg = ctx[Top].msg
        /\ busy' \in Seq(Contexts) /\ chain' \in [Flows -> Seq(Contexts)]
        /\ Stack' /\ Chains'
    BY SuspendFrame
  <1>3. /\ pc' \in {"timeouts", "unhold"}
        /\ rebuilt' \in Nat
        /\ UNCHANGED <<pool, rx, retryq, heldq, ret, cur, target, due, idling, stalled, resuming,
                       unpurged>>
    BY <1>1 DEF Suspend, AfterPacket, msgs, TypeOK
  <1>4. Due'
    BY <1>1, <1>3 DEF Due, TypeOK
  <1>5. Messages'
    BY <1>1, <1>2, <1>3 DEF Messages, Kept
  <1>6. TypeOK'
    BY <1>1, <1>2, <1>3 DEF TypeOK
  <1>. QED  BY <1>2, <1>4, <1>5, <1>6 DEF IInv

(* The packets that were offloaded before stay so when one is suspended. *)
LEMMA SuspendKeeps ==
    ASSUME IInv, NEW o \in BOOLEAN, Suspend(o), Inspecting, ctx[Top].kind # "flush",
           ctx[Top].flow # None, o \/ chain[ctx[Top].flow] # <<>>
    PROVE  /\ \A q \in Requests : req[q].pkt # None =>
                 /\ req[q].pkt \in Contexts \ {Top}
                 /\ ctx'[req[q].pkt].state = "suspended" /\ ctx'[req[q].pkt].offloaded
           /\ \A d \in Contexts \ {Top} : ctx'[d].offloaded =>
                 /\ \E q \in Requests : req[q].pkt = d
                 /\ ctx'[d].flow \in Flows /\ ChainedNext(d, ctx'[d].flow)
  <1>1. Offloaded
    BY DEF IInv
  <1>2. req \in [Requests -> [pkt : Contexts \cup {None}, offload : BOOLEAN, go : BOOLEAN]]
    BY DEF IInv, TypeOK
  <1>3. /\ Top \in Contexts /\ ctx[Top].state = "busy"
        /\ \A d \in Contexts \ {Top} : Kept(d)
        /\ \A g \in Flows, d \in Contexts : Chained(d, g) => ChainedNext(d, g)
    BY SuspendFrame
  <1>4. \A q \in Requests : req[q].pkt # None =>
           /\ req[q].pkt \in Contexts \ {Top}
           /\ ctx[req[q].pkt].state = "suspended" /\ ctx[req[q].pkt].offloaded
    BY <1>1, <1>2, <1>3 DEF Offloaded
  <1>5. \A d \in Contexts : ctx[d].offloaded =>
           /\ \E q \in Requests : req[q].pkt = d
           /\ ctx[d].flow \in Flows /\ ChainedNext(d, ctx[d].flow)
    BY <1>1, <1>3 DEF Offloaded
  <1>. QED  BY <1>3, <1>4, <1>5, SMTT(20) DEF Kept

(* A packet is suspended behind others of its flow. *)
LEMMA SuspendBehindStep ==
    ASSUME IInv, SuspendBehind
    PROVE  IInv'
  <1>1. /\ Suspend(FALSE) /\ Inspecting /\ ctx[Top].kind # "flush" /\ ctx[Top].flow # None
        /\ chain[ctx[Top].flow] # <<>> /\ UNCHANGED <<req, onhold, worker>>
    BY DEF SuspendBehind, offloader
  <1>2. TypeOK /\ Offloaded
    BY DEF IInv
  <1>3. Top \in Contexts /\ ctx'[Top].offloaded = FALSE
    BY <1>1, SuspendFrame
  <1>4. /\ \A q \in Requests : req[q].pkt # None =>
              ctx'[req[q].pkt].state = "suspended" /\ ctx'[req[q].pkt].offloaded
        /\ \A d \in Contexts \ {Top} : ctx'[d].offloaded =>
              /\ \E q \in Requests : req[q].pkt = d
              /\ ctx'[d].flow \in Flows /\ ChainedNext(d, ctx'[d].flow)
    BY <1>1, SuspendKeeps
  <1>5. Offloaded'
    <2>1. (\A c \in Contexts : ctx[c].offloaded =>
             /\ \E q \in Requests : req[q].pkt = c
             /\ ctx[c].flow \in Flows /\ Chained(c, ctx[c].flow))'
      BY <1>1, <1>3, <1>4 DEF Chained, ChainedNext
    <2>. QED  BY <1>1, <1>2, <1>4, <2>1, SMTT(20) DEF Offloaded, OnHold
  <1>. QED  BY <1>1, <1>2, <1>5, SuspendRest DEF TypeOK

(* A packet is suspended and offloaded. *)
LEMMA OffloadStep ==
    ASSUME IInv, Offload
    PROVE  IInv'
  <1>1. /\ Suspend(TRUE) /\ Inspecting /\ ctx[Top].kind # "flush" /\ ctx[Top].flow # None
        /\ Range(onhold) # Requests
    BY DEF Offload
  <1>2. /\ TypeOK /\ Offloaded
        /\ req \in [Requests -> [pkt : Contexts \cup {None}, offload : BOOLEAN, go : BOOLEAN]]
        /\ onhold \in Seq(Requests) /\ worker \in [Requests -> {"idle", "woken", "search", "exit"}]
    BY DEF IInv, TypeOK
  <1>3. /\ Top \in Contexts /\ ctx[Top].flow \in Flows
        /\ ctx'[Top].state = "suspended" /\ ctx'[Top].offloaded = TRUE
        /\ ctx'[Top].flow = ctx[Top].flow /\ ChainedNext(Top, ctx[Top].flow)
    BY <1>1, SuspendFrame
  <1>4. /\ \A q \in Requests : req[q].pkt # None =>
              /\ req[q].pkt \in Contexts \ {Top}
              /\ ctx'[req[q].pkt].state = "suspended" /\ ctx'[req[q].pkt].offloaded
        /\ \A d \in Contexts \ {Top} : ctx'[d].offloaded =>
              /\ \E q \in Requests : req[q].pkt = d
              /\ ctx'[d].flow \in Flows /\ ChainedNext(d, ctx'[d].flow)
    BY <1>1, SuspendKeeps
  <1>. DEFINE c == Top
              r == CHOOSE q \in Requests : q \notin Range(onhold)
  <1>5. r \in Requests /\ r \notin Range(onhold)
    BY <1>1, <1>2, RangeFacts
  <1>6. /\ req' = [req EXCEPT ![r].pkt = c, ![r].offload = TRUE]
        /\ onhold' = Append(onhold, r)
        /\ worker' = [q \in Requests |-> IF q \in {r} THEN "woken" ELSE worker[q]]
    BY DEF Offload, Notify
  <1>7. c = Top
    OBVIOUS
  <1>. HIDE DEF c, r
  <1>8. /\ req' \in [Requests -> [pkt : Contexts \cup {None}, offload : BOOLEAN, go : BOOLEAN]]
        /\ req'[r].pkt = c /\ \A q \in Requests \ {r} : req'[q] = req[q]
    BY <1>2, <1>3, <1>5, <1>6, <1>7
  <1>9. /\ onhold' \in Seq(Requests) /\ Len(onhold') = Len(onhold) + 1 /\ Len(onhold) \in Nat
        /\ \A i \in 1 .. Len(onhold) : onhold'[i] = onhold[i] /\ onhold[i] # r
        /\ onhold'[Len(onhold) + 1] = r
    BY <1>2, <1>5, <1>6, AppendFacts, RangeFacts, SeqLength, SMTT(20)
  <1>10. /\ worker' \in [Requests -> {"idle", "woken", "search", "exit"}]
         /\ worker'[r] # "search" /\ \A q \in Requests \ {r} : worker'[q] = worker[q]
    BY <1>2, <1>5, <1>6
  <1>11. ~OnHold(r) /\ req[r].pkt = None
    BY <1>2, <1>5, <1>9, SMTT(20) DEF OnHold, Offloaded
  <1>12. \A q \in Requests : (OnHold(q))' <=> (q = r \/ OnHold(q))
    BY <1>9, SMTT(20) DEF OnHold
  <1>13. Offloaded'
    <2>1. (\A i, j \in 1 .. Len(onhold) : onhold[i] = onhold[j] => i = j)'
      BY <1>2, <1>9, SMTT(20) DEF Offloaded
    <2>2. (\A q \in Requests : (req[q].pkt # None <=> OnHold(q)) /\ (req[q].offload => OnHold(q)))'
      BY <1>2, <1>3, <1>5, <1>7, <1>8, <1>12, PacketPathAssumption, SMTT(20) DEF Offloaded
    <2>3. (\A q \in Requests : worker[q] = "search" => req[q].offload)'
      BY <1>2, <1>8, <1>10 DEF Offloaded
    <2>4. (\A q \in Requests : req[q].pkt # None =>
              ctx[req[q].pkt].state = "suspended" /\ ctx[req[q].pkt].offloaded)'
      BY <1>3, <1>4, <1>7, <1>8
    <2>5. (\A q, s \in Requests : req[q].pkt # None /\ req[q].pkt = req[s].pkt => q = s)'
      BY <1>2, <1>3, <1>4, <1>7, <1>8, PacketPathAssumption, SMTT(20) DEF Offloaded
    <2>6. (\A d \in Contexts : ctx[d].offloaded =>
              /\ \E q \in Requests : req[q].pkt = d
              /\ ctx[d].flow \in Flows /\ Chained(d, ctx[d].flow))'
      <3>1. \A d \in Contexts \ {c} : ctx'[d].offloaded => \E q \in Requests : req'[q].pkt = d
        <4>. SUFFICES ASSUME NEW d \in Contexts \ {c}, ctx'[d].offloaded
                      PROVE  \E q \in Requests : req'[q].pkt = d
          OBVIOUS
        <4>1. PICK q \in Requests : req[q].pkt = d
          BY <1>4, <1>7
        <4>2. q # r
          BY <1>11, <4>1, PacketPathAssumption
        <4>. QED  BY <1>8, <4>1, <4>2
      <3>2. \A d \in Contexts \ {c} : ctx'[d].offloaded =>
               ctx'[d].flow \in Flows /\ ChainedNext(d, ctx'[d].flow)
        BY <1>4, <1>7
      <3>3. ctx'[c].flow \in Flows /\ ChainedNext(c, ctx'[c].flow) /\ req'[r].pkt = c
        BY <1>3, <1>7, <1>8
      <3>. QED  BY <1>5, <3>1, <3>2, <3>3 DEF Chained, ChainedNext
    <2>. QED  BY <2>1, <2>2, <2>3, <2>4, <2>5, <2>6 DEF Offloaded
  <1>. QED  BY <1>1, <1>8, <1>9, <1>10, <1>13, SuspendRest

(* A packet that comes back only stops being offloaded. *)
LEMMA OffloadedFacts ==
    ASSUME TypeOK, NEW c \in Contexts, ctx' = [ctx EXCEPT ![c].offloaded = FALSE]
    PROVE  /\ ctx' \in [Contexts -> Context] /\ \A d \in Contexts \ {c} : Kept(d)
           /\ ctx'[c].offloaded = FALSE /\ ctx'[c].state = ctx[c].state
           /\ ctx'[c].flow = ctx[c].flow /\ ctx'[c].kind = ctx[c].kind /\ ctx'[c].msg = ctx[c].msg
  <1>1. ctx \in [Contexts -> Context] /\ FALSE \in BOOLEAN
    BY DEF TypeOK
  <1>2. [ctx[c] EXCEPT !.offloaded = FALSE] \in Context
    BY <1>1 DEF Context
  <1>3. ctx' \in [Contexts -> Context] /\ \A d \in Contexts \ {c} : ctx'[d] = ctx[d]
    BY <1>1, <1>2
  <1>4. /\ ctx'[c].offloaded = FALSE /\ ctx'[c].state = ctx[c].state
        /\ ctx'[c].flow = ctx[c].flow /\ ctx'[c].kind = ctx[c].kind /\ ctx'[c].msg = ctx[c].msg
    BY <1>1 DEF Context
  <1>. QED  BY <1>3, <1>4 DEF Kept

(* A request is taken back. *)
LEMMA OnloadStep ==
    ASSUME IInv, Onload
    PROVE  IInv'
  <1>1. TypeOK /\ Stack /\ Offloaded /\ Chains /\ Due /\ Messages
    BY DEF IInv
  <1>2. /\ ctx \in [Contexts -> Context] /\ chain \in [Flows -> Seq(Contexts)]
        /\ req \in [Requests -> [pkt : Contexts \cup {None}, offload : BOOLEAN, go : BOOLEAN]]
        /\ onhold \in Seq(Requests) /\ worker \in [Requests -> {"idle", "woken", "search", "exit"}]
    BY <1>1 DEF TypeOK
  <1>3. /\ UNCHANGED <<busy, chain, worker, pool, rx, retryq, heldq, pc, ret, cur, target, due,
                       idling, stalled, rebuilt, unpurged>>
        /\ resuming = None
    BY DEF Onload, msgs
  <1>4. PICK i \in Get :
          LET r == onhold[i]
              c == req[r].pkt
              f == ctx[c].flow
          IN  /\ req' = [req EXCEPT ![r].pkt = None]
              /\ onhold' = RemoveAt(onhold, i)
              /\ ctx' = [ctx EXCEPT ![c].offloaded = FALSE]
              /\ resuming' = IF Ready(f, chain, ctx') THEN f ELSE None
    BY DEF Onload
  <1>. DEFINE r == onhold[i]
              c == req[r].pkt
              f == ctx[c].flow
  <1>5. /\ req' = [req EXCEPT ![r].pkt = None] /\ onhold' = RemoveAt(onhold, i)
        /\ ctx' = [ctx EXCEPT ![c].offloaded = FALSE]
        /\ resuming' = IF Ready(f, chain, ctx') THEN f ELSE None
    BY <1>4
  <1>6. i \in 1 .. Len(onhold) /\ Len(onhold) \in Nat /\ r \in Requests /\ ~req[r].offload
    BY <1>2, SeqLength, SeqElement, SMTT(20) DEF Get
  <1>7. OnHold(r)
    BY <1>6 DEF OnHold
  <1>8. /\ c \in Contexts /\ ctx[c].state = "suspended" /\ ctx[c].offloaded
        /\ f \in Flows /\ Chained(c, f)
    BY <1>1, <1>2, <1>6, <1>7, SMTT(20) DEF Offloaded
  <1>9. ctx[c].flow = f /\ req[r].pkt = c /\ onhold[i] = r
    OBVIOUS
  <1>. HIDE DEF r, c, f
  <1>10. /\ ctx' \in [Contexts -> Context] /\ \A d \in Contexts \ {c} : Kept(d)
         /\ ctx'[c].offloaded = FALSE /\ ctx'[c].state = ctx[c].state
         /\ ctx'[c].flow = f /\ ctx'[c].kind = ctx[c].kind /\ ctx'[c].msg = ctx[c].msg
    BY <1>1, <1>5, <1>8, <1>9, OffloadedFacts
  <1>11. /\ req' \in [Requests -> [pkt : Contexts \cup {None}, offload : BOOLEAN, go : BOOLEAN]]
         /\ req'[r].pkt = None /\ ~req'[r].offload
         /\ \A q \in Requests \ {r} : req'[q] = req[q]
    BY <1>2, <1>5, <1>6
  <1>12. /\ onhold' \in Seq(Requests) /\ Len(onhold') = Len(onhold) - 1
         /\ \A j \in 1 .. i - 1 : onhold'[j] = onhold[j]
         /\ \A j \in i .. Len(onhold) - 1 : onhold'[j] = onhold[j + 1]
    BY <1>2, <1>5, <1>6, RemoveAtFacts, SMTT(20)
  <1>13. \A j, k \in 1 .. Len(onhold) : onhold[j] = onhold[k] => j = k
    BY <1>1 DEF Offloaded
  <1>14. \A q \in Requests : (OnHold(q))' <=> (q # r /\ OnHold(q))
    <2>1. ASSUME NEW q \in Requests, NEW j \in 1 .. Len(onhold'), onhold'[j] = q
          PROVE  q # r /\ OnHold(q)
      <3>1. CASE j < i
        <4>1. j \in 1 .. Len(onhold) /\ onhold[j] = q /\ j # i
          BY <1>6, <1>12, <2>1, <3>1, SMTT(20)
        <4>. QED  BY <1>6, <1>9, <1>13, <4>1 DEF OnHold
      <3>2. CASE ~(j < i)
        <4>1. j + 1 \in 1 .. Len(onhold) /\ onhold[j + 1] = q /\ j + 1 # i
          BY <1>6, <1>12, <2>1, <3>2, SMTT(20)
        <4>. QED  BY <1>6, <1>9, <1>13, <4>1 DEF OnHold
      <3>. QED  BY <3>1, <3>2
    <2>2. ASSUME NEW q \in Requests, q # r, NEW j \in 1 .. Len(onhold), onhold[j] = q
          PROVE  (OnHold(q))'
      <3>1. CASE j < i
        BY <1>6, <1>12, <2>2, <3>1, SMTT(20) DEF OnHold
      <3>2. CASE j > i
        <4>1. j - 1 \in i .. Len(onhold) - 1 /\ onhold'[j - 1] = onhold[j]
          BY <1>6, <1>12, <3>2, SMTT(20)
        <4>. QED  BY <1>6, <1>12, <2>2, <4>1, SMTT(20) DEF OnHold
      <3>3. j # i
        BY <1>9, <2>2
      <3>. QED  BY <1>6, <3>1, <3>2, <3>3, SMTT(20)
    <2>. QED  BY <2>1, <2>2 DEF OnHold
  <1>15. Offloaded'
    <2>1. (\A j, k \in 1 .. Len(onhold) : onhold[j] = onhold[k] => j = k)'
      <3>. SUFFICES ASSUME NEW j \in 1 .. Len(onhold) - 1, NEW k \in 1 .. Len(onhold) - 1,
                           onhold'[j] = onhold'[k]
                    PROVE  j = k
        BY <1>6, <1>12
      <3>. DEFINE a == IF j < i THEN j ELSE j + 1
                  b == IF k < i THEN k ELSE k + 1
      <3>1. onhold'[j] = onhold[a] /\ a \in 1 .. Len(onhold)
        BY <1>6, <1>12, SMTT(20)
      <3>2. onhold'[k] = onhold[b] /\ b \in 1 .. Len(onhold)
        BY <1>6, <1>12, SMTT(20)
      <3>3. a = b => j = k
        BY <1>6, SMTT(20)
      <3>. HIDE DEF a, b
      <3>. QED  BY <1>13, <3>1, <3>2, <3>3
    <2>2. (\A q \in Requests : (req[q].pkt # None <=> OnHold(q)) /\ (req[q].offload => OnHold(q)))'
      BY <1>1, <1>11, <1>14, SMTT(20) DEF Offloaded
    <2>3. (\A q \in Requests : worker[q] = "search" => req[q].offload)'
      BY <1>1, <1>3, <1>6, <1>11 DEF Offloaded
    <2>4. \A q \in Requests \ {r} : req[q].pkt # c
      BY <1>1, <1>6, <1>8, <1>9, PacketPathAssumption DEF Offloaded
    <2>5. (\A q \in Requests : req[q].pkt # None =>
              ctx[req[q].pkt].state = "suspended" /\ ctx[req[q].pkt].offloaded)'
      <3>1. \A q \in Requests \ {r} : req[q].pkt # None => Kept(req[q].pkt)
        BY <1>2, <1>10, <2>4
      <3>. QED  BY <1>1, <1>11, <3>1, SMTT(20) DEF Offloaded, Kept
    <2>6. (\A q, s \in Requests : req[q].pkt # None /\ req[q].pkt = req[s].pkt => q = s)'
      BY <1>1, <1>11, SMTT(20) DEF Offloaded
    <2>7. (\A d \in Contexts : ctx[d].offloaded =>
              /\ \E q \in Requests : req[q].pkt = d
              /\ ctx[d].flow \in Flows /\ Chained(d, ctx[d].flow))'
      <3>. SUFFICES ASSUME NEW d \in Contexts, ctx'[d].offloaded
                    PROVE  /\ \E q \in Requests : req'[q].pkt = d
                           /\ ctx'[d].flow \in Flows
                           /\ \E j \in 1 .. Len(chain'[ctx'[d].flow]) : chain'[ctx'[d].flow][j] = d
        BY DEF Chained
      <3>1. d # c /\ Kept(d)
        BY <1>10
      <3>2. PICK q \in Requests : req[q].pkt = d
        BY <1>1, <3>1 DEF Offloaded, Kept
      <3>3. req'[q].pkt = d
        BY <1>9, <1>11, <3>1, <3>2
      <3>4. ctx[d].flow \in Flows /\ Chained(d, ctx[d].flow)
        BY <1>1, <3>1 DEF Offloaded, Kept
      <3>. QED  BY <1>3, <3>1, <3>3, <3>4 DEF Chained, Kept
    <2>. QED  BY <2>1, <2>2, <2>3, <2>5, <2>6, <2>7 DEF Offloaded
  <1>16. Chains' /\ resuming' \in Flows \cup {None}
    <2>1. \A g \in Flows : \A j \in 1 .. Len(chain[g]) :
             /\ chain[g][j] \in Contexts /\ ctx'[chain[g][j]].state = "suspended"
             /\ ctx'[chain[g][j]].flow = g
      <3>. SUFFICES ASSUME NEW g \in Flows, NEW j \in 1 .. Len(chain[g])
                    PROVE  /\ chain[g][j] \in Contexts /\ ctx'[chain[g][j]].state = "suspended"
                           /\ ctx'[chain[g][j]].flow = g
        OBVIOUS
      <3>1. chain[g][j] \in Contexts
        BY <1>2, SeqElement
      <3>2. ctx[chain[g][j]].state = "suspended" /\ ctx[chain[g][j]].flow = g
        BY <1>1 DEF Chains
      <3>3. CASE chain[g][j] = c
        BY <1>9, <1>10, <3>1, <3>2, <3>3
      <3>4. CASE chain[g][j] # c
        BY <1>10, <3>1, <3>2, <3>4 DEF Kept
      <3>. QED  BY <3>3, <3>4
    <2>2. \A g \in Flows : chain[g] # <<>> =>
             1 \in 1 .. Len(chain[g]) /\ Head(chain[g]) = chain[g][1] /\ ctx[chain[g][1]].offloaded
      BY <1>1, <1>2, <1>3, SeqEmpty, PacketPathAssumption, SMTT(20) DEF Chains
    <2>3. \A g \in Flows \ {f} : chain[g] # <<>> => ctx'[chain[g][1]].offloaded
      <3>. SUFFICES ASSUME NEW g \in Flows \ {f}, chain[g] # <<>>
                    PROVE  ctx'[chain[g][1]].offloaded
        OBVIOUS
      <3>1. chain[g][1] \in Contexts \ {c}
        BY <1>10, <2>1, <2>2, SMTT(20)
      <3>. QED  BY <1>10, <2>2, <3>1 DEF Kept
    <2>4. CASE Ready(f, chain, ctx')
      <3>1. resuming' = f /\ chain[f] # <<>> /\ ~ctx'[chain[f][1]].offloaded
        BY <1>5, <1>8, <2>2, <2>4 DEF Ready
      <3>. QED  BY <1>1, <1>3, <1>8, <2>1, <2>3, <3>1 DEF Chains
    <2>5. CASE ~Ready(f, chain, ctx')
      <3>1. resuming' = None /\ (chain[f] # <<>> => ctx'[chain[f][1]].offloaded)
        BY <1>5, <1>8, <2>2, <2>5 DEF Ready
      <3>2. \A g \in Flows : chain[g] # <<>> => ctx'[chain[g][1]].offloaded
        BY <2>3, <3>1
      <3>. QED  BY <1>1, <1>3, <2>1, <3>1, <3>2 DEF Chains
    <2>. QED  BY <2>4, <2>5
  <1>17. Stack'
    <2>1. \A j \in 1 .. Len(busy) : busy[j] \in Contexts \ {c} /\ Kept(busy[j])
      BY <1>1, <1>8, <1>10, SeqElement DEF Stack, TypeOK
    <2>2. Len(busy) \in Nat
      BY <1>1, SeqLength DEF TypeOK
    <2>3. \A j \in 1 .. Len(busy) : ctx'[busy[j]].state = ctx[busy[j]].state
                                   /\ ctx'[busy[j]].kind = ctx[busy[j]].kind
      BY <2>1 DEF Kept
    <2>4. (Len(busy) >= 1 => 1 \in 1 .. Len(busy)) /\ (Len(busy) = 2 => 2 \in 1 .. Len(busy))
      BY <2>2, SMTT(20)
    <2>5. /\ Len(busy) >= 1 => ctx'[busy[1]].kind = ctx[busy[1]].kind
          /\ Len(busy) = 2 => ctx'[busy[2]].kind = ctx[busy[2]].kind
      BY <2>3, <2>4
    <2>6. \A j \in 1 .. Len(busy) : ctx'[busy[j]].state = "busy"
      BY <1>1, <2>3 DEF Stack
    <2>. QED  BY <1>1, <1>3, <2>5, <2>6 DEF Stack
  <1>18. TypeOK'
    <2>1. /\ busy' \in Seq(Contexts) /\ chain' \in [Flows -> Seq(Contexts)]
          /\ worker' \in [Requests -> {"idle", "woken", "search", "exit"}]
          /\ pool' \subseteq Msgs /\ rx' \in Seq(Msgs) /\ retryq' \in Seq(Msgs) /\ heldq' \in Seq(Msgs)
      BY <1>1, <1>3, SMTT(20) DEF TypeOK
    <2>. QED  BY <1>1, <1>3, <1>10, <1>11, <1>12, <1>16, <2>1, ControlTypes
  <1>19. Due' /\ Messages'
    BY <1>1, <1>3, <1>8, <1>10 DEF Due, Messages, Kept
  <1>. QED  BY <1>15, <1>16, <1>17, <1>18, <1>19 DEF IInv

(* The packet at the front of a chain is finished. *)
LEMMA ResumeStep ==
    ASSUME IInv, Resume
    PROVE  IInv'
  <1>1. TypeOK /\ Stack /\ Offloaded /\ Chains /\ Due /\ Messages
    BY DEF IInv
  <1>2. /\ ctx \in [Contexts -> Context] /\ chain \in [Flows -> Seq(Contexts)]
        /\ req \in [Requests -> [pkt : Contexts \cup {None}, offload : BOOLEAN, go : BOOLEAN]]
        /\ resuming \in Flows \cup {None}
    BY <1>1 DEF TypeOK
  <1>. DEFINE f == resuming
              c == Head(chain[f])
  <1>3. /\ UNCHANGED <<busy, req, onhold, worker, rx, pc, ret, cur, target, due, idling, stalled,
                       rebuilt, unpurged>>
        /\ resuming # None /\ Finish(c) /\ chain' = [chain EXCEPT ![f] = Tail(@)]
        /\ resuming' = IF Ready(f, chain', ctx') THEN f ELSE None
    BY DEF Resume, offloader
  <1>4. /\ f \in Flows /\ chain[f] \in Seq(Contexts) /\ chain[f] # <<>> /\ resuming = f
        /\ ~ctx[chain[f][1]].offloaded
    BY <1>1, <1>2, <1>3 DEF Chains
  <1>5. /\ c \in Contexts /\ c = chain[f][1] /\ Len(chain[f]) \in Nat \ {0}
        /\ Tail(chain[f]) \in Seq(Contexts) /\ Len(Tail(chain[f])) = Len(chain[f]) - 1
        /\ \A i \in 1 .. Len(chain[f]) - 1 : Tail(chain[f])[i] = chain[f][i + 1]
    BY <1>4, TailFacts
  <1>6. ctx[c].state = "suspended" /\ ctx[c].flow = f /\ ~ctx[c].offloaded
    BY <1>1, <1>4, <1>5, SMTT(20) DEF Chains
  <1>7. /\ ctx' \in [Contexts -> Context] /\ ctx'[c] = IdleContext
        /\ \A d \in Contexts \ {c} : Kept(d)
        /\ pool' \subseteq Msgs /\ retryq' \in Seq(Msgs) /\ heldq' \in Seq(Msgs)
        /\ Len(retryq') >= Len(retryq)
    <2>1. ctx[c].kind = "wire" => ctx[c].msg # None
      BY <1>1, <1>5 DEF Messages
    <2>. QED  BY <1>1, <1>3, <1>5, <2>1, FinishFacts
  <1>. HIDE DEF c, f
  <1>8. /\ chain' \in [Flows -> Seq(Contexts)] /\ chain'[f] = Tail(chain[f])
        /\ \A g \in Flows \ {f} : chain'[g] = chain[g]
    BY <1>2, <1>3, <1>4, <1>5
  <1>9. \A g \in Flows : \A i, j \in 1 .. Len(chain[g]) : chain[g][i] = chain[g][j] => i = j
    BY <1>1 DEF Chains
  <1>10. \A i \in 1 .. Len(chain'[f]) : chain'[f][i] = chain[f][i + 1] /\ chain'[f][i] # c
    BY <1>4, <1>5, <1>8, <1>9, SMTT(20)
  <1>11. Offloaded'
    <2>1. \A q \in Requests : req[q].pkt # None =>
             req[q].pkt \in Contexts \ {c} /\ Kept(req[q].pkt)
      BY <1>1, <1>2, <1>6, <1>7 DEF Offloaded
    <2>2. (\A q \in Requests : req[q].pkt # None =>
              ctx[req[q].pkt].state = "suspended" /\ ctx[req[q].pkt].offloaded)'
      BY <1>1, <1>3, <2>1 DEF Offloaded, Kept
    <2>3. (\A d \in Contexts : ctx[d].offloaded =>
              /\ \E q \in Requests : req[q].pkt = d
              /\ ctx[d].flow \in Flows /\ Chained(d, ctx[d].flow))'
      <3>. SUFFICES ASSUME NEW d \in Contexts, ctx'[d].offloaded
                    PROVE  /\ \E q \in Requests : req'[q].pkt = d
                           /\ ctx'[d].flow \in Flows
                           /\ \E j \in 1 .. Len(chain'[ctx'[d].flow]) : chain'[ctx'[d].flow][j] = d
        BY DEF Chained
      <3>1. d # c /\ Kept(d)
        BY <1>7, IdleFacts
      <3>2. /\ \E q \in Requests : req[q].pkt = d
            /\ ctx[d].flow \in Flows /\ Chained(d, ctx[d].flow)
        BY <1>1, <3>1 DEF Offloaded, Kept
      <3>3. CASE ctx[d].flow # f
        BY <1>3, <1>8, <3>1, <3>2, <3>3 DEF Chained, Kept
      <3>4. CASE ctx[d].flow = f
        <4>1. PICK j \in 1 .. Len(chain[f]) : chain[f][j] = d
          BY <3>2, <3>4 DEF Chained
        <4>2. j - 1 \in 1 .. Len(chain'[f]) /\ (j - 1) + 1 = j
          BY <1>5, <1>8, <3>1, <4>1, SMTT(20)
        <4>3. chain'[f][j - 1] = d
          BY <1>10, <4>1, <4>2
        <4>. QED  BY <1>3, <3>1, <3>2, <3>4, <4>2, <4>3 DEF Kept
      <3>. QED  BY <3>3, <3>4
    <2>4. \A q \in Requests : OnHold(q)' <=> OnHold(q)
      BY <1>3 DEF OnHold
    <2>. QED  BY <1>1, <1>3, <2>2, <2>3, <2>4 DEF Offloaded
  <1>12. Chains' /\ resuming' \in Flows \cup {None}
    <2>1. \A g \in Flows \ {f} : \A j \in 1 .. Len(chain[g]) :
             chain[g][j] \in Contexts \ {c} /\ Kept(chain[g][j])
      BY <1>1, <1>2, <1>6, <1>7, SeqElement, SMTT(20) DEF Chains
    <2>2. \A j \in 1 .. Len(chain'[f]) :
             /\ j + 1 \in 1 .. Len(chain[f]) /\ chain'[f][j] = chain[f][j + 1]
             /\ chain'[f][j] \in Contexts \ {c} /\ Kept(chain'[f][j])
      BY <1>4, <1>5, <1>7, <1>8, <1>10, SeqElement, SMTT(20)
    <2>3. (\A g \in Flows : \A i \in 1 .. Len(chain[g]) :
             ctx[chain[g][i]].state = "suspended" /\ ctx[chain[g][i]].flow = g)'
      <3>1. \A i \in 1 .. Len(chain'[f]) :
               ctx'[chain'[f][i]].state = "suspended" /\ ctx'[chain'[f][i]].flow = f
        <4>. TAKE i \in 1 .. Len(chain'[f])
        <4>1. /\ i + 1 \in 1 .. Len(chain[f]) /\ chain'[f][i] = chain[f][i + 1]
              /\ Kept(chain'[f][i])
          BY <2>2
        <4>2. ctx[chain[f][i + 1]].state = "suspended" /\ ctx[chain[f][i + 1]].flow = f
          BY <1>1, <1>4, <4>1 DEF Chains
        <4>. QED  BY <4>1, <4>2 DEF Kept
      <3>2. \A g \in Flows \ {f} : \A i \in 1 .. Len(chain'[g]) :
               ctx'[chain'[g][i]].state = "suspended" /\ ctx'[chain'[g][i]].flow = g
        BY <1>1, <1>8, <2>1, SMTT(20) DEF Chains, Kept
      <3>. QED  BY <3>1, <3>2
    <2>4. (\A g \in Flows : \A i, j \in 1 .. Len(chain[g]) : chain[g][i] = chain[g][j] => i = j)'
      <3>1. \A i, j \in 1 .. Len(chain'[f]) : chain'[f][i] = chain'[f][j] => i = j
        <4>. SUFFICES ASSUME NEW i \in 1 .. Len(chain'[f]), NEW j \in 1 .. Len(chain'[f]),
                             chain'[f][i] = chain'[f][j]
                      PROVE  i = j
          OBVIOUS
        <4>1. i + 1 = j + 1
          BY <1>4, <1>9, <2>2, SMTT(20)
        <4>. QED  BY <1>5, <1>8, <4>1, SMTT(20)
      <3>. QED  BY <1>8, <1>9, <3>1
    <2>5. \A g \in Flows \ {f} : chain'[g] # <<>> => ctx'[chain'[g][1]].offloaded
      <3>1. \A g \in Flows \ {f} : chain[g] # <<>> =>
               1 \in 1 .. Len(chain[g]) /\ ctx[chain[g][1]].offloaded
        BY <1>1, <1>2, <1>4, SeqEmpty, SMTT(20) DEF Chains
      <3>2. \A g \in Flows \ {f} : chain[g] # <<>> => chain'[g] = chain[g] /\ Kept(chain[g][1])
        BY <1>8, <2>1, <3>1
      <3>. QED  BY <1>8, <3>1, <3>2, SMTT(20) DEF Kept
    <2>6. chain'[f] # <<>> => Head(chain'[f]) = chain'[f][1]
      BY <1>4, <1>8, SMTT(20)
    <2>7. CASE Ready(f, chain', ctx')
      <3>1. resuming' = f /\ chain'[f] # <<>> /\ ~ctx'[chain'[f][1]].offloaded
        BY <1>3, <2>6, <2>7 DEF Ready
      <3>. QED  BY <1>4, <2>3, <2>4, <2>5, <3>1 DEF Chains
    <2>8. CASE ~Ready(f, chain', ctx')
      <3>1. resuming' = None /\ (chain'[f] # <<>> => ctx'[chain'[f][1]].offloaded)
        BY <1>3, <2>6, <2>8 DEF Ready
      <3>. QED  BY <2>3, <2>4, <2>5, <3>1 DEF Chains
    <2>. QED  BY <2>7, <2>8
  <1>13. Stack'
    <2>1. \A j \in 1 .. Len(busy) : busy[j] \in Contexts \ {c} /\ Kept(busy[j])
      BY <1>1, <1>6, <1>7, SeqElement DEF Stack, TypeOK
    <2>2. Len(busy) \in Nat
      BY <1>1, SeqLength DEF TypeOK
    <2>. QED  BY <1>1, <1>3, <2>1, <2>2, SMTT(20) DEF Stack, Kept
  <1>14. TypeOK'
    BY <1>1, <1>3, <1>7, <1>8, <1>12 DEF TypeOK
  <1>15. Due'
    <2>1. Len(retryq') \in Nat /\ Len(retryq) \in Nat /\ due \in Nat
      BY <1>1, <1>7, SeqLength DEF TypeOK
    <2>. QED  BY <1>1, <1>3, <1>7, <2>1, SMTT(20) DEF Due
  <1>16. Messages'
    BY <1>1, <1>3, <1>5, <1>7, IdleFacts DEF Messages, Kept
  <1>. QED  BY <1>11, <1>12, <1>13, <1>14, <1>15, <1>16 DEF IInv

(* The offloader is told to stop. *)
LEMMA StopStep ==
    ASSUME IInv, StopOffloader
    PROVE  IInv'
  <1>1. TypeOK /\ Stack /\ Offloaded /\ Chains /\ Due /\ Messages
    BY DEF IInv
  <1>2. /\ UNCHANGED <<ctx, busy, chain, onhold, pool, rx, retryq, heldq, ret, cur, target, due,
                       idling, resuming, rebuilt, unpurged>>
        /\ pc = "drain" /\ pc' = "join" /\ stalled' = FALSE
        /\ req' = [r \in Requests |-> [req[r] EXCEPT !.go = FALSE]]
        /\ worker' = [r \in Requests |-> IF r \in Requests THEN "woken" ELSE worker[r]]
    BY DEF StopOffloader, Through, Notify, switcher, msgs
  <1>3. req \in [Requests -> [pkt : Contexts \cup {None}, offload : BOOLEAN, go : BOOLEAN]]
    BY <1>1 DEF TypeOK
  <1>4. /\ req' \in [Requests -> [pkt : Contexts \cup {None}, offload : BOOLEAN, go : BOOLEAN]]
        /\ \A r \in Requests : req'[r].pkt = req[r].pkt /\ req'[r].offload = req[r].offload
    BY <1>2, <1>3
  <1>5. /\ worker' \in [Requests -> {"idle", "woken", "search", "exit"}]
        /\ \A r \in Requests : worker'[r] = "woken"
    BY <1>2
  <1>6. TypeOK'
    BY <1>1, <1>2, <1>4, <1>5 DEF TypeOK
  <1>7. Stack'
    BY <1>1, <1>2 DEF Stack
  <1>8. Chains'
    BY <1>1, <1>2 DEF Chains
  <1>9. Due' /\ Messages'
    BY <1>1, <1>2 DEF Due, Messages, TypeOK
  <1>10. Offloaded'
    <2>1. (\A r \in Requests : (req[r].pkt # None <=> OnHold(r)) /\ (req[r].offload => OnHold(r)))'
      BY <1>1, <1>2, <1>4, SMTT(20) DEF Offloaded, OnHold
    <2>2. (\A r \in Requests : req[r].pkt # None =>
              ctx[req[r].pkt].state = "suspended" /\ ctx[req[r].pkt].offloaded)'
      BY <1>1, <1>2, <1>4, SMTT(20) DEF Offloaded
    <2>3. (\A r, q \in Requests : req[r].pkt # None /\ req[r].pkt = req[q].pkt => r = q)'
      BY <1>1, <1>4, SMTT(20) DEF Offloaded
    <2>4. (\A c \in Contexts : ctx[c].offloaded =>
              /\ \E r \in Requests : req[r].pkt = c
              /\ ctx[c].flow \in Flows /\ Chained(c, ctx[c].flow))'
      <3>1. \A c \in Contexts : ctx[c].offloaded => \E r \in Requests : req'[r].pkt = c
        BY <1>1, <1>4, SMTT(20) DEF Offloaded
      <3>2. \A c \in Contexts : ctx[c].offloaded =>
               ctx[c].flow \in Flows /\ \E i \in 1 .. Len(chain[ctx[c].flow]) : chain[ctx[c].flow][i] = c
        BY <1>1 DEF Offloaded, Chained
      <3>. QED  BY <1>2, <3>1, <3>2 DEF Chained
    <2>5. (\A i, j \in 1 .. Len(onhold) : onhold[i] = onhold[j] => i = j)'
      BY <1>1, <1>2 DEF Offloaded
    <2>. QED  BY <1>5, <2>1, <2>2, <2>3, <2>4, <2>5 DEF Offloaded
  <1>. QED  BY <1>6, <1>7, <1>8, <1>9, <1>10 DEF IInv
-----------------------------------------------------------------------------
(* Every step preserves the invariant. *)
LEMMA Inductive ==
    IInv /\ [Next]_vars => IInv'
  <1>. SUFFICES ASSUME IInv, [Next]_vars
                PROVE  IInv'
    OBVIOUS
  <1>1. CASE Thread
    BY <1>1, MessageSteps, QueueSteps, TermSteps, ReceiveStep, HoldSteps, EnterSteps, FinishSteps,
       FlushSteps, SuspendBehindStep, OffloadStep, OnloadStep, ResumeStep, StopStep DEF Thread
  <1>2. CASE Worker
    BY <1>2, WorkerSteps DEF Worker
  <1>3. CASE UNCHANGED vars
    <2>1. UNCHANGED <<switcher, offloader, msgs, control>>
      BY <1>3 DEF vars
    <2>2. TypeOK' /\ Due' /\ ((cur # None)' <=> (pc = "start")')
      BY <2>1, SMTT(20) DEF IInv, TypeOK, Due, Messages, switcher, offloader, msgs, control
    <2>. QED  BY <2>1, <2>2, ControlFrame DEF IInv, Stack, control
  <1>. QED  BY <1>1, <1>2, <1>3 DEF Next, Spin

(* The invariant holds at the start. *)
LEMMA Initially ==
    Init => IInv
  <1>. SUFFICES ASSUME Init
                PROVE  IInv
    OBVIOUS
  <1>1. \A S : <<>> \in Seq(S) /\ Len(<<>>) = 0
    BY SeqEmpty
  <1>2. TypeOK
    BY <1>1, IdleFacts DEF Init, TypeOK
  <1>3. Stack
    BY <1>1, SMTT(20) DEF Init, Stack
  <1>4. Offloaded
    BY <1>1, IdleFacts, SMTT(20) DEF Init, Offloaded, OnHold
  <1>5. Chains
    BY <1>1, SMTT(20) DEF Init, Chains
  <1>6. Due /\ Messages
    BY <1>1, IdleFacts, SMTT(20) DEF Init, Due, Messages
  <1>. QED  BY <1>2, <1>3, <1>4, <1>5, <1>6 DEF IInv

(* The invariant holds always: the stack of contexts, the offloader's        *)
(* requests and the chains of suspended packets fit together.                *)
THEOREM InvariantHolds == Spec => []IInv
  <1>1. Init => IInv
    BY Initially
  <1>2. IInv /\ [Next]_vars => IInv'
    BY Inductive
  <1>. QED  BY <1>1, <1>2, PTL DEF Spec

(* Every variable keeps its type. *)
THEOREM Types == Spec => []TypeOK
  <1>1. IInv => TypeOK
    BY DEF IInv
  <1>. QED  BY <1>1, InvariantHolds, PTL

(* A worker of ThreadRegexOffload searches only a packet that is suspended   *)
(* and offloaded, on behalf of a request that is on hold.                    *)
THEOREM WorkersSearchSuspended == Spec => []SearchesSuspended
  <1>1. IInv => SearchesSuspended
    BY RangeFacts DEF IInv, TypeOK, Offloaded, OnHold, SearchesSuspended
  <1>. QED  BY <1>1, InvariantHolds, PTL

(* The front of a flow's chain that is not being resumed is with the         *)
(* offloader: nothing that waits for the chain waits in vain.                *)
THEOREM ChainsComeBack == Spec => []FrontOffloaded
  <1>1. IInv => FrontOffloaded
    <2>. SUFFICES ASSUME IInv, NEW f \in Flows, chain[f] # <<>>, resuming # f
                  PROVE  /\ ctx[Head(chain[f])].offloaded
                         /\ \E r \in Range(onhold) : req[r].pkt = Head(chain[f])
      BY DEF FrontOffloaded
    <2>1. TypeOK /\ Offloaded /\ Chains
      BY DEF IInv
    <2>2. chain[f] \in Seq(Contexts) /\ onhold \in Seq(Requests)
      BY <2>1 DEF TypeOK
    <2>3. Head(chain[f]) = chain[f][1] /\ Head(chain[f]) \in Contexts
      BY <2>2, TailFacts
    <2>4. ctx[Head(chain[f])].offloaded
      BY <2>1, <2>3 DEF Chains
    <2>5. PICK r \in Requests : req[r].pkt = Head(chain[f])
      BY <2>1, <2>3, <2>4 DEF Offloaded
    <2>6. OnHold(r)
      BY <2>1, <2>3, <2>5, PacketPathAssumption DEF Offloaded
    <2>7. r \in Range(onhold)
      BY <2>2, <2>6, RangeFacts DEF OnHold
    <2>. QED  BY <2>4, <2>5, <2>7
  <1>. QED  BY <1>1, InvariantHolds, PTL
=============================================================================
