------------------------ MODULE PacketMessages_proof ------------------------
(***************************************************************************)
(* Every DAQ message is in one place at a time, whatever the numbers of    *)
(* messages, contexts, requests and flows: what is received goes through   *)
(* packets, the retry queue and the queue of held packets, and back to the *)
(* pool, and no path loses a message or finalizes it twice.                *)
(***************************************************************************)
EXTENDS PacketPath_proof

USE ZenonT(30)

In(m, q) == \E i \in 1 .. Len(q) : q[i] = m

Distinct(q) == \A i, j \in 1 .. Len(q) : q[i] = q[j] => i = j

Wired(m) == \E c \in Contexts : ctx[c].kind = "wire" /\ ctx[c].msg = m

OnePlace(a, b, c, d, e, w) ==
    /\ a \/ b \/ c \/ d \/ e \/ w
    /\ a => ~b /\ ~c /\ ~d /\ ~e /\ ~w
    /\ b => ~c /\ ~d /\ ~e /\ ~w
    /\ c => ~d /\ ~e /\ ~w
    /\ d => ~e /\ ~w
    /\ e => ~w

(* A message is in one of six places. *)
Once ==
    \A m \in Msgs :
        OnePlace(m \in pool, In(m, rx), In(m, retryq), In(m, heldq), cur = m, Wired(m))

(* It is there once; a flow holds one message at most. *)
Queues ==
    /\ Distinct(rx) /\ Distinct(retryq) /\ Distinct(heldq)
    /\ \A i, j \in 1 .. Len(heldq) : FlowOf[heldq[i]] = FlowOf[heldq[j]] => i = j

OneWire ==
    \A c, d \in Contexts :
        ctx[c].kind = "wire" /\ ctx[d].kind = "wire" /\ ctx[c].msg = ctx[d].msg => c = d

(* A context that is free has no packet, and what a purge clears is no wire *)
(* packet.                                                                  *)
NoPacket ==
    /\ \A c \in Contexts : ctx[c].state = "idle" => ctx[c].kind = None
    /\ pc = "pclear" => ctx[busy[1]].kind = "flush"

MsgInv == Once /\ Queues /\ OneWire /\ NoPacket

(* A batch is used up before the next is received.  Idling, the thread has  *)
(* received nothing.                                                        *)
Batch ==
    /\ idling \/ pc = "top" => rx = <<>>
    /\ pc \in {"inspect", "rebuild", "unhold", "timeouts", "flush"} /\ ret = "top" => idling
    /\ pc = "start" => ret \in {"onload", "retry"}
    /\ pc \in {"purge", "pwait", "pflush", "pclear"} => ret = "purge"
-----------------------------------------------------------------------------
(* What the queues' operations do to what is in them. *)

(* The first element leaves. *)
LEMMA TailIn ==
    ASSUME NEW S, NEW s \in Seq(S), s # <<>>, Distinct(s)
    PROVE  /\ \A x : In(x, Tail(s)) <=> In(x, s) /\ x # Head(s)
           /\ Distinct(Tail(s))
  <1>1. /\ Tail(s) \in Seq(S) /\ Len(Tail(s)) = Len(s) - 1
        /\ \A i \in 1 .. Len(s) - 1 : Tail(s)[i] = s[i + 1]
        /\ Head(s) = s[1] /\ Len(s) \in Nat \ {0}
    BY TailFacts
  <1>2. \A i \in 1 .. Len(s) - 1 : i + 1 \in 1 .. Len(s) /\ i + 1 # 1
    BY <1>1, SMTT(20)
  <1>3. \A i \in 1 .. Len(s) : i # 1 => i - 1 \in 1 .. Len(s) - 1 /\ (i - 1) + 1 = i
    BY <1>1, SMTT(20)
  <1>4. 1 \in 1 .. Len(s)
    BY <1>1, SMTT(20)
  <1>. DEFINE t == Tail(s)
              n == Len(s) - 1
  <1>5. /\ Len(t) = n /\ \A i \in 1 .. n : t[i] = s[i + 1]
        /\ \A i \in 1 .. n : i + 1 \in 1 .. Len(s) /\ i + 1 # 1
        /\ \A i \in 1 .. Len(s) : i # 1 => i - 1 \in 1 .. n /\ (i - 1) + 1 = i
    BY <1>1, <1>2, <1>3
  <1>. HIDE DEF t, n
  <1>6. \A x : In(x, t) => In(x, s) /\ x # s[1]
    BY <1>4, <1>5, SMTT(20) DEF In, Distinct
  <1>7. \A x : In(x, s) /\ x # s[1] => In(x, t)
    <2>. TAKE x
    <2>. SUFFICES ASSUME In(x, s), x # s[1]
                  PROVE  In(x, t)
      OBVIOUS
    <2>1. PICK i \in 1 .. Len(s) : s[i] = x
      BY DEF In
    <2>2. i - 1 \in 1 .. n /\ t[i - 1] = s[i]
      BY <1>5, <2>1
    <2>. QED  BY <1>5, <2>1, <2>2 DEF In
  <1>8. Distinct(t)
    <2>1. \A i, j \in 1 .. n : i + 1 = j + 1 => i = j
      BY SMTT(20)
    <2>. QED  BY <1>5, <2>1, SMTT(20) DEF Distinct
  <1>. QED  BY <1>1, <1>6, <1>7, <1>8 DEF t

(* A new element enters. *)
LEMMA AppendIn ==
    ASSUME NEW S, NEW s \in Seq(S), NEW e \in S, ~In(e, s), Distinct(s)
    PROVE  /\ \A x : In(x, Append(s, e)) <=> In(x, s) \/ x = e
           /\ Distinct(Append(s, e))
  <1>1. /\ Len(Append(s, e)) = Len(s) + 1 /\ Len(s) \in Nat
        /\ \A i \in 1 .. Len(s) : Append(s, e)[i] = s[i]
        /\ Append(s, e)[Len(s) + 1] = e
    BY AppendFacts, SeqLength, SMTT(20)
  <1>. DEFINE t == Append(s, e)
              n == Len(s)
  <1>2. /\ n \in Nat /\ Len(t) = n + 1 /\ (\A i \in 1 .. n : t[i] = s[i]) /\ t[n + 1] = e
    BY <1>1
  <1>3. /\ \A i \in 1 .. n : s[i] # e
        /\ \A i, j \in 1 .. n : s[i] = s[j] => i = j
        /\ \A x : In(x, s) <=> \E i \in 1 .. n : s[i] = x
    BY DEF In, Distinct
  <1>. HIDE DEF t, n
  <1>4. \A i \in 1 .. n + 1 : i \in 1 .. n \/ i = n + 1
    BY <1>2, SMTT(20)
  <1>5. \A i \in 1 .. n : i \in 1 .. n + 1
    BY <1>2, SMTT(20)
  <1>6. n + 1 \in 1 .. n + 1
    BY <1>2, SMTT(20)
  <1>7. \A x : In(x, t) <=> In(x, s) \/ x = e
    <2>1. \A x : In(x, t) => In(x, s) \/ x = e
      BY <1>2, <1>3, <1>4 DEF In
    <2>2. \A i \in 1 .. n : i \in 1 .. Len(t) /\ t[i] = s[i]
      BY <1>2, <1>5
    <2>3. \A x : In(x, s) => In(x, t)
      <3>. TAKE x
      <3>. SUFFICES ASSUME In(x, s)
                    PROVE  In(x, t)
        OBVIOUS
      <3>1. PICK i \in 1 .. n : s[i] = x
        BY <1>3
      <3>. QED  BY <2>2, <3>1 DEF In
    <2>4. In(e, t)
      BY <1>2, <1>6 DEF In
    <2>. QED  BY <2>1, <2>3, <2>4
  <1>8. Distinct(t)
    BY <1>2, <1>3, <1>4 DEF Distinct
  <1>. QED  BY <1>7, <1>8 DEF t

(* t has the elements of s except the one at i. *)
Removed(s, i, t) ==
    /\ \A x : In(x, t) <=> In(x, s) /\ x # s[i]
    /\ Distinct(t)
    /\ \A j \in 1 .. Len(t) : \E k \in 1 .. Len(s) \ {i} : t[j] = s[k]

(* An element leaves from anywhere. *)
LEMMA RemoveIn ==
    ASSUME NEW S, NEW s \in Seq(S), NEW i \in 1 .. Len(s), Distinct(s)
    PROVE  Removed(s, i, RemoveAt(s, i))
  <1>. DEFINE t == RemoveAt(s, i)
              n == Len(s)
  <1>1. /\ Len(t) = n - 1 /\ n \in Nat /\ i \in 1 .. n
        /\ \A j \in 1 .. i - 1 : t[j] = s[j]
        /\ \A j \in i .. n - 1 : t[j] = s[j + 1]
    BY RemoveAtFacts, SeqLength
  <1>2. /\ \A j, k \in 1 .. n : s[j] = s[k] => j = k
        /\ \A x : In(x, s) <=> \E j \in 1 .. n : s[j] = x
    BY DEF In, Distinct
  <1>. DEFINE from(j) == IF j <= i - 1 THEN j ELSE j + 1
  <1>3. \A j \in 1 .. n - 1 : t[j] = s[from(j)] /\ from(j) \in 1 .. n \ {i}
    <2>. TAKE j \in 1 .. n - 1
    <2>1. CASE j <= i - 1
      BY <1>1, <2>1, SMTT(20)
    <2>2. CASE ~(j <= i - 1)
      BY <1>1, <2>2, SMTT(20)
    <2>. QED  BY <2>1, <2>2
  <1>4. \A j \in 1 .. n \ {i} : \E k \in 1 .. n - 1 : from(k) = j
    <2>. TAKE j \in 1 .. n \ {i}
    <2>1. CASE j <= i - 1
      <3>1. j \in 1 .. n - 1 /\ from(j) = j
        BY <1>1, <2>1, SMTT(20)
      <3>. QED  BY <3>1
    <2>2. CASE ~(j <= i - 1)
      <3>1. j - 1 \in 1 .. n - 1 /\ from(j - 1) = j
        BY <1>1, <2>2, SMTT(20)
      <3>. QED  BY <3>1
    <2>. QED  BY <2>1, <2>2
  <1>5. \A j, k \in 1 .. n - 1 : from(j) = from(k) => j = k
    BY <1>1, SMTT(20)
  <1>. HIDE DEF t, n, from
  <1>6. Len(t) = n - 1
    BY <1>1
  <1>7. \A x : In(x, t) <=> In(x, s) /\ x # s[i]
    <2>1. \A x : In(x, t) => In(x, s) /\ x # s[i]
      <3>. TAKE x
      <3>. SUFFICES ASSUME In(x, t)
                    PROVE  In(x, s) /\ x # s[i]
        OBVIOUS
      <3>1. PICK j \in 1 .. n - 1 : t[j] = x
        BY <1>6 DEF In
      <3>2. PICK k \in 1 .. n \ {i} : x = s[k]
        BY <1>3, <3>1
      <3>. QED  BY <1>1, <1>2, <3>2
    <2>2. \A x : In(x, s) /\ x # s[i] => In(x, t)
      <3>. TAKE x
      <3>. SUFFICES ASSUME In(x, s), x # s[i]
                    PROVE  In(x, t)
        OBVIOUS
      <3>1. PICK j \in 1 .. n \ {i} : s[j] = x
        BY <1>2
      <3>2. PICK k \in 1 .. n - 1 : from(k) = j
        BY <1>4
      <3>. QED  BY <1>3, <1>6, <3>1, <3>2 DEF In
    <2>. QED  BY <2>1, <2>2
  <1>8. Distinct(t)
    BY <1>2, <1>3, <1>5, <1>6, SMTT(20) DEF Distinct
  <1>9. \A j \in 1 .. Len(t) : \E k \in 1 .. n \ {i} : t[j] = s[k]
    BY <1>3, <1>6
  <1>10. Removed(s, i, t)
    BY <1>7, <1>8, <1>9 DEF Removed, n
  <1>. QED  BY <1>10 DEF t

(* The flow's held packet is let go: nothing else leaves the queue. *)
LEMMA UnheldIn ==
    ASSUME IInv, Queues, NEW f
    PROVE  /\ \A m : In(m, Unheld(f)) <=> In(m, heldq) /\ m \notin Held(f)
           /\ \A m : m \in Held(f) => In(m, heldq) /\ m \in Msgs
           /\ \A m \in Held(f) : FlowOf[m] = f
           /\ Distinct(Unheld(f))
           /\ \A i, j \in 1 .. Len(Unheld(f)) :
                 FlowOf[Unheld(f)[i]] = FlowOf[Unheld(f)[j]] => i = j
           /\ \A i \in 1 .. Len(Unheld(f)) : FlowOf[Unheld(f)[i]] # f
           /\ \A m : In(m, Unheld(f)) => In(m, heldq)
  <1>1. heldq \in Seq(Msgs) /\ DOMAIN heldq = 1 .. Len(heldq)
    BY SeqLength DEF IInv, TypeOK
  <1>2. /\ Distinct(heldq)
        /\ \A i, j \in 1 .. Len(heldq) : FlowOf[heldq[i]] = FlowOf[heldq[j]] => i = j
    BY DEF Queues
  <1>3. \A m : m \in Range(heldq) <=> In(m, heldq)
    BY <1>1, RangeFacts DEF In
  <1>4. \A m : m \in Held(f) <=> In(m, heldq) /\ FlowOf[m] = f
    BY <1>3 DEF Held
  <1>5. \A m : In(m, heldq) => m \in Msgs
    BY <1>1, <1>3, RangeFacts
  <1>. DEFINE at == {i \in DOMAIN heldq : FlowOf[heldq[i]] = f}
              i == CHOOSE j \in at : TRUE
  <1>6. CASE at = {}
    <2>1. Unheld(f) = heldq
      BY <1>6 DEF Unheld
    <2>2. \A j \in 1 .. Len(heldq) : FlowOf[heldq[j]] # f
      BY <1>1, <1>6
    <2>3. \A m : In(m, heldq) => FlowOf[m] # f
      BY <2>2 DEF In
    <2>. QED  BY <1>2, <1>4, <1>5, <2>1, <2>2, <2>3
  <1>7. CASE at # {}
    <2>1. i \in 1 .. Len(heldq) /\ FlowOf[heldq[i]] = f
      BY <1>1, <1>7
    <2>2. Unheld(f) = RemoveAt(heldq, i)
      BY <1>7 DEF Unheld
    <2>. HIDE DEF i, at
    <2>. DEFINE t == RemoveAt(heldq, i)
    <2>3. /\ \A x : In(x, t) <=> In(x, heldq) /\ x # heldq[i]
          /\ Distinct(t)
          /\ \A j \in 1 .. Len(t) : \E k \in 1 .. Len(heldq) \ {i} : t[j] = heldq[k]
      <3>1. heldq \in Seq(Msgs) /\ Distinct(heldq) /\ i \in 1 .. Len(heldq)
        BY <1>1, <1>2, <2>1
      <3>2. Removed(heldq, i, t)
        BY <3>1, RemoveIn
      <3>. HIDE DEF t
      <3>. QED  BY <3>2 DEF Removed
    <2>. HIDE DEF t
    <2>4. Unheld(f) = t
      BY <2>2 DEF t
    <2>5. \A m : In(m, heldq) /\ FlowOf[m] = f => m = heldq[i]
      BY <1>2, <2>1 DEF In
    <2>6. \A m : m \in Held(f) <=> m = heldq[i]
      <3>1. In(heldq[i], heldq)
        BY <2>1 DEF In
      <3>. QED  BY <1>4, <2>1, <2>5, <3>1
    <2>7. \A j \in 1 .. Len(t) : FlowOf[t[j]] # f
      BY <1>2, <2>1, <2>3
    <2>8. \A j, k \in 1 .. Len(t) : FlowOf[t[j]] = FlowOf[t[k]] => j = k
      <3>. TAKE j, k \in 1 .. Len(t)
      <3>. SUFFICES ASSUME FlowOf[t[j]] = FlowOf[t[k]]
                    PROVE  j = k
        OBVIOUS
      <3>1. PICK a \in 1 .. Len(heldq) \ {i} : t[j] = heldq[a]
        BY <2>3
      <3>2. PICK b \in 1 .. Len(heldq) \ {i} : t[k] = heldq[b]
        BY <2>3
      <3>3. t[j] = t[k]
        BY <1>2, <3>1, <3>2
      <3>. QED  BY <2>3, <3>3 DEF Distinct
    <2>. QED  BY <1>4, <1>5, <2>3, <2>4, <2>6, <2>7, <2>8
  <1>. QED  BY <1>6, <1>7
-----------------------------------------------------------------------------
(* Steps that move no message. *)

WireKept ==
    \A d \in Contexts :
        /\ ctx'[d].kind = "wire" <=> ctx[d].kind = "wire"
        /\ ctx[d].kind = "wire" => ctx'[d].msg = ctx[d].msg

(* No queue changes, and no wire packet comes or goes. *)
LEMMA Unmoved ==
    ASSUME MsgInv, WireKept, UNCHANGED <<pool, rx, retryq, heldq, cur>>
    PROVE  Once' /\ Queues' /\ OneWire'
  <1>1. \A m : Wired(m)' <=> Wired(m)
    BY DEF WireKept, Wired
  <1>2. Once'
    <2>1. \A m : /\ (In(m, rx))' <=> In(m, rx)
                 /\ (In(m, retryq))' <=> In(m, retryq)
                 /\ (In(m, heldq))' <=> In(m, heldq)
      BY DEF In
    <2>. QED  BY <1>1, <2>1 DEF MsgInv, Once, OnePlace
  <1>3. Queues'
    BY SMTT(20) DEF MsgInv, Queues, Distinct
  <1>4. OneWire'
    BY DEF MsgInv, OneWire, WireKept
  <1>. QED  BY <1>2, <1>3, <1>4

(* Workers, the loops and the phases of the thread: the contexts stay as    *)
(* they are.                                                                *)
LEMMA ControlKeeps ==
    ASSUME MsgInv, UNCHANGED <<ctx, busy, pool, rx, retryq, heldq, cur>>,
           pc' = "pclear" => pc = "pclear"
    PROVE  MsgInv'
  <1>1. WireKept
    BY DEF WireKept
  <1>2. NoPacket'
    BY DEF MsgInv, NoPacket
  <1>. QED  BY <1>1, <1>2, Unmoved DEF MsgInv

(* Steps that leave contexts and messages alone. *)
LEMMA QuietSteps ==
    ASSUME IInv, MsgInv,
           \/ Received \/ Onloaded \/ NoMoreMessages \/ RetryDone \/ NoneExpired \/ Expired
           \/ Exit \/ PurgeFlow \/ PurgeOnloaded \/ Join \/ Stall \/ Rebuild \/ StopOffloader
           \/ (\E r \in Requests : WorkerCheck(r) \/ WorkerSearch(r)) \/ UNCHANGED vars
    PROVE  MsgInv'
  <1>. USE DEF switcher, msgs
  <1>1. UNCHANGED <<ctx, busy, pool, rx, retryq, heldq, cur>>
    <2>1. CASE Received \/ Onloaded \/ NoMoreMessages \/ RetryDone \/ NoneExpired \/ Expired \/ Exit
      BY <2>1 DEF Received, Onloaded, NoMoreMessages, RetryDone, NoneExpired, Expired, Exit
    <2>2. CASE PurgeFlow \/ PurgeOnloaded \/ Join \/ Stall \/ Rebuild \/ StopOffloader
      BY <2>2 DEF PurgeFlow, PurgeOnloaded, Join, Stall, Rebuild, StopOffloader
    <2>3. CASE (\E r \in Requests : WorkerCheck(r) \/ WorkerSearch(r)) \/ UNCHANGED vars
      BY <2>3 DEF WorkerCheck, WorkerSearch, vars, control
    <2>. QED  BY <2>1, <2>2, <2>3
  <1>2. pc' = "pclear" => pc = "pclear"
    <2>1. CASE Received \/ Onloaded \/ NoMoreMessages \/ RetryDone \/ Expired \/ Exit
      BY <2>1 DEF Received, Onloaded, NoMoreMessages, RetryDone, RetryNow, Expired, Exit
    <2>2. CASE NoneExpired
      BY <2>2 DEF NoneExpired, IInv, TypeOK
    <2>3. CASE PurgeFlow \/ PurgeOnloaded \/ Join \/ Rebuild \/ StopOffloader
      BY <2>3 DEF PurgeFlow, PurgeOnloaded, Join, Rebuild, StopOffloader
    <2>4. CASE Stall \/ (\E r \in Requests : WorkerCheck(r) \/ WorkerSearch(r)) \/ UNCHANGED vars
      BY <2>4 DEF Stall, WorkerCheck, WorkerSearch, vars, control
    <2>. QED  BY <2>1, <2>2, <2>3, <2>4
  <1>. QED  BY <1>1, <1>2, ControlKeeps

(* What a purge clears is the only context in use. *)
LEMMA BottomFacts ==
    ASSUME IInv, pc = "pclear"
    PROVE  busy[1] \in Contexts /\ ctx[busy[1]].state = "busy"
  <1>1. busy \in Seq(Contexts) /\ Len(busy) = 1 /\ \A i \in 1 .. Len(busy) : ctx[busy[i]].state = "busy"
    BY DEF IInv, TypeOK, Stack
  <1>2. 1 \in 1 .. Len(busy)
    BY <1>1, SMTT(20)
  <1>. QED  BY <1>1, <1>2, SeqElement

(* Contexts that change in other respects only. *)
LEMMA KindsKeep ==
    ASSUME IInv, MsgInv, UNCHANGED <<pool, rx, retryq, heldq, cur>>,
           \A d \in Contexts : /\ ctx'[d].kind = ctx[d].kind /\ ctx'[d].msg = ctx[d].msg
                               /\ ctx'[d].state = "idle" => ctx[d].state = "idle",
           pc' = "pclear" => pc = "pclear" /\ busy' = busy
    PROVE  MsgInv'
  <1>1. WireKept
    BY DEF WireKept
  <1>2. pc = "pclear" => busy[1] \in Contexts
    BY BottomFacts
  <1>3. NoPacket'
    BY <1>2 DEF MsgInv, NoPacket
  <1>. QED  BY <1>1, <1>3, Unmoved DEF MsgInv

(* Holding, suspending, and taking a packet back from the offloader. *)
LEMMA FlagSteps ==
    ASSUME IInv, MsgInv, Hold \/ Offload \/ SuspendBehind \/ Onload
    PROVE  MsgInv'
  <1>. USE DEF msgs
  <1>1. TypeOK /\ ctx \in [Contexts -> Context]
    BY DEF IInv, TypeOK
  <1>2. CASE Hold
    <2>1. Top \in Contexts /\ "hold" \in Acts /\ pc = "inspect"
      BY <1>2, TopFacts DEF Hold, Inspecting, Acts
    <2>2. \A d \in Contexts : Kept(d)
      BY <1>1, <1>2, <2>1, ActFacts DEF Hold
    <2>3. UNCHANGED <<pool, rx, retryq, heldq, cur, pc, busy>>
      BY <1>2 DEF Hold, control
    <2>. QED  BY <2>1, <2>2, <2>3, KindsKeep DEF Kept
  <1>3. CASE Offload \/ SuspendBehind
    <2>1. PICK o \in BOOLEAN : Suspend(o)
      BY <1>3 DEF Offload, SuspendBehind
    <2>2. /\ Inspecting /\ ctx[Top].kind # "flush" /\ ctx[Top].flow # None
          /\ o \/ chain[ctx[Top].flow] # <<>>
      <3>1. CASE o = TRUE
        BY <1>3, <3>1 DEF Offload, SuspendBehind
      <3>2. CASE o = FALSE /\ SuspendBehind
        BY <3>2 DEF SuspendBehind
      <3>3. CASE o = FALSE /\ Offload
        <4>1. Top \in Contexts /\ Suspend(TRUE) /\ Suspend(FALSE)
          BY <2>1, <3>3, TopFacts DEF Offload, Inspecting
        <4>2. ctx'[Top].offloaded = TRUE /\ ctx'[Top].offloaded = FALSE
          BY <1>1, <4>1, SMTT(20) DEF Suspend, Context
        <4>. QED  BY <4>2
      <3>. QED  BY <1>3, <3>1, <3>2, <3>3
    <2>3. /\ \A d \in Contexts \ {Top} : Kept(d)
          /\ ctx'[Top].state = "suspended"
          /\ ctx'[Top].kind = ctx[Top].kind /\ ctx'[Top].msg = ctx[Top].msg
      BY <2>1, <2>2, SuspendFrame
    <2>4. UNCHANGED <<pool, rx, retryq, heldq, cur>> /\ pc' # "pclear"
      BY <2>1 DEF Suspend, AfterPacket
    <2>. QED  BY <2>3, <2>4, KindsKeep DEF Kept
  <1>4. CASE Onload
    <2>1. PICK c : ctx' = [ctx EXCEPT ![c].offloaded = FALSE]
      BY <1>4 DEF Onload
    <2>2. \A d \in Contexts : /\ ctx'[d].kind = ctx[d].kind /\ ctx'[d].msg = ctx[d].msg
                              /\ ctx'[d].state = ctx[d].state
      BY <1>1, <2>1, SMTT(20) DEF Context
    <2>3. UNCHANGED <<pool, rx, retryq, heldq, cur, pc, busy>>
      BY <1>4 DEF Onload
    <2>. QED  BY <2>2, <2>3, KindsKeep
  <1>. QED  BY <1>2, <1>3, <1>4

(* A context is entered for a rebuilt packet or a flush, which have no      *)
(* message of their own.                                                    *)
LEMMA RebuildSteps ==
    ASSUME IInv, MsgInv, Rebuilt \/ EnterFlush
    PROVE  MsgInv'
  <1>1. TypeOK /\ Idle # {} /\ pc' = "inspect"
    BY DEF IInv, Rebuilt, EnterFlush, Through
  <1>2. UNCHANGED <<pool, rx, retryq, heldq, cur>>
    BY DEF Rebuilt, EnterFlush, msgs
  <1>3. \E kind \in {"pdu", "flush"}, c \in Contexts : \E f, m : Entered(c, kind, f, m)
    <2>1. CASE Rebuilt
      <3>1. Top \in Contexts
        BY <2>1, TopFacts DEF Rebuilt
      <3>. DEFINE p == IF ctx[Top].kind = "wire" THEN Top ELSE None
      <3>2. p \in Contexts \cup {None} /\ Enter("pdu", ctx[Top].flow, ctx[Top].msg, p)
        BY <2>1, <3>1 DEF Rebuilt
      <3>3. ctx[Top].flow \in Flows \cup {None} /\ ctx[Top].msg \in Msgs \cup {None}
        BY <1>1, <3>1 DEF TypeOK, Context
      <3>. HIDE DEF p
      <3>. QED  BY <1>1, <3>2, <3>3, EnterFacts
    <2>2. CASE EnterFlush
      <3>1. target \in Flows \cup {None} /\ Enter("flush", target, None, None)
        BY <1>1, <2>2 DEF TypeOK, EnterFlush
      <3>. QED  BY <1>1, <3>1, EnterFacts
    <2>. QED  BY <2>1, <2>2
  <1>4. PICK kind \in {"pdu", "flush"}, c \in Contexts : \E f, m : Entered(c, kind, f, m)
    BY <1>3
  <1>5. /\ ctx[c].kind # "wire" /\ ctx'[c].kind # "wire" /\ ctx'[c].state # "idle"
        /\ \A d \in Contexts \ {c} : Kept(d)
    BY <1>4, PacketPathAssumption DEF Entered, MsgInv, NoPacket
  <1>6. WireKept
    BY <1>5 DEF WireKept, Kept
  <1>7. NoPacket'
    BY <1>1, <1>5 DEF MsgInv, NoPacket, Kept
  <1>. QED  BY <1>2, <1>6, <1>7, Unmoved DEF MsgInv
-----------------------------------------------------------------------------
(* Steps that move a message. *)

(* Receiving takes messages out of the pool. *)
LEMMA ReceiveMoves ==
    ASSUME IInv, Batch, MsgInv, Receive
    PROVE  MsgInv'
  <1>. USE DEF switcher
  <1>1. PICK s \in Batches : rx' = s /\ pool' = pool \ Range(s)
    BY DEF Receive
  <1>2. /\ UNCHANGED <<ctx, busy, retryq, heldq, cur>> /\ pc = "top" /\ pc' = "recv"
    BY DEF Receive
  <1>3. /\ pool \subseteq Msgs /\ rx \in Seq(Msgs)
    BY DEF IInv, TypeOK
  <1>4. s \in Seq(pool) /\ \A i, j \in DOMAIN s : s[i] = s[j] => i = j
    <2>1. PICK n \in 0 .. BatchSize : s \in [1 .. n -> pool]
      BY <1>1 DEF Batches, SeqOf
    <2>2. n \in Nat
      BY SMTT(20)
    <2>3. s \in Seq(pool)
      BY <2>1, <2>2, SMTT(20)
    <2>. QED  BY <1>1, <2>3 DEF Batches
  <1>5. /\ Distinct(s)
        /\ \A m : In(m, s) <=> m \in Range(s)
        /\ Range(s) \subseteq pool
    <2>1. DOMAIN s = 1 .. Len(s)
      BY <1>4, SeqLength
    <2>. QED  BY <1>4, <2>1, RangeFacts DEF Distinct, In
  <1>6. \A m : ~In(m, rx)
    BY <1>2, SeqEmpty, SMTT(20) DEF Batch, In
  <1>7. \A m \in Msgs : /\ m \in pool' <=> m \in pool /\ ~In(m, s)
                        /\ In(m, s) => m \in pool
    BY <1>1, <1>5
  <1>8. Once'
    <2>1. \A m \in Msgs : /\ (In(m, rx))' <=> In(m, s)
                          /\ (In(m, retryq))' <=> In(m, retryq)
                          /\ (In(m, heldq))' <=> In(m, heldq)
                          /\ Wired(m)' <=> Wired(m)
      BY <1>1, <1>2 DEF In, Wired
    <2>. QED  BY <1>2, <1>6, <1>7, <2>1 DEF MsgInv, Once, OnePlace
  <1>9. Queues' /\ OneWire' /\ NoPacket'
    BY <1>1, <1>2, <1>5 DEF MsgInv, Queues, Distinct, OneWire, NoPacket
  <1>. QED  BY <1>8, <1>9 DEF MsgInv

(* The contexts stay as they are while a message leaves a queue. *)
LEMMA QueueMoves ==
    ASSUME IInv, MsgInv, NextPacket \/ PassMessage \/ RetryPacket \/ Discard
    PROVE  MsgInv'
  <1>. USE DEF switcher, offloader
  <1>1. rx \in Seq(Msgs) /\ retryq \in Seq(Msgs) /\ pool \subseteq Msgs
    BY DEF IInv, TypeOK
  <1>2. Distinct(rx) /\ Distinct(retryq)
    BY DEF MsgInv, Queues
  <1>3. UNCHANGED <<ctx, busy, heldq>> /\ (pc' = "pclear" => pc = "pclear")
    BY DEF NextPacket, PassMessage, RetryPacket, Discard
  <1>4. \A m : Wired(m)' <=> Wired(m)
    BY <1>3 DEF Wired
  <1>5. \A m : (In(m, heldq))' <=> In(m, heldq)
    BY <1>3 DEF In
  <1>6. OneWire' /\ NoPacket'
    BY <1>3 DEF MsgInv, OneWire, NoPacket
  <1>7. Queues' <=> Distinct(rx') /\ Distinct(retryq')
    BY <1>3 DEF MsgInv, Queues, Distinct
  <1>8. ASSUME rx # <<>>, rx' = Tail(rx), retryq' = retryq,
               \/ cur' = Head(rx) /\ pool' = pool /\ cur = None
               \/ pool' = pool \cup {Head(rx)} /\ cur' = cur
        PROVE  Once' /\ Queues'
    <2>1. /\ \A m : In(m, rx') <=> In(m, rx) /\ m # Head(rx)
          /\ Distinct(rx') /\ Head(rx) \in Msgs /\ In(Head(rx), rx)
      <3>1. (\A m : In(m, Tail(rx)) <=> In(m, rx) /\ m # Head(rx)) /\ Distinct(Tail(rx))
        BY <1>1, <1>2, <1>8, TailIn
      <3>2. rx[1] = Head(rx) /\ Head(rx) \in Msgs /\ 1 \in 1 .. Len(rx)
        BY <1>1, <1>8, TailFacts, SMTT(20)
      <3>. QED  BY <1>8, <3>1, <3>2 DEF In
    <2>2. \A m : In(m, retryq') <=> In(m, retryq)
      BY <1>8
    <2>3. Once'
      BY <1>4, <1>5, <1>8, <2>1, <2>2, PacketPathAssumption DEF MsgInv, Once, OnePlace
    <2>. QED  BY <1>2, <1>7, <1>8, <2>1, <2>3
  <1>9. ASSUME retryq # <<>>, retryq' = Tail(retryq), rx' = rx,
               \/ cur' = Head(retryq) /\ pool' = pool /\ cur = None
               \/ pool' = pool \cup {Head(retryq)} /\ cur' = cur
        PROVE  Once' /\ Queues'
    <2>1. /\ \A m : In(m, retryq') <=> In(m, retryq) /\ m # Head(retryq)
          /\ Distinct(retryq') /\ Head(retryq) \in Msgs /\ In(Head(retryq), retryq)
      <3>1. (\A m : In(m, Tail(retryq)) <=> In(m, retryq) /\ m # Head(retryq)) /\ Distinct(Tail(retryq))
        BY <1>1, <1>2, <1>9, TailIn
      <3>2. retryq[1] = Head(retryq) /\ Head(retryq) \in Msgs /\ 1 \in 1 .. Len(retryq)
        BY <1>1, <1>9, TailFacts, SMTT(20)
      <3>. QED  BY <1>9, <3>1, <3>2 DEF In
    <2>2. \A m : In(m, rx') <=> In(m, rx)
      BY <1>9
    <2>3. Once'
      BY <1>4, <1>5, <1>9, <2>1, <2>2, PacketPathAssumption DEF MsgInv, Once, OnePlace
    <2>. QED  BY <1>2, <1>7, <1>9, <2>1, <2>3
  <1>10. CASE NextPacket
    <2>1. cur = None
      BY <1>10 DEF NextPacket, IInv, Messages
    <2>. QED  BY <1>6, <1>8, <1>10, <2>1 DEF NextPacket, MsgInv
  <1>11. CASE PassMessage
    BY <1>6, <1>8, <1>11 DEF PassMessage, MsgInv
  <1>12. CASE RetryPacket
    <2>1. cur = None /\ retryq # <<>>
      BY <1>1, <1>12, SeqEmpty, SMTT(20) DEF RetryPacket, IInv, Messages, Due, TypeOK
    <2>. QED  BY <1>6, <1>9, <1>12, <2>1 DEF RetryPacket, MsgInv
  <1>13. CASE Discard
    <2>1. CASE retryq = <<>>
      BY <1>13, <2>1, ControlKeeps DEF Discard
    <2>2. CASE retryq # <<>>
      BY <1>6, <1>9, <1>13, <2>2 DEF Discard, MsgInv
    <2>. QED  BY <2>1, <2>2
  <1>. QED  BY <1>10, <1>11, <1>12, <1>13

(* The message in hand gets its packet. *)
LEMMA StartMoves ==
    ASSUME IInv, MsgInv, Start
    PROVE  MsgInv'
  <1>1. TypeOK /\ Idle # {} /\ pc' = "inspect" /\ pc = "start" /\ cur' = None
    BY DEF IInv, Start, Through
  <1>2. UNCHANGED <<pool, rx, retryq, heldq>>
    BY DEF Start, msgs
  <1>3. cur \in Msgs /\ FlowOf[cur] \in Flows \cup {None}
    BY <1>1, PacketPathAssumption DEF IInv, TypeOK, Messages
  <1>4. Enter("wire", FlowOf[cur], cur, None)
    BY DEF Start
  <1>5. PICK c \in Contexts : Entered(c, "wire", FlowOf[cur], cur)
    BY <1>1, <1>3, <1>4, EnterFacts
  <1>6. /\ ctx[c].kind # "wire" /\ ctx'[c].kind = "wire" /\ ctx'[c].msg = cur
        /\ ctx'[c].state # "idle"
        /\ \A d \in Contexts \ {c} : Kept(d)
    BY <1>5, PacketPathAssumption DEF Entered, MsgInv, NoPacket
  <1>7. \A m \in Msgs : Wired(m)' <=> Wired(m) \/ m = cur
    <2>1. \A m \in Msgs : Wired(m)' => Wired(m) \/ m = cur
      BY <1>6 DEF Wired, Kept
    <2>2. \A m \in Msgs : Wired(m) \/ m = cur => Wired(m)'
      BY <1>6 DEF Wired, Kept
    <2>. QED  BY <2>1, <2>2
  <1>8. Once'
    <2>1. \A m : /\ (In(m, rx))' <=> In(m, rx)
                 /\ (In(m, retryq))' <=> In(m, retryq)
                 /\ (In(m, heldq))' <=> In(m, heldq)
      BY <1>2 DEF In
    <2>2. None \notin Msgs
      BY PacketPathAssumption
    <2>. QED  BY <1>1, <1>2, <1>7, <2>1, <2>2 DEF MsgInv, Once, OnePlace
  <1>9. OneWire'
    <2>1. ~Wired(cur)
      BY <1>3 DEF MsgInv, Once, OnePlace
    <2>2. \A d \in Contexts : ctx[d].kind = "wire" => ctx[d].msg # cur
      BY <2>1 DEF Wired
    <2>. QED  BY <1>6, <2>2, SMTT(20) DEF MsgInv, OneWire, Kept
  <1>10. Queues'
    BY <1>2, SMTT(20) DEF MsgInv, Queues, Distinct
  <1>11. NoPacket'
    BY <1>1, <1>6 DEF MsgInv, NoPacket, Kept
  <1>. QED  BY <1>8, <1>9, <1>10, <1>11 DEF MsgInv

(* A packet is done: its message goes where post_process says. *)
LEMMA FinishMoves ==
    ASSUME IInv, MsgInv, NEW c \in Contexts, Finish(c), UNCHANGED <<rx, cur>>
    PROVE  /\ Once' /\ Queues' /\ OneWire'
           /\ \A d \in Contexts : ctx'[d].state = "idle" => ctx'[d].kind = None
           /\ \A d \in Contexts \ {c} : Kept(d)
  <1>1. /\ TypeOK /\ pool \subseteq Msgs /\ retryq \in Seq(Msgs) /\ heldq \in Seq(Msgs)
        /\ ctx \in [Contexts -> Context] /\ (ctx[c].kind = "wire" => ctx[c].msg # None)
    BY DEF IInv, TypeOK, Messages
  <1>2. ctx'[c] = IdleContext /\ \A d \in Contexts \ {c} : Kept(d)
    BY <1>1, FinishFacts
  <1>3. ctx'[c].kind = None /\ ctx'[c].kind # "wire"
    BY <1>2, IdleFacts
  <1>4. \A d \in Contexts : ctx'[d].state = "idle" => ctx'[d].kind = None
    BY <1>2, <1>3 DEF MsgInv, NoPacket, Kept
  <1>5. OneWire'
    <2>. SUFFICES ASSUME NEW d \in Contexts, NEW e \in Contexts, ctx'[d].kind = "wire",
                         ctx'[e].kind = "wire", ctx'[d].msg = ctx'[e].msg
                  PROVE  d = e
      BY DEF OneWire
    <2>1. d # c /\ e # c
      BY <1>3
    <2>2. Kept(d) /\ Kept(e)
      BY <1>2, <2>1
    <2>. QED  BY <2>2 DEF MsgInv, OneWire, Kept
  <1>6. CASE ctx[c].kind # "wire"
    <2>1. UNCHANGED <<pool, retryq, heldq>>
      BY <1>6 DEF Finish
    <2>2. WireKept
      BY <1>2, <1>3, <1>6 DEF WireKept, Kept
    <2>. QED  BY <1>2, <1>4, <2>1, <2>2, Unmoved
  <1>7. CASE ctx[c].kind = "wire"
    <2>. DEFINE m == ctx[c].msg
    <2>1. PICK a : PostProcess(m, a)
      BY <1>7 DEF Finish
    <2>2. m \in Msgs /\ Wired(m)
      BY <1>1, <1>7 DEF Context, Wired
    <2>3. \A x : Wired(x)' <=> Wired(x) /\ x # m
      <3>1. \A x : Wired(x)' => Wired(x) /\ x # m
        BY <1>2, <1>3, <1>7, SMTT(20) DEF Wired, Kept, MsgInv, OneWire
      <3>2. \A x : Wired(x) /\ x # m => Wired(x)'
        BY <1>2 DEF Wired, Kept
      <3>. QED  BY <3>1, <3>2
    <2>. HIDE DEF m
    <2>4. \A x : (In(x, rx))' <=> In(x, rx)
      BY DEF In
    <2>5. /\ m \notin pool /\ ~In(m, retryq) /\ ~In(m, heldq)
          /\ Distinct(retryq) /\ Distinct(heldq)
      BY <2>2 DEF MsgInv, Once, OnePlace, Queues
    <2>6. ASSUME retryq' = Append(retryq, m) /\ UNCHANGED <<pool, heldq>>
          PROVE  Once' /\ Queues'
      <3>1. (\A x : In(x, retryq') <=> In(x, retryq) \/ x = m) /\ Distinct(retryq')
        BY <1>1, <2>2, <2>5, <2>6, AppendIn
      <3>2. \A x : In(x, heldq') <=> In(x, heldq)
        BY <2>6
      <3>3. Once'
        BY <2>2, <2>3, <2>4, <2>6, <3>1, <3>2 DEF MsgInv, Once, OnePlace
      <3>4. Queues'
        BY <2>6, <3>1 DEF MsgInv, Queues, Distinct
      <3>. QED  BY <3>3, <3>4
    <2>7. ASSUME pool' = pool \cup {m} /\ UNCHANGED <<retryq, heldq>>
          PROVE  Once' /\ Queues'
      <3>1. \A x : (In(x, retryq') <=> In(x, retryq)) /\ (In(x, heldq') <=> In(x, heldq))
        BY <2>7
      <3>2. \A x : x \in pool' <=> x \in pool \/ x = m
        BY <2>7
      <3>3. Once'
        BY <2>2, <2>3, <2>4, <3>1, <3>2 DEF MsgInv, Once, OnePlace
      <3>4. Queues'
        BY <2>7 DEF MsgInv, Queues, Distinct
      <3>. QED  BY <3>3, <3>4
    <2>8. ASSUME Held(FlowOf[m]) = {} /\ heldq' = Append(heldq, m) /\ UNCHANGED <<pool, retryq>>
          PROVE  Once' /\ Queues'
      <3>1. (\A x : In(x, heldq') <=> In(x, heldq) \/ x = m) /\ Distinct(heldq')
        BY <1>1, <2>2, <2>5, <2>8, AppendIn
      <3>2. \A x : In(x, retryq') <=> In(x, retryq)
        BY <2>8
      <3>3. Once'
        BY <2>2, <2>3, <2>4, <2>8, <3>1, <3>2 DEF MsgInv, Once, OnePlace
      <3>4. \A i \in 1 .. Len(heldq) : FlowOf[heldq[i]] # FlowOf[m]
        BY <1>1, <2>8, RangeFacts DEF Held
      <3>5. /\ Len(heldq) \in Nat /\ Len(heldq') = Len(heldq) + 1
            /\ \A i \in 1 .. Len(heldq) : heldq'[i] = heldq[i]
            /\ heldq'[Len(heldq) + 1] = m
        BY <1>1, <2>2, <2>8, AppendFacts, SeqLength, SMTT(20)
      <3>6. \A i \in 1 .. Len(heldq') : i \in 1 .. Len(heldq) \/ i = Len(heldq) + 1
        BY <3>5, SMTT(20)
      <3>7. \A i, j \in 1 .. Len(heldq) : FlowOf[heldq[i]] = FlowOf[heldq[j]] => i = j
        BY DEF MsgInv, Queues
      <3>8. \A i, j \in 1 .. Len(heldq') : FlowOf[heldq'[i]] = FlowOf[heldq'[j]] => i = j
        BY <3>4, <3>5, <3>6, <3>7
      <3>9. Distinct(rx') /\ Distinct(retryq')
        BY <2>8 DEF MsgInv, Queues, Distinct
      <3>. QED  BY <3>1, <3>3, <3>8, <3>9 DEF Queues
    <2>9. Once' /\ Queues'
      BY <2>1, <2>6, <2>7, <2>8 DEF PostProcess
    <2>. QED  BY <1>2, <1>4, <1>5, <2>9
  <1>. QED  BY <1>6, <1>7

(* Detection completes, on the spot or when the packet is resumed. *)
LEMMA FinishSteps2 ==
    ASSUME IInv, MsgInv, Complete \/ Skip \/ Resume
    PROVE  MsgInv'
  <1>1. CASE Complete \/ Skip
    <2>1. FinishTop /\ pc = "inspect"
      BY <1>1 DEF Complete, Skip, Inspecting
    <2>2. Top \in Contexts
      BY <2>1, TopFacts
    <2>3. Finish(Top) /\ UNCHANGED <<rx, cur>> /\ pc' # "pclear"
      BY <2>1 DEF FinishTop, AfterPacket
    <2>4. /\ Once' /\ Queues' /\ OneWire'
          /\ \A d \in Contexts : ctx'[d].state = "idle" => ctx'[d].kind = None
      BY <2>2, <2>3, FinishMoves
    <2>. QED  BY <2>3, <2>4 DEF MsgInv, NoPacket
  <1>2. CASE Resume
    <2>. DEFINE c == Head(chain[resuming])
    <2>1. resuming \in Flows /\ Finish(c) /\ UNCHANGED <<rx, cur, pc, busy>>
      BY <1>2 DEF Resume, IInv, TypeOK
    <2>2. c \in Contexts /\ ctx[c].state = "suspended"
      <3>1. chain[resuming] \in Seq(Contexts) /\ chain[resuming] # <<>> /\ resuming # None
        BY <1>2, <2>1 DEF Resume, IInv, TypeOK, Chains
      <3>2. c = chain[resuming][1] /\ c \in Contexts /\ 1 \in 1 .. Len(chain[resuming])
        BY <3>1, TailFacts, SMTT(20)
      <3>3. \A f \in Flows : \A i \in 1 .. Len(chain[f]) : ctx[chain[f][i]].state = "suspended"
        BY SMTT(20) DEF IInv, Chains
      <3>4. ctx[chain[resuming][1]].state = "suspended"
        BY <2>1, <3>2, <3>3
      <3>. QED  BY <3>2, <3>4
    <2>. HIDE DEF c
    <2>3. /\ Once' /\ Queues' /\ OneWire'
          /\ \A d \in Contexts : ctx'[d].state = "idle" => ctx'[d].kind = None
          /\ \A d \in Contexts \ {c} : Kept(d)
      BY <2>1, <2>2, FinishMoves
    <2>4. pc = "pclear" => busy[1] \in Contexts /\ ctx[busy[1]].state = "busy"
      BY BottomFacts
    <2>. QED  BY <2>1, <2>2, <2>3, <2>4 DEF MsgInv, NoPacket, Kept
  <1>. QED  BY <1>1, <1>2

(* A flow's held message goes back to the pool. *)
LEMMA LetGo ==
    ASSUME IInv, MsgInv, WireKept, NEW f, pool' = pool \cup Held(f), heldq' = Unheld(f),
           UNCHANGED <<rx, retryq, cur>>
    PROVE  Once' /\ Queues' /\ OneWire'
  <1>1. /\ \A m : In(m, heldq') <=> In(m, heldq) /\ m \notin Held(f)
        /\ \A m : m \in Held(f) => In(m, heldq) /\ m \in Msgs
        /\ Distinct(heldq')
        /\ \A i, j \in 1 .. Len(heldq') : FlowOf[heldq'[i]] = FlowOf[heldq'[j]] => i = j
    BY UnheldIn DEF MsgInv
  <1>2. \A m : Wired(m)' <=> Wired(m)
    BY DEF WireKept, Wired
  <1>3. \A m : (In(m, rx)' <=> In(m, rx)) /\ (In(m, retryq)' <=> In(m, retryq))
    BY DEF In
  <1>4. Once'
    BY <1>1, <1>2, <1>3 DEF MsgInv, Once, OnePlace
  <1>5. Queues'
    BY <1>1 DEF MsgInv, Queues, Distinct
  <1>6. OneWire'
    BY DEF MsgInv, OneWire, WireKept
  <1>. QED  BY <1>4, <1>5, <1>6

(* finalize_held_packet, at the end of a rebuilt packet or of a flush; and  *)
(* the end of a purge.                                                      *)
LEMMA HeldSteps ==
    ASSUME IInv, MsgInv, FinalizeHeld \/ FlushEnd \/ PurgeCleared
    PROVE  MsgInv'
  <1>1. TypeOK /\ ctx \in [Contexts -> Context]
    BY DEF IInv, TypeOK
  <1>2. CASE FinalizeHeld
    <2>1. Top \in Contexts
      BY <1>2, TopFacts DEF FinalizeHeld
    <2>2. \A d \in Contexts : Kept(d)
      <3>1. ctx[Top].act \in Acts
        BY <1>1, <2>1 DEF Context
      <3>2. ctx' = [ctx EXCEPT ![Top].act = IF ctx[Top].act = "hold" THEN "allow" ELSE ctx[Top].act]
        BY <1>1, <1>2, <2>1 DEF Context, FinalizeHeld
      <3>3. \E a \in Acts : ctx' = [ctx EXCEPT ![Top].act = a]
        BY <3>1, <3>2 DEF Acts
      <3>. QED  BY <1>1, <2>1, <3>3, ActFacts
    <2>3. WireKept
      BY <2>2 DEF WireKept, Kept
    <2>4. Once' /\ Queues' /\ OneWire'
      BY <1>2, <2>3, LetGo DEF FinalizeHeld
    <2>5. NoPacket'
      BY <1>2, <2>2 DEF FinalizeHeld, MsgInv, NoPacket, Kept
    <2>. QED  BY <2>4, <2>5 DEF MsgInv
  <1>3. CASE FlushEnd \/ PurgeCleared
    <2>1. pc \in {"inspect", "pclear"} /\ (pc = "inspect" => ctx[Top].kind = "flush")
      BY <1>3 DEF FlushEnd, PurgeCleared, Inspecting
    <2>2. Top \in Contexts /\ Len(busy) = 1 /\ Top = busy[1] /\ ctx[Top].kind = "flush"
      BY <2>1, TopFacts DEF IInv, Stack, MsgInv, NoPacket
    <2>3. \A d \in Contexts : ctx'[d] = ctx[d] \/ (d = Top /\ ctx'[d] = IdleContext)
      BY <1>1, <1>3, <2>2 DEF FlushEnd, PurgeCleared
    <2>4. WireKept
      BY <2>2, <2>3, IdleFacts DEF WireKept
    <2>5. \A d \in Contexts : ctx'[d].state = "idle" => ctx'[d].kind = None
      BY <2>3, IdleFacts DEF MsgInv, NoPacket
    <2>6. pc' = "pclear" => ctx' = ctx /\ busy' = busy
      BY <1>3 DEF FlushEnd, PurgeCleared, IInv, TypeOK
    <2>7. NoPacket'
      BY <2>2, <2>5, <2>6 DEF NoPacket
    <2>8. Once' /\ Queues' /\ OneWire'
      <3>1. CASE FlushEnd
        BY <2>4, <3>1, LetGo DEF FlushEnd
      <3>2. CASE PurgeCleared
        BY <2>4, <3>2, Unmoved DEF PurgeCleared, msgs
      <3>. QED  BY <1>3, <3>1, <3>2
    <2>. QED  BY <2>7, <2>8 DEF MsgInv
  <1>. QED  BY <1>2, <1>3
-----------------------------------------------------------------------------
(* A batch is used up whatever the thread does with its packets. *)
LEMMA BatchKeeps ==
    ASSUME IInv, Batch, [Next]_vars
    PROVE  Batch'
  <1>. USE DEF Batch, msgs
  <1>1. TypeOK /\ Stack
    BY DEF IInv
  <1>2. CASE Onload \/ Resume \/ Stall
    <2>1. UNCHANGED <<rx, pc, ret, idling>>
      BY <1>2 DEF Onload, Resume, Stall
    <2>. QED  BY <2>1
  <1>3. CASE Received \/ Onloaded
    BY <1>3, SMTT(20) DEF Received, Onloaded, RetryNow
  <1>3a. CASE Receive
    <2>1. PICK s \in Batches : rx' = s /\ idling' \in IF s = <<>> THEN BOOLEAN ELSE {FALSE}
      BY <1>3a DEF Receive
    <2>2. idling' => rx' = <<>>
      BY <2>1
    <2>. QED  BY <1>3a, <2>2 DEF Receive
  <1>4. CASE NextPacket \/ PassMessage \/ NoMoreMessages
    BY <1>4, SMTT(20) DEF NextPacket, PassMessage, NoMoreMessages, RetryNow
  <1>5. CASE RetryPacket \/ RetryDone
    BY <1>5, SMTT(20) DEF RetryPacket, RetryDone
  <1>6. CASE Start \/ Hold \/ Rebuild \/ Rebuilt \/ FinalizeHeld
    BY <1>6, SMTT(20) DEF Start, Hold, Rebuild, Rebuilt, FinalizeHeld, Inspecting, control
  <1>7. CASE Offload \/ SuspendBehind \/ Complete \/ Skip
    <2>1. pc = "inspect" /\ pc' = AfterPacket /\ UNCHANGED <<rx, ret, idling>>
      BY <1>7 DEF Offload, SuspendBehind, Complete, Skip, FinishTop, Suspend, Inspecting
    <2>. QED  BY <2>1 DEF AfterPacket
  <1>8. CASE NoneExpired \/ Expired
    BY <1>1, <1>8, SMTT(20) DEF NoneExpired, Expired, TypeOK
  <1>9. CASE EnterFlush \/ FlushEnd
    BY <1>1, <1>9, SMTT(20) DEF EnterFlush, FlushEnd, Inspecting, TypeOK
  <1>10. CASE Exit \/ PurgeFlow \/ PurgeOnloaded \/ PurgeCleared
    BY <1>10, SMTT(20) DEF Exit, PurgeFlow, PurgeOnloaded, PurgeCleared
  <1>11. CASE Discard \/ StopOffloader \/ Join
    BY <1>11, SMTT(20) DEF Discard, StopOffloader, Join
  <1>12. CASE Worker \/ UNCHANGED vars
    <2>1. UNCHANGED <<rx, pc, ret, idling>>
      BY <1>12 DEF Worker, WorkerCheck, WorkerSearch, vars, control
    <2>. QED  BY <2>1
  <1>. QED
    BY <1>2, <1>3, <1>3a, <1>4, <1>5, <1>6, <1>7, <1>8, <1>9, <1>10, <1>11, <1>12
    DEF Next, Thread, Spin

(* Every step keeps messages in one place. *)
LEMMA MessagesKeep ==
    ASSUME IInv, Batch, MsgInv, [Next]_vars
    PROVE  MsgInv'
  <1>1. CASE Thread
    BY <1>1, QuietSteps, FlagSteps, RebuildSteps, ReceiveMoves, QueueMoves, StartMoves, FinishSteps2,
       HeldSteps DEF Thread
  <1>2. CASE Worker \/ UNCHANGED vars
    BY <1>2, QuietSteps DEF Worker
  <1>. QED  BY <1>1, <1>2 DEF Next, Spin

(* At the start every message is in the pool. *)
LEMMA MessagesInit ==
    ASSUME Init
    PROVE  Batch /\ MsgInv
  <1>1. Batch
    BY DEF Init, Batch
  <1>2. Once
    <2>1. \A m \in Msgs : m \in pool /\ ~In(m, rx) /\ ~In(m, retryq) /\ ~In(m, heldq) /\ cur # m
      BY SeqEmpty, PacketPathAssumption, SMTT(20) DEF Init, In
    <2>2. \A m : ~Wired(m)
      BY IdleFacts DEF Init, Wired
    <2>. QED  BY <2>1, <2>2 DEF Once, OnePlace
  <1>3. Queues
    BY SeqEmpty, SMTT(20) DEF Init, Queues, Distinct
  <1>4. OneWire /\ NoPacket
    BY IdleFacts DEF Init, OneWire, NoPacket
  <1>. QED  BY <1>1, <1>2, <1>3, <1>4 DEF MsgInv

(* The invariant holds always. *)
THEOREM MessagesHold == Spec => [](IInv /\ Batch /\ MsgInv)
  <1>1. Init => IInv /\ Batch /\ MsgInv
    BY Initially, MessagesInit
  <1>2. IInv /\ Batch /\ MsgInv /\ [Next]_vars => (IInv /\ Batch /\ MsgInv)'
    BY Inductive, BatchKeeps, MessagesKeep
  <1>. QED  BY <1>1, <1>2, PTL DEF Spec

(* The invariant says of the six places what the property says. *)
LEMMA OncePerMessage ==
    ASSUME IInv, MsgInv
    PROVE  EachMessageOnce
  <1>. DEFINE wires == {ctx[c].msg : c \in {d \in Contexts : ctx[d].kind = "wire"}}
  <1>1. /\ Places[1] = pool /\ Places[2] = Range(rx) /\ Places[3] = Range(retryq)
        /\ Places[4] = Range(heldq) /\ Places[5] = {cur} \ {None} /\ Places[6] = wires
    BY DEF Places
  <1>2. rx \in Seq(Msgs) /\ retryq \in Seq(Msgs) /\ heldq \in Seq(Msgs) /\ None \notin Msgs
    BY PacketPathAssumption DEF IInv, TypeOK
  <1>3. \A m \in Msgs :
           /\ m \in Places[1] <=> m \in pool
           /\ m \in Places[2] <=> In(m, rx)
           /\ m \in Places[3] <=> In(m, retryq)
           /\ m \in Places[4] <=> In(m, heldq)
           /\ m \in Places[5] <=> cur = m
           /\ m \in Places[6] <=> Wired(m)
    <2>. TAKE m \in Msgs
    <2>1. /\ m \in Range(rx) <=> In(m, rx)
          /\ m \in Range(retryq) <=> In(m, retryq)
          /\ m \in Range(heldq) <=> In(m, heldq)
      BY <1>2, RangeFacts DEF In
    <2>2. m \in wires <=> Wired(m)
      BY DEF Wired
    <2>3. m \in {cur} \ {None} <=> cur = m
      BY <1>2
    <2>. HIDE DEF wires
    <2>. QED  BY <1>1, <2>1, <2>2, <2>3
  <1>4. \A m \in Msgs : \E i \in 1 .. 6 :
           m \in Places[i] /\ \A j \in 1 .. 6 \ {i} : m \notin Places[j]
    <2>. TAKE m \in Msgs
    <2>1. OnePlace(m \in Places[1], m \in Places[2], m \in Places[3], m \in Places[4],
                   m \in Places[5], m \in Places[6])
      BY <1>3 DEF MsgInv, Once, OnePlace
    <2>2. \E i \in {1, 2, 3, 4, 5, 6} : m \in Places[i]
      BY <2>1 DEF OnePlace
    <2>2a. PICK i \in 1 .. 6 : m \in Places[i]
      BY <2>2, SMTT(20)
    <2>3. \A j \in 1 .. 6 \ {i} : m \notin Places[j]
      BY <2>1, <2>2a, SMTT(20) DEF OnePlace
    <2>. QED  BY <2>2a, <2>3
  <1>5. \A q \in {rx, retryq, heldq} : IsInjective(q)
    <2>1. DOMAIN rx = 1 .. Len(rx) /\ DOMAIN retryq = 1 .. Len(retryq) /\ DOMAIN heldq = 1 .. Len(heldq)
      BY <1>2, SeqLength
    <2>. QED  BY <2>1 DEF MsgInv, Queues, Distinct, IsInjective
  <1>. QED  BY <1>4, <1>5 DEF EachMessageOnce, MsgInv, OneWire

(* Every message the DAQ handed out is in one place: a packet, the retry    *)
(* queue, the held queue, the batch or the hands of the thread, or back in  *)
(* the pool; it is finalized once.                                          *)
THEOREM MessagesOnce == Spec => []EachMessageOnce
  BY MessagesHold, OncePerMessage, PTL
=============================================================================
