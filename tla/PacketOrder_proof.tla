------------------------- MODULE PacketOrder_proof --------------------------
(***************************************************************************)
(* The order in which packets are done, and what is left when the thread   *)
(* ends, whatever the numbers of messages, contexts, requests and flows: a *)
(* wire packet outlives the packets rebuilt from it, and a thread that     *)
(* purged its flows ends with every message finalized.                     *)
(***************************************************************************)
EXTENDS PacketMessages_proof

USE ZenonT(30)

(* A context in use is on the stack or in the chain of its flow. *)
InUse ==
    /\ \A c \in Contexts : ctx[c].state = "busy" => In(c, busy)
    /\ \A c \in Contexts : ctx[c].state = "suspended" =>
          ctx[c].flow \in Flows /\ In(c, chain[ctx[c].flow])

Before(q, c, p) == \E i, j \in 1 .. Len(q) : i < j /\ q[i] = c /\ q[j] = p

(* A packet rebuilt from a wire packet that is not skipped. *)
Derived(c) == ctx[c].kind = "pdu" /\ ctx[c].parent # None /\ ctx[c].msg \notin SkipMsgs

(* Its wire packet is still being inspected, or behind it in the chain. *)
Linked(c, p) ==
    /\ p \in Contexts /\ ctx[p].kind = "wire" /\ ctx[p].msg = ctx[c].msg
    /\ ctx[c].flow \in Flows /\ ctx[p].flow = ctx[c].flow
    /\ In(p, busy) \/ Before(chain[ctx[c].flow], c, p)

DepthFirst == \A c \in Contexts : Derived(c) => Linked(c, ctx[c].parent)

OrderInv == InUse /\ DepthFirst

(* The packet of a message is one of the message's flow, and what is held   *)
(* belongs to a flow.                                                       *)
OwnFlow ==
    \A c \in Contexts :
        /\ ctx[c].kind = "wire" => ctx[c].flow = FlowOf[ctx[c].msg]
        /\ ctx[c].act = "hold" => ctx[c].kind = "wire" /\ ctx[c].flow # None

HeldFlows == \A i \in 1 .. Len(heldq) : FlowOf[heldq[i]] \in Flows

OwnInv == OwnFlow /\ HeldFlows

(* Packets are rebuilt for a flow. *)
RebuildFlow == pc = "rebuild" => ctx[Top].flow # None
-----------------------------------------------------------------------------
(* The order of a sequence when it grows at the end ... *)
LEMMA BeforeAppend ==
    ASSUME NEW S, NEW q \in Seq(S), NEW e \in S
    PROVE  /\ \A c, p : Before(q, c, p) => Before(Append(q, e), c, p)
           /\ \A c : In(c, q) => Before(Append(q, e), c, e)
           /\ \A c : In(c, q) => In(c, Append(q, e))
           /\ In(e, Append(q, e))
  <1>. DEFINE t == Append(q, e)
              n == Len(q)
  <1>1. n \in Nat /\ Len(t) = n + 1 /\ (\A i \in 1 .. n : t[i] = q[i]) /\ t[n + 1] = e
    BY AppendFacts, SeqLength, SMTT(20)
  <1>. HIDE DEF t
  <1>2. /\ \A i \in 1 .. n : i \in 1 .. Len(t) /\ t[i] = q[i] /\ i < n + 1
        /\ n + 1 \in 1 .. Len(t) /\ t[n + 1] = e
    BY <1>1, SMTT(20)
  <1>. DEFINE k == n + 1
  <1>3. /\ \A i \in 1 .. n : i \in 1 .. Len(t) /\ t[i] = q[i] /\ i < k
        /\ k \in 1 .. Len(t) /\ t[k] = e
    BY <1>2
  <1>. HIDE DEF k
  <1>4. \A c, p : Before(q, c, p) => Before(t, c, p)
    <2>. TAKE c, p
    <2>. SUFFICES ASSUME Before(q, c, p)
                  PROVE  Before(t, c, p)
      OBVIOUS
    <2>1. PICK i, j \in 1 .. n : i < j /\ q[i] = c /\ q[j] = p
      BY DEF Before
    <2>2. i \in 1 .. Len(t) /\ j \in 1 .. Len(t) /\ t[i] = c /\ t[j] = p
      BY <1>3, <2>1
    <2>. QED  BY <2>1, <2>2 DEF Before
  <1>5. ASSUME NEW c, In(c, q)
        PROVE  Before(t, c, e) /\ In(c, t)
    <2>1. PICK i \in 1 .. n : q[i] = c
      BY <1>5 DEF In
    <2>2. i \in 1 .. Len(t) /\ t[i] = c /\ i < k
      BY <1>3, <2>1
    <2>. QED  BY <1>3, <2>2 DEF Before, In
  <1>6. In(e, t)
    BY <1>3 DEF In
  <1>. QED  BY <1>4, <1>5, <1>6 DEF t

(* ... and when its front leaves. *)
LEMMA BeforeTail ==
    ASSUME NEW S, NEW q \in Seq(S), q # <<>>, Distinct(q)
    PROVE  \A c, p : Before(q, c, p) => p # Head(q) /\ (c # Head(q) => Before(Tail(q), c, p))
  <1>. DEFINE t == Tail(q)
              n == Len(q)
  <1>1. /\ n \in Nat \ {0} /\ Len(t) = n - 1 /\ \A i \in 1 .. n - 1 : t[i] = q[i + 1]
        /\ Head(q) = q[1]
    BY TailFacts
  <1>. HIDE DEF t
  <1>. TAKE c, p
  <1>. SUFFICES ASSUME Before(q, c, p)
                PROVE  p # q[1] /\ (c # q[1] => Before(t, c, p))
    BY <1>1 DEF t
  <1>2. PICK i, j \in 1 .. n : i < j /\ q[i] = c /\ q[j] = p
    BY DEF Before
  <1>3. p # q[1]
    BY <1>1, <1>2, SMTT(20) DEF Distinct
  <1>4. ASSUME c # q[1]
        PROVE  Before(t, c, p)
    <2>1. i # 1
      BY <1>2, <1>4
    <2>2. i - 1 \in 1 .. n - 1 /\ j - 1 \in 1 .. n - 1 /\ i - 1 < j - 1
      BY <1>1, <1>2, <2>1, SMTT(20)
    <2>3. t[i - 1] = q[i] /\ t[j - 1] = q[j]
      BY <1>1, <2>2, SMTT(20)
    <2>. DEFINE a == i - 1
                b == j - 1
    <2>4. a \in 1 .. Len(t) /\ b \in 1 .. Len(t) /\ a < b /\ t[a] = c /\ t[b] = p
      BY <1>1, <1>2, <2>2, <2>3
    <2>. HIDE DEF a, b
    <2>. QED  BY <2>4 DEF Before
  <1>. QED  BY <1>3, <1>4

(* What is below the top of the stack stays when the top is taken. *)
LEMMA InFront ==
    ASSUME NEW S, NEW q \in Seq(S), q # <<>>
    PROVE  \A x : In(x, q) /\ x # Last(q) => In(x, Front(q))
  <1>. DEFINE t == Front(q)
              n == Len(q)
  <1>1. /\ n \in Nat \ {0} /\ Len(t) = n - 1 /\ \A i \in 1 .. n - 1 : t[i] = q[i]
        /\ Last(q) = q[n]
    BY FrontFacts
  <1>. HIDE DEF t
  <1>. TAKE x
  <1>. SUFFICES ASSUME In(x, q), x # q[n]
                PROVE  In(x, t)
    BY <1>1 DEF t
  <1>2. PICK i \in 1 .. n : q[i] = x
    BY DEF In
  <1>3. i \in 1 .. Len(t) /\ t[i] = x
    BY <1>1, <1>2, SMTT(20)
  <1>. QED  BY <1>3 DEF In
-----------------------------------------------------------------------------
(* d keeps its packet and its place. *)
Same(d) ==
    /\ ctx'[d].state = ctx[d].state /\ ctx'[d].kind = ctx[d].kind /\ ctx'[d].flow = ctx[d].flow
    /\ ctx'[d].msg = ctx[d].msg /\ ctx'[d].parent = ctx[d].parent

(* The stack and the chains stay as they are. *)
LEMMA OrderFrame ==
    ASSUME OrderInv, \A d \in Contexts : Same(d), UNCHANGED <<busy, chain>>
    PROVE  OrderInv'
  <1>1. InUse'
    BY SMTT(20) DEF OrderInv, InUse, Same, In
  <1>2. ASSUME NEW c \in Contexts, Derived(c)'
        PROVE  Linked(c, ctx[c].parent)'
    <2>1. Derived(c) /\ Linked(c, ctx[c].parent) /\ Same(c) /\ ctx'[c].parent = ctx[c].parent
      BY <1>2 DEF OrderInv, DepthFirst, Derived, Same
    <2>2. ctx[c].parent \in Contexts /\ Same(ctx[c].parent)
      BY <2>1 DEF Linked
    <2>. QED  BY <2>1, <2>2, SMTT(20) DEF Linked, Same, In, Before
  <1>. QED  BY <1>1, <1>2 DEF OrderInv, DepthFirst

(* A context is entered. *)
LEMMA OrderEnter ==
    ASSUME IInv, MsgInv, OrderInv, NEW c \in Contexts, ctx[c].state = "idle", ctx'[c].state = "busy",
           busy' = Append(busy, c), chain' = chain, \A d \in Contexts \ {c} : Same(d),
           NEW p, p = ctx'[c].parent,
           Derived(c)' => /\ p \in Contexts \ {c} /\ ctx[p].kind = "wire" /\ ctx[p].msg = ctx'[c].msg
                          /\ ctx'[c].flow \in Flows /\ ctx[p].flow = ctx'[c].flow /\ In(p, busy)
    PROVE  OrderInv'
  <1>1. busy \in Seq(Contexts) /\ ctx[c].kind # "wire"
    BY PacketPathAssumption DEF IInv, TypeOK, MsgInv, NoPacket
  <1>2. (\A d : In(d, busy) => In(d, busy')) /\ In(c, busy')
    BY <1>1, BeforeAppend
  <1>3. InUse'
    BY <1>2 DEF OrderInv, InUse, Same
  <1>4. ASSUME NEW d \in Contexts, Derived(d)', d # c
        PROVE  Linked(d, ctx[d].parent)'
    <2>. DEFINE q == ctx[d].parent
    <2>1. Derived(d) /\ Linked(d, q) /\ Same(d) /\ ctx'[d].parent = q
      BY <1>4, SMTT(20) DEF OrderInv, DepthFirst, Derived, Same
    <2>2. q \in Contexts \ {c} /\ Same(q)
      BY <1>1, <2>1 DEF Linked
    <2>3. Linked(d, q)'
      BY <1>2, <2>1, <2>2 DEF Linked, Same
    <2>. QED  BY <2>1, <2>3 DEF Linked
  <1>5. ASSUME Derived(c)'
        PROVE  Linked(c, ctx[c].parent)'
    BY <1>2, <1>5 DEF Linked, Same
  <1>. QED  BY <1>3, <1>4, <1>5 DEF OrderInv, DepthFirst

(* The context on top is done with, and no packet rebuilt from its packet   *)
(* is left.                                                                 *)
LEMMA OrderPop ==
    ASSUME IInv, OrderInv, pc \in {"rebuild", "unhold", "pclear", "inspect"},
           ctx'[Top] = IdleContext, \A d \in Contexts \ {Top} : Same(d),
           busy' = Front(busy), chain' = chain,
           \A d \in Contexts : Derived(d) => ctx[d].parent # Top
    PROVE  OrderInv'
  <1>1. busy \in Seq(Contexts) /\ busy # <<>> /\ Top \in Contexts
    BY TopFacts
  <1>2. \A d : In(d, busy) /\ d # Top => In(d, busy')
    BY <1>1, InFront DEF Top
  <1>3. ctx'[Top].state = "idle" /\ ctx'[Top].kind # "pdu"
    BY IdleFacts
  <1>4. InUse'
    BY <1>2, <1>3 DEF OrderInv, InUse, Same
  <1>5. ASSUME NEW d \in Contexts, Derived(d)'
        PROVE  Linked(d, ctx[d].parent)'
    <2>. DEFINE q == ctx[d].parent
    <2>1. d # Top
      BY <1>3, <1>5 DEF Derived
    <2>2. Derived(d) /\ Linked(d, q) /\ Same(d) /\ ctx'[d].parent = q
      BY <1>5, <2>1 DEF OrderInv, DepthFirst, Derived, Same
    <2>3. q \in Contexts \ {Top} /\ Same(q)
      BY <2>2 DEF Linked
    <2>4. Linked(d, q)'
      BY <1>2, <2>2, <2>3 DEF Linked, Same
    <2>. QED  BY <2>2, <2>4 DEF Linked
  <1>. QED  BY <1>4, <1>5 DEF OrderInv, DepthFirst

(* The only context on the stack, if its packet is no rebuilt one. *)
LEMMA AloneOnStack ==
    ASSUME IInv, pc = "inspect", ctx[Top].kind # "pdu"
    PROVE  \A d : In(d, busy) => d = Top
  <1>1. /\ busy \in Seq(Contexts) /\ Len(busy) \in {1, 2} /\ Top = busy[Len(busy)]
        /\ Len(busy) = 2 => ctx[busy[2]].kind = "pdu"
    BY TopFacts DEF IInv, Stack
  <1>2. Len(busy) = 1 /\ Top = busy[1]
    BY <1>1
  <1>. QED  BY <1>2, SMTT(20) DEF In

(* The packets rebuilt from the one on top are in the chain of its flow. *)
LEMMA ChildrenChained ==
    ASSUME IInv, MsgInv, OrderInv, pc = "inspect", NEW d \in Contexts, Derived(d), ctx[d].parent = Top
    PROVE  /\ d # Top /\ ctx[Top].kind = "wire" /\ ctx[Top].msg = ctx[d].msg
           /\ ctx[Top].flow \in Flows /\ ctx[d].flow = ctx[Top].flow /\ In(d, chain[ctx[Top].flow])
  <1>1. Linked(d, Top) /\ ctx[d].kind = "pdu"
    BY DEF OrderInv, DepthFirst, Derived
  <1>2. /\ d # Top /\ ctx[Top].kind = "wire" /\ ctx[Top].msg = ctx[d].msg
        /\ ctx[Top].flow \in Flows /\ ctx[d].flow = ctx[Top].flow
    BY <1>1 DEF Linked
  <1>3. ~In(d, busy)
    BY <1>2, AloneOnStack
  <1>4. ctx[d].state \in {"idle", "busy", "suspended"} /\ ctx[d].state # "idle"
    BY <1>1, PacketPathAssumption DEF IInv, TypeOK, Context, MsgInv, NoPacket
  <1>5. In(d, chain[ctx[d].flow])
    BY <1>3, <1>4 DEF OrderInv, InUse
  <1>. QED  BY <1>2, <1>5

(* A packet is suspended: it goes behind those rebuilt from it. *)
LEMMA OrderSuspend ==
    ASSUME IInv, MsgInv, OrderInv, NEW o \in BOOLEAN, Suspend(o), pc = "inspect", ctx[Top].flow # None
    PROVE  OrderInv'
  <1>1. busy \in Seq(Contexts) /\ busy # <<>> /\ Top \in Contexts
    BY TopFacts
  <1>2. ctx \in [Contexts -> Context] /\ chain \in [Flows -> Seq(Contexts)]
    BY DEF IInv, TypeOK
  <1>. DEFINE f == ctx[Top].flow
  <1>3. f \in Flows
    BY <1>1, <1>2 DEF Context
  <1>4. /\ ctx' = [ctx EXCEPT ![Top].state = "suspended", ![Top].offloaded = o]
        /\ busy' = Front(busy)
        /\ chain' = [chain EXCEPT ![f] = Append(@, Top)]
    BY DEF Suspend
  <1>5. /\ \A d \in Contexts \ {Top} : Same(d)
        /\ ctx'[Top].state = "suspended" /\ ctx'[Top].kind = ctx[Top].kind /\ ctx'[Top].flow = f
        /\ ctx'[Top].msg = ctx[Top].msg /\ ctx'[Top].parent = ctx[Top].parent
    BY <1>1, <1>2, <1>4 DEF Context, Same
  <1>6. \A d : In(d, busy) /\ d # Top => In(d, busy')
    BY <1>1, <1>4, InFront DEF Top
  <1>7. chain'[f] = Append(chain[f], Top) /\ chain[f] \in Seq(Contexts)
        /\ \A g \in Flows \ {f} : chain'[g] = chain[g]
    BY <1>2, <1>3, <1>4
  <1>. HIDE DEF f
  <1>8. /\ \A c, q : Before(chain[f], c, q) => Before(chain'[f], c, q)
        /\ \A c : In(c, chain[f]) => Before(chain'[f], c, Top) /\ In(c, chain'[f])
        /\ In(Top, chain'[f])
    BY <1>1, <1>7, BeforeAppend
  <1>9. \A g \in Flows : /\ \A c, q : Before(chain[g], c, q) => Before(chain'[g], c, q)
                         /\ \A c : In(c, chain[g]) => In(c, chain'[g])
    BY <1>7, <1>8
  <1>10. InUse'
    <2>1. \A c \in Contexts \ {Top} : ctx'[c].state = "busy" => In(c, busy')
      BY <1>5, <1>6 DEF OrderInv, InUse, Same
    <2>2. \A c \in Contexts \ {Top} : ctx'[c].state = "suspended" =>
             ctx'[c].flow \in Flows /\ In(c, chain'[ctx'[c].flow])
      BY <1>5, <1>9 DEF OrderInv, InUse, Same
    <2>. QED  BY <1>3, <1>5, <1>8, <2>1, <2>2 DEF InUse
  <1>11. ASSUME NEW d \in Contexts, Derived(d)'
         PROVE  Linked(d, ctx[d].parent)'
    <2>. DEFINE q == ctx[d].parent
    <2>1. /\ ctx'[d].kind = ctx[d].kind /\ ctx'[d].flow = ctx[d].flow /\ ctx'[d].msg = ctx[d].msg
          /\ ctx'[d].parent = q
      BY <1>5 DEF Same, f
    <2>2. Derived(d) /\ Linked(d, q)
      BY <1>11, <2>1 DEF OrderInv, DepthFirst, Derived
    <2>3. /\ q \in Contexts /\ ctx'[q].kind = ctx[q].kind /\ ctx'[q].flow = ctx[q].flow
          /\ ctx'[q].msg = ctx[q].msg
      BY <1>5, <2>2 DEF Linked, Same, f
    <2>4. CASE q # Top
      <3>1. In(q, busy') \/ Before(chain'[ctx[d].flow], d, q)
        BY <1>6, <1>9, <2>2, <2>4 DEF Linked
      <3>. QED  BY <2>1, <2>2, <2>3, <3>1 DEF Linked
    <2>5. CASE q = Top
      <3>1. ctx[d].flow = f /\ In(d, chain[f])
        BY <2>2, <2>5, ChildrenChained DEF f
      <3>2. Before(chain'[ctx[d].flow], d, q)
        BY <1>8, <2>5, <3>1
      <3>. QED  BY <2>1, <2>2, <2>3, <3>2 DEF Linked
    <2>. QED  BY <2>4, <2>5
  <1>. QED  BY <1>10, <1>11 DEF OrderInv, DepthFirst

(* The packet at the front of a chain is done. *)
LEMMA OrderResume ==
    ASSUME IInv, OrderInv, NEW f \in Flows, chain[f] # <<>>, NEW h, h = Head(chain[f]),
           ctx'[h] = IdleContext, \A d \in Contexts \ {h} : Same(d),
           chain' = [chain EXCEPT ![f] = Tail(chain[f])], busy' = busy
    PROVE  OrderInv'
  <1>1. chain[f] \in Seq(Contexts) /\ chain \in [Flows -> Seq(Contexts)]
    BY DEF IInv, TypeOK
  <1>2. Distinct(chain[f])
    BY DEF IInv, Chains, Distinct
  <1>3. h \in Contexts /\ h = chain[f][1] /\ 1 \in 1 .. Len(chain[f])
    BY <1>1, TailFacts, SMTT(20)
  <1>4. ctx[h].state = "suspended" /\ ctx[h].flow = f
    BY <1>3, SMTT(20) DEF IInv, Chains
  <1>5. chain'[f] = Tail(chain[f]) /\ \A g \in Flows \ {f} : chain'[g] = chain[g]
    BY <1>1
  <1>6. /\ \A x : In(x, chain[f]) /\ x # h => In(x, chain'[f])
        /\ \A c, q : Before(chain[f], c, q) => q # h /\ (c # h => Before(chain'[f], c, q))
    BY <1>1, <1>2, <1>5, TailIn, BeforeTail
  <1>7. ~In(h, busy)
    BY <1>4 DEF IInv, Stack, In
  <1>8. ctx'[h].state = "idle" /\ ctx'[h].kind # "pdu"
    BY IdleFacts
  <1>9. InUse'
    <2>1. \A c \in Contexts : ctx'[c].state = "busy" => In(c, busy')
      BY <1>8 DEF OrderInv, InUse, Same
    <2>2. \A c \in Contexts : ctx'[c].state = "suspended" =>
             ctx'[c].flow \in Flows /\ In(c, chain'[ctx'[c].flow])
      BY <1>5, <1>6, <1>8, SMTT(20) DEF OrderInv, InUse, Same
    <2>. QED  BY <2>1, <2>2 DEF InUse
  <1>10. ASSUME NEW d \in Contexts, Derived(d)'
         PROVE  Linked(d, ctx[d].parent)'
    <2>. DEFINE q == ctx[d].parent
    <2>1. d # h
      BY <1>8, <1>10 DEF Derived
    <2>2. Derived(d) /\ Linked(d, q) /\ Same(d) /\ ctx'[d].parent = q
      BY <1>10, <2>1 DEF OrderInv, DepthFirst, Derived, Same
    <2>3. q # h
      BY <1>4, <1>6, <1>7, <2>2 DEF Linked
    <2>4. q \in Contexts /\ Same(q)
      BY <2>2, <2>3 DEF Linked
    <2>5. In(q, busy') \/ Before(chain'[ctx[d].flow], d, q)
      BY <1>5, <1>6, <2>1, <2>2 DEF Linked
    <2>. QED  BY <2>2, <2>4, <2>5 DEF Linked, Same
  <1>. QED  BY <1>9, <1>10 DEF OrderInv, DepthFirst
-----------------------------------------------------------------------------
(* What a step leaves of the contexts it is not about: no packet becomes    *)
(* held by it.                                                              *)
Steady(d) == Same(d) /\ (ctx'[d].act = "hold" => ctx[d].act = "hold")

(* No delayed action makes a packet held. *)
LEMMA DelayedHold ==
    ASSUME NEW a \in Acts, NEW d \in {"allow", "drop", "retry"}, "hold" \in Delayed(a, d)
    PROVE  a = "hold"
  BY DEF Delayed, Acts

(* A held packet whose detection completes is queued; no other is. *)
LEMMA FinishSteady ==
    ASSUME IInv, NEW c \in Contexts, Finish(c)
    PROVE  /\ ctx'[c] = IdleContext /\ \A d \in Contexts \ {c} : Steady(d)
           /\ ctx[c].kind # "wire" => UNCHANGED <<retryq, heldq>>
           /\ \/ heldq' = heldq
              \/ /\ ctx[c].kind = "wire" /\ ctx[c].act = "hold" /\ ctx[c].msg \in Msgs
                 /\ heldq' = Append(heldq, ctx[c].msg)
  <1>1. ctx \in [Contexts -> Context] /\ (ctx[c].kind = "wire" => ctx[c].msg \in Msgs)
    BY DEF IInv, TypeOK, Messages, Context
  <1> DEFINE wire == IF ctx[c].kind = "wire" THEN c ELSE ctx[c].parent
             acts == wire # None /\ ctx[wire].kind = "wire"
  <1>2. PICK d \in {"allow", "drop", "retry"} :
           \E a \in IF acts THEN Delayed(ctx[wire].act, d) ELSE {"allow"} :
                IF ctx[c].kind = "wire"
                THEN /\ PostProcess(ctx[c].msg, a)
                     /\ ctx' = [ctx EXCEPT ![c] = IdleContext]
                ELSE /\ ctx' = IF acts
                               THEN [ctx EXCEPT ![wire].act = a, ![c] = IdleContext]
                               ELSE [ctx EXCEPT ![c] = IdleContext]
                     /\ UNCHANGED <<pool, retryq, heldq>>
    BY DEF Finish
  <1>3. wire \in Contexts \cup {None} /\ (ctx[c].kind = "wire" => wire = c)
    BY <1>1 DEF Context
  <1>4. acts => wire \in Contexts /\ ctx[wire].act \in Acts
    BY <1>1, <1>3 DEF Context
  <1>5. ctx[c].kind = "wire" => acts
    BY PacketPathAssumption
  <1>. HIDE DEF wire, acts
  <1>6. PICK a \in IF acts THEN Delayed(ctx[wire].act, d) ELSE {"allow"} :
                IF ctx[c].kind = "wire"
                THEN /\ PostProcess(ctx[c].msg, a)
                     /\ ctx' = [ctx EXCEPT ![c] = IdleContext]
                ELSE /\ ctx' = IF acts
                               THEN [ctx EXCEPT ![wire].act = a, ![c] = IdleContext]
                               ELSE [ctx EXCEPT ![c] = IdleContext]
                     /\ UNCHANGED <<pool, retryq, heldq>>
    BY <1>2
  <1>7. acts /\ a = "hold" => ctx[wire].act = "hold"
    BY <1>4, <1>6, DelayedHold
  <1>8. ASSUME ctx' = [ctx EXCEPT ![c] = IdleContext]
        PROVE  ctx'[c] = IdleContext /\ \A e \in Contexts \ {c} : Steady(e)
    BY <1>1, <1>8 DEF Steady, Same
  <1>9. CASE ctx[c].kind = "wire"
    <2>1. PostProcess(ctx[c].msg, a) /\ ctx' = [ctx EXCEPT ![c] = IdleContext]
      BY <1>6, <1>9
    <2>2. a = "hold" => ctx[c].act = "hold"
      BY <1>3, <1>5, <1>7, <1>9
    <2>3. heldq' = heldq \/ (a = "hold" /\ heldq' = Append(heldq, ctx[c].msg))
      BY <2>1 DEF PostProcess
    <2>. QED  BY <1>1, <1>8, <1>9, <2>1, <2>2, <2>3
  <1>10. CASE ctx[c].kind # "wire"
    <2>1. UNCHANGED <<retryq, heldq>>
      BY <1>6, <1>10
    <2>2. CASE acts
      <3>1. ctx' = [ctx EXCEPT ![wire].act = a, ![c] = IdleContext]
        BY <1>6, <1>10, <2>2
      <3>2. ctx'[c] = IdleContext
        BY <1>1, <3>1
      <3>3. ASSUME NEW e \in Contexts \ {c}
            PROVE  Steady(e)
        <4>1. CASE e = wire
          <5>1. ctx'[e] = [ctx[e] EXCEPT !.act = a]
            BY <1>1, <3>1, <4>1
          <5>. QED  BY <1>1, <1>7, <2>2, <4>1, <5>1, SMTT(20) DEF Steady, Same, Context
        <4>2. CASE e # wire
          <5>1. ctx'[e] = ctx[e]
            BY <1>1, <3>1, <4>2
          <5>. QED  BY <5>1 DEF Steady, Same
        <4>. QED  BY <4>1, <4>2
      <3>. QED  BY <1>10, <2>1, <3>2, <3>3
    <2>3. CASE ~acts
      <3>1. ctx' = [ctx EXCEPT ![c] = IdleContext]
        BY <1>6, <1>10, <2>3
      <3>. QED  BY <1>8, <1>10, <2>1, <3>1
    <2>. QED  BY <2>2, <2>3
  <1>. QED  BY <1>9, <1>10
(* What is held stays with its flow. *)
LEMMA OwnKeeps ==
    ASSUME OwnInv, \A d \in Contexts : Steady(d) \/ ctx'[d] = IdleContext
    PROVE  OwnFlow'
  BY IdleFacts, PacketPathAssumption, SMTT(20) DEF OwnInv, OwnFlow, Steady, Same, IdleContext

(* Letting go of a flow's held message, or of none, leaves the others.      *)
LEMMA HeldKeeps ==
    ASSUME IInv, MsgInv, OwnInv, NEW f, heldq' = heldq \/ heldq' = Unheld(f)
    PROVE  HeldFlows'
  <1>1. CASE heldq' = heldq
    BY <1>1 DEF OwnInv, HeldFlows
  <1>2. CASE heldq' = Unheld(f)
    <2>1. \A m : In(m, heldq') => In(m, heldq)
      BY <1>2, UnheldIn DEF MsgInv
    <2>2. \A m : In(m, heldq) => FlowOf[m] \in Flows
      BY DEF OwnInv, HeldFlows, In
    <2>3. \A k \in 1 .. Len(heldq') : In(heldq'[k], heldq')
      BY DEF In
    <2>. QED  BY <2>1, <2>2, <2>3 DEF HeldFlows
  <1>. QED  BY <1>1, <1>2

(* Steps that leave the contexts and what is held alone. *)
LEMMA StillSteps ==
    ASSUME OrderInv, OwnInv,
           \/ Received \/ Onloaded \/ NoMoreMessages \/ RetryDone \/ NoneExpired \/ Expired
           \/ Exit \/ PurgeFlow \/ PurgeOnloaded \/ Join \/ Stall \/ Rebuild \/ StopOffloader
           \/ Receive \/ NextPacket \/ PassMessage \/ RetryPacket \/ Discard
           \/ Worker \/ UNCHANGED vars
    PROVE  OrderInv' /\ OwnInv'
  <1>. USE DEF switcher, msgs
  <1>1. UNCHANGED <<ctx, busy, chain, heldq>>
    <2>1. CASE Received \/ Onloaded \/ NoMoreMessages \/ RetryDone \/ NoneExpired \/ Expired \/ Exit
      BY <2>1 DEF Received, Onloaded, NoMoreMessages, RetryDone, NoneExpired, Expired, Exit
    <2>2. CASE PurgeFlow \/ PurgeOnloaded \/ Join \/ Stall \/ Rebuild \/ StopOffloader
      BY <2>2 DEF PurgeFlow, PurgeOnloaded, Join, Stall, Rebuild, StopOffloader
    <2>3. CASE Receive \/ NextPacket \/ PassMessage \/ RetryPacket \/ Discard
      BY <2>3 DEF Receive, NextPacket, PassMessage, RetryPacket, Discard
    <2>4. CASE Worker \/ UNCHANGED vars
      BY <2>4 DEF Worker, WorkerCheck, WorkerSearch, vars
    <2>. QED  BY <2>1, <2>2, <2>3, <2>4
  <1>2. \A d \in Contexts : Same(d)
    BY <1>1 DEF Same
  <1>3. OwnInv'
    BY <1>1 DEF OwnInv, OwnFlow, HeldFlows
  <1>. QED  BY <1>1, <1>2, <1>3, OrderFrame

(* Steps that change the flags of a context. *)
LEMMA MarkSteps ==
    ASSUME IInv, MsgInv, OrderInv, OwnInv, Hold \/ Onload \/ FinalizeHeld
    PROVE  OrderInv' /\ OwnInv'
  <1>1. ctx \in [Contexts -> Context]
    BY DEF IInv, TypeOK
  <1>2. CASE Hold
    <2>1. Top \in Contexts /\ ctx[Top].kind = "wire" /\ ctx[Top].flow # None
      BY <1>2, TopFacts DEF Hold, Inspecting
    <2>2. ctx' = [ctx EXCEPT ![Top].act = "hold"] /\ UNCHANGED <<busy, chain, heldq>>
      BY <1>2 DEF Hold, msgs
    <2>3. (\A d \in Contexts : Same(d)) /\ \A d \in Contexts \ {Top} : Steady(d)
      BY <1>1, <2>1, <2>2 DEF Same, Steady, Context
    <2>4. OwnFlow'
      BY <2>1, <2>3, SMTT(20) DEF OwnInv, OwnFlow, Same, Steady
    <2>. QED  BY <2>2, <2>3, <2>4, OrderFrame DEF OwnInv, HeldFlows
  <1>3. CASE Onload
    <2>1. PICK c : ctx' = [ctx EXCEPT ![c].offloaded = FALSE]
      BY <1>3 DEF Onload
    <2>2. \A d \in Contexts : Same(d) /\ Steady(d)
      BY <1>1, <2>1 DEF Same, Steady, Context
    <2>3. UNCHANGED <<busy, chain, heldq>>
      BY <1>3 DEF Onload, msgs
    <2>. QED  BY <2>2, <2>3, OrderFrame, OwnKeeps DEF OwnInv, HeldFlows
  <1>4. CASE FinalizeHeld
    <2>1. Top \in Contexts
      BY <1>4, TopFacts DEF FinalizeHeld
    <2>2. ctx' = [ctx EXCEPT ![Top].act = IF @ = "hold" THEN "allow" ELSE @]
      BY <1>4 DEF FinalizeHeld
    <2>3. \A d \in Contexts : Same(d) /\ Steady(d)
      BY <1>1, <2>1, <2>2, SMTT(20) DEF Same, Steady, Context
    <2>4. UNCHANGED <<busy, chain>> /\ heldq' = Unheld(ctx[Top].flow)
      BY <1>4 DEF FinalizeHeld
    <2>5. HeldFlows'
      BY <2>4, HeldKeeps
    <2>. QED  BY <2>3, <2>4, <2>5, OrderFrame, OwnKeeps DEF OwnInv
  <1>. QED  BY <1>2, <1>3, <1>4

(* What entering a context does. *)
EnteredBy(c, kind, f, m, p) ==
    /\ ctx[c].state = "idle" /\ ctx'[c].state = "busy" /\ ctx'[c].kind = kind
    /\ ctx'[c].flow = f /\ ctx'[c].msg = m /\ ctx'[c].parent = p /\ ctx'[c].act = "allow"
    /\ \A d \in Contexts \ {c} : Same(d) /\ Steady(d)
    /\ busy' = Append(busy, c) /\ chain' = chain

(* Entering does that. *)
LEMMA EnterSteady ==
    ASSUME IInv, Idle # {}, NEW kind, NEW f, NEW m, NEW p, Enter(kind, f, m, p)
    PROVE  \E c \in Contexts : EnteredBy(c, kind, f, m, p)
  <1>1. ctx \in [Contexts -> Context]
    BY DEF IInv, TypeOK
  <1>. DEFINE c == NextContext
  <1>2. c \in Contexts /\ ctx[c].state = "idle"
    BY DEF Idle, NextContext
  <1>3. ctx' = [ctx EXCEPT ![c] =
           [IdleContext EXCEPT !.state = "busy", !.kind = kind, !.flow = f, !.msg = m, !.parent = p]]
    BY DEF Enter
  <1>4. busy' = Append(busy, c) /\ chain' = chain
    BY DEF Enter
  <1>. HIDE DEF c
  <1>5. ctx'[c] = [IdleContext EXCEPT !.state = "busy", !.kind = kind, !.flow = f, !.msg = m, !.parent = p]
    BY <1>1, <1>2, <1>3
  <1>6. /\ ctx'[c].state = "busy" /\ ctx'[c].kind = kind
        /\ ctx'[c].flow = f /\ ctx'[c].msg = m /\ ctx'[c].parent = p /\ ctx'[c].act = "allow"
    BY <1>5 DEF IdleContext
  <1>7. \A d \in Contexts \ {c} : Same(d) /\ Steady(d)
    BY <1>1, <1>3 DEF Same, Steady
  <1>. QED  BY <1>2, <1>4, <1>6, <1>7 DEF EnteredBy

(* A packet that is entered is of its message's flow. *)
LEMMA OwnEnter ==
    ASSUME OwnInv, NEW c \in Contexts, NEW kind, NEW f, NEW m, NEW p, EnteredBy(c, kind, f, m, p),
           kind = "wire" => f = FlowOf[m], heldq' = heldq
    PROVE  OwnInv'
  <1>1. OwnFlow'
    BY SMTT(20) DEF OwnInv, OwnFlow, EnteredBy, Steady, Same
  <1>. QED  BY <1>1 DEF OwnInv, HeldFlows
(* A packet is rebuilt from the one on top, or something is begun on an     *)
(* empty stack.                                                             *)
LEMMA EnterOrdered ==
    ASSUME IInv, MsgInv, OrderInv, OwnInv, RebuildFlow, Start \/ Rebuilt \/ EnterFlush
    PROVE  OrderInv' /\ OwnInv'
  <1>1. Idle # {} /\ heldq' = heldq
    BY DEF Start, Rebuilt, EnterFlush, Through, msgs
  <1>2. CASE Start \/ EnterFlush
    <2>1. \E kind \in {"wire", "flush"} : \E f, m : Enter(kind, f, m, None) /\ (kind = "wire" => f = FlowOf[m])
      <3>1. CASE Start
        BY <3>1 DEF Start
      <3>2. CASE EnterFlush
        BY <3>2 DEF EnterFlush
      <3>. QED  BY <1>2, <3>1, <3>2
    <2>1a. PICK kind \in {"wire", "flush"} :
              \E f, m : Enter(kind, f, m, None) /\ (kind = "wire" => f = FlowOf[m])
      BY <2>1
    <2>1b. PICK f, m : Enter(kind, f, m, None) /\ (kind = "wire" => f = FlowOf[m])
      BY <2>1a
    <2>2. PICK c \in Contexts : EnteredBy(c, kind, f, m, None)
      BY <1>1, <2>1b, EnterSteady
    <2>3. OwnInv'
      BY <1>1, <2>1b, <2>2, OwnEnter
    <2>4. ~Derived(c)'
      BY <2>2 DEF Derived, EnteredBy
    <2>5. OrderInv'
      BY <2>2, <2>4, OrderEnter DEF EnteredBy
    <2>. QED  BY <2>3, <2>5
  <1>3. CASE Rebuilt
    <2>1. /\ Top \in Contexts /\ ctx[Top].state = "busy" /\ pc = "rebuild"
          /\ busy \in Seq(Contexts) /\ busy # <<>> /\ Len(busy) \in {1, 2} /\ Top = busy[Len(busy)]
      BY <1>3, TopFacts DEF Rebuilt
    <2>. DEFINE p == IF ctx[Top].kind = "wire" THEN Top ELSE None
    <2>2. Enter("pdu", ctx[Top].flow, ctx[Top].msg, p)
      BY <1>3 DEF Rebuilt
    <2>3. PICK c \in Contexts : EnteredBy(c, "pdu", ctx[Top].flow, ctx[Top].msg, p)
      BY <1>1, <2>2, EnterSteady
    <2>4. OwnInv'
      BY <1>1, <2>3, OwnEnter
    <2>5. In(Top, busy) /\ c # Top
      BY <2>1, <2>3, SMTT(20) DEF In, EnteredBy
    <2>6. ctx[Top].flow \in Flows
      BY <2>1 DEF RebuildFlow, IInv, TypeOK, Context
    <2>7. Derived(c)' => p = Top /\ ctx[Top].kind = "wire"
      BY <2>3 DEF Derived, EnteredBy
    <2>8. OrderInv'
      BY <2>1, <2>3, <2>5, <2>6, <2>7, OrderEnter DEF EnteredBy
    <2>. QED  BY <2>4, <2>8
  <1>. QED  BY <1>2, <1>3
(* A packet is suspended. *)
LEMMA SuspendOrdered ==
    ASSUME IInv, MsgInv, OrderInv, OwnInv, Offload \/ SuspendBehind
    PROVE  OrderInv' /\ OwnInv'
  <1>1. PICK o \in BOOLEAN : Suspend(o)
    BY DEF Offload, SuspendBehind
  <1>2. pc = "inspect" /\ ctx[Top].flow # None
    BY DEF Offload, SuspendBehind, Inspecting
  <1>3. ctx \in [Contexts -> Context] /\ Top \in Contexts
    BY <1>2, TopFacts DEF IInv, TypeOK
  <1>4. ctx' = [ctx EXCEPT ![Top].state = "suspended", ![Top].offloaded = o] /\ heldq' = heldq
    BY <1>1 DEF Suspend, msgs
  <1>5. \A d \in Contexts : /\ ctx'[d].kind = ctx[d].kind /\ ctx'[d].flow = ctx[d].flow
                            /\ ctx'[d].msg = ctx[d].msg /\ ctx'[d].act = ctx[d].act
    BY <1>3, <1>4, SMTT(20) DEF Context
  <1>6. OwnInv'
    BY <1>4, <1>5 DEF OwnInv, OwnFlow, HeldFlows
  <1>. QED  BY <1>1, <1>2, <1>6, OrderSuspend

(* What a packet that completes adds to the held queue. *)
LEMMA FinishOwn ==
    ASSUME IInv, OwnInv, NEW c \in Contexts, Finish(c)
    PROVE  OwnInv'
  <1>1. /\ ctx'[c] = IdleContext /\ \A d \in Contexts \ {c} : Steady(d)
        /\ \/ heldq' = heldq
           \/ /\ ctx[c].kind = "wire" /\ ctx[c].act = "hold" /\ ctx[c].msg \in Msgs
              /\ heldq' = Append(heldq, ctx[c].msg)
    BY FinishSteady
  <1>2. OwnFlow'
    BY <1>1, OwnKeeps
  <1>3. CASE heldq' = heldq
    BY <1>2, <1>3 DEF OwnInv, HeldFlows
  <1>4. CASE /\ ctx[c].kind = "wire" /\ ctx[c].act = "hold" /\ ctx[c].msg \in Msgs
             /\ heldq' = Append(heldq, ctx[c].msg)
    <2>1. FlowOf[ctx[c].msg] \in Flows
      BY <1>4, PacketPathAssumption DEF OwnInv, OwnFlow
    <2>2. /\ Len(heldq) \in Nat /\ Len(heldq') = Len(heldq) + 1
          /\ \A k \in 1 .. Len(heldq) : heldq'[k] = heldq[k]
          /\ heldq'[Len(heldq) + 1] = ctx[c].msg
      BY <1>4, AppendFacts, SeqLength, SMTT(20) DEF IInv, TypeOK
    <2>3. \A k \in 1 .. Len(heldq') : k \in 1 .. Len(heldq) \/ k = Len(heldq) + 1
      BY <2>2, SMTT(20)
    <2>. QED  BY <1>2, <2>1, <2>2, <2>3 DEF OwnInv, HeldFlows
  <1>. QED  BY <1>1, <1>3, <1>4

(* A packet's detection completes on the spot: there is none rebuilt from   *)
(* it, or it is one that is skipped.                                        *)
LEMMA FinishOrdered ==
    ASSUME IInv, MsgInv, OrderInv, OwnInv, Complete \/ Skip
    PROVE  OrderInv' /\ OwnInv'
  <1>1. FinishTop /\ pc = "inspect"
    BY DEF Complete, Skip, Inspecting
  <1>2. Top \in Contexts /\ Finish(Top) /\ busy' = Front(busy) /\ chain' = chain
    BY <1>1, TopFacts DEF FinishTop
  <1>3. ctx'[Top] = IdleContext /\ \A d \in Contexts \ {Top} : Same(d)
    BY <1>2, FinishSteady DEF Steady
  <1>4. ASSUME NEW d \in Contexts, Derived(d), ctx[d].parent = Top
        PROVE  FALSE
    <2>1. /\ ctx[Top].kind = "wire" /\ ctx[Top].msg = ctx[d].msg
          /\ ctx[Top].flow \in Flows /\ In(d, chain[ctx[Top].flow])
      BY <1>1, <1>4, ChildrenChained
    <2>2. CASE Complete
      <3>1. chain[ctx[Top].flow] = <<>>
        BY <2>1, <2>2, PacketPathAssumption DEF Complete
      <3>. QED  BY <2>1, <3>1, SMTT(20) DEF In
    <2>3. CASE Skip
      BY <1>4, <2>1, <2>3 DEF Skip, Derived
    <2>. QED  BY <2>2, <2>3
  <1>5. OrderInv'
    BY <1>1, <1>2, <1>3, <1>4, OrderPop
  <1>. QED  BY <1>2, <1>5, FinishOwn

(* A suspended packet is resumed. *)
LEMMA ResumeOrdered ==
    ASSUME IInv, OrderInv, OwnInv, Resume
    PROVE  OrderInv' /\ OwnInv'
  <1>. DEFINE f == resuming
              h == Head(chain[f])
  <1>1. f \in Flows /\ chain[f] # <<>> /\ chain[f] \in Seq(Contexts)
    BY DEF Resume, IInv, TypeOK, Chains
  <1>2. h \in Contexts
    BY <1>1, TailFacts
  <1>3. Finish(h) /\ chain' = [chain EXCEPT ![f] = Tail(@)] /\ busy' = busy
    BY DEF Resume
  <1>4. chain' = [chain EXCEPT ![f] = Tail(chain[f])]
    BY <1>1, <1>3 DEF IInv, TypeOK
  <1>. HIDE DEF f
  <1>5. ctx'[h] = IdleContext /\ \A d \in Contexts \ {h} : Same(d)
    BY <1>2, <1>3, FinishSteady DEF Steady
  <1>6. OrderInv'
    BY <1>1, <1>3, <1>4, <1>5, OrderResume
  <1>. QED  BY <1>2, <1>3, <1>6, FinishOwn

(* The context of a flush is left. *)
LEMMA FlushOrdered ==
    ASSUME IInv, MsgInv, OrderInv, OwnInv, FlushEnd \/ PurgeCleared
    PROVE  OrderInv' /\ OwnInv'
  <1>1. pc \in {"inspect", "pclear"} /\ (pc = "inspect" => ctx[Top].kind = "flush") /\ chain' = chain
    BY DEF FlushEnd, PurgeCleared, Inspecting
  <1>2. Top \in Contexts /\ ctx[Top].kind = "flush"
    BY <1>1, TopFacts DEF IInv, Stack, MsgInv, NoPacket
  <1>3. ctx \in [Contexts -> Context]
    BY DEF IInv, TypeOK
  <1>4. heldq' = heldq \/ heldq' = Unheld(target)
    BY DEF FlushEnd, PurgeCleared, msgs
  <1>5. HeldFlows'
    BY <1>4, HeldKeeps
  <1>6. CASE ctx' = [ctx EXCEPT ![Top] = IdleContext] /\ busy' = Front(busy)
    <2>1. ctx'[Top] = IdleContext /\ \A d \in Contexts \ {Top} : Same(d) /\ Steady(d)
      BY <1>2, <1>3, <1>6 DEF Same, Steady
    <2>2. \A d \in Contexts : Derived(d) => ctx[d].parent # Top
      BY <1>2 DEF OrderInv, DepthFirst, Linked
    <2>. QED  BY <1>1, <1>5, <1>6, <2>1, <2>2, OrderPop, OwnKeeps DEF OwnInv
  <1>7. CASE UNCHANGED <<ctx, busy>>
    <2>1. \A d \in Contexts : Same(d) /\ Steady(d)
      BY <1>7 DEF Same, Steady
    <2>. QED  BY <1>1, <1>5, <1>7, <2>1, OrderFrame, OwnKeeps DEF OwnInv
  <1>. QED  BY <1>6, <1>7 DEF FlushEnd, PurgeCleared
(* A packet is rebuilt for the packet on top, which stays what it is. *)
LEMMA RebuildKept ==
    ASSUME IInv, RebuildFlow, [Next]_vars
    PROVE  RebuildFlow'
  <1>. USE DEF RebuildFlow
  <1>1. CASE Rebuild
    BY <1>1 DEF Rebuild, Inspecting, Top, Last, switcher
  <1>2. ASSUME UNCHANGED <<pc, busy>>, \A d \in Contexts : ctx[d].state = "busy" => ctx'[d].flow = ctx[d].flow
        PROVE  RebuildFlow'
    <2>1. pc = "rebuild" => Top \in Contexts /\ ctx[Top].state = "busy"
      BY TopFacts
    <2>2. Top' = Top
      BY <1>2 DEF Top
    <2>. QED  BY <1>2, <2>1, <2>2
  <1>3. CASE Onload
    <2>1. PICK c : ctx' = [ctx EXCEPT ![c].offloaded = FALSE]
      BY <1>3 DEF Onload
    <2>2. \A d \in Contexts : ctx'[d].flow = ctx[d].flow
      BY <2>1, SMTT(20) DEF IInv, TypeOK, Context
    <2>. QED  BY <1>2, <1>3, <2>2 DEF Onload
  <1>4. CASE Resume
    <2>. DEFINE h == Head(chain[resuming])
    <2>1. resuming \in Flows /\ chain[resuming] # <<>> /\ chain[resuming] \in Seq(Contexts)
      BY <1>4, SMTT(20) DEF Resume, IInv, TypeOK, Chains
    <2>2. h \in Contexts /\ h = chain[resuming][1] /\ 1 \in 1 .. Len(chain[resuming])
      BY <2>1, TailFacts, SMTT(20)
    <2>3. ctx[h].state = "suspended" /\ Finish(h)
      BY <1>4, <2>1, <2>2, SMTT(20) DEF Resume, IInv, Chains
    <2>4. \A d \in Contexts \ {h} : ctx'[d].flow = ctx[d].flow
      BY <2>2, <2>3, FinishSteady DEF Steady, Same
    <2>5. \A d \in Contexts : ctx[d].state = "busy" => ctx'[d].flow = ctx[d].flow
      BY <2>3, <2>4
    <2>. QED  BY <1>2, <1>4, <2>5 DEF Resume
  <1>5. CASE Stall \/ Worker \/ UNCHANGED vars
    <2>1. UNCHANGED <<pc, busy, ctx>>
      BY <1>5 DEF Stall, Worker, WorkerCheck, WorkerSearch, vars, control, switcher
    <2>. QED  BY <1>2, <2>1
  <1>6. CASE \/ Receive \/ Received \/ Onloaded \/ NextPacket \/ PassMessage \/ NoMoreMessages
             \/ RetryPacket \/ RetryDone
    BY <1>6 DEF Receive, Received, Onloaded, NextPacket, PassMessage, NoMoreMessages, RetryPacket,
                RetryDone, RetryNow
  <1>7. CASE Start \/ Hold \/ Rebuilt \/ FinalizeHeld \/ EnterFlush
    BY <1>7 DEF Start, Hold, Rebuilt, FinalizeHeld, EnterFlush, Inspecting, control
  <1>8. CASE Offload \/ SuspendBehind \/ Complete \/ Skip
    <2>1. pc' = AfterPacket
      BY <1>8 DEF Offload, SuspendBehind, Complete, Skip, FinishTop, Suspend
    <2>. QED  BY <2>1 DEF AfterPacket
  <1>9. CASE NoneExpired \/ Expired \/ FlushEnd
    BY <1>9 DEF NoneExpired, Expired, FlushEnd, IInv, TypeOK
  <1>10. CASE Exit \/ PurgeFlow \/ PurgeOnloaded \/ PurgeCleared \/ Discard \/ StopOffloader \/ Join
    BY <1>10 DEF Exit, PurgeFlow, PurgeOnloaded, PurgeCleared, Discard, StopOffloader, Join
  <1>. QED
    BY <1>1, <1>3, <1>4, <1>5, <1>6, <1>7, <1>8, <1>9, <1>10 DEF Next, Thread, Spin

(* Every step keeps the order. *)
LEMMA OrderKeeps ==
    ASSUME IInv, MsgInv, OrderInv, OwnInv, RebuildFlow, [Next]_vars
    PROVE  OrderInv' /\ OwnInv'
  <1>1. CASE Thread
    BY <1>1, StillSteps, MarkSteps, EnterOrdered, SuspendOrdered, FinishOrdered, ResumeOrdered,
       FlushOrdered DEF Thread
  <1>2. CASE Worker \/ UNCHANGED vars
    BY <1>2, StillSteps
  <1>. QED  BY <1>1, <1>2 DEF Next, Spin

(* All that is known of the contexts and the messages. *)
PathInv == IInv /\ Batch /\ MsgInv /\ OrderInv /\ OwnInv /\ RebuildFlow

(* At the start no context is in use. *)
LEMMA OrderInit ==
    ASSUME Init
    PROVE  OrderInv /\ OwnInv /\ RebuildFlow
  <1>1. \A c \in Contexts : ctx[c] = IdleContext
    BY DEF Init
  <1>2. \A c \in Contexts : ctx[c].state = "idle" /\ ctx[c].kind = None /\ ctx[c].act = "allow"
    BY <1>1, SMTT(20) DEF IdleContext
  <1>3. OrderInv
    BY <1>2, PacketPathAssumption DEF OrderInv, InUse, DepthFirst, Derived
  <1>4. OwnInv
    BY <1>2, PacketPathAssumption, SMTT(20) DEF OwnInv, OwnFlow, HeldFlows, Init
  <1>. QED  BY <1>3, <1>4 DEF RebuildFlow, Init

(* The invariant holds always. *)
THEOREM OrderHolds == Spec => []PathInv
  <1>1. Init => PathInv
    BY Initially, MessagesInit, OrderInit DEF PathInv
  <1>2. PathInv /\ [Next]_vars => PathInv'
    BY Inductive, BatchKeeps, MessagesKeep, OrderKeeps, RebuildKept DEF PathInv
  <1>. QED  BY <1>1, <1>2, PTL DEF Spec

(* A wire packet that is not skipped outlives the packets rebuilt from it,  *)
(* which share its message and its Active: suspended packets are resumed    *)
(* depth first.                                                             *)
THEOREM WiresOutlivePdus == Spec => []WireOutlivesPdu
  <1>1. PathInv => WireOutlivesPdu
    BY DEF PathInv, OrderInv, DepthFirst, Derived, Linked, WireOutlivesPdu
  <1>. QED  BY <1>1, OrderHolds, PTL
-----------------------------------------------------------------------------
(* The end of the thread. *)

Holds(f) == \E i \in 1 .. Len(heldq) : FlowOf[heldq[i]] = f

Clean(f) == chain[f] = <<>> /\ ~Holds(f)

NoWires(f) == \A i \in 1 .. Len(chain[f]) : ctx[chain[f][i]].kind # "wire"

StackOf(f) == \A i \in 1 .. Len(busy) : ctx[busy[i]].flow = f /\ ctx[busy[i]].kind # "wire"

(* Where a flow is purged, and what comes after the last. *)
Purging == {"pwait", "pflush", "inspect", "rebuild", "unhold", "pclear"}

Ended == {"discard", "drain", "join", "done"}

(* Once the thread has left the analyze loop it receives nothing, and works *)
(* on the flow it purges only.                                              *)
Phases ==
    /\ pc \in {"purge", "pwait", "pflush", "pclear"} \cup Ended => ret = "purge"
    /\ ret = "purge" => pc \in {"purge"} \cup Purging \cup Ended /\ rx = <<>> /\ StackOf(target)
    /\ ret = "purge" /\ pc \in Purging => target \in Flows \ unpurged
    /\ ret # "purge" => unpurged = Flows

(* A flow that was purged has nothing suspended and nothing held.  While it *)
(* is purged, only packets without a message of their own are suspended.    *)
Purged ==
    /\ \A f \in Flows \ unpurged : Clean(f) \/ (f = target /\ pc \in Purging)
    /\ ret = "purge" /\ pc \in Purging \ {"pwait"} => NoWires(target)
    /\ pc = "pclear" => ~Holds(target)
    /\ ~DirtyPig /\ pc \in Ended => unpurged = {}
    /\ ~DirtyPig /\ pc \in Ended \ {"discard"} => retryq = <<>>
    /\ pc \in {"join", "done"} => onhold = <<>> /\ resuming = None

SettleInv == Phases /\ Purged

(* Until then there is nothing to say. *)
LEMMA BeforeEnd ==
    ASSUME unpurged = Flows, ret' # "purge", unpurged' = unpurged,
           pc' \notin {"purge", "pwait", "pflush", "pclear"} \cup Ended
    PROVE  SettleInv'
  BY DEF SettleInv, Phases, Purged, Ended

(* No step but Exit begins the end. *)
LEMMA StepsBeforeEnd ==
    ASSUME IInv, Batch, SettleInv, ret # "purge", Thread, ~Exit
    PROVE  SettleInv'
  <1>1. /\ unpurged = Flows /\ pc \notin {"purge", "pwait", "pflush", "pclear"} \cup Ended
        /\ ret \in {"onload", "retry", "top"}
    BY DEF SettleInv, Phases, IInv, TypeOK
  <1>. USE DEF Ended
  <1>2. CASE Onload \/ Resume \/ Stall
    <2>1. UNCHANGED <<pc, ret, unpurged>>
      BY <1>2 DEF Onload, Resume, Stall
    <2>. QED  BY <1>1, <2>1, BeforeEnd
  <1>3. CASE Receive \/ Received \/ Onloaded \/ NextPacket \/ PassMessage \/ NoMoreMessages
    <2>1. /\ pc' \in {"recv", "next", "retry", "start", "onload", "top"} /\ unpurged' = unpurged
          /\ ret' \in {ret, "onload", "top"}
      BY <1>3 DEF Receive, Received, Onloaded, NextPacket, PassMessage, NoMoreMessages, RetryNow
    <2>. QED  BY <1>1, <2>1, BeforeEnd
  <1>4. CASE RetryPacket \/ RetryDone \/ NoneExpired \/ Expired
    <2>1. /\ pc' \in {"start", "timeouts", "next", "flush", ret} /\ unpurged' = unpurged
          /\ ret' \in {ret, "retry", "top"}
      BY <1>4 DEF RetryPacket, RetryDone, NoneExpired, Expired
    <2>. QED  BY <1>1, <2>1, BeforeEnd
  <1>5. CASE Start \/ Hold \/ Rebuild \/ Rebuilt \/ FinalizeHeld \/ EnterFlush
    <2>1. pc' \in {"inspect", "rebuild"} /\ unpurged' = unpurged /\ ret' = ret
      BY <1>5 DEF Start, Hold, Rebuild, Rebuilt, FinalizeHeld, EnterFlush, Inspecting, control
    <2>. QED  BY <1>1, <2>1, BeforeEnd
  <1>6. CASE Offload \/ SuspendBehind \/ Complete \/ Skip
    <2>1. pc' = AfterPacket /\ unpurged' = unpurged /\ ret' = ret
      BY <1>6 DEF Offload, SuspendBehind, Complete, Skip, FinishTop, Suspend
    <2>. QED  BY <1>1, <2>1, BeforeEnd DEF AfterPacket
  <1>7. CASE FlushEnd
    <2>1. pc' \in {"timeouts", ret} /\ unpurged' = unpurged /\ ret' = ret
      BY <1>1, <1>7 DEF FlushEnd
    <2>. QED  BY <1>1, <2>1, BeforeEnd
  <1>8. ~PurgeFlow /\ ~PurgeOnloaded /\ ~PurgeCleared /\ ~Discard /\ ~StopOffloader /\ ~Join
    BY <1>1 DEF PurgeFlow, PurgeOnloaded, PurgeCleared, Discard, StopOffloader, Join
  <1>. QED  BY <1>2, <1>3, <1>4, <1>5, <1>6, <1>7, <1>8 DEF Thread

(* The thread leaves the analyze loop with an empty stack and no message    *)
(* left in its batch.                                                       *)
LEMMA SettleExit ==
    ASSUME IInv, Batch, SettleInv, Exit
    PROVE  SettleInv'
  <1>1. pc = "top" /\ ret # "purge"
    BY DEF Exit, SettleInv, Phases, Purging, Ended
  <1>2. busy = <<>> /\ rx = <<>> /\ unpurged = Flows
    BY <1>1 DEF IInv, Stack, Batch, SettleInv, Phases
  <1>3. /\ UNCHANGED <<busy, rx, unpurged>> /\ ret' = "purge"
        /\ pc' = IF DirtyPig THEN "discard" ELSE "purge"
    BY DEF Exit, switcher, msgs
  <1>4. StackOf(target)'
    BY <1>2, <1>3, SMTT(20) DEF StackOf
  <1>. QED  BY <1>2, <1>3, <1>4 DEF SettleInv, Phases, Purged, Purging, Ended

(* The stack and the chains, when the contexts in use keep their packets. *)
LEMMA StackKept ==
    ASSUME IInv, StackOf(target), target' = target, busy' = busy,
           \A d \in Contexts : ctx[d].state = "busy" =>
              ctx'[d].kind = ctx[d].kind /\ ctx'[d].flow = ctx[d].flow
    PROVE  StackOf(target)'
  <1>1. \A i \in 1 .. Len(busy) : busy[i] \in Contexts /\ ctx[busy[i]].state = "busy"
    BY SeqElement DEF IInv, TypeOK, Stack
  <1>. QED  BY <1>1 DEF StackOf

(* Likewise for the wire packets of a chain: none come while its contexts  *)
(* keep what they have.                                                    *)
LEMMA ChainKept ==
    ASSUME IInv, NoWires(target), target \in Flows, target' = target, chain'[target] = chain[target],
           \A d \in Contexts : ctx[d].state = "suspended" => ctx'[d].kind = ctx[d].kind
    PROVE  NoWires(target)'
  <1>1. \A i \in 1 .. Len(chain[target]) :
           chain[target][i] \in Contexts /\ ctx[chain[target][i]].state = "suspended"
    BY SeqElement, SMTT(20) DEF IInv, TypeOK, Chains
  <1>. QED  BY <1>1, SMTT(20) DEF NoWires

(* The top of the stack leaves it. *)
LEMMA StackPopped ==
    ASSUME IInv, pc = "inspect", StackOf(target), target' = target, busy' = Front(busy),
           \A d \in Contexts \ {Top} : ctx'[d].kind = ctx[d].kind /\ ctx'[d].flow = ctx[d].flow
    PROVE  StackOf(target)'
  <1>1. /\ busy \in Seq(Contexts) /\ Len(busy) \in {1, 2} /\ busy # <<>>
        /\ Top = busy[Len(busy)]
    BY TopFacts
  <1>2. Len(busy') = Len(busy) - 1 /\ \A i \in 1 .. Len(busy) - 1 : busy'[i] = busy[i]
    BY <1>1, FrontFacts, SMTT(20)
  <1>3. Len(busy) = 2 => busy[1] # busy[2]
    BY DEF IInv, Stack
  <1>4. \A i \in 1 .. Len(busy') : i = 1 /\ Len(busy) = 2
    BY <1>1, <1>2, SMTT(20)
  <1>5. Len(busy) = 2 => /\ busy[1] \in Contexts \ {Top} /\ busy'[1] = busy[1]
                         /\ ctx[busy[1]].flow = target /\ ctx[busy[1]].kind # "wire"
    <2>. SUFFICES ASSUME Len(busy) = 2
                  PROVE  /\ busy[1] \in Contexts \ {Top} /\ busy'[1] = busy[1]
                         /\ ctx[busy[1]].flow = target /\ ctx[busy[1]].kind # "wire"
      OBVIOUS
    <2>1. 1 \in 1 .. Len(busy) /\ 1 \in 1 .. Len(busy) - 1
      BY SMTT(20)
    <2>2. busy[1] \in Contexts
      BY <1>1, <2>1, SeqElement
    <2>. QED  BY <1>1, <1>2, <1>3, <2>1, <2>2 DEF StackOf
  <1>. QED  BY <1>4, <1>5 DEF StackOf

(* What purging a flow leaves of the others, as long as it goes on. *)
LEMMA PurgeGoesOn ==
    ASSUME SettleInv, ret = "purge", pc \in Purging \ {"pclear"},
           pc' \in Purging \ {"pwait", "pclear"}, UNCHANGED <<ret, target, unpurged, rx>>,
           StackOf(target)', NoWires(target)',
           \A f \in Flows \ {target} : Clean(f) => Clean(f)'
    PROVE  SettleInv'
  <1>1. Phases'
    BY DEF SettleInv, Phases, Purging, Ended
  <1>2. \A f \in Flows \ unpurged : f # target => Clean(f)'
    BY DEF SettleInv, Purged
  <1>3. \A f \in (Flows \ unpurged)' : Clean(f)' \/ (f = target' /\ pc' \in Purging)
    BY <1>2
  <1>. QED  BY <1>1, <1>3 DEF SettleInv, Purged, Purging, Ended

(* Steps that only move on. *)
LEMMA SettleQuiet ==
    ASSUME IInv, SettleInv, ret = "purge",
           Stall \/ Rebuild \/ PurgeFlow \/ PurgeOnloaded \/ Discard \/ StopOffloader \/ Join
           \/ Worker \/ UNCHANGED vars
    PROVE  SettleInv'
  <1>1. UNCHANGED <<ctx, busy, chain, heldq, rx, ret, onhold, resuming>>
    BY DEF Stall, Rebuild, PurgeFlow, PurgeOnloaded, Discard, StopOffloader, Join, Worker,
       WorkerCheck, WorkerSearch, vars, switcher, offloader, msgs, control, Through
  <1>2. \A f : Clean(f)' <=> Clean(f)
    BY <1>1 DEF Clean, Holds
  <1>3. CASE Stall \/ Worker \/ UNCHANGED vars
    <2>1. UNCHANGED <<pc, target, unpurged, retryq>>
      BY <1>3 DEF Stall, Worker, WorkerCheck, WorkerSearch, vars, msgs, control
    <2>. QED  BY <1>1, <1>2, <2>1 DEF SettleInv, Phases, Purged, StackOf, NoWires, Holds
  <1>4. CASE Rebuild
    <2>1. pc = "inspect" /\ pc' = "rebuild" /\ UNCHANGED <<target, unpurged>>
      BY <1>4 DEF Rebuild, Inspecting
    <2>2. StackOf(target)' /\ NoWires(target)'
      BY <1>1, <2>1 DEF SettleInv, Phases, Purged, Purging, StackOf, NoWires
    <2>. QED  BY <1>1, <1>2, <2>1, <2>2, PurgeGoesOn DEF Purging
  <1>5. CASE PurgeOnloaded
    <2>1. pc = "pwait" /\ pc' = "pflush" /\ UNCHANGED <<target, unpurged>> /\ chain[target] = <<>>
      BY <1>5 DEF PurgeOnloaded, Through
    <2>2. StackOf(target)' /\ NoWires(target)'
      BY <1>1, <2>1, SMTT(20) DEF SettleInv, Phases, Purged, Purging, StackOf, NoWires
    <2>. QED  BY <1>1, <1>2, <2>1, <2>2, PurgeGoesOn DEF Purging
  <1>6. CASE PurgeFlow
    <2>1. pc = "purge" /\ busy = <<>>
      BY <1>6 DEF PurgeFlow, IInv, Stack
    <2>2. StackOf(target)'
      BY <1>1, <2>1, SMTT(20) DEF StackOf
    <2>3. \A f \in Flows \ unpurged : Clean(f)
      BY <2>1 DEF SettleInv, Purged, Purging
    <2>4. CASE unpurged = {} /\ pc' = "discard" /\ UNCHANGED <<target, unpurged>>
      BY <1>1, <1>2, <2>2, <2>3, <2>4 DEF SettleInv, Phases, Purged, Purging, Ended
    <2>5. CASE \E f \in unpurged : target' = f /\ unpurged' = unpurged \ {f} /\ pc' = "pwait"
      <3>1. PICK f \in unpurged : target' = f /\ unpurged' = unpurged \ {f} /\ pc' = "pwait"
        BY <2>5
      <3>2. target' \in Flows \ unpurged'
        BY <3>1 DEF IInv, TypeOK
      <3>3. Phases'
        BY <1>1, <2>2, <3>1, <3>2 DEF SettleInv, Phases, Purging, Ended
      <3>4. \A g \in Flows \ unpurged' : Clean(g)' \/ g = target'
        BY <1>2, <2>3, <3>1
      <3>. QED  BY <3>1, <3>3, <3>4 DEF SettleInv, Purged, Purging, Ended
    <2>. QED  BY <1>6, <2>4, <2>5 DEF PurgeFlow
  <1>7. CASE Discard \/ StopOffloader \/ Join
    <2>1. /\ pc \in {"discard", "drain", "join"} /\ UNCHANGED <<target, unpurged>>
          /\ pc' \in Ended
      BY <1>7 DEF Discard, StopOffloader, Join, Ended
    <2>2. StackOf(target)'
      BY <1>1, <2>1 DEF SettleInv, Phases, StackOf
    <2>3. Phases'
      BY <1>1, <2>1, <2>2 DEF SettleInv, Phases, Purging, Ended
    <2>4. pc' \in Ended \ {"discard"} => retryq' = <<>> \/ (pc # "discard" /\ retryq' = retryq)
      BY <1>7 DEF Discard, StopOffloader, Join, Ended, msgs
    <2>5. pc' \in {"join", "done"} => onhold' = <<>> /\ resuming' = None
      BY <1>1, <1>7 DEF Discard, StopOffloader, Join, Through, SettleInv, Purged
    <2>. QED  BY <1>2, <2>1, <2>3, <2>4, <2>5 DEF SettleInv, Purged, Purging, Ended
  <1>. QED  BY <1>3, <1>4, <1>5, <1>6, <1>7
(* A request comes back, or a packet is marked as held. *)
LEMMA SettleMarks ==
    ASSUME IInv, SettleInv, ret = "purge", Onload \/ Hold
    PROVE  SettleInv'
  <1>1. \A d \in Contexts : ctx'[d].kind = ctx[d].kind /\ ctx'[d].flow = ctx[d].flow
    <2>1. CASE Onload
      <3>1. PICK c : ctx' = [ctx EXCEPT ![c].offloaded = FALSE]
        BY <2>1 DEF Onload
      <3>. QED  BY <3>1, SMTT(20) DEF IInv, TypeOK, Context
    <2>2. CASE Hold
      BY <2>2 DEF Hold, IInv, TypeOK, Context
    <2>. QED  BY <2>1, <2>2
  <1>2. /\ UNCHANGED <<busy, chain, heldq, retryq, rx, ret, target, unpurged, pc>>
        /\ pc \notin {"join", "done"}
    BY DEF Onload, Hold, Onloading, Inspecting, msgs, control
  <1>3. StackOf(target)'
    BY <1>1, <1>2, StackKept DEF SettleInv, Phases
  <1>4. pc \in Purging \ {"pwait"} => NoWires(target)'
    BY <1>1, <1>2, ChainKept DEF SettleInv, Phases, Purged
  <1>5. \A f : Clean(f)' <=> Clean(f)
    BY <1>2 DEF Clean, Holds
  <1>6. ~Holds(target) => ~Holds(target)'
    BY <1>2 DEF Holds
  <1>. QED  BY <1>2, <1>3, <1>4, <1>5, <1>6 DEF SettleInv, Phases, Purged

(* A packet is rebuilt for the flow, or the flush begins. *)
LEMMA SettleEnter ==
    ASSUME IInv, SettleInv, ret = "purge", Rebuilt \/ EnterFlush
    PROVE  SettleInv'
  <1>1. /\ pc \in {"rebuild", "pflush"} /\ pc' = "inspect" /\ Idle # {}
        /\ UNCHANGED <<ret, target, unpurged, rx, heldq>>
    BY DEF Rebuilt, EnterFlush, Through, msgs, SettleInv, Phases, Purging, Ended
  <1>2. StackOf(target) /\ NoWires(target) /\ target \in Flows
    BY <1>1 DEF SettleInv, Phases, Purged, Purging
  <1>3. \E kind \in {"pdu", "flush"} : \E m, p : Enter(kind, target, m, p)
    <2>1. CASE Rebuilt
      <3>1. pc = "rebuild"
        BY <2>1 DEF Rebuilt
      <3>2. Top = busy[Len(busy)] /\ Len(busy) \in {1, 2}
        BY <3>1, TopFacts
      <3>3. Len(busy) \in 1 .. Len(busy)
        BY <3>2, SMTT(20)
      <3>4. ctx[Top].flow = target
        BY <1>2, <3>2, <3>3 DEF StackOf
      <3>. QED  BY <2>1, <3>4 DEF Rebuilt
    <2>2. CASE EnterFlush
      BY <2>2 DEF EnterFlush
    <2>. QED  BY <2>1, <2>2
  <1>4. PICK kind \in {"pdu", "flush"} : \E m, p : Enter(kind, target, m, p)
    BY <1>3
  <1>5. PICK m, p : Enter(kind, target, m, p)
    BY <1>4
  <1>6. PICK c \in Contexts : EnteredBy(c, kind, target, m, p)
    BY <1>1, <1>5, EnterSteady
  <1>7. \A d \in Contexts : ctx[d].state # "idle" => ctx'[d].kind = ctx[d].kind /\ ctx'[d].flow = ctx[d].flow
    BY <1>6 DEF EnteredBy, Same
  <1>8. StackOf(target)'
    <2>1. busy \in Seq(Contexts)
      BY DEF IInv, TypeOK
    <2>2. /\ Len(busy) \in Nat /\ Len(busy') = Len(busy) + 1 /\ busy'[Len(busy) + 1] = c
          /\ \A i \in 1 .. Len(busy) : busy'[i] = busy[i]
      BY <1>6, <2>1, AppendFacts, SeqLength, SMTT(20) DEF EnteredBy
    <2>3. \A i \in 1 .. Len(busy') : i \in 1 .. Len(busy) \/ i = Len(busy) + 1
      BY <2>2, SMTT(20)
    <2>4. ctx'[c].flow = target /\ ctx'[c].kind # "wire"
      BY <1>4, <1>6 DEF EnteredBy
    <2>5. \A i \in 1 .. Len(busy) : busy[i] \in Contexts /\ ctx[busy[i]].state = "busy"
      BY <2>1, SeqElement DEF IInv, Stack
    <2>6. \A i \in 1 .. Len(busy) : ctx'[busy'[i]].flow = target /\ ctx'[busy'[i]].kind # "wire"
      BY <1>2, <1>7, <2>2, <2>5, SMTT(20) DEF StackOf
    <2>7. \A i \in 1 .. Len(busy') : ctx'[busy'[i]].flow = target /\ ctx'[busy'[i]].kind # "wire"
      BY <2>2, <2>3, <2>4, <2>6
    <2>. QED  BY <1>1, <2>7 DEF StackOf
  <1>9. chain' = chain
    BY <1>6 DEF EnteredBy
  <1>10. NoWires(target)'
    BY <1>1, <1>2, <1>7, <1>9, ChainKept
  <1>11. \A f : Clean(f) => Clean(f)'
    BY <1>1, <1>9 DEF Clean, Holds
  <1>. QED  BY <1>1, <1>8, <1>10, <1>11, PurgeGoesOn DEF Purging

(* A packet of the flow is suspended. *)
LEMMA SettleSuspend ==
    ASSUME IInv, SettleInv, ret = "purge", Offload \/ SuspendBehind
    PROVE  SettleInv'
  <1>1. PICK o \in BOOLEAN : Suspend(o)
    BY DEF Offload, SuspendBehind
  <1>2. pc = "inspect"
    BY DEF Offload, SuspendBehind, Inspecting
  <1>3. StackOf(target) /\ NoWires(target) /\ target \in Flows
    BY <1>2 DEF SettleInv, Phases, Purged, Purging
  <1>4. Top = busy[Len(busy)] /\ Len(busy) \in {1, 2} /\ Top \in Contexts
    BY <1>2, TopFacts
  <1>5. Len(busy) \in 1 .. Len(busy)
    BY <1>4, SMTT(20)
  <1>6. ctx[Top].flow = target /\ ctx[Top].kind # "wire"
    BY <1>3, <1>4, <1>5 DEF StackOf
  <1>7. /\ ctx' = [ctx EXCEPT ![Top].state = "suspended", ![Top].offloaded = o]
        /\ busy' = Front(busy) /\ chain' = [chain EXCEPT ![target] = Append(@, Top)]
        /\ pc' = "unhold" /\ UNCHANGED <<ret, target, unpurged, rx, heldq>>
    BY <1>1, <1>6 DEF Suspend, AfterPacket, msgs
  <1>8. \A d \in Contexts : ctx'[d].kind = ctx[d].kind /\ ctx'[d].flow = ctx[d].flow
    BY <1>4, <1>7, SMTT(20) DEF IInv, TypeOK, Context
  <1>9. StackOf(target)'
    BY <1>2, <1>3, <1>7, <1>8, StackPopped
  <1>10. /\ chain'[target] = Append(chain[target], Top) /\ chain[target] \in Seq(Contexts)
         /\ \A f \in Flows \ {target} : chain'[f] = chain[f]
    BY <1>3, <1>7 DEF IInv, TypeOK
  <1>11. NoWires(target)'
    <2>. DEFINE q == chain[target]
                t == chain'[target]
    <2>1. /\ Len(q) \in Nat /\ Len(t) = Len(q) + 1 /\ t[Len(q) + 1] = Top
          /\ \A i \in 1 .. Len(q) : t[i] = q[i] /\ q[i] \in Contexts
      BY <1>4, <1>10, AppendFacts, SeqLength, SeqElement, SMTT(20)
    <2>2. \A i \in 1 .. Len(t) : i \in 1 .. Len(q) \/ i = Len(q) + 1
      BY <2>1, SMTT(20)
    <2>3. \A i \in 1 .. Len(q) : ctx[q[i]].kind # "wire"
      BY <1>3 DEF NoWires
    <2>. HIDE DEF q, t
    <2>4. \A i \in 1 .. Len(t) : ctx'[t[i]].kind # "wire"
      BY <1>4, <1>6, <1>8, <2>1, <2>2, <2>3
    <2>. QED  BY <1>7, <2>4 DEF NoWires, t
  <1>12. \A f \in Flows \ {target} : Clean(f) => Clean(f)'
    BY <1>7, <1>10 DEF Clean, Holds
  <1>. QED  BY <1>2, <1>7, <1>9, <1>11, <1>12, PurgeGoesOn DEF Purging
(* A packet of the flow completes on the spot. *)
LEMMA SettleFinish ==
    ASSUME IInv, SettleInv, ret = "purge", Complete \/ Skip
    PROVE  SettleInv'
  <1>1. FinishTop /\ pc = "inspect"
    BY DEF Complete, Skip, Inspecting
  <1>2. StackOf(target) /\ NoWires(target) /\ target \in Flows
    BY <1>1 DEF SettleInv, Phases, Purged, Purging
  <1>3. Top = busy[Len(busy)] /\ Len(busy) \in {1, 2} /\ Top \in Contexts /\ ctx[Top].state = "busy"
    BY <1>1, TopFacts
  <1>4. Len(busy) \in 1 .. Len(busy)
    BY <1>3, SMTT(20)
  <1>5. ctx[Top].kind # "wire"
    BY <1>2, <1>3, <1>4 DEF StackOf
  <1>6. /\ Finish(Top) /\ busy' = Front(busy) /\ chain' = chain
        /\ pc' = "unhold" /\ UNCHANGED <<ret, target, unpurged, rx>>
    BY <1>1, <1>5 DEF FinishTop, AfterPacket
  <1>7. heldq' = heldq /\ \A d \in Contexts \ {Top} : Same(d)
    BY <1>3, <1>5, <1>6, FinishSteady DEF Steady
  <1>8. \A d \in Contexts \ {Top} : ctx'[d].kind = ctx[d].kind /\ ctx'[d].flow = ctx[d].flow
    BY <1>7 DEF Same
  <1>9. StackOf(target)'
    BY <1>1, <1>2, <1>6, <1>8, StackPopped
  <1>10. NoWires(target)'
    BY <1>2, <1>3, <1>6, <1>8, ChainKept
  <1>11. \A f : Clean(f) => Clean(f)'
    BY <1>6, <1>7 DEF Clean, Holds
  <1>. QED  BY <1>1, <1>6, <1>9, <1>10, <1>11, PurgeGoesOn DEF Purging

(* A packet that completes is held for its own flow only. *)
LEMMA HeldForOwn ==
    ASSUME IInv, OwnInv, NEW c \in Contexts, Finish(c), NEW g, ~Holds(g),
           ctx[c].kind # "wire" \/ ctx[c].flow # g
    PROVE  ~Holds(g)'
  <1>1. CASE heldq' = heldq
    BY <1>1 DEF Holds
  <1>2. CASE ctx[c].kind = "wire" /\ ctx[c].msg \in Msgs /\ heldq' = Append(heldq, ctx[c].msg)
    <2>1. FlowOf[ctx[c].msg] # g
      BY <1>2 DEF OwnInv, OwnFlow
    <2>2. /\ Len(heldq) \in Nat /\ Len(heldq') = Len(heldq) + 1
          /\ \A k \in 1 .. Len(heldq) : heldq'[k] = heldq[k]
          /\ heldq'[Len(heldq) + 1] = ctx[c].msg
      BY <1>2, AppendFacts, SeqLength, SMTT(20) DEF IInv, TypeOK
    <2>3. \A k \in 1 .. Len(heldq') : k \in 1 .. Len(heldq) \/ k = Len(heldq) + 1
      BY <2>2, SMTT(20)
    <2>. QED  BY <2>1, <2>2, <2>3 DEF Holds
  <1>. QED  BY <1>1, <1>2, FinishSteady

(* A suspended packet is resumed: one of a flow yet to be purged, or of the *)
(* one being purged.                                                        *)
LEMMA SettleResume ==
    ASSUME IInv, OwnInv, SettleInv, ret = "purge", Resume
    PROVE  SettleInv'
  <1>. DEFINE f == resuming
              h == Head(chain[f])
  <1>1. f \in Flows /\ chain[f] # <<>> /\ chain[f] \in Seq(Contexts)
    BY DEF Resume, IInv, TypeOK, Chains
  <1>2. h \in Contexts /\ h = chain[f][1] /\ 1 \in 1 .. Len(chain[f])
    BY <1>1, TailFacts, SMTT(20)
  <1>3. /\ Finish(h) /\ chain' = [chain EXCEPT ![f] = Tail(chain[f])]
        /\ UNCHANGED <<busy, rx, pc, ret, target, unpurged>> /\ f # None
    BY <1>1 DEF Resume, IInv, TypeOK
  <1>. HIDE DEF f, h
  <1>4. ctx[h].state = "suspended" /\ ctx[h].flow = f
    BY <1>1, <1>2, SMTT(20) DEF IInv, Chains
  <1>5. \A d \in Contexts \ {h} : ctx'[d].kind = ctx[d].kind /\ ctx'[d].flow = ctx[d].flow
    BY <1>2, <1>3, FinishSteady DEF Steady, Same
  <1>6. StackOf(target)'
    BY <1>3, <1>4, <1>5, StackKept DEF SettleInv, Phases
  <1>7. \A g \in Flows \ {f} : Clean(g) => Clean(g)'
    <2>1. \A g \in Flows \ {f} : chain'[g] = chain[g]
      BY <1>3 DEF IInv, TypeOK
    <2>2. \A g \in Flows \ {f} : ~Holds(g) => ~Holds(g)'
      BY <1>2, <1>3, <1>4, HeldForOwn
    <2>. QED  BY <2>1, <2>2 DEF Clean
  <1>8. f \in unpurged \/ (f = target /\ pc \in Purging)
    BY <1>1 DEF SettleInv, Purged, Clean
  <1>9. pc \notin {"join", "done"}
    BY <1>3 DEF SettleInv, Purged, f
  <1>10. ~(~DirtyPig /\ pc \in Ended)
    BY <1>8 DEF SettleInv, Purged, Purging, Ended
  <1>11. ASSUME pc \in Purging \ {"pwait"}
         PROVE  NoWires(target)'
    <2>1. target \in Flows /\ NoWires(target)
      BY <1>11 DEF SettleInv, Phases, Purged
    <2>2. CASE f = target
      <3>. DEFINE q == chain[f]
                  t == chain'[f]
      <3>1. t = Tail(q)
        BY <1>1, <1>3 DEF IInv, TypeOK
      <3>2. /\ Len(q) \in Nat \ {0} /\ Len(t) = Len(q) - 1
            /\ \A i \in 1 .. Len(q) - 1 : t[i] = q[i + 1]
        BY <1>1, <3>1, TailFacts
      <3>3. \A i \in 1 .. Len(q) : q[i] \in Contexts /\ ctx[q[i]].kind # "wire"
        BY <1>1, <2>1, <2>2, SeqElement DEF NoWires
      <3>4. \A i \in 1 .. Len(q) : q[i] = h => i = 1
        BY <1>1, <1>2 DEF IInv, Chains
      <3>. HIDE DEF q, t
      <3>5. \A i \in 1 .. Len(t) : i + 1 \in 1 .. Len(q) /\ i + 1 # 1 /\ t[i] = q[i + 1]
        BY <3>2, SMTT(20)
      <3>6. \A i \in 1 .. Len(t) : ctx'[t[i]].kind # "wire"
        BY <1>5, <3>3, <3>4, <3>5, SMTT(20)
      <3>. QED  BY <1>3, <2>2, <3>6 DEF NoWires, t
    <2>3. CASE f # target
      <3>1. chain'[target] = chain[target]
        BY <1>3, <2>1, <2>3 DEF IInv, TypeOK
      <3>2. \A i \in 1 .. Len(chain[target]) : chain[target][i] \in Contexts \ {h}
        BY <1>4, <2>1, <2>3, SeqElement, SMTT(20) DEF IInv, TypeOK, Chains
      <3>. QED  BY <1>3, <1>5, <2>1, <3>1, <3>2, SMTT(20) DEF NoWires
    <2>. QED  BY <2>2, <2>3
  <1>12. ASSUME pc = "pclear"
         PROVE  ~Holds(target)'
    <2>1. target \in Flows /\ NoWires(target) /\ ~Holds(target)
      BY <1>12 DEF SettleInv, Phases, Purged, Purging
    <2>2. f = target => ctx[h].kind # "wire"
      BY <1>2, <2>1 DEF NoWires
    <2>3. ctx[h].kind # "wire" \/ ctx[h].flow # target
      BY <1>4, <2>2
    <2>4. ASSUME NEW k, ~Holds(k), ctx[h].kind # "wire" \/ ctx[h].flow # k
          PROVE  ~Holds(k)'
      BY <1>2, <1>3, <2>4, HeldForOwn
    <2>. QED  BY <1>3, <2>1, <2>3, <2>4 DEF Holds
  <1>13. \A g \in Flows \ unpurged : Clean(g)' \/ (g = target /\ pc \in Purging)
    BY <1>7, <1>8 DEF SettleInv, Purged
  <1>14. Phases'
    BY <1>3, <1>6 DEF SettleInv, Phases
  <1>. QED  BY <1>3, <1>9, <1>10, <1>11, <1>12, <1>13, <1>14 DEF SettleInv, Purged, Ended

(* The flow's held packet is let go, or its context left. *)
LEMMA SettleFlush ==
    ASSUME IInv, MsgInv, SettleInv, ret = "purge", FinalizeHeld \/ FlushEnd \/ PurgeCleared
    PROVE  SettleInv'
  <1>1. pc \in {"unhold", "inspect", "pclear"} /\ UNCHANGED <<chain, ret, rx, unpurged>>
    BY DEF FinalizeHeld, FlushEnd, PurgeCleared, Inspecting, msgs
  <1>2. /\ StackOf(target) /\ NoWires(target) /\ target \in Flows
        /\ \A f \in Flows \ unpurged : f # target => Clean(f)
    BY <1>1 DEF SettleInv, Phases, Purged, Purging
  <1>3. Top \in Contexts /\ ctx[Top].state = "busy" /\ ctx \in [Contexts -> Context]
    BY <1>1, TopFacts DEF IInv, TypeOK
  <1>4. ASSUME NEW e, heldq' = Unheld(e)
        PROVE  (\A g : ~Holds(g) => ~Holds(g)') /\ ~Holds(e)'
    <2>1. \A m : In(m, heldq') <=> In(m, heldq) /\ m \notin Held(e)
      BY <1>4, UnheldIn DEF MsgInv
    <2>2. \A g : Holds(g) <=> \E m : In(m, heldq) /\ FlowOf[m] = g
      BY DEF Holds, In
    <2>3. \A g : Holds(g)' <=> \E m : In(m, heldq') /\ FlowOf[m] = g
      BY DEF Holds, In
    <2>4. \A m : In(m, heldq) /\ FlowOf[m] = e => m \in Held(e)
      BY RangeFacts DEF Held, In, IInv, TypeOK
    <2>. QED  BY <2>1, <2>2, <2>3, <2>4
  <1>5. CASE FinalizeHeld
    <2>1. /\ pc = "unhold" /\ pc' = "inspect" /\ UNCHANGED <<busy, target>>
          /\ heldq' = Unheld(ctx[Top].flow)
          /\ ctx' = [ctx EXCEPT ![Top].act = IF @ = "hold" THEN "allow" ELSE @]
      BY <1>5 DEF FinalizeHeld
    <2>2. \A d \in Contexts : ctx'[d].kind = ctx[d].kind /\ ctx'[d].flow = ctx[d].flow
      BY <1>3, <2>1 DEF Context
    <2>3. StackOf(target)' /\ NoWires(target)'
      BY <1>1, <1>2, <2>1, <2>2, StackKept, ChainKept
    <2>4. \A g : ~Holds(g) => ~Holds(g)'
      BY <1>4, <2>1
    <2>5. \A f \in Flows \ {target} : Clean(f) => Clean(f)'
      BY <1>1, <2>4 DEF Clean
    <2>. QED  BY <1>1, <2>1, <2>3, <2>5, PurgeGoesOn DEF Purging
  <1>6. CASE FlushEnd
    <2>1. /\ pc = "inspect" /\ pc' = "pclear" /\ UNCHANGED <<ctx, busy, target>>
          /\ heldq' = Unheld(target)
      BY <1>6 DEF FlushEnd, Inspecting
    <2>2. StackOf(target)' /\ NoWires(target)'
      BY <1>1, <1>2, <2>1 DEF StackOf, NoWires
    <2>3. (\A g : ~Holds(g) => ~Holds(g)') /\ ~Holds(target)'
      <3>1. PICK e : e = target
        OBVIOUS
      <3>2. heldq' = Unheld(e)
        BY <2>1, <3>1
      <3>3. (\A g : ~Holds(g) => ~Holds(g)') /\ ~Holds(e)'
        BY <1>4, <3>2
      <3>. QED  BY <2>1, <3>1, <3>3 DEF Holds
    <2>4. \A f \in Flows \ unpurged : f # target => Clean(f)'
      BY <1>1, <1>2, <2>3 DEF Clean
    <2>5. Phases'
      BY <1>1, <2>1, <2>2 DEF SettleInv, Phases, Purging, Ended
    <2>. QED  BY <1>1, <2>1, <2>2, <2>3, <2>4, <2>5 DEF SettleInv, Purged, Purging, Ended
  <1>7. CASE PurgeCleared
    <2>1. /\ pc = "pclear" /\ pc' = "purge" /\ heldq' = heldq /\ chain[target] = <<>>
          /\ busy' = Front(busy)
      BY <1>7 DEF PurgeCleared, Through, msgs
    <2>2. ~Holds(target)
      BY <2>1 DEF SettleInv, Purged
    <2>3. \A f \in Flows \ unpurged : Clean(f)'
      BY <1>1, <1>2, <2>1, <2>2 DEF Clean, Holds
    <2>4. Len(busy) = 1 /\ busy \in Seq(Contexts) /\ busy # <<>>
      BY <2>1, SeqEmpty DEF IInv, Stack, TypeOK
    <2>5. Len(busy') = 0
      BY <2>1, <2>4, FrontFacts, SMTT(20)
    <2>6. StackOf(target)'
      BY <2>5, SMTT(20) DEF StackOf
    <2>7. Phases'
      BY <1>1, <2>1, <2>6 DEF SettleInv, Phases, Purging, Ended
    <2>. QED  BY <1>1, <2>1, <2>3, <2>7 DEF SettleInv, Purged, Purging, Ended
  <1>. QED  BY <1>5, <1>6, <1>7
(* Every step keeps it. *)
LEMMA SettleKeeps ==
    ASSUME PathInv, SettleInv, [Next]_vars
    PROVE  SettleInv'
  <1>. USE DEF PathInv
  <1>1. CASE ret = "purge" /\ Thread
    <2>1. /\ ~Receive /\ ~Received /\ ~Onloaded /\ ~NextPacket /\ ~PassMessage /\ ~NoMoreMessages
          /\ ~RetryPacket /\ ~RetryDone /\ ~Start /\ ~NoneExpired /\ ~Expired /\ ~Exit
      BY <1>1 DEF Receive, Received, Onloaded, NextPacket, PassMessage, NoMoreMessages, RetryPacket,
         RetryDone, Start, NoneExpired, Expired, Exit, SettleInv, Phases, Purging, Ended
    <2>. QED
      BY <1>1, <2>1, SettleQuiet, SettleMarks, SettleEnter, SettleSuspend, SettleFinish, SettleResume,
         SettleFlush DEF Thread
  <1>2. CASE ret # "purge" /\ Thread
    BY <1>2, StepsBeforeEnd, SettleExit
  <1>3. CASE ret = "purge" /\ (Worker \/ UNCHANGED vars)
    BY <1>3, SettleQuiet
  <1>4. CASE ret # "purge" /\ (Worker \/ UNCHANGED vars)
    <2>1. UNCHANGED <<pc, ret, unpurged>>
      BY <1>4 DEF Worker, WorkerCheck, WorkerSearch, vars, control
    <2>2. unpurged = Flows /\ pc \notin {"purge", "pwait", "pflush", "pclear"} \cup Ended
      BY <1>4 DEF SettleInv, Phases
    <2>. QED  BY <1>4, <2>1, <2>2, BeforeEnd
  <1>. QED  BY <1>1, <1>2, <1>3, <1>4 DEF Next, Spin

(* What is left at the end of a thread that purged its flows. *)
LEMMA NothingLeft ==
    ASSUME ~DirtyPig, PathInv, SettleInv, pc = "done"
    PROVE  pool = Msgs /\ Idle = Contexts /\ busy = <<>> /\ onhold = <<>>
  <1>. USE DEF PathInv
  <1>1. /\ unpurged = {} /\ retryq = <<>> /\ onhold = <<>> /\ rx = <<>>
        /\ \A f \in Flows : Clean(f)
    BY DEF SettleInv, Phases, Purged, Purging, Ended
  <1>2. busy = <<>> /\ cur = None
    BY DEF IInv, Stack, Messages
  <1>3. \A c \in Contexts : ctx[c].state = "idle"
    <2>. TAKE c \in Contexts
    <2>1. ctx[c].state # "busy"
      BY <1>2, SMTT(20) DEF OrderInv, InUse, In
    <2>2. ctx[c].state # "suspended"
      BY <1>1, SMTT(20) DEF OrderInv, InUse, In, Clean
    <2>. QED  BY <2>1, <2>2 DEF IInv, TypeOK, Context
  <1>4. \A m : ~In(m, heldq)
    BY <1>1 DEF OwnInv, HeldFlows, Clean, Holds, In
  <1>5. \A m : ~Wired(m)
    BY <1>3, PacketPathAssumption DEF MsgInv, NoPacket, Wired
  <1>6. \A m : ~In(m, rx) /\ ~In(m, retryq)
    BY <1>1, SMTT(20) DEF In
  <1>7. \A m \in Msgs : m # None
    BY PacketPathAssumption
  <1>8. \A m \in Msgs : m \in pool
    BY <1>2, <1>4, <1>5, <1>6, <1>7 DEF MsgInv, Once, OnePlace
  <1>9. pool = Msgs
    BY <1>8 DEF IInv, TypeOK
  <1>10. Idle = Contexts
    BY <1>3 DEF Idle
  <1>. QED  BY <1>1, <1>2, <1>9, <1>10

(* A thread that purges its flows, which it does unless it was told to be   *)
(* a dirty pig, ends with every message finalized, no context in use and    *)
(* nothing offloaded, whenever and in whatever state it leaves the analyze  *)
(* loop.                                                                    *)
THEOREM EndsSettled ==
    ASSUME ~DirtyPig
    PROVE  Spec => []AllSettled
  <1>1. Init => SettleInv
    BY DEF Init, SettleInv, Phases, Purged, Ended
  <1>2. PathInv /\ SettleInv /\ [Next]_vars => SettleInv'
    BY SettleKeeps
  <1>3. PathInv /\ SettleInv => AllSettled
    BY NothingLeft DEF AllSettled
  <1>. QED  BY <1>1, <1>2, <1>3, OrderHolds, PTL DEF Spec
=============================================================================
