----------------------------- MODULE PacketPath -----------------------------
(***************************************************************************)
(* What one packet thread does with its DAQ messages: the contexts a       *)
(* packet is processed in (detection/context_switcher.cc), the searches it *)
(* hands to worker threads and takes back (detection/regex_offload.cc,     *)
(* detection/detection_engine.cc), the retry queue and the message life    *)
(* cycle (main/analyzer.cc) and the packets stream_tcp holds               *)
(* (stream/tcp/held_packet_queue.cc).                                      *)
(*                                                                         *)
(* The packet thread is sequential: pc says where in process_messages,     *)
(* idle or term it is, busy is the stack of contexts it is inside.  The    *)
(* workers run beside it, one per request.  Time is left to chance: a      *)
(* queued message may be due, a held one expired, at any moment.  A flow   *)
(* lives until it is purged at the end, and stands for one direction of a  *)
(* TCP session.  The build is the one without REG_TEST.                    *)
(***************************************************************************)
EXTENDS Integers, Sequences, FiniteSets, Functions

CONSTANTS
    Msgs,           \* the DAQ's message pool
    Contexts,       \* max_contexts of them
    Requests,       \* offload_threads of them
    Flows,
    FlowOf,         \* the flow a message's packet belongs to, or None
    SkipMsgs,       \* messages whose packet may end up with detection disabled
    BatchSize,      \* of the DAQ instance
    MaxRebuilt,     \* bound on the packets rebuilt while inspecting one packet
    DirtyPig,       \* --dirty-pig
    None

(* As in SequencesExt, whose other definitions only burden the proofs. *)
Front(s) == SubSeq(s, 1, Len(s) - 1)

Last(s) == s[Len(s)]

RemoveAt(s, i) == SubSeq(s, 1, i - 1) \o SubSeq(s, i + 1, Len(s))

SeqOf(S, n) == UNION {[1 .. m -> S] : m \in 0 .. n}

ASSUME PacketPathAssumption ==
    /\ FlowOf \in [Msgs -> Flows \cup {None}]
    /\ None \notin Msgs \cup Contexts \cup Flows \cup {"wire", "pdu", "flush"}
    /\ SkipMsgs \subseteq Msgs
    /\ BatchSize \in Nat \ {0} /\ MaxRebuilt \in Nat
    /\ DirtyPig \in BOOLEAN

VARIABLES
    ctx,        \* each IpsContext with its packet
    busy,       \* ContextSwitcher::busy
    chain,      \* Flow::context_chain
    req,        \* each RegexRequest
    onhold,     \* RegexOffload::busy
    worker,     \* where each worker thread is
    pool,       \* the messages the DAQ has not handed out
    rx,         \* received, not yet looked at
    retryq,     \* RetryQueue::queue
    heldq,      \* HeldPacketQueue::q
    pc, ret,    \* where the packet thread is, and goes after handle_timeouts
    cur,        \* the message process_daq_pkt_msg was called with
    target,     \* the flow being flushed or purged
    due,        \* messages of retryq that are due in process_retry_queue
    idling,     \* the receive timed out
    stalled,    \* inside a loop that calls onload() until something changes
    resuming,   \* the flow whose chain resume_ready_suspends is working on
    rebuilt,    \* packets rebuilt so far from the packet being inspected
    unpurged    \* flows purge_flows has yet to retire

switcher == <<ctx, busy, chain>>
offloader == <<req, onhold, worker>>
msgs == <<pool, rx, retryq, heldq>>
control == <<pc, ret, cur, target, due, idling, stalled, resuming, rebuilt, unpurged>>
vars == <<switcher, offloader, msgs, control>>

Acts == {"allow", "hold", "retry", "drop"}    \* ActiveActionType, as far as told apart

IdleContext ==
    [state |-> "idle", kind |-> None, flow |-> None, msg |-> None,
     parent |-> None, offloaded |-> FALSE, act |-> "allow"]

Context ==
    [state : {"idle", "busy", "suspended"}, kind : {None, "wire", "pdu", "flush"},
     flow : Flows \cup {None}, msg : Msgs \cup {None}, parent : Contexts \cup {None},
     offloaded : BOOLEAN, act : Acts]

TypeOK ==
    /\ ctx \in [Contexts -> Context]
    /\ busy \in Seq(Contexts)
    /\ chain \in [Flows -> Seq(Contexts)]
    /\ req \in [Requests -> [pkt : Contexts \cup {None}, offload : BOOLEAN, go : BOOLEAN]]
    /\ onhold \in Seq(Requests)
    /\ worker \in [Requests -> {"idle", "woken", "search", "exit"}]
    /\ pool \subseteq Msgs
    /\ rx \in Seq(Msgs) /\ retryq \in Seq(Msgs) /\ heldq \in Seq(Msgs)
    /\ pc \in {"top", "recv", "next", "start", "inspect", "rebuild", "unhold", "timeouts", "flush",
               "onload", "retry", "purge", "pwait", "pflush", "pclear",
               "discard", "drain", "join", "done"}
    /\ ret \in {"onload", "retry", "top", "purge"}
    /\ cur \in Msgs \cup {None} /\ target \in Flows \cup {None}
    /\ due \in Nat /\ rebuilt \in Nat
    /\ idling \in BOOLEAN /\ stalled \in BOOLEAN
    /\ resuming \in Flows \cup {None}
    /\ unpurged \subseteq Flows

Init ==
    /\ ctx = [c \in Contexts |-> IdleContext]
    /\ busy = <<>>
    /\ chain = [f \in Flows |-> <<>>]
    /\ req = [r \in Requests |-> [pkt |-> None, offload |-> FALSE, go |-> TRUE]]
    /\ onhold = <<>>
    /\ worker = [r \in Requests |-> "idle"]
    /\ pool = Msgs
    /\ rx = <<>> /\ retryq = <<>> /\ heldq = <<>>
    /\ pc = "top" /\ ret = "top"
    /\ cur = None /\ target = None
    /\ due = 0 /\ idling = FALSE /\ stalled = FALSE
    /\ resuming = None /\ rebuilt = 0
    /\ unpurged = Flows
-----------------------------------------------------------------------------
(* The worker of request r. *)

(* Mutant: waits without a time limit, so that a notification it missed is  *)
(* never made up for.                                                       *)
WorkerUntimed(r) ==
    /\ worker[r] = "woken"
    /\ worker' \in {[worker EXCEPT ![r] = w] : w \in {"idle",
           IF ~req[r].go THEN "exit" ELSE IF req[r].offload THEN "search" ELSE "idle"}}
    /\ UNCHANGED <<req, onhold, switcher, msgs, control>>

(* The worker has the mutex and looks what there is: notified, or, if it    *)
(* was not yet waiting then, at the time-out of wait_for.                   *)
WorkerCheck(r) ==
    /\ worker[r] = "woken"
    /\ worker' = [worker EXCEPT ![r] =
           IF ~req[r].go THEN "exit" ELSE IF req[r].offload THEN "search" ELSE "idle"]
    /\ UNCHANGED <<req, onhold, switcher, msgs, control>>

(* The search is over, if need be by falling back to search_sync. *)
WorkerSearch(r) ==
    /\ worker[r] = "search"
    /\ worker' = [worker EXCEPT ![r] = "idle"]
    /\ req' = [req EXCEPT ![r].offload = FALSE]
    /\ UNCHANGED <<onhold, switcher, msgs, control>>

(* cond.notify_one. *)
Notify(R) == worker' = [r \in Requests |-> IF r \in R THEN "woken" ELSE worker[r]]

Worker == \E r \in Requests :
    WorkerCheck(r) \/ WorkerSearch(r)
-----------------------------------------------------------------------------
(* Contexts, the verdict of a packet, and what becomes of its message. *)

Idle == {c \in Contexts : ctx[c].state = "idle"}

Top == Last(busy)

(* There is no ordering of idle contexts. *)
NextContext == CHOOSE c \in Idle : TRUE

Held(f) == {m \in Range(heldq) : FlowOf[m] = f}

(* HeldPacketQueue::erase of the flow's held packet, if it has one. *)
Unheld(f) ==
    LET at == {i \in DOMAIN heldq : FlowOf[heldq[i]] = f}
    IN  IF at = {} THEN heldq ELSE RemoveAt(heldq, CHOOSE i \in at : TRUE)

(* The pool check of retry_packet and hold_packet. *)
PoolLow == Cardinality(pool) < BatchSize

(* Active::apply_delayed_action of d on a packet whose action is a. *)
Delayed(a, d) ==
    CASE d = "allow" -> {a}
      [] d = "drop" -> {"drop"}
      [] d = "retry" /\ a = "retry" -> {"retry"}
      [] d = "retry" /\ (a = "drop" \/ PoolLow) -> {"drop"}
      [] OTHER -> {"retry", "drop"}      \* a retransmitted packet is dropped

(* Mutant: finalizes the message it has queued, too. *)
PostProcessAll(m, a) ==
    /\ pool' = pool \cup {m}
    /\ \/ a = "retry" /\ retryq' = Append(retryq, m) /\ UNCHANGED heldq
       \/ a # "retry" /\ UNCHANGED <<retryq, heldq>>

(* post_process_daq_pkt_msg: message m leaves its packet. *)
PostProcess(m, a) ==
    \/ /\ a = "retry"
       /\ retryq' = Append(retryq, m)
       /\ UNCHANGED <<pool, heldq>>
    \/ /\ a = "hold" /\ Held(FlowOf[m]) = {}
       /\ heldq' = Append(heldq, m)
       /\ UNCHANGED <<pool, retryq>>
    \/ /\ a # "retry" /\ ~(a = "hold" /\ Held(FlowOf[m]) = {})
       /\ pool' = pool \cup {m}
       /\ UNCHANGED <<retryq, heldq>>

(* finish_inspect and what follows, for the packet of context c, which is   *)
(* then idle.  A rebuilt packet acts through its wire packet's Active.      *)
Finish(c) ==
    \E d \in {"allow", "drop", "retry"} :
        LET wire == IF ctx[c].kind = "wire" THEN c ELSE ctx[c].parent
            acts == wire # None /\ ctx[wire].kind = "wire"
        IN  \E a \in IF acts THEN Delayed(ctx[wire].act, d) ELSE {"allow"} :
                IF ctx[c].kind = "wire"
                THEN /\ PostProcess(ctx[c].msg, a)
                     /\ ctx' = [ctx EXCEPT ![c] = IdleContext]
                ELSE /\ ctx' = IF acts
                               THEN [ctx EXCEPT ![wire].act = a, ![c] = IdleContext]
                               ELSE [ctx EXCEPT ![c] = IdleContext]
                     /\ UNCHANGED <<pool, retryq, heldq>>
-----------------------------------------------------------------------------
(* Taking back what the workers have finished. *)

Ready(f, ch, cx) == ch[f] # <<>> /\ ~cx[Head(ch[f])].offloaded

(* The loops of onload(), onload(Flow), wait_for_context and idle(). *)
Onloading ==
    \/ pc \in {"recv", "onload"}
    \/ stalled /\ pc \in {"start", "rebuild", "flush", "pflush", "pwait", "pclear", "drain"}

(* Mutant: takes the oldest request back, done or not. *)
GetOldest == DOMAIN onhold \cap {1}

(* ThreadRegexOffload::get: the first request in busy that is done. *)
Get == {i \in DOMAIN onhold :
           ~req[onhold[i]].offload /\ \A j \in 1 .. i - 1 : req[onhold[j]].offload}

(* One turn of the loop in onload(). *)
Onload ==
    /\ Onloading /\ resuming = None
    /\ \E i \in Get :
          LET r == onhold[i]
              c == req[r].pkt
              f == ctx[c].flow
          IN  /\ req' = [req EXCEPT ![r].pkt = None]
              /\ onhold' = RemoveAt(onhold, i)
              /\ ctx' = [ctx EXCEPT ![c].offloaded = FALSE]
              /\ resuming' = IF Ready(f, chain, ctx') THEN f ELSE None
    /\ UNCHANGED <<busy, chain, worker, msgs, pc, ret, cur, target, due, idling, stalled,
                   rebuilt, unpurged>>

(* Mutant: stops after the packet that came back. *)
ResumeOne ==
    /\ resuming # None
    /\ LET f == resuming IN
          /\ Finish(Head(chain[f]))
          /\ chain' = [chain EXCEPT ![f] = Tail(@)]
          /\ resuming' = None
    /\ UNCHANGED <<busy, offloader, rx, pc, ret, cur, target, due, idling, stalled, rebuilt,
                   unpurged>>

(* One turn of the loop in resume_ready_suspends. *)
Resume ==
    /\ resuming # None
    /\ LET f == resuming IN
          /\ Finish(Head(chain[f]))
          /\ chain' = [chain EXCEPT ![f] = Tail(@)]
          /\ resuming' = IF Ready(f, chain', ctx') THEN f ELSE None
    /\ UNCHANGED <<busy, offloader, rx, pc, ret, cur, target, due, idling, stalled, rebuilt,
                   unpurged>>

(* The loop is left, or never entered, with the condition true. *)
Through(condition) ==
    /\ resuming = None
    /\ condition
    /\ stalled => Get = {}
    /\ stalled' = FALSE

(* The loop is entered. *)
Stall ==
    /\ resuming = None /\ ~stalled
    /\ \/ pc \in {"start", "rebuild", "flush", "pflush"} /\ Idle = {}
       \/ pc \in {"pwait", "pclear"} /\ chain[target] # <<>>
       \/ pc = "drain" /\ onhold # <<>>
    /\ stalled' = TRUE
    /\ UNCHANGED <<switcher, offloader, msgs, pc, ret, cur, target, due, idling, resuming,
                   rebuilt, unpurged>>
-----------------------------------------------------------------------------
(* Inspecting the packet of the context on top of busy. *)

Inspecting == pc = "inspect" /\ resuming = None

(* A context is taken and becomes the current one. *)
Enter(kind, f, m, p) ==
    /\ ctx' = [ctx EXCEPT ![NextContext] =
           [IdleContext EXCEPT !.state = "busy", !.kind = kind, !.flow = f, !.msg = m, !.parent = p]]
    /\ busy' = Append(busy, NextContext)
    /\ UNCHANGED chain

(* process_daq_pkt_msg up to the main hook. *)
Start ==
    /\ pc = "start" /\ Through(Idle # {})
    /\ Enter("wire", FlowOf[cur], cur, None)
    /\ cur' = None
    /\ pc' = "inspect"
    /\ UNCHANGED <<offloader, msgs, ret, target, due, idling, resuming, rebuilt, unpurged>>

(* A splitter holds the packet (Active::hold_packet). *)
Hold ==
    /\ Inspecting /\ ctx[Top].kind = "wire" /\ ctx[Top].flow # None
    /\ ctx[Top].act = "allow" /\ ~PoolLow
    /\ ctx' = [ctx EXCEPT ![Top].act = "hold"]
    /\ UNCHANGED <<busy, chain, offloader, msgs, control>>

(* There is something to rebuild: set_next_packet. *)
Rebuild ==
    /\ Inspecting /\ ctx[Top].kind # "pdu" /\ ctx[Top].flow # None
    /\ rebuilt < MaxRebuilt
    /\ rebuilt' = rebuilt + 1
    /\ pc' = "rebuild"
    /\ UNCHANGED <<switcher, offloader, msgs, ret, cur, target, due, idling, stalled, resuming,
                   unpurged>>

(* inspect_rebuilt; without a wire packet there is a dummy Active. *)
Rebuilt ==
    /\ pc = "rebuild" /\ Through(Idle # {})
    /\ Enter("pdu", ctx[Top].flow, ctx[Top].msg, IF ctx[Top].kind = "wire" THEN Top ELSE None)
    /\ pc' = "inspect"
    /\ UNCHANGED <<offloader, msgs, ret, cur, target, due, idling, resuming, rebuilt, unpurged>>

AfterPacket == IF ctx[Top].kind = "wire" THEN "timeouts" ELSE "unhold"

(* ContextSwitcher::suspend; the packet is offloaded or not. *)
Suspend(offloaded) ==
    /\ ctx' = [ctx EXCEPT ![Top].state = "suspended", ![Top].offloaded = offloaded]
    /\ busy' = Front(busy)
    /\ chain' = [chain EXCEPT ![ctx[Top].flow] = Append(@, Top)]
    /\ pc' = AfterPacket
    /\ rebuilt' = IF ctx[Top].kind = "wire" THEN 0 ELSE rebuilt
    /\ UNCHANGED <<msgs, ret, cur, target, due, idling, stalled, resuming, unpurged>>

(* do_offload and ThreadRegexOffload::put. *)
Offload ==
    /\ Inspecting /\ ctx[Top].kind # "flush" /\ ctx[Top].flow # None
    /\ Range(onhold) # Requests
    /\ LET r == CHOOSE q \in Requests : q \notin Range(onhold) IN
          /\ req' = [req EXCEPT ![r].pkt = Top, ![r].offload = TRUE]
          /\ onhold' = Append(onhold, r)
          /\ Notify({r})
    /\ Suspend(TRUE)

(* offload(): nothing to offload, or no request free, behind others of the flow. *)
SuspendBehind ==
    /\ Inspecting /\ ctx[Top].kind # "flush" /\ ctx[Top].flow # None
    /\ chain[ctx[Top].flow] # <<>>
    /\ Suspend(FALSE)
    /\ UNCHANGED offloader

FinishTop ==
    /\ Finish(Top)
    /\ busy' = Front(busy)
    /\ pc' = AfterPacket
    /\ rebuilt' = IF ctx[Top].kind = "wire" THEN 0 ELSE rebuilt
    /\ UNCHANGED <<chain, offloader, rx, ret, cur, target, due, idling, stalled, resuming, unpurged>>

(* Mutant: does not look at the flow's chain. *)
CompleteAnyway == Inspecting /\ ctx[Top].kind # "flush" /\ FinishTop

(* detect() completes on the spot: fp_full, or fp_complete in offload(). *)
Complete ==
    /\ Inspecting /\ ctx[Top].kind # "flush"
    /\ ctx[Top].flow # None => chain[ctx[Top].flow] = <<>>
    /\ FinishTop

(* Detection is disabled for the packet, or detect() declines it. *)
Skip ==
    /\ Inspecting /\ ctx[Top].kind = "wire" /\ ctx[Top].msg \in SkipMsgs
    /\ FinishTop

(* _flush_to_seq after inspect_rebuilt: finalize_held_packet(p). *)
FinalizeHeld ==
    /\ pc = "unhold"
    /\ pool' = pool \cup Held(ctx[Top].flow)
    /\ heldq' = Unheld(ctx[Top].flow)
    /\ ctx' = [ctx EXCEPT ![Top].act = IF @ = "hold" THEN "allow" ELSE @]
    /\ pc' = "inspect"
    /\ UNCHANGED <<busy, chain, offloader, rx, retryq, ret, cur, target, due, idling, stalled,
                   resuming, rebuilt, unpurged>>
-----------------------------------------------------------------------------
(* process_messages, process_retry_queue, idle and handle_timeouts. *)

Batches == {s \in SeqOf(pool, BatchSize) : \A i, j \in DOMAIN s : s[i] = s[j] => i = j}

(* receive_messages; with nothing received it may have timed out. *)
Receive ==
    /\ pc = "top"
    /\ \E s \in Batches :
          /\ rx' = s
          /\ pool' = pool \ Range(s)
          /\ idling' \in IF s = <<>> THEN BOOLEAN ELSE {FALSE}
    /\ pc' = "recv"
    /\ UNCHANGED <<switcher, offloader, retryq, heldq, ret, cur, target, due, stalled, resuming,
                   rebuilt, unpurged>>

(* onload() finds nothing more before the first message. *)
Received ==
    /\ pc = "recv" /\ resuming = None /\ Get = {}
    /\ pc' = "next"
    /\ UNCHANGED <<switcher, offloader, msgs, ret, cur, target, due, idling, stalled, resuming,
                   rebuilt, unpurged>>

(* process_retry_queue fixes the time: what is queued from here on is not due. *)
RetryNow ==
    /\ due' \in 0 .. Len(retryq)
    /\ pc' = "retry"

(* onload() finds nothing more after a message. *)
Onloaded ==
    /\ pc = "onload" /\ resuming = None /\ Get = {}
    /\ RetryNow
    /\ UNCHANGED <<switcher, offloader, msgs, ret, cur, target, idling, stalled, resuming,
                   rebuilt, unpurged>>

(* The next message is a packet. *)
NextPacket ==
    /\ pc = "next" /\ rx # <<>>
    /\ cur' = Head(rx) /\ rx' = Tail(rx)
    /\ pc' = "start" /\ ret' = "onload"
    /\ UNCHANGED <<switcher, offloader, pool, retryq, heldq, target, due, idling, stalled,
                   resuming, rebuilt, unpurged>>

(* It is one to skip, or no packet. *)
PassMessage ==
    /\ pc = "next" /\ rx # <<>>
    /\ pool' = pool \cup {Head(rx)} /\ rx' = Tail(rx)
    /\ pc' \in {"next", "onload"}
    /\ UNCHANGED <<switcher, offloader, retryq, heldq, ret, cur, target, due, idling, stalled,
                   resuming, rebuilt, unpurged>>

NoMoreMessages ==
    /\ pc = "next" /\ rx = <<>>
    /\ IF idling THEN RetryNow ELSE pc' = "top" /\ UNCHANGED due
    /\ ret' = "top"
    /\ UNCHANGED <<switcher, offloader, msgs, cur, target, idling, stalled, resuming, rebuilt,
                   unpurged>>

RetryPacket ==
    /\ pc = "retry" /\ due > 0
    /\ cur' = Head(retryq) /\ retryq' = Tail(retryq)
    /\ due' = due - 1
    /\ pc' = "start" /\ ret' = "retry"
    /\ UNCHANGED <<switcher, offloader, pool, rx, heldq, target, idling, stalled, resuming,
                   rebuilt, unpurged>>

RetryDone ==
    /\ pc = "retry" /\ due = 0
    /\ pc' = IF idling THEN "timeouts" ELSE "next"
    /\ ret' = "top"
    /\ UNCHANGED <<switcher, offloader, msgs, cur, target, due, idling, stalled, resuming,
                   rebuilt, unpurged>>

(* HeldPacketQueue::execute: the front has not expired, or there is none. *)
NoneExpired ==
    /\ pc = "timeouts"
    /\ pc' = ret
    /\ idling' = (idling /\ ret # "top")
    /\ UNCHANGED <<switcher, offloader, msgs, ret, cur, target, due, stalled, resuming, rebuilt,
                   unpurged>>

(* The front has expired: perform_partial_flush. *)
Expired ==
    /\ pc = "timeouts" /\ heldq # <<>>
    /\ target' = FlowOf[Head(heldq)]
    /\ pc' = "flush"
    /\ UNCHANGED <<switcher, offloader, msgs, ret, cur, due, idling, stalled, resuming, rebuilt,
                   unpurged>>

(* perform_partial_flush and Flow::reset enter a context of their own. *)
EnterFlush ==
    /\ pc \in {"flush", "pflush"} /\ Through(Idle # {})
    /\ Enter("flush", target, None, None)
    /\ pc' = "inspect"
    /\ UNCHANGED <<offloader, msgs, ret, cur, target, due, idling, resuming, rebuilt, unpurged>>

(* Mutant: leaves the message to whoever flushes next. *)
FlushForgetsHeld ==
    /\ Inspecting /\ ctx[Top].kind = "flush"
    /\ IF ret = "purge"
       THEN pc' = "pclear" /\ UNCHANGED <<ctx, busy, target>>
       ELSE /\ ctx' = [ctx EXCEPT ![Top] = IdleContext]
            /\ busy' = Front(busy)
            /\ target' = None
            /\ pc' = IF ret = "top" THEN "timeouts" ELSE ret
    /\ rebuilt' = 0
    /\ UNCHANGED <<chain, offloader, msgs, ret, cur, due, idling, stalled,
                   resuming, unpurged>>

(* The end of the flush: the flow's held packet is let go.  A time-out is   *)
(* then done, a purge goes on to clear the flow.                            *)
FlushEnd ==
    /\ Inspecting /\ ctx[Top].kind = "flush"
    /\ pool' = pool \cup Held(target)
    /\ heldq' = Unheld(target)
    /\ IF ret = "purge"
       THEN pc' = "pclear" /\ UNCHANGED <<ctx, busy, target>>
       ELSE /\ ctx' = [ctx EXCEPT ![Top] = IdleContext]
            /\ busy' = Front(busy)
            /\ target' = None
            /\ pc' = IF ret = "top" THEN "timeouts" ELSE ret
    /\ rebuilt' = 0
    /\ UNCHANGED <<chain, offloader, rx, retryq, ret, cur, due, idling, stalled,
                   resuming, unpurged>>
-----------------------------------------------------------------------------
(* Analyzer::term. *)

(* The analyze loop ends, for whatever reason. *)
Exit ==
    /\ pc = "top"
    /\ pc' = IF DirtyPig THEN "discard" ELSE "purge"
    /\ ret' = "purge"
    /\ UNCHANGED <<switcher, offloader, msgs, cur, target, due, idling, stalled, resuming,
                   rebuilt, unpurged>>

(* FlowCache::purge takes the next flow; Flow::reset calls onload(flow). *)
PurgeFlow ==
    /\ pc = "purge"
    /\ \/ /\ unpurged = {}
          /\ pc' = "discard"
          /\ UNCHANGED <<target, unpurged>>
       \/ \E f \in unpurged :
             /\ target' = f
             /\ unpurged' = unpurged \ {f}
             /\ pc' = "pwait"
    /\ UNCHANGED <<switcher, offloader, msgs, ret, cur, due, idling, stalled, resuming, rebuilt>>

(* onload(flow) returns, the first time. *)
PurgeOnloaded ==
    /\ pc = "pwait" /\ Through(chain[target] = <<>>)
    /\ pc' = "pflush"
    /\ UNCHANGED <<switcher, offloader, msgs, ret, cur, target, due, idling, resuming, rebuilt,
                   unpurged>>

(* clear_session ends with Flow::clear, which calls onload(flow) again. *)
PurgeCleared ==
    /\ pc = "pclear" /\ Through(chain[target] = <<>>)
    /\ ctx' = [ctx EXCEPT ![Top] = IdleContext]
    /\ busy' = Front(busy)
    /\ pc' = "purge" /\ target' = None
    /\ UNCHANGED <<chain, offloader, msgs, ret, cur, due, idling, resuming, rebuilt,
                   unpurged>>

(* What is left in the retry queue is blocked. *)
Discard ==
    /\ pc = "discard"
    /\ IF retryq = <<>>
       THEN pc' = "drain" /\ UNCHANGED <<pool, retryq>>
       ELSE /\ pool' = pool \cup {Head(retryq)}
            /\ retryq' = Tail(retryq)
            /\ UNCHANGED pc
    /\ UNCHANGED <<switcher, offloader, rx, heldq, ret, cur, target, due, idling, stalled,
                   resuming, rebuilt, unpurged>>

(* Mutant: wakes the workers without telling them to go. *)
StopKeepsGoing ==
    /\ pc = "drain" /\ Through(onhold = <<>>)
    /\ Notify(Requests)
    /\ pc' = "join"
    /\ UNCHANGED <<switcher, req, onhold, msgs, ret, cur, target, due, idling, resuming, rebuilt,
                   unpurged>>

(* DetectionEngine::idle: nothing is on hold, the offloader is stopped. *)
StopOffloader ==
    /\ pc = "drain" /\ Through(onhold = <<>>)
    /\ req' = [r \in Requests |-> [req[r] EXCEPT !.go = FALSE]]
    /\ Notify(Requests)
    /\ pc' = "join"
    /\ UNCHANGED <<switcher, onhold, msgs, ret, cur, target, due, idling, resuming, rebuilt,
                   unpurged>>

(* ~ThreadRegexOffload joins the workers. *)
Join ==
    /\ pc = "join"
    /\ \A r \in Requests : worker[r] = "exit"
    /\ pc' = "done"
    /\ UNCHANGED <<switcher, offloader, msgs, ret, cur, target, due, idling, stalled, resuming,
                   rebuilt, unpurged>>

Thread ==
    \/ Onload \/ Resume \/ Stall
    \/ Receive \/ Received \/ Onloaded \/ NextPacket \/ PassMessage \/ NoMoreMessages
    \/ RetryPacket \/ RetryDone
    \/ Start \/ Hold \/ Rebuild \/ Rebuilt \/ FinalizeHeld
    \/ Offload \/ SuspendBehind \/ Complete \/ Skip
    \/ NoneExpired \/ Expired \/ EnterFlush \/ FlushEnd
    \/ Exit \/ PurgeFlow \/ PurgeOnloaded \/ PurgeCleared
    \/ Discard \/ StopOffloader \/ Join

(* A turn of a waiting loop that finds nothing, the join of a worker that   *)
(* still runs, or the end.                                                  *)
Spin == (stalled \/ pc \in {"join", "done"}) /\ UNCHANGED vars

Next == Thread \/ Worker \/ Spin

(* The packet thread and the workers run; wait_for times out. *)
Spec ==
    /\ Init /\ [][Next]_vars
    /\ WF_vars(Thread)
    /\ \A r \in Requests :
          WF_vars(WorkerCheck(r) \/ WorkerSearch(r))
-----------------------------------------------------------------------------
Places == <<pool, Range(rx), Range(retryq), Range(heldq), {cur} \ {None},
            {ctx[c].msg : c \in {d \in Contexts : ctx[d].kind = "wire"}}>>

(* A message the DAQ handed out is in exactly one place, and goes back to   *)
(* the pool once: process_daq_msg "is responsible for finalizing the        *)
(* messages", or "tracking it if offloaded".                                *)
EachMessageOnce ==
    /\ LET places == Places IN
          \A m \in Msgs : \E i \in 1 .. 6 :
             m \in places[i] /\ \A j \in 1 .. 6 \ {i} : m \notin places[j]
    /\ \A q \in {rx, retryq, heldq} : IsInjective(q)
    /\ \A c, d \in Contexts :
          ctx[c].kind = "wire" /\ ctx[d].kind = "wire" /\ ctx[c].msg = ctx[d].msg => c = d

(* Unless the chain is being worked on, its front is with the offloader, so *)
(* the packets behind it will be resumed when it comes back: no chain waits *)
(* for nobody, which wait_for_context and onload(flow) rely on.             *)
FrontOffloaded ==
    \A f \in Flows : chain[f] # <<>> /\ resuming # f =>
        /\ ctx[Head(chain[f])].offloaded
        /\ \E r \in Range(onhold) : req[r].pkt = Head(chain[f])

(* What a worker searches stays put: the context is suspended and offloaded *)
(* as long as the worker may touch it (the assertions in worker()).         *)
SearchesSuspended ==
    \A r \in Requests : worker[r] = "search" =>
        /\ req[r].pkt # None
        /\ ctx[req[r].pkt].state = "suspended" /\ ctx[req[r].pkt].offloaded
        /\ r \in Range(onhold)

(* A rebuilt packet shares the message and the Active of its wire packet,   *)
(* so the wire packet is not done before it: chains are depth first.        *)
WireOutlivesPdu ==
    \A c \in Contexts : ctx[c].kind = "pdu" /\ ctx[c].parent # None /\ ctx[c].msg \notin SkipMsgs =>
        LET w == ctx[ctx[c].parent] IN w.kind = "wire" /\ w.msg = ctx[c].msg

(* Once the thread is done every message has been finalized, no context is  *)
(* in use and the queues whose destructors assert it are empty.             *)
AllSettled ==
    pc = "done" => pool = Msgs /\ Idle = Contexts /\ busy = <<>> /\ onhold = <<>>

(* A loop that waits for a context, or for a flow to be free of suspended   *)
(* packets, ends: something offloaded comes back, though the notification   *)
(* may have been missed, and resuming it makes the condition true.          *)
StallEnds == stalled ~> ~stalled

(* The thread ends once it has left the analyze loop: it does not wait for  *)
(* ever for a context, a flow or a worker.                                  *)
Terminates == pc = "purge" ~> pc = "done"
=============================================================================
