----------------------------- MODULE FlowCache -----------------------------
(***************************************************************************)
(* The flow table of a packet thread: FlowCache (flow/flow_cache.cc) over  *)
(* ZHash and its LRU list with a cursor (hash/zhash.cc, hash/xhash.cc,     *)
(* hash/hash_lru_cache.cc), the lists of one-sided flows                   *)
(* (flow/flow_uni_list.h), FlowControl::process (flow/flow_control.cc),    *)
(* the resource tuning after a reload (stream/base/stream_module.cc) and   *)
(* the release of closed flows (stream/stream.cc).                         *)
(*                                                                         *)
(* One thread: pc says which loop it is in.  The age of a flow is a flag,  *)
(* set when its protocol's time-out has passed and cleared by find.  A     *)
(* flow in the table goes by its key, a free one by the type of its last   *)
(* use, which is all of it that is used again.                             *)
(* Imports from a high availability partner are left out.                  *)
(***************************************************************************)
EXTENDS Integers, Sequences, Functions

CONSTANTS
    Keys,           \* flow keys
    TypeOf,         \* the PktType of a key: "ip" or another
    MaxFlows,       \* the values max_flows may be configured to
    FirstMax,       \* and the one it has at the start
    MaxReloads,     \* bound on the changes of max_flows
    WorkLimit,      \* flows tuned at a time
    AnswerKeys,     \* keys of the flows with packets in both directions
    BlockKeys,      \* keys of the flows that may be blocked
    OffloadKeys,    \* keys of the flows whose packets may be suspended
    CountMod,       \* 2^32 for FlowUniList::count, scaled down
    None

ASSUME FlowCacheAssumption ==
    /\ MaxFlows \subseteq Nat \ {0, 1}      \* stream.max_flows = { 2:max32 }
    /\ FirstMax \in MaxFlows
    /\ MaxReloads \in Nat /\ WorkLimit \in Nat \ {0}
    /\ AnswerKeys \subseteq Keys /\ BlockKeys \subseteq Keys /\ OffloadKeys \subseteq Keys
    /\ CountMod \in Nat /\ \A m \in MaxFlows : m < CountMod
    /\ None \notin Keys

VARIABLES
    flow,       \* the Flow of each key in the table
    lru,        \* the hash table's nodes, most recently used first
    cursor,     \* HashLruCache::cursor
    free,       \* XHash::fhead, the types of the flows there
    allocated,  \* flows_allocated
    uni, count, \* the FlowUniLists, newest first, and their count fields
    max,        \* config.max_flows
    reloads,    \* changes of it so far
    pc,
    key,        \* the key of the packet at hand
    pruned, blocks, ignore,     \* locals of the pruning loops
    todo, mode, check           \* locals of delete_flows

table == <<flow, lru, cursor, free, allocated, uni, count>>
loops == <<pruned, blocks, ignore>>
config == <<max, reloads>>
tuning == <<todo, mode, check>>
vars == <<table, config, pc, key, loops, tuning>>

Types == {TypeOf[k] : k \in Keys}

NewFlow == [blocked |-> FALSE, suspended |-> FALSE, both |-> FALSE, closed |-> FALSE,
            old |-> FALSE]

FlowType == [blocked : BOOLEAN, suspended : BOOLEAN, both : BOOLEAN, closed : BOOLEAN,
             old : BOOLEAN]

TypeOK ==
    /\ lru \in Seq(Keys)
    /\ flow \in [Range(lru) -> FlowType]
    /\ free \in Seq(Types \cup {None}) /\ allocated \in Nat
    /\ cursor \in Keys \cup {None}
    /\ uni \in [{"ip", "other"} -> Seq(Keys)]
    /\ count \in [{"ip", "other"} -> 0 .. CountMod - 1]
    /\ max \in MaxFlows /\ reloads \in 0 .. MaxReloads
    /\ pc \in {"idle", "alloc", "stale", "unis", "excess", "take", "process",
               "timeout", "tune", "purge", "done", "undefined"}
    /\ key \in Keys \cup {None}
    /\ pruned \in Nat /\ blocks \in Nat /\ ignore \in Nat
    /\ todo \in Nat /\ mode \in 0 .. 3 /\ check \in Nat

Init ==
    /\ flow = <<>> /\ lru = <<>> /\ cursor = None
    /\ free = <<>> /\ allocated = 0
    /\ uni = [l \in {"ip", "other"} |-> <<>>]
    /\ count = [l \in {"ip", "other"} |-> 0]
    /\ max = FirstMax /\ reloads = 0
    /\ pc = "idle" /\ key = None
    /\ pruned = 0 /\ blocks = 0 /\ ignore = 0
    /\ todo = 0 /\ mode = 0 /\ check = 0
-----------------------------------------------------------------------------
(* The hash table and its LRU list. *)

Oldest == lru[Len(lru)]

Position(s, f) == CHOOSE i \in DOMAIN s : s[i] = f

(* The next more recently used one (gprev). *)
Newer(f) == LET i == Position(lru, f) IN IF i = 1 THEN None ELSE lru[i - 1]

(* The list without f. *)
Remove(s, f) ==
    IF f \notin Range(s) THEN s
    ELSE [i \in 1 .. Len(s) - 1 |-> IF i < Position(s, f) THEN s[i] ELSE s[i + 1]]

(* Mutant: leaves the cursor on a node that goes. *)
CursorStays(f, c) == c

(* Where the cursor is when f leaves its place in the list. *)
CursorPast(f, c) == IF c = f THEN Newer(f) ELSE c

(* HashLruCache::touch with the cursor at c. *)
Touch(f, c) ==
    /\ cursor' = CursorPast(f, c)
    /\ lru' = <<f>> \o Remove(lru, f)

(* The list a flow is linked on, or unlinked from. *)
UniList(type) == IF type = "ip" THEN "ip" ELSE "other"

(* Unlinking takes the flow off the list it is on, and counts down the one  *)
(* its type tells.                                                          *)
Unlink(f) ==
    IF \E l \in DOMAIN uni : f \in Range(uni[l])
    THEN /\ uni' = [l \in DOMAIN uni |-> Remove(uni[l], f)]
         /\ count' = [count EXCEPT ![UniList(TypeOf[f])] = (@ - 1) % CountMod]
    ELSE UNCHANGED <<uni, count>>

(* Mutant: takes a flow its last packet has released for one in the table. *)
ReleaseTwice(f, c) ==
    /\ Unlink(f)
    /\ flow' = Restrict(flow, DOMAIN flow \ {f})
    /\ cursor' = CursorPast(f, c)
    /\ lru' = Remove(lru, f)
    /\ free' = (IF flow[f].closed THEN <<TypeOf[f], TypeOf[f]>> ELSE <<TypeOf[f]>>) \o free
    /\ UNCHANGED allocated

(* FlowCache::release: Flow::reset takes back its suspended packets and     *)
(* clears it, remove puts its node on the free list.  Were it closed, its   *)
(* last suspended packet has released it already; then remove finds nothing.*)
Release(f, c) ==
    /\ Unlink(f)
    /\ flow' = Restrict(flow, DOMAIN flow \ {f})
    /\ cursor' = CursorPast(f, c)
    /\ lru' = Remove(lru, f)
    /\ free' = <<TypeOf[f]>> \o free
    /\ UNCHANGED allocated

-----------------------------------------------------------------------------
(* FlowControl::process and FlowCache::allocate. *)

(* The flow at the front of the free list is given the key; it is linked    *)
(* by the type of its last use, then initialised with the key's.            *)
Take(k, type, rest) ==
    /\ uni' = [uni EXCEPT ![UniList(type)] = <<k>> \o @]
    /\ count' = [count EXCEPT ![UniList(type)] = (@ + 1) % CountMod]
    /\ flow' = [f \in DOMAIN flow \cup {k} |-> IF f = k THEN NewFlow ELSE flow[f]]
    /\ lru' = <<k>> \o lru
    /\ free' = rest
    /\ pc' = "process"
    /\ pruned' = 0 /\ blocks' = 0 /\ ignore' = 0
    /\ UNCHANGED <<cursor, config, tuning>>

Allocate(k) ==
    \/ free # <<>> /\ Take(k, Head(free), Tail(free)) /\ UNCHANGED allocated
    \/ /\ free = <<>> /\ allocated < max
       /\ Take(k, None, free)
       /\ allocated' = allocated + 1
    \/ /\ free = <<>> /\ allocated >= max
       /\ pc' = "stale"
       /\ UNCHANGED <<table, config, loops, tuning>>

(* A packet arrives; flagged as a new flow it makes the one there stale. *)
Packet(k, new) ==
    /\ pc = "idle"
    /\ key' = k
    /\ \/ k \notin Range(lru) /\ Allocate(k)
       \/ /\ k \in Range(lru) /\ new
          /\ Release(k, cursor)
          /\ pc' = "alloc"
          /\ UNCHANGED <<config, loops, tuning>>
       \/ /\ k \in Range(lru) /\ ~new
          /\ Touch(k, cursor)
          /\ flow' = [flow EXCEPT ![k].old = FALSE]
          /\ pc' = "process"
          /\ UNCHANGED <<free, allocated, uni, count, config, loops, tuning>>

(* The stale flow is released, another one taken. *)
Replace == pc = "alloc" /\ Allocate(key) /\ UNCHANGED key

(* prune_stale: the oldest has not been seen for pruning_timeout. *)
PruneStale ==
    /\ pc = "stale" /\ lru # <<>> /\ pruned <= 1
    /\ ~flow[Oldest].suspended
    /\ Release(Oldest, Oldest)
    /\ pruned' = pruned + 1
    /\ UNCHANGED <<config, pc, key, blocks, ignore, tuning>>

(* There is no other that may go. *)
StaleDone ==
    /\ pc = "stale"
    /\ pc' = IF pruned > 0 THEN "take" ELSE "unis"
    /\ pruned' = 0
    /\ cursor' = IF lru = <<>> THEN None ELSE Oldest
    /\ UNCHANGED <<flow, lru, free, allocated, uni, count, config, key, blocks, ignore, tuning>>

(* The oldest flow of the list that is not blocked. *)
OldestUnblocked(s, f) ==
    \E i \in DOMAIN s :
        f = s[i] /\ ~flow[f].blocked /\ \A j \in i + 1 .. Len(s) : flow[s[j]].blocked

(* prune_unis: the oldest one-sided flow that is not blocked, if there are  *)
(* too many of its kind.                                                    *)
PruneUnis ==
    /\ pc = "unis"
    /\ LET l == UniList(TypeOf[key])
           s == uni[l]
       IN  IF count[l] > (max \div 4) + 1 /\ \E f \in Range(s) : ~flow[f].blocked
           THEN /\ \E f \in Range(s) : OldestUnblocked(s, f) /\ Release(f, cursor)
                /\ pc' = "take"
                /\ UNCHANGED ignore
           ELSE /\ pc' = "excess"
                /\ ignore' = Len(lru)
                /\ UNCHANGED table
    /\ UNCHANGED <<config, key, pruned, blocks, tuning>>

(* prune_excess: blocked flows, and at first those with suspended packets,  *)
(* are moved to the front.                                                  *)
PruneExcess ==
    /\ pc = "excess"
    /\ Len(lru) > max - 1 /\ Len(lru) > blocks
    /\ LET f == Oldest IN
          IF flow[f].blocked \/ (flow[f].suspended /\ ignore > 0)
          THEN /\ Touch(f, f)
               /\ blocks' = blocks + (IF flow[f].blocked THEN 1 ELSE 0)
               /\ UNCHANGED <<flow, free, allocated, uni, count, pruned>>
          ELSE /\ Release(f, f)
               /\ pruned' = pruned + 1
               /\ UNCHANGED blocks
    /\ ignore' = IF ignore > 0 THEN ignore - 1 ELSE 0
    /\ UNCHANGED <<config, pc, key, tuning>>

(* Mutant: the only flow, too. *)
PruneAny == IF lru # <<>> THEN Release(Oldest, Oldest) ELSE UNCHANGED table

(* prune_one: never the only flow. *)
PruneOne == IF Len(lru) > 1 THEN Release(Oldest, Oldest) ELSE UNCHANGED table

(* Mutant: spares the blocked flows when there is no other. *)
ExcessGivesUp ==
    /\ pc = "excess"
    /\ Len(lru) <= max - 1 \/ Len(lru) <= blocks
    /\ pc' = "take"
    /\ UNCHANGED <<table, config, key, loops, tuning>>

(* Then one goes whatever it is. *)
ExcessDone ==
    /\ pc = "excess"
    /\ Len(lru) <= max - 1 \/ Len(lru) <= blocks
    /\ IF pruned = 0 /\ Len(lru) > max - 1 THEN PruneOne ELSE UNCHANGED table
    /\ pc' = "take"
    /\ UNCHANGED <<config, key, loops, tuning>>

TakePruned ==
    /\ pc = "take" /\ free # <<>>
    /\ Take(key, Head(free), Tail(free))
    /\ UNCHANGED <<key, allocated>>

(* preemptive_cleanup: memory is over the threshold. *)
Preempt ==
    /\ pc = "process"
    /\ PruneOne
    /\ UNCHANGED <<config, pc, key, loops, tuning>>

(* The rest of process: a flow that was seen in both directions is taken    *)
(* off its list.  Then inspection: the flow is seen from the other side,    *)
(* blocked, closed, the packet suspended.  check_flow_closed releases a     *)
(* closed flow that has no suspended packets.                               *)
Inspect(b, d, c, s) ==
    /\ pc = "process"
    /\ b => key \in AnswerKeys
    /\ d => key \in BlockKeys
    /\ s => key \in OffloadKeys
    /\ LET f == [flow[key] EXCEPT !.both = @ \/ b, !.blocked = @ \/ d,
                                  !.closed = @ \/ c, !.suspended = @ \/ s]
       IN  IF f.closed /\ ~f.suspended
           THEN Release(key, cursor)
           ELSE /\ flow' = [flow EXCEPT ![key] = f]
                /\ IF flow[key].both THEN Unlink(key) ELSE UNCHANGED <<uni, count>>
                /\ UNCHANGED <<lru, cursor, free, allocated>>
    /\ pc' = "timeout" /\ key' = None
    /\ UNCHANGED <<config, loops, tuning>>

(* Mutant: leaves a closed flow to the next packet. *)
OnloadOnly(f) ==
    /\ pc = "idle" /\ f \in Range(lru) /\ flow[f].suspended
    /\ flow' = [flow EXCEPT ![f].suspended = FALSE]
    /\ UNCHANGED <<lru, cursor, free, allocated, uni, count, config, pc, key, loops, tuning>>

(* The suspended packets of f come back; the last one finds it closed. *)
Onload(f) ==
    /\ pc = "idle" /\ f \in Range(lru) /\ flow[f].suspended
    /\ IF flow[f].closed
       THEN Release(f, cursor)
       ELSE /\ flow' = [flow EXCEPT ![f].suspended = FALSE]
            /\ UNCHANGED <<lru, cursor, free, allocated, uni, count>>
    /\ UNCHANGED <<config, pc, key, loops, tuning>>
-----------------------------------------------------------------------------
(* FlowCache::timeout, called after a packet and when there is none. *)

Age(f) ==
    /\ pc = "idle" /\ f \in Range(lru) /\ ~flow[f].old
    /\ flow' = [flow EXCEPT ![f].old = TRUE]
    /\ UNCHANGED <<lru, cursor, free, allocated, uni, count, config, pc, key, loops, tuning>>

(* No packet has come. *)
Idle ==
    /\ pc = "idle"
    /\ pc' = "timeout"
    /\ UNCHANGED <<table, config, key, loops, tuning>>

(* Mutant: does not start over. *)
AtCursor == cursor

(* The flow timeout goes on with. *)
At == IF cursor = None /\ lru # <<>> THEN Oldest ELSE cursor

(* Expired, but with packets suspended: on to the next, if there is one. *)
TimeoutSkip ==
    /\ pc = "timeout" /\ At # None
    /\ flow[At].old /\ flow[At].suspended
    /\ cursor' = Newer(At)
    /\ pc' = IF cursor' = None THEN "idle" ELSE pc
    /\ UNCHANGED <<flow, lru, free, allocated, uni, count, config, key, loops, tuning>>

(* At most one is released in a call. *)
TimeoutRelease ==
    /\ pc = "timeout" /\ At # None
    /\ flow[At].old /\ ~flow[At].suspended
    /\ Release(At, At)
    /\ pc' = "idle"
    /\ UNCHANGED <<config, key, loops, tuning>>

TimeoutDone ==
    /\ pc = "timeout"
    /\ At # None => ~flow[At].old
    /\ cursor' = At
    /\ pc' = "idle"
    /\ UNCHANGED <<flow, lru, free, allocated, uni, count, config, key, loops, tuning>>
-----------------------------------------------------------------------------
(* A reload changes max_flows; the flows that are too many are deleted,     *)
(* WorkLimit at a time, packets being processed in between.                 *)

Reload(m) ==
    /\ pc = "idle" /\ m # max /\ reloads < MaxReloads
    /\ max' = m
    /\ reloads' = reloads + 1
    /\ UNCHANGED <<table, pc, key, loops, tuning>>

TuneStart ==
    /\ pc = "idle" /\ allocated > max
    /\ pc' = "tune"
    /\ todo' = IF allocated - max > WorkLimit THEN WorkLimit ELSE allocated - max
    /\ UNCHANGED <<table, config, key, loops, mode, check>>

(* First from the free list. *)
DeleteFree ==
    /\ pc = "tune" /\ mode = 0 /\ todo > 0 /\ free # <<>>
    /\ free' = Tail(free)
    /\ allocated' = allocated - 1
    /\ todo' = todo - 1
    /\ UNCHANGED <<flow, lru, cursor, uni, count, config, pc, key, loops, mode, check>>

(* Mutant: only ALLOWED_FLOWS_ONLY. *)
OneMode ==
    /\ pc = "tune"
    /\ \/ mode = 0 /\ (todo = 0 \/ free = <<>>)
       \/ mode > 0 /\ (todo = 0 \/ check = 0)
    /\ IF todo = 0 \/ mode = 1
       THEN pc' = "idle" /\ todo' = 0 /\ mode' = 0 /\ check' = 0
       ELSE mode' = mode + 1 /\ check' = Len(lru) /\ UNCHANGED <<pc, todo>>
    /\ UNCHANGED <<table, config, key, loops>>

(* Then the active ones, in the modes ALLOWED_FLOWS_ONLY, OFFLOADED_FLOWS_TOO *)
(* and ALL_FLOWS.                                                           *)
NextMode ==
    /\ pc = "tune"
    /\ \/ mode = 0 /\ (todo = 0 \/ free = <<>>)
       \/ mode > 0 /\ (todo = 0 \/ check = 0)
    /\ IF todo = 0 \/ mode = 3
       THEN pc' = "idle" /\ todo' = 0 /\ mode' = 0 /\ check' = 0
       ELSE mode' = mode + 1 /\ check' = Len(lru) /\ UNCHANGED <<pc, todo>>
    /\ UNCHANGED <<table, config, key, loops>>

(* Mutant: spares only flows with suspended packets. *)
SparedSuspended(f) == mode < 3 /\ flow[f].suspended

Spared(f) ==
    \/ mode = 1 /\ (flow[f].blocked \/ flow[f].suspended)
    \/ mode = 2 /\ flow[f].blocked

(* A flow is deleted as it is; with packets still suspended what becomes of *)
(* them is undefined.                                                       *)
DeleteActive ==
    /\ pc = "tune" /\ mode > 0 /\ todo > 0 /\ check > 0
    /\ check' = check - 1
    /\ LET f == Oldest IN
          IF Spared(f)
          THEN /\ Touch(f, f)
               /\ UNCHANGED <<flow, free, allocated, uni, count, pc, todo>>
          ELSE /\ flow' = Restrict(flow, DOMAIN flow \ {f})
               /\ allocated' = allocated - 1
               /\ Unlink(f)
               /\ cursor' = Newer(f)
               /\ lru' = Remove(lru, f)
               /\ todo' = todo - 1
               /\ pc' = IF flow[f].suspended THEN "undefined" ELSE pc
               /\ UNCHANGED free
    /\ UNCHANGED <<config, key, loops, mode>>
-----------------------------------------------------------------------------
(* FlowCache::purge, when the thread ends. *)

PurgeStart ==
    /\ pc = "idle"
    /\ pc' = "purge"
    /\ UNCHANGED <<table, config, key, loops, tuning>>

Purge ==
    /\ pc = "purge"
    /\ \/ lru # <<>> /\ Release(Oldest, Oldest) /\ UNCHANGED pc
       \/ /\ lru = <<>> /\ free # <<>>
          /\ free' = Tail(free)
          /\ allocated' = allocated - 1
          /\ UNCHANGED <<flow, lru, cursor, uni, count, pc>>
       \/ lru = <<>> /\ free = <<>> /\ pc' = "done" /\ UNCHANGED table
    /\ UNCHANGED <<config, key, loops, tuning>>

Ended == pc \in {"done", "undefined"} /\ UNCHANGED vars

Thread ==
    \/ \E k \in Keys, new \in BOOLEAN : Packet(k, new)
    \/ Replace \/ PruneStale \/ StaleDone \/ PruneUnis \/ PruneExcess \/ ExcessDone
    \/ TakePruned \/ Preempt
    \/ \E b, d, c, s \in BOOLEAN : Inspect(b, d, c, s)
    \/ \E f \in Keys : Onload(f)
    \/ Idle \/ TimeoutSkip \/ TimeoutRelease \/ TimeoutDone
    \/ \E m \in MaxFlows : Reload(m)
    \/ TuneStart \/ DeleteFree \/ NextMode \/ DeleteActive
    \/ PurgeStart \/ Purge

Next == Thread \/ (\E f \in Keys : Age(f)) \/ Ended

(* The thread runs, and calls the tuner now and then; a flow that has no    *)
(* packets grows old.                                                       *)
Spec ==
    /\ Init /\ [][Next]_vars
    /\ WF_vars(Thread)
    /\ SF_vars(TuneStart)
    /\ \A f \in Keys : []<>(f \notin Range(lru) \/ flow[f].old \/ key = f)
-----------------------------------------------------------------------------
(* The Flow objects that were made are in the table, under a key of their   *)
(* own, or free, each once however often it is released (allocated counts   *)
(* them one by one).                                                        *)
AllocatedExact ==
    /\ allocated = Len(lru) + Len(free)
    /\ IsInjective(lru)

(* allocate asserts that pruning has made room. *)
RoomMade == pc = "take" => free # <<>>

(* "so we don't prune the current flow (assume current == MRU)": the flow   *)
(* of the packet at hand is in the table and the most recently used one.    *)
CurrentKept == pc = "process" => lru # <<>> /\ Head(lru) = key

(* Nothing points to a flow that has left the table: not the cursor that    *)
(* timeout goes on from, nor a list of one-sided flows.  A flow is on one   *)
(* of those lists at most, and there once.                                  *)
LinksInTable ==
    /\ cursor = None \/ cursor \in Range(lru)
    /\ \A l \in DOMAIN uni : Range(uni[l]) \subseteq Range(lru)
    /\ \A l \in DOMAIN uni : IsInjective(uni[l])
    /\ Range(uni["ip"]) \cap Range(uni["other"]) = {}

(* check_flow_closed: "eventually all onloads will occur and delete will be *)
(* called": a closed flow is kept for its suspended packets only.           *)
ClosedReleased == \A f \in Range(lru) : flow[f].closed => flow[f].suspended

Leaves(f) == f \in Range(lru) /\ f \notin Range(lru')

(* Tuning deletes a blocked flow only when no other is left. *)
BlockedLast == [][
    pc = "tune" => \A f \in Keys : Leaves(f) /\ flow[f].blocked =>
        \A g \in Range(lru) : flow[g].blocked]_vars

TimedOut(f) ==
    (f \in Range(lru) /\ flow[f].old /\ ~flow[f].blocked) ~>
        (f \in Range(lru) => ~flow[f].old \/ flow[f].suspended)

(* A flow without packets is released by the time-out, wherever the cursor  *)
(* has been left, if none of its packets was ever suspended and it is not   *)
(* blocked (pruning moves blocked flows to the front of the list).          *)
IdleFlowsGo == \A f \in Keys \ OffloadKeys : TimedOut(f)

(* After a reload with a lower max_flows the flows become that few. *)
TuneConverges == (allocated > max) ~> (allocated <= max \/ pc = "undefined")
=============================================================================
