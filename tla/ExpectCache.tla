---------------------------- MODULE ExpectCache ----------------------------
(***************************************************************************)
(* The sessions a packet thread expects: ExpectCache (flow/expect_cache.cc)*)
(* over a ZHash of preallocated ExpectNodes (hash/zhash.cc, hash/xhash.cc).*)
(* A node holds a linked list of ExpectFlows, each a set of FlowData that  *)
(* one future session is given as a whole; ExpectFlows come from a         *)
(* preallocated pool and go back to its free list.                         *)
(*                                                                         *)
(* The lists are modelled as the code links them, by pointers.  Times are  *)
(* kept relative to the packet clock: left is expires - packet_time().     *)
(* FlowData are numbered in the order they are added.  The vector          *)
(* packet_expect_flows, which nothing in src reads, and the DAQ module's   *)
(* own table are left out.                                                 *)
(***************************************************************************)
EXTENDS Integers, Sequences, FiniteSets, SequencesExt

CONSTANTS
    Keys,       \* the flow keys sessions are expected under
    Packets,    \* packets that start a session
    Lookup,     \* the keys a packet is looked up by: full, then one port zeroed
    Reversed,   \* whether the key of a packet has its addresses swapped
    Calls,      \* what add_flow is called with: direction, reversed_key, protocol
    MaxNodes,   \* ExpectNodes (init_exp)
    MaxList,    \* MAX_LIST
    MaxWait,    \* MAX_WAIT
    MaxData,    \* bound on the FlowData added
    DataId,     \* the FlowData id of each
    None

Directions == {"none", "both", "client", "server"}

ASSUME ExpectCacheAssumption ==
    /\ {MaxNodes, MaxList} \subseteq Nat \ {0} /\ {MaxWait, MaxData} \subseteq Nat
    /\ Lookup \in [Packets -> Seq(Keys)] /\ Reversed \in [Packets -> BOOLEAN]
    /\ Calls \subseteq [dir : Directions, rev : BOOLEAN, proto : Nat]
    /\ \A c \in Calls : c.proto # 0 => c.dir = "both"      \* add_expected
    /\ DOMAIN DataId = 1 .. MaxData
    /\ None \notin Nat

VARIABLES
    node,   \* the ExpectNode of each key in the table
    lru,    \* the keys in the table, most recently used first
    pool,   \* the ExpectFlows' next and data fields, and free_list
    added,  \* FlowData made so far
    fate,   \* where each of them is
    fault   \* free_list was null when it was followed

vars == <<node, lru, pool, added, fate, fault>>

(* Mutant: allocates the pool before max is multiplied. *)
PoolSizeNodes == MaxNodes

PoolSize == MaxNodes * MaxList

Pool == 1 .. PoolSize

Data == 1 .. MaxData
Pointer == Pool \cup {None}

(* The list that starts at e, cut where it would not end. *)
Chain(P, e) ==
    LET walk[n \in 0 .. PoolSize + 1, x \in Pointer] ==
            IF n = 0 \/ x = None THEN <<>> ELSE <<x>> \o walk[n - 1, P.next[x]]
    IN  walk[PoolSize + 1, e]

Init ==
    /\ node = <<>> /\ lru = <<>>
    /\ pool = [next |-> [e \in Pool |-> IF e = 1 THEN None ELSE e - 1],
               data |-> [e \in Pool |-> <<>>], free |-> PoolSize]
    /\ added = 0 /\ fate = <<>> /\ fault = FALSE
-----------------------------------------------------------------------------
(* Mutant: puts the flows back with their data pointers. *)
ClearKeepsData(P, head) ==
    LET c == Chain(P, head)
    IN  [P EXCEPT !.next = [e \in Pool |-> IF e \notin Range(c) THEN P.next[e]
                                           ELSE IF e = head THEN P.free
                                           ELSE c[(CHOOSE i \in DOMAIN c : c[i] = e) - 1]],
                  !.free = IF c = <<>> THEN P.free ELSE Last(c)]

(* ExpectNode::clear: each flow of the list is emptied and put on the free  *)
(* list.                                                                    *)
Clear(P, head) ==
    LET c == Chain(P, head)
    IN  [next |-> [e \in Pool |-> IF e \notin Range(c) THEN P.next[e]
                                  ELSE IF e = head THEN P.free
                                  ELSE c[(CHOOSE i \in DOMAIN c : c[i] = e) - 1]],
         data |-> [e \in Pool |-> IF e \in Range(c) THEN <<>> ELSE P.data[e]],
         free |-> IF c = <<>> THEN P.free ELSE Last(c)]

(* The FlowData deleted with them. *)
DataOf(P, head) == UNION {Range(P.data[e]) : e \in Range(Chain(P, head))}

Oldest == Last(lru)
Expired(k) == node[k].left < 0
-----------------------------------------------------------------------------
(* ExpectCache::add_flow *)

(* The node whose list is cleared: an expired one of the key, or, if the    *)
(* key has none and all are in use, the least recently used one.            *)
Victim(k) ==
    IF k \in Range(lru) THEN (IF Expired(k) THEN node[k].head ELSE None)
    ELSE IF Len(lru) = MaxNodes THEN node[Oldest].head ELSE None

(* The keys in use after that and k's own touch. *)
Used(k) ==
    <<k>> \o (IF k \in Range(lru) THEN Remove(lru, k)
              ELSE IF Len(lru) = MaxNodes THEN Front(lru) ELSE lru)

IsNew(k) == k \notin Range(lru) \/ Expired(k)

(* The node itself: a new one starts empty; one that is there takes the     *)
(* protocol, unless both are known and differ.                              *)
NodeFor(k, call) ==
    IF IsNew(k)
    THEN [head |-> None, tail |-> None, count |-> 0, proto |-> call.proto,
          dir |-> call.dir, rev |-> call.rev, left |-> MaxWait]
    ELSE [node[k] EXCEPT !.proto = call.proto, !.left = MaxWait]

Mismatch(k, call) ==
    ~IsNew(k) /\ node[k].proto # call.proto /\ node[k].proto # 0 /\ call.proto # 0

Maxed(n) == n.count >= MaxList

(* The flow has data of fd's kind already. *)
HasId(P, e, fd) == \E d \in Range(P.data[e]) : DataId[d] = DataId[fd]

(* The data needs a flow of its own. *)
NeedsFlow(n) == n.tail # None => HasId(pool, n.tail, added + 1)

(* The caller gets -1 and keeps the data. *)
Return(k) ==
    /\ fate' = Append(fate, "returned")
    /\ lru' = Used(k)
    /\ UNCHANGED <<pool, fault>>

Refuse(k, call) ==
    /\ Mismatch(k, call)
    /\ Return(k)
    /\ UNCHANGED node

(* The list is full; the protocol has been changed all the same. *)
Overflow(k, call) ==
    LET n == NodeFor(k, call)
    IN  /\ ~Mismatch(k, call)
        /\ NeedsFlow(n) /\ Maxed(n)
        /\ Return(k)
        /\ node' = [node EXCEPT ![k].proto = call.proto]

(* The data joins that of the last flow in the list. *)
Join(k, call) ==
    LET n == NodeFor(k, call)
    IN  /\ ~Mismatch(k, call)
        /\ ~NeedsFlow(n)
        /\ node' = [node EXCEPT ![k] = n]
        /\ lru' = Used(k)
        /\ pool' = [pool EXCEPT !.data[n.tail] = Append(@, added + 1)]
        /\ fate' = Append(fate, "held")
        /\ UNCHANGED fault

(* Mutant: links the flow in front. *)
EnlistFront(P, n, e) ==
    [node |-> [n EXCEPT !.head = e, !.tail = IF @ = None THEN e ELSE @, !.count = @ + 1],
     pool |-> [P EXCEPT !.free = P.next[e], !.next[e] = n.head]]

(* The flow e, first on the free list, goes to the end of the node's list. *)
Enlist(P, n, e) ==
    [node |-> [n EXCEPT !.head = IF n.tail = None THEN e ELSE @, !.tail = e, !.count = @ + 1],
     pool |-> [P EXCEPT !.free = P.next[e],
                        !.next = [x \in Pool |-> IF x = e THEN None
                                                 ELSE IF x = n.tail THEN e ELSE @[x]]]]

(* The data gets a flow from the free list. *)
Extend(k, call) ==
    LET n == NodeFor(k, call)
        P == Clear(pool, Victim(k))
        gone == DataOf(pool, Victim(k))
    IN  /\ ~Mismatch(k, call)
        /\ NeedsFlow(n) /\ ~Maxed(n)
        /\ lru' = Used(k)
        /\ IF P.free = None
           THEN fault' = TRUE /\ UNCHANGED <<node, pool, fate>>
           ELSE LET new == Enlist(P, n, P.free) IN
                /\ node' = [j \in Range(lru') |-> IF j = k THEN new.node ELSE node[j]]
                /\ pool' = [new.pool EXCEPT !.data[P.free] = Append(@, added + 1)]
                /\ fate' = Append([d \in DOMAIN fate |->
                                      IF d \in gone THEN "deleted" ELSE fate[d]], "held")
                /\ UNCHANGED fault

AddFlow(k, call) ==
    /\ added < MaxData /\ ~fault
    /\ Refuse(k, call) \/ Overflow(k, call) \/ Join(k, call) \/ Extend(k, call)
    /\ added' = added + 1
-----------------------------------------------------------------------------
(* ExpectCache::check: find_node_by_packet and process_expected. *)

Touched(k) == <<k>> \o Remove(lru, k)

(* The first of the packet's keys that is in the table. *)
Hit(p) ==
    LET found == SelectSeq(Lookup[p], LAMBDA k : k \in Range(lru))
    IN  IF found = <<>> THEN None ELSE Head(found)

Wrong(p, n) == n.dir \in {"client", "server"} /\ n.rev # Reversed[p]

(* No session was expected. *)
CheckMiss(p) == Hit(p) = None /\ UNCHANGED vars

(* A node past its time is released when a packet finds it. *)
CheckExpired(p) ==
    /\ Hit(p) # None /\ (node[Hit(p)].head = None \/ Expired(Hit(p)))
    /\ LET gone == DataOf(pool, node[Hit(p)].head) IN
          fate' = [d \in DOMAIN fate |-> IF d \in gone THEN "deleted" ELSE fate[d]]
    /\ pool' = Clear(pool, node[Hit(p)].head)
    /\ lru' = Remove(lru, Hit(p))
    /\ node' = Restrict(node, Range(lru'))
    /\ UNCHANGED <<added, fault>>

(* A packet in the wrong direction. *)
CheckDirection(p) ==
    /\ Hit(p) # None /\ node[Hit(p)].head # None /\ ~Expired(Hit(p))
    /\ Wrong(p, node[Hit(p)])
    /\ lru' = Touched(Hit(p))
    /\ UNCHANGED <<node, pool, added, fate, fault>>

(* Mutant: does not put the flow back. *)
UnlinkLost(P, n) == [P EXCEPT !.data[n.head] = <<>>]

(* The first flow of the list, its data taken, goes to the free list. *)
Unlink(P, n) == [P EXCEPT !.data[n.head] = <<>>, !.next[n.head] = P.free, !.free = n.head]

(* The node is released with its last flow. *)
KeysLeft(k, n) == IF n.count = 1 THEN Remove(lru, k) ELSE Touched(k)

(* Without a protocol the session is ignored, if a direction was given. *)
Outcome(n) == IF n.proto = 0 /\ n.dir # "none" THEN "ignored" ELSE "realized"

(* The session gets the first flow's data. *)
Realize(p) ==
    LET k == Hit(p)
        n == node[k]
    IN  /\ k # None /\ n.head # None /\ ~Expired(k) /\ ~Wrong(p, n)
        /\ fate' = [d \in DOMAIN fate |->
                       IF d \in Range(pool.data[n.head]) THEN Outcome(n) ELSE fate[d]]
        /\ pool' = Unlink(pool, n)
        /\ lru' = KeysLeft(k, n)
        /\ node' = [j \in Range(lru') |->
                       IF j = k THEN [n EXCEPT !.head = pool.next[@], !.count = @ - 1]
                       ELSE node[j]]
        /\ UNCHANGED <<added, fault>>

(* Time passes. *)
Tick ==
    /\ \E k \in Range(lru) : node[k].left >= 0
    /\ node' = [k \in DOMAIN node |-> [node[k] EXCEPT !.left = IF @ < 0 THEN @ ELSE @ - 1]]
    /\ UNCHANGED <<lru, pool, added, fate, fault>>

Next ==
    \/ \E k \in Keys, call \in Calls : AddFlow(k, call)
    \/ \E p \in Packets : CheckMiss(p) \/ CheckExpired(p) \/ CheckDirection(p) \/ Realize(p)
    \/ Tick

Spec == Init /\ [][Next]_vars
-----------------------------------------------------------------------------
Lists == [k \in Range(lru) |-> Chain(pool, node[k].head)]
FreeList == Chain(pool, pool.free)

(* Every ExpectFlow of the pool is on the list of one node or on the free   *)
(* list, and once: none is lost or shared however lists are extended,       *)
(* popped, cleared, pruned and reused.  A node's tail and count are those   *)
(* of its list, which is not empty (process_expected asserts it).           *)
PoolWhole ==
    /\ \A e \in Pool :
          Cardinality({<<k, i>> \in Keys \X (1 .. PoolSize + 1) :
              k \in Range(lru) /\ i \in DOMAIN Lists[k] /\ Lists[k][i] = e})
          + Cardinality({i \in DOMAIN FreeList : FreeList[i] = e}) = 1
    /\ \A k \in Range(lru) :
          /\ Lists[k] # <<>>
          /\ node[k].count = Len(Lists[k]) /\ node[k].tail = Last(Lists[k])

(* The pool is "big enough to handle the worst case requirement": add_flow  *)
(* follows free_list without looking whether it is null.                    *)
NeverDry == ~fault

(* A FlowData the cache took is held by one flow of one node's list until   *)
(* it is given to one session or deleted, and by no flow afterwards; one it *)
(* returned it does not hold.  A flow has one of a kind, so that a session  *)
(* that gets them all loses none to another.                                *)
DataOnce ==
    /\ \A d \in 1 .. added :
          Cardinality({<<e, i>> \in Pool \X Data :
              i \in DOMAIN pool.data[e] /\ pool.data[e][i] = d})
          = (IF fate[d] = "held" THEN 1 ELSE 0)
    /\ \A e \in Pool : \A i, j \in DOMAIN pool.data[e] :
          i # j => DataId[pool.data[e][i]] # DataId[pool.data[e][j]]

KeyOf(d) == CHOOSE k \in Range(lru) : d \in DataOf(pool, node[k].head)

(* Sessions get the data of a key and kind in the order it was added. *)
InOrder == [][
    \A c, d \in 1 .. added :
        (fate[d] = "held" /\ fate'[d] \in {"realized", "ignored"} /\ fate[c] = "held" /\ fate'[c] = "held"
            /\ DataId[c] = DataId[d] /\ KeyOf(c) = KeyOf(d)) => d < c]_vars

(* "Each session can be assigned only one snort protocol ID. When new       *)
(* snort_protocol_id mismatches existing snort_protocol_id, new             *)
(* snort_protocol_id and associated data is not stored."                    *)
ProtocolKept == [][
    \A k \in Range(lru) :
        ~Expired(k) /\ node[k].proto # 0 /\ k \in Range(lru') => node'[k].proto = node[k].proto]_vars
=============================================================================
