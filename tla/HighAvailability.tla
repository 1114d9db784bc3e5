-------------------------- MODULE HighAvailability --------------------------
(***************************************************************************)
(* Two Snorts that keep each other's flow tables up to date: what HA       *)
(* remembers of a flow, and the messages it sends and consumes             *)
(* (flow/ha.cc, stream/base/stream_ha.cc, the *_ha.cc of the protocols),   *)
(* over a side channel (side_channel/side_channel.cc) and a TCP connector  *)
(* with its receive thread (connectors/tcp_connector/tcp_connector.cc).    *)
(*                                                                         *)
(* The way from "a" to "b" is modelled step by step: the connection, the   *)
(* receive thread of b's connector, which puts into the Ring, and b's      *)
(* packet thread, which gets.  The way back is what Ring promises: a       *)
(* queue in order that loses a message only when Size - 2 are waiting.     *)
(*                                                                         *)
(* What a packet does to its session, whether min_age or min_sync is over, *)
(* and when a flow is idle or pruned are left to chance.  The DAQ channel  *)
(* is off, and no client but the session's takes part.                     *)
(***************************************************************************)
EXTENDS Ring, Sequences, FiniteSets

CONSTANTS
    Keys,
    TypeOf,     \* "tcp" or "other": the PktType of each key
    MaxEvents,  \* bound on packets and releases
    None

Nodes == {"a", "b"}

Flags == {"NEW", "MODIFIED", "DELETED", "STANDBY", "NEW_SESSION", "MAJOR", "CRITICAL"}

ASSUME HighAvailabilityAssumption ==
    /\ TypeOf \in [Keys -> {"tcp", "other"}]
    /\ MaxEvents \in Nat
    /\ \A f \in SUBSET Flags : f # None

VARIABLES
    flow,       \* the FlowHAState::state of each flow in each table
    free,       \* the types of the released Flow objects, last first
    shut,       \* a's packet thread has ended
    wire,       \* sent by a, not yet read by b's receive thread
    arrived,    \* read by it, not yet handled by b's packet thread
    back,       \* sent by b, not yet handled by a
    lost,       \* history: a message was lost
    told,       \* history: an update was sent since the flow is the node's own
    cut,        \* history: released by the node since the last update for it
    events      \* packets and releases so far

tables == <<flow, free, told, cut>>
havars == <<vars, tables, shut, wire, arrived, back, lost, events>>

HaInit ==
    /\ RingInit
    /\ flow = [n \in Nodes |-> [k \in Keys |-> None]]
    /\ free = [n \in Nodes |-> <<>>]
    /\ shut = FALSE
    /\ wire = <<>> /\ arrived = <<>> /\ back = <<>> /\ lost = FALSE
    /\ told = [n \in Nodes |-> [k \in Keys |-> FALSE]]
    /\ cut = [n \in Nodes |-> [k \in Keys |-> FALSE]]
    /\ events = 0
-----------------------------------------------------------------------------
(* Sending and the life of a Flow object. *)

(* The messages s without the i-th, as in SequencesExt, whose other        *)
(* definitions only burden the proofs.                                     *)
RemoveAt(s, i) == SubSeq(s, 1, i - 1) \o SubSeq(s, i + 1, Len(s))

(* SideChannel::transmit_message and TcpConnector::transmit_message of     *)
(* messages about k; what b sends to a closed connection is gone.          *)
Transmit(n, k, evs) ==
    LET msgs == [i \in DOMAIN evs |-> [event |-> evs[i], key |-> k]]
    IN  IF n = "a" THEN wire' = wire \o msgs
        ELSE back' = IF shut THEN back ELSE back \o msgs

(* What n receives stays as it is. *)
NothingReceived(n) == IF n = "a" THEN UNCHANGED back ELSE UNCHANGED wire

(* FlowCache::find, or else allocate: the state of a new FlowHAState, or   *)
(* of the one that FlowHAState::reset left in a recycled Flow of the type. *)
Found(n, k) ==
    IF flow[n][k] # None THEN flow[n][k]
    ELSE IF free[n] # <<>> /\ Head(free[n]) = TypeOf[k] THEN {}
    ELSE {"NEW", "NEW_SESSION"}

FreeAfterFind(n, k) ==
    IF flow[n][k] = None /\ free[n] # <<>> THEN Tail(free[n]) ELSE free[n]

(* A flow that is not in standby. *)
Own(n, k) == flow[n][k] # None /\ "STANDBY" \notin flow[n][k]

(* HighAvailability::process_deletion sends a message. *)
Deletes(f) == f \cap {"NEW", "DELETED", "STANDBY"} = {}

Deletion(f) == IF Deletes(f) THEN <<"DELETE">> ELSE <<>>

AfterDeletion(f) == IF Deletes(f) THEN f \cup {"DELETED"} ELSE f

(* What Flow::reset sends: Session::cleanup calls clear, which calls       *)
(* process_deletion; TcpStreamSession::cleanup does not.                   *)
Parting(k, f, clean) == IF TypeOf[k] = "tcp" /\ clean THEN <<>> ELSE Deletion(f)
-----------------------------------------------------------------------------
(* StreamHAClient::is_update_required. *)

(* What the difference between previous_ssn_state and ssn_state adds. *)
Changes(k) ==
    {{}, {"MODIFIED"}, {"MODIFIED", "CRITICAL"}}
        \cup IF TypeOf[k] = "tcp"
             THEN {{"MODIFIED", "MAJOR"}, {"MODIFIED", "MAJOR", "CRITICAL"}} ELSE {}

(* update_flags *)
UpdateFlags(k, f, change) ==
    LET g == IF "NEW_SESSION" \in f
             THEN (f \ {"NEW_SESSION"}) \cup {"MODIFIED"}
                     \cup (IF TypeOf[k] = "tcp" THEN {} ELSE {"MAJOR"})
             ELSE f \cup change
    IN  IF "STANDBY" \in g THEN (g \ {"STANDBY"}) \cup {"MODIFIED", "MAJOR"} ELSE g

UpdateRequired(f, elapsed) ==
    /\ "MODIFIED" \in f
    /\ f \cap {"MAJOR", "CRITICAL"} # {}
    /\ elapsed \/ "CRITICAL" \in f
-----------------------------------------------------------------------------
(* The packet threads. *)

Running(n) == IF n = "a" THEN ~shut ELSE rtodo = {}

(* A packet whose session is kept.  Before process_update the session may  *)
(* have ended in place (expired, closed by TCP, block pending): del.       *)
Packet(n, k) ==
    /\ Running(n) /\ events < MaxEvents
    /\ \E del, elapsed \in BOOLEAN, change \in Changes(k) :
           LET f == Found(n, k)
               g == UpdateFlags(k, IF del THEN AfterDeletion(f) ELSE f, change)
               update == UpdateRequired(g, elapsed)
               dels == IF del THEN Deletion(f) ELSE <<>>
           IN  /\ flow' = [flow EXCEPT ![n][k] =
                              IF update THEN g \ {"NEW", "MODIFIED", "MAJOR", "CRITICAL"} ELSE g]
               /\ Transmit(n, k, dels \o (IF update THEN <<"UPDATE">> ELSE <<>>))
               /\ told' = [told EXCEPT ![n][k] =
                              update \/ (@ /\ dels = <<>> /\ "STANDBY" \notin f)]
    /\ free' = [free EXCEPT ![n] = FreeAfterFind(n, k)]
    /\ NothingReceived(n)
    /\ events' = events + 1
    /\ UNCHANGED <<vars, cut, shut, arrived, lost>>

(* FlowCache::release of k's flow in state f, after evs were sent. *)
ReleaseFlow(n, k, f, evs, clean) ==
    /\ flow' = [flow EXCEPT ![n][k] = None]
    /\ free' = [free EXCEPT ![n] = <<TypeOf[k]>> \o FreeAfterFind(n, k)]
    /\ told' = [told EXCEPT ![n][k] = FALSE]
    /\ Transmit(n, k, evs \o Parting(k, f, clean))

(* A packet that closes its session: check_flow_closed releases the flow,  *)
(* so process_update has none.                                             *)
ClosingPacket(n, k) ==
    /\ Running(n) /\ events < MaxEvents
    /\ \E del \in BOOLEAN :
           LET f == Found(n, k)
           IN  ReleaseFlow(n, k, IF del THEN AfterDeletion(f) ELSE f,
                           IF del THEN Deletion(f) ELSE <<>>, TRUE)
    /\ cut' = [cut EXCEPT ![n][k] = TRUE]
    /\ NothingReceived(n)
    /\ events' = events + 1
    /\ UNCHANGED <<vars, shut, arrived, lost>>

(* FlowCache::timeout, which passes over flows in standby, prune_stale,    *)
(* prune_unis, prune_excess, prune_one and stale_flow_cleanup, which do    *)
(* not.  Only the pruning at the memory cap does not clean up.             *)
Release(n, k) ==
    /\ Running(n) /\ events < MaxEvents
    /\ flow[n][k] # None
    /\ \E clean \in BOOLEAN : ReleaseFlow(n, k, flow[n][k], <<>>, clean)
    /\ cut' = [cut EXCEPT ![n][k] = TRUE]
    /\ NothingReceived(n)
    /\ events' = events + 1
    /\ UNCHANGED <<vars, shut, arrived, lost>>

(* Mutant: a flow that exists is not put into standby. *)
ConsumeUpdateActive(n, k) ==
    /\ flow' = [flow EXCEPT ![n][k] =
                   IF @ = None THEN (Found(n, k) \ {"NEW"}) \cup {"STANDBY"} ELSE @]
    /\ free' = [free EXCEPT ![n] = FreeAfterFind(n, k)]
    /\ cut' = [cut EXCEPT ![n][k] = FALSE]
    /\ Transmit(n, k, <<>>)
    /\ UNCHANGED told

(* Mutant: no flow is created for an update. *)
ConsumeUpdateKnown(n, k) ==
    /\ flow' = [flow EXCEPT ![n][k] = IF @ = None THEN None ELSE @ \cup {"STANDBY"}]
    /\ cut' = [cut EXCEPT ![n][k] = FALSE]
    /\ Transmit(n, k, <<>>)
    /\ UNCHANGED <<told, free>>

(* consume_ha_update_message and StreamHAClient::consume *)
ConsumeUpdate(n, k) ==
    /\ flow' = [flow EXCEPT ![n][k] =
                   (IF @ = None THEN Found(n, k) \ {"NEW"} ELSE @) \cup {"STANDBY"}]
    /\ free' = [free EXCEPT ![n] = FreeAfterFind(n, k)]
    /\ cut' = [cut EXCEPT ![n][k] = FALSE]
    /\ Transmit(n, k, <<>>)
    /\ UNCHANGED told

(* consume_ha_delete_message and FlowControl::release_flow *)
ConsumeDelete(n, k) ==
    IF flow[n][k] = None
    THEN Transmit(n, k, <<>>) /\ UNCHANGED tables
    ELSE ReleaseFlow(n, k, flow[n][k], <<>>, TRUE) /\ UNCHANGED cut

(* consume_ha_message *)
Consume(n, m) ==
    CASE m.event = "UPDATE" -> ConsumeUpdate(n, m.key)
      [] m.event = "DELETE" -> ConsumeDelete(n, m.key)

(* Mutant: shutting_down is not set before the flows are purged. *)
ShutDownDeletes ==
    /\ ~shut /\ shut' = TRUE
    /\ flow' = [flow EXCEPT !["a"] = [k \in Keys |-> None]]
    /\ free' = [free EXCEPT !["a"] = <<>>]
    /\ told' = [told EXCEPT !["a"] = [k \in Keys |-> Own("a", k) /\ @[k]]]
    /\ LET D == {k \in Keys : Own("a", k) /\ Deletes(flow["a"][k])}
       IN  \E q \in [1 .. Cardinality(D) -> D] :
               /\ \A k \in D : \E i \in DOMAIN q : q[i] = k
               /\ wire' = wire \o [i \in DOMAIN q |-> [event |-> "DELETE", key |-> q[i]]]
    /\ back' = <<>>
    /\ UNCHANGED <<vars, arrived, lost, cut, events>>

(* Analyzer::term: shutting_down is set before purge_flows, and the        *)
(* connector is destroyed.  What told remembers is what a was then.        *)
ShutDown ==
    /\ ~shut /\ shut' = TRUE
    /\ flow' = [flow EXCEPT !["a"] = [k \in Keys |-> None]]
    /\ free' = [free EXCEPT !["a"] = <<>>]
    /\ told' = [told EXCEPT !["a"] = [k \in Keys |-> Own("a", k) /\ @[k]]]
    /\ back' = <<>>
    /\ UNCHANGED <<vars, wire, arrived, lost, cut, events>>
-----------------------------------------------------------------------------
(* The connectors. *)

(* TcpConnector::process_receive: a message read from the connection and   *)
(* not taken by the ring is deleted.                                       *)
ReceiveThread ==
    /\ \/ /\ wire # <<>> /\ PutBegin
          /\ wire' = Tail(wire)
          /\ arrived' = IF drops' THEN arrived ELSE Append(arrived, Head(wire))
          /\ lost' = (lost \/ drops')
       \/ (PutSlot \/ PutIndex) /\ UNCHANGED <<wire, arrived, lost>>
    /\ UNCHANGED <<tables, shut, back, events>>

(* The connection is reset after a closed it. *)
Reset ==
    /\ shut /\ wire # <<>>
    /\ wire' = <<>> /\ lost' = TRUE
    /\ UNCHANGED <<vars, tables, shut, arrived, back, events>>

(* SideChannel::process of b: receive_message, then the handler.  The      *)
(* number got tells which of the messages that arrived the ring returned.  *)
ProcessReceive ==
    /\ GetBegin \/ GetSlot \/ GetIndex
    /\ IF rtodo # {} /\ rtodo' = {}
       THEN /\ Consume("b", arrived[got' - gets' + 1])
            /\ arrived' = RemoveAt(arrived, got' - gets' + 1)
       ELSE UNCHANGED <<tables, arrived, back>>
    /\ UNCHANGED <<shut, wire, lost, events>>

(* Mutant: leaves the last message in the ring until another arrives. *)
ProcessBackLeavesLast ==
    /\ ~shut /\ Len(back) > 1
    /\ Consume("a", Head(back))
    /\ back' = Tail(back)
    /\ UNCHANGED <<vars, shut, arrived, lost, events>>

(* The same of a. *)
ProcessBack ==
    /\ ~shut /\ back # <<>>
    /\ Consume("a", Head(back))
    /\ back' = Tail(back)
    /\ UNCHANGED <<vars, shut, arrived, lost, events>>

(* a's ring is full. *)
Overrun ==
    /\ Len(back) > Size - 2
    /\ back' = RemoveAt(back, Size - 1) /\ lost' = TRUE
    /\ UNCHANGED <<vars, tables, shut, wire, arrived, events>>

HaNext ==
    \/ \E n \in Nodes, k \in Keys : Packet(n, k) \/ ClosingPacket(n, k) \/ Release(n, k)
    \/ ShutDown
    \/ ReceiveThread \/ Reset \/ Overrun
    \/ ProcessReceive \/ ProcessBack

HaSpec == HaInit /\ [][HaNext]_havars

(* The receive thread is never blocked but for input, and each packet      *)
(* thread calls process_receive after every packet and when it is idle.    *)
HaFairSpec ==
    /\ HaSpec
    /\ WF_havars(ReceiveThread) /\ WF_havars(ProcessReceive) /\ WF_havars(ProcessBack)
-----------------------------------------------------------------------------
(* Properties *)

Settled == wire = <<>> /\ arrived = <<>> /\ back = <<>>

(* Once every message was handled and none was lost, a flow that both      *)
(* partners have updates sent for is in standby with at least one of them, *)
(* however their updates crossed.                                          *)
OneOwner ==
    Settled /\ ~lost /\ ~shut =>
        \A k \in Keys : \E n \in Nodes : ~(Own(n, k) /\ told[n][k])

(* Once every message was handled and none was lost, the partner of a node *)
(* that has sent an update for its flow has the flow too, unless it        *)
(* removed the flow by itself.                                             *)
Backup ==
    Settled /\ ~lost /\ ~shut =>
        \A k \in Keys, n \in Nodes : \A m \in Nodes \ {n} :
            Own(n, k) /\ told[n][k] => flow[m][k] # None \/ cut[m][k]

(* When a has shut down, and every message it had sent arrived, b has all  *)
(* the flows a had sent an update for, unless it removed them by itself:   *)
(* the purge of a's flows does not take b's with them.                     *)
Failover ==
    Settled /\ ~lost /\ shut =>
        \A k \in Keys : told["a"][k] => flow["b"][k] # None \/ cut["b"][k]

(* The partners do not answer each other for ever: without packets and     *)
(* releases, no message is under way in the end.                           *)
Settles == <>[]Settled
=============================================================================
