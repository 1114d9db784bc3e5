----------------------------- MODULE Lifecycle -----------------------------
(***************************************************************************)
(* What main/dev_notes.txt promises of an Analyzer, as a state machine:    *)
(* the order of its states, and that privileges are dropped before packet  *)
(* processing starts.  MainLoop is shown to implement this specification.  *)
(* "NONE" is a pig without an analyzer.                                    *)
(***************************************************************************)
CONSTANTS Pigs, ChangePrivileges

VARIABLES life, dropped

lifevars == <<life, dropped>>

Init ==
    /\ life = [p \in Pigs |-> "NONE"]
    /\ dropped = FALSE

Move(p, from, to) ==
    /\ life[p] \in from
    /\ life' = [life EXCEPT ![p] = to]
    /\ UNCHANGED dropped

Drop == ~dropped /\ dropped' = TRUE /\ UNCHANGED life

Next ==
    \/ Drop
    \/ \E p \in Pigs :
          \/ Move(p, {"NONE"}, "NEW")
          \/ Move(p, {"NEW"}, "INITIALIZED")
          \/ Move(p, {"INITIALIZED"}, "STARTED")
          \/ /\ ChangePrivileges => dropped
             /\ \E to \in {"RUNNING", "PAUSED"} : Move(p, {"STARTED"}, to)
          \/ Move(p, {"RUNNING"}, "PAUSED")
          \/ Move(p, {"PAUSED"}, "RUNNING")
          \/ Move(p, {"INITIALIZED", "STARTED", "RUNNING", "PAUSED"}, "STOPPED")
          \/ Move(p, {"STOPPED"}, "NONE")

Spec == Init /\ [][Next]_lifevars
=============================================================================
