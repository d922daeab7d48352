----------------------------- MODULE Transport -----------------------------
(***************************************************************************)
(* The promise every transport makes to the runner that owns it: open()    *)
(* and close() may be called at any time, nothing happens to a closed      *)
(* transport until it is opened, and while it is wanted open only the      *)
(* state changes of its kind of link happen.                               *)
(***************************************************************************)
EXTENDS TransportLink

CONSTANT kind

(* What the constant must satisfy, whatever instantiates this module.     *)
KindAssumption == kind \in Kinds

VARIABLE state    \* state_

Init == state = "Closed"

(* open(): an open transport stays open.                                   *)
Open == state' \in IF state = "Open" THEN {"Open"} ELSE OpenOutcomes(kind)

Close == state' = "Closed"

Event == state' \in EventOutcomes(kind, state)

Next == Open \/ Close \/ Event

Spec == Init /\ [][Next]_state
=============================================================================
