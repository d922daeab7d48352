--------------------------- MODULE TransportLink ---------------------------
(***************************************************************************)
(* What a caller of a Transport can observe: the state open() leaves it in *)
(* and the states it reaches by itself while it is wanted open.  The kinds *)
(* of link group the eight transports by what can happen to them:          *)
(*   local    standard output: opening never fails                         *)
(*   listener TCP and WebSocket server, UDP, file and log: only open fails *)
(*   device   serial port: open may fail and the device may go away        *)
(*   client   TCP client: connects, drops and retries in the background    *)
(***************************************************************************)

States == {"Closed", "Opening", "Open", "Failed"}
Kinds == {"local", "listener", "device", "client"}

(* The state after open(), called when the transport is not open.          *)
OpenOutcomes(kind) ==
    CASE kind = "local" -> {"Open"}
      [] kind \in {"listener", "device"} -> {"Open", "Failed"}
      [] kind = "client" -> {"Opening"}

(* The states an event of the socket or the device moves the transport to. *)
EventOutcomes(kind, state) ==
    {next \in States :
        \/ kind = "device" /\ state = "Open" /\ next = "Failed"
        \/ /\ kind = "client"
           /\ \/ state \in {"Opening", "Failed"} /\ next \in {"Open", "Failed"}
              \/ state = "Open" /\ next = "Opening"}
=============================================================================
