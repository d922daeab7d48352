------------------------- MODULE MCSimulationRunner -------------------------
(* Small instances of the runner for TLC.                                  *)
EXTENDS SimulationRunner

CONSTANTS wifi, usb, data, rec1, rec2

Delta(outs) == [mode |-> "delta", loop |-> FALSE, duration |-> 0, outputs |-> outs]
Track(d, loops, outs) ==
    [mode |-> "track", loop |-> loops, duration |-> d, outputs |-> outs]
Replay(d, loops, outs) ==
    [mode |-> "replay", loop |-> loops, duration |-> d, outputs |-> outs]

(* Pace: no outputs; the clock, the positions and the recording.           *)
NoChannels == {}
PaceKind == [c \in {} |-> "local"]
PaceCarries == [c \in {} |-> "state"]
PacePeriod == [c \in {} |-> 1]
PaceProfiles == {Delta({}), Track(3, TRUE, {}), Replay(2, FALSE, {})}

(* Outputs: a client that connects and drops and carries state messages, a *)
(* device that may be unplugged, and a socket that opens or fails; sources *)
(* with no end, with an end and with nothing to play.                      *)
OutputsKind == [c \in {wifi, usb, data} |->
                  IF c = wifi THEN "client" ELSE IF c = usb THEN "device" ELSE "listener"]
OutputsCarries == [c \in {wifi, usb, data} |->
                     IF c = usb THEN "sentences" ELSE "state"]
OutputsPeriod == [c \in {wifi, usb, data} |-> IF c = wifi THEN 2 ELSE 3]
OutputsProfiles ==
    {Delta({wifi, usb}), Track(2, FALSE, {wifi, data}), Replay(2, FALSE, {}), Replay(0, FALSE, {})}
=============================================================================
