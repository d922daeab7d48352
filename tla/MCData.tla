----------------------------- MODULE MCData -----------------------------
(***************************************************************************)
(* The parts of the program that turn one kind of data into another: the   *)
(* sources that make up their own states, a receiver of the sentences, and *)
(* the reader of a log.  They share no state; each behaviour runs the one  *)
(* it chose at first, and the others keep their first state.               *)
(***************************************************************************)
EXTENDS TrackSource, DeltaSource, Link, LogFile

CONSTANTS Mode    \* the parts that run: "track", "delta", "link", "log"

VARIABLE mode

ASSUME DataAssumption == TrackAssumption /\ DeltaAssumption

(* Tracks: no point, one point, a plain leg, a stop with a change of       *)
(* course, a point passed twice at one time, and points that share a       *)
(* place.  Times are in half milliseconds.                                 *)
Point(place, time, speed, course, elevation) ==
    [place |-> place, time |-> time, speed |-> speed, course |-> course,
     elevation |-> elevation]
PlainPoint(place, time) == Point(place, time, None, None, None)

MCPoints ==
    {<<>>,
     <<Point(3, 0, None, 2, None)>>,
     <<PlainPoint(0, 0), PlainPoint(4, 3)>>,
     <<Point(0, 0, 1, None, 0), Point(4, 3, None, None, 2), PlainPoint(4, 7),
       PlainPoint(2, 7), Point(4, 9, 2, 0, 5)>>,
     <<Point(1, 0, 0, None, None), PlainPoint(1, 5)>>,
     <<PlainPoint(0, 4), PlainPoint(2, 2), PlainPoint(4, None)>>}

MCTracks ==
    {[points |-> points, use_timestamps |-> timed, speed |-> 2, end |-> end,
      destination |-> None] :
        points \in MCPoints, timed \in BOOLEAN, end \in {"Stop", "Loop"}}

MCSeeks == {-1, 1, 2, 4, 9}

(* Two configurations: a heading across north and the speed wander, or the *)
(* wind direction and the depth do; a speed near zero.                     *)
Still == [amplitude |-> 0, step |-> 0]
Wander == [amplitude |-> 1, step |-> 1]

MCConfig(heading, speed, moving) ==
    [values |-> [p \in Parameter |->
        CASE p = "HeadingTrue" -> heading
          [] p \in {"SpeedOverGround", "SpeedThroughWater", "Depth"} -> speed
          [] p = "RudderAngle" -> 1
          [] OTHER -> 0],
     variation |-> [p \in Drifting |-> IF p \in moving THEN Wander ELSE Still],
     gain |-> 1, max_rudder |-> 2, destination |-> 0, engines |-> <<>>]

MCConfigs ==
    {MCConfig(0, 0, {"HeadingTrue", "SpeedOverGround"}),
     MCConfig(7, 2, {"WindDirectionTrue", "Depth"})}

MCValues == {-2, 4}
MCNudges == {-1}

-----------------------------------------------------------------------------
(* Vessel states for the link.                                             *)
Codes(n) == [i \in 1 .. n |-> 64 + i]

Afloat ==
    [time |-> 0,
     gnss |-> [has_fix |-> TRUE, quality |-> "Gps", in_use |-> 5, in_view |-> 9,
               hdop |-> 1, pdop |-> 2, vdop |-> 3, geoid |-> -4],
     nav |-> [place |-> <<38, -23>>, altitude |-> 6, course |-> 1, speed |-> 7,
              heading |-> 0, variation |-> 1, deviation |-> -1,
              water_speed |-> 5, rate_of_turn |-> -9],
     env |-> [rudder |-> -3, depth |-> 12, offset |-> -2, temperature |-> 18,
              wind_direction |-> 6, wind_speed |-> 15,
              apparent_angle |-> 5, apparent_speed |-> 11],
     engines |-> <<[label |-> "Port engine", running |-> TRUE, rpm |-> 3, coolant |-> 80],
                   [label |-> "Engine", running |-> FALSE, rpm |-> 3, coolant |-> 20]>>,
     destination |-> [name |-> "* *", place |-> <<40, -23>>, origin |-> <<36, -23>>,
                      radius |-> 1],
     ais |-> [mmsi |-> 239000001, imo |-> 9, name |-> Codes(21), call_sign |-> Codes(3),
              ship_type |-> 37, dimensions |-> <<600, 4, 3, 90>>, draught |-> 2,
              destination |-> Codes(5), status |-> 0, report |-> 4]]

(* Differential, no engines, no destination; fix lost; south and west of   *)
(* another variation.                                                      *)
Differential ==
    [Afloat EXCEPT !.gnss.quality = "Differential", !.gnss.in_use = 14,
                   !.nav.heading = 7, !.nav.course = 7, !.env.offset = 1,
                   !.engines = <<>>, !.destination = None]
Lost == [Afloat EXCEPT !.gnss.has_fix = FALSE, !.nav.heading = 4, !.nav.variation = -2]
Moved == [Afloat EXCEPT !.nav.place = <<-41, -23>>, !.nav.variation = -2,
                        !.nav.deviation = 1, !.destination.name = "HOME"]

MCSnapshots == {Afloat, Differential, Lost, Moved}

(* What a receiver may hold: nothing of the kind, and another vessel, with *)
(* an engine, a destination of the same name and a fix lost.               *)
MCStrangers ==
    {[Lost EXCEPT !.time = 2 * Day + 77, !.engines = <<>>, !.destination = None],
     [Moved EXCEPT !.time = 10, !.gnss.in_use = 0,
                   !.engines = <<[label |-> "Engine", running |-> TRUE, rpm |-> 9,
                                  coolant |-> 1]>>]}

Default == {Registry[i] : i \in DOMAIN Registry} \ OffByDefault
MCEnabledSets == {Default, {"GGA", "ZDA"}, {"RMC", "GLL", "MWV-T", "VDM-POS", "VDM-STATIC"}}

MCTyped ==
    LET typed(blank, delimiter, suffix, address, reserved, width) ==
            [blank |-> blank, delimiter |-> delimiter, suffix |-> suffix,
             address |-> address, reserved |-> reserved, width |-> width]
    IN  <<typed(TRUE, "", "none", 0, FALSE, 0), typed(FALSE, "$", "checksum", 4, FALSE, 20),
          typed(FALSE, "", "other", 4, FALSE, 20), typed(FALSE, "!", "none", 5, FALSE, 76),
          typed(FALSE, "", "none", 2, FALSE, 9), typed(FALSE, "", "none", 5, TRUE, 9),
          typed(FALSE, "", "none", 5, FALSE, 77)>>

MCReduced == ("Port engine" :> "port") @@ ("Engine" :> "") @@ ("Engine 1" :> "1")
MCBareWidth == ("RMC" :> 68) @@ ("GGA" :> 66) @@ ("GLL" :> 44) @@ ("RMB" :> 78)

(* Nothing, what has a date, half of the rest, everything with a time.      *)
MCLosses ==
    {{}, {"RMC", "ZDA"}, {"HDG", "VHW", "GSA", "GSV", "RPM", "VTG", "MWD", "RMC"},
     DOMAIN TimeField}

(* Some hours, a bit less than half a day, and a bit more.                 *)
MCSteps == {30000004, Day \div 2 - 10, Day \div 2 + 20}

-----------------------------------------------------------------------------
(* Out of order by less than a second, and almost half a day later.        *)
MCIntervals == {-1, 100}
MCLogSteps == {0, 400, -300, Day \div 2 - 1000}

-----------------------------------------------------------------------------
(* A part that does not run has one initial state.                         *)
Init ==
    /\ mode \in Mode
    /\ TrackInit /\ (mode # "track" => track = CHOOSE c \in Tracks : TRUE)
    /\ DeltaInit /\ (mode # "delta" => config = CHOOSE c \in DeltaConfigs : TRUE)
    /\ LogInit
    /\ LinkInit
    /\ mode # "link" => /\ enabled = CHOOSE e \in EnabledSets : TRUE
                        /\ sender = CHOOSE s \in Snapshots : TRUE
                        /\ receiver = CHOOSE s \in Strangers : TRUE

Next ==
    \/ mode = "track" /\ TrackNext /\ UNCHANGED <<mode, deltaVars, linkVars, logVars>>
    \/ mode = "delta" /\ DeltaNext /\ UNCHANGED <<mode, trackVars, linkVars, logVars>>
    \/ mode = "link" /\ LinkNext /\ UNCHANGED <<mode, trackVars, deltaVars, logVars>>
    \/ mode = "log" /\ LogNext /\ UNCHANGED <<mode, trackVars, deltaVars, linkVars>>

vars == <<mode, trackVars, deltaVars, linkVars, logVars>>

Spec == Init /\ [][Next]_vars

(* The tick advances the source that runs.                                 *)
FairSpec == Spec /\ (mode = "delta" => DeltaFairness)
=============================================================================
