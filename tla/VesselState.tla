---------------------------- MODULE VesselState ----------------------------
(***************************************************************************)
(* The snapshot of the vessel that sources write, encoders read and the    *)
(* decoder rebuilds (model::VesselState), in whole units of each quantity. *)
(* Angles count circle units, time counts milliseconds, a place is its     *)
(* latitude and longitude, and an optional that is not set is None.        *)
(***************************************************************************)
EXTENDS Physics, Sequences

Day == 86400000

(* The magnetic variation and deviation are positive east.                 *)
Gnss == [has_fix : BOOLEAN, quality : {"Invalid", "Gps", "Differential"},
         in_use : Nat, in_view : Nat,
         hdop : Nat, pdop : Nat, vdop : Nat, geoid : Int]

Navigation == [place : Int \X Int, altitude : Int, course : Angles, speed : Nat,
               heading : Angles, variation : Int, deviation : Int,
               water_speed : Nat, rate_of_turn : Int]

WaterAndWind == [rudder : Int, depth : Nat, offset : Int, temperature : Int,
                 wind_direction : Angles, wind_speed : Nat,
                 apparent_angle : Angles, apparent_speed : Nat]

Engine == [label : STRING, running : BOOLEAN, rpm : Nat, coolant : Int]

Destination == [name : STRING, place : Int \X Int, origin : Int \X Int, radius : Nat]

(* The dimensions are to bow, stern, port and starboard; the texts are     *)
(* sequences of character codes.                                           *)
AisStatic == [mmsi : Nat, imo : Nat, name : Seq(Nat), call_sign : Seq(Nat),
              ship_type : Int, dimensions : Seq(Int), draught : Int,
              destination : Seq(Nat), status : Int, report : Int]

State == [time : Int, gnss : Gnss, nav : Navigation, env : WaterAndWind,
          engines : Seq(Engine), destination : Destination \cup {None},
          ais : AisStatic]

(* Derived quantities: true = magnetic + variation, magnetic = compass +   *)
(* deviation.                                                              *)
Magnetic(s, bearing) == NormalizeBearing(bearing - s.nav.variation)
HeadingMagnetic(s) == Magnetic(s, s.nav.heading)
HeadingCompass(s) == NormalizeBearing(s.nav.heading - s.nav.variation - s.nav.deviation)
CourseMagnetic(s) == Magnetic(s, s.nav.course)
WindAngle(s) == NormalizeBearing(s.env.wind_direction - s.nav.heading)

(* Revolutions as they are sent: none for an engine that is stopped.       *)
Revolutions(engine) == IF engine.running THEN engine.rpm ELSE 0

(* solve_leg, for legs along a meridian and a vessel next to it: the       *)
(* progress along the leg, and how far to the right of it the vessel is.   *)
SolveLeg(origin, destination, vessel) ==
    LET bearing == Bearing(origin[1], destination[1])
        side == IF bearing = North THEN 1 ELSE -1
    IN  [leg_bearing |-> bearing,
         length |-> Distance(origin[1], destination[1]),
         bearing |-> Bearing(vessel[1], destination[1]),
         distance |-> Distance(vessel[1], destination[1])
                        + Distance(vessel[2], destination[2]),
         cross |-> side * (vessel[2] - origin[2]),
         along |-> side * (vessel[1] - origin[1])]

TimeOfDay(t) == t % Day
DateOf(t) == t \div Day
SecondsOf(t) == t \div 1000
=============================================================================
