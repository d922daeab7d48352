------------------------------ MODULE Physics ------------------------------
(***************************************************************************)
(* Angles, places and wind, as far as the sources and encoders tell them   *)
(* apart.  Angles are whole units of a circle of Circle units.  Places lie *)
(* on one meridian, counted in metres to the north, so that distance and   *)
(* bearing keep what the code relies on: a leg of no length has no bearing *)
(* of its own, and a vessel that runs a leg's length along its bearing is  *)
(* at the leg's end.                                                       *)
(***************************************************************************)
EXTENDS Integers

CONSTANTS
    Circle,    \* units of the full circle; 8 makes a quarter turn of two
    None       \* a quantity that is not there

PhysicsAssumption == Circle \in Nat /\ Circle > 0 /\ Circle % 4 = 0

Angles == 0 .. Circle - 1
North == 0
South == Circle \div 2

Lower(a, b) == IF a < b THEN a ELSE b
Higher(a, b) == IF a < b THEN b ELSE a
Clamped(x, low, high) == Higher(low, Lower(x, high))

NormalizeBearing(b) == b % Circle

(* std::remainder(turn, 360) of the difference of two bearings: the        *)
(* shorter way round; a half turn keeps its sign.                          *)
Remainder(turn) ==
    IF 2 * turn > Circle THEN turn - Circle
    ELSE IF 2 * turn < -Circle THEN turn + Circle
    ELSE turn

(* inverse: length and initial bearing of the way between two places.      *)
Distance(from, to) == Higher(from - to, to - from)
Bearing(from, to) == IF to < from THEN South ELSE North

(* Of the cosine of a bearing only the sign counts.                        *)
Cosine(bearing) ==
    IF 4 * bearing < Circle \/ 4 * bearing > 3 * Circle THEN 1
    ELSE IF 4 * bearing > Circle /\ 4 * bearing < 3 * Circle THEN -1
    ELSE 0

(* direct: where a vessel is after a distance on a bearing.                *)
Direct(from, bearing, distance) == from + Cosine(bearing) * distance

(* The apparent wind is named by what it is computed from: the true wind   *)
(* as seen from the bow, its speed and the vessel's.                       *)
ApparentWind(direction, speed, heading, vessel_speed) ==
    [angle |-> NormalizeBearing(direction - heading),
     wind |-> speed, vessel |-> vessel_speed]
=============================================================================
