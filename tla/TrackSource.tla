---------------------------- MODULE TrackSource ----------------------------
(***************************************************************************)
(* The source that follows a GPX or KML track (TrackSource): the leg table *)
(* built from the points, and the vessel's way along it through advance,   *)
(* seek, jump_to_point and reset.                                          *)
(*                                                                         *)
(* Times are counted in fractions of a millisecond, Ms to one, because     *)
(* leg durations are not whole milliseconds while seek, position and the   *)
(* clock are.  A speed is a distance per unit of time.                     *)
(***************************************************************************)
EXTENDS Physics, Sequences

CONSTANTS
    Tracks,        \* the track configurations that may be given
    Ms,            \* units of time in a millisecond
    TrackSteps,    \* lengths of an advance, in milliseconds
    TrackSeeks,    \* positions to seek to, in milliseconds
    MinSpeed,      \* kMinSpeedKn
    SeedTime,      \* time_utc of the seed
    SeedAltitude,  \* altitude_m of the seed
    SeedCourse,    \* course and heading of the seed
    SeedPlace,     \* position of the seed
    MaxSailed,     \* bound on the time sailed between two placements
    MaxElapsed     \* bound on the time sailed since the last reset

(* TrackConfig, with the fields of its seed that the constants give.       *)
TrackPoint == [place : Int, time : Nat \cup {None}, speed : Nat \cup {None},
               course : Angles \cup {None}, elevation : Int \cup {None}]

TrackAssumption ==
    /\ PhysicsAssumption
    /\ Ms \in Nat \ {0} /\ MinSpeed \in Nat \ {0}
    /\ TrackSteps \subseteq Nat \ {0} /\ TrackSeeks \subseteq Int
    /\ MaxSailed \in Nat /\ MaxElapsed \in Nat
    /\ SeedCourse \in Angles
    /\ \A c \in Tracks :
        /\ DOMAIN c = {"points", "use_timestamps", "speed", "end", "destination"}
        /\ c.points \in Seq(TrackPoint)
        /\ c.use_timestamps \in BOOLEAN
        /\ c.speed \in Nat
        /\ c.end \in {"Stop", "Loop"}

VARIABLES
    track,       \* config_
    legs,        \* legs_
    progress,    \* progress_s_
    elapsed,     \* elapsed_s_
    arrived,     \* finished_
    vessel,      \* state_
    placed       \* history: the last placement, and the time sailed after it

trackVars == <<track, legs, progress, elapsed, arrived, vessel, placed>>

Or(value, default) == IF value = None THEN default ELSE value

-----------------------------------------------------------------------------
(* Track::has_timestamps and the leg table.                                *)

HasTimestamps(points) ==
    /\ points # <<>>
    /\ \A i \in DOMAIN points : points[i].time # None
    /\ \A i \in 2 .. Len(points) : points[i - 1].time <= points[i].time

Timed(c) == c.use_timestamps /\ Len(c.points) >= 2 /\ HasTimestamps(c.points)

(* What build_legs makes of points i and i + 1 alone: recorded speed or    *)
(* the configured one, never so slow that a leg would last for ever.       *)
LegLength(c, i) == Distance(c.points[i].place, c.points[i + 1].place)
LegSailed(c, i) == Higher(MinSpeed, Or(c.points[i].speed, c.speed))
LegDuration(c, i) ==
    IF Timed(c) THEN c.points[i + 1].time - c.points[i].time
    ELSE LegLength(c, i) \div LegSailed(c, i)

(* Mutant of LegStarts: a leg starts where the one before it started.      *)
LegStarts_TooEarly(c) ==
    LET start[i \in 1 .. Len(c.points)] ==
            IF i <= 2 THEN 0 ELSE start[i - 1] + LegDuration(c, i - 2)
    IN  start

(* start_s and previous_bearing, which build_legs carries from leg to leg. *)
LegStarts(c) ==
    LET start[i \in 1 .. Len(c.points)] ==
            IF i = 1 THEN 0 ELSE start[i - 1] + LegDuration(c, i - 1)
    IN  start
LegBearings(c) ==
    LET bearing[i \in 0 .. Len(c.points) - 1] ==
            IF i = 0 THEN Or(c.points[1].course, 0)
            ELSE IF LegLength(c, i) = 0 THEN bearing[i - 1]
            ELSE Bearing(c.points[i].place, c.points[i + 1].place)
    IN  bearing

(* build_legs.                                                             *)
Legs(c) ==
    LET starts == LegStarts(c)
        bearings == LegBearings(c)
        mean(i) == IF LegDuration(c, i) > 0
                   THEN LegLength(c, i) \div LegDuration(c, i) ELSE 0
    IN  [i \in 1 .. Len(c.points) - 1 |->
            [from |-> c.points[i].place, to |-> c.points[i + 1].place,
             length |-> LegLength(c, i), duration |-> LegDuration(c, i),
             start |-> starts[i], bearing |-> bearings[i],
             speed |-> IF Timed(c) THEN Or(c.points[i].speed, mean(i))
                       ELSE LegSailed(c, i),
             course |-> c.points[i].course, elevation |-> c.points[i].elevation]]

(* total_s_: where the last leg ends.                                      *)
TotalOf(ls) == IF ls = <<>> THEN 0 ELSE ls[Len(ls)].start + ls[Len(ls)].duration
Total == TotalOf(legs)

(* std::chrono::round: to the nearest millisecond, a tie to the even one.  *)
RoundMs(t) ==
    LET down == t \div Ms
        rest == 2 * (t % Ms)
    IN  IF rest > Ms \/ (rest = Ms /\ down % 2 = 1) THEN down + 1 ELSE down

(* duration, position and point_index; points count from zero.             *)
TrackDuration == RoundMs(Total)
TrackPosition == RoundMs(progress)

(* leg_at: the last leg that starts at or before the time.                 *)
LegAt(ls, t) ==
    CHOOSE i \in DOMAIN ls :
        /\ i > 1 => ls[i].start <= t
        /\ i < Len(ls) => t < ls[i + 1].start

PointIndex ==
    IF legs = <<>> THEN 0
    ELSE IF progress >= Total THEN Len(legs)
    ELSE LegAt(legs, progress) - 1

-----------------------------------------------------------------------------
(* update_state.                                                           *)

Seed(c) ==
    [place |-> SeedPlace, course |-> SeedCourse, heading |-> SeedCourse,
     speed |-> 0, altitude |-> SeedAltitude, turn |-> 0, time |-> SeedTime,
     fix |-> TRUE, destination |-> c.destination]

(* The end of a stopping track, or a track of one point: at rest at the    *)
(* last point, heading as it came.                                         *)
Moored(c, ls, v) ==
    LET last == c.points[Len(c.points)]
    IN  [v EXCEPT !.place = last.place,
                  !.speed = 0,
                  !.course = Or(last.course, IF ls = <<>> THEN SeedCourse
                                             ELSE ls[Len(ls)].bearing),
                  !.altitude = Or(last.elevation, SeedAltitude)]

(* Underway on a leg, at the fraction of it that has been sailed; a leg    *)
(* without duration counts as sailed, one without length is a stop.        *)
Underway(c, ls, v, at) ==
    LET i == LegAt(ls, at)
        leg == ls[i]
        sailed == Clamped(at - leg.start, 0, leg.duration)
        next == c.points[i + 1].elevation
        share(x) == IF leg.duration = 0 THEN x ELSE (sailed * x) \div leg.duration
    IN  [v EXCEPT
            !.place = IF leg.length = 0 \/ (sailed = 0 /\ leg.duration > 0)
                      THEN leg.from
                      ELSE IF sailed = leg.duration THEN leg.to
                      ELSE Direct(leg.from, leg.bearing, share(leg.length)),
            !.course = Or(leg.course, leg.bearing),
            !.speed = leg.speed,
            !.altitude = IF leg.elevation # None /\ next # None
                         THEN leg.elevation + share(next - leg.elevation)
                         ELSE Or(leg.elevation, SeedAltitude)]

Updated(c, ls, v, dt, at, time, stopped) ==
    IF c.points = <<>> THEN v
    ELSE LET moved == IF ls = <<>> \/ (stopped /\ c.end = "Stop")
                      THEN Moored(c, ls, v)
                      ELSE Underway(c, ls, v, at)
         IN  [moved EXCEPT
                !.heading = moved.course,
                !.turn = IF dt > 0 THEN Remainder(moved.course - v.heading) ELSE 0,
                !.time = IF Timed(c) THEN c.points[1].time + Ms * RoundMs(at)
                         ELSE SeedTime + Ms * RoundMs(time)]

-----------------------------------------------------------------------------
(* History: a placement, by reset, seek or jump, and the time sailed since. *)
PlacedAt(t) == [from |-> t, sailed |-> 0]

TrackInit ==
    /\ track \in Tracks
    /\ legs = Legs(track)
    /\ progress = 0 /\ elapsed = 0 /\ arrived = FALSE
    /\ vessel = Updated(track, legs, Seed(track), 0, 0, 0, FALSE)
    /\ placed = PlacedAt(0)

(* advance(dt).  Where the progress is after the step and whether the      *)
(* track is finished.                                                      *)
Ahead(dt) == progress + dt * Ms

(* Mutant of TrackAdvance: a lap that ends drops the time beyond it.       *)
TrackAdvance_DropsSurplus(dt) ==
    LET past == Ahead(dt) >= Total
        at == IF ~ past THEN Ahead(dt)
              ELSE IF track.end = "Stop" THEN Total ELSE 0
        stop == past /\ track.end = "Stop"
    IN  /\ ~ arrived
        /\ progress' = at
        /\ elapsed' = elapsed + dt * Ms
        /\ arrived' = stop
        /\ vessel' = Updated(track, legs, vessel, dt, at, elapsed + dt * Ms, stop)
        /\ placed' = [placed EXCEPT !.sailed = @ + dt * Ms]
        /\ UNCHANGED <<track, legs>>

TrackAdvance(dt) ==
    LET past == Ahead(dt) >= Total
        at == IF ~ past THEN Ahead(dt)
              ELSE IF track.end = "Stop" THEN Total
              ELSE IF Total > 0 THEN Ahead(dt) % Total ELSE 0
        stop == past /\ track.end = "Stop"
    IN  /\ ~ arrived
        /\ progress' = at
        /\ elapsed' = elapsed + dt * Ms
        /\ arrived' = stop
        /\ vessel' = Updated(track, legs, vessel, dt, at, elapsed + dt * Ms, stop)
        /\ placed' = [placed EXCEPT !.sailed = @ + dt * Ms]
        /\ UNCHANGED <<track, legs>>

(* Once finished, advance changes nothing.                                 *)
TrackAdvanceIgnored == arrived /\ UNCHANGED trackVars

(* seek_seconds.                                                           *)
SeekTime(t) ==
    LET at == Clamped(t, 0, Total)
        stop == at >= Total /\ track.end = "Stop"
    IN  /\ progress' = at
        /\ arrived' = stop
        /\ vessel' = Updated(track, legs, vessel, 0, at, elapsed, stop)
        /\ placed' = PlacedAt(at)
        /\ UNCHANGED <<track, legs, elapsed>>

TrackSeek(position) == SeekTime(position * Ms)

(* jump_to_point(index); legs count from one here.                         *)
JumpToPoint(index) ==
    SeekTime(IF legs = <<>> \/ index = 0 THEN 0
             ELSE IF index >= Len(legs) THEN Total
             ELSE legs[index + 1].start)

TrackReset ==
    /\ progress' = 0 /\ elapsed' = 0 /\ arrived' = FALSE
    /\ vessel' = Updated(track, legs, Seed(track), 0, 0, 0, FALSE)
    /\ placed' = PlacedAt(0)
    /\ UNCHANGED <<track, legs>>

TrackSetFix(has_fix) ==
    /\ vessel' = [vessel EXCEPT !.fix = has_fix]
    /\ UNCHANGED <<track, legs, progress, elapsed, arrived, placed>>

(* set_destination, into the seed too, so that a reset keeps it.           *)
TrackSetDestination(destination) ==
    /\ track' = [track EXCEPT !.destination = destination]
    /\ vessel' = [vessel EXCEPT !.destination = destination]
    /\ UNCHANGED <<legs, progress, elapsed, arrived, placed>>

TrackNext ==
    \/ \E dt \in TrackSteps :
        /\ placed.sailed + dt * Ms <= MaxSailed
        /\ elapsed + dt * Ms <= MaxElapsed
        /\ TrackAdvance(dt)
    \/ TrackAdvanceIgnored
    \/ \E position \in TrackSeeks : TrackSeek(position)
    \/ \E index \in 0 .. Len(legs) + 1 : JumpToPoint(index)
    \/ TrackReset
    \/ \E has_fix \in BOOLEAN : TrackSetFix(has_fix)
    \/ \E destination \in {None, SeedPlace} : TrackSetDestination(destination)

TrackSpec == TrackInit /\ [][TrackNext]_trackVars

-----------------------------------------------------------------------------
(* However the time is cut into steps, the vessel has sailed all of it     *)
(* since it was last placed: a stopping track is at most at its end, a     *)
(* looping one has carried what ran past the end into the next lap, over   *)
(* as many laps as a step spans (TrackSource::advance).                    *)
KeepsItsPace ==
    LET ideal == placed.from + placed.sailed
    IN  progress = IF placed.sailed = 0 THEN placed.from
                   ELSE IF track.end = "Stop" THEN Lower(ideal, Total)
                   ELSE IF Total = 0 THEN 0
                   ELSE ideal % Total

(* The progress stays inside the track and only a stopping track at its    *)
(* end is finished.                                                        *)
WithinTrack ==
    /\ progress \in 0 .. Total
    /\ arrived => track.end = "Stop" /\ progress = Total
    /\ track.end = "Stop" /\ Total > 0 /\ progress = Total => arrived

Between(x, a, b) == Lower(a, b) <= x /\ x <= Higher(a, b)

(* Where the points say the vessel is at its clock, without the leg table. *)
PassesByTheClock ==
    LET points == track.points
        now == points[1].time + progress
    IN  \E i \in 1 .. Len(points) - 1 :
            LET from == points[i]
                to == points[i + 1]
            IN  /\ from.time <= now /\ now <= to.time
                /\ IF from.time = to.time
                   THEN vessel.place = to.place
                   ELSE vessel.place - from.place =
                        (IF to.place < from.place THEN -1 ELSE 1) *
                        (((now - from.time) * Distance(from.place, to.place))
                            \div (to.time - from.time))

(* The vessel is on the track: between the point it passed last, which     *)
(* point_index tells, and the next one; on a timed track at the place the  *)
(* timestamps give for its clock; and a finished one lies at the last      *)
(* point without way (update_state, leg_at, build_legs).                   *)
OnTheTrack ==
    LET points == track.points
        last == Len(points)
    IN  points # <<>> =>
        /\ WithinTrack
        /\ PointIndex \in 0 .. last - 1
        /\ Between(vessel.place, points[PointIndex + 1].place,
                   points[Lower(PointIndex + 2, last)].place)
        /\ arrived => vessel.place = points[last].place /\ vessel.speed = 0
        /\ Timed(track) => PassesByTheClock
        /\ vessel.heading = vessel.course
        /\ vessel.destination = track.destination
=============================================================================
