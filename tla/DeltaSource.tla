---------------------------- MODULE DeltaSource ----------------------------
(***************************************************************************)
(* The source that lets a vessel's values wander around a seed             *)
(* (DeltaSource): overrides that pin a value, the steering mode that turns *)
(* the heading with the rudder, and the drift of everything else.          *)
(*                                                                         *)
(* Values are whole numbers of some unit per parameter.  What the random   *)
(* generator draws is a choice.  The clock is a time of day and the vessel *)
(* runs on a closed meridian, so that the source may run for ever.         *)
(***************************************************************************)
EXTENDS Physics, Sequences, SequencesExt

CONSTANTS
    DeltaConfigs,    \* the configurations that may be given
    DeltaSteps,      \* lengths of an advance
    Pinnable,        \* the parameters the calls of a run name
    Values,          \* values given to set_override
    Nudges,          \* amounts given to nudge
    Engines,         \* engines given to set_engine
    Waypoints,       \* destinations given, with the optional that is not set
    MaxEngines,      \* bound on the number of engines
    MaxCommands,     \* bound on the number of calls other than advance
    DayLength,       \* units of time in a day
    Meridian         \* metres round the meridian

Angular == {"HeadingTrue", "WindDirectionTrue"}
NotNegative == {"SpeedOverGround", "SpeedThroughWater", "Depth", "WindSpeedTrue"}
Plain == {"Altitude", "WaterTemperature"}
Parameter == Angular \cup NotNegative \cup Plain \cup {"RudderAngle"}

(* The values that wander; the speed through the water follows the speed   *)
(* over ground instead.                                                    *)
Drifting == {"HeadingTrue", "SpeedOverGround", "Depth", "WaterTemperature",
             "WindDirectionTrue", "WindSpeedTrue"}

(* DeltaConfig: the seed, the variation of each drifting value, the gain   *)
(* of the rudder and its largest angle.                                    *)
DeltaAssumption ==
    /\ PhysicsAssumption
    /\ \A c \in DeltaConfigs :
        /\ DOMAIN c = {"values", "variation", "gain", "max_rudder",
                       "destination", "engines"}
        /\ c.values \in [Parameter -> Int]
        /\ c.variation \in [Drifting -> [amplitude : Int, step : Int]]
        /\ c.gain \in Int /\ c.max_rudder \in Nat
    /\ Pinnable \subseteq Parameter
    /\ Values \subseteq Int /\ Nudges \subseteq Int
    /\ DeltaSteps \subseteq Nat \ {0}
    /\ \A dt \in DeltaSteps : dt % DayLength # 0

VARIABLES
    config,       \* config_, whose destination and engines calls edit
    value,        \* the nine parameters of state_
    derived,      \* the rest of state_: course, turn, place, time, apparent
                  \* wind, fix, satellites, destination and engines
    pinned,       \* overrides_
    steering,     \* steering_mode_
    commands      \* history: the number of calls other than advance

deltaVars == <<config, value, derived, pinned, steering, commands>>

-----------------------------------------------------------------------------
(* write: what is stored for a value given for a parameter.                *)
Written(p, v) ==
    IF p \in Angular THEN NormalizeBearing(v)
    ELSE IF p \in NotNegative THEN Higher(0, v)
    ELSE IF p = "RudderAngle" THEN Clamped(v, -config.max_rudder, config.max_rudder)
    ELSE v

FromSeed(c) ==
    [course |-> c.values["HeadingTrue"], turn |-> 0, place |-> 0, time |-> 0,
     apparent |-> [angle |-> 0, wind |-> 0, vessel |-> 0],
     fix |-> TRUE, in_use |-> 0, in_view |-> 0,
     destination |-> c.destination, engines |-> c.engines]

DeltaInit ==
    /\ config \in DeltaConfigs
    /\ value = config.values
    /\ derived = FromSeed(config)
    /\ pinned = {}
    /\ steering = FALSE
    /\ commands = 0

Command == commands < MaxCommands /\ commands' = commands + 1

SetOverride(p, v) ==
    /\ Command
    /\ pinned' = pinned \cup {p}
    /\ value' = [value EXCEPT ![p] = Written(p, v)]
    /\ UNCHANGED <<config, derived, steering>>

(* nudge(parameter, delta): pins the value and moves it.                   *)
Nudge(p, delta) == SetOverride(p, value[p] + delta)

ClearOverride(p) ==
    /\ Command
    /\ pinned' = pinned \ {p}
    /\ UNCHANGED <<config, value, derived, steering>>

SetSteeringMode(enabled) ==
    /\ Command
    /\ steering' = enabled
    /\ UNCHANGED <<config, value, derived, pinned>>

SetPosition(place) ==
    /\ Command
    /\ derived' = [derived EXCEPT !.place = place]
    /\ UNCHANGED <<config, value, pinned, steering>>

DeltaSetFix(has_fix) ==
    /\ Command
    /\ derived' = [derived EXCEPT !.fix = has_fix]
    /\ UNCHANGED <<config, value, pinned, steering>>

SetSatellites(in_use, in_view) ==
    /\ Command
    /\ derived' = [derived EXCEPT !.in_use = in_use,
                                  !.in_view = Higher(in_use, in_view)]
    /\ UNCHANGED <<config, value, pinned, steering>>

(* set_destination, set_engine and remove_engine edit the seed as well as  *)
(* the state, so that reset keeps the edit.                                *)
DeltaSetDestination(destination) ==
    /\ Command
    /\ config' = [config EXCEPT !.destination = destination]
    /\ derived' = [derived EXCEPT !.destination = destination]
    /\ UNCHANGED <<value, pinned, steering>>

(* Engines count from one here.                                            *)
WithEngine(engines, index, engine) ==
    IF index <= Len(engines) THEN [engines EXCEPT ![index] = engine]
    ELSE Append(engines, engine)

SetEngine(index, engine) ==
    /\ Command
    /\ index <= Len(derived.engines) \/ Len(derived.engines) < MaxEngines
    /\ config' = [config EXCEPT !.engines = WithEngine(@, index, engine)]
    /\ derived' = [derived EXCEPT !.engines = WithEngine(@, index, engine)]
    /\ UNCHANGED <<value, pinned, steering>>

WithoutEngine(engines, index) ==
    IF index <= Len(engines) THEN RemoveAt(engines, index) ELSE engines

RemoveEngine(index) ==
    /\ Command
    /\ config' = [config EXCEPT !.engines = WithoutEngine(@, index)]
    /\ derived' = [derived EXCEPT !.engines = WithoutEngine(@, index)]
    /\ UNCHANGED <<value, pinned, steering>>

(* reset: the seed again, nothing pinned.  The steering mode stays.        *)
DeltaReset ==
    /\ Command
    /\ value' = config.values
    /\ derived' = FromSeed(config)
    /\ pinned' = {}
    /\ UNCHANGED <<config, steering>>

-----------------------------------------------------------------------------
(* Mutant of Drift: a value outside its band is only clamped against the   *)
(* side it is on after its random step, so it may also move away.          *)
Drift_OnlyWanders(current, seed, v, dt) ==
    IF v.amplitude <= 0 \/ v.step <= 0 THEN {current}
    ELSE IF current > seed + v.amplitude \/ current < seed - v.amplitude
    THEN {current + r : r \in -(v.step * dt) .. v.step * dt}
    ELSE {Clamped(current + r, seed - v.amplitude, seed + v.amplitude) :
            r \in -(v.step * dt) .. v.step * dt}

(* drift: where a value may be after a step.  One left outside its band by *)
(* a released override returns at the full rate; inside, it takes a random *)
(* step but not out of the band.                                           *)
Drift(current, seed, v, dt) ==
    LET step == v.step * dt
        low == seed - v.amplitude
        high == seed + v.amplitude
    IN  IF v.amplitude <= 0 \/ v.step <= 0 THEN {current}
        ELSE IF current > high THEN {Higher(high, current - step)}
        ELSE IF current < low THEN {Lower(low, current + step)}
        ELSE {Clamped(current + r, low, high) : r \in -step .. step}

(* The values a parameter that drifts may take.  An angle drifts as its    *)
(* offset from the seed, so that its band also holds across north.         *)
Offset(p) == Remainder(value[p] - config.values[p])

Drifted(p, dt) ==
    LET seed == config.values[p]
        v == config.variation[p]
    IN  IF p \in Angular
        THEN {NormalizeBearing(seed + o) : o \in Drift(Offset(p), 0, v, dt)}
        ELSE {Written(p, x) : x \in Drift(value[p], seed, v, dt)}

Turn == value["RudderAngle"] * config.gain

(* What a parameter may be after the step, before the speed through the    *)
(* water has followed the speed over ground.                               *)
After(p, dt) ==
    IF p = "HeadingTrue" /\ steering
    THEN {NormalizeBearing(value[p] + Turn * dt)}
    ELSE IF p \in Drifting \ pinned THEN Drifted(p, dt)
    ELSE {value[p]}

(* update_derived_values.                                                  *)
Derived(new, turn, dt) ==
    [derived EXCEPT
        !.time = (@ + dt) % DayLength,
        !.turn = turn,
        !.course = new["HeadingTrue"],
        !.place = Direct(@, new["HeadingTrue"], new["SpeedOverGround"] * dt) % Meridian,
        !.apparent = ApparentWind(new["WindDirectionTrue"], new["WindSpeedTrue"],
                                  new["HeadingTrue"], new["SpeedThroughWater"])]

(* Mutant of DeltaAdvance: the speed through the water follows the speed   *)
(* over ground whether it is pinned or not.                                *)
DeltaAdvance_WaterFollows(dt) ==
    \E h \in After("HeadingTrue", dt), s \in After("SpeedOverGround", dt),
       d \in After("Depth", dt), t \in After("WaterTemperature", dt),
       w \in After("WindDirectionTrue", dt), f \in After("WindSpeedTrue", dt) :
        LET new == [value EXCEPT
                !["HeadingTrue"] = h, !["SpeedOverGround"] = s,
                !["SpeedThroughWater"] = s,
                !["Depth"] = d, !["WaterTemperature"] = t,
                !["WindDirectionTrue"] = w, !["WindSpeedTrue"] = f]
        IN  /\ value' = new
            /\ derived' = Derived(new, 0, dt)
            /\ UNCHANGED <<config, pinned, steering, commands>>

(* advance(dt).                                                            *)
DeltaAdvance(dt) ==
    \E h \in After("HeadingTrue", dt), s \in After("SpeedOverGround", dt),
       d \in After("Depth", dt), t \in After("WaterTemperature", dt),
       w \in After("WindDirectionTrue", dt), f \in After("WindSpeedTrue", dt) :
        LET water == IF "SpeedThroughWater" \in pinned
                     THEN value["SpeedThroughWater"] ELSE s
            new == [value EXCEPT
                !["HeadingTrue"] = h, !["SpeedOverGround"] = s,
                !["SpeedThroughWater"] = water,
                !["Depth"] = d, !["WaterTemperature"] = t,
                !["WindDirectionTrue"] = w, !["WindSpeedTrue"] = f]
            turn == IF steering THEN Turn
                    ELSE IF "HeadingTrue" \in pinned THEN 0
                    ELSE Remainder(h - value["HeadingTrue"])
        IN  /\ value' = new
            /\ derived' = Derived(new, turn, dt)
            /\ UNCHANGED <<config, pinned, steering, commands>>

DeltaNext ==
    \/ \E dt \in DeltaSteps : DeltaAdvance(dt)
    \/ \E p \in Pinnable, v \in Values : SetOverride(p, v)
    \/ \E p \in Pinnable, delta \in Nudges : Nudge(p, delta)
    \/ \E p \in pinned : ClearOverride(p)
    \/ \E enabled \in BOOLEAN : SetSteeringMode(enabled)
    \/ \E place \in {0} : SetPosition(place)
    \/ \E has_fix \in BOOLEAN : DeltaSetFix(has_fix)
    \/ \E n \in {0, 1} : SetSatellites(1, 2 * n)
    \/ \E d \in Waypoints : DeltaSetDestination(d)
    \/ \E i \in 1 .. MaxEngines, e \in Engines : SetEngine(i, e)
    \/ \E i \in 1 .. MaxEngines : RemoveEngine(i)
    \/ DeltaReset

DeltaSpec == DeltaInit /\ [][DeltaNext]_deltaVars

(* The runner ticks as long as it runs, and every tick advances.           *)
DeltaFairness == WF_deltaVars(\E dt \in DeltaSteps : DeltaAdvance(dt))
DeltaFairSpec == DeltaSpec /\ DeltaFairness

-----------------------------------------------------------------------------
(* An advance leaves a pinned value where the override put it, in the form *)
(* it was stored; only the rudder moves a pinned heading, in steering mode *)
(* (DeltaSource::override_value).  Nothing but a call unpins or pins.      *)
HoldsWhatIsPinned ==
    [][commands' = commands =>
        /\ pinned' = pinned
        /\ \A p \in pinned :
            value'[p] = value[p] \/ (steering /\ p = "HeadingTrue")]_deltaVars

InBand(p) ==
    LET away == IF p \in Angular THEN Offset(p) ELSE value[p] - config.values[p]
    IN  -config.variation[p].amplitude <= away /\ away <= config.variation[p].amplitude

(* Left alone, every value that drifts ends up inside its band and stays   *)
(* there, wherever an override that was released or the steering mode left *)
(* it (DeltaSource::drift).                                                *)
BackInBand ==
    \A p \in Drifting :
        (<>[](/\ p \notin pinned
              /\ ~ (steering /\ p = "HeadingTrue")
              /\ config.variation[p].step > 0 /\ config.variation[p].amplitude > 0))
        => <>[]InBand(p)
=============================================================================
