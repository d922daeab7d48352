------------------------------ MODULE SignalK ------------------------------
(***************************************************************************)
(* The two encodings that carry the whole state: the Signal K delta and    *)
(* hello messages, and the ViewSync packet.  A value stands in the model's *)
(* units for the SI value that is sent.                                    *)
(***************************************************************************)
EXTENDS VesselState, SequencesExt

CONSTANTS
    Reduced,            \* what engine_id leaves of each engine label
    BeforeUnixEpoch     \* kSecondsBeforeUnixEpoch

(* engine_id: the letters and digits of the label without "engine", or the *)
(* number of the engine when nothing is left.                              *)
EngineId(label, i) ==
    IF label \in DOMAIN Reduced /\ Reduced[label] # "" THEN Reduced[label]
    ELSE "engine" \o ToString(i)

(* Relative angles go from minus a half circle, exclusive, to a half one.  *)
Signed180(angle) == IF 2 * angle > Circle THEN angle - Circle ELSE angle

DefaultContext(s) == <<"vessels.urn:mrn:imo:mmsi", s.ais.mmsi>>
EffectiveContext(options, s) ==
    IF options.context = None THEN DefaultContext(s) ELSE options.context

-----------------------------------------------------------------------------
(* path_values: what is published of a state, in order.                    *)

FixPaths(s) ==
    IF ~ s.gnss.has_fix THEN <<>>
    ELSE <<<<"navigation.position", <<s.nav.place, s.nav.altitude>>>>,
           <<"navigation.courseOverGroundTrue", s.nav.course>>,
           <<"navigation.courseOverGroundMagnetic", CourseMagnetic(s)>>,
           <<"navigation.speedOverGround", s.nav.speed>>>>

NavigationPaths(s) ==
    <<<<"navigation.headingTrue", s.nav.heading>>,
      <<"navigation.headingMagnetic", HeadingMagnetic(s)>>,
      <<"navigation.magneticVariation", s.nav.variation>>,
      <<"navigation.magneticDeviation", s.nav.deviation>>,
      <<"navigation.speedThroughWater", s.nav.water_speed>>,
      <<"navigation.rateOfTurn", s.nav.rate_of_turn>>,
      <<"navigation.gnss.type", "GPS">>,
      <<"navigation.gnss.methodQuality",
        IF ~ s.gnss.has_fix THEN "no GPS"
        ELSE IF s.gnss.quality = "Differential" THEN "DGNSS fix" ELSE "GNSS Fix">>,
      <<"navigation.gnss.satellites", IF s.gnss.has_fix THEN s.gnss.in_use ELSE 0>>>>
    \o (IF ~ s.gnss.has_fix THEN <<>>
        ELSE <<<<"navigation.gnss.horizontalDilution", s.gnss.hdop>>,
               <<"navigation.gnss.positionDilution", s.gnss.pdop>>,
               <<"navigation.gnss.antennaAltitude", s.nav.altitude>>,
               <<"navigation.gnss.geoidalSeparation", s.gnss.geoid>>>>)

CoursePaths(s) ==
    IF s.destination = None THEN <<>>
    ELSE LET d == s.destination
             leg == SolveLeg(d.origin, d.place, s.nav.place)
             made_good == s.nav.speed * Cosine(NormalizeBearing(s.nav.course - leg.bearing))
         IN  <<<<"navigation.courseRhumbline.nextPoint.position", d.place>>,
               <<"navigation.courseRhumbline.nextPoint.bearingTrue", leg.bearing>>,
               <<"navigation.courseRhumbline.nextPoint.distance", leg.distance>>,
               <<"navigation.courseRhumbline.nextPoint.velocityMadeGood", made_good>>,
               <<"navigation.courseRhumbline.previousPoint.position", d.origin>>,
               <<"navigation.courseRhumbline.bearingTrackTrue", leg.leg_bearing>>,
               <<"navigation.courseRhumbline.crossTrackError", leg.cross>>>>

(* The sign of the transducer's offset chooses what it is measured from.   *)
DepthPaths(s) ==
    LET sum == s.env.depth + s.env.offset
    IN  <<<<"environment.depth.belowTransducer", s.env.depth>>>>
        \o (IF s.env.offset >= 0
            THEN <<<<"environment.depth.surfaceToTransducer", s.env.offset>>,
                   <<"environment.depth.belowSurface", sum>>>>
            ELSE <<<<"environment.depth.transducerToKeel", -s.env.offset>>,
                   <<"environment.depth.belowKeel", sum>>>>)

EnvironmentPaths(s) ==
    <<<<"environment.water.temperature", s.env.temperature>>,
      <<"environment.wind.speedTrue", s.env.wind_speed>>,
      <<"environment.wind.directionTrue", s.env.wind_direction>>,
      <<"environment.wind.angleTrueWater", Signed180(WindAngle(s))>>,
      <<"environment.wind.speedApparent", s.env.apparent_speed>>,
      <<"environment.wind.angleApparent", Signed180(s.env.apparent_angle)>>,
      <<"steering.rudderAngle", s.env.rudder>>>>

EnginePaths(s, i) ==
    LET engine == s.engines[i]
        prefix == "propulsion." \o EngineId(engine.label, i)
    IN  <<<<prefix \o ".revolutions", Revolutions(engine)>>,
          <<prefix \o ".temperature", engine.coolant>>,
          <<prefix \o ".state", IF engine.running THEN "started" ELSE "stopped">>>>

PathValues(s) ==
    <<<<"navigation.datetime", s.time>>>> \o FixPaths(s) \o NavigationPaths(s)
    \o CoursePaths(s) \o DepthPaths(s) \o EnvironmentPaths(s)
    \o FlattenSeq([i \in 1 .. Len(s.engines) |-> EnginePaths(s, i)])

(* encode_delta: the values of the paths that the output's filter admits.  *)
EncodeDelta(s, options, admitted) ==
    [context |-> EffectiveContext(options, s), label |-> options.label,
     timestamp |-> s.time,
     values |-> SelectSeq(PathValues(s), LAMBDA v : v[1] \in admitted)]

(* encode_hello.                                                           *)
Hello(options, s, now) == [self |-> EffectiveContext(options, s), timestamp |-> now]

(* encode_packet: where the camera of Google Earth goes.                   *)
Packet(s, options, counter) ==
    [counter |-> counter, place |-> s.nav.place,
     altitude |-> s.nav.altitude + options.camera_altitude,
     heading |-> s.nav.heading, tilt |-> options.tilt, roll |-> options.roll,
     time |-> SecondsOf(s.time) + BeforeUnixEpoch, planet |-> options.planet]
=============================================================================
