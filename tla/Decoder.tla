------------------------------ MODULE Decoder ------------------------------
(***************************************************************************)
(* Reading NMEA 0183 back into a vessel state: framing (parse_sentence)    *)
(* and one decoder for each formatter (apply_sentence).                    *)
(*                                                                         *)
(* A field is empty, a number or a text; a malformed number is a text.     *)
(* What is left of a decimal or of a coordinate after printing and parsing *)
(* is not told apart: a field carries the whole unit it stands for.        *)
(***************************************************************************)
EXTENDS VesselState, SequencesExt

CONSTANTS
    MaxLatitude, MaxLongitude,   \* 90 and 180 degrees
    MaxEngineCount               \* 100 engines

Empty == [number |-> None, text |-> ""]
Num(n) == [number |-> n, text |-> "0"]
Txt(t) == [number |-> None, text |-> t]

(* A line as it arrives: what parse_sentence makes of it depends on the    *)
(* delimiter, the checksum, the address and the fields.                    *)
Sentence(formatter, fields) ==
    [delimiter |-> "$", checksum |-> "good", formatter |-> formatter, fields |-> fields]

(* parse_sentence accepts a line: a checksum, when there is one, matches,  *)
(* and the address has more than a talker.                                 *)
Parsed(line) ==
    /\ line.delimiter \in {"$", "!"}
    /\ line.checksum # "bad"
    /\ line.formatter # ""

(* Fields count from zero; one that is missing reads as empty.             *)
Field(s, i) == IF i + 1 <= Len(s.fields) THEN s.fields[i + 1] ELSE Empty
Number(s, i) == Field(s, i).number
Text(s, i) == Field(s, i).text

(* assign: a value that could not be read leaves the old one.              *)
Assign(value, old) == IF value = None THEN old ELSE value

SignedEastWest(s, i) ==
    IF Number(s, i) = None THEN None
    ELSE IF Text(s, i + 1) = "W" THEN -Number(s, i) ELSE Number(s, i)

(* parse_coordinate.                                                       *)
Coordinate(s, i) ==
    LET n == Number(s, i)
        letter == Text(s, i + 1)
        limit == IF letter \in {"N", "S"} THEN MaxLatitude ELSE MaxLongitude
    IN  IF n = None \/ letter \notin {"N", "S", "E", "W"} THEN None
        ELSE IF n < 0 \/ n > limit THEN None
        ELSE IF letter \in {"S", "W"} THEN -n ELSE n

(* apply_position: both coordinates or none.                               *)
Place(s, i, old) ==
    LET latitude == Coordinate(s, i)
        longitude == Coordinate(s, i + 2)
    IN  IF latitude = None \/ longitude = None THEN old ELSE <<latitude, longitude>>

(* sentence_time: the time of day, at most one leap second past the day,   *)
(* and the date where the formatter carries one.                           *)
TimeField == [RMC |-> 0, GGA |-> 0, ZDA |-> 0, GNS |-> 0, GST |-> 0, GBS |-> 0,
              GRS |-> 0, GLL |-> 4]

SentenceTime(s) ==
    IF s.formatter \notin DOMAIN TimeField THEN None
    ELSE LET t == Number(s, TimeField[s.formatter])
         IN  IF t = None THEN None ELSE IF t \in 0 .. Day THEN t ELSE None

SentenceDate(s) ==
    CASE s.formatter = "RMC" -> Number(s, 8)
      [] s.formatter = "ZDA" -> Number(s, 1)
      [] OTHER -> None

(* Mutant of Clock: the day never advances without a date.                 *)
Clock_StaysOnDay(s, old) ==
    LET t == SentenceTime(s)
        date == SentenceDate(s)
    IN  IF t = None THEN old
        ELSE IF date # None THEN date * Day + t
        ELSE DateOf(old) * Day + t

(* apply_time: a date replaces the day; without one the time of day does,  *)
(* and a step back of more than half a day is the next day.                *)
Clock(s, old) ==
    LET t == SentenceTime(s)
        date == SentenceDate(s)
        same_day == DateOf(old) * Day + t
    IN  IF t = None THEN old
        ELSE IF date # None THEN date * Day + t
        ELSE IF 2 * (old - same_day) > Day THEN same_day + Day
        ELSE same_day

InView(in_view, in_use) == Higher(in_view, in_use)

-----------------------------------------------------------------------------
(* GNSS.                                                                   *)

StatusFix(s, i, old) == IF Text(s, i) \in {"A", "V"} THEN Text(s, i) = "A" ELSE old

RMC(s, v) ==
    [v EXCEPT
        !.time = Clock(s, @),
        !.gnss = [@ EXCEPT !.has_fix = StatusFix(s, 1, @),
                           !.quality = CASE Text(s, 11) = "D" -> "Differential"
                                         [] Text(s, 11) = "A" -> "Gps"
                                         [] OTHER -> @],
        !.nav = [@ EXCEPT !.place = Place(s, 2, @),
                          !.speed = Assign(Number(s, 6), @),
                          !.course = Assign(Number(s, 7), @),
                          !.variation = Assign(SignedEastWest(s, 9), @)]]

(* Satellites, dilution, altitude and geoid as GGA and GNS carry them.     *)
Receiver(s, geoid, v) ==
    [v EXCEPT
        !.gnss = [@ EXCEPT
            !.in_use = Assign(Number(s, 6), @),
            !.in_view = IF Number(s, 6) = None THEN @ ELSE InView(@, Number(s, 6)),
            !.hdop = Assign(Number(s, 7), @),
            !.geoid = Assign(Number(s, geoid), @)],
        !.nav.altitude = Assign(Number(s, 8), @)]

GGA(s, v) ==
    LET code == Number(s, 5)
        fixed == IF code = None THEN v ELSE
            [v EXCEPT !.gnss.has_fix = code # 0,
                      !.gnss.quality = CASE code = 0 -> "Invalid"
                                         [] code = 2 -> "Differential"
                                         [] OTHER -> "Gps"]
    IN  [Receiver(s, 10, fixed) EXCEPT
            !.time = Clock(s, @), !.nav.place = Place(s, 1, @)]

GLL(s, v) ==
    [v EXCEPT !.time = Clock(s, @),
              !.nav.place = Place(s, 0, @),
              !.gnss.has_fix = StatusFix(s, 5, @)]

(* The mode of GNS has a letter for each satellite system; only whether    *)
(* one of them has a fix, and whether one is differential, is told apart.  *)
GNS(s, v) ==
    LET mode == Text(s, 5)
        fixed == IF mode = "" THEN v ELSE
            [v EXCEPT !.gnss.has_fix = mode # "N",
                      !.gnss.quality = CASE mode = "N" -> "Invalid"
                                         [] mode = "D" -> "Differential"
                                         [] OTHER -> "Gps"]
    IN  [Receiver(s, 9, fixed) EXCEPT
            !.time = Clock(s, @), !.nav.place = Place(s, 1, @)]

(* GST, GBS and GRS.                                                       *)
TimeOnly(s, v) == [v EXCEPT !.time = Clock(s, @)]

(* GSA counts the filled slots among MaxSatellites of them, fields 2..13.  *)
GSA(s, v) ==
    LET slots == {i \in 2 .. 13 : Field(s, i) # Empty}
        used == Cardinality(slots)
    IN  [v EXCEPT !.gnss = [@ EXCEPT
            !.has_fix = IF Number(s, 1) = None THEN @ ELSE Number(s, 1) >= 2,
            !.in_use = IF used > 0 THEN used ELSE @,
            !.in_view = IF used > 0 THEN InView(@, used) ELSE @,
            !.pdop = Assign(Number(s, 14), @),
            !.hdop = Assign(Number(s, 15), @),
            !.vdop = Assign(Number(s, 16), @)]]

GSV(s, v) == [v EXCEPT !.gnss.in_view = Assign(Number(s, 2), @)]

VTG(s, v) ==
    [v EXCEPT !.nav = [@ EXCEPT !.course = Assign(Number(s, 0), @),
                                !.speed = Assign(Number(s, 4), @)]]

ZDA(s, v) == [v EXCEPT !.time = Clock(s, @)]

-----------------------------------------------------------------------------
(* Heading, speed, depth and wind.                                         *)

Heading(s, added, v) ==
    [v EXCEPT !.nav.heading =
        IF Number(s, 0) = None THEN @ ELSE NormalizeBearing(Number(s, 0) + added)]

HDT(s, v) == Heading(s, 0, v)

(* HDG: deviation and variation first, then the heading from the compass.  *)
HDG(s, v) ==
    LET corrected == [v EXCEPT !.nav = [@ EXCEPT
            !.deviation = Assign(SignedEastWest(s, 1), @),
            !.variation = Assign(SignedEastWest(s, 3), @)]]
    IN  Heading(s, corrected.nav.variation + corrected.nav.deviation, corrected)

HDM(s, v) == Heading(s, v.nav.variation, v)

ROT(s, v) ==
    [v EXCEPT !.nav.rate_of_turn =
        IF Text(s, 1) = "A" THEN Assign(Number(s, 0), @) ELSE @]

VHW(s, v) ==
    [Heading(s, 0, v) EXCEPT !.nav.water_speed = Assign(Number(s, 4), @)]

VBW(s, v) ==
    [v EXCEPT !.nav.water_speed =
        IF Text(s, 2) # "V" THEN Assign(Number(s, 0), @) ELSE @]

DPT(s, v) ==
    [v EXCEPT !.env = [@ EXCEPT !.depth = Assign(Number(s, 0), @),
                                !.offset = Assign(Number(s, 1), @)]]

(* DBT: metres, or else feet.                                              *)
DBT(s, v) == [v EXCEPT !.env.depth = Assign(Assign(Number(s, 2), Number(s, 0)), @)]

MTW(s, v) == [v EXCEPT !.env.temperature = Assign(Number(s, 0), @)]

MWV(s, v) ==
    LET angle == Number(s, 0)
        turned(old, added) == IF angle = None THEN old ELSE NormalizeBearing(angle + added)
    IN  IF Text(s, 4) = "V" THEN v
        ELSE IF Text(s, 1) = "T"
        THEN [v EXCEPT !.env = [@ EXCEPT
                !.wind_direction = turned(@, v.nav.heading),
                !.wind_speed = Assign(Number(s, 2), @)]]
        ELSE [v EXCEPT !.env = [@ EXCEPT
                !.apparent_angle = turned(@, 0),
                !.apparent_speed = Assign(Number(s, 2), @)]]

(* MWD: knots, or else metres per second.                                  *)
MWD(s, v) ==
    [v EXCEPT !.env = [@ EXCEPT
        !.wind_direction = IF Number(s, 0) = None THEN @ ELSE NormalizeBearing(Number(s, 0)),
        !.wind_speed = Assign(Assign(Number(s, 4), Number(s, 6)), @)]]

RSA(s, v) ==
    [v EXCEPT !.env.rudder = IF Text(s, 1) = "A" THEN Assign(Number(s, 0), @) ELSE @]

-----------------------------------------------------------------------------
(* Autopilot and engines.                                                  *)

(* RMB: the origin and radius of the leg are not sent; a new name starts a *)
(* leg where the vessel is, the same name keeps the one there is.          *)
RMB(s, v) ==
    LET place == Place(s, 5, None)
        name == IF Text(s, 4) = "" THEN "WPT" ELSE Text(s, 4)
        same == v.destination # None /\ v.destination.name = name
    IN  IF Text(s, 0) # "A" \/ place = None THEN v
        ELSE [v EXCEPT !.destination =
                [name |-> name, place |-> place,
                 origin |-> IF same THEN v.destination.origin ELSE v.nav.place,
                 radius |-> IF same THEN v.destination.radius ELSE 100]]

(* engine_at: the list grows with stopped engines up to the one named.     *)
NewEngine(n) ==
    [label |-> "Engine " \o ToString(n), running |-> FALSE, rpm |-> 0, coolant |-> 20]

Grown(engines, n) ==
    [i \in 1 .. Higher(n, Len(engines)) |->
        IF i <= Len(engines) THEN engines[i] ELSE NewEngine(i)]

AtRpm(engine, rpm) == [engine EXCEPT !.rpm = rpm, !.running = rpm > 0]

RPM(s, v) ==
    LET n == Number(s, 1)
        rpm == Number(s, 2)
    IN  IF Text(s, 4) # "A" \/ Text(s, 0) # "E" \/ n = None \/ rpm = None THEN v
        ELSE IF n \notin 1 .. MaxEngineCount THEN v
        ELSE [v EXCEPT !.engines = [Grown(@, n) EXCEPT ![n] = AtRpm(@, rpm)]]

(* XDR: groups of type, value, unit and name; names ENGINE#n count from 0  *)
(* and stand here as n.                                                    *)
Transducer(s, g, v) ==
    LET n == Number(s, g + 3)
        value == Number(s, g + 1)
        kind == <<Text(s, g), Text(s, g + 2)>>
    IN  IF n = None \/ value = None THEN v
        ELSE IF n \notin 0 .. MaxEngineCount - 1 THEN v
        ELSE CASE kind = <<"C", "C">> ->
                    [v EXCEPT !.engines = [Grown(@, n + 1) EXCEPT ![n + 1].coolant = value]]
               [] kind = <<"T", "R">> ->
                    [v EXCEPT !.engines = [Grown(@, n + 1) EXCEPT ![n + 1] = AtRpm(@, value)]]
               [] OTHER -> v

XDR(s, v) ==
    FoldLeft(LAMBDA w, g : Transducer(s, 4 * (g - 1), w), v,
             [g \in 1 .. Len(s.fields) \div 4 |-> g])

-----------------------------------------------------------------------------
(* apply_sentence: the state after a line.  Encapsulated sentences, which  *)
(* carry AIS, and formatters not listed change nothing.                    *)
Applied(line, v) ==
    LET f == line.formatter
    IN  CASE ~ Parsed(line) \/ line.delimiter # "$" -> v
          [] f = "RMC" -> RMC(line, v)
          [] f = "GGA" -> GGA(line, v)
          [] f = "GLL" -> GLL(line, v)
          [] f = "GNS" -> GNS(line, v)
          [] f \in {"GST", "GBS", "GRS"} -> TimeOnly(line, v)
          [] f = "GSA" -> GSA(line, v)
          [] f = "GSV" -> GSV(line, v)
          [] f = "VTG" -> VTG(line, v)
          [] f = "ZDA" -> ZDA(line, v)
          [] f = "HDT" -> HDT(line, v)
          [] f = "HDG" -> HDG(line, v)
          [] f = "HDM" -> HDM(line, v)
          [] f = "ROT" -> ROT(line, v)
          [] f = "VHW" -> VHW(line, v)
          [] f = "VBW" -> VBW(line, v)
          [] f = "DPT" -> DPT(line, v)
          [] f = "DBT" -> DBT(line, v)
          [] f = "MTW" -> MTW(line, v)
          [] f = "MWV" -> MWV(line, v)
          [] f = "MWD" -> MWD(line, v)
          [] f = "RSA" -> RSA(line, v)
          [] f = "RMB" -> RMB(line, v)
          [] f = "RPM" -> RPM(line, v)
          [] f = "XDR" -> XDR(line, v)
          [] OTHER -> v

AppliedAll(lines, v) == FoldLeft(LAMBDA w, line : Applied(line, w), v, lines)
=============================================================================
