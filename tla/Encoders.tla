------------------------------ MODULE Encoders ------------------------------
(***************************************************************************)
(* The sentences made of a vessel state, one operator for each formatter,  *)
(* the table of them (SentenceRegistry) and the choice of the position's   *)
(* decimals that keeps a sentence within the length NMEA 0183 allows.      *)
(***************************************************************************)
EXTENDS Decoder, Ais

CONSTANTS
    Unsendable,   \* waypoint names of which no character may be sent
    BareWidth,    \* width of each sentence without the decimals of a position
    MaxWidth      \* kMaxSentenceLengthWithoutTerminator

-----------------------------------------------------------------------------
(* What the sentences share.                                               *)

(* GSA has twelve slots and the simulated sky as many satellites.          *)
MaxSatellites == 12
PerGsvSentence == 4
Satellites == <<2, 5, 7, 9, 12, 15, 19, 21, 24, 25, 29, 30>>
ClampSatellites(n) == Clamped(n, 0, MaxSatellites)

(* satellite_view: elevation, azimuth and signal, from the number alone.   *)
SatelliteView(prn) ==
    <<Num(prn), Num(15 + ((prn * 7) % 70)), Num((prn * 37) % 360), Num(30 + (prn % 15))>>

Blank(n) == [i \in 1 .. n |-> Empty]

(* format_time truncates to hundredths of a second.                        *)
TimeFieldOf(t) == Num(TimeOfDay(t) - (t % 10))

Magnitude(n) == Num(Higher(n, -n))
EastWest(n) == Txt(IF n < 0 THEN "W" ELSE "E")

PlaceFields(place) ==
    <<Magnitude(place[1]), Txt(IF place[1] < 0 THEN "S" ELSE "N"),
      Magnitude(place[2]), EastWest(place[2])>>
AddPosition(s) == IF s.gnss.has_fix THEN PlaceFields(s.nav.place) ELSE Blank(4)

ModeIndicator(s) ==
    Txt(IF ~ s.gnss.has_fix THEN "N"
        ELSE IF s.gnss.quality = "Differential" THEN "D" ELSE "A")
Valid(flag) == Txt(IF flag THEN "A" ELSE "V")
StatusIndicator(s) == Valid(s.gnss.has_fix)

QualityCode == [Invalid |-> 0, Gps |-> 1, Differential |-> 2]

-----------------------------------------------------------------------------
(* GNSS.                                                                   *)

EncodeRMC(s) ==
    <<Sentence("RMC",
        <<TimeFieldOf(s.time), StatusIndicator(s)>> \o AddPosition(s)
        \o (IF s.gnss.has_fix THEN <<Num(s.nav.speed), Num(s.nav.course)>> ELSE Blank(2))
        \o <<Num(DateOf(s.time)), Magnitude(s.nav.variation), EastWest(s.nav.variation),
             ModeIndicator(s)>>)>>

EncodeGGA(s) ==
    <<Sentence("GGA",
        <<TimeFieldOf(s.time)>> \o AddPosition(s)
        \o (IF s.gnss.has_fix
            THEN <<Num(QualityCode[s.gnss.quality]), Num(ClampSatellites(s.gnss.in_use)),
                   Num(s.gnss.hdop), Num(s.nav.altitude), Txt("M"),
                   Num(s.gnss.geoid), Txt("M")>>
            ELSE <<Num(0), Num(0), Empty, Empty, Txt("M"), Empty, Txt("M")>>)
        \o Blank(2))>>

EncodeGLL(s) ==
    <<Sentence("GLL",
        AddPosition(s) \o <<TimeFieldOf(s.time), StatusIndicator(s), ModeIndicator(s)>>)>>

EncodeGSA(s) ==
    LET used == IF s.gnss.has_fix THEN ClampSatellites(s.gnss.in_use) ELSE 0
    IN  <<Sentence("GSA",
            <<Txt("A"), Num(IF s.gnss.has_fix THEN 3 ELSE 1)>>
            \o [i \in 1 .. MaxSatellites |-> IF i <= used THEN Num(Satellites[i]) ELSE Empty]
            \o (IF s.gnss.has_fix
                THEN <<Num(s.gnss.pdop), Num(s.gnss.hdop), Num(s.gnss.vdop)>>
                ELSE Blank(3)))>>

EncodeGSV(s) ==
    LET seen == IF s.gnss.has_fix
                THEN Higher(ClampSatellites(s.gnss.in_view), ClampSatellites(s.gnss.in_use))
                ELSE 0
        total == (seen + PerGsvSentence - 1) \div PerGsvSentence
        views(i) == FlattenSeq([k \in 1 .. Lower(PerGsvSentence, seen - PerGsvSentence * (i - 1))
                                  |-> SatelliteView(Satellites[PerGsvSentence * (i - 1) + k])])
    IN  IF seen = 0 THEN <<Sentence("GSV", <<Num(1), Num(1), Num(0)>>)>>
        ELSE [i \in 1 .. total |->
                Sentence("GSV", <<Num(total), Num(i), Num(seen)>> \o views(i))]

EncodeVTG(s) ==
    LET fixed(n) == IF s.gnss.has_fix THEN Num(n) ELSE Empty
    IN  <<Sentence("VTG",
            <<fixed(s.nav.course), Txt("T"), fixed(CourseMagnetic(s)), Txt("M"),
              fixed(s.nav.speed), Txt("N"), fixed(s.nav.speed), Txt("K"),
              ModeIndicator(s)>>)>>

(* The day's field stands for day, month and year.                         *)
EncodeZDA(s) == <<Sentence("ZDA", <<TimeFieldOf(s.time), Num(DateOf(s.time))>>)>>

-----------------------------------------------------------------------------
(* Heading, speed, depth, wind and steering.  A speed in kilometres an     *)
(* hour or a depth in feet is the same number of the model's units.        *)

EncodeHDG(s) ==
    <<Sentence("HDG",
        <<Num(HeadingCompass(s)), Magnitude(s.nav.deviation), EastWest(s.nav.deviation),
          Magnitude(s.nav.variation), EastWest(s.nav.variation)>>)>>

EncodeHDM(s) == <<Sentence("HDM", <<Num(HeadingMagnetic(s)), Txt("M")>>)>>
EncodeHDT(s) == <<Sentence("HDT", <<Num(s.nav.heading), Txt("T")>>)>>

EncodeVHW(s) ==
    <<Sentence("VHW",
        <<Num(s.nav.heading), Txt("T"), Num(HeadingMagnetic(s)), Txt("M"),
          Num(s.nav.water_speed), Txt("N"), Num(s.nav.water_speed), Txt("K")>>)>>

(* Of the ground speed's components along and across the vessel only their *)
(* signs are told apart.                                                   *)
EncodeVBW(s) ==
    LET drift == NormalizeBearing(s.nav.course - s.nav.heading)
    IN  <<Sentence("VBW",
            <<Num(s.nav.water_speed), Num(0), Txt("A"),
              Num(s.nav.speed * Cosine(drift)),
              Num(s.nav.speed * Cosine(NormalizeBearing(drift - Circle \div 4))), Txt("A"),
              Num(0), Txt("A"), Num(0), Txt("A")>>)>>

EncodeROT(s) == <<Sentence("ROT", <<Num(s.nav.rate_of_turn), Txt("A")>>)>>
EncodeDPT(s) == <<Sentence("DPT", <<Num(s.env.depth), Num(s.env.offset), Empty>>)>>

EncodeDBT(s) ==
    <<Sentence("DBT", <<Num(s.env.depth), Txt("f"), Num(s.env.depth), Txt("M"),
                        Num(s.env.depth), Txt("F")>>)>>

EncodeMTW(s) == <<Sentence("MTW", <<Num(s.env.temperature), Txt("C")>>)>>

EncodeApparentMWV(s) ==
    <<Sentence("MWV", <<Num(s.env.apparent_angle), Txt("R"), Num(s.env.apparent_speed),
                        Txt("N"), Txt("A")>>)>>
EncodeTrueMWV(s) ==
    <<Sentence("MWV", <<Num(WindAngle(s)), Txt("T"), Num(s.env.wind_speed),
                        Txt("N"), Txt("A")>>)>>

EncodeMWD(s) ==
    <<Sentence("MWD",
        <<Num(s.env.wind_direction), Txt("T"), Num(Magnetic(s, s.env.wind_direction)), Txt("M"),
          Num(s.env.wind_speed), Txt("N"), Num(s.env.wind_speed), Txt("M")>>)>>

EncodeRSA(s) == <<Sentence("RSA", <<Num(s.env.rudder), Txt("A"), Empty, Txt("V")>>)>>

-----------------------------------------------------------------------------
(* Autopilot: nothing without a destination.                               *)

SanitizeWaypointName(name) == IF name \in Unsendable THEN "WPT" ELSE name

(* autopilot_view.                                                         *)
AutopilotView(s) ==
    LET d == s.destination
        leg == SolveLeg(d.origin, d.place, s.nav.place)
    IN  [name |-> Txt(SanitizeWaypointName(d.name)),
         leg |-> leg,
         cross |-> Magnitude(leg.cross),
         steer |-> Txt(IF leg.cross > 0 THEN "L" ELSE "R"),
         arrived |-> Valid(leg.distance <= d.radius),
         passed |-> Valid(leg.along >= leg.length)]

EncodeAPB(s) ==
    IF s.destination = None THEN <<>>
    ELSE LET v == AutopilotView(s)
             bearing == <<Num(v.leg.bearing), Txt("T")>>
         IN  <<Sentence("APB",
                <<Txt("A"), Txt("A"), v.cross, v.steer, Txt("N"), v.arrived, v.passed,
                  Num(v.leg.leg_bearing), Txt("T"), v.name>>
                \o bearing \o bearing \o <<ModeIndicator(s)>>)>>

(* The range is at most 999.9 miles, and the closing speed is the part of  *)
(* the speed along the bearing.                                            *)
MaxRange == 999
EncodeRMB(s) ==
    IF s.destination = None THEN <<>>
    ELSE LET v == AutopilotView(s)
             closing == s.nav.speed * Cosine(NormalizeBearing(s.nav.course - v.leg.bearing))
         IN  <<Sentence("RMB",
                <<Txt("A"), v.cross, v.steer, Empty, v.name>>
                \o PlaceFields(s.destination.place)
                \o <<Num(Lower(v.leg.distance, MaxRange)), Num(v.leg.bearing), Num(closing),
                     v.arrived, ModeIndicator(s)>>)>>

EncodeXTE(s) ==
    IF s.destination = None THEN <<>>
    ELSE LET v == AutopilotView(s)
         IN  <<Sentence("XTE", <<Txt("A"), Txt("A"), v.cross, v.steer, Txt("N"),
                                 ModeIndicator(s)>>)>>

-----------------------------------------------------------------------------
(* Engines, a sentence each: numbered from one in RPM, from zero in XDR.   *)

EncodeRPM(s) ==
    [i \in 1 .. Len(s.engines) |->
        Sentence("RPM", <<Txt("E"), Num(i), Num(Revolutions(s.engines[i])), Empty, Txt("A")>>)]

EncodeXDR(s) ==
    [i \in 1 .. Len(s.engines) |->
        Sentence("XDR",
            <<Txt("C"), Num(s.engines[i].coolant), Txt("C"), Num(i - 1),
              Txt("T"), Num(Revolutions(s.engines[i])), Txt("R"), Num(i - 1)>>)]

(* AIS: an encapsulated sentence for each part of the message.             *)
EncodeAisSentences(s, formatter, static) ==
    LET parts == EncodeAis(s, static)
        number(n) == IF n = None THEN Empty ELSE Num(n)
    IN  [i \in 1 .. Len(parts) |->
            [Sentence(formatter,
                <<Num(parts[i].total), Num(i), number(parts[i].sequence), Txt("A"),
                  Txt(parts[i].text), Num(parts[i].fill)>>)
             EXCEPT !.delimiter = "!"]]

-----------------------------------------------------------------------------
(* SentenceRegistry::standard, in its order.                               *)
Registry ==
    <<"RMC", "GGA", "GLL", "GSA", "GSV", "VTG", "ZDA", "HDG", "HDM", "HDT", "ROT",
      "VHW", "VBW", "DPT", "DBT", "MTW", "MWV-R", "MWV-T", "MWD", "RSA", "APB", "RMB",
      "XTE", "RPM", "XDR", "VDO-POS", "VDO-STATIC", "VDM-POS", "VDM-STATIC">>

OffByDefault == {"MWV-T", "VDM-POS", "VDM-STATIC"}
DefaultPeriod(id) ==
    CASE id \in {"VDO-POS", "VDM-POS"} -> 2000
      [] id \in {"VDO-STATIC", "VDM-STATIC"} -> 30000
      [] OTHER -> 1000

Encode(id, s) ==
    CASE id = "RMC" -> EncodeRMC(s)  [] id = "GGA" -> EncodeGGA(s)
      [] id = "GLL" -> EncodeGLL(s)  [] id = "GSA" -> EncodeGSA(s)
      [] id = "GSV" -> EncodeGSV(s)  [] id = "VTG" -> EncodeVTG(s)
      [] id = "ZDA" -> EncodeZDA(s)  [] id = "HDG" -> EncodeHDG(s)
      [] id = "HDM" -> EncodeHDM(s)  [] id = "HDT" -> EncodeHDT(s)
      [] id = "ROT" -> EncodeROT(s)  [] id = "VHW" -> EncodeVHW(s)
      [] id = "VBW" -> EncodeVBW(s)  [] id = "DPT" -> EncodeDPT(s)
      [] id = "DBT" -> EncodeDBT(s)  [] id = "MTW" -> EncodeMTW(s)
      [] id = "MWV-R" -> EncodeApparentMWV(s)
      [] id = "MWV-T" -> EncodeTrueMWV(s)
      [] id = "MWD" -> EncodeMWD(s)  [] id = "RSA" -> EncodeRSA(s)
      [] id = "APB" -> EncodeAPB(s)  [] id = "RMB" -> EncodeRMB(s)
      [] id = "XTE" -> EncodeXTE(s)  [] id = "RPM" -> EncodeRPM(s)
      [] id = "XDR" -> EncodeXDR(s)
      [] id = "VDO-POS" -> EncodeAisSentences(s, "VDO", FALSE)
      [] id = "VDO-STATIC" -> EncodeAisSentences(s, "VDO", TRUE)
      [] id = "VDM-POS" -> EncodeAisSentences(s, "VDM", FALSE)
      [] id = "VDM-STATIC" -> EncodeAisSentences(s, "VDM", TRUE)

(* encode_within_limit: the most decimals, of those wanted but never less  *)
(* than two, with which a sentence that carries a position fits; two when  *)
(* none does.                                                              *)
MinDecimals == 2
Fits(id, decimals) == BareWidth[id] + 2 * decimals <= MaxWidth
Decimals(id, wanted) ==
    LET tried == MinDecimals .. Higher(wanted, MinDecimals)
        fitting == {d \in tried : Fits(id, d)}
    IN  IF fitting = {} THEN MinDecimals
        ELSE CHOOSE d \in fitting : \A e \in fitting : e <= d
=============================================================================
