-------------------------------- MODULE Ais --------------------------------
(***************************************************************************)
(* The AIS messages of the own vessel: packing into bits, armouring into   *)
(* six-bit characters and splitting over sentences.                        *)
(***************************************************************************)
EXTENDS VesselState, SequencesExt

CONSTANT MaxPayload    \* kMaxPayloadPerSentence

-----------------------------------------------------------------------------
(* BitPacker.                                                              *)

Unsigned(value, bits) ==
    [b \in 1 .. bits |->
        IF bits - b < 31 THEN (value \div 2 ^ (bits - b)) % 2 ELSE 0]

Signed(value, bits) ==
    LET high == 2 ^ (bits - 1) - 1
    IN  Unsigned(Clamped(value, -high - 1, high) % 2 ^ bits, bits)

(* A character of the six-bit alphabet; 63 stands for any other.           *)
SixBit(c) ==
    LET upper == IF c \in 97 .. 122 THEN c - 32 ELSE c
    IN  IF upper \in 64 .. 95 THEN upper - 64
        ELSE IF upper \in 32 .. 63 THEN upper
        ELSE 63

(* Text of a fixed length, filled with @.                                  *)
SixBitText(text, length) ==
    FlattenSeq([i \in 1 .. length |->
        Unsigned(IF i <= Len(text) THEN SixBit(text[i]) ELSE 0, 6)])

-----------------------------------------------------------------------------
(* The messages.  Speeds, courses and draughts are sent in tenths.         *)

SecondsOfMinute(t) == SecondsOf(TimeOfDay(t)) % 60

ClampUnsigned(value, most) == Clamped(value, 0, most)

(* rate_of_turn_code: 4.733 times the square root, rounded, at most 126.   *)
RateOfTurnCode(rate) ==
    LET size == Higher(rate, -rate)
        code == CHOOSE m \in 0 .. 126 :
                    /\ m = 126 \/ 10 * (2 * m + 1) ^ 2 > 896 * size
                    /\ m = 0 \/ 10 * (2 * m - 1) ^ 2 <= 896 * size
    IN  IF rate < 0 THEN -code ELSE code

HeadingCode(heading) == NormalizeBearing(heading)

NoLongitude == 181 * 600000
NoLatitude == 91 * 600000

(* Mutant of PackPositionReport: the position is sent without a fix too.   *)
PackPositionReport_Always(s) ==
    Unsigned(1, 6) \o Unsigned(0, 2) \o Unsigned(s.ais.mmsi, 30)
    \o Unsigned(Clamped(s.ais.status, 0, 15), 4)
    \o Signed(RateOfTurnCode(s.nav.rate_of_turn), 8)
    \o Unsigned(ClampUnsigned(10 * s.nav.speed, 1022), 10)
    \o Unsigned(0, 1)
    \o Signed(600000 * s.nav.place[2], 28) \o Signed(600000 * s.nav.place[1], 27)
    \o Unsigned(ClampUnsigned(10 * s.nav.course, 3599), 12)
    \o Unsigned(HeadingCode(s.nav.heading), 9)
    \o Unsigned(SecondsOfMinute(s.time), 6)
    \o Unsigned(0, 25)

(* Message 1, 2 or 3.                                                      *)
PackPositionReport(s) ==
    LET fix == s.gnss.has_fix
    IN  Unsigned(IF s.ais.report \in 1 .. 3 THEN s.ais.report ELSE 1, 6)
        \o Unsigned(0, 2) \o Unsigned(s.ais.mmsi, 30)
        \o Unsigned(Clamped(s.ais.status, 0, 15), 4)
        \o Signed(RateOfTurnCode(s.nav.rate_of_turn), 8)
        \o Unsigned(IF fix THEN ClampUnsigned(10 * s.nav.speed, 1022) ELSE 1023, 10)
        \o Unsigned(IF fix /\ s.gnss.quality = "Differential" THEN 1 ELSE 0, 1)
        \o Signed(IF fix THEN 600000 * s.nav.place[2] ELSE NoLongitude, 28)
        \o Signed(IF fix THEN 600000 * s.nav.place[1] ELSE NoLatitude, 27)
        \o Unsigned(IF fix THEN ClampUnsigned(10 * s.nav.course, 3599) ELSE 3600, 12)
        \o Unsigned(HeadingCode(s.nav.heading), 9)
        \o Unsigned(SecondsOfMinute(s.time), 6)
        \o Unsigned(0, 25)

(* Message 5.                                                              *)
PackStaticData(s) ==
    LET a == s.ais
        dimension(i, most) == ClampUnsigned(a.dimensions[i], most)
    IN  Unsigned(5, 6) \o Unsigned(0, 2) \o Unsigned(a.mmsi, 30)
        \o Unsigned(0, 2) \o Unsigned(a.imo, 30)
        \o SixBitText(a.call_sign, 7) \o SixBitText(a.name, 20)
        \o Unsigned(Clamped(a.ship_type, 0, 255), 8)
        \o Unsigned(dimension(1, 511), 9) \o Unsigned(dimension(2, 511), 9)
        \o Unsigned(dimension(3, 63), 6) \o Unsigned(dimension(4, 63), 6)
        \o Unsigned(1, 4) \o Unsigned(0, 4) \o Unsigned(0, 5)
        \o Unsigned(24, 5) \o Unsigned(60, 6)
        \o Unsigned(ClampUnsigned(10 * a.draught, 255), 8)
        \o SixBitText(a.destination, 20) \o Unsigned(0, 2)

-----------------------------------------------------------------------------
(* armor: six bits to a character, missing ones filled in; the alphabet    *)
(* has a gap between W and the backquote.                                  *)
ArmorCharacter(value) == IF value < 40 THEN value + 48 ELSE value + 56

BitAt(bits, b) == IF b <= Len(bits) THEN bits[b] ELSE 0
Armor(bits) ==
    [text |-> [i \in 1 .. (Len(bits) + 5) \div 6 |->
        ArmorCharacter(32 * BitAt(bits, 6 * i - 5) + 16 * BitAt(bits, 6 * i - 4)
                       + 8 * BitAt(bits, 6 * i - 3) + 4 * BitAt(bits, 6 * i - 2)
                       + 2 * BitAt(bits, 6 * i - 1) + BitAt(bits, 6 * i))],
     fill |-> (6 - (Len(bits) % 6)) % 6]

(* unarmor: the six-bit value of a character, -1 outside the alphabet.     *)
Unarmor(c) ==
    IF c \in 48 .. 87 THEN c - 48 ELSE IF c \in 96 .. 119 THEN c - 56 ELSE -1

(* The id that the sentences of one message share.                         *)
AisSequence(s) == SecondsOf(s.time) % 10

(* frame_payload: the parts of a payload, numbered from one; only the last *)
(* one has fill bits, and a single part has no id.                         *)
Fragments(payload, sequence) ==
    LET total == Higher(1, (Len(payload.text) + MaxPayload - 1) \div MaxPayload)
    IN  [i \in 1 .. total |->
            [total |-> total, index |-> i,
             sequence |-> IF total > 1 THEN Clamped(sequence, 0, 9) ELSE None,
             text |-> SubSeq(payload.text, (i - 1) * MaxPayload + 1,
                             Lower(i * MaxPayload, Len(payload.text))),
             fill |-> IF i = total THEN payload.fill ELSE 0]]

(* encode_ais.                                                             *)
EncodeAis(s, static) ==
    Fragments(Armor(IF static THEN PackStaticData(s) ELSE PackPositionReport(s)),
              AisSequence(s))
=============================================================================
