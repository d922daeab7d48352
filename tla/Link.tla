-------------------------------- MODULE Link --------------------------------
(***************************************************************************)
(* A simulated vessel heard by a receiver: at each emission the enabled    *)
(* sentences are encoded from one state, in the registry's order, and the  *)
(* receiver applies those that arrive to a state of its own.  A Signal K   *)
(* client is told of the same state in one message.                        *)
(*                                                                         *)
(* Lines arrive in order, and all lines of some formatters may be lost.    *)
(***************************************************************************)
EXTENDS Encoders, SignalK, Framing

CONSTANTS
    Snapshots,      \* vessel states the sender may be in, but for their time
    Strangers,      \* states the receiver may start from
    EnabledSets,    \* sets of sentences that may be enabled
    Typed,          \* custom sentences the operator may have typed
    Losses,         \* formatters of which the lines of an emission may be lost
    Steps,          \* time between two emissions
    MaxTime         \* bound on the sender's clock

VARIABLES
    enabled,      \* the sentences that are sent
    sender,       \* the vessel state of the simulation
    wire,         \* lines on the way
    complete,     \* history: no line of the last emission was lost
    receiver,     \* the vessel state of whoever listens
    published,    \* what the last delta told the Signal K client
    clock         \* history: the time last heard, and whether its day is sure

linkVars == <<enabled, sender, wire, complete, receiver, published, clock>>

Centiseconds(t) == t - (t % 10)
AllPaths(s) == {PathValues(s)[i][1] : i \in DOMAIN PathValues(s)}
Options == [context |-> None, label |-> "nmeasim"]

(* due_sentences when everything is due: the enabled sentences in the      *)
(* registry's order, then the custom ones.                                 *)
Emission(s) ==
    FlattenSeq([i \in 1 .. Len(Registry) |->
        IF Registry[i] \in enabled THEN Encode(Registry[i], s) ELSE <<>>])
    \o FlattenSeq([i \in 1 .. Len(Typed) |-> FrameCustom(Typed[i])])

LinkInit ==
    /\ enabled \in EnabledSets
    /\ sender \in Snapshots
    /\ wire = <<>>
    /\ complete = FALSE
    /\ receiver \in Strangers
    /\ published = <<>>
    /\ clock = [time |-> 0, sure |-> FALSE]

Emit(s, dt) ==
    /\ wire = <<>>
    /\ sender.time + dt <= MaxTime
    /\ LET now == [s EXCEPT !.time = sender.time + dt]
       IN  /\ sender' = now
           /\ wire' = Emission(now)
           /\ published' = EncodeDelta(now, Options, AllPaths(now)).values
    /\ complete' = TRUE
    /\ UNCHANGED <<enabled, receiver, clock>>

(* The receiver applies the lines that arrive, in order.                   *)
Receive(lost) ==
    /\ wire # <<>>
    /\ wire' = <<>>
    /\ complete' = (lost = {})
    /\ LET arrived == SelectSeq(wire, LAMBDA line : line.formatter \notin lost)
           timed == {i \in DOMAIN arrived :
                        Parsed(arrived[i]) /\ SentenceTime(arrived[i]) # None}
           dated == {i \in timed : SentenceDate(arrived[i]) # None}
           now == Centiseconds(sender.time)
       IN  /\ receiver' = AppliedAll(arrived, receiver)
           /\ clock' = IF timed = {} THEN clock
                       ELSE [time |-> now,
                             sure |-> dated # {}
                                \/ (clock.sure /\ 2 * (now - clock.time) < Day)]
    /\ UNCHANGED <<enabled, sender, published>>

LinkNext ==
    \/ \E s \in Snapshots, dt \in Steps : Emit(s, dt)
    \/ \E lost \in Losses : Receive(lost)

LinkSpec == LinkInit /\ [][LinkNext]_linkVars

-----------------------------------------------------------------------------
(* The leg's origin is not in any sentence, nor is an engine's label, nor  *)
(* more satellites than a sentence names; times are in hundredths.         *)
NotCarried(s) ==
    {"navigation.datetime", "navigation.courseRhumbline.previousPoint.position",
     "navigation.courseRhumbline.bearingTrackTrue",
     "navigation.courseRhumbline.crossTrackError"}
    \cup (IF s.gnss.has_fix THEN {}
          ELSE {"navigation.courseRhumbline.nextPoint.position",
                "navigation.courseRhumbline.nextPoint.bearingTrue",
                "navigation.courseRhumbline.nextPoint.distance",
                "navigation.courseRhumbline.nextPoint.velocityMadeGood"})
    \cup (IF s.gnss.in_use > MaxSatellites THEN {"navigation.gnss.satellites"} ELSE {})

(* The receiver's view of a state, with the sender's engine labels.        *)
Labelled(v) ==
    [v EXCEPT !.engines = [i \in 1 .. Lower(Len(@), Len(sender.engines)) |->
        [@[i] EXCEPT !.label = sender.engines[i].label]]]

(* A listener's reading of the last message of the own vessel's position,  *)
(* by the places ITU-R M.1371 gives its fields.                            *)
BitsOf(text) == FlattenSeq([i \in 1 .. Len(text) |-> Unsigned(Unarmor(text[i]), 6)])
ReadBits(bits, first, width) ==
    FoldLeft(LAMBDA n, b : 2 * n + b, 0, SubSeq(bits, first + 1, first + width))
ReadSigned(bits, first, width) ==
    LET n == ReadBits(bits, first, width)
    IN  IF bits[first + 1] = 1 THEN n - 2 ^ width ELSE n

HearsPosition(s) ==
    LET parts == Encode("VDO-POS", s)
        bits == BitsOf(parts[1].fields[5].text)
    IN  /\ Len(parts) = 1
        /\ Len(bits) - parts[1].fields[6].number = 168
        /\ ReadBits(bits, 8, 30) = s.ais.mmsi
        /\ s.gnss.has_fix =>
            /\ ReadBits(bits, 50, 10) = 10 * s.nav.speed
            /\ ReadSigned(bits, 61, 28) = 600000 * s.nav.place[2]
            /\ ReadSigned(bits, 89, 27) = 600000 * s.nav.place[1]
        /\ ~ s.gnss.has_fix => ReadSigned(bits, 61, 28) > 180 * 600000
        /\ ReadBits(bits, 128, 9) = s.nav.heading
        /\ ReadBits(bits, 137, 6) = SecondsOf(s.time) % 60

(* The static data is put together from its parts in whatever order, and   *)
(* its last field begins where message 5 has it.                           *)
HearsStaticData(s) ==
    LET parts == Encode("VDO-STATIC", s)
        bits == FlattenSeq([i \in 1 .. Len(parts) |-> BitsOf(parts[i].fields[5].text)])
    IN  /\ \A i \in 1 .. Len(parts) : parts[i].fields[1].number = Len(parts)
        /\ Cardinality({parts[i].fields[3].number : i \in 1 .. Len(parts)}) = 1
        /\ Len(bits) - parts[Len(parts)].fields[6].number = 424
        /\ ReadBits(bits, 8, 30) = s.ais.mmsi
        /\ ReadBits(bits, 294, 8) = 10 * s.ais.draught
        /\ SubSeq(bits, 303, 422) = SixBitText(s.ais.destination, 20)

(* A sentence with a position has as many of the decimals asked for as fit *)
(* the width, but never fewer than two.                                    *)
KeepsTheWidth ==
    \A id \in enabled \cap DOMAIN BareWidth, wanted \in 0 .. 8 :
        LET d == Decimals(id, wanted)
        IN  /\ Fits(id, d) \/ d = MinDecimals
            /\ d < wanted => ~ Fits(id, d + 1)

(* Every line that is sent is one that a reader accepts.  Once a whole     *)
(* emission of the sentences that are on by default has arrived,           *)
(* the receiver publishes the same values as the sender, whatever it held  *)
(* before, and a listener to the AIS sentences reads the vessel's          *)
(* identity, position and voyage (encoders.cpp against decoder.cpp,        *)
(* ais/messages.cpp and signalk/delta.cpp).                                *)
HearsWhatIsSent ==
    /\ \A i \in DOMAIN wire : Parsed(wire[i])
    /\ KeepsTheWidth
    /\ (wire = <<>> /\ complete /\ OffByDefault \cup enabled = Range(Registry)) =>
        LET heard == PathValues(Labelled(receiver))
        IN  /\ \A i \in DOMAIN published :
                published[i][1] \notin NotCarried(sender) =>
                    \E k \in DOMAIN heard :
                        heard[k][1] = published[i][1] /\ heard[k][2] = published[i][2]
            /\ HearsPosition(sender)
            /\ HearsStaticData(sender)

(* From the first sentence with a date on, the receiver's clock is the     *)
(* sender's, over midnight too, as long as the sentences with a time come  *)
(* less than half a day apart (decoder.cpp apply_time).                    *)
ClockFollows == clock.sure => receiver.time = clock.time
=============================================================================
