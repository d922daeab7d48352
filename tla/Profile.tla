------------------------------- MODULE Profile -------------------------------
(***************************************************************************)
(* Profiles: how a document is read, with the defaults and ranges of its   *)
(* keys, how a profile is written, and the files that its paths name when  *)
(* it is saved somewhere else (io/profile/profile.cpp).                    *)
(*                                                                         *)
(* A document is flat here: a key of a nested object has the object's name *)
(* before it, and an object of the wrong type has none of its keys.  A     *)
(* destination, which may be missing, is a set of at most one.  The number *)
(* of a document counts quarters, so that some are not whole and some are  *)
(* nearer to one whole than to the other.  Files and directories are       *)
(* places on a line: a relative path is a displacement.                    *)
(***************************************************************************)
EXTENDS Integers, Sequences, FiniteSets, TLC, Functions

CONSTANTS
    None,            \* a key, an option or a directory that is not there
    LargestInt,      \* largest int, which toInt reads exactly
    LargestSeed,     \* largest random seed
    NineDigits,      \* largest MMSI and IMO number
    DefaultSetting,  \* of each id of the registry: enabled, no talker, period
    UpperCase,       \* of a text that is not trimmed and upper-case already
    Bodies,          \* bodies of custom sentences that pass the checks
    WorkingDirectory \* of the process

-----------------------------------------------------------------------------
(* Tables: one key set, and one table before another.                      *)
With(f, key, value) == [k \in DOMAIN f \cup {key} |-> IF k = key THEN value ELSE f[k]]
Over(f, g) == [k \in DOMAIN f \cup DOMAIN g |-> IF k \in DOMAIN f THEN f[k] ELSE g[k]]

-----------------------------------------------------------------------------
(* Values of a document, and how the helpers read them: a key that is      *)
(* missing or of another type gives the fallback.                          *)

Unit == 4
SentenceIds == DOMAIN DefaultSetting

JsonNumber(quarters) == [number |-> quarters]
JsonInt(n) == JsonNumber(Unit * n)
JsonText(t) == [text |-> t]
JsonFlag(b) == [flag |-> b]

Upper(text) == IF text \in DOMAIN UpperCase THEN UpperCase[text] ELSE text

Has(o, key, type) == key \in DOMAIN o /\ type \in DOMAIN o[key]

Number(o, key, fallback) == IF Has(o, key, "number") THEN o[key].number ELSE fallback
Flag(o, key, fallback) == IF Has(o, key, "flag") THEN o[key].flag ELSE fallback
Text(o, key, fallback) == IF Has(o, key, "text") THEN o[key].text ELSE fallback

Exact(quarters) ==
    quarters % Unit = 0 /\ quarters \div Unit \in -LargestInt - 1 .. LargestInt
WholeNumber(o, key, fallback) ==
    IF Has(o, key, "number") /\ Exact(o[key].number) THEN o[key].number \div Unit ELSE fallback

(* unsigned_integer: a number that is not whole or not in 0..maximum is    *)
(* refused rather than replaced.                                           *)
Refused(o, key, maximum) ==
    /\ Has(o, key, "number")
    /\ o[key].number % Unit # 0 \/ o[key].number \div Unit \notin 0 .. maximum

(* Reading a table of keys with their defaults.                            *)
Numbers(o, defaults) == [k \in DOMAIN defaults |-> Number(o, k, defaults[k])]
Integers_(o, defaults) == [k \in DOMAIN defaults |-> WholeNumber(o, k, defaults[k])]
Flags(o, defaults) == [k \in DOMAIN defaults |-> Flag(o, k, defaults[k])]
Texts(o, defaults) == [k \in DOMAIN defaults |-> Text(o, k, defaults[k])]

(* And writing one, of tables that have no key in common.                  *)
Written(numbers, integers, flags, texts) ==
    [k \in DOMAIN numbers \cup DOMAIN integers \cup DOMAIN flags \cup DOMAIN texts |->
        CASE k \in DOMAIN numbers -> JsonNumber(numbers[k])
          [] k \in DOMAIN integers -> JsonInt(integers[k])
          [] k \in DOMAIN flags -> JsonFlag(flags[k])
          [] k \in DOMAIN texts -> JsonText(texts[k])]

Absolute(place) == [relative |-> FALSE, at |-> place]
Relative(displacement) == [relative |-> TRUE, at |-> displacement]
NoPath == [relative |-> FALSE, at |-> None]

-----------------------------------------------------------------------------
(* Outputs: the keys, their defaults and what is accepted.                 *)

OutputTypes == {"tcp-server", "tcp-client", "udp", "websocket-server", "serial",
                "file", "stdout", "log"}
Encodings == {"nmea0183", "signalk", "viewsync"}

Allowed ==
    [encoding |-> Encodings,
     mode |-> {"unicast", "broadcast", "multicast"},
     parity |-> {"none", "even", "odd", "mark", "space"},
     stop_bits |-> {"1", "1.5", "2"},
     flow_control |-> {"none", "hardware", "software"}]

OutputNumbers ==
    [k \in {"viewsync.camera_altitude_m", "viewsync.tilt_deg", "viewsync.roll_deg"} |->
        CASE k = "viewsync.camera_altitude_m" -> 2000
          [] k = "viewsync.tilt_deg" -> 240
          [] OTHER -> 0]
OutputIntegers == [period_ms |-> 1000, port |-> 10110, reconnect_ms |-> 2000,
                   multicast_ttl |-> 1, baud_rate |-> 4800, data_bits |-> 8]
OutputFlags ==
    [k \in {"enabled", "append", "tag_block.enabled", "tag_block.include_time",
            "tag_block.milliseconds"} |-> k \in {"enabled", "append", "tag_block.include_time"}]
OutputTexts ==
    [k \in {"encoding", "tag_block.source", "signalk.context", "signalk.source_label",
            "viewsync.planet", "bind_address", "host", "mode", "address", "interface",
            "port_name", "parity", "stop_bits", "flow_control"} |->
        CASE k = "encoding" -> "nmea0183"
          [] k = "tag_block.source" -> "SIM0001"
          [] k = "signalk.source_label" -> "nmeasim"
          [] k = "bind_address" -> "0.0.0.0"
          [] k \in {"host", "address"} -> "127.0.0.1"
          [] k = "mode" -> "unicast"
          [] k \in {"parity", "flow_control"} -> "none"
          [] k = "stop_bits" -> "1"
          [] OTHER -> ""]

(* An hour, a minute and ten seconds, in milliseconds; and a port.         *)
LongestPeriod == 3600000
LongestInterval == 60000
LongestTick == 10000
LargestPort == 65535
Period == 50 .. LongestPeriod

OutputRange ==
    [period_ms |-> Period, port |-> 0 .. LargestPort, reconnect_ms |-> 1 .. LongestPeriod,
     multicast_ttl |-> 1 .. 255, baud_rate |-> 1 .. LargestInt, data_bits |-> 5 .. 8]

(* OutputConfig as its initialisers leave it.                              *)
DefaultOutput ==
    [type |-> "tcp-server", numbers |-> OutputNumbers, integers |-> OutputIntegers,
     flags |-> OutputFlags, texts |-> OutputTexts, path |-> NoPath, filter |-> <<>>]

(* The keys that an encoding and a type use.                               *)
EncodingKeys ==
    [nmea0183 |-> {"tag_block.enabled", "tag_block.source", "tag_block.include_time",
                   "tag_block.milliseconds"},
     signalk |-> {"period_ms", "signalk.context", "signalk.source_label"},
     viewsync |-> {"period_ms", "viewsync.camera_altitude_m", "viewsync.tilt_deg",
                   "viewsync.roll_deg", "viewsync.planet"}]

TypeKeys(type) ==
    CASE type \in {"tcp-server", "websocket-server"} -> {"bind_address", "port"}
      [] type = "tcp-client" -> {"host", "port", "reconnect_ms"}
      [] type = "udp" -> {"mode", "address", "port", "interface", "multicast_ttl"}
      [] type = "serial" -> {"port_name", "baud_rate", "data_bits", "parity", "stop_bits",
                             "flow_control"}
      [] type \in {"file", "log"} -> {"path", "append"}
      [] OTHER -> {}

UsedKeys(output) ==
    {"type", "enabled", "encoding", "filter"}
    \cup EncodingKeys[output.texts["encoding"]] \cup TypeKeys(output.type)

(* output_to_json: the keys that are used, and no others.                  *)
OutputToJson(output) ==
    LET texts == Over([type |-> output.type, path |-> output.path, filter |-> output.filter],
                      output.texts)
    IN  Restrict(Written(output.numbers, output.integers, output.flags, texts),
                 UsedKeys(output))

(* output_from_json: the keys of the encoding are read whatever the        *)
(* encoding; those of a transport only for the types that use them.        *)
ReadAlways == {"enabled", "encoding", "period_ms", "bind_address", "host", "append"}
              \cup UNION {EncodingKeys[e] : e \in Encodings}

OutputFromJson(o) ==
    LET type == Text(o, "type", "")
        taken == Restrict(o, (ReadAlways \cup TypeKeys(type)) \cap DOMAIN o)
    IN  [type |-> type,
         numbers |-> Numbers(taken, OutputNumbers),
         integers |-> Integers_(taken, OutputIntegers),
         flags |-> Flags(taken, OutputFlags),
         texts |-> Texts(taken, OutputTexts),
         path |-> Text(o, "path", NoPath), filter |-> Text(o, "filter", <<>>)]

(* The keys of an output for which it is rejected.                         *)
OutputProblems(output) ==
    IF output.type \notin OutputTypes THEN {"type"}
    ELSE {k \in DOMAIN OutputRange : output.integers[k] \notin OutputRange[k]}
         \cup {k \in DOMAIN Allowed : output.texts[k] \notin Allowed[k]}
         \cup (IF output.type = "serial" /\ output.texts["port_name"] = ""
               THEN {"port_name"} ELSE {})
         \cup (IF output.type \in {"file", "log"} /\ output.path = NoPath
               THEN {"path"} ELSE {})

-----------------------------------------------------------------------------
(* The rest of a profile: keys with the defaults of default_profile.       *)

Seeds ==
    {"seed.position.latitude", "seed.position.longitude", "seed.altitude_m",
     "seed.heading_true_deg", "seed.speed_over_ground_kn", "seed.magnetic_variation_deg",
     "seed.magnetic_deviation_deg", "seed.rudder_angle_deg", "seed.depth_m",
     "seed.transducer_offset_m", "seed.water_temperature_c", "seed.wind_true_direction_deg",
     "seed.wind_true_speed_kn", "seed.gnss.hdop", "seed.gnss.pdop", "seed.gnss.vdop",
     "seed.gnss.geoid_separation_m", "seed.ais.dimension_to_bow_m",
     "seed.ais.dimension_to_stern_m", "seed.ais.dimension_to_port_m",
     "seed.ais.dimension_to_starboard_m", "seed.ais.draught_m"}

Variations ==
    {"variation.heading.amplitude", "variation.heading.step_per_second",
     "variation.speed.amplitude", "variation.speed.step_per_second",
     "variation.depth.amplitude", "variation.depth.step_per_second",
     "variation.water_temperature.amplitude", "variation.water_temperature.step_per_second",
     "variation.wind_direction.amplitude", "variation.wind_direction.step_per_second",
     "variation.wind_speed.amplitude", "variation.wind_speed.step_per_second"}

(* In quarters.                                                            *)
ProfileNumbers ==
    [k \in Seeds \cup Variations \cup {"steering.turn_rate_per_rudder_deg",
                "steering.max_rudder_angle_deg", "track.speed_kn"} |->
        CASE k = "seed.position.latitude" -> 152
          [] k = "seed.position.longitude" -> 95
          [] k = "seed.heading_true_deg" -> 180
          [] k = "seed.speed_over_ground_kn" -> 26
          [] k = "seed.magnetic_variation_deg" -> 18
          [] k = "seed.depth_m" -> 50
          [] k = "seed.transducer_offset_m" -> 2
          [] k = "seed.water_temperature_c" -> 86
          [] k = "seed.wind_true_direction_deg" -> 1080
          [] k = "seed.wind_true_speed_kn" -> 48
          [] k = "steering.turn_rate_per_rudder_deg" -> 2
          [] k = "steering.max_rudder_angle_deg" -> 140
          [] k = "track.speed_kn" -> 24
          [] OTHER -> 0]

ProfileIntegers ==
    [k \in {"tick_ms", "position_decimals", "replay.fixed_interval_ms",
            "seed.gnss.satellites_in_use", "seed.gnss.satellites_in_view",
            "seed.ais.ship_type", "seed.ais.navigation_status",
            "seed.ais.position_report_type"} |->
        CASE k \in {"tick_ms", "replay.fixed_interval_ms"} -> 100
          [] k = "position_decimals" -> 4
          [] k = "seed.gnss.satellites_in_use" -> 8
          [] k = "seed.gnss.satellites_in_view" -> 10
          [] k = "seed.ais.ship_type" -> 37
          [] k = "seed.ais.position_report_type" -> 1
          [] OTHER -> 0]

ProfileFlags ==
    [k \in {"seed.gnss.fix", "track.use_timestamps", "track.loop", "replay.loop"} |->
        k \in {"seed.gnss.fix", "track.use_timestamps"}]

ProfileTexts ==
    [k \in {"name", "mode", "start_time", "seed.gnss.quality", "seed.ais.name",
            "seed.ais.call_sign", "seed.ais.destination"} |->
        CASE k = "name" -> "Default"
          [] k = "mode" -> "delta"
          [] k = "start_time" -> "now"
          [] k = "seed.gnss.quality" -> "gps"
          [] OTHER -> ""]

(* Read by unsigned_integer.                                               *)
Unsigned ==
    [k \in {"random_seed", "seed.ais.mmsi", "seed.ais.imo_number"} |->
        CASE k = "random_seed" -> 2026 [] k = "seed.ais.mmsi" -> 239 [] OTHER -> 0]
Largest == [k \in DOMAIN Unsigned |-> IF k = "random_seed" THEN LargestSeed ELSE NineDigits]

ProfileRange ==
    [k \in DOMAIN ProfileIntegers \ {"seed.gnss.satellites_in_use",
                                     "seed.gnss.satellites_in_view"} |->
        CASE k = "tick_ms" -> 10 .. LongestTick
          [] k = "position_decimals" -> 2 .. 8
          [] k = "replay.fixed_interval_ms" -> 1 .. LongestInterval
          [] k = "seed.ais.ship_type" -> 0 .. 255
          [] k = "seed.ais.navigation_status" -> 0 .. 15
          [] k = "seed.ais.position_report_type" -> 1 .. 3]

Modes == {"delta", "track", "replay"}
Qualities == {"invalid", "gps", "differential"}
Talkers == {"", "GP"}            \* none and two capitals
Times == {"now", "2026-07-01"}   \* the current time and a date-time
CurrentSchemaVersion == 3

Engine(label, running, rpm, coolant) ==
    [label |-> label, running |-> running, rpm |-> rpm, coolant_temperature_c |-> coolant]

(* default_profile.                                                        *)
DefaultEngines == <<Engine("Port engine", TRUE, 7200, 328),
                    Engine("Starboard engine", TRUE, 7200, 332)>>
DefaultProfile ==
    [numbers |-> ProfileNumbers, integers |-> ProfileIntegers, flags |-> ProfileFlags,
     texts |-> ProfileTexts, unsigned |-> Unsigned,
     track_path |-> NoPath, replay_path |-> NoPath,
     engines |-> DefaultEngines, destination |-> {}, sentences |-> <<>>, custom_sentences |-> <<>>,
     outputs |-> <<DefaultOutput>>, base_directory |-> None]

-----------------------------------------------------------------------------
(* to_json.                                                                *)

EngineToJson(e) ==
    [label |-> JsonText(e.label), running |-> JsonFlag(e.running), rpm |-> JsonNumber(e.rpm),
     coolant_temperature_c |-> JsonNumber(e.coolant_temperature_c)]

DestinationKeys == {"latitude", "longitude", "origin_latitude", "origin_longitude",
                    "arrival_radius_m"}
DestinationToJson(d) ==
    With([k \in DestinationKeys |-> JsonNumber(d.numbers[k])], "name", JsonText(d.name))

TopToJson(p) ==
    LET paths == [k \in {"track.path", "replay.path"} |->
                    IF k = "track.path" THEN p.track_path ELSE p.replay_path]
    IN  With(Written(p.numbers, Over(p.integers, p.unsigned), p.flags, Over(p.texts, paths)),
             "schema_version", JsonInt(CurrentSchemaVersion))

ToJson(p) ==
    [top |-> TopToJson(p),
     engines |-> [i \in DOMAIN p.engines |-> EngineToJson(p.engines[i])],
     destination |-> {DestinationToJson(d) : d \in p.destination},
     settings |-> [id \in DOMAIN p.sentences |->
        [enabled |-> JsonFlag(p.sentences[id].enabled),
         talker |-> JsonText(p.sentences[id].talker),
         period_ms |-> JsonInt(p.sentences[id].period)]],
     custom |-> [i \in DOMAIN p.custom_sentences |->
        [id |-> JsonText(p.custom_sentences[i].id), body |-> JsonText(p.custom_sentences[i].body),
         period_ms |-> JsonInt(p.custom_sentences[i].period),
         enabled |-> JsonFlag(p.custom_sentences[i].enabled)]],
     outputs |-> [i \in DOMAIN p.outputs |-> OutputToJson(p.outputs[i])]]

-----------------------------------------------------------------------------
(* from_json.                                                              *)

EnginesFromJson(engines) ==
    [i \in DOMAIN engines |->
        LET e == engines[i]
        IN  Engine(Text(e, "label", "Engine"), Flag(e, "running", FALSE), Number(e, "rpm", 0),
                   Number(e, "coolant_temperature_c", 20 * Unit))]

DestinationFromJson(d, numbers) ==
    LET default == [latitude |-> 0, longitude |-> 0,
                    origin_latitude |-> numbers["seed.position.latitude"],
                    origin_longitude |-> numbers["seed.position.longitude"],
                    arrival_radius_m |-> 100 * Unit]
    IN  [name |-> Text(d, "name", "WPT"), numbers |-> Numbers(d, default)]

SettingFromJson(id, o) ==
    [enabled |-> Flag(o, "enabled", DefaultSetting[id].enabled),
     talker |-> Text(o, "talker", ""),
     period |-> WholeNumber(o, "period_ms", DefaultSetting[id].period)]

CustomFromJson(o) ==
    [id |-> Upper(Text(o, "id", "")), body |-> Text(o, "body", ""),
     period |-> WholeNumber(o, "period_ms", 1000), enabled |-> Flag(o, "enabled", TRUE)]

(* migrate leaves a document as it is, but for the marker and a mode that  *)
(* every reader assumes as well.                                           *)
Migrate(top, version) ==
    LET moded == IF version < 2 /\ "mode" \notin DOMAIN top
                 THEN With(top, "mode", JsonText("delta")) ELSE top
    IN  With(moded, "schema_version", JsonInt(CurrentSchemaVersion))

(* What the readers make of a document, before the checks.                 *)
ReadDocument(doc) ==
    LET top == Migrate(doc.top, WholeNumber(doc.top, "schema_version", 0))
        numbers == Numbers(top, ProfileNumbers)
    IN  [numbers |-> numbers,
         integers |-> Integers_(top, ProfileIntegers),
         flags |-> Flags(top, ProfileFlags),
         texts |-> [Texts(top, ProfileTexts) EXCEPT
                        !["start_time"] = IF @ = "" THEN "now" ELSE @],
         unsigned |-> [k \in DOMAIN Unsigned |-> Number(top, k, Unit * Unsigned[k]) \div Unit],
         track_path |-> Text(top, "track.path", NoPath),
         replay_path |-> Text(top, "replay.path", NoPath),
         engines |-> IF "engines" \in DOMAIN doc THEN EnginesFromJson(doc.engines)
                     ELSE DefaultEngines,
         destination |-> {DestinationFromJson(d, numbers) : d \in doc.destination},
         sentences |->
            [id \in DOMAIN doc.settings \cap SentenceIds |-> SettingFromJson(id, doc.settings[id])],
         custom_sentences |-> [i \in DOMAIN doc.custom |-> CustomFromJson(doc.custom[i])],
         outputs |-> [i \in DOMAIN doc.outputs |-> OutputFromJson(doc.outputs[i])],
         base_directory |-> None]

RowId(i) == "CUSTOM-" \o ToString(i)
EffectiveId(c, i) == IF c.id = "" THEN RowId(i) ELSE c.id

(* The checks.  The first that fails names its key; here all of them do.   *)
VersionProblems(doc) ==
    IF WholeNumber(doc.top, "schema_version", 0) \in 1 .. CurrentSchemaVersion
    THEN {} ELSE {"schema_version"}

UnsignedProblems(doc) == {k \in DOMAIN Unsigned : Refused(doc.top, k, Largest[k])}

SimulationProblems(p) ==
    {k \in DOMAIN ProfileRange : p.integers[k] \notin ProfileRange[k]}
    \cup (IF p.texts["mode"] \notin Modes THEN {"mode"} ELSE {})
    \cup (IF p.texts["start_time"] \notin Times THEN {"start_time"} ELSE {})
    \cup (IF p.numbers["track.speed_kn"] <= 0 THEN {"track.speed_kn"} ELSE {})
    \cup (IF p.texts["mode"] = "track" /\ p.track_path = NoPath THEN {"track.path"} ELSE {})
    \cup (IF p.texts["mode"] = "replay" /\ p.replay_path = NoPath THEN {"replay.path"} ELSE {})

(* validate_seed_keys.                                                     *)
SeedProblems(doc, p) ==
    (IF p.texts["seed.gnss.quality"] \notin Qualities THEN {"quality"} ELSE {})
    \cup {k \in {"latitude", "longitude"} :
            \E d \in doc.destination : ~ Has(d, k, "number")}

SentenceProblems(doc, p) ==
    (DOMAIN doc.settings \ SentenceIds) \cup
    {id \in DOMAIN p.sentences :
        \/ p.sentences[id].talker \notin Talkers
        \/ p.sentences[id].period \notin Period}

CustomProblems(p) ==
    LET custom == p.custom_sentences
    IN  {i \in DOMAIN custom :
            \/ custom[i].body \notin Bodies
            \/ custom[i].id \in SentenceIds
            \/ custom[i].period \notin Period
            \/ \E j \in 1 .. i - 1 : EffectiveId(custom[j], j) = EffectiveId(custom[i], i)}

(* from_json gives what is read, of a document without problems.           *)
Valid(doc) ==
    LET p == ReadDocument(doc)
    IN  /\ VersionProblems(doc) = {} /\ UnsignedProblems(doc) = {}
        /\ SimulationProblems(p) = {} /\ SeedProblems(doc, p) = {}
        /\ SentenceProblems(doc, p) = {} /\ CustomProblems(p) = {}
        /\ \A i \in DOMAIN p.outputs : OutputProblems(p.outputs[i]) = {}

-----------------------------------------------------------------------------
(* Files.                                                                  *)

(* resolve_path, and the place the system finds for what is left relative. *)
ResolvePath(p, path) ==
    IF path = NoPath \/ p.base_directory = None \/ ~ path.relative THEN path
    ELSE Absolute(p.base_directory + path.at)
PlaceOf(p, path) ==
    LET resolved == ResolvePath(p, path)
    IN  IF resolved.relative THEN WorkingDirectory + resolved.at ELSE resolved.at

(* save: relative paths are made relative to the new directory.            *)
Moved(p, target, path) ==
    IF p.base_directory \in {None, target} \/ path = NoPath \/ ~ path.relative THEN path
    ELSE Relative(ResolvePath(p, path).at - target)

(* Mutant of Relocated: the paths of the outputs are left as they are.     *)
Relocated_NotOutputs(p, target) ==
    [p EXCEPT !.track_path = Moved(p, target, @), !.replay_path = Moved(p, target, @)]

Relocated(p, target) ==
    LET outputs == [i \in DOMAIN p.outputs |->
                        [p.outputs[i] EXCEPT !.path = Moved(p, target, p.outputs[i].path)]]
    IN  [p EXCEPT !.track_path = Moved(p, target, p.track_path),
                  !.replay_path = Moved(p, target, p.replay_path),
                  !.outputs = outputs]

Save(p, target) == ToJson(Relocated(p, target))

(* load, of a file that is there and is a valid profile.                   *)
Load(doc, directory) == [ReadDocument(doc) EXCEPT !.base_directory = directory]

-----------------------------------------------------------------------------
(* What a program can hold, and what is in its files.                      *)

IsTable(f, keys) == f = [k \in keys |-> f[k]]
IsList(s) == s \in Seq(Range(s))
ExactInts == -LargestInt - 1 .. LargestInt
Paths == [relative : BOOLEAN, at : Int] \cup {NoPath}

SoundOutput(o) ==
    /\ IsTable(o, DOMAIN DefaultOutput)
    /\ o.numbers \in [DOMAIN OutputNumbers -> Int]
    /\ o.integers \in [DOMAIN OutputIntegers -> ExactInts]
    /\ IsTable(o.flags, DOMAIN OutputFlags) /\ IsTable(o.texts, DOMAIN OutputTexts)
    /\ o.path \in Paths
    /\ OutputProblems(o) = {}

SoundSettings(settings) ==
    /\ DOMAIN settings \subseteq SentenceIds
    /\ settings = [id \in DOMAIN settings |->
                    [enabled |-> settings[id].enabled, talker |-> settings[id].talker,
                     period |-> settings[id].period]]
    /\ \A id \in DOMAIN settings :
        settings[id].talker \in Talkers /\ settings[id].period \in Period

SoundCustom(custom) ==
    /\ IsList(custom)
    /\ \A i \in DOMAIN custom :
        /\ custom[i] = [id |-> Upper(custom[i].id), body |-> custom[i].body,
                        period |-> custom[i].period, enabled |-> custom[i].enabled]
        /\ RowId(i) \notin SentenceIds

SoundValues(p) ==
    /\ p.numbers \in [DOMAIN ProfileNumbers -> Int]
    /\ p.integers \in [DOMAIN ProfileIntegers -> ExactInts]
    /\ IsTable(p.flags, DOMAIN ProfileFlags) /\ IsTable(p.texts, DOMAIN ProfileTexts)
    /\ p.texts["seed.gnss.quality"] \in Qualities
    /\ IsTable(p.unsigned, DOMAIN Unsigned)
    /\ \A k \in DOMAIN Unsigned : p.unsigned[k] \in 0 .. Largest[k]
    /\ IsList(p.engines)
    /\ \A i \in DOMAIN p.engines :
        LET e == p.engines[i]
        IN  e = Engine(e.label, e.running, e.rpm, e.coolant_temperature_c)
    /\ \A d \in p.destination :
        d = [name |-> d.name, numbers |-> [k \in DestinationKeys |-> d.numbers[k]]]
    /\ SoundSettings(p.sentences)
    /\ SoundCustom(p.custom_sentences) /\ CustomProblems(p) = {}

SoundOutputs(outputs) == IsList(outputs) /\ \A i \in DOMAIN outputs : SoundOutput(outputs[i])

Sound(p) ==
    /\ DOMAIN p = DOMAIN DefaultProfile
    /\ SoundValues(p)
    /\ {p.track_path, p.replay_path} \subseteq Paths
    /\ SoundOutputs(p.outputs)
    /\ SimulationProblems(p) = {}
    /\ p.base_directory \in Int \cup {None}

PathKeys == {"track.path", "replay.path", "path"}

IsObject(o) ==
    \A k \in DOMAIN o :
        /\ "number" \in DOMAIN o[k] => o[k].number \in Int
        /\ k \in PathKeys /\ "text" \in DOMAIN o[k] => o[k].text \in Paths

IsDocument(doc) ==
    /\ DOMAIN doc \cup {"engines"}
        = {"top", "engines", "destination", "settings", "custom", "outputs"}
    /\ IsObject(doc.top)
    /\ "engines" \in DOMAIN doc => IsList(doc.engines)
    /\ IsList(doc.custom) /\ \A i \in DOMAIN doc.custom : RowId(i) \notin SentenceIds
    /\ IsList(doc.outputs) /\ \A i \in DOMAIN doc.outputs : IsObject(doc.outputs[i])

(* The limits of the program are those of its integers; a text is          *)
(* upper-case after one upper-casing; a directory, if any, is a place.     *)
ProfileAssumption ==
    /\ LargestInt \in Nat /\ LargestInt >= LongestPeriod
    /\ LargestSeed \in Nat /\ LargestSeed >= 2026
    /\ NineDigits \in Nat /\ NineDigits >= 239
    /\ \A text \in DOMAIN UpperCase : UpperCase[text] \notin DOMAIN UpperCase
    /\ None \notin Int
=============================================================================
