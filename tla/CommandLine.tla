----------------------------- MODULE CommandLine -----------------------------
(***************************************************************************)
(* The console program (cli/main.cpp): the profile it runs, made of a file *)
(* and of the options given, the outputs it opens, and the status it exits *)
(* with.  What the options of a command line hold is an input; a number    *)
(* that is not finite is None, and so is an option that is not given.      *)
(***************************************************************************)
EXTENDS Profile, TransportLink

CONSTANTS
    Commands,          \* the command lines
    Broadcasts,        \* broadcast addresses of the interfaces
    ProfileDirectory,  \* of the file given as --profile
    PollPeriod,        \* of the timer that looks for an interrupt
    MaxCliTime         \* bound on the time of a run

VARIABLES
    command,      \* what was typed: verb, options, and the file it names
    ran,          \* the profile that was applied, None before
    channels,     \* outputs_ of the runner, at the positions of the outputs that are
                  \* enabled: configuration, place and state
    interrupted,  \* g_interrupted
    cliTime,      \* since the start of the run
    code          \* the exit status, None while the program runs

cliVars == <<command, ran, channels, interrupted, cliTime, code>>

CliInit ==
    /\ command \in Commands
    /\ ran = None /\ channels = <<>>
    /\ interrupted = FALSE /\ cliTime = 0
    /\ code = None

Exit(status) == code' = status /\ UNCHANGED <<command, interrupted, cliTime>>

-----------------------------------------------------------------------------
(* Parts of an option.  Digits are a sequence; another character is None.  *)

ParseDigits(text) ==
    LET value[n \in 0 .. Len(text)] ==
            IF n = 0 THEN 0
            ELSE IF value[n - 1] = None \/ text[n] = None THEN None
            ELSE IF 10 * value[n - 1] + text[n] > LargestInt THEN None
            ELSE 10 * value[n - 1] + text[n]
    IN  IF text = <<>> THEN None ELSE value[Len(text)]

(* host:port, where `port' is None without a colon.                        *)
SplitHostPort(target) ==
    LET port == IF target.port = None THEN None ELSE ParseDigits(target.port)
    IN  IF target.host = "" \/ port = None \/ port \notin 1 .. LargestPort THEN None
        ELSE [host |-> target.host, port |-> port]

(* device[@baud], where `baud' is None without an at sign.                 *)
SplitSerial(serial) ==
    LET baud == IF serial.baud = None THEN 4800 ELSE ParseDigits(serial.baud)
    IN  IF serial.device = "" \/ baud = None \/ baud <= 0 THEN None
        ELSE [device |-> serial.device, baud |-> baud]

IsBroadcastAddress(host) == host \in Broadcasts \cup {"255.255.255.255"}

CheckFiniteOptions(o) == o.duration # None /\ o.speed # None

-----------------------------------------------------------------------------
(* The overrides.                                                          *)

(* Mutant of AbsolutePath: the path is left as it was typed.               *)
AbsolutePath_Typed(path) == path

(* QFileInfo::absoluteFilePath.                                            *)
AbsolutePath(path) == IF path.relative THEN Absolute(WorkingDirectory + path.at) ELSE path

PortOutput(type, port) == [DefaultOutput EXCEPT !.type = type, !.integers["port"] = port]

(* A socket may only send to a broadcast address in broadcast mode.        *)
UdpOutput(target) ==
    LET parts == SplitHostPort(target)
    IN  [PortOutput("udp", parts.port) EXCEPT
            !.texts["address"] = parts.host,
            !.texts["mode"] = IF IsBroadcastAddress(parts.host) THEN "broadcast" ELSE "unicast"]

SerialOutput(target) ==
    LET parts == SplitSerial(target)
    IN  [DefaultOutput EXCEPT !.type = "serial", !.texts["port_name"] = parts.device,
                              !.integers["baud_rate"] = parts.baud]

FileOutput(path) == [DefaultOutput EXCEPT !.type = "file", !.path = AbsolutePath(path)]

OutputOptions(o) ==
    [i \in DOMAIN o.tcp |-> PortOutput("tcp-server", o.tcp[i])]
    \o [i \in DOMAIN o.udp |-> UdpOutput(o.udp[i])]
    \o [i \in DOMAIN o.websocket |-> PortOutput("websocket-server", o.websocket[i])]
    \o [i \in DOMAIN o.serial |-> SerialOutput(o.serial[i])]
    \o [i \in DOMAIN o.files |-> FileOutput(o.files[i])]
    \o (IF o.stdout THEN <<[DefaultOutput EXCEPT !.type = "stdout"]>> ELSE <<>>)

GivesOutputs(o) ==
    o.stdout \/ \E s \in {o.tcp, o.udp, o.websocket, o.serial, o.files} : s # <<>>

Malformed(o) ==
    \/ o.encoding \notin Encodings \cup {""}
    \/ \E i \in DOMAIN o.udp : SplitHostPort(o.udp[i]) = None
    \/ \E i \in DOMAIN o.serial : SplitSerial(o.serial[i]) = None

(* A log always records NMEA 0183 without TAG blocks.                      *)
Encoded(o, output) ==
    IF output.type = "log" THEN output
    ELSE [output EXCEPT
            !.texts["encoding"] = IF o.encoding = "" THEN @ ELSE o.encoding,
            !.flags["tag_block.enabled"] = @ \/ o.tag_block,
            !.texts["tag_block.source"] = IF o.tag_source = "" THEN @ ELSE o.tag_source]

ApplyOutputOverrides(o, p) ==
    LET outs == IF GivesOutputs(o) THEN OutputOptions(o) ELSE p.outputs
    IN  [p EXCEPT !.outputs = [i \in DOMAIN outs |-> Encoded(o, outs[i])]]

SettingOf(p, id) == IF id \in DOMAIN p.sentences THEN p.sentences[id] ELSE DefaultSetting[id]

(* Ids are switched on first, then off; a rate is for every sentence.      *)
OverriddenSetting(o, setting, id) ==
    [setting EXCEPT
        !.enabled = (@ \/ id \in Range(o.enable)) /\ id \notin Range(o.disable),
        !.period = IF o.period > 0 THEN o.period ELSE @]

OverriddenIds(o) == IF o.period > 0 THEN SentenceIds ELSE Range(o.enable) \cup Range(o.disable)

(* Settings the profile lacks are made of the registry's defaults.         *)
ApplySentenceOverrides(o, p) ==
    [p EXCEPT !.sentences =
        Over([id \in OverriddenIds(o) |-> OverriddenSetting(o, SettingOf(p, id), id)], @)]

(* The leg starts where the vessel does.                                   *)
ApplyDestination(o, p) ==
    LET at == o.destination
        seed == p.numbers
        leg == [latitude |-> at.latitude, longitude |-> at.longitude,
                origin_latitude |-> seed["seed.position.latitude"],
                origin_longitude |-> seed["seed.position.longitude"],
                arrival_radius_m |-> 100 * Unit]
    IN  IF at = None THEN p
        ELSE [p EXCEPT !.destination =
                {[name |-> IF at.name = "" THEN "WPT" ELSE at.name, numbers |-> leg]}]

TrackOverrides(o, p) ==
    [p EXCEPT
        !.texts["mode"] = "track",
        !.track_path = AbsolutePath(o.track),
        !.flags["track.loop"] = @ \/ o.loop,
        !.flags["track.use_timestamps"] = @ /\ ~ o.ignore_timestamps,
        !.numbers["track.speed_kn"] = IF o.speed > 0 THEN o.speed ELSE @]

ReplayOverrides(o, p) ==
    [p EXCEPT
        !.texts["mode"] = "replay",
        !.replay_path = AbsolutePath(o.replay),
        !.flags["replay.loop"] = @ \/ o.loop,
        !.integers["replay.fixed_interval_ms"] =
            IF o.replay_interval > 0 THEN o.replay_interval ELSE @]

RecordOutput(path) ==
    [DefaultOutput EXCEPT !.type = "log", !.path = AbsolutePath(path), !.flags["append"] = FALSE]

SourceOverrides(o, p) ==
    IF o.track # NoPath THEN TrackOverrides(o, p)
    ELSE IF o.replay # NoPath THEN ReplayOverrides(o, p)
    ELSE [p EXCEPT !.flags["track.loop"] = @ \/ o.loop, !.flags["replay.loop"] = @ \/ o.loop]

ApplyModeOverrides(o, p) ==
    LET sourced == SourceOverrides(o, p)
    IN  IF o.record = NoPath THEN sourced
        ELSE [sourced EXCEPT !.outputs = Append(@, RecordOutput(o.record))]

Overridden(o, p) ==
    ApplyModeOverrides(o, ApplyDestination(o, ApplySentenceOverrides(o,
        ApplyOutputOverrides(o, p))))

(* What an override refuses, wherever in their order; nothing runs then.   *)
RefusedOptions(o) ==
    \/ Malformed(o)
    \/ ~ (Range(o.enable) \cup Range(o.disable) \subseteq SentenceIds)
    \/ /\ o.destination # None
       /\ \/ o.destination.latitude \notin -90 * Unit .. 90 * Unit
          \/ o.destination.longitude \notin -180 * Unit .. 180 * Unit

Loaded(file) == IF file = None THEN DefaultProfile
                ELSE IF Valid(file) THEN Load(file, ProfileDirectory) ELSE None

-----------------------------------------------------------------------------
(* The runner's part.                                                      *)

KindOf(type) == CASE type = "stdout" -> "local" [] type = "serial" -> "device"
                  [] type = "tcp-client" -> "client" [] OTHER -> "listener"

(* make_transport, with the state open() leaves it in.                     *)
MakeTransport(p, output, state) ==
    [config |-> output, state |-> state,
     place |-> IF output.type \in {"file", "log"} THEN PlaceOf(p, output.path) ELSE None]

(* make_source: a track or a log may be unreadable or hold nothing.        *)
MakeSourceOutcomes(p) == IF p.texts["mode"] = "delta" THEN {TRUE} ELSE BOOLEAN

Acceptable ==
    CheckFiniteOptions(command) /\ Loaded(command.profile) # None /\ ~ RefusedOptions(command)

ProfileToRun == Overridden(command, Loaded(command.profile))

(* The checks of run_simulation before anything is opened.                 *)
RunRefused ==
    /\ command.verb = "run" /\ ran = None /\ code = None
    /\ Acceptable => \E p \in {ProfileToRun} :
        p.outputs = <<>> \/ FALSE \in MakeSourceOutcomes(p)
    /\ Exit(2) /\ UNCHANGED <<ran, channels>>

Enabled(p) == {i \in DOMAIN p.outputs : p.outputs[i].flags["enabled"]}

(* start() and the count of the outputs that are open by then.             *)
Run ==
    /\ command.verb = "run" /\ ran = None /\ code = None /\ Acceptable
    /\ \E p \in {ProfileToRun} :
        /\ p.outputs # <<>>
        /\ ran' = p
        /\ \E opened \in [Enabled(p) -> States] :
            /\ \A i \in Enabled(p) : opened[i] \in OpenOutcomes(KindOf(p.outputs[i].type))
            /\ channels' = [i \in Enabled(p) |-> MakeTransport(p, p.outputs[i], opened[i])]
            /\ Exit(IF \E i \in Enabled(p) : opened[i] = "Open" THEN None ELSE 3)

Going == ran # None /\ code = None

(* The event loop.  A signal only sets a flag, which a timer looks at.     *)
OnInterrupt == Going /\ interrupted' = TRUE
               /\ UNCHANGED <<command, ran, channels, cliTime, code>>

Stop == code' = 0 /\ channels' = [i \in DOMAIN channels |-> [channels[i] EXCEPT !.state = "Closed"]]
        /\ UNCHANGED <<command, ran, interrupted, cliTime>>

InterruptPoll == Going /\ interrupted /\ cliTime % PollPeriod = 0 /\ Stop
DurationOver == Going /\ command.duration > 0 /\ cliTime >= command.duration /\ Stop

(* The end of a track or a log that does not loop.                         *)
SourceEnds ==
    /\ Going
    /\ \/ ran.texts["mode"] = "track" /\ ~ ran.flags["track.loop"]
       \/ ran.texts["mode"] = "replay" /\ ~ ran.flags["replay.loop"]
    /\ Stop

(* Time passes, but not past a timer that is due.                          *)
CliTimePasses ==
    /\ Going /\ cliTime < MaxCliTime
    /\ ~ (interrupted /\ cliTime % PollPeriod = 0)
    /\ ~ (command.duration > 0 /\ cliTime >= command.duration)
    /\ cliTime' = cliTime + 1
    /\ UNCHANGED <<command, ran, channels, interrupted, code>>

-----------------------------------------------------------------------------
(* The other commands: the lists, the help, and profile files.             *)
WriteDefaultProfile ==
    /\ command.verb = "profile init" /\ code = None
    /\ \E saved \in BOOLEAN :
        Exit(IF (command.profile # None /\ ~ command.force) \/ ~ saved THEN 2 ELSE 0)
    /\ UNCHANGED <<ran, channels>>

ShowProfile ==
    /\ command.verb = "profile show" /\ code = None
    /\ Exit(IF Loaded(command.profile) = None THEN 2 ELSE 0)
    /\ UNCHANGED <<ran, channels>>

(* Help and version are parse errors of the success code.                  *)
OtherCommand ==
    /\ code = None
    /\ \/ command.verb \in {"ports", "interfaces", "sentences", "help", "none"} /\ Exit(0)
       \/ command.verb = "unknown" /\ Exit(2)
    /\ UNCHANGED <<ran, channels>>

CliNext ==
    \/ RunRefused \/ Run
    \/ OnInterrupt \/ InterruptPoll \/ DurationOver \/ SourceEnds \/ CliTimePasses
    \/ WriteDefaultProfile \/ ShowProfile \/ OtherCommand

CliSpec == CliInit /\ [][CliNext]_cliVars

-----------------------------------------------------------------------------
(* The registry has settings of the right shape; a track and a log exclude *)
(* each other; the file is a document.                                     *)
CliAssumption ==
    /\ ProfileAssumption /\ ProfileDirectory \in Int
    /\ \A id \in SentenceIds : /\ DOMAIN DefaultSetting[id] = {"enabled", "talker", "period"}
                               /\ DefaultSetting[id].enabled \in BOOLEAN
    /\ \A c \in Commands :
        /\ IsList(c.tcp) /\ IsList(c.udp) /\ IsList(c.websocket) /\ IsList(c.serial)
        /\ IsList(c.files)
        /\ c.track = NoPath \/ c.replay = NoPath
        /\ c.profile # None =>
            /\ IsDocument(c.profile)
            /\ \A id \in DOMAIN c.profile.settings :
                Flag(c.profile.settings[id], "enabled", FALSE) \in BOOLEAN

(* Inductive: what runs is what was typed, on top of the file; its outputs *)
(* are channels; and the status is the one of the way it ended.            *)
CliInv ==
    /\ command \in Commands
    /\ ran # None =>
        /\ command.verb = "run" /\ Acceptable
        /\ ran = ProfileToRun
        /\ channels = [i \in Enabled(ran) |->
                            MakeTransport(ran, ran.outputs[i], channels[i].state)]
    /\ code = 2 => ran = None
    /\ code = 3 => \A i \in DOMAIN channels : channels[i].state # "Open"
    /\ code = 0 /\ ran # None =>
        \/ interrupted
        \/ command.duration > 0 /\ cliTime >= command.duration
        \/ ran.texts["mode"] = "track" /\ ~ ran.flags["track.loop"]
        \/ ran.texts["mode"] = "replay" /\ ~ ran.flags["replay.loop"]

-----------------------------------------------------------------------------
TypedPlace(path) == IF path.relative THEN WorkingDirectory + path.at ELSE path.at
AChannel(Is(_)) == \E i \in DOMAIN channels : Is(channels[i])
WritesTo(type, place) == AChannel(LAMBDA c : c.config.type = type /\ c.place = place)

OutputsAsAsked(o, given) ==
    LET number == IF GivesOutputs(o)
                  THEN Len(o.tcp) + Len(o.udp) + Len(o.websocket) + Len(o.serial) + Len(o.files)
                       + (IF o.stdout THEN 1 ELSE 0)
                  ELSE Cardinality({i \in DOMAIN given.outputs :
                                        given.outputs[i].flags["enabled"]})
        records == o.record # NoPath
    IN  /\ Cardinality(DOMAIN channels) = number + (IF records THEN 1 ELSE 0)
        /\ \A i \in DOMAIN o.files : WritesTo("file", TypedPlace(o.files[i]))
        /\ \A i \in DOMAIN o.udp : AChannel(LAMBDA c :
            /\ c.config.type = "udp" /\ c.config.texts["address"] = o.udp[i].host
            /\ (c.config.texts["mode"] = "broadcast") = IsBroadcastAddress(o.udp[i].host))
        /\ records => /\ WritesTo("log", TypedPlace(o.record))
                      /\ ~ channels[Len(ran.outputs)].config.flags["append"]
        /\ ~ GivesOutputs(o) => \A i \in DOMAIN given.outputs :
            LET output == given.outputs[i]
            IN  output.type \in {"file", "log"} /\ output.flags["enabled"]
                => WritesTo(output.type, PlaceOf(given, output.path))
        /\ o.encoding # "" => \A i \in DOMAIN channels :
            LET log == channels[i].config.type = "log"
                encoding == channels[i].config.texts["encoding"]
            IN  ~ log => encoding = o.encoding

(* A log of the profile, and the recording, are what a replay can read.    *)
LogsReplayable(given) ==
    \A i \in DOMAIN channels : channels[i].config.type = "log" =>
        \/ channels[i].config.texts["encoding"] = "nmea0183"
        \/ \E j \in DOMAIN given.outputs : given.outputs[j] = channels[i].config

SourceAsAsked(o, given) ==
    LET mode == ran.texts["mode"]
        loop == IF mode = "track" THEN "track.loop" ELSE "replay.loop"
    IN  /\ o.track # NoPath =>
            mode = "track" /\ PlaceOf(ran, ran.track_path) = TypedPlace(o.track)
        /\ o.replay # NoPath =>
            mode = "replay" /\ PlaceOf(ran, ran.replay_path) = TypedPlace(o.replay)
        /\ (o.track = NoPath /\ o.replay = NoPath) =>
            /\ mode = given.texts["mode"]
            /\ PlaceOf(ran, ran.track_path) = PlaceOf(given, given.track_path)
        /\ mode # "delta" => ran.flags[loop] = (o.loop \/ given.flags[loop])

SentencesAsAsked(o, given) ==
    \A id \in SentenceIds :
        LET was == SettingOf(given, id)
            is == SettingOf(ran, id)
        IN  /\ id \in Range(o.disable) => ~ is.enabled
            /\ id \in Range(o.enable) \ Range(o.disable) => is.enabled
            /\ id \notin Range(o.enable) \cup Range(o.disable) => is.enabled = was.enabled
            /\ is.talker = was.talker
            /\ is.period = IF o.period > 0 THEN o.period ELSE was.period

(* A run has the outputs, the source, the sentences and the destination    *)
(* that were asked for: files are where the user typed them and the        *)
(* profile's own are next to the profile; logs stay readable for a replay; *)
(* and the exit status tells what happened (cli/main.cpp, with the promise *)
(* of docs/reference/cli.md).                                              *)
RunsWhatWasAsked ==
    /\ ran # None => \A given \in {Loaded(command.profile)} :
        /\ OutputsAsAsked(command, given) /\ LogsReplayable(given)
        /\ SourceAsAsked(command, given)
        /\ SentencesAsAsked(command, given)
        /\ command.destination # None => \E d \in ran.destination :
            /\ d.numbers["origin_latitude"] = given.numbers["seed.position.latitude"]
            /\ d.numbers["longitude"] = command.destination.longitude
    /\ code = 2 => ran = None
    /\ code = 3 => ~ AChannel(LAMBDA c : c.state = "Open")
    /\ code = 0 /\ ran # None =>
        \/ interrupted
        \/ command.duration > 0 /\ cliTime >= command.duration
        \/ ran.texts["mode"] # "delta" /\ ~ command.loop

(* "the client keeps trying every reconnect interval and becomes open once *)
(* the server accepts" (docs/reference/transports.md:30), and 3 is for     *)
(* "when no output could be opened" (docs/reference/cli.md:77).            *)
KeepsConnecting == code = 3 => ~ AChannel(LAMBDA c : c.state = "Opening")
=============================================================================
