------------------------------ MODULE MCPrograms ------------------------------
(***************************************************************************)
(* The parts around the simulation: profile files, the console program,    *)
(* the settings dialog and the main window.  They share no state; each     *)
(* behaviour runs the one it chose at first, and the others keep their     *)
(* first state.                                                            *)
(***************************************************************************)
EXTENDS ProfileFiles, CommandLine, SettingsDialog, MainWindow

CONSTANT Part    \* the parts that run: "files", "cli", "dialog", "window"

ASSUME ProgramsAssumption == WindowAssumption /\ FilesAssumption /\ CliAssumption

VARIABLE part

MCDefaultSetting ==
    LET setting(on, period) == [enabled |-> on, talker |-> "", period |-> period]
    IN  ("GGA" :> setting(TRUE, 1000)) @@ ("VTG" :> setting(FALSE, 2000))
MCDefaultTalker == ("GGA" :> "GP") @@ ("VTG" :> "GP")
MCUpperCase == ("my" :> "MY") @@ ("custom-2" :> "CUSTOM-2") @@ (" " :> "") @@ ("gp" :> "GP")
               @@ ("rmc" :> "RMC")

Output(type, path, more) == more @@ [DefaultOutput EXCEPT !.type = type, !.path = path]
Custom(id, body) == [id |-> id, body |-> body, period |-> 1000, enabled |-> TRUE]
SignalK == [OutputTexts EXCEPT !["port_name"] = "COM3", !["encoding"] = "signalk",
                               !["viewsync.planet"] = "pluto"]
Disabled == [OutputFlags EXCEPT !["enabled"] = FALSE]

-----------------------------------------------------------------------------
(* Profile files.                                                          *)
MCRevisions ==
    {[texts |-> [ProfileTexts EXCEPT !["mode"] = "track"], track_path |-> Relative(2)],
     [outputs |-> <<Output("file", Relative(-1), <<>>), Output("log", Absolute(7), <<>>)>>],
     [outputs |-> <<Output("serial", NoPath,
                        [texts |-> SignalK,
                         integers |-> [OutputIntegers EXCEPT !["period_ms"] = 50]]),
                    Output("udp", NoPath, <<>>)>>],
     [custom_sentences |-> <<Custom("", "ok"), Custom("MINE", "ok")>>,
      sentences |-> "VTG" :> [enabled |-> TRUE, talker |-> "GP", period |-> 50]],
     [destination |-> {[name |-> "WPT", numbers |-> [k \in DestinationKeys |-> 7]]},
      engines |-> <<>>]}

Edit(where, key, value) == [part |-> where, key |-> key, value |-> value]
MCHandEdits ==
    {Edit("top", "schema_version", v) : v \in {None, JsonInt(1), JsonInt(4)}}
    \cup {Edit("top", "tick_ms", v) : v \in {JsonInt(9), JsonNumber(50)}}
    \cup {Edit("top", "random_seed", v) : v \in {JsonInt(-1), JsonNumber(5)}}
    \cup {Edit("top", "mode", v) : v \in {None, JsonText("replay"), JsonInt(1)}}
    \cup {Edit("top", "start_time", v) : v \in {JsonText(""), JsonText("noon")}}
    \cup {Edit("outputs", "port", JsonInt(70000)), Edit("outputs", "path", None)}
    \cup {Edit("outputs", "type", v) : v \in {JsonText("file"), JsonText("tcp-client")}}
    \cup {Edit("custom", "id", JsonText(v)) : v \in {"my", "custom-2", "GGA"}}
    \cup {Edit("destination", "latitude", None), Edit("destination", "origin_latitude", None)}
    \cup {Edit("settings", id, ("period_ms" :> JsonInt(50))) : id \in {"GGA", "XXX"}}
    \cup {Edit("engines", "rpm", JsonText("x")), Edit("no engines", "", None)}

-----------------------------------------------------------------------------
(* The console.                                                            *)
NoOptions ==
    [verb |-> "run", profile |-> None, force |-> FALSE,
     track |-> NoPath, replay |-> NoPath, record |-> NoPath, speed |-> 0,
     ignore_timestamps |-> FALSE, loop |-> FALSE, replay_interval |-> 0, duration |-> 0,
     period |-> 0, stdout |-> FALSE, tcp |-> <<>>, udp |-> <<>>, websocket |-> <<>>,
     serial |-> <<>>, files |-> <<>>, enable |-> <<>>, disable |-> <<>>, encoding |-> "",
     tag_block |-> FALSE, tag_source |-> "", destination |-> None]

Udp(host, port) == [host |-> host, port |-> port]
Serial(device, baud) == [device |-> device, baud |-> baud]
Waypoint(latitude, longitude) == [latitude |-> latitude, longitude |-> longitude, name |-> ""]

MCOptions ==
    {<<>>, [stdout |-> TRUE, duration |-> 2], [stdout |-> TRUE, duration |-> None],
     [tcp |-> <<4000>>, websocket |-> <<3000>>, encoding |-> "signalk"],
     [udp |-> <<Udp("10.0.0.255", <<9>>), Udp("pilot", <<1, 0>>)>>],
     [udp |-> <<Udp("pilot", <<6, 5, 5, 3, 6>>)>>], [udp |-> <<Udp("", <<9>>)>>],
     [udp |-> <<Udp("pilot", None)>>], [udp |-> <<Udp("pilot", <<1, None>>)>>],
     [serial |-> <<Serial("COM4", None), Serial("COM5", <<9, 6>>)>>],
     [serial |-> <<Serial("COM4", <<>>)>>], [serial |-> <<Serial("COM4", <<0>>)>>],
     [files |-> <<Relative(1), Absolute(9)>>, tag_block |-> TRUE, tag_source |-> "GW"],
     [encoding |-> "viewsync", record |-> Relative(2)], [encoding |-> "xml"],
     [track |-> Relative(4), loop |-> TRUE, speed |-> 8, ignore_timestamps |-> TRUE],
     [track |-> Relative(4), speed |-> None],
     [replay |-> Absolute(4), replay_interval |-> 5, record |-> Relative(2)],
     [loop |-> TRUE], [destination |-> Waypoint(8, -9)], [destination |-> Waypoint(361, 0)],
     [enable |-> <<"VTG", "GGA">>, disable |-> <<"GGA">>, period |-> 70],
     [enable |-> <<"XXX">>], [disable |-> <<"VTG">>]}

MCProfileDocuments ==
    LET ready(p) == ToJson(p @@ DefaultProfile)
    IN  {None,
         ready([outputs |-> <<Output("file", Relative(-1), <<>>),
                              Output("log", Relative(1), [texts |-> SignalK]),
                              Output("udp", NoPath, [flags |-> Disabled])>>,
                texts |-> [ProfileTexts EXCEPT !["mode"] = "track"],
                flags |-> [ProfileFlags EXCEPT !["replay.loop"] = TRUE],
                track_path |-> Relative(2),
                sentences |-> "GGA" :> [enabled |-> FALSE, talker |-> "GP", period |-> 50]]),
         ready([outputs |-> <<Output("tcp-client", NoPath, <<>>)>>]),
         ready([outputs |-> <<>>]),
         ready([numbers |-> [ProfileNumbers EXCEPT !["track.speed_kn"] = 0]])}

MCCommands ==
    {[profile |-> document] @@ options @@ NoOptions :
        document \in MCProfileDocuments, options \in MCOptions}
    \cup {[NoOptions EXCEPT !.verb = verb, !.profile = document, !.force = force] :
            verb \in {"profile init", "profile show"}, document \in MCProfileDocuments,
            force \in BOOLEAN}
    \cup {[NoOptions EXCEPT !.verb = verb] :
            verb \in {"ports", "interfaces", "sentences", "help", "none", "unknown"}}

-----------------------------------------------------------------------------
(* The dialog.                                                             *)
MCDialogProfiles ==
    {DefaultProfile,
     [DefaultProfile EXCEPT
        !.numbers["seed.position.latitude"] = 150, !.numbers["seed.heading_true_deg"] = -9,
        !.destination = {[name |-> "HOME", numbers |-> [k \in DestinationKeys |-> 7]]},
        !.sentences = "VTG" :> [enabled |-> TRUE, talker |-> "", period |-> 50],
        !.custom_sentences = <<Custom("", "ok"), Custom("MINE", "ok")>>,
        !.outputs = <<Output("serial", NoPath, [texts |-> SignalK]),
                      Output("file", Relative(1), <<>>)>>]}

MCBoxEdits ==
    [simulation |->
        {Edit("numbers", "seed.position.latitude", 160), Edit("flags", "steer", TRUE),
         Edit("flags", "steer", FALSE), Edit("waypoint", "latitude", 40),
         Edit("texts", "mode", "track"), Edit("texts", "waypoint", " "),
         Edit("track_path", "track_path", Relative(3)), Edit("flags", "fixed_start", TRUE),
         Edit("texts", "name", " ")},
     vessel |->
        {Edit("unsigned", "seed.ais.mmsi", 0), Edit("texts", "seed.ais.name", "my"),
         Edit("numbers", "seed.ais.draught_m", 8)},
     sentences |->
        {[talker |-> "gp"], [talker |-> "G"], [enabled |-> TRUE, period |-> 2000]}]

MCEngineRows == {Engine(" ", FALSE, 9, 9)}
MCCustomRows == {[body |-> "ok"], [id |-> "custom-2"], [id |-> "GGA"]}
MCOutputEdits ==
    {Edit("integers", "port", 7), Edit("integers", "baud_rate", 0),
     Edit("texts", "host", " "), Edit("texts", "tag_block.source", " "),
     Edit("path", "path", Relative(5)), Edit("filter", "filter", <<"rmc", " ">>)}

-----------------------------------------------------------------------------
(* The window.                                                             *)
At(x, y) == [x |-> x, y |-> y]
MCPlaces == {At(1, 3), At(14, 9)}
MCPoints == {At(2, -2), At(-2, 2)}
Voyage(name, mode, duration, route) ==
    [name |-> name, mode |-> mode, opens |-> "ok", duration |-> duration, outputs |-> 1,
     place |-> At(1, 3), route |-> route, destination |-> {}, origin |-> {}]
MCStartProfile == Voyage("default", "delta", 0, <<>>)
MCTrack == Voyage("track", "track", 2, <<At(1, 3), At(14, 9)>>)
MCChosen == {MCTrack, [Voyage("log", "replay", 2, <<>>) EXCEPT !.opens = "rejected"]}
MCStoredProfiles ==
    ("a" :> [Voyage("a", "delta", 0, <<>>) EXCEPT !.destination = {At(14, 9)},
                                                  !.origin = {At(1, 3)}])
    @@ ("b" :> [MCTrack EXCEPT !.opens = "unreadable"])

-----------------------------------------------------------------------------
ProgramsInit ==
    /\ part \in Part
    /\ FilesInit
    /\ CliInit /\ (part # "cli" => command = [NoOptions EXCEPT !.verb = "none"])
    /\ DialogInit /\ (part # "dialog" => opened = DefaultProfile /\ tab = "outputs")
    /\ WindowInit
    /\ part # "window" => settings = [last |-> "", autostart |-> FALSE, online |-> TRUE,
                                      zoom |-> 9]

ProgramsNext ==
    \/ part = "files" /\ FilesNext /\ UNCHANGED <<part, cliVars, dialogVars, windowVars>>
    \/ part = "cli" /\ CliNext /\ UNCHANGED <<part, filesVars, dialogVars, windowVars>>
    \/ part = "dialog" /\ DialogNext /\ UNCHANGED <<part, filesVars, cliVars, windowVars>>
    \/ part = "window" /\ WindowNext /\ UNCHANGED <<part, filesVars, cliVars, dialogVars>>

ProgramsSpec ==
    ProgramsInit
    /\ [][ProgramsNext]_<<part, filesVars, cliVars, dialogVars, windowVars>>
=============================================================================
