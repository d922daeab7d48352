---------------------------- MODULE SettingsDialog ----------------------------
(***************************************************************************)
(* The settings dialog (app/dialogs): four pages of boxes that are loaded  *)
(* from a profile, checked, and stored into it when the dialog is accepted.*)
(*                                                                         *)
(* A number box shows whole units, for the decimals it has; the numbers of *)
(* a profile count quarters, so a profile may hold more than a box shows.  *)
(* A range that ends between two units ends inside them, and at least at 1.*)
(* Of the texts, those in UpperCase carry blanks or lower-case letters.    *)
(* The port boxes of the output types, which are loaded whenever an output *)
(* is shown, are one.                                                      *)
(***************************************************************************)
EXTENDS Profile, SequencesExt

CONSTANTS
    DialogProfiles,   \* profiles the dialog is opened for
    DialogTabs,       \* the pages that are edited: one in each opening
    BoxEdits,         \* of each page: the boxes that are changed, with values
    EngineRows,       \* what is put in a row of the engines
    CustomRows,       \* what is put in a row of the custom sentences
    OutputEdits,      \* boxes of the output editor: part, key and value
    AddedTypes,       \* types of outputs that are added
    DefaultTalker,    \* of each id of the registry
    MaxEdits          \* bound: changes in one opening

VARIABLES
    opened,     \* profile_ as the dialog was opened with it
    tab,        \* the page that is edited
    simulation, \* boxes of the simulation page
    vessel,     \* boxes of the vessel page
    sentences,  \* rows of the sentences page
    page,       \* the outputs page: outputs_, editing_, list row, editor boxes
    stored,     \* the accepted profile, None while the dialog is open
    problem,    \* the page an error is shown for, "" without one
    asked       \* history: outputs as edited, boxes touched, changes

dialogVars == <<opened, tab, simulation, vessel, sentences, page, stored, problem, asked>>

-----------------------------------------------------------------------------
(* Number boxes.                                                           *)

Below(a, b) == IF a < b THEN a ELSE b
Above(a, b) == IF a > b THEN a ELSE b
Clamp(v, range) == Above(range[1], Below(range[2], v))

(* setValue: rounded to what the box shows, inside its range.              *)
Shown(quarters, range) ==
    Clamp(((quarters + Unit \div 2) \div Unit) * Unit, <<Unit * range[1], Unit * range[2]>>)

(* shows: the box still holds the stored value, as it shows it.            *)
Shows(box, quarters) == box - quarters \in -(Unit \div 2) .. Unit \div 2

UnlessUnchanged(quarters, box) == IF Shows(box, quarters) THEN quarters ELSE box

(* Ranges of the boxes, as constructed.                                    *)
Coordinates == ("seed.position.latitude" :> <<-90, 90>>)
               @@ ("seed.position.longitude" :> <<-180, 180>>)
NumberBoxes ==
    Coordinates
    @@ ("seed.altitude_m" :> <<-500, 20000>>) @@ ("seed.heading_true_deg" :> <<0, 359>>)
    @@ ("seed.speed_over_ground_kn" :> <<0, 999>>) @@ ("seed.depth_m" :> <<0, 99999>>)
    @@ ("seed.magnetic_variation_deg" :> <<-180, 180>>)
    @@ ("seed.magnetic_deviation_deg" :> <<-180, 180>>)
    @@ ("seed.transducer_offset_m" :> <<-50, 50>>) @@ ("seed.water_temperature_c" :> <<-5, 60>>)
    @@ ("seed.wind_true_direction_deg" :> <<0, 359>>) @@ ("seed.wind_true_speed_kn" :> <<0, 200>>)
    @@ ("seed.gnss.hdop" :> <<0, 99>>) @@ ("seed.gnss.pdop" :> <<0, 99>>)
    @@ ("seed.gnss.vdop" :> <<0, 99>>) @@ ("seed.gnss.geoid_separation_m" :> <<-200, 200>>)
    @@ ("steering.turn_rate_per_rudder_deg" :> <<0, 100>>)
    @@ ("steering.max_rudder_angle_deg" :> <<1, 90>>) @@ ("track.speed_kn" :> <<1, 999>>)
    @@ [k \in Variations |-> <<0, 1000>>]
IntegerBoxes ==
    ("tick_ms" :> <<10, 10000>>) @@ ("replay.fixed_interval_ms" :> <<1, 60000>>)
    @@ ("seed.gnss.satellites_in_use" :> <<0, 12>>) @@ ("seed.gnss.satellites_in_view" :> <<0, 12>>)
Radius == <<1, 100000>>

VesselNumbers ==
    ("seed.ais.dimension_to_bow_m" :> <<0, 511>>) @@ ("seed.ais.dimension_to_stern_m" :> <<0, 511>>)
    @@ ("seed.ais.dimension_to_port_m" :> <<0, 63>>)
    @@ ("seed.ais.dimension_to_starboard_m" :> <<0, 63>>) @@ ("seed.ais.draught_m" :> <<0, 25>>)
VesselIntegers == ("seed.ais.ship_type" :> <<0, 255>>) @@ ("seed.ais.navigation_status" :> <<0, 15>>)
Identities == {"seed.ais.mmsi", "seed.ais.imo_number"}
VesselTexts == {"seed.ais.name", "seed.ais.call_sign", "seed.ais.destination"}

-----------------------------------------------------------------------------
(* The simulation page.                                                    *)

Leg(p) == CHOOSE d \in p.destination : TRUE

LoadSimulation(p) ==
    [numbers |-> [k \in DOMAIN NumberBoxes |-> Shown(p.numbers[k], NumberBoxes[k])],
     integers |-> [k \in DOMAIN IntegerBoxes |-> Clamp(p.integers[k], IntegerBoxes[k])],
     flags |-> p.flags @@ ("steer" :> (p.destination # {}))
               @@ ("fixed_start" :> (p.texts["start_time"] # "now")),
     texts |-> ("name" :> p.texts["name"]) @@ ("mode" :> p.texts["mode"])
               @@ ("seed.gnss.quality" :> p.texts["seed.gnss.quality"])
               @@ ("waypoint" :> IF p.destination = {} THEN "" ELSE Leg(p).name),
     seed |-> p.unsigned["random_seed"],
     track_path |-> p.track_path, replay_path |-> p.replay_path,
     waypoint |->
        LET from == IF p.destination # {} THEN Leg(p).numbers
                    ELSE [latitude |-> p.numbers["seed.position.latitude"],
                          longitude |-> p.numbers["seed.position.longitude"],
                          arrival_radius_m |-> 100 * Unit]
        IN  [latitude |-> Shown(from["latitude"], <<-90, 90>>),
             longitude |-> Shown(from["longitude"], <<-180, 180>>),
             arrival_radius_m |-> Shown(from["arrival_radius_m"], Radius)]]

SimulationValid(w) ==
    /\ w.texts["mode"] = "track" => w.track_path # NoPath
    /\ w.texts["mode"] = "replay" => w.replay_path # NoPath

(* A leg that exists keeps its origin and its exact coordinates; a new one *)
(* starts at the seed position.                                            *)
StoredDestination(p, w, seed) ==
    LET at == w.waypoint
        same == /\ p.destination # {}
                /\ Shows(at.latitude, Leg(p).numbers["latitude"])
                /\ Shows(at.longitude, Leg(p).numbers["longitude"])
        name == w.texts["waypoint"]
        leg == IF same THEN Leg(p).numbers
               ELSE [latitude |-> at.latitude, longitude |-> at.longitude,
                     origin_latitude |-> seed["seed.position.latitude"],
                     origin_longitude |-> seed["seed.position.longitude"],
                     arrival_radius_m |-> 0]
    IN  IF ~ w.flags["steer"] THEN {}
        ELSE {[name |-> IF Upper(name) = "" THEN "WPT" ELSE name,
               numbers |-> [leg EXCEPT !["arrival_radius_m"] = at.arrival_radius_m]]}

StoreSimulation(p, w) ==
    LET numbers == [k \in DOMAIN Coordinates |-> UnlessUnchanged(p.numbers[k], w.numbers[k])]
                   @@ w.numbers @@ p.numbers
    IN  [p EXCEPT
            !.numbers = numbers,
            !.integers = w.integers @@ @,
            !.flags = Restrict(w.flags, DOMAIN @),
            !.texts = [@ EXCEPT
                !["name"] = IF Upper(w.texts["name"]) = "" THEN "Untitled" ELSE w.texts["name"],
                !["mode"] = w.texts["mode"],
                !["seed.gnss.quality"] = w.texts["seed.gnss.quality"],
                !["start_time"] = IF ~ w.flags["fixed_start"] THEN "now"
                                  ELSE IF @ = "now" THEN "2026-07-01" ELSE @],
            !.unsigned["random_seed"] = w.seed,
            !.track_path = w.track_path, !.replay_path = w.replay_path,
            !.destination = StoredDestination(p, w, numbers)]

-----------------------------------------------------------------------------
(* The vessel page.                                                        *)

EngineRow(e) ==
    [e EXCEPT !.rpm = Shown(@, <<0, 99999>>), !.coolant_temperature_c = Shown(@, <<-50, 500>>)]

(* A label that is blank takes the number of the row.                      *)
EngineAt(rows, i) ==
    [rows[i] EXCEPT !.label = IF Upper(@) = "" THEN "Engine " \o ToString(i) ELSE @]

LoadVessel(p) ==
    [numbers |-> [k \in DOMAIN VesselNumbers |-> Shown(p.numbers[k], VesselNumbers[k])],
     integers |-> [k \in DOMAIN VesselIntegers |-> Clamp(p.integers[k], VesselIntegers[k])]
                  @@ ("seed.ais.position_report_type" :> p.integers["seed.ais.position_report_type"]),
     unsigned |-> [k \in Identities |-> p.unsigned[k]],
     texts |-> [k \in VesselTexts |-> p.texts[k]],
     engines |-> [i \in DOMAIN p.engines |-> EngineRow(p.engines[i])]]

VesselValid(w) == w.unsigned["seed.ais.mmsi"] > 0

StoreVessel(p, w) ==
    [p EXCEPT
        !.numbers = w.numbers @@ @, !.integers = w.integers @@ @,
        !.unsigned = w.unsigned @@ @, !.texts = [k \in VesselTexts |-> Upper(w.texts[k])] @@ @,
        !.engines = [i \in DOMAIN w.engines |-> EngineAt(w.engines, i)]]

-----------------------------------------------------------------------------
(* The sentences page.                                                     *)

LoadSentences(p) ==
    [decimals |-> Clamp(p.integers["position_decimals"], <<2, 8>>),
     settings |-> [id \in SentenceIds |-> IF id \in DOMAIN p.sentences THEN p.sentences[id]
                                          ELSE DefaultSetting[id]],
     custom |-> p.custom_sentences]

CustomAt(w, i) == [w.custom[i] EXCEPT !.id = Upper(@)]
CustomIdAt(w, i) ==
    IF CustomAt(w, i).id = "" THEN "CUSTOM-" \o ToString(i) ELSE CustomAt(w, i).id

(* A letter alone is only a step while typing.                             *)
SentencesValid(w) ==
    /\ \A id \in SentenceIds : w.settings[id].talker # "G"
    /\ \A i \in DOMAIN w.custom :
        /\ w.custom[i].body \in Bodies
        /\ CustomAt(w, i).id \notin SentenceIds
        /\ \A j \in 1 .. i - 1 : CustomIdAt(w, i) # CustomIdAt(w, j)

StoredSetting(w, id) ==
    [w.settings[id] EXCEPT !.talker = IF Upper(@) = DefaultTalker[id] THEN "" ELSE Upper(@)]

StoreSentences(p, w) ==
    LET changed == {id \in SentenceIds : StoredSetting(w, id) # DefaultSetting[id]}
    IN  [p EXCEPT !.integers["position_decimals"] = w.decimals,
                  !.custom_sentences = [i \in DOMAIN w.custom |-> CustomAt(w, i)],
                  !.sentences = [id \in changed |-> StoredSetting(w, id)]]

-----------------------------------------------------------------------------
(* The outputs page.                                                       *)

OutputIntegerBoxes ==
    [period_ms |-> <<50, 3600000>>, port |-> <<0, 65535>>, reconnect_ms |-> <<1, 3600000>>,
     multicast_ttl |-> <<1, 255>>, baud_rate |-> <<0, LargestInt>>, data_bits |-> <<5, 8>>]
OutputNumberBoxes ==
    ("viewsync.camera_altitude_m" :> <<0, 100000>>) @@ ("viewsync.tilt_deg" :> <<0, 90>>)
    @@ ("viewsync.roll_deg" :> <<-180, 180>>)
Planets == {"", "sky", "mars", "moon"}

CommonKeys == {"enabled", "encoding", "period_ms"} \cup UNION {EncodingKeys[e] : e \in Encodings}
BoxesOf(type) == CommonKeys \cup TypeKeys(type)

(* What the boxes show for an output; the others stay as they were.        *)
EditorFor(editor, output) ==
    LET boxes == BoxesOf(output.type)
        shown(values) == Restrict(values, DOMAIN values \cap boxes)
    IN  [numbers |-> [k \in DOMAIN OutputNumberBoxes |->
                        Shown(output.numbers[k], OutputNumberBoxes[k])],
         integers |-> [k \in DOMAIN OutputIntegerBoxes \cap boxes |->
                        Clamp(output.integers[k], OutputIntegerBoxes[k])] @@ editor.integers,
         flags |-> shown(output.flags) @@ editor.flags,
         texts |-> [shown(output.texts) @@ editor.texts EXCEPT
                        !["viewsync.planet"] = IF @ \in Planets THEN @ ELSE ""],
         path |-> IF "path" \in boxes THEN output.path ELSE editor.path,
         filter |-> output.filter]

Fallback == ("tag_block.source" :> "SIM0001") @@ ("signalk.source_label" :> "nmeasim")

(* edited: the output as the boxes have it.                                *)
EditedOutput(output, editor) ==
    LET boxes == BoxesOf(output.type)
        taken(values) == Restrict(values, DOMAIN values \cap boxes)
        nmea == editor.texts["encoding"] = "nmea0183"
        ids == [i \in DOMAIN editor.filter |->
                    IF nmea \/ Upper(editor.filter[i]) = "" THEN Upper(editor.filter[i])
                    ELSE editor.filter[i]]
        texts == taken(editor.texts) @@ output.texts
    IN  [output EXCEPT
            !.numbers = editor.numbers,
            !.integers = taken(editor.integers) @@ @,
            !.flags = taken(editor.flags) @@ @,
            !.texts = [k \in DOMAIN texts |->
                        IF k \in DOMAIN Fallback /\ Upper(texts[k]) = "" THEN Fallback[k]
                        ELSE IF k \in boxes /\ Upper(texts[k]) = "" THEN "" ELSE texts[k]],
            !.path = IF "path" \in boxes THEN editor.path ELSE @,
            !.filter = SelectSeq(ids, LAMBDA id : id # "")]

(* outputs(): the output being edited is as its boxes are.                 *)
Outputs(pg) ==
    IF pg.editing \in DOMAIN pg.outputs
    THEN [pg.outputs EXCEPT ![pg.editing] = EditedOutput(@, pg.editor)] ELSE pg.outputs

Commit(pg) == [pg EXCEPT !.outputs = Outputs(pg)]

(* show_output; 0 is no output.                                            *)
Show(pg, i) ==
    LET done == Commit(pg)
    IN  IF i \notin DOMAIN done.outputs THEN [done EXCEPT !.editing = 0]
        ELSE [done EXCEPT !.editing = i, !.editor = EditorFor(@, done.outputs[i])]

Select(pg, i) == IF i = pg.row THEN pg ELSE Show([pg EXCEPT !.row = i], i)

AddOutput(pg, type) ==
    LET output == [DefaultOutput EXCEPT
                    !.type = type,
                    !.integers["port"] = IF type = "websocket-server" THEN 3000 ELSE @]
        added == [Commit(pg) EXCEPT !.outputs = Append(@, output)]
    IN  Select(added, Len(added.outputs))

(* The list selects a neighbour of the row that goes, before it goes, and  *)
(* tells its old number; the page then shows the row by its new one.       *)
Removed(pg, i) ==
    LET last == i = Len(pg.outputs)
        neighbour == IF ~ last THEN i + 1 ELSE i - 1
        told == Show([pg EXCEPT !.outputs = RemoveAt(@, i)], neighbour)
    IN  LET now == IF last THEN i - 1 ELSE i
        IN  Show([told EXCEPT !.row = now], now)

(* Mutant of RemoveCurrent: the editor is not forgotten first.             *)
RemoveCurrent_KeepsEditing(pg) ==
    IF pg.row \notin DOMAIN pg.outputs THEN pg ELSE Removed(pg, pg.row)

RemoveCurrent(pg) ==
    IF pg.row \notin DOMAIN pg.outputs THEN pg
    ELSE Removed([pg EXCEPT !.editing = 0], pg.row)

EmptyPage == [outputs |-> <<>>, editing |-> 0, row |-> 0,
              editor |-> EditorFor(DefaultOutput, DefaultOutput)]

LoadOutputs(p) ==
    LET filled == [EmptyPage EXCEPT !.outputs = p.outputs]
    IN  IF p.outputs = <<>> THEN Show(filled, 0) ELSE Select(filled, 1)

OutputsValid(pg) ==
    \A i \in DOMAIN Outputs(pg) :
        LET output == Outputs(pg)[i]
        IN  /\ output.type = "serial" => /\ Upper(output.texts["port_name"]) # ""
                                         /\ output.integers["baud_rate"] > 0
            /\ output.type \in {"file", "log"} => output.path # NoPath
            /\ output.type = "tcp-client" => Upper(output.texts["host"]) # ""

-----------------------------------------------------------------------------
(* The dialog.                                                             *)

DialogInit ==
    /\ opened \in DialogProfiles
    /\ tab \in DialogTabs
    /\ simulation = LoadSimulation(opened) /\ vessel = LoadVessel(opened)
    /\ sentences = LoadSentences(opened) /\ page = LoadOutputs(opened)
    /\ stored = None /\ problem = ""
    /\ asked = [outputs |-> opened.outputs, touched |-> {}, edits |-> 0]

Editing(name) ==
    /\ tab = name /\ stored = None /\ asked.edits < MaxEdits
    /\ UNCHANGED <<opened, tab, stored, problem>>
AskedFor(outputs, touched) ==
    asked' = [outputs |-> outputs, touched |-> touched, edits |-> asked.edits + 1]

(* A box of the first three pages.                                         *)
Set(boxes, edit) == [boxes EXCEPT ![edit.part] = (edit.key :> edit.value) @@ @]

EditSimulation(edit) ==
    /\ Editing("simulation")
    /\ simulation' = IF edit.part \in {"seed", "track_path", "replay_path"}
                     THEN [simulation EXCEPT ![edit.part] = edit.value]
                     ELSE Set(simulation, edit)
    /\ AskedFor(asked.outputs, asked.touched \cup {edit})
    /\ UNCHANGED <<vessel, sentences, page>>

EditVessel(edit) ==
    /\ Editing("vessel")
    /\ vessel' = Set(vessel, edit)
    /\ AskedFor(asked.outputs, asked.touched \cup {edit})
    /\ UNCHANGED <<simulation, sentences, page>>

ChangeEngines ==
    /\ Editing("vessel")
    /\ LET rows == vessel.engines
           added == Engine("Engine " \o ToString(Len(rows) + 1), TRUE, 1500 * Unit, 80 * Unit)
       IN  \/ vessel' = [vessel EXCEPT !.engines = Append(rows, added)]
           \/ \E i \in DOMAIN rows :
                vessel' = [vessel EXCEPT !.engines = RemoveAt(rows, i)]
           \/ \E i \in DOMAIN rows, e \in EngineRows :
                vessel' = [vessel EXCEPT !.engines[i] = EngineRow(e)]
    /\ AskedFor(asked.outputs, asked.touched)
    /\ UNCHANGED <<simulation, sentences, page>>

EditSentence(id, setting) ==
    /\ Editing("sentences")
    /\ sentences' = [sentences EXCEPT !.settings[id] = setting @@ @]
    /\ AskedFor(asked.outputs, asked.touched)
    /\ UNCHANGED <<simulation, vessel, page>>

SetAll(on) ==
    /\ Editing("sentences")
    /\ sentences' = [sentences EXCEPT !.settings =
                        [id \in SentenceIds |-> [@[id] EXCEPT !.enabled = on]]]
    /\ AskedFor(asked.outputs, asked.touched)
    /\ UNCHANGED <<simulation, vessel, page>>

(* The rows of the table only; custom sentences and decimals stay.         *)
ResetDefaults ==
    /\ Editing("sentences")
    /\ sentences' = [sentences EXCEPT
                        !.settings = DefaultSetting,
                        !.custom = [i \in DOMAIN @ |-> CustomAt(sentences, i)]]
    /\ AskedFor(asked.outputs, asked.touched)
    /\ UNCHANGED <<simulation, vessel, page>>

ChangeCustom ==
    /\ Editing("sentences")
    /\ LET rows == sentences.custom
           added == [id |-> "", body |-> "", period |-> 1000, enabled |-> TRUE]
       IN  \/ sentences' = [sentences EXCEPT !.custom = Append(rows, added)]
           \/ \E i \in DOMAIN rows :
                sentences' = [sentences EXCEPT !.custom = RemoveAt(rows, i)]
           \/ \E i \in DOMAIN rows, c \in CustomRows :
                sentences' = [sentences EXCEPT !.custom[i] = c @@ @]
    /\ AskedFor(asked.outputs, asked.touched)
    /\ UNCHANGED <<simulation, vessel, page>>

SelectOutput(i) ==
    /\ Editing("outputs") /\ i \in DOMAIN page.outputs
    /\ page' = Select(page, i)
    /\ AskedFor(asked.outputs, asked.touched)
    /\ UNCHANGED <<simulation, vessel, sentences>>

AddOutputOf(type) ==
    /\ Editing("outputs")
    /\ page' = AddOutput(page, type)
    /\ AskedFor(Append(asked.outputs, AddOutput(page, type).outputs[Len(page.outputs) + 1]),
                asked.touched)
    /\ UNCHANGED <<simulation, vessel, sentences>>

RemoveOutput ==
    /\ Editing("outputs") /\ page.row \in DOMAIN page.outputs
    /\ page' = RemoveCurrent(page)
    /\ AskedFor(RemoveAt(asked.outputs, page.row), asked.touched)
    /\ UNCHANGED <<simulation, vessel, sentences>>

(* A box of the editor, of those the output shows.                         *)
EditOutput(edit) ==
    LET put(o) == IF edit.part \in {"path", "filter"} THEN [o EXCEPT ![edit.part] = edit.value]
                  ELSE [o EXCEPT ![edit.part][edit.key] = edit.value]
    IN  /\ Editing("outputs") /\ page.editing # 0
        /\ edit.key \in BoxesOf(page.outputs[page.editing].type) \cup {"filter"}
        /\ page' = [page EXCEPT !.editor = put(@)]
        /\ AskedFor([asked.outputs EXCEPT ![page.row] = put(@)], asked.touched)
        /\ UNCHANGED <<simulation, vessel, sentences>>

(* accept: the pages are checked in their order; the first that has a      *)
(* problem is shown, and nothing is stored unless none has.                *)
FirstProblem ==
    IF ~ SimulationValid(simulation) THEN "simulation"
    ELSE IF ~ VesselValid(vessel) THEN "vessel"
    ELSE IF ~ SentencesValid(sentences) THEN "sentences"
    ELSE IF OutputsValid(page) THEN "" ELSE "outputs"

Accept ==
    /\ stored = None
    /\ problem' = FirstProblem
    /\ stored' = IF FirstProblem # "" THEN None
                 ELSE [StoreSentences(StoreVessel(StoreSimulation(opened, simulation), vessel),
                                      sentences) EXCEPT !.outputs = Outputs(page)]
    /\ UNCHANGED <<opened, tab, simulation, vessel, sentences, page, asked>>

DialogNext ==
    \/ \E edit \in BoxEdits.simulation : EditSimulation(edit)
    \/ \E edit \in BoxEdits.vessel : EditVessel(edit)
    \/ ChangeEngines
    \/ \E id \in SentenceIds, setting \in BoxEdits.sentences : EditSentence(id, setting)
    \/ \E on \in BOOLEAN : SetAll(on)
    \/ ResetDefaults \/ ChangeCustom
    \/ \E i \in DOMAIN page.outputs : SelectOutput(i)
    \/ \E type \in AddedTypes : AddOutputOf(type)
    \/ RemoveOutput
    \/ \E edit \in OutputEdits : EditOutput(edit)
    \/ Accept

-----------------------------------------------------------------------------
(* An output as the editor would leave it.                                 *)
Normal(output) == EditedOutput(output, EditorFor(EmptyPage.editor, output))

Touched(key) == \E edit \in asked.touched : edit.key = key

(* An accepted profile can be written and read again; each of its outputs  *)
(* is the one that was edited under its row, whatever was added, removed   *)
(* and selected in between; and what nobody touched is kept: a coordinate  *)
(* to its last digit, a leg with the origin it has (OutputsPage,           *)
(* SimulationPage::store, SettingsDialog::accept).                         *)
AcceptsWhatWasAsked ==
    stored # None =>
        /\ Valid(ToJson(stored))
        /\ Len(stored.outputs) = Len(asked.outputs)
        /\ \A i \in DOMAIN asked.outputs : Normal(stored.outputs[i]) = Normal(asked.outputs[i])
        /\ \A k \in DOMAIN Coordinates :
            ~ Touched(k) => stored.numbers[k] = opened.numbers[k]
        /\ ~ Touched("latitude") /\ ~ Touched("longitude") =>
            \A old \in opened.destination, new \in stored.destination :
                \A k \in DestinationKeys \ {"arrival_radius_m"} :
                    new.numbers[k] = old.numbers[k]
        /\ \A i \in DOMAIN stored.engines : stored.engines[i].label # ""
        /\ \A id \in DOMAIN stored.sentences : stored.sentences[id] # DefaultSetting[id]
=============================================================================
