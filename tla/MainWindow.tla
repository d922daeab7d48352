----------------------------- MODULE MainWindow -----------------------------
(***************************************************************************)
(* The desktop window (MainWindow) with the controls it keeps in step with *)
(* the runner: the actions of its menus, the dashboard's override boxes,   *)
(* the seek slider, the status bar and the map.                            *)
(*                                                                         *)
(* Every slot runs on one thread and calls or signals the next; one slot   *)
(* is one step here, put together from the functions it calls.  Ticking a  *)
(* box only signals when the tick changes.                                 *)
(***************************************************************************)
EXTENDS MapView, FiniteSets

CONSTANTS
    StartProfile,    \* Profile::default_profile()
    StoredProfiles,  \* of each profile file, what it holds
    Chosen,          \* profiles a track, a log or the settings dialog leads to
    NewFiles,        \* paths a profile may be saved to, with those that fail
    Unwritable,      \* paths of profiles and recordings that cannot be written
    Logs,            \* paths a recording may be given
    Places,          \* positions picked on the map or reached by the vessel
    Points,          \* points of the widget under the pointer
    StoredZooms,     \* zoom levels the settings of an earlier session hold
    MaxEvents        \* bound on the number of events

(* A window profile: its name, mode and file, whether it opens ("ok"),     *)
(* cannot be read ("unreadable") or is rejected by apply_profile           *)
(* ("rejected"), its duration (0 without an end), outputs, place, route    *)
(* and destination (a set of one place or none).                           *)
IsProfile(p) ==
    /\ DOMAIN p = {"name", "mode", "opens", "duration", "outputs", "place", "route",
                   "destination", "origin"}
    /\ p.duration \in Nat /\ IsPoint(p.place)

(* The default profile is one that apply_profile takes.                    *)
WindowAssumption ==
    /\ MapAssumption /\ StoredZooms \subseteq Int
    /\ \A p \in Places \cup Points : IsPoint(p)
    /\ IsProfile(StartProfile) /\ StartProfile.opens = "ok"
    /\ \A path \in DOMAIN StoredProfiles : IsProfile(StoredProfiles[path])
    /\ \A p \in Chosen : IsProfile(p)

VARIABLES
    window,     \* the window and the runner it owns, see Constructed
    settings,   \* AppSettings: last profile, autostart, online and zoom
    profileFiles,   \* of each path, the profile in the file
    events      \* history: the number of events since the launch

windowVars == <<window, settings, profileFiles, events>>

Steerable == {"HeadingTrue", "RudderAngle", "SpeedOverGround"}

(* A new source, and the window before any profile has been applied.       *)
SourceOf(p) ==
    [steering |-> FALSE, rudder |-> 0, pinned |-> {}, place |-> p.place,
     destination |-> p.destination, origin |-> p.origin]

Constructed(zoom) ==
    [profile |-> StartProfile, path |-> "", title |-> StartProfile.name,
     runner |-> [profile |-> StartProfile, running |-> FALSE, paused |-> FALSE,
                 recorder |-> "", position |-> 0, sentences |-> 0],
     source |-> SourceOf(StartProfile),
     dashboard |-> [overrides |-> FALSE, steering |-> FALSE, ticked |-> {}, enabled |-> {}],
     pause |-> [checked |-> FALSE, enabled |-> FALSE],
     steering |-> [checked |-> FALSE, enabled |-> FALSE],
     record |-> FALSE, clear_destination |-> FALSE,
     slider |-> [enabled |-> FALSE, value |-> 0, down |-> FALSE],
     status |-> [name |-> "", mode |-> "", led |-> "", recording |-> FALSE,
                 blinking |-> FALSE, sentences |-> 0, outputs |-> 0],
     chart |-> ZoomTo(NoChart(MaxZoom), zoom, Middle),
     open |-> TRUE,
     wanted |-> FALSE,    \* history: what was last asked of the run
     jumps |-> 0]         \* history: times the vessel was put elsewhere

IsRunning(w) == w.runner.running
HasDelta(w) == w.runner.profile.mode = "delta"     \* delta_source()
Finite(w) == w.runner.profile.duration > 0

-----------------------------------------------------------------------------
(* What the window shows of the runner.                                    *)
RefreshStatus(w) ==
    [w EXCEPT !.status =
        [name |-> w.profile.name, mode |-> w.profile.mode,
         led |-> IF ~IsRunning(w) THEN "stopped"
                 ELSE IF w.runner.paused THEN "paused" ELSE "running",
         recording |-> w.runner.recorder # "",
         blinking |-> w.runner.recorder # "" /\ IsRunning(w) /\ ~w.runner.paused,
         sentences |-> w.runner.sentences,
         outputs |-> w.runner.profile.outputs]]

RefreshView(w) ==
    LET s == w.source
        chart == MapSetVessel(w.chart, s.place, w.jumps)
    IN  [w EXCEPT !.chart = MapSetDestination(chart, s.destination, s.origin),
                  !.clear_destination = s.destination # {}]

(* A slider that is held stays where it is; let go there, it shows an old  *)
(* position until the next tick.                                           *)
RefreshTransport(w) ==
    [w EXCEPT !.slider =
        IF ~Finite(w) THEN [enabled |-> FALSE, value |-> 0, down |-> FALSE]
        ELSE [enabled |-> TRUE, down |-> w.slider.down,
              value |-> IF w.slider.down THEN Between(@.value, 0, w.runner.profile.duration)
                        ELSE w.runner.position]]

SyncOverrides(w) == [w EXCEPT !.dashboard.ticked = w.source.pinned]

(* Dashboard: rudder or heading, whichever steers.                         *)
DashboardSteering(w, on) ==
    LET all == w.dashboard.overrides
    IN  [w EXCEPT !.dashboard.steering = on,
                  !.dashboard.enabled =
                      (@ \ {"RudderAngle", "HeadingTrue"})
                      \cup (IF all /\ on THEN {"RudderAngle"} ELSE {})
                      \cup (IF all /\ ~on THEN {"HeadingTrue"} ELSE {})]

SetOverridesEnabled(w, on) ==
    DashboardSteering([w EXCEPT !.dashboard.overrides = on,
                                !.dashboard.enabled = IF on THEN Steerable ELSE {}],
                      w.dashboard.steering)

(* The slots of the runner's signals.  Unticking Pause here resumes a run  *)
(* that is over, which does nothing.                                       *)
UpdateActions(w) ==
    RefreshStatus(RefreshTransport(
        [w EXCEPT !.pause.enabled = IsRunning(w), !.pause.checked = @ /\ IsRunning(w)]))

PausedChanged(w) == RefreshStatus([w EXCEPT !.pause.checked = w.runner.paused])

RecordingChanged(w) == RefreshStatus([w EXCEPT !.record = w.runner.recorder # ""])

Ticked(w) == RefreshStatus(RefreshTransport(RefreshView(w)))

-----------------------------------------------------------------------------
(* The runner.                                                             *)
RunnerStop(w) ==
    LET halted == [w EXCEPT !.runner.running = FALSE, !.runner.paused = FALSE]
        told == IF w.runner.paused THEN PausedChanged(halted) ELSE halted
    IN  IF IsRunning(w) THEN UpdateActions(told) ELSE told

RunnerStart(w) ==
    IF IsRunning(w) THEN w
    ELSE UpdateActions([w EXCEPT !.runner.running = TRUE, !.runner.paused = FALSE])

SetPaused(w, paused) ==
    IF IsRunning(w) /\ w.runner.paused # paused
    THEN PausedChanged([w EXCEPT !.runner.paused = paused]) ELSE w

(* One step of the source: it moves, and a run that is at its end stops.   *)
Stepped(w, place) ==
    LET position == IF Finite(w) THEN Between(w.runner.position + 1, 0, w.runner.profile.duration)
                    ELSE 0
        moved == Ticked([w EXCEPT !.runner.position = position,
                                  !.runner.sentences = Between(@ + 1, 0, 1),
                                  !.source.place = place])
    IN  IF Finite(w) /\ position = w.runner.profile.duration
        THEN [RunnerStop(moved) EXCEPT !.wanted = FALSE] ELSE moved

(* SimulationRunner::set_recording, which opens the file of a run at once. *)
Records(w, path) == ~ (path \in Unwritable /\ IsRunning(w))
SetRecorder(w, path) == RecordingChanged([w EXCEPT !.runner.recorder = path])

-----------------------------------------------------------------------------
(* MainWindow::start, stop.                                                *)
StartRun(w) ==
    LET started == RunnerStart(w)
    IN  IF IsRunning(w) THEN w
        ELSE IF HasDelta(w)
        THEN SyncOverrides([started EXCEPT !.source.steering = w.steering.checked])
        ELSE started

StopRun(w) == [RunnerStop(w) EXCEPT !.pause.checked = FALSE]

(* toggle_steering, the slot of the Steering mode action.                  *)
ToggleSteering(w, on) ==
    LET steered == [w EXCEPT !.source.steering = on,
                             !.source.rudder = IF on THEN @ ELSE 0,
                             !.source.pinned = IF on THEN @ ELSE @ \ {"RudderAngle"}]
    IN  DashboardSteering(IF HasDelta(w) THEN SyncOverrides(steered) ELSE w, on)

CheckSteering(w, on) ==
    IF w.steering.checked = on THEN w
    ELSE ToggleSteering([w EXCEPT !.steering.checked = on], on)

Applied(w, p) ==
    [w EXCEPT !.runner.profile = p, !.runner.position = 0, !.runner.sentences = 0,
              !.source = SourceOf(p)]

(* The controls of a profile that was applied.                             *)
PresentProfile(w, p, path) ==
    LET named == [w EXCEPT !.profile = p, !.path = path, !.chart = ClearTrack(@),
                           !.title = IF path = "" THEN p.name ELSE path]
        delta == p.mode = "delta"
        enabled == SetOverridesEnabled(named, delta)
        steering == IF delta THEN enabled ELSE CheckSteering(enabled, FALSE)
        allowed == [steering EXCEPT !.steering.enabled = delta]
        viewed == RefreshView(IF delta THEN SyncOverrides(allowed) ELSE allowed)
    IN  RefreshTransport(
            [viewed EXCEPT !.chart = MapSetRoute(MapSetCenter(@, p.place), p.route)])

(* Mutant of SetProfile: the steering mode goes on without a source for it. *)
SetProfile_KeepsSteering(w, p, path) ==
    LET running == IsRunning(w)
        stopped == StopRun(w)
        shown == [PresentProfile(Applied(stopped, p), p, path) EXCEPT
                      !.steering.checked = w.steering.checked]
        next == IF p.opens = "ok" THEN shown ELSE stopped
    IN  IF running THEN StartRun(next) ELSE next

(* set_profile: a rejected profile leaves the previous one, and the run.   *)
SetProfile(w, p, path) ==
    LET running == IsRunning(w)
        stopped == StopRun(w)
        next == IF p.opens = "ok" THEN PresentProfile(Applied(stopped, p), p, path) ELSE stopped
    IN  IF running THEN StartRun(next) ELSE next

LoadProfile(w, path) ==
    IF path \notin DOMAIN profileFiles THEN w
    ELSE IF profileFiles[path].opens = "unreadable" THEN w
    ELSE SetProfile(w, profileFiles[path], path)

Opens(path) == path \in DOMAIN profileFiles /\ profileFiles[path].opens = "ok"

(* open_initial_profile: the one asked for, or the last one.               *)
OpenInitialProfile(w, requested) ==
    LET tried == IF requested = "" THEN w ELSE LoadProfile(w, requested)
    IN  IF Opens(requested) THEN tried
        ELSE IF settings.last \notin {"", requested} THEN LoadProfile(tried, settings.last)
        ELSE tried

-----------------------------------------------------------------------------
(* The settings follow the window: the file of the profile, and the zoom   *)
(* level after view_changed.                                               *)
Becomes(w) ==
    /\ window' = w
    /\ settings' = [settings EXCEPT !.last = IF w.path = "" THEN @ ELSE w.path,
                                    !.zoom = w.chart.zoom]

Event == window.open /\ events < MaxEvents /\ events' = events + 1

Slot(w) == Event /\ Becomes(w) /\ UNCHANGED profileFiles

WindowInit ==
    /\ settings \in [last : {""} \cup DOMAIN StoredProfiles, autostart : BOOLEAN,
                     online : {TRUE}, zoom : StoredZooms]
    /\ profileFiles = StoredProfiles
    /\ window = [Constructed(MinZoom) EXCEPT !.open = FALSE]
    /\ events = 0

(* main and the constructor, which applies the default profile first.      *)
Launch(requested) ==
    LET built == SetProfile(Constructed(settings.zoom), StartProfile, "")
        opened == OpenInitialProfile(UpdateActions(built), requested)
    IN  /\ ~window.open /\ events = 0
        /\ Becomes(IF settings.autostart THEN [StartRun(opened) EXCEPT !.wanted = TRUE]
                   ELSE opened)
        /\ events' = 1
        /\ UNCHANGED profileFiles

(* closeEvent and the destructor.                                          *)
CloseWindow ==
    /\ window.open
    /\ window' = [RunnerStop(window) EXCEPT !.open = FALSE, !.wanted = FALSE]
    /\ UNCHANGED <<settings, profileFiles, events>>

(* Actions of the menus and the toolbar.                                   *)
ToggleRun ==
    Slot([(IF IsRunning(window) THEN StopRun(window) ELSE StartRun(window))
           EXCEPT !.wanted = ~IsRunning(window)])

TogglePause ==
    /\ window.pause.enabled
    /\ LET paused == ~window.pause.checked
       IN  Slot(RefreshStatus(SetPaused([window EXCEPT !.pause.checked = paused], paused)))

Step(place) ==
    LET paused == SetPaused(RunnerStart([window EXCEPT !.wanted = TRUE]), TRUE)
    IN  Slot(UpdateActions(Stepped(paused, place)))

SteerWithRudder ==
    /\ window.steering.enabled
    /\ Slot(CheckSteering(window, ~window.steering.checked))

NewDocument == Slot(SetProfile(window, StartProfile, ""))
OpenDocument(path) == Slot(LoadProfile(window, path))

(* load_track, load_log and edit_settings: the same file, another profile. *)
ChooseProfile(p) == Slot(SetProfile(window, p, window.path))

(* save_profile and save_profile_as.                                       *)
SaveDocument(path) ==
    LET written == path \notin Unwritable
    IN  /\ Event
        /\ Becomes(IF written THEN [window EXCEPT !.path = path, !.title = path] ELSE window)
        /\ profileFiles' = IF written
                     THEN [f \in DOMAIN profileFiles \cup {path} |->
                             IF f = path THEN window.profile ELSE profileFiles[f]]
                     ELSE profileFiles

(* toggle_recording and set_recording: a recording that cannot be opened   *)
(* is given up.  Without a path chosen, nothing changes.                   *)
StartRecording(path) ==
    /\ ~window.record
    /\ Slot(SetRecorder([window EXCEPT !.record = TRUE],
                        IF Records(window, path) THEN path ELSE ""))

StopRecording == window.record /\ Slot(SetRecorder(window, ""))

SetAutostart(on) ==
    /\ Event /\ on # settings.autostart
    /\ settings' = [settings EXCEPT !.autostart = on]
    /\ UNCHANGED <<window, profileFiles>>

DownloadMapTiles(on) ==
    /\ Event /\ on # settings.online
    /\ settings' = [settings EXCEPT !.online = on]
    /\ UNCHANGED <<window, profileFiles>>

(* The slider moves while it is held and seeks when it is let go.          *)
HoldSlider ==
    /\ window.slider.enabled /\ ~window.slider.down
    /\ Slot([window EXCEPT !.slider.down = TRUE])

ReleaseSlider(value, place) ==
    LET released == [window EXCEPT !.slider.down = FALSE]
        jumped == [released EXCEPT !.slider.value = value, !.chart = BreakTrack(@),
                                   !.jumps = @ + 1,
                                   !.runner.position = value, !.source.place = place]
    IN  /\ window.slider.enabled
        /\ value = window.slider.value => window.slider.down
        /\ Slot(IF value = window.slider.value THEN released ELSE Ticked(jumped))

(* Override boxes of the dashboard, and the arrow keys.                    *)
Override(p, active, value) ==
    /\ p \in window.dashboard.enabled
    /\ ~active => p \in window.dashboard.ticked
    /\ LET change(set) == IF active THEN set \cup {p} ELSE set \ {p}
       IN  Slot([window EXCEPT !.dashboard.ticked = change(@),
                               !.source.pinned = change(@),
                               !.source.rudder = IF p = "RudderAngle" /\ active
                                                 THEN value ELSE @])

Nudged(p, by) ==
    LET held == [window EXCEPT !.source.pinned = @ \cup {p},
                               !.source.rudder = IF p = "RudderAngle"
                                                 THEN Between(@ + by, -1, 1) ELSE @]
    IN  HasDelta(window) /\ Slot(RefreshView(SyncOverrides(held)))

ArrowUpDown(by) == Nudged("SpeedOverGround", by)
ArrowLeftRight(by) ==
    Nudged(IF window.steering.checked THEN "RudderAngle" ELSE "HeadingTrue", by)

-----------------------------------------------------------------------------
(* The map: the vessel and the destination.                                *)
MoveVessel(p) ==
    LET profile == [window.profile EXCEPT !.place = p,
                                          !.origin = IF window.profile.destination = {}
                                                     THEN @ ELSE {p}]
        edited == [window EXCEPT !.profile = profile, !.chart = BreakTrack(@)]
        moved == RefreshView(
            [edited EXCEPT !.source.place = p, !.jumps = @ + 1,
                           !.source.origin = IF window.source.destination = {}
                                             THEN @ ELSE {p}])
        seen == IF HasDelta(window) THEN moved ELSE edited
    IN  Slot([seen EXCEPT !.chart = MapSetCenter(@, p)])

SteerFor(destination, origin) ==
    Slot(RefreshView([window EXCEPT !.profile.destination = destination,
                                     !.profile.origin = origin,
                                     !.source.destination = destination,
                                     !.source.origin = origin]))

PickDestination(p) == SteerFor({p}, {window.source.place})
ClearDestination == window.clear_destination /\ SteerFor({}, {})

(* The view.                                                               *)
Look(chart) == Slot([window EXCEPT !.chart = chart])
Zoom(level, point) == Look(ZoomTo(window.chart, level, point))
Follow(on) == on # window.chart.follow /\ Look(SetFollowVessel(window.chart, on))
MousePress(point) == window.chart.drag = {} /\ Look(Press(window.chart, point))
MouseMove(point) == window.chart.drag # {} /\ Look(DragTo(window.chart, point))
MouseRelease == window.chart.drag # {} /\ Look(Release(window.chart))

(* The tick of the runner.                                                 *)
Tick(place) ==
    /\ IsRunning(window) /\ ~window.runner.paused
    /\ Slot(Stepped(window, place))

WindowNext ==
    \/ \E path \in {""} \cup DOMAIN StoredProfiles : Launch(path)
    \/ CloseWindow
    \/ ToggleRun \/ TogglePause \/ SteerWithRudder
    \/ \E place \in Places : Step(place) \/ Tick(place) \/ MoveVessel(place)
                             \/ PickDestination(place)
    \/ ClearDestination
    \/ NewDocument
    \/ \E path \in DOMAIN profileFiles : OpenDocument(path)
    \/ \E p \in Chosen : ChooseProfile(p)
    \/ \E path \in NewFiles \cup ({window.path} \ {""}) : SaveDocument(path)
    \/ \E path \in Logs : StartRecording(path)
    \/ StopRecording
    \/ \E on \in BOOLEAN : SetAutostart(on) \/ DownloadMapTiles(on) \/ Follow(on)
    \/ HoldSlider
    \/ \E value \in {0, 1}, place \in Places : ReleaseSlider(value, place)
    \/ \E p \in Steerable, active \in BOOLEAN, value \in {0, 1} : Override(p, active, value)
    \/ \E by \in {-1, 1} : ArrowUpDown(by) \/ ArrowLeftRight(by)
    \/ \E level \in {MinZoom - 1, MaxZoom}, point \in Points : Zoom(level, point)
    \/ \E point \in Points : MousePress(point) \/ MouseMove(point)
    \/ MouseRelease

WindowSpec == WindowInit /\ [][WindowNext]_windowVars

-----------------------------------------------------------------------------
(* The actions and the status lights show the run.                         *)
RunIsShown ==
    LET w == window
    IN  /\ w.pause.checked = w.runner.paused
        /\ w.pause.enabled = w.runner.running
        /\ w.record = (w.runner.recorder # "")
        /\ w.status.led = IF ~w.runner.running THEN "stopped"
                          ELSE IF w.runner.paused THEN "paused" ELSE "running"
        /\ w.status.recording = w.record
        /\ w.slider.enabled = Finite(w)

(* The dashboard offers the overrides the source can take, ticks those it  *)
(* holds, and steers with the rudder or the heading, never with both.      *)
OverridesAreShown ==
    LET w == window
        steers == IF w.steering.checked THEN "RudderAngle" ELSE "HeadingTrue"
    IN  /\ w.dashboard.enabled = IF HasDelta(w)
                                 THEN {steers, "SpeedOverGround"} ELSE {}
        /\ HasDelta(w) => w.dashboard.ticked = w.source.pinned
        /\ w.steering.enabled = HasDelta(w)
        /\ w.steering.checked => HasDelta(w)
        /\ w.source.rudder # 0 => w.steering.checked

(* The map follows the vessel, and its track joins no two places the       *)
(* vessel was put at rather than sailed to.                                *)
MapIsShown ==
    LET w == window
        c == w.chart
    IN  /\ c.follow /\ HasDelta(w) => c.center = OnMap(w.source.place)
        /\ \A i \in DOMAIN c.track : \A j, k \in DOMAIN c.track[i] :
              c.track[i][j].mark = c.track[i][k].mark
        /\ c.destination = w.source.destination
        /\ w.clear_destination = (c.destination # {})
        /\ c.route = w.runner.profile.route
        /\ settings.zoom = c.zoom

(* Whatever profiles are applied or rejected, runs started, stepped, ended *)
(* or sought in, and boxes ticked, in whatever order: the run goes on as   *)
(* it was asked to, with the profile the window holds, and the window      *)
(* shows it (the slots of MainWindow and DashboardWidget).                 *)
WindowAgrees ==
    window.open =>
        /\ window.runner.running = window.wanted
        /\ window.runner.profile.name = window.profile.name
        /\ RunIsShown
        /\ OverridesAreShown
        /\ MapIsShown

(* Wherever the map is dragged, zoomed or follows, in the corners of the   *)
(* world too: the tiles drawn include the one looked at, and until it is   *)
(* there a tile of that place stands in for it, from any level that is at  *)
(* most MaxParentLevels coarser (draw_tiles, draw_tile, zoom_to, pan_by).  *)
TilesCover ==
    LET c == window.chart
        middle == TileAt(c.center, c.zoom)
        levels == {z \in MinZoom .. c.zoom : c.zoom - z <= MaxParentLevels}
    IN  /\ middle \in DrawnTiles(c)
        /\ \A z \in levels : LET tile == TileAt(c.center, z)
                             IN  Painted(middle, {tile}) = {tile}

(* "Arrow keys move the rudder instead of the heading", and start "carries *)
(* the Steering mode state into a delta source": a run steers as ticked.   *)
SteeringAgrees ==
    window.open /\ IsRunning(window) /\ HasDelta(window) =>
        window.source.steering = window.steering.checked
=============================================================================
