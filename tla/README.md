# NMEA Simulator X: the TLA+ project

TLA+ models of NMEA Simulator X: the machines in which the order of events decides whether the
program is right, the data that passes through them, and the programs around them; the TLC
configurations that check them on small instances; and TLAPS proofs of properties that should
hold for every instance. All paths below are relative to the
repository.

## 1. The system

NMEA Simulator X simulates a vessel and sends what its instruments would say. A **source**
moves a vessel state through simulated time, a **schedule** decides which sentences are due, a
**runner** ties the simulated clock to the real one and hands every line to the **outputs**. A
window and a command line program drive the runner.

Everything runs on one thread with a Qt event loop. There is no parallelism to get wrong; what
is hard is that timers, socket signals and operator commands arrive in any order, and that many
handlers emit signals which run other handlers before they return.

| Component | State | Operations | What makes it correct |
|---|---|---|---|
| Sentence schedule (`core/simulation/sentence_scheduler`, `custom_sentence`) | settings and next due time of each registry and custom sentence | `due`, `reset`, `configure`, `set_enabled`, `set_group_enabled`, `set_period_for_all`, `set_custom_sentences` | exact cadence, no burst after a stall, no starvation, one sentence per id |
| Replay source (`replay_source`) | log, clock, cursor, decoded state, finished | `advance`, `step_once`, `seek`, `reset` | no entry lost, repeated or reordered; the state is that of the position; a loop keeps its cadence |
| Track source (`track_source`) | legs, progress, lap, state | `advance`, `seek`, `jump_to_point`, `reset` | progress stays on the track, ends or wraps |
| Delta source (`delta_source`) | state, overrides, steering mode | `advance`, `set_override`, `clear_override`, `nudge`, `reset`, ... | a pinned value is held, a drifting one stays in its band |
| Simulation (`simulation`) | elapsed time, a source, a schedule | `step`, `step_once`, `seek`, `reset` | source first, then the sentences that are due |
| Log reader (`core/log`) | none | `load_log`, `parse_log`, `format_log_line` | each sentence replays as long after the first as the log tells; offsets never decrease |
| NMEA 0183, AIS, Signal K, ViewSync (`core/nmea0183`, `core/ais`, `core/signalk`, `core/viewsync`) | none | encode, decode, frame | a receiver rebuilds the state that was sent; no sentence is too long |
| Profile (`io/profile`) | the settings of a run | load, save, `make_scheduler` | only values in range reach the runner; what was saved is what is loaded, wherever it was saved |
| Simulation runner (`io/simulation_runner`) | profile, simulation, outputs, recorder, tick timer, paused flag, wall clock reference | `apply_profile`, `start`, `pause`, `resume`, `stop`, `step`, `seek`, `set_recording`, the tick | keeps pace with the wall clock, a stopped run holds nothing, a complete recording, observers are told |
| Transports (`io/transports`) | life cycle state, a socket, file or device, clients, reconnection timer | `open`, `close`, `write`, the socket signals | lines reach every consumer attached; state is the truth; a client retries |
| Command line program (`cli`) | a runner, the options | `run`, `profile`, lists | runs what was asked; the exit status tells what happened |
| Settings dialog (`app/dialogs`) | pages of boxes, a row selected | load, edit, accept | a box nobody touched changes nothing; an accepted profile can be run and saved |
| Window and dashboard (`app`) | a runner, actions, boxes, settings | menu actions, drag, keys | shows what the runner does |
| Map (`app/map/map_widget`) | centre, zoom, trail, marks | zoom, drag, follow, pick | the vessel it follows is in the middle; the trail is whole; no hole where a coarser tile is at hand |
| Tile cache (`app/map/tile_cache`) | memory and disk cache, queue, running downloads, failures | `tile`, `set_online`, `set_url_template`, `clear`, a finished reply | never more than four requests, none twice, none forgotten, back-off |

Interaction: the runner owns the simulation and the outputs and calls them directly; the outputs
report through `state_changed`, `error_occurred` and `client_count_changed`; the runner reports
through `started`, `stopped`, `paused_changed`, `recording_changed`, `finished` and `ticked`, which
the window and the console mirror. The tick timer, the reconnection timer and the sockets call
back into these objects from the event loop. The tile cache stands alone between the map and the
network.

The hard behaviours, each with its line and the properties that watch it, are listed under
`hazards` in PROJECT.json.

## 2. Modules

| Module | Models | Notes |
|---|---|---|
| `NextDue` | `next_due_after` and its use for one entry | shared by the schedule and the state messages of the runner |
| `SentenceScheduler` | the schedule under the calls of a `Simulation` | one action per operation |
| `ReplaySource` | the replay under the calls of a `Simulation` | `advance` in closed form, one action per outcome |
| `MCReplaySource` | the loop of `advance` as written | shown equal to the closed form by `LoopAgrees` |
| `TransportLink`, `Transport` | the abstract transport: what `open`, `close` and an event may do to its state, by kind of link | the specification the outputs implement |
| `TcpClientTransport` | the TCP client with its reconnection timer | implements `Transport` with kind `client` |
| `ServerTransport` | the TCP and WebSocket servers | implements `Transport` with kind `listener` |
| `FanOut` | a run that feeds one client and one server | composes the two with `INSTANCE` |
| `SimulationRunner` | the runner with its recorder; its outputs as abstract transports | takes the outcomes of `TransportLink`, which `FanOut` shows the real outputs keep to |
| `TileCache` | the tile cache and its downloads | |
| `Physics` | angles, places and wind | shared by the sources and the encoders |
| `TrackSource` | leg table, `advance`, `seek`, `jump_to_point`, `reset` and the calls that change a state | |
| `DeltaSource` | drift, overrides, steering | |
| `VesselState` | the snapshot of the vessel | |
| `Decoder` | `parse_sentence`, `apply_sentence` and a decoder for each formatter | |
| `Ais` | packing of both reports, armouring, splitting over sentences, reading a position report back | |
| `Encoders` | an encoder for each formatter, the registry, the choice of decimals | |
| `SignalK` | the Signal K delta and hello, the ViewSync packet | |
| `Framing` | custom sentences, TAG blocks | |
| `Link` | a vessel heard by a receiver over a wire that loses lines | composes `Encoders`, `SignalK`, `Framing` with `Decoder` |
| `LogFile` | lines of a log, their times, the offsets of a replay | uses `Decoder` and `Framing` |
| `MCData` | runs one of `TrackSource`, `DeltaSource`, `Link` and `LogFile` | |
| `Profile` | a profile and its document: defaults, ranges, migration, paths | |
| `ProfileFiles` | profiles saved, edited by hand, loaded, in several directories | |
| `CommandLine` | the console program | uses `Profile` and the outcomes of `TransportLink` |
| `SettingsDialog` | the four pages of the dialog and the output editor | uses `Profile` |
| `MapView` | projection, view, trail and tiles of the map | pure: states of a map to states of a map |
| `MainWindow` | the slots of the window with the runner, the dashboard, the status bar and the map | composes `MapView` |
| `MCPrograms` | runs one of `ProfileFiles`, `CommandLine`, `SettingsDialog` and `MainWindow` | |
| `MC*` | instances for TLC | |
| `Sources_proofs` | theorems about `TrackSource`, `DeltaSource` and `ReplaySource` | |
| `Profile_proofs` | theorems about `Profile`, `ProfileFiles` and `CommandLine` | |
| `Desktop_proofs` | theorems about `TileCache`, `MapView` and `MainWindow` | |
| the other `*_proofs` | theorems about the module they are named after | |

`MCData` and `MCPrograms` put parts side by side that share no state: a behaviour chooses one at
first, and the others keep one initial state. One run then covers all of them without the product of
their states.

How state and actions correspond to the code:

- **SentenceScheduler.** `entries` and `custom` are `entries_` and `custom_entries_` without the
  text of the sentences. `custom` is a function on the positions of the list as entered, so that
  dropping a sentence leaves the others at theirs: the id of a sentence without one depends on
  that position. `Step(dt)` is `Simulation::step`: the clock moves, then `due`. `sent` holds the
  ids a step returned and `hist` what the properties need of the past.
- **ReplaySource.** A log entry is its offset and the set of fields its sentence sets; the decoded
  state maps a field to the entry that set it last, 0 for the seed. That is enough to tell any two
  orders of decoding apart. `cursor` counts the entries played, as `cursor_` does from zero.
  `out` is what `take_sentences` returned. The `while` loop of `advance` has no counterpart in
  one TLA+ step, so its five outcomes (`PlayOn`, `WrapAround`, `StartOver`, `RunOut`, `Stay`) are
  given by where it ends, and `LoopAgrees` checks them against the loop written out in
  `MCReplaySource`.
- **SimulationRunner.** An action is one public operation or one event of the event loop with
  everything it calls: `Step` starts a stopped run, pauses it, steps, emits, and stops it again
  when the source is finished, with all the signals on the way. `lag` is
  `wall_clock_ - wall_consumed_` in units of 1/`Sub` ms, capped where a longer lag makes no
  difference. `seen` is what an observer of the signals believes. A profile is its mode, its loop
  flag, its duration and its enabled outputs.
- **TcpClientTransport.** `socket_` is external; the handlers of its signals are operators from
  the state of the transport to the state of the transport, so that an event that emits two
  signals runs two handlers, in each order a platform may choose. `close` runs the handler of the
  `disconnected` signal that `abort` emits.
- **ServerTransport.** A peer in the listen queue is `pending` until `accept_connections` runs; one
  that hung up is `closing`, still in `clients_` but no longer written to, until its signal is
  handled.
- **TileCache.** `running` maps a tile to the server its request went to. Times are what is left
  until `retry_at`. A tile on disk is one that loads; failing to write one is one of the outcomes
  of a download.

- **TrackSource.** The earth is one meridian, so that a leg has a length and a bearing of two. `legs`
  is `legs_`, built by the rules of `build_legs` (no timestamps, timestamps out of order, points that
  coincide). Time is in half milliseconds, because legs do not last whole milliseconds while `seek`
  and the clock do: the rounding of both is in the model. `placed` is history: where the vessel was
  last put, and for how long it has sailed since.
- **DeltaSource.** A parameter has a whole value. `drift` draws a step and reflects it at the
  band: the draw is a choice over the steps that may be drawn. A heading is one of eight units of the
  circle, enough for a turn through north in either direction. The clock is a time of day, so that the
  source may run for ever, which `BackInBand` needs.
- **Link.** A field of a sentence is empty, a number or a text, in whole units of what it stands for;
  which fields a formatter has, in which order and from which part of the state, and which a decoder
  reads, requires or leaves alone, is kept. A receiver starts with the state of another vessel. An
  emission may lose all lines of some formatters.
- **LogFile.** A line is what the parser looks at: its time prefix, its TAG block, its sentence. Lines
  come from this program's recorder, from other loggers and from captures. `Backwards` is FALSE in the
  runs: a log whose lines step back over midnight reads as one that runs on for almost a day, and no
  reader can tell the two apart.
- **Profile, ProfileFiles.** A document is flat: a nested key has the name of its object before it. Its
  numbers count quarters, so that a number may be no integer, and rounding has something to do. Files
  and directories are places on a line, a relative path is a displacement: saving in another directory
  has to change the displacement and keep the place.
  A destination, which a profile may lack, is a set of at most one. `Valid` and `Load` are the two
  halves of `from_json`: what it refuses, and what it makes of the rest.
- **CommandLine.** An action is a stage of `run_simulation`: refusal, the profile, the outputs, the
  ticks, the interrupt, the end. An output ends as `TransportLink` lets `open` end for its kind. The
  channels are a function on the positions of the outputs that are enabled.
- **SettingsDialog.** The pages are records of boxes, loaded by `load`, read back by `store`. A box
  shows fewer digits than the profile holds. The output editor is one set of boxes for the row
  selected; changing the row stores and loads it. `asked` is history: the outputs as the user left
  them, and the boxes touched.
- **MapView, MainWindow.** A slot with everything it calls and signals is one step: an operator from
  window to window, put together from the operators of the functions it calls, in their order. The
  world is counted in pixels of the largest zoom, zoom levels are whole, the widget is four pixels
  wide. Ticking a box signals only when its tick changes.

Each mutant named in PROJECT.json is an operator above the definition it mutates (`X_Something` is
a plausible mistake in `X`); no specification refers to it.

## 3. Runs

| Run | Checks | Bounds |
|---|---|---|
| `scheduler` | cadence, bursts, starvation, ids | one registry sentence, three lists of custom sentences, steps of 1, 2 and 5, up to time 9 |
| `replay` | order, completeness, decoded state, end, laps, the closed form | six logs, steps of 1, 2, 3, 7, 12 ms between placements |
| `runner_pace` | pace, recording, signals | half-millisecond clock, `MaxStep` 2 ms, two files, two sentences per recording |
| `runner_outputs` | stopped means closed; messages prompt and without bursts; finite runs end (liveness) | a client, a device and a listener in the profiles, periods 2 and 3, replays of length 0 and 2 |
| `fan_out` | delivery, retries, reconnection, refinement of `Transport` | two peers, two lines, interval 2 |
| `tile_cache` | the requests in hand, none unwanted, back-off, an answer for every tile (liveness) | three tiles, two slots, two servers, memory of one tile |
| `data` | a track sails all its time and stays on it; a pinned value is held and a drifting one returns to its band (liveness); a receiver rebuilds what was sent and follows the clock; a log replays at its own pace | below |
| `programs` | a saved profile loads again and can run; a command line runs what it asks; a dialog stores what was edited; the window shows the run, and its map the tiles of the place looked at | below |
| `replay_zero_duration` | refutes a sentence of the documentation | as `replay` |
| `runner_slow_tick` | refutes a sentence of the documentation | tick interval above `MaxStep` |
| `steering` | refutes a sentence of the documentation | the window of `programs` |
| `keeps_connecting` | refutes a sentence of the documentation | the console of `programs` |

Why the bounds are enough:

- The schedule compares only the due time, the clock and a period. Steps of 1 and 2 keep up with
  periods 2 and 3, a step of 5 skips slots of both, and time 9 leaves room for three emissions and
  a stall, which is what `NoBurst` needs. The custom period default of 1000 lies beyond the
  bound and shows that such a sentence is sent once. The lists make ids collide with each other,
  with the registry and with ids filled in from a position.
- The logs include an empty one, one of a single entry, shared offsets at the start and at the
  end, no duration, and a gap. A step of 7 spans several passes of each.
- The runner needs `MaxStep` of 2 ms and halves of a millisecond to tell carrying, rounding and
  clamping apart. Requests stop at `LastRequest`, so that the liveness run sees runs left alone.
  `runner_pace` has no outputs and `runner_outputs` no sentences: the two share only the clock.
- Two peers show one client dropping while another stays; two lines, one before and one after an
  attachment. Three tiles for two slots is the least with a tile waiting; `MaxFails` of 3 passes
  the longest delay. The one memory slot makes tiles leave the memory, so that they are asked for
  again.
- `data`, tracks: no point, one, a plain leg, one track with a stop, a change of course and two points
  at one time, and points that share a place; with and without timestamps, stopping and looping. Steps
  of 1, 2 and 5 ms lie below a leg, across one, and above a lap; seeks lie before the start, on a
  corner and past the end.
- `data`, drift: two configurations, so that an angle at north and a value at zero, which the code
  treats apart from others, both drift. Two calls among any number of advances suffice to pin and release, or
  to steer and pin; from then on the source is left alone, as `BackInBand` asks.
- `data`, link: a state with everything in it, one with a differential fix and neither engines nor a
  destination, one that lost its fix, one elsewhere; emissions up to a day and a half, by steps below
  and above half a day, the limit of `apply_time`. Losses leave a receiver without a date, without a
  heading or without a time.
- `data`, logs: three lines by any of the writers, with steps back by less than a second and ahead by
  almost half a day, started just before midnight and after Unix times begin to count
  milliseconds.
- `programs`, files: two directories, a change in a dialog and an edit by hand, each edit at the
  border of a rule of `from_json`. Two changes would only repeat independent rules.
- `programs`, console: five profiles (none, one with everything, one client only, no outputs, one
  out of range) with each group of options, accepted and refused.
- `programs`, dialog: four changes in an opening: to select, edit, select another row and remove one.
- `programs`, window: five events open, run and disturb a run in every order of the slots; a trail of
  at most three points; three zoom levels, of which a tile may stand in for one level below only, so
  that the limit on ancestors is felt. The pointer touches two opposite corners, so that one drag crosses
  the widget and reaches the edges of the world.

Fairness is assumed of the environment and the event loop only, never of the operator:

- `SimulationRunner`: weak fairness of the tick, since a Qt timer that is active fires again and
  again, and of the wall clock.
- `TcpClientTransport`: weak fairness of a due timer, of the passage of time, and of the outcome of
  a connection attempt. The server may come and go for ever: `Reconnects` promises a connection
  only while it is listening.
- `TileCache`: weak fairness of the end of each running download, which the transfer timeout of
  15 s (tile_cache.cpp:32) guarantees. Requests are not assumed to be made.
- `DeltaSource`: weak fairness of `advance`, since a running simulation is ticked. Nothing is assumed
  of the operator: `BackInBand` speaks of a value that is left alone from some point on.

The parts of `programs` and the other parts of `data` have no fairness: their properties are safety.

Deadlock is checked in every run but those of `MCData` and `MCPrograms`: a log has been read, a
program has ended, a dialog has been accepted, a window closed, and nothing follows.

### What the violation runs show

- **A looping log without duration is not sent once per tick**
  (docs/explanation/simulation-model.md:118, replay_source.hpp:55). `advance` rewinds at the end of
  the tick that sent the log. A seek or a single step through the last entry leaves the cursor at
  the end, so the next tick finds nothing due, rewinds and sends nothing; the one after sends it.
- **A tick interval above one second loses time on time**
  (docs/explanation/simulation-model.md:154). A profile may set `tick_ms` up to 10000, and the runner
  clamps each tick to `kMaxStep`, one second, dropping the rest. With `tick_ms` 2000 the simulated
  clock runs at half speed although the host is never late.
- **Single-stepping a stopped run forgets the steering mode** (docs/reference/desktop-app.md:48,
  main_window.hpp:191). Step calls the runner, which starts a stopped run by itself;
  only `MainWindow::start` carries the tick of Steering mode into the source. After a profile is
  applied with the box ticked, Step runs a source that does not steer.
- **A console run with a TCP client only ends at once** (docs/reference/transports.md:30,
  docs/reference/cli.md:77). `run_simulation` counts the open outputs right after `start`, when a
  client can only be connecting, and exits with status 3 instead of letting it try.

Seen while modelling, each too small for a run:

- Applying a profile while nothing runs leaves the texts of the status bar as they were
  (main_window.cpp:621-671, desktop-app.md:26), and Step does not clear the console as start does;
  `WindowAgrees` speaks of the light and of the recording, not of those texts.
- `--rate` (cli.md:37) does not touch custom sentences.
- A slider pressed and released without moving keeps an old position until the next tick; moving the
  vessel in track mode centres the map on the place it was dragged to until the next tick.
- A looping track draws a line across the map from its end to its start.
- In track and replay mode the override ticks stay as they were in delta mode; they are disabled.

## 4. Proofs

TLC checks one instance; these theorems hold for every value of the constants that satisfies the
`ASSUME`s of the modules.

**`SentenceScheduler_proofs`** (any registry, periods, steps and lists): `TypeCorrect`,
`IdsStayUnique`, `WaitIsBounded`, `CadenceIsExact`, `NeverABurst`. None of the last three is inductive:
`BoundedWait` says nothing of the emissions so far and `NoBurst` is about three of them. The
inductive invariant `IInv` adds `Good(e, h, t)` for every entry: the due time is above the last
emission, a period above the one before it, at most the longest period away, and, while steady, the
next multiple of the period. `NextDueBounds` states what `next_due_after` guarantees; each action has
a lemma that it keeps `Good`.

**`Sources_proofs`**, replay (any logs with offsets that never decrease): `TypeCorrect`,
`NothingIsSkipped`, `SeekingEqualsPlaying`, `FinishedIsTheEnd`, `SentencesInOrder`,
`LoopsWithoutHiccup`. `ReplayIInv` is the conjunction of the first four
properties, which is inductive: decoding on from the cursor needs that the state is the one decoded
so far (`DecodeOn`), and the cursor needs that the clock lies between the entries played and the
next (`PlayedToFacts`). What an `advance` sends is read off the five outcomes once (`AdvanceSends`): the
entries from the cursor on, lap after lap, to the new clock. `PlaysInOrder` is that fact for a step;
`NoHiccup` adds that ticks compose, since time counted modulo a lap adds up (`ModAdd`, `StepNoHiccup`).
Existence of the point where the loop stops is a least-number argument on the
well-foundedness of the naturals.

**`TcpClientTransport_proofs`** (any reconnection interval in `Nat` and any lines): `TypeCorrect`,
`RetriesOnTime`, `StateIsTheTruth`, and `ClientIsATransport`, the refinement of `Transport` with kind
`client`. The conjunction of the three invariants is inductive: a retry is pending only because the
state and `wanted` agree with the socket when a signal arrives. One lemma per signal handler states
what it does to any client (`ScheduledFacts`, `DisconnectedFacts`, `ErrorFacts`), so that the
orders in which Qt may report a lost connection are compositions of the same facts (`DropFacts`).

**`ServerTransport_proofs`** (any finite set of peers, with and without the greeting):
`NoStrayClient`, `StreamsAreWhole`, and `ServerIsATransport`. `ClientsAreAttached` is not inductive:
a peer that waits in the listen queue becomes a client, and that it becomes the client of an open
server needs that the queue is empty while the server is not open (`OnlyWhileOpen`).

**`FanOut_proofs`** carries both to the run in which the outputs live side by side: a step of `FanOut`
is a step of the client or leaves it alone, and the same for the server (`ClientStep`,
`ServerStep`). It proves `TypeCorrect`, `RetriesOnTime`, `StateIsTheTruth`, `NoStrayClient` and the
refinement `OutputsKeepThePromise` from `FanOutAssumption`. `LinesArrive` needs a second invariant,
`LInv`: what every peer holds ends with the last line written (`ClientHolds`, `ServerHolds`), and a run
that is stopped left no client that could still connect to the next one (`Stopped`). The first lemmas
of the module say that the instances `CP` and `SP`, through which the theorems are cited, are the `C`
and `S` of the model.

**`SimulationRunner_proofs`** (any outputs of any kinds, profiles, files, tick intervals, `MaxStep` and
resolution of the clock): `NothingLeftOpen`, `SignalsAreTrue`, `NothingUnrecorded`, `ClockKeepsPace`,
`MessagesKeepTime`, the five safety properties of the runs `runner_pace` and `runner_outputs`. `IInv`
adds to the three invariants what they rest on: `Recording` (an open file was opened by this recording,
and a run whose start did not fail has it open), `Paced` (while the run is going, the time it is behind
is the wall-clock time the ticks have not used) and `Scheduled` (an owed message is due; the next one is
later than the last and more than a period later than the one before). `step()` and `tick()` share the
handlers that emit and finish, so `EmitFacts` proves them once, from what a run that is going gives them:
`GoingFacts` when it was going, `OpeningFacts` when the step had to start it. `TickFacts` is the
arithmetic of the clock: the whole milliseconds are used and less than one is left. Each action has a
lemma that it keeps `Kept`, the invariant and both action properties.

**`Sources_proofs`**, tracks (any tracks with or without timestamps, steps, seeks and unit of time):
`PaceKept` and `StaysOnTrack`, for the vessel however the time is cut into steps. `TrackIInv` ties the
progress to `placed`, where the vessel was last put and the time it has sailed since: the progress is
what one long step from there would leave (`AdvancePace`), on a looping track modulo a lap. It also
says what a leg table is (`LegTable`): legs start where the last one ended, so that the leg chosen for
a progress is the one it lies in. The starts and the bearings of the legs (`LegStarts`, `LegBearings`)
are recursive functions, and that each exists is a least-number argument on the well-foundedness of
the naturals.

**`Sources_proofs`**, drift (any configuration, circle and length of tick): `PinsHold`, that a pinned
value is not moved by the wander of those it depends on; and `BandsHold`, the safety half of
`BackInBand`: once in its band a drifting value stays in it, an angle across north and a value at
zero included. `BandsHold` speaks of a seed that is a proper value (`ProperSeed`: an angle on the
circle, nothing below zero where the source cuts off at zero). A profile edited by hand may hold others,
and about those nothing is proved.

**`Desktop_proofs`**, tiles (any tiles, servers and limits): `RequestsStayInHand`,
`NothingUnwanted` and `BacksOffInTime`. The first two speak of the queue, the downloads and the set of
queued tiles at once, and
neither is inductive: `IInv` says that no tile waits while a slot is free (`Busy`), that every tile in the hands of
the cache is known to be (`Named`), that what is asked for is allowed (`Allowed`), and that a tile the
server does not have is remembered (`Remembered`). `StartNextFacts` says what `start_next`, the
loop at the end of every handler, makes of any queue. For the third, `AllBacked` compares what the
cache keeps with what happened: the delay of a tile is as long as its failures call for, and the part
of it that is not left has passed since the last of them. That the delay doubles no further than the
longest one rests on a recursive function (`Doublings`) and its monotony.

**`Desktop_proofs`**, window (any profiles, files, places, zooms and points, and any order of slots):
`WindowKeepsUp`, that after every slot the window agrees with the run, the source and the request.
`WindowAgrees` leaves out most of the window, and what a slot shows next comes from there. `WindowInv`
says that an open window is `Good`: every field has its shape, the run, its actions, the recording and
the light agree (`Runs`, `Recorded`, `Lit`), the dashboard and the steering box agree with the source
(`Steers`), the map with the vessel and with the last break of the trail (`Sails`), the route and the
name with the profile applied (`Presented`), and the run with the request; and that the files hold
profiles. There is one lemma for each function the slots are made of (`StopRunFacts`,
`RefreshViewFacts`, `PresentProfileFacts`, ...), saying which fields it keeps and what it makes right; a
slot composes them as the code does (`SetProfileKeeps`, `OverrideKeeps`, ...). It assumes
`WindowAssumption`: the default profile can be applied, each profile has the fields of one, places and
points of the widget are pairs of whole numbers, and so is the zoom kept in the settings.

**`Desktop_proofs`**, map (any size of the widget from a pixel up, any tile size, any range of zooms and
number of parent levels): `TilesAreCovered`, that the tile of the centre is drawn and that an ancestor of
it stands in for it. It needs from the window that the centre stays on the world (`OnWorld`) and the
zoom in its range, whatever is dragged, zoomed, followed or picked; that is `Located`, a part of the
shape of a map in `WindowInv`, and it holds before the window is opened and after it is closed. The rest
is arithmetic: `TilesAt` is a recursive function, so that what is shown of it (it doubles, it divides the
world) comes from the least zoom where it would fail; a quotient is the one number whose multiple fits
(`DivUnique`); and the parent of a tile is the tile of the same place one zoom up (`ParentTile`), the last
row at the southern edge included, because halving the last row gives the last row (`TileFacts`).

**`Profile_proofs`** (any directories, revisions, hand edits and bounds on them): `LoadsWhatWasSaved`,
that an untouched file loads again as the profile that was saved in it, and that whatever files went
through the profile a program holds can be run. It is not inductive: what is loaded is held, changed
and saved again, and a profile that only satisfies `Fit` need not come back from its document.
`FilesInv` says that the profile held is `Sound` (it has the fields of a profile, numbers the program can
hold, no problem `validate` would report, and settings, custom sentences and engines in the form they are
read in), that a file is a document, hand-edited or not, and that an untouched one is what the saved
profile is written as. The argument, from the fields up: what is written for a key is what is read for it
(`TopRead`, `OutputRead`, then `RoundTrip`); a path moved to another directory keeps its place
(`MovedFacts`, `RelocatedFacts`); what is written for a sound profile is accepted (`WrittenValid`); what is
read from any document that is accepted is sound (`LoadedSound`). `FilesAssumption` says what it rests
on: an `int` holds the longest period, the seed and the MMSI their defaults; upper-casing twice is
upper-casing once; the dialogs make profiles a program can hold (their boxes have the ranges of
`validate`) and change the mode with the path that belongs to it; an editor writes numbers where it
writes numbers. It contains `ProfileAssumption`: the ranges are ranges, upper-casing makes texts of
texts, and the mark of an absent value is no number.

**`Profile_proofs`**, command line (any options, registry settings, files and outcomes of opening an
output): `RunsAreAsAsked`, that what is built and run is the profile of the options typed, with exactly
its enabled outputs, and that the exit status tells how the program ended. The invariant is `CliInv`:
the profile is that of the command line once it is read, the channels are those of its outputs once they
are set up, and the status is settled by the way a run ended. `RunsWhatWasAsked` states what the user
sees in terms of single options (a rate given is the rate run, an option absent leaves the setting of the
registry); the profile is made by a chain of functions, each of which overrides what its options name. So there
is one lemma per function that says which fields it changes and which it leaves (`OutputOverrides`,
`SentenceOverrides`, `DestinationOverrides`, `SourceFacts`, joined in `OverriddenFacts`), and `AskedFacts`
reads the property off them. `ChannelFacts` and `ChannelCount` say that every enabled output has its
channel and no other has one. `CliAssumption` says what it rests on: the settings in the registry have
the fields of a profile and boolean flags; a document named by an option has boolean flags where a
profile has them; options that may be repeated are lists; CLI11 refuses a track together with a replay.

Only model-checked:

- liveness (`FiniteRunEnds`, `Reconnects`, `EveryTileAnswered`, `BackInBand`), beyond the prover;
- `LoopAgrees`, over a recursive operator, which the prover does not take;
- `HearsWhatIsSent`, `ClockFollows`, `ReplaysAtTheToldPace`: a receiver and a log reader are folds over
  lines, and what a fold computes for every list of lines is an induction over data;
- `AcceptsWhatWasAsked`: it relates what every box was last asked for to what the boxes show, through
  the rounding and clamping of each box and the filter of each output. Its output part is about edits
  that leave an output's encoding alone, as the run's do: a filter typed for sentences is kept in
  capitals once another row is selected, and a later change of encoding does not bring the small
  letters back.

## 5. Not modelled

- The text of sentences, messages, profiles and logs: decimals, checksums, characters, JSON. What is
  in a field, and which fields there are, is modelled; how it is printed is not.
- Track files (GPX and KML): XML without steps; the points they yield are the inputs of `TrackSource`.
- Floating point: geodesy on a sphere, the draw of the drift, the wind triangle beyond a quarter turn,
  six-bit rounding of coordinates.
- Counters for display (lines and bytes sent, sentences emitted) and the ViewSync packet counter, and
  in the runner the output filters and TAG blocks.
- Socket options, interface lookup, serial port settings, name resolution; a UDP, serial, file or
  console output is a kind of link only.
- Loss inside the operating system: a write to a connected socket is taken to be sent.
- The widgets that show what they are given: console, output lights, dials, readouts, theme, icons,
  the engine, fix and satellite boxes, the painting of the map, fractional zoom and gestures, docks and
  window geometry.

## 6. Plan

Built: the schedule, the replay, the runner and its outputs, the tile cache, the sources, the
codecs, logs, profiles and the three programs around them. Left, in the order of worth:

1. Proofs: the outputs a settings dialog stores (`AcceptsWhatWasAsked`); the step of a
   receiver's clock (`ClockFollows`).
2. The runner over `TrackSource` and `DeltaSource` in place of a source with a length.
3. Output filters and TAG blocks in the runner, with their counters.
4. The wind triangle and great circles against reference definitions on a finer circle.
