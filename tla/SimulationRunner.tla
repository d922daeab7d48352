-------------------------- MODULE SimulationRunner --------------------------
(***************************************************************************)
(* The run of a profile (SimulationRunner): the timer that hands wall-     *)
(* clock time to the simulation, the outputs it opens, writes and closes,  *)
(* the recording, and what its signals tell the window and the console.    *)
(*                                                                         *)
(* Everything happens on one thread: an action is one call of a public     *)
(* operation or one event of the event loop, with every handler it runs.   *)
(* Wall-clock time has a resolution of 1/Sub millisecond.  A sentence is   *)
(* one line of the recording; a step of the simulation emits some number   *)
(* of them, at most MaxBatch.                                              *)
(***************************************************************************)
EXTENDS NextDue, TransportLink

CONSTANTS
    Channels,     \* the outputs that profiles describe
    Kind,         \* [Channels -> Kinds]
    Carries,      \* [Channels -> {"sentences", "state"}], by encoding
    Period,       \* [Channels -> Nat \ {0}], of the state messages
    Profiles,     \* the profiles that may be applied
    NoProfile,    \* no profile has been applied yet
    Paths,        \* files a recording may be written to
    NoPath,       \* the empty path: not recording
    Positions,    \* positions an operator may seek to
    TickMs,       \* Profile::tick_ms
    MaxStep,      \* kMaxStep
    Sub,          \* wall-clock units in a millisecond
    MaxBatch,     \* bound: sentences emitted by one step
    MaxLines,     \* bound: sentences emitted during one recording
    LastRequest,  \* bound: no request after this simulated time
    MaxElapsed    \* bound: no step beyond this simulated time

NoRecorder == [path |-> NoPath, state |-> "Closed", append |-> FALSE]
None == -1

Profile == [mode : {"delta", "track", "replay"}, loop : BOOLEAN,
            duration : Nat, outputs : SUBSET Channels]

ASSUME ProfilesAssumption ==
    /\ Profiles \subseteq Profile
    /\ NoProfile \notin Profiles
    /\ NoPath \notin Paths

ASSUME ChannelsAssumption ==
    /\ Kind \in [Channels -> Kinds]
    /\ Carries \in [Channels -> {"sentences", "state"}]
    /\ Period \in [Channels -> Nat \ {0}]

ASSUME NumbersAssumption ==
    /\ Positions \subseteq Nat
    /\ {TickMs, MaxStep, Sub} \subseteq Nat \ {0}
    /\ {MaxBatch, MaxLines, LastRequest, MaxElapsed} \subseteq Nat

VARIABLES
    profile,    \* profile_, with simulation_: NoProfile while it is null
    sim,        \* the Simulation: [elapsed, position, finished] of its source
    outputs,    \* outputs_: [state, next_due] by channel
    recorder,   \* recorder_, the LogTransport: [path, state, append]
    files,      \* the sentences in each file of Paths
    running,    \* tick_timer_.isActive()
    paused,     \* paused_
    lag,        \* wall_clock_ - wall_consumed_, in units, up to MaxLag
    seen,       \* what the signals told the observers: [running, paused, path]
    hist        \* history, for the properties: see Noted

run == <<running, paused, lag>>
vars == <<profile, sim, outputs, recorder, files, run, seen, hist>>

(* A lag of MaxLag or more means a step longer than MaxStep.               *)
MaxLag == (MaxStep + 1) * Sub

Smaller(a, b) == IF a < b THEN a ELSE b

-----------------------------------------------------------------------------
(* History.  behind: the wall-clock time the run was going since the wall  *)
(* clock was last restarted or clamped, less the simulated time since.     *)
(* heard and gap: the sentences emitted since the recording was chosen,    *)
(* and whether a start failed to open its file since.  owed: the channels  *)
(* that had no message since the last seek or start.  last and before: the *)
(* times of the last two messages of a channel since then.  event and      *)
(* told: the kind of the last action, and the channels it sent a state     *)
(* message to.                                                             *)
Noted(h, event) == [h EXCEPT !.event = event, !.told = {}]

(* Every state message is due again and the wall clock restarts.           *)
Announced(h) ==
    [h EXCEPT !.behind = 0, !.owed = Channels,
              !.last = [c \in Channels |-> None],
              !.before = [c \in Channels |-> None]]

(* A step that ends at `now', emits n sentences and messages to `told'.    *)
StepNoted(h, event, n, told, now) ==
    [h EXCEPT !.event = event, !.told = told, !.heard = @ + n,
              !.owed = @ \ told,
              !.before = [c \in Channels |-> IF c \in told THEN h.last[c] ELSE @[c]],
              !.last = [c \in Channels |-> IF c \in told THEN now ELSE @[c]]]

-----------------------------------------------------------------------------
(* Handlers, as operators from the values of the state they change.        *)

(* Mutant of OutputsClosed: a client that is still connecting is left.     *)
OutputsClosed_OpenOnly(outs) ==
    [c \in DOMAIN outs |-> IF outs[c].state = "Open"
                           THEN [outs[c] EXCEPT !.state = "Closed"] ELSE outs[c]]

(* Transport::close on every channel.                                      *)
OutputsClosed(outs) == [c \in DOMAIN outs |-> [outs[c] EXCEPT !.state = "Closed"]]

(* start(): state messages are due at once, what is not open is opened.    *)
OutputsOpened(outs, now) ==
    LET Outcomes(c) == IF outs[c].state = "Open" THEN {"Open"}
                       ELSE OpenOutcomes(Kind[c])
        ways == {f \in [DOMAIN outs -> States] :
                    \A c \in DOMAIN outs : f[c] \in Outcomes(c)}
    IN  {[c \in DOMAIN outs |-> [state |-> f[c], next_due |-> now]] : f \in ways}

RecorderClosed(rec) == [rec EXCEPT !.state = "Closed"]

(* Mutant of RecorderOpened: a restart truncates the file again.           *)
RecorderOpened_Truncates(rec) ==
    IF rec = NoRecorder \/ rec.state = "Open" THEN {rec}
    ELSE {[rec EXCEPT !.state = "Failed"], [rec EXCEPT !.state = "Open"]}

(* LogTransport::open: once it has succeeded, later opens append.          *)
RecorderOpened(rec) ==
    IF rec = NoRecorder \/ rec.state = "Open" THEN {rec}
    ELSE {[rec EXCEPT !.state = "Failed"],
          [rec EXCEPT !.state = "Open", !.append = TRUE]}

(* The files after the recorder `old' became `new' by opening.             *)
OnDisk(contents, old, new) ==
    IF new.state = "Open" /\ ~old.append
    THEN [contents EXCEPT ![new.path] = 0] ELSE contents

(* emit_sentences: an open recording gets every sentence.                  *)
Recorded(contents, rec, n) ==
    IF rec.state = "Open" THEN [contents EXCEPT ![rec.path] = @ + n] ELSE contents

(* emit_state_messages: the channels that get a message at `now'.          *)
DueChannels(outs, now) ==
    {c \in DOMAIN outs : /\ Carries[c] = "state"
                         /\ outs[c].state = "Open"
                         /\ now >= outs[c].next_due}
MessagesSent(outs, now) ==
    [c \in DOMAIN outs |->
        IF c \in DueChannels(outs, now)
        THEN [outs[c] EXCEPT !.next_due = NextDueAfter(@, now, Period[c])]
        ELSE outs[c]]

(* Mutant of StopSeen: stopping a paused run does not report the pause.    *)
StopSeen_PauseForgotten(s, was_running, was_paused) ==
    [s EXCEPT !.running = @ /\ ~was_running]

(* The signals of stop() and pause().                                      *)
StopSeen(s, was_running, was_paused) ==
    [s EXCEPT !.running = @ /\ ~was_running, !.paused = @ /\ ~was_paused]
PauseSeen(s, was_paused) == [s EXCEPT !.paused = @ \/ ~was_paused]

-----------------------------------------------------------------------------
(* The simulation, as far as the runner depends on it.                     *)
Finite == profile.mode # "delta"
Stops == Finite /\ ~profile.loop

(* Mutant of Advance: the end has to be passed, and never is.              *)
Advance_PastTheEnd(s, dt) ==
    LET p == IF Stops THEN Smaller(s.position + dt, profile.duration) ELSE 0
    IN  [elapsed |-> s.elapsed + dt, position |-> p,
         finished |-> Stops /\ p > profile.duration]

(* Simulation::step: the position of a loop wraps, the rest stops.         *)
Advance(s, dt) ==
    LET reached == s.position + dt
    IN  [elapsed |-> s.elapsed + dt,
         position |-> IF ~Finite THEN 0
                      ELSE IF Stops THEN Smaller(reached, profile.duration)
                      ELSE IF profile.duration = 0 THEN 0
                      ELSE reached % profile.duration,
         finished |-> Stops /\ (s.finished \/ reached >= profile.duration)]

(* The numbers of sentences a step may emit.                               *)
Batch == 0 .. Smaller(MaxBatch, MaxLines - hist.heard)

(* Simulation::step_once: what it may lead to, with what it emits.  A      *)
(* replay plays its next entry, a loop its first one after its last, and   *)
(* one that stops plays nothing more at its end.                           *)
StepOnce(s) ==
    LET moved == [elapsed : {s.elapsed}, position : 0 .. profile.duration,
                  finished : BOOLEAN]
        played == {t \in moved :
                     /\ t.position >= s.position \/ profile.loop
                     /\ t.finished => Stops /\ t.position = profile.duration}
    IN  IF profile.mode # "replay" THEN {<<Advance(s, TickMs), n>> : n \in Batch}
        ELSE IF s.finished THEN {<<s, 0>>}
        ELSE {<<t, 1>> : t \in played}

(* Simulation::seek: the source clamps the position.                       *)
SeekTo(s, to) ==
    LET p == IF Finite THEN Smaller(to, profile.duration) ELSE 0
    IN  [s EXCEPT !.position = p, !.finished = Stops /\ p = profile.duration]

-----------------------------------------------------------------------------
Init ==
    /\ profile = NoProfile
    /\ sim = [elapsed |-> 0, position |-> 0, finished |-> FALSE]
    /\ outputs = [c \in {} |-> 0]
    /\ recorder = NoRecorder
    /\ files = [p \in Paths |-> 0]
    /\ running = FALSE /\ paused = FALSE
    /\ lag = 0
    /\ seen = [running |-> FALSE, paused |-> FALSE, path |-> NoPath]
    /\ hist = [behind |-> 0, heard |-> 0, gap |-> FALSE, owed |-> Channels,
               last |-> [c \in Channels |-> None],
               before |-> [c \in Channels |-> None],
               event |-> "other", told |-> {}]

(* What every call of a public operation needs and records.                *)
Request == sim.elapsed <= LastRequest

(* stop(): safe in any state.                                              *)
Stopped ==
    /\ running' = FALSE /\ paused' = FALSE
    /\ recorder' = RecorderClosed(recorder)
    /\ seen' = StopSeen(seen, running, paused)

Stop ==
    /\ Request
    /\ Stopped
    /\ outputs' = OutputsClosed(outputs)
    /\ hist' = Noted(hist, "request")
    /\ UNCHANGED <<profile, sim, files, lag>>

(* apply_profile: stops the run; a file that cannot be loaded then keeps   *)
(* the previous simulation and outputs.                                    *)
ApplyProfile(p) ==
    /\ Request
    /\ Stopped
    /\ profile' = p
    /\ sim' = [elapsed |-> 0, position |-> 0, finished |-> FALSE]
    /\ outputs' = [c \in p.outputs |-> [state |-> "Closed", next_due |-> 0]]
    /\ hist' = Noted(hist, "request")
    /\ UNCHANGED <<files, lag>>

RejectProfile(p) == p.mode # "delta" /\ Stop

Start ==
    /\ Request
    /\ profile # NoProfile /\ ~running
    /\ outputs' \in OutputsOpened(outputs, sim.elapsed)
    /\ recorder' \in RecorderOpened(recorder)
    /\ files' = OnDisk(files, recorder, recorder')
    /\ running' = TRUE /\ paused' = FALSE
    /\ lag' = 0
    /\ seen' = [seen EXCEPT !.running = TRUE]
    /\ hist' = [Announced(Noted(hist, "request")) EXCEPT
                  !.gap = @ \/ recorder'.state = "Failed"]
    /\ UNCHANGED <<profile, sim>>

Pause ==
    /\ Request
    /\ running /\ ~paused
    /\ paused' = TRUE
    /\ seen' = PauseSeen(seen, paused)
    /\ hist' = Noted(hist, "request")
    /\ UNCHANGED <<profile, sim, outputs, recorder, files, running, lag>>

(* Mutant of Resume: the wall clock is not restarted.                      *)
Resume_CatchesUp ==
    /\ Request
    /\ running /\ paused
    /\ paused' = FALSE
    /\ seen' = [seen EXCEPT !.paused = FALSE]
    /\ hist' = [Noted(hist, "request") EXCEPT !.behind = 0]
    /\ UNCHANGED <<profile, sim, outputs, recorder, files, running, lag>>

Resume ==
    /\ Request
    /\ running /\ paused
    /\ paused' = FALSE
    /\ lag' = 0
    /\ seen' = [seen EXCEPT !.paused = FALSE]
    /\ hist' = [Noted(hist, "request") EXCEPT !.behind = 0]
    /\ UNCHANGED <<profile, sim, outputs, recorder, files, running>>

(* emit_sentences, emit_state_messages and finish_if_done after a step     *)
(* that took the simulation to s, with the run going and `hold' paused;    *)
(* outs, rec, contents, told_of and h are the values when it began.        *)
EmitAndFinish(s, n, hold, outs, rec, contents, told_of, h, event) ==
    /\ s.elapsed <= MaxElapsed
    /\ sim' = s
    /\ files' = Recorded(contents, rec, n)
    /\ hist' = StepNoted(h, event, IF rec = NoRecorder THEN 0 ELSE n,
                         DueChannels(outs, s.elapsed), s.elapsed)
    /\ running' = ~s.finished
    /\ paused' = (hold /\ ~s.finished)
    /\ LET sent == MessagesSent(outs, s.elapsed)
       IN  outputs' = IF s.finished THEN OutputsClosed(sent) ELSE sent
    /\ recorder' = IF s.finished THEN RecorderClosed(rec) ELSE rec
    /\ seen' = IF s.finished THEN StopSeen(told_of, TRUE, hold) ELSE told_of

(* step(): starts the run when it is not going, and leaves it paused.      *)
Step ==
    /\ Request
    /\ profile # NoProfile
    /\ \E after \in StepOnce(sim),
          outs \in IF running THEN {outputs} ELSE OutputsOpened(outputs, sim.elapsed),
          rec \in IF running THEN {recorder} ELSE RecorderOpened(recorder) :
          /\ after[2] <= MaxLines - hist.heard
          /\ EmitAndFinish(after[1], after[2], TRUE, outs, rec,
                IF running THEN files ELSE OnDisk(files, recorder, rec),
                PauseSeen([seen EXCEPT !.running = TRUE], running /\ paused),
                IF running THEN hist
                ELSE [Announced(hist) EXCEPT !.gap = @ \/ rec.state = "Failed"],
                "step")
    /\ lag' = IF running THEN lag ELSE 0
    /\ UNCHANGED profile

(* Mutant of Seek: the state messages keep their schedule.                 *)
Seek_KeepsSchedule(to) ==
    /\ Request
    /\ profile # NoProfile
    /\ sim' = SeekTo(sim, to)
    /\ lag' = 0
    /\ hist' = Announced(Noted(hist, "request"))
    /\ UNCHANGED <<profile, outputs, recorder, files, running, paused, seen>>

(* seek(): works in any state; nothing is sent by the seek itself.         *)
Seek(to) ==
    /\ Request
    /\ profile # NoProfile
    /\ sim' = SeekTo(sim, to)
    /\ outputs' = [c \in DOMAIN outputs |->
                     [outputs[c] EXCEPT !.next_due = sim.elapsed]]
    /\ lag' = 0
    /\ hist' = Announced(Noted(hist, "request"))
    /\ UNCHANGED <<profile, recorder, files, running, paused, seen>>

(* set_recording: while running the file opens at once, and the previous   *)
(* recording goes on when it cannot be opened.                             *)
SetRecording(path) ==
    /\ Request
    /\ LET new == [path |-> path, state |-> IF running THEN "Open" ELSE "Closed",
                   append |-> running]
       IN  /\ recorder' = new
           /\ files' = IF running THEN [files EXCEPT ![path] = 0] ELSE files
    /\ seen' = [seen EXCEPT !.path = path]
    /\ hist' = [Noted(hist, "request") EXCEPT !.heard = 0, !.gap = FALSE]
    /\ UNCHANGED <<profile, sim, outputs, run>>

RejectRecording ==
    /\ Request
    /\ running
    /\ hist' = Noted(hist, "request")
    /\ UNCHANGED <<profile, sim, outputs, recorder, files, run, seen>>

ClearRecording ==
    /\ Request
    /\ recorder' = NoRecorder
    /\ seen' = [seen EXCEPT !.path = NoPath]
    /\ hist' = [Noted(hist, "request") EXCEPT !.heard = 0, !.gap = FALSE]
    /\ UNCHANGED <<profile, sim, outputs, files, run>>

(* tick(): whole milliseconds since the last tick; what exceeds MaxStep is *)
(* dropped, the fraction is carried to the next tick.                      *)
TickStep == Smaller(lag \div Sub, MaxStep)

Tick ==
    /\ running /\ ~paused
    /\ lag >= Sub
    /\ \E n \in Batch :
          EmitAndFinish(Advance(sim, TickStep), n, FALSE, outputs, recorder, files, seen,
             [hist EXCEPT !.behind = IF @ >= MaxLag THEN 0
                                     ELSE @ - Sub * (sim'.elapsed - sim.elapsed)],
             "tick")
    /\ lag' = IF lag \div Sub > MaxStep THEN 0 ELSE lag - TickStep * Sub
    /\ UNCHANGED profile

(* An event of the socket or device of an output.                          *)
TransportEvent(c) ==
    /\ \E state \in EventOutcomes(Kind[c], outputs[c].state) :
          outputs' = [outputs EXCEPT ![c].state = state]
    /\ hist' = Noted(hist, "other")
    /\ UNCHANGED <<profile, sim, recorder, files, run, seen>>

(* The wall clock moves on, also while the run is paused or stopped.       *)
PassTime ==
    /\ lag' = Smaller(lag + 1, MaxLag)
    /\ hist' = IF running /\ ~paused
               THEN [Noted(hist, "other") EXCEPT !.behind = Smaller(@ + 1, MaxLag)]
               ELSE Noted(hist, "other")
    /\ UNCHANGED <<profile, sim, outputs, recorder, files, running, paused, seen>>

Next ==
    \/ \E p \in Profiles : ApplyProfile(p) \/ RejectProfile(p)
    \/ Start \/ Pause \/ Resume \/ Stop \/ Step
    \/ \E to \in Positions : Seek(to)
    \/ \E path \in Paths : SetRecording(path)
    \/ RejectRecording \/ ClearRecording
    \/ Tick
    \/ \E c \in DOMAIN outputs : TransportEvent(c)
    \/ PassTime

Spec == Init /\ [][Next]_vars

(* The timer fires while it is active and the event loop gets to it; the   *)
(* wall clock never stands still.  Nothing is assumed of the operator.     *)
Fairness == WF_vars(Tick) /\ WF_vars(PassTime)
FairSpec == Spec /\ Fairness

(* A stopped runner holds nothing open: whatever sequence of steps, seeks, *)
(* recordings, profile changes and socket events came before, every        *)
(* transport and the recording are closed, and nothing is left paused.     *)
QuietWhenStopped ==
    ~running =>
        /\ ~paused
        /\ recorder.state = "Closed"
        /\ \A c \in DOMAIN outputs : outputs[c].state = "Closed"

(* The simulated clock keeps pace with the real one: a tick leaves it less *)
(* than a millisecond behind the time the run was going, and never ahead   *)
(* of it, except that a tick that is more than MaxStep late moves it by    *)
(* MaxStep.  Time spent paused or stopped is never caught up.              *)
KeepsPace ==
    [][hist'.event = "tick" =>
         IF hist.behind < MaxLag
         THEN hist'.behind \in 0 .. Sub - 1
         ELSE sim'.elapsed = sim.elapsed + MaxStep]_vars

(* The recording holds every sentence emitted since it was chosen, once,   *)
(* across pauses, stops, restarts, seeks, single steps, profile changes    *)
(* and attempts to record elsewhere that fail, unless a start could not    *)
(* open its file.                                                          *)
RecordingComplete ==
    recorder # NoRecorder /\ ~hist.gap =>
        IF recorder.append THEN files[recorder.path] = hist.heard
        ELSE hist.heard = 0 /\ recorder.state # "Open"

(* State messages are neither owed nor bunched: after a start or a seek    *)
(* the next step sends one to every state channel that is open, whatever   *)
(* its period; and three messages of a channel in a row span more than a   *)
(* period, however late the ticks and however long the channel was away.   *)
MessagesOnTime ==
    [][running =>
         /\ hist'.event \in {"tick", "step"} =>
              \A c \in DOMAIN outputs \cap hist.owed :
                Carries[c] = "state" /\ outputs[c].state = "Open" => c \in hist'.told
         /\ \A c \in hist'.told :
              hist.before[c] # None => sim'.elapsed > hist.before[c] + Period[c]]_vars

(* The signals keep the window right: what they last said of running,      *)
(* paused and the recording is what the runner's accessors return.         *)
ObserversAgree ==
    seen = [running |-> running, paused |-> paused, path |-> recorder.path]

(* A run over a finite source ends: left alone, a run that is going and    *)
(* not paused plays a track or a log that does not loop to its end, and    *)
(* stops there.                                                            *)
FiniteRunEnds ==
    (running /\ ~paused /\ Stops)
        ~> (~running \/ hist.event \in {"request", "step"})

(* docs/explanation/simulation-model.md:154-155: "The runner hands the     *)
(* simulation the wall-clock time since the previous tick in whole         *)
(* milliseconds [...], so the simulated clock keeps pace with the real     *)
(* one."  Here for a tick that is on time, one tick interval after the     *)
(* last, on a host that is not behind at all.                              *)
OnTimeTickKeepsPace ==
    [][hist'.event = "tick" /\ lag = TickMs * Sub =>
         sim'.elapsed = sim.elapsed + TickMs]_vars
=============================================================================
