---------------------------- MODULE ReplaySource ----------------------------
(***************************************************************************)
(* The replay of a recorded log (ReplaySource), driven the way a           *)
(* Simulation drives it: step and step_once advance it and take the        *)
(* sentences it queued, seek and reset move it.                            *)
(*                                                                         *)
(* A log is a sequence of entries, each with its offset from the first one *)
(* and the fields of the vessel state its sentence sets; parse_log builds  *)
(* offsets that never decrease.  The decoded state records, for each       *)
(* field, the index of the entry that set it last, 0 for the seed.         *)
(***************************************************************************)
EXTENDS Integers, Sequences

CONSTANTS
    Fields,       \* the fields of the vessel state
    Logs,         \* the logs that may be loaded
    Steps,        \* lengths of a simulation step, in milliseconds
    Positions,    \* positions an operator may seek to, also out of range
    MaxAdvance    \* bound on the time played between two placements

LogEntry == [offset : Nat, sets : SUBSET Fields]

ASSUME LogsAssumption ==
    \A log \in Logs :
        /\ log \in Seq(LogEntry)
        /\ \A i, j \in DOMAIN log : i <= j => log[i].offset <= log[j].offset

ASSUME InputAssumption ==
    /\ Steps \subseteq Nat \ {0}
    /\ Positions \subseteq Int
    /\ MaxAdvance \in Nat

VARIABLES
    log,        \* config_.log.entries
    end,        \* config_.end
    clock,      \* clock_
    cursor,     \* cursor_, the number of entries of the pass already played
    state,      \* state_
    finished,   \* finished_
    out,        \* the sentences the last call handed over, as entry indices
    since       \* history: the placement and what was played after it

replayConfig == <<log, end>>
source == <<clock, cursor, state, finished>>
vars == <<log, end, clock, cursor, state, finished, out, since>>

Size == Len(log)
Duration == IF Size = 0 THEN 0 ELSE log[Size].offset
SeedState == [f \in Fields |-> 0]

(* position(): the clock, never beyond the end of the log.                 *)
Position == IF clock < Duration THEN clock ELSE Duration

(* Where the loop `while entries[cursor].offset <= clock' stops.           *)
PlayedTo(from, now) ==
    CHOOSE k \in from .. Size :
        /\ \A i \in from + 1 .. k : log[i].offset <= now
        /\ k < Size => log[k + 1].offset > now

(* The state after decoding the entries first..last, in order, into s.     *)
Decode(s, first, last) ==
    [f \in Fields |->
        LET setters == {i \in first .. last : f \in log[i].sets}
        IN  IF setters = {} THEN s[f]
            ELSE CHOOSE i \in setters : \A j \in setters : j <= i]

(* Mutant of Run: the entry at the cursor is sent again.                   *)
Run_FromCursor(first, last) == [i \in 1 .. last - first + 2 |-> first + i - 2]

Run(first, last) == [i \in 1 .. last - first + 1 |-> first + i - 1]

(* Mutant of Passes: a step never sends more than one whole pass.          *)
Passes_AtMostOne(n) == [i \in 1 .. (IF n > 0 THEN Size ELSE 0) |-> i]

(* The whole log, n times over.                                            *)
Passes(n) == [i \in 1 .. n * Size |-> ((i - 1) % Size) + 1]

(* History: the clock and cursor after the last reset, seek or single      *)
(* step, and the time and the sentences played since.                      *)
Placed(c, k) == [clock |-> c, cursor |-> k, time |-> 0, sent |-> 0]
Played(dt, sentences) ==
    [clock |-> since.clock, cursor |-> since.cursor,
     time |-> since.time + dt, sent |-> since.sent + Len(sentences)]

Init ==
    /\ log \in Logs
    /\ end \in {"Stop", "Loop"}
    /\ clock = 0
    /\ cursor = 0
    /\ state = SeedState
    /\ finished = (Size = 0)
    /\ out = <<>>
    /\ since = Placed(0, 0)

-----------------------------------------------------------------------------
(* advance(dt), followed by take_sentences.  The loop over passes is given *)
(* by where it ends: every pass takes one duration off the clock.          *)
Ignored == finished \/ Size = 0
Now(dt) == clock + dt
Reached(dt) == PlayedTo(cursor, Now(dt))

PlayOn(dt) ==
    /\ ~ Ignored /\ Reached(dt) < Size
    /\ clock' = Now(dt)
    /\ cursor' = Reached(dt)
    /\ state' = Decode(state, cursor + 1, Reached(dt))
    /\ out' = Run(cursor + 1, Reached(dt))
    /\ UNCHANGED finished

(* Mutant of WrapAround: the time that ran past the end is dropped.        *)
WrapAround_DropsSurplus(dt) ==
    LET k == PlayedTo(0, 0)
    IN  /\ ~ Ignored /\ Reached(dt) = Size
        /\ end = "Loop" /\ Duration > 0
        /\ clock' = 0
        /\ cursor' = k
        /\ state' = Decode(SeedState, 1, k)
        /\ out' = Run(cursor + 1, Size) \o Run(1, k)
        /\ UNCHANGED finished

WrapAround(dt) ==
    LET rest == Now(dt) % Duration
        k == PlayedTo(0, rest)
    IN  /\ ~ Ignored /\ Reached(dt) = Size
        /\ end = "Loop" /\ Duration > 0
        /\ clock' = rest
        /\ cursor' = k
        /\ state' = Decode(SeedState, 1, k)
        /\ out' = Run(cursor + 1, Size) \o Passes(Now(dt) \div Duration - 1)
                    \o Run(1, k)
        /\ UNCHANGED finished

(* A log without duration would spin for ever: one pass a tick.            *)
StartOver(dt) ==
    /\ ~ Ignored /\ Reached(dt) = Size
    /\ end = "Loop" /\ Duration = 0
    /\ clock' = 0
    /\ cursor' = 0
    /\ state' = SeedState
    /\ out' = Run(cursor + 1, Size)
    /\ UNCHANGED finished

RunOut(dt) ==
    /\ ~ Ignored /\ Reached(dt) = Size
    /\ end = "Stop"
    /\ clock' = Duration
    /\ cursor' = Size
    /\ state' = Decode(state, cursor + 1, Size)
    /\ out' = Run(cursor + 1, Size)
    /\ finished' = TRUE

Stay ==
    /\ Ignored
    /\ out' = <<>>
    /\ UNCHANGED source

Advance(dt) ==
    \/ PlayOn(dt) \/ WrapAround(dt) \/ StartOver(dt) \/ RunOut(dt) \/ Stay

(* Simulation::step.                                                       *)
Step(dt) ==
    /\ since.time + dt <= MaxAdvance
    /\ Advance(dt)
    /\ since' = IF Ignored THEN since ELSE Played(dt, out')
    /\ UNCHANGED replayConfig

-----------------------------------------------------------------------------
(* Mutant of PlayNext: the clock stays where it is.                        *)
PlayNext_ClockKept(first, s) ==
    /\ clock' = clock
    /\ cursor' = first
    /\ state' = Decode(s, first, first)
    /\ finished' = (first = Size /\ end = "Stop")
    /\ out' = <<first>>
    /\ since' = Placed(clock', cursor')

(* Simulation::step_once: exactly the next entry, and the clock to it.     *)
PlayNext(first, s) ==
    /\ clock' = log[first].offset
    /\ cursor' = first
    /\ state' = Decode(s, first, first)
    /\ finished' = (first = Size /\ end = "Stop")
    /\ out' = <<first>>
    /\ since' = Placed(clock', cursor')

StepOnce ==
    /\ \/ /\ Size = 0
          /\ out' = <<>>
          /\ UNCHANGED <<source, since>>
       \/ /\ Size > 0 /\ cursor < Size
          /\ PlayNext(cursor + 1, state)
       \/ /\ Size > 0 /\ cursor = Size /\ end = "Loop"
          /\ PlayNext(1, SeedState)
       \/ /\ Size > 0 /\ cursor = Size /\ end = "Stop"
          /\ finished' = TRUE
          /\ out' = <<>>
          /\ UNCHANGED <<clock, cursor, state, since>>
    /\ UNCHANGED replayConfig

(* Mutant of WithinLog: a position before the start is taken as it is.     *)
WithinLog_Above(p) == IF p > Duration THEN Duration ELSE p

WithinLog(p) == IF p < 0 THEN 0 ELSE IF p > Duration THEN Duration ELSE p

(* Mutants of Seek: the state is not rewound first, or finished is left.   *)
Seek_WithoutRewind(p) ==
    LET k == PlayedTo(0, WithinLog(p))
    IN  /\ clock' = WithinLog(p)
        /\ cursor' = k
        /\ state' = Decode(state, 1, k)
        /\ finished' = (Size = 0 \/ (k = Size /\ end = "Stop"))
        /\ out' = <<>>
        /\ since' = Placed(clock', cursor')
        /\ UNCHANGED replayConfig
Seek_FinishedKept(p) ==
    LET k == PlayedTo(0, WithinLog(p))
    IN  /\ clock' = WithinLog(p)
        /\ cursor' = k
        /\ state' = Decode(SeedState, 1, k)
        /\ out' = <<>>
        /\ since' = Placed(clock', cursor')
        /\ UNCHANGED <<log, end, finished>>

(* Simulation::seek: rebuild the state silently from the start.            *)
Seek(p) ==
    LET k == PlayedTo(0, WithinLog(p))
    IN  /\ clock' = WithinLog(p)
        /\ cursor' = k
        /\ state' = Decode(SeedState, 1, k)
        /\ finished' = (Size = 0 \/ (k = Size /\ end = "Stop"))
        /\ out' = <<>>
        /\ since' = Placed(clock', cursor')
        /\ UNCHANGED replayConfig

(* Simulation::reset.                                                      *)
Reset ==
    /\ clock' = 0
    /\ cursor' = 0
    /\ state' = SeedState
    /\ finished' = (Size = 0)
    /\ out' = <<>>
    /\ since' = Placed(0, 0)
    /\ UNCHANGED replayConfig

Next ==
    \/ \E dt \in Steps : Step(dt)
    \/ StepOnce
    \/ \E p \in Positions : Seek(p)
    \/ Reset

Spec == Init /\ [][Next]_vars

-----------------------------------------------------------------------------
TypeOK ==
    /\ log \in Logs
    /\ end \in {"Stop", "Loop"}
    /\ clock \in Nat
    /\ cursor \in 0 .. Size
    /\ state \in [Fields -> 0 .. Size]
    /\ finished \in BOOLEAN
    /\ out \in Seq(1 .. Size)
    /\ since \in [clock : Nat, cursor : 0 .. Size, time : Nat, sent : Nat]

(* The clock and the cursor agree: what was played is not in the future,   *)
(* and what was not played is not in the past, however advances, single    *)
(* steps and seeks are mixed.  Nothing is skipped and nothing sent early.  *)
NothingSkipped ==
    /\ clock <= Duration
    /\ \A i \in 1 .. cursor : log[i].offset <= clock
    /\ \A i \in cursor + 1 .. Size : clock <= log[i].offset

(* The state is the one decoded from the played entries of the pass on top *)
(* of the seed: moving there by seeking, stepping or playing, with or      *)
(* without passing the end, gives the same instruments.                    *)
StateIsDecoded == state = Decode(SeedState, 1, cursor)

(* finished() says exactly that nothing is left to play.                   *)
FinishedAtEnd ==
    finished <=> (Size = 0 \/ (end = "Stop" /\ cursor = Size))

(* Every sentence follows the one before it in the log, the first one      *)
(* after the last: none is lost, repeated or reordered by an advance or a  *)
(* step, whatever number of passes it spans.                               *)
Following(i) == (i % Size) + 1
PlaysInOrder ==
    [][out' # <<>> =>
          /\ out'[1] = Following(cursor)
          /\ \A i \in 1 .. Len(out') - 1 : out'[i + 1] = Following(out'[i])
          /\ cursor' \in {out'[Len(out')], 0}]_vars

(* A loop has no hiccup: since the last placement, the time played and the *)
(* sentences sent are the same whole number of passes, plus what the clock *)
(* and the cursor show.  A stopping replay plays its one pass.             *)
NoHiccup ==
    Duration > 0 =>
        IF end = "Loop"
        THEN \E laps \in 0 .. since.clock + since.time :
                /\ since.clock + since.time = laps * Duration + clock
                /\ since.cursor + since.sent = laps * Size + cursor
        ELSE /\ clock = IF since.clock + since.time < Duration
                        THEN since.clock + since.time ELSE Duration
             /\ since.cursor + since.sent = cursor

(* What docs/explanation/simulation-model.md says of a log whose entries   *)
(* all share one offset: it is sent once per tick when it loops.           *)
SentOncePerTick ==
    [][\A dt \in Steps :
          Step(dt) /\ Size > 0 /\ Duration = 0 /\ end = "Loop" =>
              Len(out') = Size]_vars
=============================================================================
