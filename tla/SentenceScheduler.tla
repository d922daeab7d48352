------------------------- MODULE SentenceScheduler -------------------------
(***************************************************************************)
(* The sentence schedule (SentenceScheduler) on the simulated clock of the *)
(* Simulation that owns it.  A behaviour is the sequence of calls a        *)
(* Simulation over a source without sentences of its own makes (step,      *)
(* seek, reset), interleaved with changes of the settings.                 *)
(*                                                                         *)
(* Encoding is abstracted: a sentence is its id.  Times are milliseconds.  *)
(***************************************************************************)
EXTENDS NextDue, Sequences

CONSTANTS
    Registry,        \* ids of the sentence registry
    Ids,             \* every id a sentence can have, custom ones included
    DefaultPeriod,   \* [Registry -> Nat \ {0}]
    DefaultEnabled,  \* [Registry -> BOOLEAN]
    Group,           \* [Registry -> Groups]
    Groups,          \* the functional groups of the registry
    Periods,         \* periods an operator may ask for; 0 stands for <= 0
    CustomLists,     \* lists of custom sentences an operator may enter
    AutoId,          \* AutoId[i] is "CUSTOM-i"
    NoId,            \* the empty id
    Steps,           \* lengths of a simulation step
    MaxElapsed       \* bound: no step beyond this simulated time

CustomDefaultPeriod == 1000

CustomSentence == [id : Ids \cup {NoId}, framed : BOOLEAN,
                   enabled : BOOLEAN, period : Periods]

ASSUME RegistryAssumption ==
    /\ Registry \subseteq Ids
    /\ NoId \notin Ids
    /\ DefaultPeriod \in [Registry -> Nat \ {0}]
    /\ DefaultEnabled \in [Registry -> BOOLEAN]
    /\ Group \in [Registry -> Groups]

ASSUME InputAssumption ==
    /\ Periods \subseteq Nat
    /\ Steps \subseteq Nat \ {0}
    /\ MaxElapsed \in Nat

ASSUME CustomListAssumption ==
    \A list \in CustomLists :
        /\ list \in Seq(CustomSentence)
        /\ \A i \in DOMAIN list : AutoId[i] \in Ids

None == -1

VARIABLES
    elapsed,   \* Simulation::elapsed_
    entries,   \* entries_: one schedule entry for every registry id
    custom,    \* custom_entries_, by position in the list as entered
    sent,      \* ids returned by the last step
    hist       \* history, by id: see HistoryType

vars == <<elapsed, entries, custom, sent, hist>>

Entry == [enabled : BOOLEAN, period : Nat \ {0}, next_due : Nat]
CustomEntry == [id : Ids, enabled : BOOLEAN, period : Nat \ {0}, next_due : Nat]

-----------------------------------------------------------------------------
(* History, recorded for the properties only.  For each id, since the last *)
(* reset of the schedule: the last two emission times, the least and the   *)
(* greatest period in force, the number of emissions, and whether the      *)
(* sentence has been enabled under one period with every step short enough *)
(* for the schedule to keep up.                                            *)
Time == Nat \cup {None}
HistoryType == [last : Time, before : Time,
                low : Nat \ {0}, high : Nat \ {0}, count : Nat,
                steady : BOOLEAN]

Fresh(period, steady) ==
    [last |-> None, before |-> None, low |-> period, high |-> period,
     count |-> 0, steady |-> steady]

Unscheduled == Fresh(1, TRUE)

Lower(a, b) == IF a < b THEN a ELSE b
Higher(a, b) == IF a > b THEN a ELSE b

(* The history of a sentence after a step that ends at `now'.              *)
Stepped(h, entry, dt, now) ==
    LET keeps == IF h.count = 0 THEN dt < entry.period ELSE dt <= entry.period
        s == h.steady /\ entry.enabled /\ keeps
    IN  IF IsDue(entry, now)
        THEN [last |-> now, before |-> h.last, low |-> h.low, high |-> h.high,
              count |-> h.count + 1, steady |-> s]
        ELSE [h EXCEPT !.steady = s]

(* The history of a sentence whose setting changes to `period'.            *)
Reconfigured(h, period) ==
    [last |-> h.last, before |-> h.before,
     low |-> Lower(h.low, period), high |-> Higher(h.high, period),
     count |-> h.count, steady |-> FALSE]

-----------------------------------------------------------------------------
CustomIdsOf(c) == {c[i].id : i \in DOMAIN c}
PositionOf(c, id) == CHOOSE i \in DOMAIN c : c[i].id = id

(* What the operator sees for an id: its schedule entry.                   *)
EntryOf(id) == IF id \in Registry THEN entries[id]
               ELSE custom[PositionOf(custom, id)]
Scheduled == Registry \cup CustomIdsOf(custom)

Init ==
    /\ elapsed = 0
    /\ entries = [id \in Registry |-> [enabled |-> DefaultEnabled[id],
                                       period |-> DefaultPeriod[id],
                                       next_due |-> 0]]
    /\ custom = [i \in {} |-> 0]
    /\ sent = {}
    /\ hist = [id \in Ids |->
                 IF id \in Registry THEN Fresh(DefaultPeriod[id], TRUE)
                 ELSE Unscheduled]

(* Simulation::step over the schedule: due(now) after the clock moved.     *)
Step(dt) ==
    LET now == elapsed + dt
        dueCustom == {i \in DOMAIN custom : IsDue(custom[i], now)}
    IN  /\ now <= MaxElapsed
        /\ elapsed' = now
        /\ entries' = [id \in Registry |-> Advanced(entries[id], now)]
        /\ custom' = [i \in DOMAIN custom |-> Advanced(custom[i], now)]
        /\ sent' = {id \in Registry : IsDue(entries[id], now)}
                     \cup {custom[i].id : i \in dueCustom}
        /\ hist' = [id \in Ids |->
                      IF id \in Scheduled
                      THEN Stepped(hist[id], EntryOf(id), dt, now)
                      ELSE hist[id]]

(* Mutant of Rescheduled: a reset leaves the schedule as it is.            *)
Rescheduled_Forgotten(entry) == entry

(* SentenceScheduler::reset: everything is due at the next call.           *)
Rescheduled(entry) == [entry EXCEPT !.next_due = 0]

ResetSchedule(steady) ==
    /\ entries' = [id \in Registry |-> Rescheduled(entries[id])]
    /\ custom' = [i \in DOMAIN custom |-> Rescheduled(custom[i])]
    /\ sent' = {}
    /\ hist' = [id \in Ids |->
                  IF id \in Scheduled
                  THEN Fresh(EntryOf(id).period, steady)
                  ELSE hist[id]]

(* Simulation::seek keeps the elapsed time; Simulation::reset does not.    *)
Seek == ResetSchedule(FALSE) /\ UNCHANGED elapsed
Reset == ResetSchedule(TRUE) /\ elapsed' = 0

(* Mutant of Configure: a period that is not positive is stored.           *)
Configure_AnyPeriod(id, enabled, period) ==
    /\ entries' = [entries EXCEPT ![id].enabled = enabled, ![id].period = period]
    /\ hist' = [hist EXCEPT ![id] = Reconfigured(@, period)]
    /\ sent' = {}
    /\ UNCHANGED <<elapsed, custom>>

(* configure: a period that is not positive means the registry default.    *)
Configure(id, enabled, period) ==
    LET p == IF period <= 0 THEN DefaultPeriod[id] ELSE period
    IN  /\ entries' = [entries EXCEPT ![id].enabled = enabled,
                                      ![id].period = p]
        /\ hist' = [hist EXCEPT ![id] = Reconfigured(@, p)]
        /\ sent' = {}
        /\ UNCHANGED <<elapsed, custom>>

SetEnabled(id, enabled) ==
    /\ entries' = [entries EXCEPT ![id].enabled = enabled]
    /\ hist' = [hist EXCEPT ![id].steady = FALSE]
    /\ sent' = {}
    /\ UNCHANGED <<elapsed, custom>>

SetGroupEnabled(group, enabled) ==
    LET members == {id \in Registry : Group[id] = group}
    IN  /\ entries' = [id \in Registry |->
                         IF id \in members
                         THEN [entries[id] EXCEPT !.enabled = enabled]
                         ELSE entries[id]]
        /\ hist' = [id \in Ids |-> IF id \in members
                                   THEN [hist[id] EXCEPT !.steady = FALSE]
                                   ELSE hist[id]]
        /\ sent' = {}
        /\ UNCHANGED <<elapsed, custom>>

(* set_period_for_all leaves the custom sentences alone.                   *)
SetPeriodForAll(period) ==
    /\ period > 0
    /\ entries' = [id \in Registry |-> [entries[id] EXCEPT !.period = period]]
    /\ hist' = [id \in Ids |-> IF id \in Registry
                               THEN Reconfigured(hist[id], period)
                               ELSE hist[id]]
    /\ sent' = {}
    /\ UNCHANGED <<elapsed, custom>>

-----------------------------------------------------------------------------
(* effective_custom_id: an empty id is filled in from the position.        *)
EffectiveCustomId(list, i) ==
    IF list[i].id = NoId THEN AutoId[i] ELSE list[i].id

(* Mutant of Accepted: ids are compared as entered, before they are filled *)
(* in from the position.                                                   *)
Accepted_AsEntered(list) ==
    {i \in DOMAIN list :
        /\ list[i].framed
        /\ list[i].id \notin Registry
        /\ \A j \in DOMAIN list : j < i => list[j].id # list[i].id}

(* The positions set_custom_sentences accepts: a body that frames, an id   *)
(* that is neither a registry id nor that of a sentence accepted before.   *)
Accepted(list) ==
    {i \in DOMAIN list :
        /\ list[i].framed
        /\ EffectiveCustomId(list, i) \notin Registry
        /\ \A j \in DOMAIN list :
              j < i /\ list[j].framed =>
                  EffectiveCustomId(list, j) # EffectiveCustomId(list, i)}

SetCustomSentences(list) ==
    LET entry(i) == [id |-> EffectiveCustomId(list, i),
                     enabled |-> list[i].enabled,
                     period |-> IF list[i].period <= 0 THEN CustomDefaultPeriod
                                ELSE list[i].period,
                     next_due |-> 0]
        Kept(id) == IF id \in Registry THEN hist[id] ELSE Unscheduled
        new == [i \in Accepted(list) |-> entry(i)]
    IN  /\ custom' = new
        /\ hist' = [id \in Ids |->
                      IF id \in CustomIdsOf(new)
                        THEN Fresh(new[PositionOf(new, id)].period, elapsed = 0)
                        ELSE Kept(id)]
        /\ sent' = {}
        /\ UNCHANGED <<elapsed, entries>>

Next ==
    \/ \E dt \in Steps : Step(dt)
    \/ Seek
    \/ Reset
    \/ \E id \in Registry, enabled \in BOOLEAN, period \in Periods :
          Configure(id, enabled, period)
    \/ \E id \in Registry, enabled \in BOOLEAN : SetEnabled(id, enabled)
    \/ \E group \in Groups, enabled \in BOOLEAN : SetGroupEnabled(group, enabled)
    \/ \E period \in Periods : SetPeriodForAll(period)
    \/ \E list \in CustomLists : SetCustomSentences(list)

Spec == Init /\ [][Next]_vars

-----------------------------------------------------------------------------
TypeOK ==
    /\ elapsed \in Nat
    /\ entries \in [Registry -> Entry]
    /\ DOMAIN custom \subseteq Nat \ {0}
    /\ custom \in [DOMAIN custom -> CustomEntry]
    /\ sent \subseteq Ids
    /\ hist \in [Ids -> HistoryType]

(* No two scheduled sentences share an id, so that an output filter names  *)
(* one sentence: set_custom_sentences drops the later of two equal ids,    *)
(* also when one of them is an id filled in from a position.               *)
UniqueIds ==
    /\ CustomIdsOf(custom) \cap Registry = {}
    /\ \A i, j \in DOMAIN custom : custom[i].id = custom[j].id => i = j

(* The wait for the next emission never exceeds the longest period the     *)
(* sentence had since the last reset: no setting change, stall or seek     *)
(* leaves a sentence scheduled in the far future.                          *)
BoundedWait ==
    \A id \in Scheduled : EntryOf(id).next_due <= elapsed + hist[id].high

(* Never a burst: of three successive emissions of a sentence the first    *)
(* and the third are more than a period apart, however long the host       *)
(* stalled and whatever was enabled, disabled or reconfigured in between.  *)
NoBurst ==
    [][\A id \in sent' :
         hist[id].before # None => elapsed' > hist[id].before + hist[id].low]_vars

(* The cadence does not drift: while the steps keep up with the period, a  *)
(* sentence that has been enabled from the start has been sent once for    *)
(* every slot 0, period, 2 * period, ... up to now.                        *)
ExactCadence ==
    \A id \in Scheduled :
        LET e == EntryOf(id)  h == hist[id]
        IN  h.steady /\ h.count > 0 =>
               /\ e.next_due = h.count * e.period
               /\ elapsed < e.next_due
               /\ e.next_due <= elapsed + e.period
=============================================================================
