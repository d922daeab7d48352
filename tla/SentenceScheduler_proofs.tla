---------------------- MODULE SentenceScheduler_proofs ----------------------
(***************************************************************************)
(* Proofs about SentenceScheduler for every registry, every period, every  *)
(* step length and every list of custom sentences.                         *)
(***************************************************************************)
EXTENDS SentenceScheduler, TLAPS

AnyEntry == Entry \cup CustomEntry

(* What holds of one schedule entry e with history h at time t.            *)
Good(e, h, t) ==
    /\ e.next_due <= t + h.high
    /\ h.low <= e.period /\ e.period <= h.high
    /\ h.last # None => h.last < e.next_due
    /\ h.before # None => h.before + h.low < e.next_due
    /\ h.steady /\ h.count = 0 => t = 0 /\ e.next_due = 0
    /\ h.steady /\ h.count > 0 =>
          /\ e.next_due = h.count * e.period
          /\ t < e.next_due
          /\ e.next_due <= t + e.period

AllGood ==
    /\ \A id \in Registry : Good(entries[id], hist[id], elapsed)
    /\ \A i \in DOMAIN custom : Good(custom[i], hist[custom[i].id], elapsed)

IInv == TypeOK /\ UniqueIds /\ AllGood

-----------------------------------------------------------------------------
(* The cadence rule: the next due time is later than now, at most a period *)
(* away, never less than a period after the slot, and exactly one period   *)
(* after the slot when the message is less than a period late.             *)
LEMMA NextDueBounds ==
    ASSUME NEW due \in Nat, NEW now \in Nat, NEW period \in Nat \ {0},
           due <= now
    PROVE  /\ NextDueAfter(due, now, period) \in Nat
           /\ NextDueAfter(due, now, period) > now
           /\ NextDueAfter(due, now, period) <= now + period
           /\ NextDueAfter(due, now, period) >= due + period
           /\ now < due + period => NextDueAfter(due, now, period) = due + period
  BY DEF NextDueAfter

LEMMA OneMore ==
    ASSUME NEW n \in Nat, NEW period \in Nat
    PROVE  (n + 1) * period = n * period + period
  OBVIOUS

LEMMA AdvancedType ==
    ASSUME NEW now \in Nat
    PROVE  /\ \A e \in Entry : Advanced(e, now) \in Entry
           /\ \A e \in CustomEntry : /\ Advanced(e, now) \in CustomEntry
                                     /\ Advanced(e, now).id = e.id
  BY DEF Advanced, IsDue, NextDueAfter, Entry, CustomEntry

LEMMA SteppedType ==
    ASSUME NEW h \in HistoryType, NEW e \in AnyEntry,
           NEW dt \in Nat \ {0}, NEW now \in Nat
    PROVE  Stepped(h, e, dt, now) \in HistoryType
<1> DEFINE keeps == IF h.count = 0 THEN dt < e.period ELSE dt <= e.period
           s == h.steady /\ e.enabled /\ keeps
<1>1. s \in BOOLEAN OBVIOUS
<1> HIDE DEF s
<1>2. now \in Time /\ h.last \in Time
  BY DEF Time, HistoryType
<1>3. [h EXCEPT !.steady = s] \in HistoryType
  BY <1>1 DEF HistoryType
<1>4. [last |-> now, before |-> h.last, low |-> h.low, high |-> h.high,
       count |-> h.count + 1, steady |-> s] \in HistoryType
  BY <1>1, <1>2 DEF HistoryType
<1>5. CASE IsDue(e, now) BY <1>4, <1>5 DEF Stepped, s
<1>6. CASE ~ IsDue(e, now) BY <1>3, <1>6 DEF Stepped, s
<1> QED BY <1>5, <1>6

(* A step keeps an entry good: its slot moves by the cadence rule exactly  *)
(* when the history records an emission.                                   *)
LEMMA StepGood ==
    ASSUME NEW h \in HistoryType, NEW e \in AnyEntry,
           NEW dt \in Nat \ {0}, NEW t \in Nat, Good(e, h, t)
    PROVE  Good(Advanced(e, t + dt), Stepped(h, e, dt, t + dt), t + dt)
<1> DEFINE now == t + dt
           a == Advanced(e, now)
           g == Stepped(h, e, dt, now)
<1>0. /\ now \in Nat /\ e.next_due \in Nat /\ e.period \in Nat \ {0}
      /\ e.enabled \in BOOLEAN
      /\ h.count \in Nat /\ h.steady \in BOOLEAN
      /\ h.last \in Time /\ h.before \in Time
      /\ h.low \in Nat \ {0} /\ h.high \in Nat \ {0}
  BY DEF AnyEntry, Entry, CustomEntry, HistoryType
<1>1. CASE ~ IsDue(e, now)
  <2>1. a = e /\ g = [h EXCEPT !.steady = g.steady]
    BY <1>1 DEF Advanced, Stepped, HistoryType
  <2>2. g.steady => h.steady /\ e.enabled /\ h.count > 0
    BY <1>0, <1>1 DEF Stepped, IsDue, Good, HistoryType
  <2>3. g.steady => now < e.next_due
    BY <1>0, <1>1, <2>2 DEF IsDue
  <2> QED BY <1>0, <2>1, <2>2, <2>3 DEF Good, HistoryType
<1>2. CASE IsDue(e, now)
  <2>1. e.next_due <= now /\ e.enabled BY <1>2 DEF IsDue
  <2>2. a = [e EXCEPT !.next_due = NextDueAfter(e.next_due, now, e.period)]
    BY <1>2 DEF Advanced
  <2>3. a.next_due = NextDueAfter(e.next_due, now, e.period)
        /\ a.period = e.period
    BY <2>2 DEF AnyEntry, Entry, CustomEntry
  <2>4. /\ g.last = now /\ g.before = h.last /\ g.count = h.count + 1
        /\ g.low = h.low /\ g.high = h.high
    BY <1>2 DEF Stepped, HistoryType
  <2>5. /\ a.next_due \in Nat
        /\ a.next_due > now
        /\ a.next_due <= now + e.period
        /\ a.next_due >= e.next_due + e.period
        /\ now < e.next_due + e.period => a.next_due = e.next_due + e.period
    BY <1>0, <2>1, <2>3 DEF NextDueAfter
  <2>6. h.last # None => h.last + h.low < a.next_due
    BY <1>0, <2>5 DEF Good, None, Time
  <2>7. g.steady => h.steady /\ (IF h.count = 0 THEN dt < e.period ELSE dt <= e.period)
    BY <1>2 DEF Stepped, HistoryType
  <2>8. ASSUME g.steady
        PROVE  a.next_due = (h.count + 1) * e.period
    <3>1. CASE h.count = 0
      BY <1>0, <2>5, <2>7, <2>8, <3>1 DEF Good
    <3>2. CASE h.count > 0
      <4>1. /\ e.next_due = h.count * e.period
            /\ e.next_due > t
        BY <2>7, <2>8, <3>2 DEF Good
      <4>2. now < e.next_due + e.period
        BY <1>0, <2>7, <2>8, <3>2, <4>1
      <4>3. (h.count + 1) * e.period = h.count * e.period + e.period
        BY <1>0, OneMore
      <4> QED BY <2>5, <4>1, <4>2, <4>3
    <3> QED BY <1>0, <3>1, <3>2
  <2>9. a.next_due <= now + h.high BY <1>0, <2>5 DEF Good
  <2> QED BY <1>0, <2>3, <2>4, <2>5, <2>6, <2>8, <2>9 DEF Good
<1> QED BY <1>1, <1>2

(* A fresh history suits an entry that is due at once.                     *)
LEMMA FreshGood ==
    ASSUME NEW e \in AnyEntry, NEW t \in Nat, NEW s \in BOOLEAN,
           e.next_due = 0, s => t = 0
    PROVE  /\ Fresh(e.period, s) \in HistoryType
           /\ Good(e, Fresh(e.period, s), t)
<1>1. e.period \in Nat \ {0} BY DEF AnyEntry, Entry, CustomEntry
<1>2. None \in Time BY DEF Time
<1>3. Fresh(e.period, s) \in HistoryType
  BY <1>1, <1>2 DEF Fresh, HistoryType
<1>4. Good(e, Fresh(e.period, s), t)
  BY <1>1 DEF Good, Fresh
<1> QED BY <1>3, <1>4

(* A setting change moves the period inside [low, high], never the slot.   *)
LEMMA ReconfiguredGood ==
    ASSUME NEW h \in HistoryType, NEW e \in Entry, NEW t \in Nat,
           NEW p \in Nat \ {0}, NEW enabled \in BOOLEAN, Good(e, h, t)
    PROVE  LET n == [e EXCEPT !.enabled = enabled, !.period = p]
           IN  /\ Reconfigured(h, p) \in HistoryType
               /\ n \in Entry
               /\ Good(n, Reconfigured(h, p), t)
<1> DEFINE n == [e EXCEPT !.enabled = enabled, !.period = p]
           g == Reconfigured(h, p)
<1>1. /\ Lower(h.low, p) \in Nat \ {0} /\ Higher(h.high, p) \in Nat \ {0}
      /\ Lower(h.low, p) <= h.low /\ Lower(h.low, p) <= p
      /\ h.high <= Higher(h.high, p) /\ p <= Higher(h.high, p)
  BY DEF HistoryType, Lower, Higher
<1>2. g \in HistoryType
  BY <1>1 DEF Reconfigured, HistoryType
<1>3. n \in Entry /\ n.period = p /\ n.next_due = e.next_due
  BY DEF Entry
<1>4. /\ g.last = h.last /\ g.before = h.before /\ g.steady = FALSE
      /\ g.low = Lower(h.low, p) /\ g.high = Higher(h.high, p)
  BY DEF Reconfigured
<1>5. /\ h.low \in Nat /\ h.high \in Nat /\ h.before \in Time
      /\ e.next_due \in Nat
  BY DEF HistoryType, Entry
<1>6. h.before # None => h.before + g.low < e.next_due
  BY <1>1, <1>4, <1>5 DEF Good, Time
<1> HIDE DEF n, g
<1>7. Good(n, g, t)
  BY <1>1, <1>3, <1>4, <1>5, <1>6 DEF Good
<1> QED BY <1>2, <1>3, <1>7 DEF n, g

LEMMA ToggledGood ==
    ASSUME NEW h \in HistoryType, NEW e \in Entry, NEW t \in Nat,
           NEW enabled \in BOOLEAN, Good(e, h, t)
    PROVE  LET n == [e EXCEPT !.enabled = enabled]
               g == [h EXCEPT !.steady = FALSE]
           IN  g \in HistoryType /\ n \in Entry /\ Good(n, g, t)
  BY DEF Good, HistoryType, Entry, None
-----------------------------------------------------------------------------
(* With unique ids, the entry an id stands for is the one that carries it. *)
LEMMA PositionOfOwn ==
    ASSUME NEW c, NEW i \in DOMAIN c,
           \A k, j \in DOMAIN c : c[k].id = c[j].id => k = j
    PROVE  PositionOf(c, c[i].id) = i
  BY DEF PositionOf

LEMMA EntryOfCustom ==
    ASSUME UniqueIds, NEW i \in DOMAIN custom
    PROVE  /\ custom[i].id \in Scheduled
           /\ custom[i].id \notin Registry
           /\ EntryOf(custom[i].id) = custom[i]
<1>1. custom[i].id \in CustomIdsOf(custom) BY DEF CustomIdsOf
<1>2. custom[i].id \notin Registry BY <1>1 DEF UniqueIds
<1>3. PositionOf(custom, custom[i].id) = i BY PositionOfOwn DEF UniqueIds
<1> QED BY <1>1, <1>2, <1>3 DEF Scheduled, EntryOf

LEMMA EntryOfRegistry ==
    ASSUME NEW id \in Registry
    PROVE  id \in Scheduled /\ EntryOf(id) = entries[id]
  BY DEF Scheduled, EntryOf

LEMMA ScheduledType ==
    ASSUME TypeOK, NEW id \in Scheduled
    PROVE  EntryOf(id) \in AnyEntry
<1>1. CASE id \in Registry
  BY <1>1 DEF TypeOK, EntryOf, AnyEntry
<1>2. CASE id \notin Registry
  <2>1. PICK i \in DOMAIN custom : custom[i].id = id
    BY <1>2 DEF Scheduled, CustomIdsOf
  <2>2. PositionOf(custom, id) \in DOMAIN custom
    BY <2>1 DEF PositionOf
  <2> QED BY <1>2, <2>2 DEF TypeOK, EntryOf, AnyEntry
<1> QED BY <1>1, <1>2

LEMMA InitInv == Init => IInv
<1> SUFFICES ASSUME Init PROVE IInv OBVIOUS
<1>1. Registry \subseteq Ids /\ DefaultPeriod \in [Registry -> Nat \ {0}]
      /\ DefaultEnabled \in [Registry -> BOOLEAN]
  BY RegistryAssumption
<1>2. elapsed = 0 /\ sent = {} /\ custom = [i \in {} |-> 0] BY DEF Init
<1>3. DOMAIN custom = {} BY <1>2
<1>4. \A id \in Registry :
         /\ entries[id] \in Entry
         /\ entries[id].next_due = 0 /\ entries[id].period = DefaultPeriod[id]
  BY <1>1 DEF Init, Entry
<1>5. \A id \in Registry : /\ hist[id] = Fresh(DefaultPeriod[id], TRUE)
                           /\ hist[id] \in HistoryType
                           /\ Good(entries[id], hist[id], 0)
  <2> TAKE id \in Registry
  <2>1. hist[id] = Fresh(DefaultPeriod[id], TRUE) BY <1>1 DEF Init
  <2> QED BY <1>4, <2>1, FreshGood DEF AnyEntry
<1>6. Unscheduled \in HistoryType
  BY DEF Unscheduled, Fresh, HistoryType, Time
<1>7. hist \in [Ids -> HistoryType]
  BY <1>5, <1>6 DEF Init
<1>8. entries \in [Registry -> Entry]
  BY <1>4 DEF Init
<1>9. custom \in [DOMAIN custom -> CustomEntry]
  BY <1>2, <1>3
<1>10. TypeOK
  BY <1>2, <1>3, <1>7, <1>8, <1>9 DEF TypeOK
<1>11. UniqueIds
  BY <1>3 DEF UniqueIds, CustomIdsOf
<1>12. AllGood
  BY <1>2, <1>3, <1>5 DEF AllGood
<1> QED BY <1>10, <1>11, <1>12 DEF IInv

(* What a step that rewrites every entry in place has to show: types and   *)
(* goodness, one entry at a time.  The ids stay what they were.            *)
LEMMA InPlace ==
    ASSUME IInv,
           elapsed' \in Nat, sent' \subseteq Ids,
           DOMAIN hist' = Ids,  hist' = [id \in Ids |-> hist'[id]],
           entries' = [id \in Registry |-> entries'[id]],
           custom' = [i \in DOMAIN custom |-> custom'[i]],
           \A id \in Ids : hist'[id] \in HistoryType,
           \A id \in Registry : /\ entries'[id] \in Entry
                                /\ Good(entries'[id], hist'[id], elapsed'),
           \A i \in DOMAIN custom :
               /\ custom'[i] \in CustomEntry
               /\ custom'[i].id = custom[i].id
               /\ Good(custom'[i], hist'[custom[i].id], elapsed')
    PROVE  IInv'
<1>1. DOMAIN custom' = DOMAIN custom OBVIOUS
<1>2. TypeOK' BY <1>1 DEF IInv, TypeOK
<1>3. UniqueIds' BY <1>1 DEF IInv, UniqueIds, CustomIdsOf
<1>4. AllGood' BY <1>1 DEF AllGood
<1> QED BY <1>2, <1>3, <1>4 DEF IInv

LEMMA StepInv ==
    ASSUME IInv, NEW dt \in Steps, Step(dt)
    PROVE  IInv'
<1> DEFINE now == elapsed + dt
<1>0. dt \in Nat \ {0} /\ elapsed \in Nat /\ now \in Nat
      /\ Registry \subseteq Ids
  BY InputAssumption, RegistryAssumption DEF IInv, TypeOK
<1>1. elapsed' = now BY DEF Step
<1>2. /\ entries' = [id \in Registry |-> Advanced(entries[id], now)]
      /\ custom' = [i \in DOMAIN custom |-> Advanced(custom[i], now)]
      /\ hist' = [id \in Ids |->
                    IF id \in Scheduled
                    THEN Stepped(hist[id], EntryOf(id), dt, now)
                    ELSE hist[id]]
  BY DEF Step
<1>3. sent' \subseteq Ids
  BY <1>0 DEF Step, IInv, TypeOK, CustomEntry
<1>4. \A id \in Ids : hist'[id] \in HistoryType
  BY <1>0, <1>2, ScheduledType, SteppedType DEF IInv, TypeOK
<1>5. ASSUME NEW id \in Registry
      PROVE  /\ entries'[id] \in Entry
             /\ Good(entries'[id], hist'[id], elapsed')
  <2>1. /\ entries[id] \in Entry /\ hist[id] \in HistoryType
        /\ Good(entries[id], hist[id], elapsed)
    BY <1>0 DEF IInv, TypeOK, AllGood
  <2>2. /\ entries'[id] = Advanced(entries[id], now)
        /\ hist'[id] = Stepped(hist[id], entries[id], dt, now)
    BY <1>0, <1>2, EntryOfRegistry
  <2> QED BY <1>0, <1>1, <2>1, <2>2, AdvancedType, StepGood DEF AnyEntry
<1>6. ASSUME NEW i \in DOMAIN custom
      PROVE  /\ custom'[i] \in CustomEntry
             /\ custom'[i].id = custom[i].id
             /\ Good(custom'[i], hist'[custom[i].id], elapsed')
  <2>1. /\ custom[i] \in CustomEntry /\ custom[i].id \in Ids
        /\ hist[custom[i].id] \in HistoryType
        /\ Good(custom[i], hist[custom[i].id], elapsed)
    BY DEF IInv, TypeOK, AllGood, CustomEntry
  <2>2. /\ custom'[i] = Advanced(custom[i], now)
        /\ hist'[custom[i].id] = Stepped(hist[custom[i].id], custom[i], dt, now)
    BY <1>2, <2>1, EntryOfCustom DEF IInv
  <2> QED BY <1>0, <1>1, <2>1, <2>2, AdvancedType, StepGood DEF AnyEntry
<1> HIDE DEF now
<1> QED BY <1>0, <1>1, <1>2, <1>3, <1>4, <1>5, <1>6, InPlace

LEMMA ResetInv ==
    ASSUME IInv, NEW s \in BOOLEAN, ResetSchedule(s),
           elapsed' \in Nat, s => elapsed' = 0
    PROVE  IInv'
<1>0. Registry \subseteq Ids BY RegistryAssumption
<1>1. /\ entries' = [id \in Registry |-> Rescheduled(entries[id])]
      /\ custom' = [i \in DOMAIN custom |-> Rescheduled(custom[i])]
      /\ sent' = {}
      /\ hist' = [id \in Ids |-> IF id \in Scheduled
                                 THEN Fresh(EntryOf(id).period, s)
                                 ELSE hist[id]]
  BY DEF ResetSchedule
<1>2. \A e \in AnyEntry : Fresh(e.period, s) \in HistoryType
  BY DEF AnyEntry, Entry, CustomEntry, Fresh, HistoryType, Time
<1>3. \A id \in Ids : hist'[id] \in HistoryType
  BY <1>1, <1>2, ScheduledType DEF IInv, TypeOK
<1>4. ASSUME NEW e \in AnyEntry
      PROVE  /\ Rescheduled(e).next_due = 0
             /\ Rescheduled(e).period = e.period
             /\ e \in Entry => Rescheduled(e) \in Entry
             /\ e \in CustomEntry => /\ Rescheduled(e) \in CustomEntry
                                     /\ Rescheduled(e).id = e.id
  BY DEF Rescheduled, AnyEntry, Entry, CustomEntry
<1>5. ASSUME NEW id \in Registry
      PROVE  /\ entries'[id] \in Entry
             /\ Good(entries'[id], hist'[id], elapsed')
  <2>1. entries[id] \in Entry BY DEF IInv, TypeOK
  <2>2. /\ entries'[id] = Rescheduled(entries[id])
        /\ hist'[id] = Fresh(entries[id].period, s)
    BY <1>0, <1>1, EntryOfRegistry
  <2> QED BY <1>4, <2>1, <2>2, FreshGood DEF AnyEntry
<1>6. ASSUME NEW i \in DOMAIN custom
      PROVE  /\ custom'[i] \in CustomEntry
             /\ custom'[i].id = custom[i].id
             /\ Good(custom'[i], hist'[custom[i].id], elapsed')
  <2>1. custom[i] \in CustomEntry /\ custom[i].id \in Ids
    BY DEF IInv, TypeOK, CustomEntry
  <2>2. /\ custom'[i] = Rescheduled(custom[i])
        /\ hist'[custom[i].id] = Fresh(custom[i].period, s)
    BY <1>1, <2>1, EntryOfCustom DEF IInv
  <2> QED BY <1>4, <2>1, <2>2, FreshGood DEF AnyEntry
<1> QED BY <1>1, <1>3, <1>5, <1>6, InPlace

(* A change of settings leaves every slot where it is.                     *)
LEMMA SettingsInv ==
    ASSUME IInv, NEW S \in SUBSET Registry,
           UNCHANGED <<elapsed, custom>>, sent' = {},
           entries' = [id \in Registry |-> entries'[id]],
           hist' = [id \in Ids |-> hist'[id]],
           \A id \in Ids \ S : hist'[id] = hist[id],
           \A id \in Registry \ S : entries'[id] = entries[id],
           \A id \in S : /\ entries'[id] \in Entry
                         /\ hist'[id] \in HistoryType
                         /\ Good(entries'[id], hist'[id], elapsed)
    PROVE  IInv'
<1>0. Registry \subseteq Ids BY RegistryAssumption
<1>1. \A id \in Ids : hist'[id] \in HistoryType
  BY DEF IInv, TypeOK
<1>2. \A id \in Registry : /\ entries'[id] \in Entry
                           /\ Good(entries'[id], hist'[id], elapsed')
  BY <1>0 DEF IInv, TypeOK, AllGood
<1>3. ASSUME NEW i \in DOMAIN custom
      PROVE  /\ custom'[i] \in CustomEntry
             /\ custom'[i].id = custom[i].id
             /\ Good(custom'[i], hist'[custom[i].id], elapsed')
  <2>1. custom[i].id \in Ids \ S
    BY EntryOfCustom DEF IInv, TypeOK, CustomEntry
  <2> QED BY <2>1 DEF IInv, TypeOK, AllGood
<1>4. custom' = [i \in DOMAIN custom |-> custom'[i]]
  BY DEF IInv, TypeOK
<1>5. elapsed' \in Nat BY DEF IInv, TypeOK
<1> QED BY <1>1, <1>2, <1>3, <1>4, <1>5, InPlace

LEMMA ConfigureInv ==
    ASSUME IInv, NEW id \in Registry, NEW enabled \in BOOLEAN,
           NEW period \in Periods, Configure(id, enabled, period)
    PROVE  IInv'
<1> DEFINE p == IF period <= 0 THEN DefaultPeriod[id] ELSE period
           n == [entries[id] EXCEPT !.enabled = enabled, !.period = p]
<1>0. Registry \subseteq Ids /\ p \in Nat \ {0}
  BY RegistryAssumption, InputAssumption
<1>1. /\ entries[id] \in Entry /\ hist[id] \in HistoryType /\ elapsed \in Nat
      /\ Good(entries[id], hist[id], elapsed)
  BY <1>0 DEF IInv, TypeOK, AllGood
<1>2. /\ entries' = [entries EXCEPT ![id] = n]
      /\ hist' = [hist EXCEPT ![id] = Reconfigured(hist[id], p)]
      /\ sent' = {} /\ UNCHANGED <<elapsed, custom>>
  <2>1. entries \in [Registry -> Entry] BY DEF IInv, TypeOK
  <2> QED BY <2>1 DEF Configure, Entry
<1> HIDE DEF p
<1>3. /\ Reconfigured(hist[id], p) \in HistoryType
      /\ n \in Entry /\ Good(n, Reconfigured(hist[id], p), elapsed)
  BY <1>0, <1>1, ReconfiguredGood
<1> HIDE DEF n
<1>4. /\ entries' = [i \in Registry |-> entries'[i]]
      /\ hist' = [i \in Ids |-> hist'[i]]
      /\ entries'[id] = n /\ hist'[id] = Reconfigured(hist[id], p)
      /\ \A i \in Registry \ {id} : entries'[i] = entries[i]
      /\ \A i \in Ids \ {id} : hist'[i] = hist[i]
  BY <1>0, <1>2 DEF IInv, TypeOK
<1>5. \A i \in {id} : /\ entries'[i] \in Entry
                      /\ hist'[i] \in HistoryType
                      /\ Good(entries'[i], hist'[i], elapsed)
  BY <1>3, <1>4
<1>6. {id} \in SUBSET Registry OBVIOUS
<1> QED BY <1>2, <1>4, <1>5, <1>6, SettingsInv

LEMMA SetEnabledInv ==
    ASSUME IInv, NEW id \in Registry, NEW enabled \in BOOLEAN,
           SetEnabled(id, enabled)
    PROVE  IInv'
<1> DEFINE n == [entries[id] EXCEPT !.enabled = enabled]
           g == [hist[id] EXCEPT !.steady = FALSE]
<1>0. Registry \subseteq Ids BY RegistryAssumption
<1>1. /\ entries[id] \in Entry /\ hist[id] \in HistoryType /\ elapsed \in Nat
      /\ Good(entries[id], hist[id], elapsed)
  BY <1>0 DEF IInv, TypeOK, AllGood
<1>2. /\ entries' = [entries EXCEPT ![id] = n]
      /\ hist' = [hist EXCEPT ![id] = g]
      /\ sent' = {} /\ UNCHANGED <<elapsed, custom>>
  BY DEF SetEnabled
<1>3. g \in HistoryType /\ n \in Entry /\ Good(n, g, elapsed)
  BY <1>1, ToggledGood
<1> HIDE DEF n, g
<1>4. /\ entries' = [i \in Registry |-> entries'[i]]
      /\ hist' = [i \in Ids |-> hist'[i]]
      /\ entries'[id] = n /\ hist'[id] = g
      /\ \A i \in Registry \ {id} : entries'[i] = entries[i]
      /\ \A i \in Ids \ {id} : hist'[i] = hist[i]
  BY <1>0, <1>2 DEF IInv, TypeOK
<1>5. \A i \in {id} : /\ entries'[i] \in Entry
                      /\ hist'[i] \in HistoryType
                      /\ Good(entries'[i], hist'[i], elapsed)
  BY <1>3, <1>4
<1>6. {id} \in SUBSET Registry OBVIOUS
<1> QED BY <1>2, <1>4, <1>5, <1>6, SettingsInv

LEMMA SetGroupEnabledInv ==
    ASSUME IInv, NEW group \in Groups, NEW enabled \in BOOLEAN,
           SetGroupEnabled(group, enabled)
    PROVE  IInv'
<1> DEFINE S == {id \in Registry : Group[id] = group}
<1>0. Registry \subseteq Ids /\ S \subseteq Registry BY RegistryAssumption
<1>1. /\ entries' = [id \in Registry |->
                       IF id \in S THEN [entries[id] EXCEPT !.enabled = enabled]
                       ELSE entries[id]]
      /\ hist' = [id \in Ids |-> IF id \in S
                                 THEN [hist[id] EXCEPT !.steady = FALSE]
                                 ELSE hist[id]]
      /\ sent' = {} /\ UNCHANGED <<elapsed, custom>>
  BY DEF SetGroupEnabled
<1>2. ASSUME NEW id \in S
      PROVE  /\ entries'[id] \in Entry
             /\ hist'[id] \in HistoryType
             /\ Good(entries'[id], hist'[id], elapsed)
  <2>1. /\ entries[id] \in Entry /\ hist[id] \in HistoryType
        /\ elapsed \in Nat /\ Good(entries[id], hist[id], elapsed)
    BY <1>0 DEF IInv, TypeOK, AllGood
  <2>2. /\ entries'[id] = [entries[id] EXCEPT !.enabled = enabled]
        /\ hist'[id] = [hist[id] EXCEPT !.steady = FALSE]
    BY <1>0, <1>1
  <2> QED BY <2>1, <2>2, ToggledGood
<1> HIDE DEF S
<1>3. /\ entries' = [i \in Registry |-> entries'[i]]
      /\ hist' = [i \in Ids |-> hist'[i]]
      /\ \A i \in Registry \ S : entries'[i] = entries[i]
      /\ \A i \in Ids \ S : hist'[i] = hist[i]
  BY <1>1
<1> QED BY <1>0, <1>1, <1>2, <1>3, SettingsInv

LEMMA SetPeriodForAllInv ==
    ASSUME IInv, NEW period \in Periods, SetPeriodForAll(period)
    PROVE  IInv'
<1>0. /\ Registry \subseteq Ids /\ Registry \in SUBSET Registry
      /\ period \in Nat \ {0}
  BY RegistryAssumption, InputAssumption DEF SetPeriodForAll
<1>1. /\ entries' = [id \in Registry |-> [entries[id] EXCEPT !.period = period]]
      /\ hist' = [id \in Ids |-> IF id \in Registry
                                 THEN Reconfigured(hist[id], period)
                                 ELSE hist[id]]
      /\ sent' = {} /\ UNCHANGED <<elapsed, custom>>
  BY DEF SetPeriodForAll
<1>2. ASSUME NEW id \in Registry
      PROVE  /\ entries'[id] \in Entry
             /\ hist'[id] \in HistoryType
             /\ Good(entries'[id], hist'[id], elapsed)
  <2>1. /\ entries[id] \in Entry /\ hist[id] \in HistoryType
        /\ elapsed \in Nat /\ Good(entries[id], hist[id], elapsed)
    BY <1>0 DEF IInv, TypeOK, AllGood
  <2> DEFINE was == entries[id].enabled
             n == [entries[id] EXCEPT !.enabled = was, !.period = period]
  <2>2. entries'[id] = n /\ hist'[id] = Reconfigured(hist[id], period)
    BY <1>0, <1>1, <2>1 DEF Entry
  <2>3. was \in BOOLEAN BY <2>1 DEF Entry
  <2> HIDE DEF was
  <2>4. /\ Reconfigured(hist[id], period) \in HistoryType
        /\ n \in Entry
        /\ Good(n, Reconfigured(hist[id], period), elapsed)
    BY <1>0, <2>1, <2>3, ReconfiguredGood
  <2> QED BY <2>2, <2>4
<1>3. /\ entries' = [i \in Registry |-> entries'[i]]
      /\ hist' = [i \in Ids |-> hist'[i]]
      /\ \A i \in Ids \ Registry : hist'[i] = hist[i]
  BY <1>1
<1> QED BY <1>0, <1>1, <1>2, <1>3, SettingsInv

LEMMA SetCustomSentencesInv ==
    ASSUME IInv, NEW list \in CustomLists, SetCustomSentences(list)
    PROVE  IInv'
<1>0. /\ Registry \subseteq Ids /\ elapsed \in Nat
      /\ list \in Seq(CustomSentence)
      /\ \A i \in DOMAIN list : AutoId[i] \in Ids
      /\ DOMAIN list \subseteq Nat \ {0}
  BY RegistryAssumption, CustomListAssumption DEF IInv, TypeOK
<1> DEFINE A == Accepted(list)
           s == elapsed = 0
           Kept(id) == IF id \in Registry THEN hist[id] ELSE Unscheduled
<1>a. s \in BOOLEAN /\ (s => elapsed = 0) OBVIOUS
<1>1. ASSUME NEW i \in A
      PROVE  /\ i \in DOMAIN list
             /\ custom'[i].id = EffectiveCustomId(list, i)
             /\ custom'[i].next_due = 0
             /\ custom'[i] \in CustomEntry
             /\ custom'[i].id \notin Registry
  <2>1. i \in DOMAIN list /\ EffectiveCustomId(list, i) \notin Registry
    BY DEF Accepted
  <2>2. list[i] \in CustomSentence BY <1>0, <2>1
  <2>3. EffectiveCustomId(list, i) \in Ids
    BY <1>0, <2>1, <2>2 DEF EffectiveCustomId, CustomSentence
  <2>4. list[i].period \in Nat /\ list[i].enabled \in BOOLEAN
    BY <2>2, InputAssumption DEF CustomSentence
  <2>5. custom'[i] = [id |-> EffectiveCustomId(list, i),
                      enabled |-> list[i].enabled,
                      period |-> IF list[i].period <= 0 THEN CustomDefaultPeriod
                                 ELSE list[i].period,
                      next_due |-> 0]
    BY DEF SetCustomSentences
  <2> QED BY <2>1, <2>3, <2>4, <2>5 DEF CustomEntry, CustomDefaultPeriod
<1>2. DOMAIN custom' = A /\ custom' = [i \in A |-> custom'[i]]
  BY DEF SetCustomSentences
<1>3. sent' = {} /\ UNCHANGED <<elapsed, entries>>
  BY DEF SetCustomSentences
<1>4. \A i, j \in A : custom'[i].id = custom'[j].id => i = j
  <2> SUFFICES ASSUME NEW i \in A, NEW j \in A,
                      custom'[i].id = custom'[j].id, i # j
               PROVE  FALSE
    OBVIOUS
  <2>1. /\ i \in DOMAIN list /\ j \in DOMAIN list
        /\ i \in Nat /\ j \in Nat
        /\ EffectiveCustomId(list, i) = EffectiveCustomId(list, j)
    BY <1>0, <1>1
  <2>2. i < j \/ j < i BY <2>1
  <2> QED BY <2>1, <2>2 DEF Accepted
<1>5. hist' = [id \in Ids |->
                IF id \in CustomIdsOf(custom')
                  THEN Fresh(custom'[PositionOf(custom', id)].period, s)
                  ELSE Kept(id)]
  BY DEF SetCustomSentences
<1> HIDE DEF A, s
<1>6. UniqueIds'
  BY <1>1, <1>2, <1>4 DEF UniqueIds, CustomIdsOf
<1>7. \A i \in A : /\ custom'[i].id \in Ids
                   /\ custom'[i].id \in CustomIdsOf(custom')
                   /\ PositionOf(custom', custom'[i].id) = i
  <2> TAKE i \in A
  <2>1. custom'[i].id \in Ids BY <1>1 DEF CustomEntry
  <2>2. custom'[i].id \in CustomIdsOf(custom') BY <1>2 DEF CustomIdsOf
  <2>3. PositionOf(custom', custom'[i].id) = i
    <3> DEFINE c == custom'
    <3>1. i \in DOMAIN c /\ \A k, j \in DOMAIN c : c[k].id = c[j].id => k = j
      BY <1>2, <1>4
    <3> HIDE DEF c
    <3>2. PositionOf(c, c[i].id) = i BY <3>1, PositionOfOwn
    <3> QED BY <3>2 DEF c
  <2> QED BY <2>1, <2>2, <2>3
<1>8. \A i \in A : hist'[custom'[i].id] = Fresh(custom'[i].period, s)
  <2> TAKE i \in A
  <2> DEFINE id == custom'[i].id
  <2>1. id \in Ids /\ id \in CustomIdsOf(custom') BY <1>7
  <2>2. PositionOf(custom', id) = i BY <1>7
  <2> HIDE DEF id
  <2>3. hist'[id] = Fresh(custom'[PositionOf(custom', id)].period, s)
    BY <1>5, <2>1
  <2> QED BY <2>2, <2>3 DEF id
<1>9. \A i \in A : /\ hist'[custom'[i].id] \in HistoryType
                   /\ Good(custom'[i], hist'[custom'[i].id], elapsed)
  <2> TAKE i \in A
  <2>1. custom'[i] \in AnyEntry /\ custom'[i].next_due = 0
    BY <1>1 DEF AnyEntry
  <2> QED BY <1>0, <1>a, <1>8, <2>1, FreshGood
<1>10. \A id \in Registry : hist'[id] = hist[id]
  BY <1>0, <1>1, <1>2, <1>5 DEF CustomIdsOf
<1>11. \A id \in Ids : hist'[id] \in HistoryType
  <2> TAKE id \in Ids
  <2>1. CASE id \in CustomIdsOf(custom')
    BY <1>2, <1>9, <2>1 DEF CustomIdsOf
  <2>2. CASE id \in Registry
    BY <1>10, <2>2 DEF IInv, TypeOK
  <2>3. CASE id \notin Registry /\ id \notin CustomIdsOf(custom')
    <3>1. hist'[id] = Unscheduled BY <1>5, <2>3
    <3> QED BY <3>1 DEF Unscheduled, Fresh, HistoryType, Time
  <2> QED BY <2>1, <2>2, <2>3
<1>12. TypeOK'
  <2>1. A \subseteq Nat \ {0} BY <1>0, <1>1
  <2>2. custom' \in [DOMAIN custom' -> CustomEntry] BY <1>1, <1>2
  <2>3. hist' \in [Ids -> HistoryType] BY <1>5, <1>11
  <2> QED BY <1>2, <1>3, <2>1, <2>2, <2>3 DEF IInv, TypeOK
<1>13. AllGood'
  BY <1>2, <1>3, <1>9, <1>10 DEF IInv, AllGood
<1> QED BY <1>6, <1>12, <1>13 DEF IInv

LEMMA NextInv == IInv /\ [Next]_vars => IInv'
<1> SUFFICES ASSUME IInv, [Next]_vars PROVE IInv' OBVIOUS
<1>1. ASSUME NEW dt \in Steps, Step(dt) PROVE IInv'
  BY <1>1, StepInv
<1>2. CASE Seek
  BY <1>2, ResetInv DEF Seek, IInv, TypeOK
<1>3. CASE Reset
  BY <1>3, ResetInv DEF Reset
<1>4. ASSUME NEW id \in Registry, NEW enabled \in BOOLEAN,
             NEW period \in Periods, Configure(id, enabled, period)
      PROVE  IInv'
  BY <1>4, ConfigureInv
<1>5. ASSUME NEW id \in Registry, NEW enabled \in BOOLEAN, SetEnabled(id, enabled)
      PROVE  IInv'
  BY <1>5, SetEnabledInv
<1>6. ASSUME NEW group \in Groups, NEW enabled \in BOOLEAN,
             SetGroupEnabled(group, enabled)
      PROVE  IInv'
  BY <1>6, SetGroupEnabledInv
<1>7. ASSUME NEW period \in Periods, SetPeriodForAll(period) PROVE IInv'
  BY <1>7, SetPeriodForAllInv
<1>8. ASSUME NEW list \in CustomLists, SetCustomSentences(list) PROVE IInv'
  BY <1>8, SetCustomSentencesInv
<1>9. CASE UNCHANGED vars
  BY <1>9 DEF vars, IInv, TypeOK, UniqueIds, CustomIdsOf, AllGood
<1> QED BY <1>1, <1>2, <1>3, <1>4, <1>5, <1>6, <1>7, <1>8, <1>9 DEF Next

LEMMA SpecInv == Spec => []IInv
  BY InitInv, NextInv, PTL DEF Spec

-----------------------------------------------------------------------------
(* The schedule's state stays within its types: every period positive,     *)
(* every due time a natural number.                                        *)
THEOREM TypeCorrect == Spec => []TypeOK
<1>1. IInv => TypeOK BY DEF IInv
<1> QED BY <1>1, SpecInv, PTL

(* No two scheduled sentences ever share an id, whatever lists of custom   *)
(* sentences are entered.                                                  *)
THEOREM IdsStayUnique == Spec => []UniqueIds
<1>1. IInv => UniqueIds BY DEF IInv
<1> QED BY <1>1, SpecInv, PTL

LEMMA ScheduledGood ==
    ASSUME IInv, NEW id \in Scheduled
    PROVE  Good(EntryOf(id), hist[id], elapsed)
<1>1. CASE id \in Registry
  BY <1>1, EntryOfRegistry DEF IInv, AllGood
<1>2. CASE id \notin Registry
  <2>1. PICK i \in DOMAIN custom : custom[i].id = id
    BY <1>2 DEF Scheduled, CustomIdsOf
  <2> QED BY <2>1, EntryOfCustom DEF IInv, AllGood
<1> QED BY <1>1, <1>2

(* No sentence is ever scheduled further ahead than its longest period.    *)
THEOREM WaitIsBounded == Spec => []BoundedWait
<1>1. IInv => BoundedWait
  BY ScheduledGood DEF BoundedWait, Good
<1> QED BY <1>1, SpecInv, PTL

(* The cadence never drifts while the steps keep up with the period.       *)
THEOREM CadenceIsExact == Spec => []ExactCadence
<1>1. IInv => ExactCadence
  BY ScheduledGood DEF ExactCadence, Good
<1> QED BY <1>1, SpecInv, PTL

(* No stall, seek or setting change ever produces a burst.                 *)
THEOREM NeverABurst == Spec => NoBurst
<1> DEFINE Spaced ==
      \A id \in sent' :
         hist[id].before # None => elapsed' > hist[id].before + hist[id].low
<1>1. IInv /\ [Next]_vars => [Spaced]_vars
  <2> SUFFICES ASSUME IInv, Next PROVE Spaced OBVIOUS
  <2>1. ASSUME NEW dt \in Steps, Step(dt) PROVE Spaced
    <3> SUFFICES ASSUME NEW id \in sent', hist[id].before # None
                 PROVE  elapsed' > hist[id].before + hist[id].low
      OBVIOUS
    <3>1. /\ elapsed' = elapsed + dt /\ elapsed' \in Nat
          /\ id \in Scheduled /\ id \in Ids
          /\ IsDue(EntryOf(id), elapsed')
      <4>0. Registry \subseteq Ids /\ elapsed + dt \in Nat
        BY RegistryAssumption, InputAssumption DEF IInv, TypeOK
      <4>1. CASE id \in Registry /\ IsDue(entries[id], elapsed + dt)
        BY <2>1, <4>0, <4>1, EntryOfRegistry DEF Step
      <4>2. CASE \E i \in DOMAIN custom :
                   id = custom[i].id /\ IsDue(custom[i], elapsed + dt)
        <5>1. PICK i \in DOMAIN custom :
                   id = custom[i].id /\ IsDue(custom[i], elapsed + dt)
          BY <4>2
        <5>2. custom[i].id \in Ids
          BY DEF IInv, TypeOK, CustomEntry
        <5> QED BY <2>1, <4>0, <5>1, <5>2, EntryOfCustom DEF Step, IInv
      <4> QED BY <2>1, <4>1, <4>2 DEF Step
    <3>2. Good(EntryOf(id), hist[id], elapsed) BY <3>1, ScheduledGood
    <3>3. /\ EntryOf(id).next_due \in Nat
          /\ hist[id].before \in Nat /\ hist[id].low \in Nat
      BY <3>1, ScheduledType
      DEF IInv, TypeOK, HistoryType, Time, AnyEntry, Entry, CustomEntry
    <3> QED BY <3>1, <3>2, <3>3 DEF Good, IsDue
  <2>2. CASE sent' = {} BY <2>2
  <2> QED BY <2>1, <2>2 DEF Next, Seek, Reset, ResetSchedule, Configure,
             SetEnabled, SetGroupEnabled, SetPeriodForAll, SetCustomSentences
<1> QED BY <1>1, SpecInv, PTL DEF Spec, NoBurst
=============================================================================
