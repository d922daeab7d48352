----------------------- MODULE SimulationRunner_proofs -----------------------
(***************************************************************************)
(* Proofs about SimulationRunner for any outputs, profiles, files, tick    *)
(* intervals and resolutions of the clock.                                 *)
(***************************************************************************)
EXTENDS SimulationRunner, TLAPS

Sims == [elapsed : Int, position : Int, finished : BOOLEAN]
Outputs == [state : States, next_due : Int]
Recordings == [path : Paths, state : States, append : BOOLEAN]
Events == {"request", "other", "tick", "step"}
Recorders == {NoRecorder} \cup Recordings
Histories == [behind : Int, heard : Nat, gap : BOOLEAN, owed : SUBSET Channels,
              last : [Channels -> Int], before : [Channels -> Int],
              event : Events, told : SUBSET Channels]

-----------------------------------------------------------------------------
(* What the operators on the history change and keep.                      *)
LEMMA NotedFacts ==
    ASSUME NEW h \in Histories, NEW event \in Events
    PROVE  /\ Noted(h, event) \in Histories
           /\ Noted(h, event).behind = h.behind /\ Noted(h, event).heard = h.heard
           /\ Noted(h, event).gap = h.gap /\ Noted(h, event).owed = h.owed
           /\ Noted(h, event).last = h.last /\ Noted(h, event).before = h.before
           /\ Noted(h, event).event = event /\ Noted(h, event).told = {}
  BY DEF Noted, Histories

LEMMA AnnouncedFacts ==
    ASSUME NEW h \in Histories
    PROVE  /\ Announced(h) \in Histories
           /\ Announced(h).behind = 0 /\ Announced(h).heard = h.heard
           /\ Announced(h).gap = h.gap /\ Announced(h).owed = Channels
           /\ \A c \in Channels : Announced(h).last[c] = None /\ Announced(h).before[c] = None
           /\ Announced(h).event = h.event /\ Announced(h).told = h.told
<1>1. PICK none : none = [c \in Channels |-> None] OBVIOUS
<1>2. none \in [Channels -> Int] /\ \A c \in Channels : none[c] = None
  BY <1>1 DEF None
<1>3. PICK all \in SUBSET Channels : all = Channels OBVIOUS
<1>4. PICK zero \in Int : zero = 0 OBVIOUS
<1>5. Announced(h) =
        [h EXCEPT !.behind = zero, !.owed = all, !.last = none, !.before = none]
  BY <1>1, <1>3, <1>4 DEF Announced
<1>6. /\ Announced(h) \in Histories
      /\ Announced(h).behind = zero /\ Announced(h).heard = h.heard
      /\ Announced(h).gap = h.gap /\ Announced(h).owed = all
      /\ Announced(h).last = none /\ Announced(h).before = none
      /\ Announced(h).event = h.event /\ Announced(h).told = h.told
  BY <1>2, <1>5 DEF Histories
<1> QED BY <1>2, <1>3, <1>4, <1>6

(* The history g after a step from h, see StepNoted.                        *)
NotedStep(g, h, event, n, told, now) ==
    /\ g \in Histories
    /\ g.behind = h.behind /\ g.heard = h.heard + n /\ g.gap = h.gap
    /\ g.owed = h.owed \ told /\ g.event = event /\ g.told = told
    /\ \A c \in Channels :
         /\ g.last[c] = IF c \in told THEN now ELSE h.last[c]
         /\ g.before[c] = IF c \in told THEN h.last[c] ELSE h.before[c]

LEMMA StepNotedFacts ==
    ASSUME NEW h \in Histories, NEW event \in Events, NEW n \in Nat,
           NEW told \in SUBSET Channels, NEW now \in Int,
           NEW g, g = StepNoted(h, event, n, told, now)
    PROVE  NotedStep(g, h, event, n, told, now)
<1>0. /\ h.last \in [Channels -> Int] /\ h.before \in [Channels -> Int]
      /\ h.heard \in Nat /\ h.owed \in SUBSET Channels
  BY DEF Histories
<1>1. PICK last : last = [c \in Channels |-> IF c \in told THEN now ELSE h.last[c]] OBVIOUS
<1>2. PICK before : before = [c \in Channels |-> IF c \in told THEN h.last[c] ELSE h.before[c]]
  OBVIOUS
<1>3. PICK owed : owed = h.owed \ told OBVIOUS
<1>4. PICK heard : heard = h.heard + n OBVIOUS
<1>5. /\ last \in [Channels -> Int] /\ before \in [Channels -> Int]
      /\ heard \in Nat /\ owed \in SUBSET Channels
  BY <1>0, <1>1, <1>2, <1>3, <1>4
<1>6. StepNoted(h, event, n, told, now) =
        [h EXCEPT !.event = event, !.told = told, !.heard = heard, !.owed = owed,
                  !.before = before, !.last = last]
  BY <1>1, <1>2, <1>3, <1>4 DEF StepNoted
<1>7. /\ g \in Histories
      /\ g.behind = h.behind /\ g.heard = heard /\ g.gap = h.gap
      /\ g.owed = owed /\ g.event = event /\ g.told = told
      /\ g.last = last /\ g.before = before
  BY <1>5, <1>6 DEF Histories
<1> QED BY <1>1, <1>2, <1>3, <1>4, <1>7 DEF NotedStep

-----------------------------------------------------------------------------
(* The inductive invariant.                                                *)
Typed ==
    /\ profile \in Profiles \cup {NoProfile}
    /\ sim \in Sims
    /\ DOMAIN outputs \in SUBSET Channels
    /\ outputs \in [DOMAIN outputs -> Outputs]
    /\ recorder \in Recorders
    /\ files \in [Paths -> Int]
    /\ running \in BOOLEAN /\ paused \in BOOLEAN
    /\ lag \in Nat
    /\ seen \in [running : BOOLEAN, paused : BOOLEAN, path : Paths \cup {NoPath}]
    /\ hist \in Histories
    /\ running => profile # NoProfile

(* What is written on: an open file was opened by this recording, and the  *)
(* file of a run is open unless a start failed to open it.                 *)
Recording ==
    /\ recorder.state = "Open" => recorder.append
    /\ running /\ recorder # NoRecorder /\ ~hist.gap => recorder.state = "Open"

(* While the run is going, what is behind is what the clock has not used.  *)
Paced == lag <= MaxLag /\ (running /\ ~paused => hist.behind = lag)

(* An owed message is due, and the next one is due later than the last one *)
(* and more than a period later than the one before.                       *)
Scheduled ==
    running => \A c \in DOMAIN outputs :
        /\ c \in hist.owed => outputs[c].next_due <= sim.elapsed
        /\ hist.last[c] # None => outputs[c].next_due > hist.last[c]
        /\ hist.before[c] # None => outputs[c].next_due > hist.before[c] + Period[c]

IInv == /\ Typed /\ QuietWhenStopped /\ ObserversAgree /\ RecordingComplete
        /\ Recording /\ Paced /\ Scheduled

-----------------------------------------------------------------------------
(* What the handlers do to outputs, recorder and observers.                *)
LEMMA NoRecorderFacts ==
    /\ NoRecorder.path = NoPath /\ NoRecorder.state = "Closed" /\ ~NoRecorder.append
    /\ \A rec \in Recorders : rec # NoRecorder =>
          rec \in Recordings /\ rec.path \in Paths /\ rec.path # NoPath
    /\ \A rec \in Recorders : rec.path \in Paths \cup {NoPath} /\ rec.append \in BOOLEAN
<1>1. NoRecorder.path = NoPath /\ NoRecorder.state = "Closed" /\ NoRecorder.append = FALSE
  BY DEF NoRecorder
<1>2. NoPath \notin Paths BY ProfilesAssumption
<1>3. ASSUME NEW rec \in Recordings
      PROVE  rec.path \in Paths /\ rec.append \in BOOLEAN
  BY DEF Recordings
<1> QED BY <1>1, <1>2, <1>3 DEF Recorders

LEMMA ClosedFacts ==
    ASSUME NEW outs, DOMAIN outs \in SUBSET Channels, outs \in [DOMAIN outs -> Outputs]
    PROVE  /\ DOMAIN OutputsClosed(outs) = DOMAIN outs
           /\ OutputsClosed(outs) \in [DOMAIN outs -> Outputs]
           /\ \A c \in DOMAIN outs : OutputsClosed(outs)[c].state = "Closed"
<1>1. ASSUME NEW c \in DOMAIN outs
      PROVE  /\ OutputsClosed(outs)[c] \in Outputs
             /\ OutputsClosed(outs)[c].state = "Closed"
  <2>1. outs[c] \in Outputs OBVIOUS
  <2>2. OutputsClosed(outs)[c] = [outs[c] EXCEPT !.state = "Closed"]
    BY DEF OutputsClosed
  <2> QED BY <2>1, <2>2 DEF Outputs, States
<1>2. OutputsClosed(outs) = [c \in DOMAIN outs |-> OutputsClosed(outs)[c]]
  BY DEF OutputsClosed
<1> QED BY <1>1, <1>2

LEMMA OpenedFacts ==
    ASSUME NEW outs, DOMAIN outs \in SUBSET Channels, NEW now \in Int,
           NEW new \in OutputsOpened(outs, now)
    PROVE  /\ DOMAIN new = DOMAIN outs
           /\ new \in [DOMAIN outs -> Outputs]
           /\ \A c \in DOMAIN outs : new[c].next_due = now
<1>1. PICK f \in [DOMAIN outs -> States] :
        new = [c \in DOMAIN outs |-> [state |-> f[c], next_due |-> now]]
  BY DEF OutputsOpened
<1>2. ASSUME NEW c \in DOMAIN outs PROVE new[c] \in Outputs /\ new[c].next_due = now
  BY <1>1 DEF Outputs
<1> QED BY <1>1, <1>2

LEMMA RecorderClosedFacts ==
    ASSUME NEW rec \in Recorders
    PROVE  /\ RecorderClosed(rec) \in Recorders
           /\ RecorderClosed(rec).state = "Closed"
           /\ RecorderClosed(rec).append = rec.append
           /\ RecorderClosed(rec).path = rec.path
           /\ RecorderClosed(rec) = NoRecorder <=> rec = NoRecorder
<1>1. CASE rec = NoRecorder
  <2>1. RecorderClosed(rec) = NoRecorder
    <3>1. rec \in [path : {NoPath}, state : {"Closed"}, append : BOOLEAN]
      BY <1>1 DEF NoRecorder
    <3>2. RecorderClosed(rec) = [rec EXCEPT !.state = "Closed"] BY DEF RecorderClosed
    <3>3. [rec EXCEPT !.state = "Closed"] = rec BY <3>1
    <3> QED BY <1>1, <3>2, <3>3
  <2> QED BY <1>1, <2>1, NoRecorderFacts DEF Recorders
<1>2. CASE rec # NoRecorder
  <2>1. rec \in Recordings /\ rec.path # NoPath BY <1>2, NoRecorderFacts
  <2>2. /\ RecorderClosed(rec) \in Recordings
        /\ RecorderClosed(rec).state = "Closed"
        /\ RecorderClosed(rec).append = rec.append
        /\ RecorderClosed(rec).path = rec.path
    BY <2>1 DEF RecorderClosed, Recordings, States
  <2> QED BY <1>2, <2>1, <2>2, NoRecorderFacts DEF Recorders
<1> QED BY <1>1, <1>2

LEMMA RecorderOpenedFacts ==
    ASSUME NEW rec \in Recorders, NEW new \in RecorderOpened(rec)
    PROVE  /\ new \in Recorders
           /\ new.path = rec.path
           /\ new = NoRecorder <=> rec = NoRecorder
           /\ rec # NoRecorder => new.state \in {"Open", "Failed"}
           /\ new.state # "Open" => new.append = rec.append
           /\ new.state = "Open" => new.append \/ new = rec
<1>1. CASE rec = NoRecorder \/ rec.state = "Open"
  <2>1. new = rec BY <1>1 DEF RecorderOpened
  <2> QED BY <1>1, <2>1
<1>2. CASE rec # NoRecorder /\ rec.state # "Open"
  <2>1. rec \in Recordings /\ rec.path # NoPath BY <1>2, NoRecorderFacts
  <2>2. \/ new = [rec EXCEPT !.state = "Failed"]
        \/ new = [rec EXCEPT !.state = "Open", !.append = TRUE]
    BY <1>2 DEF RecorderOpened
  <2>3. CASE new = [rec EXCEPT !.state = "Failed"]
    <3>1. /\ new \in Recordings /\ new.path = rec.path /\ new.state = "Failed"
          /\ new.append = rec.append
      BY <2>1, <2>3 DEF Recordings, States
    <3> QED BY <1>2, <2>1, <3>1, NoRecorderFacts DEF Recorders
  <2>4. CASE new = [rec EXCEPT !.state = "Open", !.append = TRUE]
    <3>1. /\ new \in Recordings /\ new.path = rec.path /\ new.state = "Open"
          /\ new.append
      BY <2>1, <2>4 DEF Recordings, States
    <3> QED BY <1>2, <2>1, <3>1, NoRecorderFacts DEF Recorders
  <2> QED BY <2>2, <2>3, <2>4
<1> QED BY <1>1, <1>2

(* open(): only a file that was not written by this recording is emptied.  *)
LEMMA OnDiskFacts ==
    ASSUME NEW contents \in [Paths -> Int], NEW old \in Recorders, NEW new \in Recorders,
           new.path = old.path, new = NoRecorder <=> old = NoRecorder
    PROVE  /\ OnDisk(contents, old, new) \in [Paths -> Int]
           /\ old.append \/ new.state # "Open" => OnDisk(contents, old, new) = contents
           /\ old # NoRecorder /\ new.state = "Open" /\ ~old.append =>
                OnDisk(contents, old, new)[old.path] = 0
<1>1. CASE new.state = "Open" /\ ~old.append
  <2>1. OnDisk(contents, old, new) = [contents EXCEPT ![new.path] = 0]
    BY <1>1 DEF OnDisk
  <2> QED BY <1>1, <2>1, NoRecorderFacts
<1>2. CASE ~(new.state = "Open" /\ ~old.append)
  <2>1. OnDisk(contents, old, new) = contents BY <1>2 DEF OnDisk
  <2> QED BY <1>2, <2>1
<1> QED BY <1>1, <1>2

LEMMA RecordedFacts ==
    ASSUME NEW contents \in [Paths -> Int], NEW rec \in Recorders, NEW n \in Nat
    PROVE  /\ Recorded(contents, rec, n) \in [Paths -> Int]
           /\ rec.state = "Open" =>
                /\ rec \in Recordings
                /\ Recorded(contents, rec, n)[rec.path] = contents[rec.path] + n
<1>1. CASE rec.state = "Open"
  <2>1. rec \in Recordings /\ rec.path \in Paths BY <1>1, NoRecorderFacts
  <2>2. Recorded(contents, rec, n) = [contents EXCEPT ![rec.path] = @ + n]
    BY <1>1 DEF Recorded
  <2>3. contents[rec.path] \in Int BY <2>1
  <2> QED BY <2>1, <2>2, <2>3
<1>2. CASE rec.state # "Open" BY <1>2 DEF Recorded
<1> QED BY <1>1, <1>2

(* emit_state_messages(): who gets a message, and when the next is due.    *)
LEMMA MessagesFacts ==
    ASSUME NEW outs, DOMAIN outs \in SUBSET Channels, outs \in [DOMAIN outs -> Outputs],
           NEW now \in Int
    PROVE  /\ DueChannels(outs, now) \in SUBSET Channels
           /\ DueChannels(outs, now) \subseteq DOMAIN outs
           /\ DOMAIN MessagesSent(outs, now) = DOMAIN outs
           /\ MessagesSent(outs, now) \in [DOMAIN outs -> Outputs]
           /\ \A c \in DOMAIN outs :
                IF c \in DueChannels(outs, now)
                THEN /\ outs[c].next_due <= now
                     /\ MessagesSent(outs, now)[c].next_due > now
                     /\ MessagesSent(outs, now)[c].next_due >= outs[c].next_due + Period[c]
                ELSE MessagesSent(outs, now)[c] = outs[c]
<1> DEFINE sent == MessagesSent(outs, now)
           due == DueChannels(outs, now)
<1>1. due \in SUBSET Channels /\ due \subseteq DOMAIN outs BY DEF DueChannels
<1>2. ASSUME NEW c \in DOMAIN outs
      PROVE  /\ sent[c] \in Outputs
             /\ IF c \in due
                THEN /\ outs[c].next_due <= now
                     /\ sent[c].next_due > now
                     /\ sent[c].next_due >= outs[c].next_due + Period[c]
                ELSE sent[c] = outs[c]
  <2>1. outs[c] \in Outputs /\ outs[c].next_due \in Int BY DEF Outputs
  <2>2. Period[c] \in Nat \ {0} BY ChannelsAssumption
  <2>3. CASE c \in due
    <3>1. outs[c].next_due <= now BY <2>1, <2>3 DEF DueChannels
    <3>2. PICK next : next = NextDueAfter(outs[c].next_due, now, Period[c]) OBVIOUS
    <3>3. next \in Int /\ next > now /\ next >= outs[c].next_due + Period[c]
      BY <2>1, <2>2, <3>1, <3>2 DEF NextDueAfter
    <3>4. sent[c] = [outs[c] EXCEPT !.next_due = next]
      BY <2>3, <3>2 DEF MessagesSent
    <3>5. sent[c] \in Outputs /\ sent[c].next_due = next
      BY <2>1, <3>3, <3>4 DEF Outputs
    <3> QED BY <2>3, <3>1, <3>3, <3>5
  <2>4. CASE c \notin due BY <2>1, <2>4 DEF MessagesSent
  <2> QED BY <2>3, <2>4
<1>3. sent = [c \in DOMAIN outs |-> sent[c]] BY DEF MessagesSent
<1> QED BY <1>1, <1>2, <1>3

Seens == [running : BOOLEAN, paused : BOOLEAN, path : Paths \cup {NoPath}]

(* The signals of stop().                                                  *)
LEMMA StopSeenFacts ==
    ASSUME NEW s \in Seens, NEW r \in BOOLEAN, NEW p \in BOOLEAN,
           s.running => r, s.paused => p
    PROVE  StopSeen(s, r, p) = [running |-> FALSE, paused |-> FALSE, path |-> s.path]
<1>1. (s.running /\ ~r) = FALSE /\ (s.paused /\ ~p) = FALSE BY DEF Seens
<1>2. StopSeen(s, r, p) = [s EXCEPT !.running = FALSE, !.paused = FALSE]
  BY <1>1 DEF StopSeen
<1> QED BY <1>2 DEF Seens

-----------------------------------------------------------------------------
(* The values a step of the simulation starts from, for a run that is      *)
(* going: the outputs, the recorder, the files and the history.            *)
Ready(outs, rec, contents, h) ==
    /\ DOMAIN outs \in SUBSET Channels /\ outs \in [DOMAIN outs -> Outputs]
    /\ rec \in Recorders
    /\ contents \in [Paths -> Int]
    /\ h \in Histories
    /\ rec.state = "Open" => rec.append
    /\ rec # NoRecorder /\ ~h.gap =>
         rec.state = "Open" /\ contents[rec.path] = h.heard

OnSchedule(outs, h, now) ==
    \A c \in DOMAIN outs :
        /\ c \in h.owed => outs[c].next_due <= now
        /\ h.last[c] # None => outs[c].next_due > h.last[c]
        /\ h.before[c] # None => outs[c].next_due > h.before[c] + Period[c]

(* emit_sentences, emit_state_messages and finish_if_done.                 *)
Emitted(hold, outs, h, event) ==
    /\ Typed' /\ QuietWhenStopped' /\ ObserversAgree' /\ RecordingComplete'
    /\ Recording' /\ Scheduled'
    /\ hist'.behind = h.behind /\ hist'.event = event
    /\ running' => paused' = hold
    /\ \A c \in DOMAIN outs \cap h.owed :
         Carries[c] = "state" /\ outs[c].state = "Open" => c \in hist'.told
    /\ \A c \in hist'.told :
         h.before[c] # None => sim'.elapsed > h.before[c] + Period[c]

LEMMA EmitFacts ==
    ASSUME NEW s \in Sims, NEW n \in Nat, NEW hold \in BOOLEAN,
           NEW outs, NEW rec, NEW contents, NEW h, NEW event \in Events,
           Ready(outs, rec, contents, h), OnSchedule(outs, h, s.elapsed),
           NEW told_of, told_of = [running |-> TRUE, paused |-> hold, path |-> rec.path],
           EmitAndFinish(s, n, hold, outs, rec, contents, told_of, h, event),
           profile \in Profiles, profile' = profile, profile # NoProfile, lag' \in Nat
    PROVE  Emitted(hold, outs, h, event)
<1> DEFINE due == DueChannels(outs, s.elapsed)
           sent == MessagesSent(outs, s.elapsed)
           count == IF rec = NoRecorder THEN 0 ELSE n
<1>1. /\ sim' = s
      /\ files' = Recorded(contents, rec, n)
      /\ hist' = StepNoted(h, event, count, due, s.elapsed)
      /\ running' = ~s.finished
      /\ paused' = (hold /\ ~s.finished)
      /\ outputs' = IF s.finished THEN OutputsClosed(sent) ELSE sent
      /\ recorder' = IF s.finished THEN RecorderClosed(rec) ELSE rec
      /\ seen' = IF s.finished THEN StopSeen(told_of, TRUE, hold) ELSE told_of
  BY DEF EmitAndFinish
<1>2. /\ DOMAIN outs \in SUBSET Channels /\ outs \in [DOMAIN outs -> Outputs]
      /\ rec \in Recorders /\ contents \in [Paths -> Int] /\ h \in Histories
  BY DEF Ready
<1>3. s.elapsed \in Int /\ s.finished \in BOOLEAN BY DEF Sims
<1>4. /\ due \in SUBSET Channels
      /\ due \subseteq DOMAIN outs
      /\ DOMAIN sent = DOMAIN outs
      /\ sent \in [DOMAIN outs -> Outputs]
      /\ \A c \in DOMAIN outs :
           IF c \in due
           THEN /\ outs[c].next_due <= s.elapsed
                /\ sent[c].next_due > s.elapsed
                /\ sent[c].next_due >= outs[c].next_due + Period[c]
           ELSE sent[c] = outs[c]
  BY <1>2, <1>3, MessagesFacts
<1>5. count \in Nat OBVIOUS
<1>6. \A c \in DOMAIN outs :
        c \in due <=> /\ Carries[c] = "state" /\ outs[c].state = "Open"
                      /\ s.elapsed >= outs[c].next_due
  BY DEF DueChannels
<1> HIDE DEF due, sent, count
<1>7. /\ hist' \in Histories
      /\ hist'.behind = h.behind /\ hist'.heard = h.heard + count /\ hist'.gap = h.gap
      /\ hist'.owed = h.owed \ due /\ hist'.event = event /\ hist'.told = due
      /\ \A c \in Channels :
           /\ hist'.last[c] = IF c \in due THEN s.elapsed ELSE h.last[c]
           /\ hist'.before[c] = IF c \in due THEN h.last[c] ELSE h.before[c]
  <2>1. PICK d \in SUBSET Channels : d = due BY <1>4
  <2>2. PICK m \in Nat : m = count BY <1>5
  <2>3. PICK g : g = StepNoted(h, event, m, d, s.elapsed) OBVIOUS
  <2>4. NotedStep(g, h, event, m, d, s.elapsed)
    BY <1>2, <1>3, <2>1, <2>2, <2>3, StepNotedFacts, Zenon
  <2> QED BY <1>1, <2>1, <2>2, <2>3, <2>4 DEF NotedStep
<1>8. /\ DOMAIN OutputsClosed(sent) = DOMAIN sent
      /\ OutputsClosed(sent) \in [DOMAIN sent -> Outputs]
      /\ \A c \in DOMAIN sent : OutputsClosed(sent)[c].state = "Closed"
  <2>1. DOMAIN sent \in SUBSET Channels /\ sent \in [DOMAIN sent -> Outputs]
    BY <1>2, <1>4
  <2> QED BY <2>1, ClosedFacts
<1>9. DOMAIN outputs' = DOMAIN outs /\ outputs' \in [DOMAIN outs -> Outputs]
  BY <1>1, <1>4, <1>8
<1>10. /\ recorder' \in Recorders /\ recorder'.path = rec.path
       /\ recorder'.append = rec.append
       /\ recorder' = NoRecorder <=> rec = NoRecorder
       /\ running' => recorder' = rec
       /\ ~running' => recorder'.state = "Closed"
  BY <1>1, <1>2, RecorderClosedFacts
<1>11. rec.path \in Paths \cup {NoPath} BY <1>2, NoRecorderFacts
<1>12. seen' = [running |-> running', paused |-> paused', path |-> recorder'.path]
  <2>1. told_of \in Seens /\ told_of.path = rec.path BY <1>11 DEF Seens
  <2>2. CASE s.finished
    <3>1. StopSeen(told_of, TRUE, hold) =
            [running |-> FALSE, paused |-> FALSE, path |-> told_of.path]
      BY <2>1, StopSeenFacts
    <3>2. running' = FALSE /\ paused' = FALSE BY <1>1, <2>2
    <3> QED BY <1>1, <1>10, <2>1, <2>2, <3>1, <3>2
  <2>3. CASE ~s.finished
    <3>1. running' = TRUE /\ paused' = hold BY <1>1, <2>3
    <3> QED BY <1>1, <1>10, <2>3, <3>1
  <2> QED BY <2>2, <2>3
<1>13. Recorded(contents, rec, n) \in [Paths -> Int] BY <1>2, RecordedFacts
<1>14. Typed'
  <2>1. running' \in BOOLEAN /\ paused' \in BOOLEAN BY <1>1
  <2>2. seen' \in [running : BOOLEAN, paused : BOOLEAN, path : Paths \cup {NoPath}]
    BY <1>10, <1>11, <1>12, <2>1
  <2> QED BY <1>1, <1>2, <1>7, <1>9, <1>10, <1>13, <2>1, <2>2 DEF Typed
<1>15. QuietWhenStopped'
  <2> SUFFICES ASSUME ~running'
               PROVE  /\ ~paused' /\ recorder'.state = "Closed"
                      /\ \A c \in DOMAIN outputs' : outputs'[c].state = "Closed"
    BY DEF QuietWhenStopped
  <2>1. s.finished BY <1>1
  <2> QED BY <2>1, <1>1, <1>8, <1>10
<1>16. ObserversAgree' BY <1>12 DEF ObserversAgree
<1>17. RecordingComplete'
  <2> SUFFICES ASSUME recorder' # NoRecorder, ~hist'.gap
               PROVE  recorder'.append /\ files'[recorder'.path] = hist'.heard
    BY DEF RecordingComplete
  <2>1. rec # NoRecorder /\ ~h.gap BY <1>7, <1>10
  <2>2. rec.state = "Open" /\ rec.append /\ contents[rec.path] = h.heard
    BY <2>1 DEF Ready
  <2>3. files'[rec.path] = contents[rec.path] + n BY <1>1, <1>2, <2>2, RecordedFacts
  <2>4. count = n BY <2>1 DEF count
  <2> QED BY <1>7, <1>10, <2>2, <2>3, <2>4
<1>18. Recording'
  <2>1. recorder'.state = "Open" => recorder'.append BY <1>10 DEF Ready
  <2>2. running' /\ recorder' # NoRecorder /\ ~hist'.gap => recorder'.state = "Open"
    BY <1>7, <1>10 DEF Ready
  <2> QED BY <2>1, <2>2 DEF Recording
<1>19. Scheduled'
  <2> SUFFICES ASSUME running', NEW c \in DOMAIN outputs'
               PROVE  /\ c \in hist'.owed => outputs'[c].next_due <= sim'.elapsed
                      /\ hist'.last[c] # None => outputs'[c].next_due > hist'.last[c]
                      /\ hist'.before[c] # None =>
                           outputs'[c].next_due > hist'.before[c] + Period[c]
    BY DEF Scheduled
  <2>1. outputs' = sent BY <1>1
  <2>2. c \in DOMAIN outs /\ c \in Channels BY <1>2, <1>9
  <2>3. /\ h.last[c] \in Int /\ h.before[c] \in Int /\ Period[c] \in Int
        /\ outs[c].next_due \in Int /\ sent[c].next_due \in Int
    BY <1>2, <1>4, <2>2, ChannelsAssumption DEF Histories, Outputs
  <2>4. /\ c \in h.owed => outs[c].next_due <= s.elapsed
        /\ h.last[c] # None => outs[c].next_due > h.last[c]
        /\ h.before[c] # None => outs[c].next_due > h.before[c] + Period[c]
    BY <2>2 DEF OnSchedule
  <2>5. CASE c \in due
    <3>1. c \notin hist'.owed /\ hist'.last[c] = s.elapsed /\ hist'.before[c] = h.last[c]
      BY <1>7, <2>2, <2>5
    <3>2. /\ sent[c].next_due > s.elapsed
          /\ sent[c].next_due >= outs[c].next_due + Period[c]
      BY <1>4, <2>2, <2>5
    <3> QED BY <1>3, <2>1, <2>3, <2>4, <3>1, <3>2
  <2>6. CASE c \notin due
    <3>1. /\ c \in hist'.owed => c \in h.owed
          /\ hist'.last[c] = h.last[c] /\ hist'.before[c] = h.before[c]
      BY <1>7, <2>2, <2>6
    <3>2. sent[c] = outs[c] BY <1>4, <2>2, <2>6
    <3> QED BY <1>1, <2>1, <2>4, <3>1, <3>2
  <2> QED BY <2>5, <2>6
<1>20. ASSUME NEW c \in DOMAIN outs \cap h.owed, Carries[c] = "state", outs[c].state = "Open"
       PROVE  c \in hist'.told
  <2>1. outs[c].next_due <= s.elapsed /\ outs[c].next_due \in Int
    BY <1>2 DEF OnSchedule, Outputs
  <2> QED BY <1>3, <1>6, <1>7, <1>20, <2>1
<1>21. ASSUME NEW c \in hist'.told, h.before[c] # None
       PROVE  sim'.elapsed > h.before[c] + Period[c]
  <2>1. c \in due /\ c \in DOMAIN outs /\ c \in Channels BY <1>2, <1>4, <1>7
  <2>2. outs[c].next_due <= s.elapsed BY <1>4, <2>1
  <2>3. outs[c].next_due > h.before[c] + Period[c] BY <1>21, <2>1 DEF OnSchedule
  <2>4. /\ h.before[c] \in Int /\ Period[c] \in Int /\ outs[c].next_due \in Int
    BY <1>2, <2>1, ChannelsAssumption DEF Histories, Outputs
  <2> QED BY <1>1, <1>3, <2>2, <2>3, <2>4
<1> QED
  BY <1>1, <1>7, <1>14, <1>15, <1>16, <1>17, <1>18, <1>19, <1>20, <1>21 DEF Emitted

-----------------------------------------------------------------------------
(* Opening what a run needs, from a runner that is stopped: start() and    *)
(* the step() of a run that is not going.                                  *)
Opened(outs, rec, g, h) ==
    /\ Ready(outs, rec, OnDisk(files, recorder, rec), h)
    /\ OnSchedule(outs, h, sim.elapsed)
    /\ DOMAIN outs = DOMAIN outputs
    /\ rec.path = recorder.path
    /\ h \in Histories /\ h.behind = 0 /\ h.event = g.event /\ h.told = g.told

LEMMA OpeningFacts ==
    ASSUME IInv, ~running, NEW g \in Histories, g.heard = hist.heard, g.gap = hist.gap,
           NEW outs \in OutputsOpened(outputs, sim.elapsed),
           NEW rec \in RecorderOpened(recorder),
           NEW h, h = [Announced(g) EXCEPT !.gap = @ \/ rec.state = "Failed"]
    PROVE  Opened(outs, rec, g, h)
<1>1. /\ sim.elapsed \in Int /\ DOMAIN outputs \in SUBSET Channels
      /\ recorder \in Recorders /\ files \in [Paths -> Int] /\ hist \in Histories
      /\ hist.gap \in BOOLEAN
  BY DEF IInv, Typed, Sims, Histories
<1>2. /\ DOMAIN outs = DOMAIN outputs /\ outs \in [DOMAIN outputs -> Outputs]
      /\ \A c \in DOMAIN outputs : outs[c].next_due = sim.elapsed
  BY <1>1, OpenedFacts
<1>3. /\ rec \in Recorders /\ rec.path = recorder.path
      /\ rec = NoRecorder <=> recorder = NoRecorder
      /\ recorder # NoRecorder => rec.state \in {"Open", "Failed"}
      /\ rec.state # "Open" => rec.append = recorder.append
      /\ rec.state = "Open" => rec.append \/ rec = recorder
  BY <1>1, RecorderOpenedFacts
<1>4. recorder.state = "Closed" BY DEF IInv, QuietWhenStopped
<1>5. rec.state = "Open" => rec.append BY <1>3, <1>4
<1>6. /\ h \in Histories
      /\ h.behind = 0 /\ h.heard = hist.heard
      /\ h.gap = (hist.gap \/ rec.state = "Failed")
      /\ \A c \in Channels : h.last[c] = None /\ h.before[c] = None
      /\ h.event = g.event /\ h.told = g.told
  <2>1. PICK a \in Histories : a = Announced(g) BY AnnouncedFacts
  <2>2. /\ a.behind = 0 /\ a.heard = g.heard /\ a.gap = g.gap
        /\ \A c \in Channels : a.last[c] = None /\ a.before[c] = None
        /\ a.event = g.event /\ a.told = g.told
    BY <2>1, AnnouncedFacts
  <2>3. PICK gap \in BOOLEAN : gap = (a.gap \/ rec.state = "Failed") OBVIOUS
  <2>4. h = [a EXCEPT !.gap = gap] BY <2>1, <2>3, Zenon
  <2>5. /\ h \in Histories /\ h.behind = a.behind /\ h.heard = a.heard
        /\ h.gap = gap /\ h.last = a.last /\ h.before = a.before
        /\ h.event = a.event /\ h.told = a.told
    BY <2>1, <2>3, <2>4 DEF Histories
  <2> QED BY <2>2, <2>3, <2>5
<1>7. /\ OnDisk(files, recorder, rec) \in [Paths -> Int]
      /\ recorder.append \/ rec.state # "Open" =>
           OnDisk(files, recorder, rec) = files
      /\ recorder # NoRecorder /\ rec.state = "Open" /\ ~recorder.append =>
           OnDisk(files, recorder, rec)[recorder.path] = 0
  BY <1>1, <1>3, OnDiskFacts
<1>8. ASSUME rec # NoRecorder, ~h.gap
      PROVE  rec.state = "Open" /\ OnDisk(files, recorder, rec)[rec.path] = h.heard
  <2>1. rec.state = "Open" /\ recorder # NoRecorder /\ ~hist.gap
    BY <1>3, <1>6, <1>8
  <2>2. IF recorder.append THEN files[recorder.path] = hist.heard ELSE hist.heard = 0
    BY <2>1 DEF IInv, RecordingComplete
  <2> QED BY <1>3, <1>6, <1>7, <2>1, <2>2
<1>9. Ready(outs, rec, OnDisk(files, recorder, rec), h)
  BY <1>1, <1>2, <1>3, <1>5, <1>6, <1>7, <1>8 DEF Ready
<1>10. OnSchedule(outs, h, sim.elapsed)
  BY <1>1, <1>2, <1>6 DEF OnSchedule
<1> QED BY <1>2, <1>3, <1>6, <1>9, <1>10 DEF Opened

-----------------------------------------------------------------------------
(* Every action preserves the invariant and keeps both promises about time.*)
Pace == hist'.event = "tick" =>
          IF hist.behind < MaxLag
          THEN hist'.behind \in 0 .. Sub - 1
          ELSE sim'.elapsed = sim.elapsed + MaxStep

Messages ==
    running =>
      /\ hist'.event \in {"tick", "step"} =>
           \A c \in DOMAIN outputs \cap hist.owed :
             Carries[c] = "state" /\ outputs[c].state = "Open" => c \in hist'.told
      /\ \A c \in hist'.told :
           hist.before[c] # None => sim'.elapsed > hist.before[c] + Period[c]

Kept == IInv' /\ Pace /\ Messages

(* An action that is no step of the simulation promises nothing new.       *)
LEMMA OtherFacts ==
    ASSUME hist'.event \in {"request", "other"}, hist'.told = {}
    PROVE  Pace /\ Messages
  BY DEF Pace, Messages

LEMMA RequestFacts ==
    ASSUME hist \in Histories, NEW event \in {"request", "other"},
           hist' = Noted(hist, event)
    PROVE  /\ hist' \in Histories
           /\ hist'.behind = hist.behind /\ hist'.heard = hist.heard
           /\ hist'.gap = hist.gap /\ hist'.owed = hist.owed
           /\ hist'.last = hist.last /\ hist'.before = hist.before
           /\ hist'.event = event /\ hist'.told = {}
<1>1. PICK e \in Events : e = event BY DEF Events
<1>2. PICK h \in Histories : h = hist OBVIOUS
<1>3. /\ Noted(h, e) \in Histories
      /\ Noted(h, e).behind = h.behind /\ Noted(h, e).heard = h.heard
      /\ Noted(h, e).gap = h.gap /\ Noted(h, e).owed = h.owed
      /\ Noted(h, e).last = h.last /\ Noted(h, e).before = h.before
      /\ Noted(h, e).event = e /\ Noted(h, e).told = {}
  BY <1>1, <1>2, NotedFacts
<1>4. hist' = Noted(h, e) BY <1>1, <1>2
<1> QED BY <1>1, <1>2, <1>3, <1>4, Zenon

LEMMA ChosenFacts ==
    ASSUME hist \in Histories,
           hist' = [Noted(hist, "request") EXCEPT !.heard = 0, !.gap = FALSE]
    PROVE  /\ hist' \in Histories /\ hist'.heard = 0 /\ hist'.gap = FALSE
           /\ hist'.behind = hist.behind /\ hist'.owed = hist.owed
           /\ hist'.last = hist.last /\ hist'.before = hist.before
           /\ hist'.event = "request" /\ hist'.told = {}
<1>1. "request" \in Events BY DEF Events
<1>2. PICK g : g = Noted(hist, "request") OBVIOUS
<1>3. /\ g \in Histories /\ g.behind = hist.behind /\ g.owed = hist.owed
      /\ g.last = hist.last /\ g.before = hist.before
      /\ g.event = "request" /\ g.told = {}
  BY <1>1, <1>2, NotedFacts, Zenon
<1>4. PICK none \in Nat : none = 0 OBVIOUS
<1>5. PICK no \in BOOLEAN : no = FALSE OBVIOUS
<1>6. hist' = [g EXCEPT !.heard = none, !.gap = no] BY <1>2, <1>4, <1>5, Zenon
<1>7. /\ hist' \in Histories /\ hist'.heard = none /\ hist'.gap = no
      /\ hist'.behind = g.behind /\ hist'.owed = g.owed
      /\ hist'.last = g.last /\ hist'.before = g.before
      /\ hist'.event = g.event /\ hist'.told = g.told
  BY <1>3, <1>4, <1>5, <1>6 DEF Histories
<1> QED BY <1>3, <1>4, <1>5, <1>7

LEMMA SignalFacts ==
    ASSUME NEW s, NEW a, NEW b, NEW c, s = [running |-> a, paused |-> b, path |-> c],
           NEW d
    PROVE  /\ [s EXCEPT !.running = d] = [running |-> d, paused |-> b, path |-> c]
           /\ [s EXCEPT !.paused = d] = [running |-> a, paused |-> d, path |-> c]
           /\ [s EXCEPT !.path = d] = [running |-> a, paused |-> b, path |-> d]
  OBVIOUS

LEMMA InitInv == Init => IInv
<1> SUFFICES ASSUME Init PROVE IInv OBVIOUS
<1>1. PICK none : none = [c \in Channels |-> None] OBVIOUS
<1>2. none \in [Channels -> Int] /\ \A c \in Channels : none[c] = None
  BY <1>1 DEF None
<1>3. hist \in Histories /\ hist.heard = 0
  <2>1. hist = [behind |-> 0, heard |-> 0, gap |-> FALSE, owed |-> Channels,
                last |-> none, before |-> none, event |-> "other", told |-> {}]
    BY <1>1 DEF Init
  <2>2. PICK all \in SUBSET Channels : all = Channels OBVIOUS
  <2>3. PICK nobody \in SUBSET Channels : nobody = {} OBVIOUS
  <2>4. hist = [behind |-> 0, heard |-> 0, gap |-> FALSE, owed |-> all,
                last |-> none, before |-> none, event |-> "other", told |-> nobody]
    BY <2>1, <2>2, <2>3, Zenon
  <2>5. \A e \in Events :
          [behind |-> 0, heard |-> 0, gap |-> FALSE, owed |-> all,
           last |-> none, before |-> none, event |-> e, told |-> nobody] \in Histories
    BY <1>2, <2>2, <2>3 DEF Histories
  <2>6. hist.heard = 0 BY <2>4
  <2>7. "other" \in Events BY DEF Events
  <2> QED BY <2>4, <2>5, <2>6, <2>7, Zenon
<1>4. DOMAIN outputs = {} BY DEF Init
<1>5. outputs \in [DOMAIN outputs -> Outputs] BY DEF Init
<1>6. recorder = NoRecorder BY DEF Init
<1>7. sim \in Sims BY DEF Init, Sims
<1>8. files \in [Paths -> Int] BY DEF Init
<1>9. seen \in [running : BOOLEAN, paused : BOOLEAN, path : Paths \cup {NoPath}]
  BY DEF Init
<1>10. Typed
  BY <1>3, <1>4, <1>5, <1>6, <1>7, <1>8, <1>9 DEF Typed, Init, Recorders
<1>11. QuietWhenStopped
  BY <1>4, <1>6, NoRecorderFacts DEF QuietWhenStopped, Init
<1>12. ObserversAgree BY <1>6, NoRecorderFacts DEF ObserversAgree, Init
<1>13. RecordingComplete BY <1>6 DEF RecordingComplete
<1>14. Recording BY <1>6, NoRecorderFacts DEF Recording
<1>15. Paced BY NumbersAssumption DEF Paced, MaxLag, Init
<1>16. Scheduled BY DEF Scheduled, Init
<1> QED BY <1>10, <1>11, <1>12, <1>13, <1>14, <1>15, <1>16 DEF IInv

(* stop(), by itself and as the beginning of apply_profile().              *)
LEMMA StoppedFacts ==
    ASSUME IInv, Stopped, hist' = Noted(hist, "request"), files' = files, lag' = lag,
           profile' \in Profiles \cup {NoProfile}, sim' \in Sims,
           DOMAIN outputs' \in SUBSET Channels, outputs' \in [DOMAIN outputs' -> Outputs],
           \A c \in DOMAIN outputs' : outputs'[c].state = "Closed"
    PROVE  Kept
<1>1. running' = FALSE /\ paused' = FALSE BY DEF Stopped
<1>2. recorder \in Recorders /\ hist \in Histories BY DEF IInv, Typed
<1>3. /\ recorder' \in Recorders /\ recorder'.state = "Closed"
      /\ recorder'.append = recorder.append /\ recorder'.path = recorder.path
      /\ recorder' = NoRecorder <=> recorder = NoRecorder
  BY <1>2, RecorderClosedFacts DEF Stopped
<1>5. /\ hist' \in Histories /\ hist'.heard = hist.heard /\ hist'.gap = hist.gap
      /\ hist'.event = "request" /\ hist'.told = {}
  BY <1>2, RequestFacts
<1>6. seen' = [running |-> FALSE, paused |-> FALSE, path |-> recorder.path]
  <2>1. seen = [running |-> running, paused |-> paused, path |-> recorder.path]
    BY DEF IInv, ObserversAgree
  <2>2. running \in BOOLEAN /\ paused \in BOOLEAN /\ seen \in Seens
    BY DEF IInv, Typed, Seens
  <2>3. seen' = StopSeen(seen, running, paused) BY DEF Stopped
  <2>4. seen.path = recorder.path /\ seen.running = running /\ seen.paused = paused
    BY <2>1
  <2> QED BY <2>2, <2>3, <2>4, StopSeenFacts
<1>7. recorder.path \in Paths \cup {NoPath} BY <1>2, NoRecorderFacts
<1>8. Typed'
  <2>1. seen' \in [running : BOOLEAN, paused : BOOLEAN, path : Paths \cup {NoPath}]
    BY <1>6, <1>7
  <2> QED BY <1>1, <1>3, <1>5, <2>1 DEF IInv, Typed
<1>9. QuietWhenStopped' BY <1>1, <1>3 DEF QuietWhenStopped
<1>10. ObserversAgree' BY <1>1, <1>3, <1>6 DEF ObserversAgree
<1>11. RecordingComplete' BY <1>3, <1>5 DEF IInv, RecordingComplete
<1>12. Recording' BY <1>1, <1>3 DEF Recording
<1>13. Paced' BY <1>1 DEF IInv, Paced
<1>14. Scheduled' BY <1>1 DEF Scheduled
<1>15. IInv' BY <1>8, <1>9, <1>10, <1>11, <1>12, <1>13, <1>14 DEF IInv
<1> QED BY <1>5, <1>15, OtherFacts DEF Kept

LEMMA StopInv == ASSUME IInv, Stop PROVE Kept
<1>1. Stopped /\ hist' = Noted(hist, "request") BY DEF Stop
<1>2. /\ DOMAIN outputs \in SUBSET Channels /\ outputs \in [DOMAIN outputs -> Outputs]
      /\ profile \in Profiles \cup {NoProfile} /\ sim \in Sims
  BY DEF IInv, Typed
<1>3. outputs' = OutputsClosed(outputs) /\ UNCHANGED <<profile, sim, files, lag>> BY DEF Stop
<1>4. /\ DOMAIN outputs' = DOMAIN outputs /\ outputs' \in [DOMAIN outputs -> Outputs]
      /\ \A c \in DOMAIN outputs : outputs'[c].state = "Closed"
  BY <1>2, <1>3, ClosedFacts
<1> QED BY <1>1, <1>2, <1>3, <1>4, StoppedFacts

LEMMA ApplyProfileInv ==
    ASSUME IInv, NEW p \in Profiles, ApplyProfile(p) PROVE Kept
<1>1. /\ Stopped /\ hist' = Noted(hist, "request") /\ files' = files /\ lag' = lag
      /\ profile' = p /\ sim' = [elapsed |-> 0, position |-> 0, finished |-> FALSE]
      /\ outputs' = [c \in p.outputs |-> [state |-> "Closed", next_due |-> 0]]
  BY DEF ApplyProfile
<1>2. p.outputs \in SUBSET Channels BY ProfilesAssumption DEF Profile
<1>3. sim' \in Sims BY <1>1 DEF Sims
<1>4. \A c \in p.outputs : outputs'[c] \in Outputs /\ outputs'[c].state = "Closed"
  BY <1>1 DEF Outputs, States
<1>5. DOMAIN outputs' = p.outputs /\ outputs' \in [p.outputs -> Outputs]
  BY <1>1, <1>4
<1> QED BY <1>1, <1>2, <1>3, <1>4, <1>5, StoppedFacts

LEMMA PauseInv == ASSUME IInv, Pause PROVE Kept
<1>1. /\ running = TRUE /\ paused = FALSE /\ running' = TRUE /\ paused' = TRUE
      /\ seen' = PauseSeen(seen, paused) /\ hist' = Noted(hist, "request")
      /\ UNCHANGED <<profile, sim, outputs, recorder, files, running, lag>>
  BY DEF Pause, IInv, Typed
<1>2. hist \in Histories BY DEF IInv, Typed
<1>3. /\ hist' \in Histories
      /\ hist'.heard = hist.heard /\ hist'.gap = hist.gap /\ hist'.owed = hist.owed
      /\ hist'.last = hist.last /\ hist'.before = hist.before
      /\ hist'.event = "request" /\ hist'.told = {}
  BY <1>1, <1>2, RequestFacts
<1>4. seen' = [running |-> running', paused |-> paused', path |-> recorder'.path]
  <2>1. seen = [running |-> running, paused |-> paused, path |-> recorder.path]
    BY DEF IInv, ObserversAgree
  <2>2. (seen.paused \/ ~paused) = TRUE BY <1>1
  <2>3. seen' = [seen EXCEPT !.paused = TRUE] BY <1>1, <2>2, Zenon DEF PauseSeen
  <2> QED BY <1>1, <2>1, <2>3
<1>5. recorder.path \in Paths \cup {NoPath} BY NoRecorderFacts DEF IInv, Typed
<1>6. Typed'
  <2>1. seen' \in [running : BOOLEAN, paused : BOOLEAN, path : Paths \cup {NoPath}]
    BY <1>1, <1>4, <1>5
  <2> QED BY <1>1, <1>3, <2>1 DEF IInv, Typed
<1>7. QuietWhenStopped' BY <1>1 DEF QuietWhenStopped
<1>8. ObserversAgree' BY <1>4 DEF ObserversAgree
<1>9. RecordingComplete' /\ Recording'
  BY <1>1, <1>3 DEF IInv, RecordingComplete, Recording
<1>10. Paced' BY <1>1 DEF IInv, Paced
<1>11. Scheduled' BY <1>1, <1>3 DEF IInv, Scheduled
<1> QED BY <1>3, <1>6, <1>7, <1>8, <1>9, <1>10, <1>11, OtherFacts DEF Kept, IInv

LEMMA ResumeInv == ASSUME IInv, Resume PROVE Kept
<1>1. /\ running = TRUE /\ paused = TRUE /\ running' = TRUE /\ paused' = FALSE
      /\ lag' = 0 /\ seen' = [seen EXCEPT !.paused = FALSE]
      /\ hist' = [Noted(hist, "request") EXCEPT !.behind = 0]
      /\ UNCHANGED <<profile, sim, outputs, recorder, files, running>>
  BY DEF Resume, IInv, Typed
<1>2. hist \in Histories BY DEF IInv, Typed
<1>3. /\ hist' \in Histories /\ hist'.behind = 0
      /\ hist'.heard = hist.heard /\ hist'.gap = hist.gap /\ hist'.owed = hist.owed
      /\ hist'.last = hist.last /\ hist'.before = hist.before
      /\ hist'.event = "request" /\ hist'.told = {}
  <2>1. "request" \in Events BY DEF Events
  <2>2. PICK g : g = Noted(hist, "request") OBVIOUS
  <2>3. /\ g \in Histories
        /\ g.heard = hist.heard /\ g.gap = hist.gap /\ g.owed = hist.owed
        /\ g.last = hist.last /\ g.before = hist.before
        /\ g.event = "request" /\ g.told = {}
    BY <1>2, <2>1, <2>2, NotedFacts, Zenon
  <2>4. hist' = [g EXCEPT !.behind = 0] BY <1>1, <2>2
  <2> QED BY <2>3, <2>4 DEF Histories
<1>4. seen' = [running |-> running', paused |-> paused', path |-> recorder'.path]
  <2>1. seen = [running |-> running, paused |-> paused, path |-> recorder.path]
    BY DEF IInv, ObserversAgree
  <2>2. seen' = [seen EXCEPT !.paused = FALSE] BY <1>1
  <2>4. seen' = [running |-> running, paused |-> FALSE, path |-> recorder.path]
    BY <2>1, <2>2, SignalFacts, Zenon
  <2>3. running' = running /\ paused' = FALSE /\ recorder' = recorder BY <1>1
  <2> QED BY <2>3, <2>4, Zenon
<1>5. recorder.path \in Paths \cup {NoPath} BY NoRecorderFacts DEF IInv, Typed
<1>6. Typed'
  <2>0. running' \in BOOLEAN /\ paused' \in BOOLEAN /\ recorder' = recorder BY <1>1
  <2>1. seen' \in [running : BOOLEAN, paused : BOOLEAN, path : Paths \cup {NoPath}]
    BY <1>4, <1>5, <2>0
  <2> QED BY <1>1, <1>3, <2>1 DEF IInv, Typed
<1>7. QuietWhenStopped' BY <1>1 DEF QuietWhenStopped
<1>8. ObserversAgree' BY <1>4 DEF ObserversAgree
<1>9. RecordingComplete' /\ Recording'
  BY <1>1, <1>3 DEF IInv, RecordingComplete, Recording
<1>10. Paced' BY <1>1, <1>3, NumbersAssumption DEF Paced, MaxLag
<1>11. Scheduled' BY <1>1, <1>3 DEF IInv, Scheduled
<1> QED BY <1>3, <1>6, <1>7, <1>8, <1>9, <1>10, <1>11, OtherFacts DEF Kept, IInv

LEMMA SeekInv == ASSUME IInv, NEW to \in Positions, Seek(to) PROVE Kept
<1>1. /\ profile # NoProfile /\ sim' = SeekTo(sim, to)
      /\ outputs' = [c \in DOMAIN outputs |->
                        [outputs[c] EXCEPT !.next_due = sim.elapsed]]
      /\ lag' = 0 /\ hist' = Announced(Noted(hist, "request"))
      /\ UNCHANGED <<profile, recorder, files, running, paused, seen>>
  BY DEF Seek
<1>2. /\ hist \in Histories /\ sim \in Sims /\ DOMAIN outputs \in SUBSET Channels
      /\ outputs \in [DOMAIN outputs -> Outputs] /\ profile \in Profile
  BY <1>1, ProfilesAssumption DEF IInv, Typed
<1>3. /\ hist' \in Histories /\ hist'.behind = 0
      /\ hist'.heard = hist.heard /\ hist'.gap = hist.gap
      /\ \A c \in Channels : hist'.last[c] = None /\ hist'.before[c] = None
      /\ hist'.event = "request" /\ hist'.told = {}
  <2>1. "request" \in Events BY DEF Events
  <2>2. PICK g : g = Noted(hist, "request") OBVIOUS
  <2>3. /\ g \in Histories
        /\ g.heard = hist.heard /\ g.gap = hist.gap
        /\ g.event = "request" /\ g.told = {}
    BY <1>2, <2>1, <2>2, NotedFacts, Zenon
  <2>4. hist' = Announced(g) BY <1>1, <2>2
  <2> QED BY <2>3, <2>4, AnnouncedFacts, Zenon
<1>4. sim' \in Sims /\ sim'.elapsed = sim.elapsed
  <2>1. PICK p : p = IF Finite THEN Smaller(to, profile.duration) ELSE 0 OBVIOUS
  <2>2. p \in Int BY <1>2, <2>1, NumbersAssumption DEF Smaller, Profile
  <2>3. PICK f \in BOOLEAN : f = (Stops /\ p = profile.duration) OBVIOUS
  <2>4. sim' = [sim EXCEPT !.position = p, !.finished = f]
    BY <1>1, <2>1, <2>3 DEF SeekTo
  <2> QED BY <1>2, <2>2, <2>3, <2>4 DEF Sims
<1>5. /\ DOMAIN outputs' = DOMAIN outputs /\ outputs' \in [DOMAIN outputs -> Outputs]
      /\ \A c \in DOMAIN outputs : /\ outputs'[c].state = outputs[c].state
                                   /\ outputs'[c].next_due = sim.elapsed
  <2>1. sim.elapsed \in Int BY <1>2 DEF Sims
  <2>2. ASSUME NEW c \in DOMAIN outputs
        PROVE  /\ outputs'[c] \in Outputs /\ outputs'[c].state = outputs[c].state
               /\ outputs'[c].next_due = sim.elapsed
    <3>1. outputs[c] \in Outputs BY <1>2
    <3>2. outputs'[c] = [outputs[c] EXCEPT !.next_due = sim.elapsed] BY <1>1
    <3> QED BY <2>1, <3>1, <3>2 DEF Outputs
  <2> QED BY <1>1, <2>2
<1>6. Typed' BY <1>1, <1>2, <1>3, <1>4, <1>5 DEF IInv, Typed
<1>7. QuietWhenStopped' BY <1>1, <1>5 DEF IInv, QuietWhenStopped
<1>8. ObserversAgree' BY <1>1 DEF IInv, ObserversAgree
<1>9. RecordingComplete' /\ Recording'
  BY <1>1, <1>3 DEF IInv, RecordingComplete, Recording
<1>10. Paced' BY <1>1, <1>3, NumbersAssumption DEF Paced, MaxLag
<1>11. Scheduled'
  <2>1. sim.elapsed \in Int BY <1>2 DEF Sims
  <2> QED BY <1>2, <1>3, <1>4, <1>5, <2>1 DEF Scheduled
<1> QED BY <1>3, <1>6, <1>7, <1>8, <1>9, <1>10, <1>11, OtherFacts DEF Kept, IInv

LEMMA SetRecordingInv == ASSUME IInv, NEW path \in Paths, SetRecording(path) PROVE Kept
<1>1. /\ recorder' = [path |-> path, state |-> IF running THEN "Open" ELSE "Closed",
                      append |-> running]
      /\ files' = IF running THEN [files EXCEPT ![path] = 0] ELSE files
      /\ seen' = [seen EXCEPT !.path = path]
      /\ hist' = [Noted(hist, "request") EXCEPT !.heard = 0, !.gap = FALSE]
      /\ UNCHANGED <<profile, sim, outputs, running, paused, lag>>
  BY DEF SetRecording, run
<1>2. hist \in Histories /\ running \in BOOLEAN /\ files \in [Paths -> Int]
  BY DEF IInv, Typed
<1>3. /\ hist' \in Histories /\ hist'.heard = 0 /\ hist'.gap = FALSE
      /\ hist'.behind = hist.behind /\ hist'.owed = hist.owed
      /\ hist'.last = hist.last /\ hist'.before = hist.before
      /\ hist'.event = "request" /\ hist'.told = {}
  BY <1>1, <1>2, ChosenFacts
<1>4. /\ recorder' \in Recorders /\ recorder'.path = path /\ recorder'.append = running
      /\ running => recorder'.state = "Open" /\ files'[path] = 0
      /\ ~running => recorder'.state = "Closed"
      /\ files' \in [Paths -> Int]
  BY <1>1, <1>2 DEF Recorders, Recordings, States
<1>5. seen' = [running |-> running', paused |-> paused', path |-> recorder'.path]
  <2>1. seen = [running |-> running, paused |-> paused, path |-> recorder.path]
    BY DEF IInv, ObserversAgree
  <2>2. seen' = [seen EXCEPT !.path = path] BY <1>1
  <2>4. seen' = [running |-> running, paused |-> paused, path |-> path]
    BY <2>1, <2>2, SignalFacts, Zenon
  <2>3. running' = running /\ paused' = paused /\ recorder'.path = path BY <1>1, <1>4
  <2> QED BY <2>3, <2>4, Zenon
<1>6. Typed'
  <2>1. running' \in BOOLEAN /\ paused' \in BOOLEAN BY <1>1 DEF IInv, Typed
  <2>2. seen' \in [running : BOOLEAN, paused : BOOLEAN, path : Paths \cup {NoPath}]
    BY <1>4, <1>5, <2>1
  <2> QED BY <1>1, <1>3, <1>4, <2>2 DEF IInv, Typed
<1>7. QuietWhenStopped' BY <1>1, <1>4 DEF IInv, QuietWhenStopped
<1>8. ObserversAgree' BY <1>5 DEF ObserversAgree
<1>9. RecordingComplete' BY <1>2, <1>3, <1>4 DEF RecordingComplete
<1>10. Recording' BY <1>1, <1>2, <1>4 DEF Recording
<1>11. Paced' BY <1>1, <1>3 DEF IInv, Paced
<1>12. Scheduled' BY <1>1, <1>3 DEF IInv, Scheduled
<1> QED BY <1>3, <1>6, <1>7, <1>8, <1>9, <1>10, <1>11, <1>12, OtherFacts DEF Kept, IInv

LEMMA ClearRecordingInv == ASSUME IInv, ClearRecording PROVE Kept
<1>1. /\ recorder' = NoRecorder
      /\ seen' = [seen EXCEPT !.path = NoPath]
      /\ hist' = [Noted(hist, "request") EXCEPT !.heard = 0, !.gap = FALSE]
      /\ UNCHANGED <<profile, sim, outputs, files, running, paused, lag>>
  BY DEF ClearRecording, run
<1>2. hist \in Histories /\ running \in BOOLEAN /\ paused \in BOOLEAN
  BY DEF IInv, Typed
<1>3. /\ hist' \in Histories /\ hist'.heard = 0 /\ hist'.gap = FALSE
      /\ hist'.behind = hist.behind /\ hist'.owed = hist.owed
      /\ hist'.last = hist.last /\ hist'.before = hist.before
      /\ hist'.event = "request" /\ hist'.told = {}
  BY <1>1, <1>2, ChosenFacts
<1>4. recorder' \in Recorders /\ recorder'.path = NoPath /\ recorder'.state = "Closed"
  BY <1>1, NoRecorderFacts DEF Recorders
<1>5. seen' = [running |-> running', paused |-> paused', path |-> recorder'.path]
  <2>1. seen = [running |-> running, paused |-> paused, path |-> recorder.path]
    BY DEF IInv, ObserversAgree
  <2> QED BY <1>1, <1>4, <2>1, SignalFacts
<1>6. Typed'
  <2>0. running' \in BOOLEAN /\ paused' \in BOOLEAN BY <1>1, <1>2
  <2>1. seen' \in [running : BOOLEAN, paused : BOOLEAN, path : Paths \cup {NoPath}]
    BY <1>4, <1>5, <2>0
  <2> QED BY <1>1, <1>3, <1>4, <2>1 DEF IInv, Typed
<1>7. QuietWhenStopped' BY <1>1, <1>4 DEF IInv, QuietWhenStopped
<1>8. ObserversAgree' BY <1>5 DEF ObserversAgree
<1>9. RecordingComplete' BY <1>1 DEF RecordingComplete
<1>10. Recording' BY <1>1, <1>4 DEF Recording
<1>11. Paced' BY <1>1, <1>3 DEF IInv, Paced
<1>12. Scheduled' BY <1>1, <1>3 DEF IInv, Scheduled
<1> QED BY <1>3, <1>6, <1>7, <1>8, <1>9, <1>10, <1>11, <1>12, OtherFacts DEF Kept, IInv

LEMMA RejectRecordingInv == ASSUME IInv, RejectRecording PROVE Kept
<1>1. /\ hist' = Noted(hist, "request")
      /\ UNCHANGED <<profile, sim, outputs, recorder, files, running, paused, lag, seen>>
  BY DEF RejectRecording, run
<1>2. hist \in Histories BY DEF IInv, Typed
<1>3. /\ hist' \in Histories /\ hist'.behind = hist.behind
      /\ hist'.heard = hist.heard /\ hist'.gap = hist.gap /\ hist'.owed = hist.owed
      /\ hist'.last = hist.last /\ hist'.before = hist.before
      /\ hist'.event = "request" /\ hist'.told = {}
  BY <1>1, <1>2, RequestFacts
<1>4. Typed' BY <1>1, <1>3 DEF IInv, Typed
<1>5. QuietWhenStopped' /\ ObserversAgree' BY <1>1 DEF IInv, QuietWhenStopped, ObserversAgree
<1>6. RecordingComplete' /\ Recording'
  BY <1>1, <1>3 DEF IInv, RecordingComplete, Recording
<1>7. Paced' /\ Scheduled' BY <1>1, <1>3 DEF IInv, Paced, Scheduled
<1> QED BY <1>3, <1>4, <1>5, <1>6, <1>7, OtherFacts DEF Kept, IInv

LEMMA TransportEventInv ==
    ASSUME IInv, NEW c \in DOMAIN outputs, TransportEvent(c) PROVE Kept
<1>1. PICK state \in EventOutcomes(Kind[c], outputs[c].state) :
        outputs' = [outputs EXCEPT ![c].state = state]
  BY DEF TransportEvent
<1>2. /\ hist' = Noted(hist, "other")
      /\ UNCHANGED <<profile, sim, recorder, files, running, paused, lag, seen>>
  BY DEF TransportEvent, run
<1>3. /\ hist \in Histories /\ DOMAIN outputs \in SUBSET Channels
      /\ outputs \in [DOMAIN outputs -> Outputs]
  BY DEF IInv, Typed
<1>4. /\ hist' \in Histories /\ hist'.behind = hist.behind
      /\ hist'.heard = hist.heard /\ hist'.gap = hist.gap /\ hist'.owed = hist.owed
      /\ hist'.last = hist.last /\ hist'.before = hist.before
      /\ hist'.event = "other" /\ hist'.told = {}
  BY <1>2, <1>3, RequestFacts
<1>5. state \in States /\ outputs[c].state # "Closed"
  BY <1>1 DEF EventOutcomes
<1>6. PICK moved : moved = [outputs[c] EXCEPT !.state = state] OBVIOUS
<1>7. moved \in Outputs /\ moved.next_due = outputs[c].next_due
  <2>1. outputs[c] \in Outputs BY <1>3
  <2> QED BY <1>5, <1>6, <2>1 DEF Outputs
<1>8. outputs' = [outputs EXCEPT ![c] = moved] BY <1>1, <1>6, Zenon
<1>9. /\ DOMAIN outputs' = DOMAIN outputs /\ outputs' \in [DOMAIN outputs -> Outputs]
      /\ \A d \in DOMAIN outputs : outputs'[d].next_due = outputs[d].next_due
  BY <1>3, <1>7, <1>8
<1>10. running BY <1>5 DEF IInv, QuietWhenStopped
<1>11. Typed' BY <1>2, <1>3, <1>4, <1>9 DEF IInv, Typed
<1>12. QuietWhenStopped' BY <1>2, <1>10 DEF QuietWhenStopped
<1>13. ObserversAgree' BY <1>2 DEF IInv, ObserversAgree
<1>14. RecordingComplete' /\ Recording'
  BY <1>2, <1>4 DEF IInv, RecordingComplete, Recording
<1>15. Paced' BY <1>2, <1>4 DEF IInv, Paced
<1>16. Scheduled' BY <1>2, <1>4, <1>9 DEF IInv, Scheduled
<1> QED BY <1>4, <1>11, <1>12, <1>13, <1>14, <1>15, <1>16, OtherFacts DEF Kept, IInv

LEMMA PassTimeInv == ASSUME IInv, PassTime PROVE Kept
<1>1. /\ lag' = Smaller(lag + 1, MaxLag)
      /\ hist' = IF running /\ ~paused
                 THEN [Noted(hist, "other") EXCEPT !.behind = Smaller(@ + 1, MaxLag)]
                 ELSE Noted(hist, "other")
      /\ UNCHANGED <<profile, sim, outputs, recorder, files, running, paused, seen>>
  BY DEF PassTime
<1>2. hist \in Histories /\ hist.behind \in Int /\ lag \in Nat
  BY DEF IInv, Typed, Histories
<1>3. MaxLag \in Nat BY NumbersAssumption DEF MaxLag
<1>4. lag' \in Nat /\ lag' <= MaxLag BY <1>1, <1>2, <1>3 DEF Smaller
<1>5. PICK b : b = IF running /\ ~paused THEN Smaller(hist.behind + 1, MaxLag)
                   ELSE hist.behind
  OBVIOUS
<1>6. b \in Int BY <1>2, <1>3, <1>5 DEF Smaller
<1>7. /\ hist' \in Histories /\ hist'.behind = b
      /\ hist'.heard = hist.heard /\ hist'.gap = hist.gap /\ hist'.owed = hist.owed
      /\ hist'.last = hist.last /\ hist'.before = hist.before
      /\ hist'.event = "other" /\ hist'.told = {}
  <2>1. "other" \in Events BY DEF Events
  <2>2. PICK g : g = Noted(hist, "other") OBVIOUS
  <2>3. /\ g \in Histories /\ g.behind = hist.behind
        /\ g.heard = hist.heard /\ g.gap = hist.gap /\ g.owed = hist.owed
        /\ g.last = hist.last /\ g.before = hist.before
        /\ g.event = "other" /\ g.told = {}
    BY <1>2, <2>1, <2>2, NotedFacts, Zenon
  <2>4. CASE running /\ ~paused
    <3>1. b = Smaller(g.behind + 1, MaxLag) BY <1>5, <2>3, <2>4
    <3>2. hist' = [g EXCEPT !.behind = b] BY <1>1, <2>2, <2>4, <3>1
    <3> QED BY <1>6, <2>3, <3>2 DEF Histories
  <2>5. CASE ~(running /\ ~paused)
    <3>1. hist' = g /\ b = hist.behind BY <1>1, <1>5, <2>2, <2>5
    <3> QED BY <2>3, <3>1
  <2> QED BY <2>4, <2>5
<1>8. Typed' BY <1>1, <1>4, <1>7 DEF IInv, Typed
<1>9. QuietWhenStopped' /\ ObserversAgree' BY <1>1 DEF IInv, QuietWhenStopped, ObserversAgree
<1>10. RecordingComplete' /\ Recording'
  BY <1>1, <1>7 DEF IInv, RecordingComplete, Recording
<1>11. Paced'
  <2>1. running /\ ~paused => hist.behind = lag BY DEF IInv, Paced
  <2> QED BY <1>1, <1>4, <1>5, <1>7, <2>1 DEF Paced
<1>12. Scheduled' BY <1>1, <1>7 DEF IInv, Scheduled
<1> QED BY <1>7, <1>8, <1>9, <1>10, <1>11, <1>12, OtherFacts DEF Kept, IInv

LEMMA StartInv == ASSUME IInv, Start PROVE Kept
<1>1. /\ profile # NoProfile /\ ~running
      /\ outputs' \in OutputsOpened(outputs, sim.elapsed)
      /\ recorder' \in RecorderOpened(recorder)
      /\ files' = OnDisk(files, recorder, recorder')
      /\ running' = TRUE /\ paused' = FALSE /\ lag' = 0
      /\ seen' = [seen EXCEPT !.running = TRUE]
      /\ hist' = [Announced(Noted(hist, "request")) EXCEPT
                    !.gap = @ \/ recorder'.state = "Failed"]
      /\ UNCHANGED <<profile, sim>>
  BY DEF Start
<1>2. hist \in Histories /\ sim.elapsed \in Int BY DEF IInv, Typed, Sims
<1>3. PICK g : g = Noted(hist, "request") OBVIOUS
<1>4. /\ g \in Histories /\ g.heard = hist.heard /\ g.gap = hist.gap
      /\ g.event = "request" /\ g.told = {}
  <2>1. "request" \in Events BY DEF Events
  <2> QED BY <1>2, <1>3, <2>1, NotedFacts, Zenon
<1>5. PICK outs \in OutputsOpened(outputs, sim.elapsed) : outs = outputs' BY <1>1
<1>6. PICK rec \in RecorderOpened(recorder) : rec = recorder' BY <1>1
<1>7. PICK h : h = [Announced(g) EXCEPT !.gap = @ \/ rec.state = "Failed"] OBVIOUS
<1>8. /\ Ready(outs, rec, OnDisk(files, recorder, rec), h)
      /\ OnSchedule(outs, h, sim.elapsed)
      /\ DOMAIN outs = DOMAIN outputs /\ rec.path = recorder.path
      /\ h \in Histories /\ h.behind = 0 /\ h.event = g.event /\ h.told = g.told
  <2>1. ~running BY <1>1
  <2>2. Opened(outs, rec, g, h)
    BY <1>4, <1>5, <1>6, <1>7, <2>1, OpeningFacts, Zenon
  <2> QED BY <2>2 DEF Opened
<1>9. hist' = h /\ files' = OnDisk(files, recorder, rec)
  BY <1>1, <1>3, <1>6, <1>7
<1>10. recorder.path \in Paths \cup {NoPath} BY NoRecorderFacts DEF IInv, Typed
<1>11. seen' = [running |-> running', paused |-> paused', path |-> recorder'.path]
  <2>1. seen = [running |-> running, paused |-> paused, path |-> recorder.path]
    BY DEF IInv, ObserversAgree
  <2>2. paused = FALSE BY <1>1 DEF IInv, QuietWhenStopped, Typed
  <2>3. seen' = [running |-> TRUE, paused |-> FALSE, path |-> recorder.path]
    BY <1>1, <2>1, <2>2, SignalFacts, Zenon
  <2>4. running' = TRUE /\ paused' = FALSE /\ recorder'.path = recorder.path
    BY <1>1, <1>6, <1>8
  <2> QED BY <2>3, <2>4, Zenon
<1>12. Typed'
  <2>1. seen' \in [running : BOOLEAN, paused : BOOLEAN, path : Paths \cup {NoPath}]
    <3>1. seen' = [running |-> TRUE, paused |-> FALSE, path |-> recorder.path]
      BY <1>1, <1>6, <1>8, <1>11
    <3> QED BY <1>10, <3>1
  <2>2. /\ DOMAIN outputs' \in SUBSET Channels /\ outputs' \in [DOMAIN outputs' -> Outputs]
        /\ recorder' \in Recorders /\ files' \in [Paths -> Int] /\ hist' \in Histories
    BY <1>5, <1>6, <1>8, <1>9 DEF Ready
  <2> QED BY <1>1, <2>1, <2>2 DEF IInv, Typed
<1>13. QuietWhenStopped' BY <1>1 DEF QuietWhenStopped
<1>14. ObserversAgree' BY <1>11 DEF ObserversAgree
<1>15. RecordingComplete' /\ Recording'
  BY <1>6, <1>8, <1>9 DEF Ready, RecordingComplete, Recording
<1>16. Paced'
  <2>1. lag' = 0 /\ hist'.behind = 0 BY <1>1, <1>8, <1>9
  <2>2. MaxLag \in Nat BY NumbersAssumption DEF MaxLag
  <2> QED BY <2>1, <2>2 DEF Paced, MaxLag
<1>17. Scheduled' BY <1>1, <1>5, <1>8, <1>9 DEF OnSchedule, Scheduled
<1>18. hist'.event = "request" /\ hist'.told = {} BY <1>4, <1>8, <1>9
<1> QED BY <1>12, <1>13, <1>14, <1>15, <1>16, <1>17, <1>18, OtherFacts DEF Kept, IInv

(* The values a run that is going gives to a step of the simulation.       *)
LEMMA GoingFacts ==
    ASSUME IInv, running
    PROVE  /\ Ready(outputs, recorder, files, hist)
           /\ OnSchedule(outputs, hist, sim.elapsed)
<1>1. \A c \in DOMAIN outputs :
        /\ c \in hist.owed => outputs[c].next_due <= sim.elapsed
        /\ hist.last[c] # None => outputs[c].next_due > hist.last[c]
        /\ hist.before[c] # None => outputs[c].next_due > hist.before[c] + Period[c]
  BY DEF IInv, Scheduled
<1>2. ASSUME recorder # NoRecorder, ~hist.gap
      PROVE  recorder.state = "Open" /\ files[recorder.path] = hist.heard
  BY <1>2 DEF IInv, Recording, RecordingComplete
<1>3. recorder.state = "Open" => recorder.append BY DEF IInv, Recording
<1> QED BY <1>1, <1>2, <1>3 DEF IInv, Typed, Ready, OnSchedule

LEMMA LaterFacts ==
    ASSUME NEW outs, DOMAIN outs \in SUBSET Channels, outs \in [DOMAIN outs -> Outputs],
           NEW h, NEW now \in Int, NEW later \in Int, now <= later,
           OnSchedule(outs, h, now)
    PROVE  OnSchedule(outs, h, later)
<1>1. \A c \in DOMAIN outs : outs[c].next_due \in Int BY DEF Outputs
<1> QED BY <1>1 DEF OnSchedule

(* step() and tick() never take the simulated clock back.                  *)
LEMMA AdvanceFacts ==
    ASSUME profile \in Profile, NEW s \in Sims, NEW dt \in Nat
    PROVE  Advance(s, dt) \in Sims /\ Advance(s, dt).elapsed = s.elapsed + dt
<1>1. s.elapsed \in Int /\ s.position \in Int /\ profile.duration \in Nat
  BY DEF Sims, Profile
<1>2. PICK reached \in Int : reached = s.position + dt BY <1>1
<1>3. profile.duration # 0 => reached % profile.duration \in Int BY <1>1
<1>4. PICK p : p = IF ~Finite THEN 0
                   ELSE IF Stops THEN Smaller(reached, profile.duration)
                   ELSE IF profile.duration = 0 THEN 0
                   ELSE reached % profile.duration
  OBVIOUS
<1>5. p \in Int BY <1>1, <1>2, <1>3, <1>4 DEF Smaller
<1>6. PICK f \in BOOLEAN : f = (Stops /\ (s.finished \/ reached >= profile.duration))
  OBVIOUS
<1>7. Advance(s, dt) = [elapsed |-> s.elapsed + dt, position |-> p, finished |-> f]
  BY <1>2, <1>4, <1>6 DEF Advance
<1> QED BY <1>1, <1>5, <1>6, <1>7 DEF Sims

LEMMA StepOnceFacts ==
    ASSUME profile \in Profile, NEW s \in Sims, hist.heard \in Nat,
           NEW after \in StepOnce(s)
    PROVE  after[1] \in Sims /\ after[2] \in Nat /\ s.elapsed <= after[1].elapsed
<1>1. s.elapsed \in Int /\ TickMs \in Nat BY NumbersAssumption DEF Sims
<1>2. CASE profile.mode # "replay"
  <2>1. PICK n \in Batch : after = <<Advance(s, TickMs), n>> BY <1>2 DEF StepOnce
  <2>2. n \in Nat BY <1>1, <2>1, NumbersAssumption DEF Batch, Smaller
  <2>3. PICK t \in Sims : t = Advance(s, TickMs) /\ t.elapsed = s.elapsed + TickMs
    BY <1>1, AdvanceFacts
  <2> QED BY <1>1, <2>1, <2>2, <2>3
<1>3. CASE profile.mode = "replay" /\ s.finished
  <2>1. after = <<s, 0>> BY <1>3 DEF StepOnce
  <2> QED BY <1>1, <2>1
<1>4. CASE profile.mode = "replay" /\ ~s.finished
  <2>1. PICK t \in [elapsed : {s.elapsed}, position : 0 .. profile.duration,
                     finished : BOOLEAN] : after = <<t, 1>>
    BY <1>4 DEF StepOnce
  <2>2. profile.duration \in Int BY DEF Profile
  <2>3. t.elapsed = s.elapsed /\ t \in Sims BY <1>1, <2>1, <2>2 DEF Sims
  <2> QED BY <1>1, <2>1, <2>3
<1> QED BY <1>2, <1>3, <1>4

LEMMA StepInv == ASSUME IInv, Step PROVE Kept
<1>1. profile # NoProfile /\ profile' = profile /\ lag' = IF running THEN lag ELSE 0
  BY DEF Step
<1>2. PICK after \in StepOnce(sim),
           outs \in IF running THEN {outputs} ELSE OutputsOpened(outputs, sim.elapsed),
           rec \in IF running THEN {recorder} ELSE RecorderOpened(recorder) :
        EmitAndFinish(after[1], after[2], TRUE, outs, rec,
           IF running THEN files ELSE OnDisk(files, recorder, rec),
           PauseSeen([seen EXCEPT !.running = TRUE], running /\ paused),
           IF running THEN hist
           ELSE [Announced(hist) EXCEPT !.gap = @ \/ rec.state = "Failed"],
           "step")
  BY DEF Step
<1>3. PICK contents :
        contents = IF running THEN files ELSE OnDisk(files, recorder, rec)
  OBVIOUS
<1>4. PICK h : h = IF running THEN hist
                   ELSE [Announced(hist) EXCEPT !.gap = @ \/ rec.state = "Failed"]
  OBVIOUS
<1>5. PICK told_of :
        told_of = PauseSeen([seen EXCEPT !.running = TRUE], running /\ paused)
  OBVIOUS
<1>6. PICK s, n : s = after[1] /\ n = after[2] OBVIOUS
<1>7. EmitAndFinish(s, n, TRUE, outs, rec, contents, told_of, h, "step")
  BY <1>2, <1>3, <1>4, <1>5, <1>6, Zenon
<1>8. /\ hist \in Histories /\ sim \in Sims /\ profile \in Profile /\ profile \in Profiles
      /\ lag \in Nat /\ running \in BOOLEAN /\ paused \in BOOLEAN
  BY <1>1, ProfilesAssumption DEF IInv, Typed
<1>9. s \in Sims /\ n \in Nat /\ sim.elapsed <= s.elapsed
  <2>1. hist.heard \in Nat BY <1>8 DEF Histories
  <2> QED BY <1>2, <1>6, <1>8, <2>1, StepOnceFacts
<1>10. /\ Ready(outs, rec, contents, h) /\ OnSchedule(outs, h, sim.elapsed)
       /\ rec.path = recorder.path
       /\ running => outs = outputs /\ h = hist
  <2>1. CASE running
    <3>1. outs = outputs /\ rec = recorder /\ contents = files /\ h = hist
      BY <1>2, <1>3, <1>4, <2>1
    <3> QED BY <2>1, <3>1, GoingFacts
  <2>2. CASE ~running
    <3>1. outs \in OutputsOpened(outputs, sim.elapsed) /\ rec \in RecorderOpened(recorder)
      BY <1>2, <2>2
    <3>2. contents = OnDisk(files, recorder, rec) BY <1>3, <2>2
    <3>3. h = [Announced(hist) EXCEPT !.gap = @ \/ rec.state = "Failed"]
      BY <1>4, <2>2
    <3>4. Opened(outs, rec, hist, h)
      BY <1>8, <2>2, <3>1, <3>3, OpeningFacts, Zenon
    <3> QED BY <2>2, <3>2, <3>4 DEF Opened
  <2> QED BY <2>1, <2>2
<1>11. OnSchedule(outs, h, s.elapsed)
  <2>1. s.elapsed \in Int /\ sim.elapsed \in Int BY <1>8, <1>9 DEF Sims
  <2>2. DOMAIN outs \in SUBSET Channels /\ outs \in [DOMAIN outs -> Outputs]
    BY <1>10 DEF Ready
  <2> QED BY <1>9, <1>10, <2>1, <2>2, LaterFacts
<1>12. told_of = [running |-> TRUE, paused |-> TRUE, path |-> rec.path]
  <2>1. seen = [running |-> running, paused |-> paused, path |-> recorder.path]
    BY DEF IInv, ObserversAgree
  <2>2. PICK a : a = [seen EXCEPT !.running = TRUE] OBVIOUS
  <2>3. a = [running |-> TRUE, paused |-> paused, path |-> recorder.path]
    BY <2>1, <2>2, SignalFacts, Zenon
  <2>4. a.paused = paused BY <2>3
  <2>5. (a.paused \/ ~(running /\ paused)) = TRUE BY <1>8, <2>4
  <2>6. told_of = [a EXCEPT !.paused = TRUE] BY <1>5, <2>2, <2>5, Zenon DEF PauseSeen
  <2>7. told_of = [running |-> TRUE, paused |-> TRUE, path |-> recorder.path]
    BY <2>3, <2>6, SignalFacts, Zenon
  <2> QED BY <1>10, <2>7, Zenon
<1>13. lag' \in Nat BY <1>1, <1>8
<1>14. /\ Typed' /\ QuietWhenStopped' /\ ObserversAgree' /\ RecordingComplete'
       /\ Recording' /\ Scheduled'
       /\ hist'.behind = h.behind /\ hist'.event = "step"
       /\ running' => paused' = TRUE
       /\ \A c \in DOMAIN outs \cap h.owed :
            Carries[c] = "state" /\ outs[c].state = "Open" => c \in hist'.told
       /\ \A c \in hist'.told :
            h.before[c] # None => sim'.elapsed > h.before[c] + Period[c]
  <2>1. "step" \in Events BY DEF Events
  <2>2. Emitted(TRUE, outs, h, "step")
    BY <1>1, <1>7, <1>8, <1>9, <1>10, <1>11, <1>12, <1>13, <2>1, EmitFacts, Zenon
  <2> QED BY <2>2 DEF Emitted
<1>15. Paced'
  <2>1. ~(running' /\ ~paused') BY <1>14
  <2>2. lag' <= MaxLag
    <3>1. MaxLag \in Nat /\ lag <= MaxLag
      BY NumbersAssumption DEF MaxLag, IInv, Paced
    <3> QED BY <1>1, <3>1
  <2> QED BY <2>1, <2>2 DEF Paced, MaxLag
<1>16. Pace BY <1>14 DEF Pace
<1>17. Messages BY <1>10, <1>14 DEF Messages
<1> QED BY <1>14, <1>15, <1>16, <1>17 DEF Kept, IInv

(* Whole milliseconds of a time in units: what is left is less than one.   *)
LEMMA WholeFacts ==
    ASSUME NEW q, q = lag \div Sub, lag \in Nat
    PROVE  q \in Nat /\ Sub * q <= lag /\ lag - Sub * q \in 0 .. Sub - 1
  BY NumbersAssumption

(* What a tick makes of the time behind, and of the clock.                 *)
LEMMA TickFacts ==
    ASSUME lag \in Nat, lag <= MaxLag,
           NEW dt, dt = TickStep, NEW b, b = IF lag >= MaxLag THEN 0 ELSE lag - Sub * dt,
           NEW rest, rest = IF lag \div Sub > MaxStep THEN 0 ELSE lag - dt * Sub
    PROVE  /\ dt \in Nat /\ b \in Int /\ rest = b /\ rest \in Nat /\ rest <= MaxLag
           /\ IF lag < MaxLag THEN b \in 0 .. Sub - 1 ELSE dt = MaxStep
<1>1. PICK q : q = lag \div Sub OBVIOUS
<1>2. q \in Nat /\ Sub * q <= lag /\ lag - Sub * q \in 0 .. Sub - 1
  BY <1>1, WholeFacts
<1>3. Sub \in Nat \ {0} /\ MaxStep \in Nat \ {0} /\ MaxLag \in Nat
  BY NumbersAssumption DEF MaxLag
<1>4. CASE lag < MaxLag
  <2>1. q <= MaxStep
    <3> SUFFICES ASSUME q >= MaxStep + 1 PROVE FALSE BY <1>2, <1>3
    <3>1. Sub * q >= Sub * (MaxStep + 1) BY <1>2, <1>3
    <3> QED BY <1>2, <1>3, <1>4, <3>1 DEF MaxLag
  <2>2. dt = q BY <1>1, <1>2, <1>3, <2>1 DEF TickStep, Smaller
  <2>3. rest = lag - q * Sub /\ b = lag - Sub * q BY <1>1, <1>2, <1>3, <1>4, <2>1, <2>2
  <2>4. q * Sub = Sub * q BY <1>2, <1>3
  <2> QED BY <1>2, <1>3, <1>4, <2>2, <2>3, <2>4
<1>5. CASE ~(lag < MaxLag)
  <2>1. lag = MaxLag BY <1>3, <1>5
  <2>2. q > MaxStep
    <3> SUFFICES ASSUME q <= MaxStep PROVE FALSE BY <1>2, <1>3
    <3>1. Sub * q <= Sub * MaxStep BY <1>2, <1>3
    <3>2. MaxLag = Sub * MaxStep + Sub BY <1>3 DEF MaxLag
    <3>3. Sub * MaxStep \in Int /\ Sub * q \in Int BY <1>2, <1>3
    <3> QED BY <1>2, <1>3, <2>1, <3>1, <3>2, <3>3
  <2>3. dt = MaxStep BY <1>1, <1>2, <1>3, <2>2 DEF TickStep, Smaller
  <2>4. b = 0 /\ rest = 0 BY <1>1, <1>2, <1>3, <2>1, <2>2
  <2> QED BY <1>3, <1>5, <2>3, <2>4
<1> QED BY <1>4, <1>5

LEMMA TickInv == ASSUME IInv, Tick PROVE Kept
<1>1. /\ running = TRUE /\ paused = FALSE /\ profile' = profile
      /\ lag' = IF lag \div Sub > MaxStep THEN 0 ELSE lag - TickStep * Sub
  BY DEF Tick, IInv, Typed
<1>2. PICK n \in Batch :
        EmitAndFinish(Advance(sim, TickStep), n, FALSE, outputs, recorder, files, seen,
           [hist EXCEPT !.behind = IF @ >= MaxLag THEN 0
                                   ELSE @ - Sub * (sim'.elapsed - sim.elapsed)],
           "tick")
  BY DEF Tick
<1>3. /\ hist \in Histories /\ sim \in Sims /\ profile \in Profile /\ profile \in Profiles
      /\ profile # NoProfile /\ lag \in Nat /\ lag <= MaxLag /\ hist.behind = lag
      /\ sim.elapsed \in Int /\ hist.heard \in Nat
  BY <1>1, ProfilesAssumption DEF IInv, Typed, Paced, Sims, Histories
<1>4. PICK dt : dt = TickStep OBVIOUS
<1>5. PICK b : b = IF lag >= MaxLag THEN 0 ELSE lag - Sub * dt OBVIOUS
<1>6. /\ dt \in Nat /\ b \in Int /\ lag' = b /\ lag' \in Nat /\ lag' <= MaxLag
      /\ IF lag < MaxLag THEN b \in 0 .. Sub - 1 ELSE dt = MaxStep
  BY <1>1, <1>3, <1>4, <1>5, TickFacts
<1>7. PICK s \in Sims : s = Advance(sim, dt) /\ s.elapsed = sim.elapsed + dt
  BY <1>3, <1>6, AdvanceFacts
<1>8. sim' = s BY <1>2, <1>4, <1>7 DEF EmitAndFinish
<1>9. sim'.elapsed - sim.elapsed = dt BY <1>3, <1>6, <1>7, <1>8
<1>10. PICK h : h = [hist EXCEPT !.behind = b] OBVIOUS
<1>11. /\ h \in Histories /\ h.behind = b
       /\ h.heard = hist.heard /\ h.gap = hist.gap /\ h.owed = hist.owed
       /\ h.last = hist.last /\ h.before = hist.before
  BY <1>3, <1>6, <1>10 DEF Histories
<1>12. h = [hist EXCEPT !.behind = IF @ >= MaxLag THEN 0
                                   ELSE @ - Sub * (sim'.elapsed - sim.elapsed)]
  <2>1. b = IF hist.behind >= MaxLag THEN 0
            ELSE hist.behind - Sub * (sim'.elapsed - sim.elapsed)
    BY <1>3, <1>5, <1>9
  <2> QED BY <1>10, <2>1, Zenon
<1>13. EmitAndFinish(s, n, FALSE, outputs, recorder, files, seen, h, "tick")
  BY <1>2, <1>4, <1>7, <1>12, Zenon
<1>14. n \in Nat BY <1>2, <1>3, NumbersAssumption DEF Batch, Smaller
<1>15. Ready(outputs, recorder, files, h) /\ OnSchedule(outputs, h, s.elapsed)
  <2>1. Ready(outputs, recorder, files, hist) /\ OnSchedule(outputs, hist, sim.elapsed)
    BY <1>1, GoingFacts
  <2>2. Ready(outputs, recorder, files, h) BY <1>11, <2>1 DEF Ready
  <2>3. OnSchedule(outputs, h, sim.elapsed) BY <1>11, <2>1 DEF OnSchedule
  <2>4. s.elapsed \in Int /\ sim.elapsed <= s.elapsed BY <1>3, <1>6, <1>7
  <2>5. DOMAIN outputs \in SUBSET Channels /\ outputs \in [DOMAIN outputs -> Outputs]
    BY DEF IInv, Typed
  <2> QED BY <1>3, <2>2, <2>3, <2>4, <2>5, LaterFacts
<1>16. seen = [running |-> TRUE, paused |-> FALSE, path |-> recorder.path]
  BY <1>1, Zenon DEF IInv, ObserversAgree
<1>17. Emitted(FALSE, outputs, h, "tick")
  <2>1. "tick" \in Events BY DEF Events
  <2>2. PICK outs, rec, contents, told_of :
          outs = outputs /\ rec = recorder /\ contents = files /\ told_of = seen
    OBVIOUS
  <2>3. Emitted(FALSE, outs, h, "tick")
    BY <1>1, <1>3, <1>6, <1>13, <1>14, <1>15, <1>16, <2>1, <2>2, EmitFacts, Zenon
  <2> QED BY <2>2, <2>3, Zenon
<1>18. /\ Typed' /\ QuietWhenStopped' /\ ObserversAgree' /\ RecordingComplete'
       /\ Recording' /\ Scheduled' /\ hist'.behind = b /\ hist'.event = "tick"
  BY <1>11, <1>17 DEF Emitted
<1>19. Paced' BY <1>6, <1>18 DEF Paced, MaxLag
<1>20. Pace
  <2>1. hist.behind < MaxLag => hist'.behind \in 0 .. Sub - 1 BY <1>3, <1>6, <1>18
  <2>2. ~(hist.behind < MaxLag) => sim'.elapsed = sim.elapsed + MaxStep
    BY <1>3, <1>6, <1>7, <1>8
  <2> QED BY <2>1, <2>2 DEF Pace
<1>21. Messages BY <1>11, <1>17 DEF Emitted, Messages
<1> QED BY <1>18, <1>19, <1>20, <1>21 DEF Kept, IInv

LEMMA NextInv == IInv /\ Next => Kept
<1> SUFFICES ASSUME IInv, Next PROVE Kept OBVIOUS
<1>1. CASE \E p \in Profiles : ApplyProfile(p) \/ RejectProfile(p)
  BY <1>1, ApplyProfileInv, StopInv DEF RejectProfile
<1>2. CASE Start BY <1>2, StartInv
<1>3. CASE Pause BY <1>3, PauseInv
<1>4. CASE Resume BY <1>4, ResumeInv
<1>5. CASE Stop BY <1>5, StopInv
<1>6. CASE Step BY <1>6, StepInv
<1>7. CASE \E to \in Positions : Seek(to) BY <1>7, SeekInv
<1>8. CASE \E path \in Paths : SetRecording(path) BY <1>8, SetRecordingInv
<1>9. CASE RejectRecording BY <1>9, RejectRecordingInv
<1>10. CASE ClearRecording BY <1>10, ClearRecordingInv
<1>11. CASE Tick BY <1>11, TickInv
<1>12. CASE \E c \in DOMAIN outputs : TransportEvent(c) BY <1>12, TransportEventInv
<1>13. CASE PassTime BY <1>13, PassTimeInv
<1> QED BY <1>1, <1>2, <1>3, <1>4, <1>5, <1>6, <1>7, <1>8, <1>9, <1>10, <1>11, <1>12,
           <1>13 DEF Next

LEMMA StutterInv == IInv /\ UNCHANGED vars => IInv'
  BY DEF IInv, Typed, QuietWhenStopped, ObserversAgree, RecordingComplete, Recording,
         Paced, Scheduled, vars, run

LEMMA SpecInv == Spec => []IInv
<1>1. Init => IInv BY InitInv
<1>2. IInv /\ [Next]_vars => IInv' BY NextInv, StutterInv DEF Kept
<1> QED BY <1>1, <1>2, PTL DEF Spec

-----------------------------------------------------------------------------
(* Whatever came before, a runner that is not running has closed every     *)
(* transport and the recording and is not paused (stop, finish_if_done,    *)
(* apply_profile).                                                         *)
THEOREM NothingLeftOpen == Spec => []QuietWhenStopped
<1>1. IInv => QuietWhenStopped BY DEF IInv
<1> QED BY <1>1, SpecInv, PTL

(* The signals of the runner never part from its accessors                 *)
(* (running_changed, paused_changed, recording_changed).                   *)
THEOREM SignalsAreTrue == Spec => []ObserversAgree
<1>1. IInv => ObserversAgree BY DEF IInv
<1> QED BY <1>1, SpecInv, PTL

(* Nothing emitted since a recording was chosen is lost or written twice   *)
(* (set_recording, start, emit_sentences, LogTransport::open).             *)
THEOREM NothingUnrecorded == Spec => []RecordingComplete
<1>1. IInv => RecordingComplete BY DEF IInv
<1> QED BY <1>1, SpecInv, PTL

(* For every resolution of the clock and every MaxStep, a tick leaves the  *)
(* simulated clock less than a millisecond behind (tick).                  *)
THEOREM ClockKeepsPace == Spec => KeepsPace
<1>1. IInv /\ [Next]_vars => [Pace]_vars BY NextInv DEF Kept
<1>2. KeepsPace <=> [][Pace]_vars BY DEF KeepsPace, Pace
<1> QED BY <1>1, <1>2, SpecInv, PTL DEF Spec

(* State messages are neither owed nor bunched, for every period           *)
(* (emit_state_messages, seek, start).                                     *)
THEOREM MessagesKeepTime == Spec => MessagesOnTime
<1>1. IInv /\ [Next]_vars => [Messages]_vars BY NextInv DEF Kept
<1>2. MessagesOnTime <=> [][Messages]_vars BY DEF MessagesOnTime, Messages
<1> QED BY <1>1, <1>2, SpecInv, PTL DEF Spec
=============================================================================
