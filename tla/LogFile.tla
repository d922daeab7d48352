------------------------------ MODULE LogFile ------------------------------
(***************************************************************************)
(* Reading a log: which lines hold a sentence, the time each carries, and  *)
(* the offsets at which a replay sends them (log/log_file.cpp).  Lines are *)
(* written by this program's recorder, by other loggers and by captures of *)
(* an output with TAG blocks, mixed freely.                                *)
(*                                                                         *)
(* A number in the text of a log is its whole part and thousandths.        *)
(***************************************************************************)
EXTENDS Decoder, Framing

CONSTANTS
    LargestSeconds,    \* 1e11: a larger Unix time counts milliseconds
    Starts,            \* times of the first line
    LogSteps,          \* time between two lines; negative: out of order
    Backwards,         \* whether a step back may cross midnight
    Intervals,         \* spacing of the entries of a log without times
    MaxLines           \* bound on the lines of a file

VARIABLES
    file,    \* the lines written so far
    told,    \* history: for each line, the time it was written to tell
    log      \* what load_log made of the file, None before

logVars == <<file, told, log>>

-----------------------------------------------------------------------------
(* Times in the text of a line.                                            *)

Fraction(t) == [whole |-> t \div 1000, thousandths |-> t % 1000]
Whole(n) == [whole |-> n, thousandths |-> 0]

(* parse_unix_time: seconds or milliseconds; zero is no time.              *)
UnixTime(n) ==
    IF n = None \/ n = Whole(0) THEN None
    ELSE IF n.whole > LargestSeconds
    THEN n.whole + n.thousandths \div 500
    ELSE 1000 * n.whole + n.thousandths

(* format_iso8601 and parse_iso8601, of a day of the calendar.  Hour 24 is *)
(* the end of the day, second 60 a leap second.                            *)
FormatIso(t) ==
    [date |-> t \div Day, hour |-> (t % Day) \div 3600000,
     minute |-> (t % 3600000) \div 60000, second |-> (t % 60000) \div 1000,
     fraction |-> t % 1000, zone |-> 0]

IsoTime(w) ==
    IF \/ w = None
       \/ w.hour > 24 \/ w.minute > 59 \/ w.second > 60
       \/ w.hour = 24 /\ (w.minute > 0 \/ w.second > 0 \/ w.fraction > 0)
    THEN None
    ELSE w.date * Day + 3600000 * w.hour + 60000 * (w.minute - w.zone)
            + 1000 * w.second + w.fraction

(* parse_prefix_time: all of the prefix, then its last word, each as ISO   *)
(* 8601 first and then as Unix time.                                       *)
Reading == [iso |-> None, unix |-> None]
PrefixTime(prefix) ==
    LET found == SelectSeq(
            <<IsoTime(prefix.all.iso), UnixTime(prefix.all.unix),
              IsoTime(prefix.last.iso), UnixTime(prefix.last.unix)>>,
            LAMBDA t : t # None)
    IN  IF found = <<>> THEN None ELSE Head(found)

(* tag_block_checksum_valid and tag_block_time.                            *)
TagAccepted(tag) == tag = None \/ (tag.closed /\ tag.checksum # "bad")
TagTime(tag) == IF tag = None THEN None ELSE UnixTime(tag.time)

-----------------------------------------------------------------------------
(* Lines.  A comment may have a key; a text has at most a sentence.        *)

Bare == [all |-> Reading, last |-> Reading]
Line(prefix, sentence) ==
    [kind |-> "text", tag |-> None, prefix |-> prefix, sentence |-> sentence]
Comment(key, value) == [kind |-> "comment", key |-> key, value |-> value]
BlankLine == [kind |-> "blank"]

(* format_log_line.                                                        *)
FormatLogLine(t, sentence) ==
    Line([Bare EXCEPT !.all.iso = FormatIso(t)], sentence)

(* The first pass: the sentences with the times they carry, the header and *)
(* the number of lines that hold no sentence a reader accepts.             *)
Blocked(line) == line.kind = "text" /\ ~ TagAccepted(line.tag)
Holds(line) ==
    /\ line.kind = "text"
    /\ ~ Blocked(line)
    /\ line.sentence # None
    /\ Parsed(line.sentence)

RawEntry(line) ==
    [sentence |-> line.sentence,
     recorded_at |-> IF TagTime(line.tag) # None THEN TagTime(line.tag)
                     ELSE PrefixTime(line.prefix),
     sentence_time |-> SentenceTime(line.sentence)]

RawEntries(lines) ==
    LET held == SelectSeq(lines, Holds)
    IN  [i \in DOMAIN held |-> RawEntry(held[i])]

Header(lines) ==
    LET keyed == SelectSeq(lines, LAMBDA line : line.kind = "comment" /\ line.key # "")
    IN  FoldLeft(LAMBDA h, line : [k \in DOMAIN h \cup {line.key} |->
                    IF k = line.key THEN line.value ELSE h[k]], <<>>, keyed)

Skipped(lines) ==
    Len(SelectSeq(lines, LAMBDA line : line.kind = "text" /\ ~ Holds(line)))

-----------------------------------------------------------------------------
(* The second pass: offsets.                                               *)

Entry(raw, offset, recorded_at) ==
    [offset |-> offset, sentence |-> raw.sentence, recorded_at |-> recorded_at]

(* By the absolute times, from the first one on; never backwards.          *)
TimestampOffset(acc, raw) ==
    IF raw.recorded_at = None THEN acc
    ELSE IF acc.origin = None THEN [acc EXCEPT !.origin = raw.recorded_at]
    ELSE [acc EXCEPT !.offset = Higher(@, raw.recorded_at - acc.origin)]

(* Mutant of SentenceOffset: a step back lowers the latest time.           *)
SentenceOffset_Lowers(acc, raw) ==
    LET now == raw.sentence_time
        delta == now - acc.origin
        ahead == IF 2 * delta < -Day THEN delta + Day ELSE delta
    IN  IF now = None THEN acc
        ELSE IF acc.origin = None THEN [acc EXCEPT !.origin = now]
        ELSE [acc EXCEPT !.offset = @ + Higher(ahead, 0), !.origin = now]

(* By the times of day in the sentences: what is ahead of the latest one   *)
(* counts, and a large step back is the next day.                          *)
SentenceOffset(acc, raw) ==
    LET now == raw.sentence_time
        delta == now - acc.origin
        ahead == IF 2 * delta < -Day THEN delta + Day ELSE delta
    IN  IF now = None THEN acc
        ELSE IF acc.origin = None THEN [acc EXCEPT !.origin = now]
        ELSE IF ahead > 0 THEN [acc EXCEPT !.offset = @ + ahead, !.origin = now]
        ELSE acc

Timing(raw) ==
    IF \E i \in DOMAIN raw : raw[i].recorded_at # None THEN "Timestamps"
    ELSE IF \E i \in DOMAIN raw : raw[i].sentence_time # None THEN "SentenceTimes"
    ELSE "FixedInterval"

Entries(raw, interval) ==
    LET timing == Timing(raw)
        after(i) == FoldLeft(
            LAMBDA acc, r : CASE timing = "Timestamps" -> TimestampOffset(acc, r)
                              [] timing = "SentenceTimes" -> SentenceOffset(acc, r)
                              [] OTHER -> acc,
            [offset |-> IF timing = "FixedInterval" THEN (i - 1) * interval ELSE 0,
             origin |-> None],
            SubSeq(raw, 1, i))
    IN  [i \in DOMAIN raw |->
            Entry(raw[i], after(i).offset,
                  IF timing = "Timestamps" THEN raw[i].recorded_at ELSE None)]

Failed(error) == [error |-> error, entries |-> <<>>, header |-> <<>>,
                  timing |-> "FixedInterval", skipped |-> 0]

(* parse_log.                                                              *)
ParseLog(lines, interval) ==
    LET raw == RawEntries(lines)
    IN  IF interval < 0 THEN Failed("negative interval")
        ELSE IF raw = <<>>
        THEN Failed(IF Skipped(lines) > 0 THEN "no valid sentence" ELSE "empty")
        ELSE [error |-> "", entries |-> Entries(raw, interval), header |-> Header(lines),
              timing |-> Timing(raw), skipped |-> Skipped(lines)]

Duration(l) == IF l.entries = <<>> THEN 0 ELSE l.entries[Len(l.entries)].offset

-----------------------------------------------------------------------------
(* A log being written, by the clock of the simulation, and then read.     *)

WithTime(t) == Sentence("GGA", <<Num(t % Day)>>)
WithoutTime == Sentence("HDT", <<>>)
Tagged(t, milliseconds) ==
    LET block == TagBlock([source |-> "", include_time |-> TRUE,
                           milliseconds |-> milliseconds], t)
    IN  [closed |-> TRUE, checksum |-> block.checksum, time |-> Whole(block.time)]

(* A line that tells a time of the simulation, and the time it tells.      *)
ToldLines(t) ==
    {<<FormatLogLine(t, WithoutTime), t>>,
     <<Line([Bare EXCEPT !.all.iso = [FormatIso(t + 7200000) EXCEPT !.zone = 120]],
            WithoutTime), t>>,
     <<Line([Bare EXCEPT !.last.unix = Fraction(t)], WithoutTime), t>>,
     <<[Line(Bare, WithTime(t)) EXCEPT !.tag = Tagged(t, TRUE)], t>>,
     <<[FormatLogLine(t + 50, WithoutTime) EXCEPT !.tag = Tagged(t, FALSE)], t - (t % 1000)>>,
     <<Line(Bare, WithTime(t)), t>>}

(* A line that tells none.                                                 *)
Stray(t) ==
    {BlankLine, Comment("profile", "p"), Comment("", ""),
     Line(Bare, WithoutTime), Line(Bare, None),
     [Line(Bare, WithTime(t)) EXCEPT !.sentence.checksum = "bad"],
     [Line(Bare, WithTime(t)) EXCEPT !.tag = [Tagged(t, FALSE) EXCEPT !.closed = FALSE]]}

(* The time the last line was written to tell, or None.                    *)
LastTold(history) ==
    LET times == SelectSeq(history, LAMBDA t : t # None)
    IN  IF times = <<>> THEN None ELSE times[Len(times)]

LogInit == file = <<>> /\ told = <<>> /\ log = None

AppendLine(line, t) ==
    /\ log = None
    /\ Len(file) < MaxLines
    /\ file' = Append(file, line)
    /\ told' = Append(told, t)
    /\ UNCHANGED log

WriteLine(t) == \E w \in ToldLines(t) : AppendLine(w[1], w[2])

StrayLine(t) == \E line \in Stray(t) : AppendLine(line, None)

(* load_log; the file may not be there.                                    *)
LoadLog(interval) ==
    /\ log = None
    /\ log' \in {ParseLog(file, interval), Failed("cannot read")}
    /\ UNCHANGED <<file, told>>

NextTimes ==
    IF LastTold(told) = None THEN Starts
    ELSE {t \in {LastTold(told) + d : d \in LogSteps} :
            /\ t >= 1000
            /\ Backwards \/ t >= LastTold(told) \/ t \div Day = LastTold(told) \div Day}

LogNext ==
    \/ \E t \in NextTimes : WriteLine(t) \/ StrayLine(t)
    \/ \E interval \in Intervals : LoadLog(interval)

LogSpec == LogInit /\ [][LogNext]_logVars

-----------------------------------------------------------------------------
(* The times told by the sentences that count for the timing of the log,   *)
(* in the order of the file.                                               *)
HeldLines == SelectSeq([i \in DOMAIN file |-> i], LAMBDA i : Holds(file[i]))

Telling(i) ==
    /\ told[i] # None
    /\ log.timing = "Timestamps" => RawEntry(file[i]).recorded_at # None

ToldBy(n) ==
    LET telling == SelectSeq(SubSeq(HeldLines, 1, n), Telling)
    IN  [k \in DOMAIN telling |-> told[telling[k]]]

(* Each sentence of a log is replayed as long after the first one as the   *)
(* lines up to it tell, whoever wrote them: a line that tells a time       *)
(* before an earlier one is held, no time is lost and none is counted      *)
(* twice (log_file.cpp parse_log, against format_log_line and the TAG      *)
(* block of an output).                                                    *)
ReplaysAtTheToldPace ==
    (log # None /\ log.error = "" /\ log.timing # "FixedInterval") =>
        \A n \in DOMAIN log.entries :
            log.entries[n].offset =
                Max({0} \cup {t - ToldBy(n)[1] : t \in Range(ToldBy(n))})
=============================================================================
