----------------------------- MODULE TileCache -----------------------------
(***************************************************************************)
(* The map tile cache (TileCache): memory, then disk, then at most         *)
(* MaxConcurrentDownloads downloads from the tile server, with a queue     *)
(* behind them and a memory of what failed.                                *)
(*                                                                         *)
(* The network is external: a download that is running finishes with an    *)
(* image, with an error, or with a page that says the tile does not exist. *)
(***************************************************************************)
EXTENDS Naturals, Sequences, FiniteSets

CONSTANTS
    Tiles,
    Servers,                  \* the URL templates an operator may enter
    MemoryTiles,              \* kMemoryTiles
    MaxConcurrentDownloads,   \* kMaxConcurrentDownloads
    RetryDelay,               \* retry_delay_, in units of PassTime
    MaxRetryDelay,            \* kMaxRetryDelay
    MaxFails                  \* bound: failures of a tile that are counted

ASSUME TileCacheAssumption ==
    /\ IsFiniteSet(Tiles)
    /\ {MemoryTiles, MaxConcurrentDownloads} \subseteq Nat \ {0}
    /\ {RetryDelay, MaxRetryDelay, MaxFails} \subseteq Nat

VARIABLES
    memory,     \* memory_, the least recently used tile last
    disk,       \* the tiles under directory_
    online,     \* online_
    server,     \* url_template_
    queue,      \* queue_
    queued,     \* queued_
    running,    \* running_, with the server each download was sent to
    failures,   \* failures_, with retry_at as the time left until then
    hist        \* history, for the properties: see NoHistory

downloads == <<queue, queued, running>>
vars == <<memory, disk, online, server, queue, queued, running, failures, hist>>

NoFailure == [permanent |-> FALSE, delay |-> 0, left |-> 0, known |-> FALSE]

Smaller(a, b) == IF a < b THEN a ELSE b
Higher(a, b) == IF a > b THEN a ELSE b
LongestDelay == Higher(MaxRetryDelay, RetryDelay)

(* History, by tile: whether the present server said it has no such tile,  *)
(* and the failures since the last success, change of server or return     *)
(* online, with the time since the last of them, up to LongestDelay.       *)
NoHistory == [gone |-> FALSE, fails |-> 0, since |-> 0]

Elements(s) == {s[i] : i \in DOMAIN s}

Init ==
    /\ memory = <<>> /\ disk \in SUBSET Tiles
    /\ online \in BOOLEAN
    /\ server \in Servers
    /\ queue = <<>> /\ queued = {} /\ running = [t \in {} |-> server]
    /\ failures = [t \in Tiles |-> NoFailure]
    /\ hist = [t \in Tiles |-> NoHistory]

-----------------------------------------------------------------------------
(* QCache: what is used becomes the most recent; the least recent leaves.  *)
Used(m, t) ==
    LET others == SelectSeq(m, LAMBDA u : u # t)
        most_recent == <<t>> \o others
    IN  SubSeq(most_recent, 1, Smaller(Len(most_recent), MemoryTiles))

(* start_next(): the oldest queued tiles, until enough downloads run.      *)
StartNext(q, active, url) ==
    LET n == Smaller(Len(q), MaxConcurrentDownloads - Cardinality(DOMAIN active))
        started == {q[i] : i \in 1 .. n}
    IN  /\ queue' = SubSeq(q, n + 1, Len(q))
        /\ running' = [t \in DOMAIN active \cup started |->
                         IF t \in started THEN url ELSE active[t]]

NoneRunning == [t \in {} |-> server]

(* may_request()                                                           *)
MayRequest(t) ==
    ~failures[t].known \/ (~failures[t].permanent /\ failures[t].left = 0)

(* enqueue(): once, however often the tile is asked for.                   *)
Enqueue(t) ==
    IF t \in queued THEN UNCHANGED downloads
    ELSE /\ queued' = queued \cup {t}
         /\ StartNext(Append(queue, t), running, server)

(* tile(): memory, disk, or a request for the download.                    *)
Tile(t) ==
    /\ \/ /\ t \in Elements(memory) \cup disk
          /\ memory' = Used(memory, t)
          /\ UNCHANGED downloads
       \/ /\ t \notin Elements(memory) \cup disk
          /\ online /\ MayRequest(t)
          /\ Enqueue(t)
          /\ UNCHANGED memory
    /\ UNCHANGED <<disk, online, server, failures, hist>>

(* set_online()                                                            *)
SetOnline(on) ==
    LET retried == {t \in Tiles : on /\ ~online /\ ~failures[t].permanent}
    IN  /\ online' = on
        /\ failures' = [t \in Tiles |-> IF t \in retried THEN NoFailure ELSE failures[t]]
        /\ hist' = [t \in Tiles |-> IF on /\ ~online
                                    THEN [NoHistory EXCEPT !.gone = hist[t].gone]
                                    ELSE hist[t]]
        /\ IF on THEN UNCHANGED downloads
           ELSE queue' = <<>> /\ queued' = {} /\ running' = NoneRunning
        /\ UNCHANGED <<memory, disk, server>>

(* Mutants of SetUrlTemplate: nothing is started after the aborts, or the  *)
(* downloads from the old server go on.                                    *)
SetUrlTemplate_NoStart(url) ==
    /\ url # server
    /\ server' = url
    /\ failures' = [t \in Tiles |-> NoFailure]
    /\ hist' = [t \in Tiles |-> NoHistory]
    /\ queued' = queued \ DOMAIN running
    /\ running' = NoneRunning
    /\ UNCHANGED <<memory, disk, online, queue>>
SetUrlTemplate_NoAbort(url) ==
    /\ url # server
    /\ server' = url
    /\ failures' = [t \in Tiles |-> NoFailure]
    /\ hist' = [t \in Tiles |-> NoHistory]
    /\ StartNext(queue, running, url)
    /\ UNCHANGED <<memory, disk, online, queued>>

(* set_url_template(): the running downloads are aborted, the queued tiles *)
(* are requested from the new server.                                      *)
SetUrlTemplate(url) ==
    /\ url # server
    /\ server' = url
    /\ failures' = [t \in Tiles |-> NoFailure]
    /\ hist' = [t \in Tiles |-> NoHistory]
    /\ queued' = queued \ DOMAIN running
    /\ StartNext(queue, NoneRunning, url)
    /\ UNCHANGED <<memory, disk, online>>

(* clear(): the failures are kept.                                         *)
Clear ==
    /\ queue' = <<>> /\ queued' = {} /\ running' = NoneRunning
    /\ memory' = <<>>
    /\ disk' = {}
    /\ UNCHANGED <<online, server, failures, hist>>

(* Mutant of RecordFailure: the delay never grows.                         *)
RecordFailure_SameDelay(f, permanent) ==
    IF permanent THEN [f EXCEPT !.permanent = TRUE, !.known = TRUE]
    ELSE [permanent |-> f.permanent, delay |-> RetryDelay, left |-> RetryDelay,
          known |-> TRUE]

(* record_failure()                                                        *)
RecordFailure(f, permanent) ==
    LET delay == IF f.delay = 0 THEN RetryDelay
                 ELSE Smaller(f.delay * 2, LongestDelay)
    IN  IF permanent THEN [f EXCEPT !.permanent = TRUE, !.known = TRUE]
        ELSE [permanent |-> f.permanent, delay |-> delay, left |-> delay, known |-> TRUE]

(* Mutant of Finished: the next download is not started.                   *)
Finished_NoNext(t) ==
    /\ t \in DOMAIN running
    /\ queued' = queued \ {t}
    /\ running' = [u \in DOMAIN running \ {t} |-> running[u]]
    /\ UNCHANGED <<online, server, queue>>

(* finish(): the common part, and its three outcomes.                      *)
Finished(t) ==
    /\ t \in DOMAIN running
    /\ queued' = queued \ {t}
    /\ StartNext(queue, [u \in DOMAIN running \ {t} |-> running[u]], server)
    /\ UNCHANGED <<online, server>>

DownloadSucceeds(t) ==
    /\ Finished(t)
    /\ disk' \in {disk, disk \cup {t}}      \* a failure to write is ignored
    /\ memory' = Used(memory, t)
    /\ failures' = [failures EXCEPT ![t] = NoFailure]
    /\ hist' = [hist EXCEPT ![t] = NoHistory]

DownloadFails(t) ==
    /\ Finished(t)
    /\ failures' = [failures EXCEPT ![t] = RecordFailure(@, FALSE)]
    /\ hist' = [hist EXCEPT ![t].fails = Smaller(@ + 1, MaxFails), ![t].since = 0]
    /\ UNCHANGED <<memory, disk>>

DownloadNotFound(t) ==
    /\ Finished(t)
    /\ failures' = [failures EXCEPT ![t] = RecordFailure(@, TRUE)]
    /\ hist' = [hist EXCEPT ![t].gone = TRUE]
    /\ UNCHANGED <<memory, disk>>

Finish(t) == DownloadSucceeds(t) \/ DownloadFails(t) \/ DownloadNotFound(t)

PassTime ==
    /\ failures' = [t \in Tiles |->
                      [failures[t] EXCEPT !.left = IF @ = 0 THEN 0 ELSE @ - 1]]
    /\ hist' = [t \in Tiles |->
                  [hist[t] EXCEPT !.since = IF hist[t].fails = 0 THEN 0
                                            ELSE Smaller(@ + 1, LongestDelay)]]
    /\ UNCHANGED <<memory, disk, online, server, downloads>>

Next ==
    \/ \E t \in Tiles : Tile(t) \/ Finish(t)
    \/ \E on \in BOOLEAN : SetOnline(on)
    \/ \E url \in Servers : SetUrlTemplate(url)
    \/ Clear
    \/ PassTime

Spec == Init /\ [][Next]_vars

(* Every download finishes: a transfer without data is aborted by the      *)
(* transfer timeout, which finishes it with an error.                      *)
FairSpec == Spec /\ \A t \in Tiles : WF_vars(Finish(t))

-----------------------------------------------------------------------------
(* A tile is never requested twice at once, and nothing in flight is       *)
(* forgotten: queued_ names exactly the tiles that wait or are running.    *)
(* There are never more downloads than the usage policy of the tiles       *)
(* allows, and no slot is left idle while a tile waits, after any mix of   *)
(* failures, aborts and changes of server.                                 *)
RequestsInHand ==
    /\ queued = Elements(queue) \cup DOMAIN running
    /\ Elements(queue) \cap DOMAIN running = {}
    /\ Cardinality(Elements(queue)) = Len(queue)
    /\ Cardinality(DOMAIN running) <= MaxConcurrentDownloads
    /\ queue # <<>> => Cardinality(DOMAIN running) = MaxConcurrentDownloads

(* No request that the operator or the usage policy rules out, after any   *)
(* sequence of failures, changes of server, clears and switches: offline   *)
(* nothing waits or runs; no download runs from a server that was left, so *)
(* that no late reply of it is cached or held against the tile; and a tile *)
(* the server does not have is not asked for again.                        *)
NoUnwantedRequests ==
    /\ ~online => queued = {} /\ queue = <<>> /\ DOMAIN running = {}
    /\ \A t \in DOMAIN running : running[t] = server
    /\ \A t \in Tiles : hist[t].gone => t \notin queued

(* A tile that failed is requested again only after its delay, which       *)
(* doubles with every failure up to the longest delay.                     *)
Doublings[n \in 0 .. MaxFails] == IF n = 0 THEN 1 ELSE 2 * Doublings[n - 1]
DelayAfter(fails) == Smaller(RetryDelay * Doublings[fails - 1], LongestDelay)
BacksOff ==
    [][\A t \in queued' \ queued :
         hist[t].fails > 0 => hist[t].since >= DelayAfter(hist[t].fails)]_vars

(* Every request is answered: a queued tile is downloaded, fails or is     *)
(* dropped, however many tiles wait before it.                             *)
EveryTileAnswered == \A t \in Tiles : (t \in queued) ~> (t \notin queued)
=============================================================================
