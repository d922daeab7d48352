--------------------------- MODULE Desktop_proofs ---------------------------
(***************************************************************************)
(* Proofs about the desktop program: its tile cache, then its main window. *)
(*                                                                         *)
(* TileCache, for every finite set of tiles, any servers and any limits.   *)
(* RequestsInHand and NoUnwantedRequests are not inductive: a queue keeps  *)
(* each tile once because no tile is in it twice (Distinct), not because   *)
(* it has as many elements as places; and that a tile the server does not  *)
(* have stays unrequested rests on the memory of its failure (Remembered), *)
(* which outlives failures, clears and the way back online.                *)
(*                                                                         *)
(* MainWindow, for any profiles, files, places and zooms.  WindowAgrees is *)
(* not inductive either: what a slot shows next rests on parts of the      *)
(* window WindowAgrees does not look at, such as the shape of the track,   *)
(* whether the source was made for the run, and the files (WindowInv).     *)
(***************************************************************************)
EXTENDS TileCache, MainWindow, FiniteSetTheorems, SequenceTheorems,
        WellFoundedInduction, TLAPS

Max == MaxConcurrentDownloads

Failures == [permanent : BOOLEAN, delay : Nat, left : Nat, known : BOOLEAN]
Histories == [gone : BOOLEAN, fails : Nat, since : Nat]

Typed ==
    /\ online \in BOOLEAN
    /\ queue \in Seq(Tiles)
    /\ DOMAIN running \subseteq Tiles
    /\ failures \in [Tiles -> Failures]
    /\ hist \in [Tiles -> Histories]

(* The requests: what waits in q and what is running.                      *)
Orderly(q, active) ==
    /\ IsInjective(q)
    /\ Elements(q) \cap DOMAIN active = {}
    /\ Cardinality(DOMAIN active) <= Max

Busy(q, active) == q # <<>> => Cardinality(DOMAIN active) = Max

Named == queued = Elements(queue) \cup DOMAIN running

Allowed ==
    /\ ~online => queue = <<>> /\ DOMAIN running = {}
    /\ \A t \in DOMAIN running : running[t] = server
    /\ \A t \in Tiles : hist[t].gone => t \notin queued

(* A tile the server does not have has failed for good.                    *)
Remembered ==
    \A t \in Tiles : hist[t].gone => failures[t].known /\ failures[t].permanent

IInv == Typed /\ Orderly(queue, running) /\ Busy(queue, running) /\ Named /\ Allowed /\ Remembered

-----------------------------------------------------------------------------
(* Cardinalities.                                                          *)
LEMMA TilesAreFinite ==
    ASSUME TileCacheAssumption, NEW held \in SUBSET Tiles
    PROVE  IsFiniteSet(held) /\ Cardinality(held) \in Nat
  BY FS_Subset, FS_CardinalityType DEF TileCacheAssumption

LEMMA NoneIsNone == Elements(<<>>) = {} /\ Cardinality({}) = 0 /\ IsInjective(<<>>)
  BY FS_EmptySet DEF Elements, IsInjective

(* The first n elements of a queue without repetitions are n tiles.        *)
LEMMA FirstOnes ==
    ASSUME NEW q \in Seq(Tiles), IsInjective(q), NEW n \in 0 .. Len(q)
    PROVE  Cardinality({q[i] : i \in 1 .. n}) = n
<1> DEFINE S == {q[i] : i \in 1 .. n}
           f == [i \in 1 .. n |-> q[i]]
<1>1. \A i \in 1 .. n : i \in DOMAIN q OBVIOUS
<1>2. f \in [1 .. n -> S] OBVIOUS
<1>3. IsInjective(f) BY <1>1 DEF IsInjective
<1>4. \A t \in S : \E i \in 1 .. n : f[i] = t OBVIOUS
<1>5. f \in Bijection(1 .. n, S)
  BY <1>2, <1>3, <1>4 DEF Bijection, Injection, Surjection
<1>6. ExistsBijection(1 .. n, S) BY <1>5 DEF ExistsBijection
<1> QED BY <1>6, FS_CountingElements

(* What an appended tile does to a queue it was not in.                    *)
LEMMA AppendFacts ==
    ASSUME NEW q \in Seq(Tiles), NEW t \in Tiles, IsInjective(q), t \notin Elements(q)
    PROVE  /\ Append(q, t) \in Seq(Tiles)
           /\ IsInjective(Append(q, t))
           /\ Elements(Append(q, t)) = Elements(q) \cup {t}
<1>1. /\ Append(q, t) \in Seq(Tiles)
      /\ DOMAIN Append(q, t) = 1 .. Len(q) + 1
      /\ DOMAIN q = 1 .. Len(q)
      /\ Len(q) \in Nat
      /\ \A i \in 1 .. Len(q) : Append(q, t)[i] = q[i]
      /\ Append(q, t)[Len(q) + 1] = t
  OBVIOUS
<1>2. IsInjective(Append(q, t)) BY <1>1 DEF IsInjective, Elements
<1>3. Elements(Append(q, t)) = Elements(q) \cup {t} BY <1>1 DEF Elements
<1> QED BY <1>1, <1>2, <1>3

-----------------------------------------------------------------------------
(* start_next(), whatever waits and runs before it: the same tiles are     *)
(* requested after it, in order, and no slot is idle while a tile waits.   *)
LEMMA StartNextFacts ==
    ASSUME TileCacheAssumption, NEW q \in Seq(Tiles), NEW active, NEW url,
           DOMAIN active \in SUBSET Tiles, Orderly(q, active),
           StartNext(q, active, url)
    PROVE  /\ queue' \in Seq(Tiles)
           /\ DOMAIN running' \subseteq Tiles
           /\ Orderly(queue', running')
           /\ Busy(queue', running')
           /\ Elements(queue') \cup DOMAIN running' = Elements(q) \cup DOMAIN active
           /\ \A t \in DOMAIN running' :
                running'[t] = url \/ (t \in DOMAIN active /\ running'[t] = active[t])
<1>1. PICK c \in Nat : c = Cardinality(DOMAIN active) BY TilesAreFinite
<1>2. Max \in Nat /\ c <= Max /\ Len(q) \in Nat
  BY <1>1 DEF TileCacheAssumption, Orderly, Max
<1>3. PICK n \in 0 .. Len(q) :
        /\ c + n <= Max /\ (n = Len(q) \/ c + n = Max)
        /\ queue' = SubSeq(q, n + 1, Len(q))
        /\ running' = [t \in DOMAIN active \cup {q[i] : i \in 1 .. n} |->
                         IF t \in {q[i] : i \in 1 .. n} THEN url ELSE active[t]]
  <2> DEFINE n == Smaller(Len(q), Max - c)
  <2>1. n \in 0 .. Len(q) /\ c + n <= Max /\ (n = Len(q) \/ c + n = Max)
    BY <1>1, <1>2 DEF Smaller
  <2>2. /\ queue' = SubSeq(q, n + 1, Len(q))
        /\ running' = [t \in DOMAIN active \cup {q[i] : i \in 1 .. n} |->
                         IF t \in {q[i] : i \in 1 .. n} THEN url ELSE active[t]]
    BY <1>1 DEF StartNext, Max
  <2> HIDE DEF n
  <2> QED BY <2>1, <2>2
<1> DEFINE started == {q[i] : i \in 1 .. n}
<1>4. DOMAIN q = 1 .. Len(q) /\ \A i \in 1 .. Len(q) : q[i] \in Tiles OBVIOUS
<1>5. started \in SUBSET Tiles /\ started \subseteq Elements(q)
  BY <1>2, <1>4 DEF Elements
<1>6. Cardinality(started) = n BY FirstOnes DEF Orderly
<1>7. DOMAIN running' = DOMAIN active \cup started BY <1>3
<1>8. started \cap DOMAIN active = {} BY <1>5 DEF Orderly
<1>9. Cardinality(DOMAIN running') = c + n
  <2>1. /\ IsFiniteSet(started) /\ IsFiniteSet(DOMAIN active)
    BY <1>5, TilesAreFinite
  <2>2. Cardinality(DOMAIN active \cup started) =
        Cardinality(DOMAIN active) + Cardinality(started)
            - Cardinality(DOMAIN active \cap started)
    BY <2>1, FS_Union
  <2>3. DOMAIN active \cap started = {} BY <1>8
  <2>4. Cardinality(DOMAIN active \cap started) = 0 BY <2>3, NoneIsNone
  <2>5. Cardinality(DOMAIN active \cup started) = c + n - 0
    BY <2>2, <2>4, <1>6, <1>1
  <2> QED BY <2>5, <1>7, <1>2
<1>10. /\ queue' \in Seq(Tiles)
       /\ Len(queue') = Len(q) - n
       /\ \A i \in 1 .. Len(q) - n : queue'[i] = q[n + i]
  <2>1. \A i \in n + 1 .. Len(q) : q[i] \in Tiles BY <1>2, <1>4
  <2>2. n + 1 \in Int /\ Len(q) \in Int BY <1>2
  <2>3. /\ SubSeq(q, n + 1, Len(q)) \in Seq(Tiles)
        /\ Len(SubSeq(q, n + 1, Len(q))) =
             IF n + 1 <= Len(q) THEN Len(q) - (n + 1) + 1 ELSE 0
        /\ \A i \in 1 .. Len(q) - (n + 1) + 1 :
             SubSeq(q, n + 1, Len(q))[i] = q[n + 1 + i - 1]
    BY <2>1, <2>2, SubSeqProperties
  <2>4. Len(queue') = Len(q) - n BY <1>2, <1>3, <2>3
  <2>5. ASSUME NEW i \in 1 .. Len(q) - n PROVE queue'[i] = q[n + i]
    <3>1. i \in 1 .. Len(q) - (n + 1) + 1 /\ n + 1 + i - 1 = n + i BY <1>2
    <3> QED BY <3>1, <2>3, <1>3
  <2> QED BY <2>3, <2>4, <2>5, <1>3
<1>11. DOMAIN queue' = 1 .. Len(q) - n BY <1>10
<1>12. IsInjective(queue')
  <2> SUFFICES ASSUME NEW i \in 1 .. Len(q) - n, NEW j \in 1 .. Len(q) - n,
                      queue'[i] = queue'[j]
               PROVE  i = j
    BY <1>11 DEF IsInjective
  <2>1. n + i \in DOMAIN q /\ n + j \in DOMAIN q BY <1>2, <1>4
  <2>2. q[n + i] = q[n + j] BY <1>10
  <2>3. n + i = n + j BY <2>1, <2>2 DEF Orderly, IsInjective
  <2> QED BY <2>3, <1>2
<1>13. Elements(queue') = Elements(q) \ started
  <2>1. ASSUME NEW t \in Elements(queue') PROVE t \in Elements(q) \ started
    <3>1. PICK i \in 1 .. Len(q) - n : t = queue'[i] BY <1>11 DEF Elements
    <3>2. n + i \in DOMAIN q /\ t = q[n + i] BY <3>1, <1>2, <1>4, <1>10
    <3>3. ASSUME NEW j \in 1 .. n, t = q[j] PROVE FALSE
      <4>1. j \in DOMAIN q BY <1>2, <1>4
      <4>2. j = n + i BY <4>1, <3>2, <3>3 DEF Orderly, IsInjective
      <4> QED BY <4>2, <1>2
    <3> QED BY <3>2, <3>3 DEF Elements
  <2>2. ASSUME NEW t \in Elements(q) \ started PROVE t \in Elements(queue')
    <3>1. PICK k \in 1 .. Len(q) : t = q[k] BY <1>4 DEF Elements
    <3>2. k > n BY <3>1, <2>2, <1>2
    <3>3. k - n \in 1 .. Len(q) - n /\ n + (k - n) = k BY <3>2, <1>2
    <3>4. queue'[k - n] = t BY <3>1, <3>3, <1>10
    <3> QED BY <3>3, <3>4, <1>11 DEF Elements
  <2> QED BY <2>1, <2>2
<1>14. Orderly(queue', running')
  BY <1>3, <1>5, <1>7, <1>9, <1>12, <1>13 DEF Orderly
<1>15. Busy(queue', running')
  <2> SUFFICES ASSUME queue' # <<>> PROVE Cardinality(DOMAIN running') = Max BY DEF Busy
  <2>1. Len(queue') # 0 BY <1>10
  <2> QED BY <2>1, <1>2, <1>3, <1>9, <1>10
<1>16. Elements(queue') \cup DOMAIN running' = Elements(q) \cup DOMAIN active
  BY <1>5, <1>7, <1>13
<1>17. \A t \in DOMAIN running' :
         running'[t] = url \/ (t \in DOMAIN active /\ running'[t] = active[t])
  BY <1>3
<1> QED BY <1>5, <1>7, <1>10, <1>14, <1>15, <1>16, <1>17

(* One download that ended leaves the others as they were.                 *)
LEMMA OneLess ==
    ASSUME TileCacheAssumption, NEW t, DOMAIN running \subseteq Tiles,
           Orderly(queue, running)
    PROVE  Orderly(queue, [u \in DOMAIN running \ {t} |-> running[u]])
<1> DEFINE rest == [u \in DOMAIN running \ {t} |-> running[u]]
<1>1. DOMAIN rest = DOMAIN running \ {t} OBVIOUS
<1>2. IsFiniteSet(DOMAIN running) BY TilesAreFinite
<1>3. DOMAIN running \ {t} \in SUBSET DOMAIN running OBVIOUS
<1>4. Cardinality(DOMAIN running \ {t}) <= Cardinality(DOMAIN running)
  BY <1>2, <1>3, FS_Subset
<1>5. /\ Cardinality(DOMAIN running) \in Nat
      /\ Cardinality(DOMAIN running \ {t}) \in Nat
  BY TilesAreFinite
<1>6. Max \in Nat BY DEF TileCacheAssumption, Max
<1> HIDE DEF rest
<1> QED BY <1>1, <1>4, <1>5, <1>6 DEF Orderly

LEMMA InvParts == IInv => RequestsInHand /\ NoUnwantedRequests
<1> SUFFICES ASSUME IInv PROVE RequestsInHand /\ NoUnwantedRequests OBVIOUS
<1>1. Cardinality(Elements(queue)) = Len(queue)
  <2>1. queue \in Seq(Tiles) /\ IsInjective(queue) BY DEF IInv, Typed, Orderly
  <2>2. Len(queue) \in 0 .. Len(queue) /\ DOMAIN queue = 1 .. Len(queue) BY <2>1
  <2>3. Cardinality({queue[i] : i \in 1 .. Len(queue)}) = Len(queue)
    BY <2>1, <2>2, FirstOnes
  <2> QED BY <2>2, <2>3 DEF Elements
<1>2. RequestsInHand
  BY <1>1 DEF IInv, Orderly, Busy, Named, Max, RequestsInHand
<1>3. NoUnwantedRequests
  <2>1. ~online => queued = {}
    BY NoneIsNone DEF IInv, Named, Allowed
  <2> QED BY <2>1 DEF IInv, Allowed, NoUnwantedRequests
<1> QED BY <1>2, <1>3

LEMMA InitInv == TileCacheAssumption /\ Init => IInv
<1> SUFFICES ASSUME TileCacheAssumption, Init PROVE IInv OBVIOUS
<1>1. DOMAIN running = {} BY DEF Init
<1>2. Typed BY <1>1 DEF Init, Typed, NoFailure, NoHistory, Failures, Histories
<1>3. Max \in Nat BY DEF TileCacheAssumption, Max
<1>4. Orderly(queue, running) /\ Busy(queue, running)
  BY <1>1, <1>3, NoneIsNone DEF Init, Orderly, Busy
<1>5. Named /\ Allowed /\ Remembered
  BY <1>1, NoneIsNone DEF Init, Named, Allowed, Remembered, NoHistory
<1> QED BY <1>2, <1>4, <1>5 DEF IInv

LEMMA EmptyQueue ==
    ASSUME NEW q \in Seq(Tiles), Elements(q) = {}
    PROVE  q = <<>>
<1>1. DOMAIN q = 1 .. Len(q) /\ Len(q) \in Nat OBVIOUS
<1>2. 1 \notin DOMAIN q BY DEF Elements
<1> QED BY <1>1, <1>2

(* With nothing left of the requests, they are in order.                   *)
LEMMA NothingRequested ==
    ASSUME TileCacheAssumption, queue' = <<>>, queued' = {}, DOMAIN running' = {}
    PROVE  /\ queue' \in Seq(Tiles) /\ DOMAIN running' \subseteq Tiles
           /\ Orderly(queue', running') /\ Busy(queue', running') /\ Named'
<1>1. Max \in Nat BY DEF TileCacheAssumption, Max
<1>2. Elements(queue') = {} /\ IsInjective(queue') BY NoneIsNone
<1>3. Cardinality(DOMAIN running') = 0 BY NoneIsNone
<1>4. Orderly(queue', running') /\ Busy(queue', running')
  BY <1>1, <1>2, <1>3 DEF Orderly, Busy
<1>5. Named' BY <1>2 DEF Named
<1> QED BY <1>4, <1>5

-----------------------------------------------------------------------------
(* tile(): a tile that may be requested is not one the server lacks.       *)
LEMMA TileInv ==
    ASSUME TileCacheAssumption, IInv, NEW t \in Tiles, Tile(t)
    PROVE  IInv'
<1>1. UNCHANGED <<online, server, failures, hist>> BY DEF Tile
<1>2. CASE UNCHANGED downloads
  BY <1>1, <1>2 DEF IInv, Typed, Orderly, Busy, Named, Allowed, Remembered, downloads
<1>3. CASE ~ UNCHANGED downloads
  <2>1. /\ online /\ MayRequest(t) /\ t \notin queued
        /\ queued' = queued \cup {t}
        /\ StartNext(Append(queue, t), running, server)
    BY <1>3 DEF Tile, Enqueue
  <2>2. queue \in Seq(Tiles) /\ IsInjective(queue) /\ t \notin Elements(queue)
    BY <2>1 DEF IInv, Typed, Orderly, Named
  <2>3. /\ Append(queue, t) \in Seq(Tiles)
        /\ IsInjective(Append(queue, t))
        /\ Elements(Append(queue, t)) = Elements(queue) \cup {t}
    BY <2>2, AppendFacts
  <2>4. Orderly(Append(queue, t), running)
    BY <2>1, <2>3 DEF IInv, Orderly, Named
  <2>5. DOMAIN running \in SUBSET Tiles BY DEF IInv, Typed
  <2>6. /\ queue' \in Seq(Tiles)
        /\ DOMAIN running' \subseteq Tiles
        /\ Orderly(queue', running')
        /\ Busy(queue', running')
        /\ Elements(queue') \cup DOMAIN running' =
              Elements(Append(queue, t)) \cup DOMAIN running
        /\ \A u \in DOMAIN running' :
             running'[u] = server \/ (u \in DOMAIN running /\ running'[u] = running[u])
    BY <2>1, <2>3, <2>4, <2>5, StartNextFacts
  <2>7. Named' BY <2>1, <2>3, <2>6 DEF IInv, Named
  <2>8. ~ hist[t].gone BY <2>1 DEF IInv, Remembered, MayRequest
  <2>9. Allowed' BY <1>1, <2>1, <2>6, <2>8 DEF IInv, Allowed
  <2>10. Typed' /\ Remembered' BY <1>1, <2>6 DEF IInv, Typed, Remembered
  <2> QED BY <2>6, <2>7, <2>9, <2>10 DEF IInv
<1> QED BY <1>2, <1>3

(* set_online(): what failed for good stays so.                            *)
LEMMA SetOnlineInv ==
    ASSUME TileCacheAssumption, IInv, NEW on \in BOOLEAN, SetOnline(on)
    PROVE  IInv'
<1>1. ASSUME NEW t \in Tiles
      PROVE  /\ failures'[t] \in Failures /\ hist'[t] \in Histories
             /\ hist'[t].gone = hist[t].gone
             /\ failures[t].permanent => failures'[t] = failures[t]
  <2>1. failures[t] \in Failures /\ hist[t] \in Histories BY DEF IInv, Typed
  <2>2. NoFailure \in Failures BY DEF NoFailure, Failures
  <2>3. failures'[t] = failures[t] \/ (~failures[t].permanent /\ failures'[t] = NoFailure)
    BY DEF SetOnline
  <2>4. \/ hist'[t] = hist[t]
        \/ hist'[t] = [gone |-> hist[t].gone, fails |-> 0, since |-> 0]
    BY DEF SetOnline, NoHistory
  <2>5. hist'[t] \in Histories /\ hist'[t].gone = hist[t].gone
    BY <2>1, <2>4 DEF Histories
  <2> QED BY <2>1, <2>2, <2>3, <2>5
<1>2. /\ failures' \in [Tiles -> Failures] /\ hist' \in [Tiles -> Histories]
  <2>1. /\ failures' = [t \in Tiles |-> failures'[t]]
        /\ hist' = [t \in Tiles |-> hist'[t]]
    BY DEF SetOnline
  <2> QED BY <2>1, <1>1
<1>3. Remembered' BY <1>1 DEF IInv, Remembered
<1>4. CASE on
  <2>1. online' /\ UNCHANGED <<server, queue, queued, running>>
    BY <1>4 DEF SetOnline, downloads
  <2>2. Typed' BY <1>2, <2>1 DEF IInv, Typed
  <2>3. Orderly(queue', running') /\ Busy(queue', running') /\ Named'
    BY <2>1 DEF IInv, Orderly, Busy, Named
  <2>4. Allowed' BY <1>1, <2>1 DEF IInv, Allowed
  <2> QED BY <1>3, <2>2, <2>3, <2>4 DEF IInv
<1>5. CASE ~on
  <2>1. ~online' /\ queue' = <<>> /\ queued' = {} /\ DOMAIN running' = {}
    BY <1>5 DEF SetOnline, NoneRunning
  <2>2. Typed' BY <1>2, <1>5, <2>1, NothingRequested DEF Typed, SetOnline
  <2>3. Allowed' BY <2>1 DEF Allowed
  <2> QED BY <1>3, <2>1, <2>2, <2>3, NothingRequested DEF IInv
<1> QED BY <1>4, <1>5

(* set_url_template(): the new server takes over the whole queue.          *)
LEMMA SetUrlTemplateInv ==
    ASSUME TileCacheAssumption, IInv, NEW url \in Servers, SetUrlTemplate(url)
    PROVE  IInv'
<1>1. /\ server' = url
      /\ failures' = [t \in Tiles |-> NoFailure]
      /\ hist' = [t \in Tiles |-> NoHistory]
      /\ queued' = queued \ DOMAIN running
      /\ StartNext(queue, NoneRunning, url)
      /\ online' = online
  BY DEF SetUrlTemplate
<1>2. DOMAIN NoneRunning = {} BY DEF NoneRunning
<1>3. queue \in Seq(Tiles) BY DEF IInv, Typed
<1>4. Max \in Nat BY DEF TileCacheAssumption, Max
<1>5. Orderly(queue, NoneRunning)
  BY <1>2, <1>4, NoneIsNone DEF IInv, Orderly
<1>6. DOMAIN NoneRunning \in SUBSET Tiles BY <1>2
<1>7. /\ queue' \in Seq(Tiles)
      /\ DOMAIN running' \subseteq Tiles
      /\ Orderly(queue', running')
      /\ Busy(queue', running')
      /\ Elements(queue') \cup DOMAIN running' = Elements(queue) \cup DOMAIN NoneRunning
      /\ \A t \in DOMAIN running' :
           running'[t] = url \/ (t \in DOMAIN NoneRunning /\ running'[t] = NoneRunning[t])
  BY <1>1, <1>3, <1>5, <1>6, StartNextFacts
<1>8. Named' BY <1>1, <1>2, <1>7 DEF IInv, Orderly, Named
<1>9. Typed'
  BY <1>1, <1>7 DEF IInv, Typed, NoFailure, NoHistory, Failures, Histories
<1>10. \A t \in Tiles : ~ hist'[t].gone BY <1>1 DEF NoHistory
<1>11. ~online => Elements(queue') = {} /\ DOMAIN running' = {}
  BY <1>2, <1>7, NoneIsNone DEF IInv, Allowed
<1>12. ~online => queue' = <<>> BY <1>7, <1>11, EmptyQueue
<1>13. Allowed' BY <1>1, <1>2, <1>7, <1>10, <1>11, <1>12 DEF Allowed
<1>14. Remembered' BY <1>10 DEF Remembered
<1> QED BY <1>7, <1>8, <1>9, <1>13, <1>14 DEF IInv

LEMMA ClearInv == ASSUME TileCacheAssumption, IInv, Clear PROVE IInv'
<1>1. /\ queue' = <<>> /\ queued' = {} /\ DOMAIN running' = {}
      /\ UNCHANGED <<online, server, failures, hist>>
  BY DEF Clear, NoneRunning
<1>2. Typed' /\ Remembered' BY <1>1, NothingRequested DEF IInv, Typed, Remembered
<1>3. Allowed' BY <1>1 DEF Allowed
<1> QED BY <1>1, <1>2, <1>3, NothingRequested DEF IInv

(* finish(), but for what it remembers of the tile.                        *)
LEMMA FinishedFacts ==
    ASSUME TileCacheAssumption, IInv, NEW t \in Tiles, Finished(t)
    PROVE  /\ queue' \in Seq(Tiles)
           /\ DOMAIN running' \subseteq Tiles
           /\ Orderly(queue', running')
           /\ Busy(queue', running')
           /\ Named'
           /\ queued' = queued \ {t}
           /\ online /\ online'
           /\ \A u \in DOMAIN running' : running'[u] = server'
<1> DEFINE rest == [u \in DOMAIN running \ {t} |-> running[u]]
<1>1. /\ t \in DOMAIN running
      /\ queued' = queued \ {t}
      /\ StartNext(queue, rest, server)
      /\ UNCHANGED <<online, server>>
  BY DEF Finished
<1>2. DOMAIN rest = DOMAIN running \ {t} /\ \A u \in DOMAIN rest : rest[u] = running[u]
  OBVIOUS
<1>3. queue \in Seq(Tiles) /\ DOMAIN rest \in SUBSET Tiles BY <1>2 DEF IInv, Typed
<1>4. Orderly(queue, rest) BY OneLess DEF IInv, Typed
<1> HIDE DEF rest
<1>5. /\ queue' \in Seq(Tiles)
      /\ DOMAIN running' \subseteq Tiles
      /\ Orderly(queue', running')
      /\ Busy(queue', running')
      /\ Elements(queue') \cup DOMAIN running' = Elements(queue) \cup DOMAIN rest
      /\ \A u \in DOMAIN running' :
           running'[u] = server \/ (u \in DOMAIN rest /\ running'[u] = rest[u])
  BY <1>1, <1>3, <1>4, StartNextFacts
<1>6. Named' BY <1>1, <1>2, <1>5 DEF IInv, Orderly, Named
<1>7. online /\ online' BY <1>1 DEF IInv, Allowed
<1>8. \A u \in DOMAIN running' : running'[u] = server'
  BY <1>1, <1>2, <1>5 DEF IInv, Allowed
<1> QED BY <1>1, <1>5, <1>6, <1>7, <1>8

(* record_failure() keeps what failed for good.                            *)
LEMMA RecordFailureFacts ==
    ASSUME TileCacheAssumption, NEW f \in Failures, NEW permanent \in BOOLEAN
    PROVE  /\ RecordFailure(f, permanent) \in Failures
           /\ RecordFailure(f, permanent).known
           /\ f.permanent \/ permanent => RecordFailure(f, permanent).permanent
<1> DEFINE delay == IF f.delay = 0 THEN RetryDelay ELSE Smaller(f.delay * 2, LongestDelay)
<1>1. delay \in Nat
  BY DEF TileCacheAssumption, Failures, Smaller, Higher, LongestDelay
<1> HIDE DEF delay
<1>2. CASE permanent
  <2>1. RecordFailure(f, permanent) =
          [permanent |-> TRUE, delay |-> f.delay, left |-> f.left, known |-> TRUE]
    BY <1>2 DEF RecordFailure, Failures
  <2> QED BY <2>1 DEF Failures
<1>3. CASE ~permanent
  <2>1. RecordFailure(f, permanent) =
          [permanent |-> f.permanent, delay |-> delay, left |-> delay, known |-> TRUE]
    BY <1>3 DEF RecordFailure, delay
  <2> QED BY <1>1, <1>3, <2>1 DEF Failures
<1> QED BY <1>2, <1>3

(* The three outcomes differ in what they leave for the tile itself.       *)
LEMMA OutcomeInv ==
    ASSUME TileCacheAssumption, IInv, NEW t \in Tiles, Finished(t),
           NEW f \in Failures, NEW h \in Histories,
           failures' = [failures EXCEPT ![t] = f],
           hist' = [hist EXCEPT ![t] = h],
           h.gone => f.known /\ f.permanent
    PROVE  IInv'
<1>1. /\ queue' \in Seq(Tiles)
      /\ DOMAIN running' \subseteq Tiles
      /\ Orderly(queue', running')
      /\ Busy(queue', running')
      /\ Named'
      /\ queued' = queued \ {t}
      /\ online /\ online'
      /\ \A u \in DOMAIN running' : running'[u] = server'
  BY FinishedFacts
<1>2. Typed' BY <1>1 DEF IInv, Typed
<1>3. Allowed' BY <1>1 DEF IInv, Typed, Allowed
<1>4. Remembered' BY DEF IInv, Typed, Remembered
<1> QED BY <1>1, <1>2, <1>3, <1>4 DEF IInv

LEMMA FinishInv ==
    ASSUME TileCacheAssumption, IInv, NEW t \in Tiles, Finish(t)
    PROVE  IInv'
<1>1. failures[t] \in Failures /\ hist[t] \in Histories BY DEF IInv, Typed
<1>2. hist[t].gone => failures[t].known /\ failures[t].permanent
  BY DEF IInv, Remembered
<1>3. CASE DownloadSucceeds(t)
  <2>1. NoFailure \in Failures /\ NoHistory \in Histories /\ ~ NoHistory.gone
    BY DEF NoFailure, NoHistory, Failures, Histories
  <2>2. /\ Finished(t) /\ failures' = [failures EXCEPT ![t] = NoFailure]
        /\ hist' = [hist EXCEPT ![t] = NoHistory]
    BY <1>3 DEF DownloadSucceeds
  <2> QED BY <2>1, <2>2, OutcomeInv
<1>4. CASE DownloadFails(t)
  <2> DEFINE f == RecordFailure(failures[t], FALSE)
             h == [hist[t] EXCEPT !.fails = Smaller(hist[t].fails + 1, MaxFails),
                                  !.since = 0]
  <2>1. f \in Failures /\ (failures[t].permanent => f.known /\ f.permanent)
    BY <1>1, RecordFailureFacts
  <2>2. h \in Histories /\ h.gone = hist[t].gone
    <3>1. PICK n \in Nat : n = Smaller(hist[t].fails + 1, MaxFails)
      BY <1>1 DEF Histories, Smaller, TileCacheAssumption
    <3>2. h = [hist[t] EXCEPT !.fails = n, !.since = 0] BY <3>1
    <3> HIDE DEF h
    <3> QED BY <1>1, <3>2 DEF Histories
  <2>3. Finished(t) /\ failures' = [failures EXCEPT ![t] = f]
    BY <1>4 DEF DownloadFails
  <2>4. hist' = [hist EXCEPT ![t] = h]
    <3>1. hist \in [Tiles -> Histories] BY DEF IInv, Typed
    <3>2. hist' = [hist EXCEPT ![t].fails = Smaller(@ + 1, MaxFails), ![t].since = 0]
      BY <1>4 DEF DownloadFails
    <3> QED BY <3>1, <3>2, Zenon
  <2> HIDE DEF f, h
  <2> QED BY <1>2, <2>1, <2>2, <2>3, <2>4, OutcomeInv
<1>5. CASE DownloadNotFound(t)
  <2> DEFINE f == RecordFailure(failures[t], TRUE)
             h == [hist[t] EXCEPT !.gone = TRUE]
  <2>1. f \in Failures /\ f.known /\ f.permanent BY <1>1, RecordFailureFacts
  <2>2. h \in Histories BY <1>1 DEF Histories
  <2>3. Finished(t) /\ failures' = [failures EXCEPT ![t] = f]
    BY <1>5 DEF DownloadNotFound
  <2>4. hist' = [hist EXCEPT ![t] = h]
    <3>1. hist \in [Tiles -> Histories] BY DEF IInv, Typed
    <3>2. hist' = [hist EXCEPT ![t].gone = TRUE] BY <1>5 DEF DownloadNotFound
    <3> QED BY <3>1, <3>2, Zenon
  <2> HIDE DEF f, h
  <2> QED BY <2>1, <2>2, <2>3, <2>4, OutcomeInv
<1> QED BY <1>3, <1>4, <1>5 DEF Finish

LEMMA PassTimeInv == ASSUME TileCacheAssumption, IInv, PassTime PROVE IInv'
<1>1. UNCHANGED <<online, server, queue, queued, running>>
  BY DEF PassTime, downloads
<1>2. ASSUME NEW t \in Tiles
      PROVE  /\ failures'[t] \in Failures /\ hist'[t] \in Histories
             /\ hist'[t].gone = hist[t].gone
             /\ failures'[t].known = failures[t].known
             /\ failures'[t].permanent = failures[t].permanent
  <2>1. failures[t] \in Failures /\ hist[t] \in Histories BY DEF IInv, Typed
  <2>2. failures'[t] =
          [permanent |-> failures[t].permanent, delay |-> failures[t].delay,
           left |-> IF failures[t].left = 0 THEN 0 ELSE failures[t].left - 1,
           known |-> failures[t].known]
    BY <2>1 DEF PassTime, Failures
  <2>3. hist'[t] =
          [gone |-> hist[t].gone, fails |-> hist[t].fails,
           since |-> IF hist[t].fails = 0 THEN 0
                     ELSE Smaller(hist[t].since + 1, LongestDelay)]
    BY <2>1 DEF PassTime, Histories
  <2>4. failures'[t] \in Failures BY <2>1, <2>2 DEF Failures
  <2>5. hist'[t] \in Histories
    BY <2>1, <2>3 DEF Histories, Smaller, Higher, LongestDelay, TileCacheAssumption
  <2> QED BY <2>2, <2>3, <2>4, <2>5
<1>3. /\ failures' = [t \in Tiles |-> failures'[t]]
      /\ hist' = [t \in Tiles |-> hist'[t]]
  BY DEF PassTime
<1>4. Typed' BY <1>1, <1>2, <1>3 DEF IInv, Typed
<1>5. Orderly(queue', running') /\ Busy(queue', running') /\ Named'
  BY <1>1 DEF IInv, Orderly, Busy, Named
<1>6. Allowed' /\ Remembered' BY <1>1, <1>2 DEF IInv, Allowed, Remembered
<1> QED BY <1>4, <1>5, <1>6 DEF IInv

LEMMA NextInv == TileCacheAssumption /\ IInv /\ [Next]_vars => IInv'
<1> SUFFICES ASSUME TileCacheAssumption, IInv, [Next]_vars PROVE IInv' OBVIOUS
<1>1. CASE \E t \in Tiles : Tile(t) BY <1>1, TileInv
<1>2. CASE \E t \in Tiles : Finish(t) BY <1>2, FinishInv
<1>3. CASE \E on \in BOOLEAN : SetOnline(on) BY <1>3, SetOnlineInv
<1>4. CASE \E url \in Servers : SetUrlTemplate(url) BY <1>4, SetUrlTemplateInv
<1>5. CASE Clear BY <1>5, ClearInv
<1>6. CASE PassTime BY <1>6, PassTimeInv
<1>7. CASE UNCHANGED vars
  BY <1>7 DEF IInv, Typed, Orderly, Busy, Named, Allowed, Remembered, vars
<1> QED BY <1>1, <1>2, <1>3, <1>4, <1>5, <1>6, <1>7 DEF Next

LEMMA SpecInv == ASSUME TileCacheAssumption PROVE Spec => []IInv
<1>1. Init => IInv BY InitInv
<1>2. IInv /\ [Next]_vars => IInv' BY NextInv
<1> QED BY <1>1, <1>2, PTL DEF Spec

-----------------------------------------------------------------------------
(* Whatever is asked for, fails, is aborted or is sent to another server:  *)
(* what is queued is known to be, once, there are at most as many          *)
(* downloads as allowed, and none fewer while a tile waits (start_next,    *)
(* finish, set_url_template).                                              *)
THEOREM RequestsStayInHand == ASSUME TileCacheAssumption PROVE Spec => []RequestsInHand
<1>1. IInv => RequestsInHand BY InvParts
<1> QED BY <1>1, SpecInv, PTL

(* Nothing is asked for offline, of a server that was left, or that the    *)
(* server does not have (tile, set_online, record_failure).                *)
THEOREM NothingUnwanted == ASSUME TileCacheAssumption PROVE Spec => []NoUnwantedRequests
<1>1. IInv => NoUnwantedRequests BY InvParts
<1> QED BY <1>1, SpecInv, PTL
-----------------------------------------------------------------------------
(* The delays.  Doublings is a recursive function: that there is one, and  *)
(* that it is positive, is shown by the least place where it would fail.   *)
LEMMA LeastNat ==
    ASSUME NEW T \in SUBSET Nat, T # {}
    PROVE  \E m \in T : \A x \in T : m <= x
<1>1. PICK m \in T : \A x \in T : ~ (<<x, m>> \in OpToRel(<, Nat))
  BY WFMin, NatLessThanWellFounded
<1>2. \A x \in T : ~ (x < m)
  BY <1>1 DEF OpToRel
<1> QED BY <1>2

LEMMA DoublingsExist ==
    ASSUME NEW k \in Nat
    PROVE  \E f : f = [n \in 0 .. k |-> IF n = 0 THEN 1 ELSE 2 * f[n - 1]]
<1> DEFINE P(j) == \E f : f = [n \in 0 .. j |-> IF n = 0 THEN 1 ELSE 2 * f[n - 1]]
           Bad == {j \in Nat : ~ P(j)}
<1>1. SUFFICES ASSUME Bad # {} PROVE FALSE
  <2>1. P(k)
    <3> HIDE DEF P
    <3> QED BY <1>1
  <2> QED BY <2>1
<1>2. Bad \in SUBSET Nat OBVIOUS
<1>3. PICK m \in Bad : \A x \in Bad : m <= x
  <2> HIDE DEF Bad
  <2> QED BY <1>1, <1>2, LeastNat
<1>4. m \in Nat /\ ~ P(m)
  <2> HIDE DEF P
  <2> QED OBVIOUS
<1>5. m # 0
  <2>1. P(0)
    <3> DEFINE f == [n \in 0 .. 0 |-> 1]
    <3>1. f = [n \in 0 .. 0 |-> IF n = 0 THEN 1 ELSE 2 * f[n - 1]] OBVIOUS
    <3> HIDE DEF f
    <3> QED BY <3>1
  <2> HIDE DEF P
  <2> QED BY <2>1, <1>4
<1>6. m - 1 \in Nat BY <1>4, <1>5
<1>7. P(m - 1)
  <2>1. m - 1 \notin Bad
    <3> HIDE DEF Bad
    <3> QED BY <1>3, <1>4, <1>6
  <2> HIDE DEF P
  <2> QED BY <2>1, <1>6
<1>8. PICK f : f = [n \in 0 .. m - 1 |-> IF n = 0 THEN 1 ELSE 2 * f[n - 1]] BY <1>7
<1> DEFINE g == [n \in 0 .. m |-> IF n < m THEN f[n] ELSE 2 * f[m - 1]]
<1>9. \A n \in 0 .. m : g[n] = IF n = 0 THEN 1 ELSE 2 * g[n - 1]
  <2> TAKE n \in 0 .. m
  <2>1. n # 0 => n - 1 \in 0 .. m /\ n - 1 < m /\ g[n - 1] = f[n - 1]
    BY <1>4, <1>6
  <2>2. CASE n < m
    <3>1. n \in 0 .. m - 1 /\ g[n] = f[n] BY <1>4, <2>2
    <3>2. f[n] = IF n = 0 THEN 1 ELSE 2 * f[n - 1] BY <1>8, <3>1
    <3> HIDE DEF g
    <3> QED BY <2>1, <3>1, <3>2
  <2>3. CASE n = m
    <3>1. g[n] = 2 * f[m - 1] BY <1>4, <2>3
    <3> HIDE DEF g
    <3> QED BY <2>1, <2>3, <1>5, <3>1
  <2> QED BY <1>4, <2>2, <2>3
<1>10. g = [n \in 0 .. m |-> IF n = 0 THEN 1 ELSE 2 * g[n - 1]]
  <2>1. g = [n \in 0 .. m |-> g[n]] OBVIOUS
  <2> HIDE DEF g
  <2> QED BY <1>9, <2>1
<1>11. P(m)
  <2> HIDE DEF g
  <2> QED BY <1>10
<1> HIDE DEF P
<1> QED BY <1>4, <1>11

LEMMA DoublingsFacts ==
    ASSUME TileCacheAssumption, NEW k \in 0 .. MaxFails
    PROVE  /\ Doublings[0] = 1
           /\ k # 0 => Doublings[k] = 2 * Doublings[k - 1]
           /\ Doublings[k] \in Nat \ {0}
<1>0. MaxFails \in Nat BY DEF TileCacheAssumption
<1>1. \E f : f = [n \in 0 .. MaxFails |-> IF n = 0 THEN 1 ELSE 2 * f[n - 1]]
  BY <1>0, DoublingsExist
<1>2. Doublings = [n \in 0 .. MaxFails |-> IF n = 0 THEN 1 ELSE 2 * Doublings[n - 1]]
  BY <1>1 DEF Doublings
<1>3. \A n \in 0 .. MaxFails : Doublings[n] = IF n = 0 THEN 1 ELSE 2 * Doublings[n - 1]
  <2> DEFINE D == Doublings
  <2> HIDE DEF D
  <2> SUFFICES \A n \in 0 .. MaxFails : D[n] = IF n = 0 THEN 1 ELSE 2 * D[n - 1]
    BY DEF D
  <2>1. D = [n \in 0 .. MaxFails |-> IF n = 0 THEN 1 ELSE 2 * D[n - 1]] BY <1>2 DEF D
  <2> QED BY <2>1
<1> DEFINE Bad == {n \in 0 .. MaxFails : Doublings[n] \notin Nat \ {0}}
<1>4. Bad = {}
  <2> SUFFICES ASSUME Bad # {} PROVE FALSE OBVIOUS
  <2>1. Bad \in SUBSET Nat BY <1>0
  <2>2. PICK m \in Bad : \A x \in Bad : m <= x
    <3> HIDE DEF Bad
    <3> QED BY <2>1, LeastNat
  <2>3. m \in 0 .. MaxFails /\ Doublings[m] \notin Nat \ {0} OBVIOUS
  <2>4. m # 0 BY <2>3, <1>3, <1>0
  <2>5. m - 1 \in 0 .. MaxFails /\ ~ (m <= m - 1) BY <2>3, <2>4, <1>0
  <2>6. m - 1 \notin Bad
    <3> HIDE DEF Bad
    <3> QED BY <2>2, <2>5
  <2>7. Doublings[m - 1] \in Nat \ {0} BY <2>5, <2>6
  <2>8. Doublings[m] = 2 * Doublings[m - 1] BY <2>3, <2>4, <1>3
  <2> QED BY <2>3, <2>7, <2>8
<1> QED BY <1>0, <1>3, <1>4

LEMMA DelayAfterFacts ==
    ASSUME TileCacheAssumption, NEW n \in 1 .. MaxFails
    PROVE  /\ DelayAfter(n) \in Nat /\ DelayAfter(n) <= LongestDelay
           /\ DelayAfter(1) = RetryDelay
           /\ n < MaxFails => DelayAfter(n + 1) = Smaller(2 * DelayAfter(n), LongestDelay)
<1>1. /\ RetryDelay \in Nat /\ LongestDelay \in Nat /\ RetryDelay <= LongestDelay
      /\ MaxFails \in Nat
  BY DEF TileCacheAssumption, LongestDelay, Higher
<1>2. n - 1 \in 0 .. MaxFails /\ n \in 0 .. MaxFails BY <1>1
<1>3. PICK d \in Nat : d = Doublings[n - 1] BY <1>2, DoublingsFacts
<1>4. PICK p \in Nat : p = RetryDelay * d BY <1>1, <1>3
<1>5. DelayAfter(n) = Smaller(p, LongestDelay) BY <1>3, <1>4 DEF DelayAfter
<1>6. Doublings[1 - 1] = 1 BY <1>2, DoublingsFacts
<1>7. DelayAfter(1) = RetryDelay BY <1>1, <1>6 DEF DelayAfter, Smaller
<1>8. Doublings[n] = 2 * d BY <1>2, <1>3, DoublingsFacts
<1>9. RetryDelay * (2 * d) = 2 * p BY <1>1, <1>3, <1>4
<1>10. DelayAfter(n + 1) = Smaller(2 * p, LongestDelay)
  <2>1. n + 1 - 1 = n BY <1>2
  <2> QED BY <2>1, <1>8, <1>9 DEF DelayAfter
<1>11. DelayAfter(n + 1) = Smaller(2 * DelayAfter(n), LongestDelay)
  BY <1>1, <1>5, <1>10 DEF Smaller
<1>12. DelayAfter(n) \in Nat /\ DelayAfter(n) <= LongestDelay
  BY <1>1, <1>5 DEF Smaller
<1> QED BY <1>7, <1>11, <1>12

-----------------------------------------------------------------------------
(* What the delay kept for a tile says of its failures: it is as long as   *)
(* they call for, and the part of it that is not left has passed since the *)
(* last of them.                                                           *)
Backed(f, h) ==
    /\ f.delay <= LongestDelay
    /\ f.delay # 0 => RetryDelay <= f.delay
    /\ h.fails <= MaxFails
    /\ h.fails > 0 => /\ f.known
                      /\ DelayAfter(h.fails) <= f.delay
                      /\ f.delay <= h.since + f.left

AllBacked == \A t \in Tiles : Backed(failures[t], hist[t])

LEMMA NothingBacked ==
    ASSUME TileCacheAssumption, NEW f \in Failures, NEW h \in Histories,
           f.delay = 0 \/ RetryDelay <= f.delay, f.delay <= LongestDelay, h.fails = 0
    PROVE  Backed(f, h)
  BY DEF TileCacheAssumption, Backed, Histories

LEMMA NoFailureBacked ==
    ASSUME TileCacheAssumption, NEW h \in Histories, h.fails = 0
    PROVE  Backed(NoFailure, h)
<1>1. NoFailure \in Failures /\ NoFailure.delay = 0 BY DEF NoFailure, Failures
<1>2. 0 <= LongestDelay BY DEF TileCacheAssumption, LongestDelay, Higher
<1> QED BY <1>1, <1>2, NothingBacked

(* record_failure(): the delay it keeps is the one the failures call for.  *)
LEMMA FailureBacked ==
    ASSUME TileCacheAssumption, NEW f \in Failures, NEW h \in Histories, Backed(f, h)
    PROVE  Backed(RecordFailure(f, FALSE),
                  [h EXCEPT !.fails = Smaller(h.fails + 1, MaxFails), !.since = 0])
<1>1. /\ RetryDelay \in Nat /\ LongestDelay \in Nat /\ RetryDelay <= LongestDelay
      /\ MaxFails \in Nat
  BY DEF TileCacheAssumption, LongestDelay, Higher
<1>2. PICK d \in Nat : d = f.delay BY DEF Failures
<1>3. PICK n \in Nat : n = h.fails BY DEF Histories
<1>4. /\ d <= LongestDelay /\ (d # 0 => RetryDelay <= d) /\ n <= MaxFails
      /\ n > 0 => DelayAfter(n) <= d
  BY <1>2, <1>3 DEF Backed
<1>5. PICK e \in Nat : e = IF d = 0 THEN RetryDelay ELSE Smaller(d * 2, LongestDelay)
  BY <1>1 DEF Smaller
<1>6. PICK m \in Nat : m = Smaller(n + 1, MaxFails) BY <1>1 DEF Smaller
<1>7. RecordFailure(f, FALSE) =
        [permanent |-> f.permanent, delay |-> e, left |-> e, known |-> TRUE]
  BY <1>2, <1>5 DEF RecordFailure
<1> DEFINE g == RecordFailure(f, FALSE)
           i == [h EXCEPT !.fails = Smaller(h.fails + 1, MaxFails), !.since = 0]
<1>8. i.fails = m /\ i.since = 0
  <2>1. i = [h EXCEPT !.fails = m, !.since = 0] BY <1>3, <1>6
  <2> HIDE DEF i
  <2> QED BY <2>1 DEF Histories
<1>9. e <= LongestDelay /\ (e # 0 => RetryDelay <= e)
  BY <1>1, <1>4, <1>5 DEF Smaller
<1>10. m <= MaxFails BY <1>1, <1>6 DEF Smaller
<1>11. ASSUME m > 0 PROVE DelayAfter(m) <= e
  <2>1. CASE n = 0
    <3>1. m = 1 /\ 1 \in 1 .. MaxFails BY <2>1, <1>1, <1>6, <1>11 DEF Smaller
    <3>2. DelayAfter(m) = RetryDelay BY <3>1, DelayAfterFacts
    <3> QED BY <3>2, <1>1, <1>4, <1>5 DEF Smaller
  <2>2. CASE n > 0 /\ n < MaxFails
    <3>1. m = n + 1 /\ n \in 1 .. MaxFails BY <2>2, <1>1, <1>6 DEF Smaller
    <3>2. PICK a \in Nat : a = DelayAfter(n) BY <3>1, DelayAfterFacts
    <3>3. DelayAfter(m) = Smaller(2 * a, LongestDelay)
      BY <2>2, <3>1, <3>2, DelayAfterFacts
    <3>4. a <= d BY <2>2, <3>2, <1>4
    <3> QED BY <3>3, <3>4, <1>1, <1>4, <1>5 DEF Smaller
  <2>3. CASE n > 0 /\ n = MaxFails
    <3>1. m = n /\ n \in 1 .. MaxFails BY <2>3, <1>1, <1>6 DEF Smaller
    <3>2. PICK a \in Nat : a = DelayAfter(n) BY <3>1, DelayAfterFacts
    <3>3. a <= d BY <2>3, <3>2, <1>4
    <3> QED BY <3>1, <3>2, <3>3, <1>1, <1>4, <1>5 DEF Smaller
  <2> QED BY <1>4, <2>1, <2>2, <2>3, <1>1
<1>record. g = [permanent |-> f.permanent, delay |-> e, left |-> e, known |-> TRUE]
  BY <1>7
<1> HIDE DEF g, i
<1>12. g.known /\ g.delay = e /\ g.left = e BY <1>record
<1>13. Backed(g, i)
  <2>1. g.delay <= LongestDelay /\ (g.delay # 0 => RetryDelay <= g.delay)
    BY <1>9, <1>12
  <2>2. i.fails <= MaxFails BY <1>8, <1>10
  <2>3. ASSUME i.fails > 0
        PROVE  g.known /\ DelayAfter(i.fails) <= g.delay /\ g.delay <= i.since + g.left
    <3>1. DelayAfter(m) <= e BY <2>3, <1>8, <1>11
    <3>2. DelayAfter(i.fails) <= g.delay BY <3>1, <1>8, <1>12
    <3> QED BY <3>2, <1>8, <1>12
  <2> QED BY <2>1, <2>2, <2>3 DEF Backed
<1> QED BY <1>13 DEF g, i

(* A page that says there is no such tile leaves the delays alone.         *)
LEMMA NotFoundBacked ==
    ASSUME TileCacheAssumption, NEW f \in Failures, NEW h \in Histories, Backed(f, h)
    PROVE  Backed(RecordFailure(f, TRUE), [h EXCEPT !.gone = TRUE])
<1>1. RecordFailure(f, TRUE) =
        [permanent |-> TRUE, delay |-> f.delay, left |-> f.left, known |-> TRUE]
  BY DEF RecordFailure, Failures
<1> DEFINE g == RecordFailure(f, TRUE)
           i == [h EXCEPT !.gone = TRUE]
<1>record. g = [permanent |-> TRUE, delay |-> f.delay, left |-> f.left, known |-> TRUE]
  BY <1>1
<1>3. i.fails = h.fails /\ i.since = h.since BY DEF Histories
<1> HIDE DEF g, i
<1>2. g.known /\ g.delay = f.delay /\ g.left = f.left BY <1>record
<1>4. Backed(g, i) BY <1>2, <1>3 DEF Backed
<1> QED BY <1>4 DEF g, i

(* As time passes, what is left of a delay goes over into what has passed. *)
LEMMA PassTimeBacked ==
    ASSUME TileCacheAssumption, NEW f \in Failures, NEW h \in Histories, Backed(f, h)
    PROVE  Backed([f EXCEPT !.left = IF f.left = 0 THEN 0 ELSE f.left - 1],
                  [h EXCEPT !.since = IF h.fails = 0 THEN 0
                                      ELSE Smaller(h.since + 1, LongestDelay)])
<1>1. LongestDelay \in Nat BY DEF TileCacheAssumption, LongestDelay, Higher
<1>2. PICK l \in Nat : l = IF f.left = 0 THEN 0 ELSE f.left - 1 BY DEF Failures
<1>3. PICK s \in Nat : s = IF h.fails = 0 THEN 0 ELSE Smaller(h.since + 1, LongestDelay)
  BY <1>1 DEF Histories, Smaller
<1>4. [f EXCEPT !.left = IF f.left = 0 THEN 0 ELSE f.left - 1] =
        [permanent |-> f.permanent, delay |-> f.delay, left |-> l, known |-> f.known]
  BY <1>2 DEF Failures
<1>5. [h EXCEPT !.since = IF h.fails = 0 THEN 0 ELSE Smaller(h.since + 1, LongestDelay)] =
        [gone |-> h.gone, fails |-> h.fails, since |-> s]
  BY <1>3 DEF Histories
<1>6. h.fails > 0 => f.delay <= s + l
  BY <1>1, <1>2, <1>3 DEF Backed, Failures, Histories, Smaller
<1> QED BY <1>4, <1>5, <1>6 DEF Backed

LEMMA InitBacked == TileCacheAssumption /\ Init => AllBacked
<1> SUFFICES ASSUME TileCacheAssumption, Init, NEW t \in Tiles
             PROVE  Backed(failures[t], hist[t])
  BY DEF AllBacked
<1>1. failures[t] = NoFailure /\ hist[t] = NoHistory BY DEF Init
<1>2. NoHistory \in Histories /\ NoHistory.fails = 0 BY DEF NoHistory, Histories
<1> QED BY <1>1, <1>2, NoFailureBacked

LEMMA NextBacked == TileCacheAssumption /\ IInv /\ AllBacked /\ [Next]_vars => AllBacked'
<1> SUFFICES ASSUME TileCacheAssumption, IInv, AllBacked, [Next]_vars, NEW t \in Tiles
             PROVE  Backed(failures'[t], hist'[t])
  BY DEF AllBacked
<1>1. failures[t] \in Failures /\ hist[t] \in Histories BY DEF IInv, Typed
<1>2. failures \in [Tiles -> Failures] /\ hist \in [Tiles -> Histories]
  BY DEF IInv, Typed
<1>3. Backed(failures[t], hist[t]) BY DEF AllBacked
<1>4. NoHistory \in Histories /\ NoHistory.fails = 0 BY DEF NoHistory, Histories
<1>5. CASE failures' = failures /\ hist' = hist BY <1>3, <1>5
<1>6. ASSUME NEW u \in Tiles, DownloadSucceeds(u) PROVE Backed(failures'[t], hist'[t])
  <2>1. CASE u = t
    <3>1. failures'[t] = NoFailure /\ hist'[t] = NoHistory
      BY <1>2, <1>6, <2>1 DEF DownloadSucceeds
    <3> QED BY <3>1, <1>4, NoFailureBacked
  <2>2. CASE u # t
    <3>1. failures'[t] = failures[t] /\ hist'[t] = hist[t]
      BY <1>2, <1>6, <2>2 DEF DownloadSucceeds
    <3> QED BY <3>1, <1>3
  <2> QED BY <2>1, <2>2
<1>7. ASSUME NEW u \in Tiles, DownloadFails(u) PROVE Backed(failures'[t], hist'[t])
  <2>1. /\ failures' = [failures EXCEPT ![u] = RecordFailure(@, FALSE)]
        /\ hist' = [hist EXCEPT ![u].fails = Smaller(@ + 1, MaxFails), ![u].since = 0]
    BY <1>7 DEF DownloadFails
  <2>2. CASE u = t
    <3>1. failures'[t] = RecordFailure(failures[t], FALSE) BY <1>2, <2>1, <2>2
    <3>2. hist'[t] = [hist[t] EXCEPT !.fails = Smaller(hist[t].fails + 1, MaxFails),
                                     !.since = 0]
      BY <1>2, <2>1, <2>2, Zenon
    <3> QED BY <3>1, <3>2, <1>1, <1>3, FailureBacked
  <2>3. CASE u # t
    <3>1. failures'[t] = failures[t] BY <1>2, <2>1, <2>3
    <3>2. hist'[t] = hist[t] BY <1>2, <2>1, <2>3, Zenon
    <3> QED BY <3>1, <3>2, <1>3
  <2> QED BY <2>2, <2>3
<1>8. ASSUME NEW u \in Tiles, DownloadNotFound(u) PROVE Backed(failures'[t], hist'[t])
  <2>1. /\ failures' = [failures EXCEPT ![u] = RecordFailure(@, TRUE)]
        /\ hist' = [hist EXCEPT ![u].gone = TRUE]
    BY <1>8 DEF DownloadNotFound
  <2>2. CASE u = t
    <3>1. failures'[t] = RecordFailure(failures[t], TRUE) BY <1>2, <2>1, <2>2
    <3>2. hist'[t] = [hist[t] EXCEPT !.gone = TRUE] BY <1>2, <2>1, <2>2
    <3> QED BY <3>1, <3>2, <1>1, <1>3, NotFoundBacked
  <2>3. CASE u # t
    <3>1. failures'[t] = failures[t] /\ hist'[t] = hist[t] BY <1>2, <2>1, <2>3
    <3> QED BY <3>1, <1>3
  <2> QED BY <2>2, <2>3
<1>9. ASSUME NEW on \in BOOLEAN, SetOnline(on) PROVE Backed(failures'[t], hist'[t])
  <2>1. /\ failures'[t] = IF on /\ ~online /\ ~failures[t].permanent THEN NoFailure
                          ELSE failures[t]
        /\ hist'[t] = IF on /\ ~online THEN [NoHistory EXCEPT !.gone = hist[t].gone]
                      ELSE hist[t]
    BY <1>9 DEF SetOnline
  <2>2. CASE on /\ ~online
    <3>1. hist'[t] = [gone |-> hist[t].gone, fails |-> 0, since |-> 0]
      BY <2>1, <2>2 DEF NoHistory
    <3>2. hist'[t] \in Histories /\ hist'[t].fails = 0 BY <1>1, <3>1 DEF Histories
    <3>3. CASE failures'[t] = NoFailure
      <4> PICK h \in Histories : h = hist'[t] BY <3>2
      <4>1. Backed(NoFailure, h) BY <3>2, NoFailureBacked
      <4> QED BY <3>3, <4>1
    <3>4. CASE failures'[t] = failures[t]
      <4> PICK h \in Histories : h = hist'[t] BY <3>2
      <4>1. failures[t].delay = 0 \/ RetryDelay <= failures[t].delay BY <1>3 DEF Backed
      <4>2. failures[t].delay <= LongestDelay BY <1>3 DEF Backed
      <4>3. Backed(failures[t], h) BY <1>1, <3>2, <4>1, <4>2, NothingBacked
      <4> QED BY <3>4, <4>3
    <3> QED BY <2>1, <3>3, <3>4
  <2>3. CASE ~ (on /\ ~online)
    BY <2>1, <2>3, <1>3
  <2> QED BY <2>2, <2>3
<1>10. ASSUME NEW url \in Servers, SetUrlTemplate(url) PROVE Backed(failures'[t], hist'[t])
  <2>1. failures'[t] = NoFailure /\ hist'[t] = NoHistory BY <1>10 DEF SetUrlTemplate
  <2> QED BY <2>1, <1>4, NoFailureBacked
<1>11. CASE PassTime
  <2>1. failures'[t] =
          [failures[t] EXCEPT !.left = IF failures[t].left = 0 THEN 0
                                       ELSE failures[t].left - 1]
    BY <1>11 DEF PassTime
  <2>2. hist'[t] = [hist[t] EXCEPT !.since = IF hist[t].fails = 0 THEN 0
                                             ELSE Smaller(hist[t].since + 1, LongestDelay)]
    BY <1>11 DEF PassTime
  <2> QED BY <2>1, <2>2, <1>1, <1>3, PassTimeBacked
<1>12. CASE \E u \in Tiles : Tile(u) BY <1>5, <1>12 DEF Tile
<1>13. CASE Clear BY <1>5, <1>13 DEF Clear
<1>14. CASE UNCHANGED vars BY <1>5, <1>14 DEF vars
<1> QED
  BY <1>6, <1>7, <1>8, <1>9, <1>10, <1>11, <1>12, <1>13, <1>14 DEF Next, Finish

(* Only tile() queues a tile, and only when nothing is left of its delay.  *)
LEMMA QueuedInTime ==
    ASSUME TileCacheAssumption, IInv, AllBacked, [Next]_vars,
           NEW t \in queued' \ queued, hist[t].fails > 0, t \in Tiles
    PROVE  hist[t].since >= DelayAfter(hist[t].fails)
<1>1. Tile(t)
  <2>1. CASE \E u \in Tiles : Tile(u)
    BY <2>1 DEF Tile, Enqueue, downloads
  <2>2. CASE \E u \in Tiles : Finish(u)
    BY <2>2 DEF Finish, DownloadSucceeds, DownloadFails, DownloadNotFound, Finished
  <2>3. CASE \E on \in BOOLEAN : SetOnline(on) BY <2>3 DEF SetOnline, downloads
  <2>4. CASE \E url \in Servers : SetUrlTemplate(url) BY <2>4 DEF SetUrlTemplate
  <2>5. CASE Clear BY <2>5 DEF Clear
  <2>6. CASE PassTime BY <2>6 DEF PassTime, downloads
  <2>7. CASE UNCHANGED vars BY <2>7 DEF vars
  <2> QED BY <2>1, <2>2, <2>3, <2>4, <2>5, <2>6, <2>7 DEF Next
<1>2. MayRequest(t) BY <1>1 DEF Tile, downloads
<1>3. failures[t] \in Failures /\ hist[t] \in Histories BY DEF IInv, Typed
<1>4. Backed(failures[t], hist[t]) BY DEF AllBacked
<1>5. /\ failures[t].known
      /\ DelayAfter(hist[t].fails) <= failures[t].delay
      /\ failures[t].delay <= hist[t].since + failures[t].left
      /\ hist[t].fails <= MaxFails
  BY <1>4 DEF Backed
<1>6. failures[t].left = 0 BY <1>2, <1>5 DEF MayRequest
<1>7. hist[t].fails \in 1 .. MaxFails
  BY <1>3, <1>5 DEF Histories, TileCacheAssumption
<1>8. PICK a \in Nat : a = DelayAfter(hist[t].fails) BY <1>7, DelayAfterFacts
<1> QED BY <1>3, <1>5, <1>6, <1>8 DEF Failures, Histories

(* A tile that failed is asked for again only after a delay that doubles   *)
(* with every failure, up to the longest one (may_request, record_failure).*)
THEOREM BacksOffInTime == ASSUME TileCacheAssumption PROVE Spec => BacksOff
<1>1. Init => IInv /\ AllBacked BY InitInv, InitBacked
<1>2. IInv /\ AllBacked /\ [Next]_vars => (IInv /\ AllBacked)' BY NextInv, NextBacked
<1>3. IInv /\ AllBacked /\ [Next]_vars =>
        [\A t \in queued' \ queued :
           hist[t].fails > 0 => hist[t].since >= DelayAfter(hist[t].fails)]_vars
  <2> SUFFICES ASSUME IInv, AllBacked, [Next]_vars, NEW t \in queued' \ queued,
                      hist[t].fails > 0
               PROVE  hist[t].since >= DelayAfter(hist[t].fails)
    OBVIOUS
  <2>1. t \in Tiles
    <3>1. IInv' BY NextInv
    <3>2. queue' \in Seq(Tiles) /\ DOMAIN running' \subseteq Tiles
          /\ queued' = Elements(queue') \cup DOMAIN running'
      BY <3>1 DEF IInv, Typed, Named
    <3>3. Elements(queue') \subseteq Tiles BY <3>2 DEF Elements
    <3> QED BY <3>2, <3>3
  <2> QED BY <2>1, QueuedInTime
<1> QED BY <1>1, <1>2, <1>3, PTL DEF Spec, BacksOff

(***************************************************************************)
(* The map.  First what the quotients and the powers of two of its         *)
(* geometry are, then where the tiles of a place are.                      *)
(***************************************************************************)
LEMMA DivFacts ==
    ASSUME NEW a \in Int, NEW b \in Nat \ {0}
    PROVE  /\ a \div b \in Int
           /\ (a \div b) * b <= a
           /\ a < (a \div b) * b + b
BY Z3

LEMMA TimesMonotone ==
    ASSUME NEW q \in Int, NEW r \in Int, NEW b \in Nat, q <= r
    PROVE q * b <= r * b
BY Z3

LEMMA DivUnique ==
    ASSUME NEW a \in Int, NEW b \in Nat \ {0}, NEW q \in Int,
           q * b <= a, a < q * b + b
    PROVE  a \div b = q
<1>1. PICK d \in Int : d = a \div b /\ d * b <= a /\ a < d * b + b BY DivFacts
<1>2. ~ (d + 1 <= q)
  <2> SUFFICES ASSUME d + 1 <= q PROVE FALSE OBVIOUS
  <2>1. (d + 1) * b <= q * b BY TimesMonotone
  <2>2. (d + 1) * b = d * b + b OBVIOUS
  <2> QED BY <1>1, <2>1, <2>2
<1>3. ~ (q + 1 <= d)
  <2> SUFFICES ASSUME q + 1 <= d PROVE FALSE OBVIOUS
  <2>1. (q + 1) * b <= d * b BY TimesMonotone
  <2>2. (q + 1) * b = q * b + b OBVIOUS
  <2> QED BY <1>1, <2>1, <2>2
<1> QED BY <1>1, <1>2, <1>3

LEMMA ModFacts ==
    ASSUME NEW a \in Int, NEW b \in Nat \ {0}
    PROVE  /\ a % b \in 0 .. b - 1
           /\ a \in 0 .. b - 1 => a % b = a
BY Z3

(* The powers of two, from the least place where they would fail.         *)
LEMMA TilesAtFacts ==
    ASSUME MapAssumption, NEW z \in 0 .. MaxZoom
    PROVE  /\ TilesAt[0] = 1
           /\ z # 0 => TilesAt[z] = 2 * TilesAt[z - 1]
           /\ TilesAt[z] \in Nat \ {0}
           /\ TilesAt[z] * TilesAt[MaxZoom - z] = TilesAt[MaxZoom]
<1>0. MaxZoom \in Nat BY DEF MapAssumption
<1>1. \E f : f = [n \in 0 .. MaxZoom |-> IF n = 0 THEN 1 ELSE 2 * f[n - 1]]
  BY <1>0, DoublingsExist
<1>2. TilesAt = [n \in 0 .. MaxZoom |-> IF n = 0 THEN 1 ELSE 2 * TilesAt[n - 1]]
  BY <1>1 DEF TilesAt
<1>3. \A n \in 0 .. MaxZoom : TilesAt[n] = IF n = 0 THEN 1 ELSE 2 * TilesAt[n - 1]
  <2> DEFINE D == TilesAt
  <2> HIDE DEF D
  <2> SUFFICES \A n \in 0 .. MaxZoom : D[n] = IF n = 0 THEN 1 ELSE 2 * D[n - 1]
    BY DEF D
  <2>1. D = [n \in 0 .. MaxZoom |-> IF n = 0 THEN 1 ELSE 2 * D[n - 1]] BY <1>2 DEF D
  <2> QED BY <2>1
<1>4. \A n \in 0 .. MaxZoom : TilesAt[n] \in Nat \ {0}
  <2> DEFINE Bad == {n \in 0 .. MaxZoom : TilesAt[n] \notin Nat \ {0}}
  <2> SUFFICES ASSUME Bad # {} PROVE FALSE OBVIOUS
  <2>1. Bad \in SUBSET Nat BY <1>0
  <2>2. PICK m \in Bad : \A x \in Bad : m <= x
    <3> HIDE DEF Bad
    <3> QED BY <2>1, LeastNat
  <2>3. m \in 0 .. MaxZoom /\ TilesAt[m] \notin Nat \ {0} OBVIOUS
  <2>4. m # 0 BY <2>3, <1>3, <1>0
  <2>5. m - 1 \in 0 .. MaxZoom /\ ~ (m <= m - 1) BY <2>3, <2>4, <1>0
  <2>6. m - 1 \notin Bad
    <3> HIDE DEF Bad
    <3> QED BY <2>2, <2>5
  <2>7. TilesAt[m - 1] \in Nat \ {0} BY <2>5, <2>6
  <2>8. TilesAt[m] = 2 * TilesAt[m - 1] BY <2>3, <2>4, <1>3
  <2> QED BY <2>3, <2>7, <2>8
<1>5. \A n \in 0 .. MaxZoom : TilesAt[n] * TilesAt[MaxZoom - n] = TilesAt[MaxZoom]
  <2> DEFINE Bad == {n \in 0 .. MaxZoom : TilesAt[n] * TilesAt[MaxZoom - n] # TilesAt[MaxZoom]}
  <2> SUFFICES ASSUME Bad # {} PROVE FALSE OBVIOUS
  <2>1. Bad \in SUBSET Nat BY <1>0
  <2>2. PICK m \in Bad : \A x \in Bad : m <= x
    <3> HIDE DEF Bad
    <3> QED BY <2>1, LeastNat
  <2>3. m \in 0 .. MaxZoom /\ TilesAt[m] * TilesAt[MaxZoom - m] # TilesAt[MaxZoom] OBVIOUS
  <2>4. m # 0
    <3>1. TilesAt[0] = 1 /\ MaxZoom - 0 = MaxZoom /\ TilesAt[MaxZoom] \in Nat BY <1>0, <1>3, <1>4
    <3> QED BY <2>3, <3>1
  <2>5. /\ m - 1 \in 0 .. MaxZoom /\ ~ (m <= m - 1)
        /\ MaxZoom - (m - 1) \in 0 .. MaxZoom /\ MaxZoom - (m - 1) # 0
        /\ MaxZoom - (m - 1) - 1 = MaxZoom - m /\ MaxZoom - m \in 0 .. MaxZoom
    BY <2>3, <2>4, <1>0
  <2>6. m - 1 \notin Bad
    <3> HIDE DEF Bad
    <3> QED BY <2>2, <2>5
  <2>7. TilesAt[m - 1] * TilesAt[MaxZoom - (m - 1)] = TilesAt[MaxZoom] BY <2>5, <2>6
  <2>8. TilesAt[m] = 2 * TilesAt[m - 1] BY <2>3, <2>4, <1>3
  <2>9. TilesAt[MaxZoom - (m - 1)] = 2 * TilesAt[MaxZoom - m] BY <2>5, <1>3
  <2>10. PICK a \in Nat, b \in Nat : a = TilesAt[m - 1] /\ b = TilesAt[MaxZoom - m]
    BY <2>5, <1>4
  <2>11. (2 * a) * b = a * (2 * b) OBVIOUS
  <2> QED BY <2>3, <2>7, <2>8, <2>9, <2>10, <2>11
<1> QED BY <1>0, <1>3, <1>4, <1>5

(* The world in tiles of a zoom; a tile of the zoom before is twice as wide. *)
LEMMA SpanFacts ==
    ASSUME MapAssumption, NEW z \in 0 .. MaxZoom
    PROVE  /\ TileSpan(z) \in Nat \ {0} /\ PixelSize(z) \in Nat \ {0}
           /\ PixelSize(z) <= TileSpan(z)
           /\ World = TilesAt[z] * TileSpan(z) /\ World \in Nat \ {0}
           /\ z # 0 => TileSpan(z - 1) = 2 * TileSpan(z)
<1>0. MaxZoom \in Nat /\ TileSize \in Nat \ {0} BY DEF MapAssumption
<1>1. MaxZoom - z \in 0 .. MaxZoom /\ MaxZoom \in 0 .. MaxZoom BY <1>0
<1>2. PICK t \in Nat \ {0}, p \in Nat \ {0} :
        t = TilesAt[z] /\ p = TilesAt[MaxZoom - z] /\ t * p = TilesAt[MaxZoom]
  BY <1>1, TilesAtFacts
<1>3. PixelSize(z) = p BY <1>2 DEF PixelSize
<1>4. PICK s \in Nat \ {0} : s = TileSize BY <1>0
<1>5. TileSpan(z) = s * p BY <1>3, <1>4 DEF TileSpan
<1>6. s * p \in Nat \ {0} /\ p <= s * p BY Z3
<1>7. World = (t * p) * s BY <1>2, <1>4 DEF World
<1>8. (t * p) * s = t * (s * p) BY Z3
<1>9. t * (s * p) \in Nat \ {0} BY <1>6, Z3
<1>10. ASSUME z # 0 PROVE TileSpan(z - 1) = 2 * TileSpan(z)
  <2>1. /\ MaxZoom - (z - 1) \in 0 .. MaxZoom /\ MaxZoom - (z - 1) # 0
        /\ MaxZoom - (z - 1) - 1 = MaxZoom - z
    BY <1>0, <1>10
  <2>2. TilesAt[MaxZoom - (z - 1)] = 2 * TilesAt[MaxZoom - z] BY <2>1, TilesAtFacts
  <2>3. PixelSize(z - 1) = 2 * p BY <2>2, <1>2 DEF PixelSize
  <2>4. TileSpan(z - 1) = s * (2 * p) BY <2>3, <1>4 DEF TileSpan
  <2>5. s * (2 * p) = 2 * (s * p) BY Z3
  <2> QED BY <2>4, <2>5, <1>5
<1> QED BY <1>2, <1>3, <1>5, <1>6, <1>7, <1>8, <1>9, <1>10

(* A point of the world, as wrap_longitude leaves it.                      *)
OnWorld(p) == p.x \in 0 .. World - 1 /\ p.y \in 0 .. World

LEMMA OnMapFacts ==
    ASSUME MapAssumption, NEW p, IsPoint(p)
    PROVE  OnWorld(OnMap(p)) /\ IsPoint(OnMap(p))
<1>1. PICK w \in Nat \ {0} : w = World
  <2>1. 0 \in 0 .. MaxZoom BY DEF MapAssumption
  <2> QED BY <2>1, SpanFacts
<1>2. p.x \in Int /\ p.y \in Int BY DEF IsPoint
<1>3. p.x % w \in 0 .. w - 1 BY <1>1, <1>2, ModFacts
<1>4. Between(p.y, 0, w) \in 0 .. w BY <1>1, <1>2 DEF Between
<1>5. OnMap(p).x = p.x % w /\ OnMap(p).y = Between(p.y, 0, w) BY <1>1 DEF OnMap
<1> QED BY <1>1, <1>3, <1>4, <1>5 DEF OnWorld, IsPoint

(* On the world nothing wraps: columns and rows are plain quotients, but   *)
(* that the southern edge belongs to the last row.                         *)
LEMMA TileFacts ==
    ASSUME MapAssumption, NEW p, OnWorld(p), NEW z \in 0 .. MaxZoom
    PROVE  /\ Column(p.x, z) = p.x \div TileSpan(z)
           /\ p.x \div TileSpan(z) \in 0 .. TilesAt[z] - 1
           /\ p.y \div TileSpan(z) \in 0 .. TilesAt[z]
           /\ Row(p.y, z) = IF p.y \div TileSpan(z) = TilesAt[z] THEN TilesAt[z] - 1
                            ELSE p.y \div TileSpan(z)
<1>1. PICK s \in Nat \ {0}, t \in Nat \ {0} :
        s = TileSpan(z) /\ t = TilesAt[z] /\ World = t * s
  BY SpanFacts, TilesAtFacts
<1>2. PICK x \in Int, y \in Int : x = p.x /\ y = p.y /\ 0 <= x /\ x < t * s /\ 0 <= y /\ y <= t * s
  <2>1. t * s \in Nat OBVIOUS
  <2> QED BY <1>1, <2>1 DEF OnWorld
<1>3. PICK a \in Int : a = x \div s /\ a * s <= x /\ x < a * s + s BY DivFacts
<1>4. PICK b \in Int : b = y \div s /\ b * s <= y /\ y < b * s + s BY DivFacts
<1>5. 0 <= a /\ 0 <= b
  <2>1. ASSUME NEW q \in Int, q <= -1 PROVE q * s + s <= 0
    <3>1. q * s <= (-1) * s BY <2>1, TimesMonotone
    <3>2. (-1) * s = - s OBVIOUS
    <3> QED BY <3>1, <3>2
  <2>2. ~ (a <= -1) BY <2>1, <1>2, <1>3
  <2>3. ~ (b <= -1) BY <2>1, <1>2, <1>4
  <2> QED BY <2>2, <2>3
<1>6. a <= t - 1
  <2> SUFFICES ASSUME t <= a PROVE FALSE OBVIOUS
  <2>1. t * s <= a * s BY TimesMonotone
  <2> QED BY <2>1, <1>2, <1>3
<1>7. b <= t
  <2> SUFFICES ASSUME t + 1 <= b PROVE FALSE OBVIOUS
  <2>1. (t + 1) * s <= b * s BY TimesMonotone
  <2>2. (t + 1) * s = t * s + s OBVIOUS
  <2> QED BY <2>1, <2>2, <1>2, <1>4
<1>8. a % t = a BY <1>5, <1>6, ModFacts
<1>9. Column(p.x, z) = a BY <1>1, <1>2, <1>3, <1>8 DEF Column
<1>10. Row(p.y, z) = IF b = t THEN t - 1 ELSE b
  BY <1>1, <1>2, <1>4, <1>5, <1>7 DEF Row, Between
<1> QED BY <1>1, <1>2, <1>3, <1>4, <1>5, <1>6, <1>7, <1>9, <1>10

LEMMA HalfDiv ==
    ASSUME NEW a \in Int, NEW s \in Nat \ {0}
    PROVE  a \div (2 * s) = (a \div s) \div 2
<1>1. PICK d \in Int : d = a \div s /\ d * s <= a /\ a < d * s + s BY DivFacts
<1>2. PICK h \in Int : h = d \div 2 /\ (d = 2 * h \/ d = 2 * h + 1)
  <2>1. d = 2 * (d \div 2) \/ d = 2 * (d \div 2) + 1 OBVIOUS
  <2>2. d \div 2 \in Int OBVIOUS
  <2> QED BY <2>1, <2>2
<1>3. h * (2 * s) = (2 * h) * s BY Z3
<1>4. (2 * h + 1) * s = (2 * h) * s + s BY Z3
<1>5. h * (2 * s) <= a /\ a < h * (2 * s) + 2 * s
  <2>1. PICK m \in Int : m = (2 * h) * s OBVIOUS
  <2>2. d * s = m \/ d * s = m + s BY <1>2, <1>4, <2>1
  <2> QED BY <1>1, <1>3, <2>1, <2>2
<1>6. 2 * s \in Nat \ {0} OBVIOUS
<1>7. a \div (2 * s) = h BY <1>5, <1>6, DivUnique
<1> QED BY <1>1, <1>2, <1>7

(* ParentOf a tile is the tile of the same place one zoom coarser.         *)
LEMMA ParentTile ==
    ASSUME MapAssumption, NEW p, OnWorld(p), NEW z \in 1 .. MaxZoom
    PROVE  ParentOf(TileAt(p, z)) = TileAt(p, z - 1)
<1>1. MaxZoom \in Nat BY DEF MapAssumption
<1>2. z \in 0 .. MaxZoom /\ z - 1 \in 0 .. MaxZoom /\ z \in Int /\ ~ (z <= 0) BY <1>1
<1>3. PICK s \in Nat \ {0}, t \in Nat \ {0} :
        /\ s = TileSpan(z) /\ 2 * s = TileSpan(z - 1)
        /\ t = TilesAt[z - 1] /\ 2 * t = TilesAt[z]
  BY <1>2, SpanFacts, TilesAtFacts
<1>4. PICK x \in Int, y \in Int : x = p.x /\ y = p.y
  <2>1. World \in Nat BY <1>2, SpanFacts
  <2> QED BY <2>1 DEF OnWorld
<1>5. PICK a \in Int, b \in Int :
        /\ a = x \div s /\ b = y \div s /\ Column(p.x, z) = a
        /\ b <= 2 * t
        /\ Row(p.y, z) = IF b = 2 * t THEN 2 * t - 1 ELSE b
  BY <1>2, <1>3, <1>4, TileFacts
<1>6. x \div (2 * s) = a \div 2 /\ y \div (2 * s) = b \div 2 BY <1>5, HalfDiv
<1>7. /\ Column(p.x, z - 1) = a \div 2
      /\ Row(p.y, z - 1) = IF b \div 2 = t THEN t - 1 ELSE b \div 2
  BY <1>2, <1>3, <1>4, <1>6, TileFacts
<1>8. (IF b = 2 * t THEN 2 * t - 1 ELSE b) \div 2 = IF b \div 2 = t THEN t - 1 ELSE b \div 2
  <2>1. CASE b = 2 * t BY <2>1
  <2>2. CASE b < 2 * t BY <2>2
  <2>3. b = 2 * t \/ b < 2 * t BY <1>5
  <2> QED BY <2>1, <2>2, <2>3
<1>9. Row(p.y, z) \div 2 = Row(p.y, z - 1) BY <1>5, <1>7, <1>8
<1>10. Column(p.x, z) \div 2 = Column(p.x, z - 1) BY <1>5, <1>7
<1> QED BY <1>2, <1>9, <1>10 DEF ParentOf, TileAt

(* DrawnTiles of the centre (x, y), h pixels either way.                   *)
Strip(zoom, x, y, h, span, tiles) ==
    {[zoom |-> zoom, x |-> i % tiles, y |-> r] :
        i \in (x - h) \div span .. (x + h) \div span,
        r \in {r \in (y - h) \div span .. (y + h) \div span : 0 <= r /\ r < tiles}}

(* draw_tiles: the tile of the centre is among them.  Half the widget is   *)
(* a pixel at least, so the last row is drawn when the centre is south.    *)
LEMMA MiddleDrawn ==
    ASSUME MapAssumption, NEW c, OnWorld(c.center), c.zoom \in 0 .. MaxZoom
    PROVE  TileAt(c.center, c.zoom) \in DrawnTiles(c)
<1>1. PICK z \in 0 .. MaxZoom : z = c.zoom OBVIOUS
<1>2. PICK p : p = c.center OBVIOUS
<1>3. PICK s \in Nat \ {0}, t \in Nat \ {0}, w \in Nat :
        s = TileSpan(z) /\ t = TilesAt[z] /\ w = World /\ w = t * s
  BY SpanFacts, TilesAtFacts
<1>4. PICK h \in Nat \ {0} : h = HalfWidth * PixelSize(z)
  <2>1. PICK k \in Nat \ {0}, q \in Nat \ {0} : k = HalfWidth /\ q = PixelSize(z)
    BY SpanFacts DEF MapAssumption
  <2>2. k * q \in Nat \ {0} BY Z3
  <2> QED BY <2>1, <2>2
<1>5. PICK x \in Int, y \in Int : /\ x = p.x /\ y = p.y
                                  /\ 0 <= x /\ x < w /\ 0 <= y /\ y <= w
  BY <1>2, <1>3 DEF OnWorld
<1>6. PICK a \in Int, b \in Int :
        /\ a = x \div s /\ b = y \div s /\ Column(p.x, z) = a /\ 0 <= a /\ a < t
        /\ 0 <= b /\ b <= t /\ Row(p.y, z) = IF b = t THEN t - 1 ELSE b
  BY <1>2, <1>3, <1>5, TileFacts
<1>7. ASSUME NEW u \in Int, NEW v \in Int, u <= v PROVE u \div s <= v \div s
  <2>1. PICK d \in Int : d = u \div s /\ d * s <= u BY DivFacts
  <2>2. PICK e \in Int : e = v \div s /\ v < e * s + s BY DivFacts
  <2>3. ~ (e + 1 <= d)
    <3> SUFFICES ASSUME e + 1 <= d PROVE FALSE OBVIOUS
    <3>1. (e + 1) * s <= d * s BY TimesMonotone
    <3>2. (e + 1) * s = e * s + s OBVIOUS
    <3>3. PICK m \in Int, n \in Int : m = e * s /\ n = d * s OBVIOUS
    <3> QED BY <2>1, <2>2, <3>1, <3>2, <3>3, <1>7
  <2> QED BY <2>1, <2>2, <2>3
<1>8. PICK x1 \in Int, x2 \in Int : /\ x1 = (x - h) \div s /\ x2 = (x + h) \div s
                                    /\ x1 <= a /\ a <= x2
  <2>1. x - h <= x /\ x <= x + h /\ x - h \in Int /\ x + h \in Int OBVIOUS
  <2>2. (x - h) \div s <= x \div s /\ x \div s <= (x + h) \div s BY <2>1, <1>7
  <2> QED BY <2>1, <2>2, <1>6, DivFacts
<1>9. PICK y1 \in Int, y2 \in Int : /\ y1 = (y - h) \div s /\ y2 = (y + h) \div s
                                    /\ y1 <= b /\ b <= y2 /\ y1 <= t - 1
  <2>1. /\ y - h <= y /\ y <= y + h /\ y - h \in Int /\ y + h \in Int
        /\ y - h <= w - 1 /\ w - 1 \in Int
    BY <1>5
  <2>2. (y - h) \div s <= y \div s /\ y \div s <= (y + h) \div s BY <2>1, <1>7
  <2>3. (w - 1) \div s = t - 1
    <3>1. (t - 1) * s = w - s BY <1>3, Z3
    <3>2. (t - 1) * s <= w - 1 /\ w - 1 < (t - 1) * s + s BY <3>1
    <3>3. t - 1 \in Int /\ w - 1 \in Int OBVIOUS
    <3> QED BY <3>2, <3>3, DivUnique
  <2>4. (y - h) \div s <= t - 1 BY <2>1, <2>3, <1>7
  <2> QED BY <2>1, <2>2, <2>4, <1>6, DivFacts
<1>10. DrawnTiles(c) = Strip(z, x, y, h, s, t)
  <2>1. DrawnTiles(c) = Strip(c.zoom, c.center.x, c.center.y, HalfWidth * PixelSize(c.zoom),
                              TileSpan(c.zoom), TilesAt[c.zoom])
    BY DEF DrawnTiles, Strip
  <2> QED BY <2>1, <1>1, <1>2, <1>3, <1>4, <1>5
<1>11. a \in x1 .. x2 /\ a % t = a
  <2>1. a \in 0 .. t - 1 BY <1>6
  <2>2. a % t = a BY <2>1, ModFacts
  <2> QED BY <2>2, <1>8
<1>12. PICK r \in y1 .. y2 : /\ r = IF b = t THEN t - 1 ELSE b
                             /\ 0 <= r /\ r < t
  BY <1>6, <1>9
<1>13. TileAt(c.center, c.zoom) = [zoom |-> z, x |-> a % t, y |-> r]
  BY <1>1, <1>2, <1>6, <1>11, <1>12 DEF TileAt
<1>14. [zoom |-> z, x |-> a % t, y |-> r] \in Strip(z, x, y, h, s, t)
  <2>1. /\ a \in (x - h) \div s .. (x + h) \div s
        /\ r \in (y - h) \div s .. (y + h) \div s
    BY <1>8, <1>9, <1>11, <1>12
  <2> DEFINE columns == (x - h) \div s .. (x + h) \div s
             rows == {q \in (y - h) \div s .. (y + h) \div s : 0 <= q /\ q < t}
  <2>2. a \in columns /\ r \in rows BY <2>1, <1>12
  <2>3. Strip(z, x, y, h, s, t) = {[zoom |-> z, x |-> i % t, y |-> q] : i \in columns, q \in rows}
    BY DEF Strip
  <2> HIDE DEF columns, rows
  <2> QED BY <2>2, <2>3
<1> QED BY <1>10, <1>13, <1>14

(* Ancestor climbs one zoom at a time.                                     *)
LEMMA AncestorTile ==
    ASSUME MapAssumption, NEW p, OnWorld(p), NEW z \in 0 .. MaxZoom, NEW n \in 0 .. z
    PROVE  Ancestor(TileAt(p, z), n) = TileAt(p, z - n)
<1>0. MaxZoom \in Nat /\ z \in Nat /\ n \in Nat /\ n <= z BY DEF MapAssumption
<1> DEFINE key == TileAt(p, z)
           Climbs(f) == f = [m \in 0 .. n |-> IF m = 0 THEN key ELSE ParentOf(f[m - 1])]
           good == [m \in 0 .. n |-> TileAt(p, z - m)]
<1>1. Climbs(good)
  <2>1. \A m \in 0 .. n : good[m] = IF m = 0 THEN key ELSE ParentOf(good[m - 1])
    <3> TAKE m \in 0 .. n
    <3>1. CASE m = 0
      <4>1. z - m = z BY <1>0, <3>1
      <4> QED BY <3>1, <4>1
    <3>2. CASE m # 0
      <4>1. /\ m - 1 \in 0 .. n /\ z - (m - 1) \in 1 .. MaxZoom /\ z - (m - 1) - 1 = z - m
        BY <1>0, <3>2
      <4>2. ParentOf(TileAt(p, z - (m - 1))) = TileAt(p, z - m) BY <4>1, ParentTile
      <4>3. good[m - 1] = TileAt(p, z - (m - 1)) BY <4>1
      <4>4. good[m] = TileAt(p, z - m) OBVIOUS
      <4> HIDE DEF good
      <4> QED BY <3>2, <4>2, <4>3, <4>4
    <3> QED BY <3>1, <3>2
  <2>2. good = [m \in 0 .. n |-> good[m]] OBVIOUS
  <2> HIDE DEF good, key
  <2> QED BY <2>1, <2>2
<1>2. ASSUME NEW f, Climbs(f) PROVE f[n] = TileAt(p, z - n)
  <2>1. \A m \in 0 .. n : f[m] = IF m = 0 THEN key ELSE ParentOf(f[m - 1])
    <3> HIDE DEF key
    <3> QED BY <1>2
  <2> DEFINE Bad == {m \in 0 .. n : f[m] # TileAt(p, z - m)}
  <2> SUFFICES ASSUME Bad # {} PROVE FALSE BY <1>0
  <2>2. Bad \in SUBSET Nat BY <1>0
  <2>3. PICK m \in Bad : \A x \in Bad : m <= x
    <3> HIDE DEF Bad
    <3> QED BY <2>2, LeastNat
  <2>4. m \in 0 .. n /\ f[m] # TileAt(p, z - m) OBVIOUS
  <2>5. m # 0
    <3>1. z - 0 = z BY <1>0
    <3> QED BY <2>1, <2>4, <3>1
  <2>6. /\ m - 1 \in 0 .. n /\ ~ (m <= m - 1)
        /\ z - (m - 1) \in 1 .. MaxZoom /\ z - (m - 1) - 1 = z - m
    BY <1>0, <2>4, <2>5
  <2>7. m - 1 \notin Bad
    <3> HIDE DEF Bad
    <3> QED BY <2>3, <2>6
  <2>8. f[m - 1] = TileAt(p, z - (m - 1)) BY <2>6, <2>7
  <2>9. f[m] = ParentOf(f[m - 1]) BY <2>1, <2>4, <2>5
  <2>10. ParentOf(TileAt(p, z - (m - 1))) = TileAt(p, z - m) BY <2>6, ParentTile
  <2> QED BY <2>4, <2>8, <2>9, <2>10
<1> DEFINE up == CHOOSE f : Climbs(f)
<1>3. Climbs(up)
  <2> HIDE DEF Climbs, good
  <2> QED BY <1>1
<1>4. up[n] = TileAt(p, z - n)
  <2> HIDE DEF Climbs, up
  <2> QED BY <1>2, <1>3
<1>5. Ancestor(key, n) = up[n] BY DEF Ancestor
<1> QED BY <1>4, <1>5

(* draw_tile: an ancestor of the tile that is there stands in for it.      *)
LEMMA StandsIn ==
    ASSUME MapAssumption, NEW p, OnWorld(p), NEW z \in MinZoom .. MaxZoom,
           NEW coarse \in MinZoom .. z, z - coarse <= MaxParentLevels
    PROVE  Painted(TileAt(p, z), {TileAt(p, coarse)}) = {TileAt(p, coarse)}
<1>0. /\ MinZoom \in Nat /\ MaxZoom \in Nat /\ MaxParentLevels \in Nat
      /\ z \in 0 .. MaxZoom /\ z \in Int /\ coarse \in Int
  BY DEF MapAssumption
<1> DEFINE key == TileAt(p, z)
           tile == TileAt(p, coarse)
           levels == {n \in 0 .. MaxParentLevels :
                        n <= key.zoom - MinZoom /\ Ancestor(key, n) \in {tile}}
<1>1. key.zoom = z BY DEF TileAt
<1>2. \A n \in 0 .. MaxParentLevels : n <= z - MinZoom =>
        (Ancestor(key, n) = tile <=> n = z - coarse)
  <2> SUFFICES ASSUME NEW n \in 0 .. MaxParentLevels, n <= z - MinZoom
               PROVE  Ancestor(key, n) = tile <=> n = z - coarse
    OBVIOUS
  <2>1. n \in 0 .. z BY <1>0
  <2>2. Ancestor(key, n) = TileAt(p, z - n) BY <2>1, <1>0, AncestorTile
  <2>3. TileAt(p, z - n).zoom = z - n /\ tile.zoom = coarse BY DEF TileAt
  <2>4. z - (z - coarse) = coarse BY <1>0
  <2> HIDE DEF key, tile
  <2>5. n = z - coarse => Ancestor(key, n) = tile BY <2>2, <2>4 DEF tile
  <2>6. Ancestor(key, n) = tile => n = z - coarse BY <2>2, <2>3, <1>0
  <2> QED BY <2>5, <2>6
<1>3. z - coarse \in 0 .. MaxParentLevels /\ z - coarse <= z - MinZoom BY <1>0
<1>4. levels = {z - coarse}
  <2> HIDE DEF key, tile
  <2> QED BY <1>1, <1>2, <1>3
<1>5. (CHOOSE n \in levels : \A m \in levels : n <= m) = z - coarse
  <2> HIDE DEF levels
  <2> QED BY <1>3, <1>4
<1>6. Ancestor(key, z - coarse) = tile BY <1>2, <1>3
<1>7. Painted(key, {tile}) = IF levels = {} THEN {}
        ELSE {Ancestor(key, CHOOSE n \in levels : \A m \in levels : n <= m)}
  BY DEF Painted
<1> HIDE DEF key, tile, levels
<1>8. Painted(key, {tile}) = {tile} BY <1>4, <1>5, <1>6, <1>7
<1> QED BY <1>8 DEF key, tile

LEMMA CentreCovered ==
    ASSUME MapAssumption, NEW c, OnWorld(c.center), c.zoom \in MinZoom .. MaxZoom
    PROVE  LET middle == TileAt(c.center, c.zoom)
               levels == {z \in MinZoom .. c.zoom : c.zoom - z <= MaxParentLevels}
           IN  /\ middle \in DrawnTiles(c)
               /\ \A z \in levels : LET tile == TileAt(c.center, z)
                                    IN  Painted(middle, {tile}) = {tile}
<1>1. c.zoom \in 0 .. MaxZoom BY DEF MapAssumption
<1>2. TileAt(c.center, c.zoom) \in DrawnTiles(c) BY <1>1, MiddleDrawn
<1>3. ASSUME NEW z \in MinZoom .. c.zoom, c.zoom - z <= MaxParentLevels
      PROVE  Painted(TileAt(c.center, c.zoom), {TileAt(c.center, z)}) = {TileAt(c.center, z)}
  BY <1>3, StandsIn
<1> QED BY <1>2, <1>3

(***************************************************************************)
(* The main window.                                                        *)
(***************************************************************************)

Profiles == {StartProfile} \cup Chosen \cup {StoredProfiles[f] : f \in DOMAIN StoredProfiles}
(* The places a vessel is put at: points that a map can be centred on.     *)
Spots == {p \in Places \cup {q.place : q \in Profiles} : IsPoint(p) /\ OnWorld(OnMap(p))}
TrackPoint == [at : Spots, mark : Nat]

Sound(p) == IsProfile(p) /\ p.place \in Spots

LEMMA SoundProfiles ==
    ASSUME WindowAssumption
    PROVE  /\ Sound(StartProfile) /\ \A p \in Chosen : Sound(p)
           /\ \A f \in DOMAIN StoredProfiles : Sound(StoredProfiles[f])
           /\ Places \subseteq Spots
<1>1. \A p : IsPoint(p) => OnWorld(OnMap(p)) BY OnMapFacts DEF WindowAssumption
<1>2. Places \subseteq Spots BY <1>1 DEF WindowAssumption, Spots
<1>3. \A p \in Profiles : IsProfile(p) BY DEF WindowAssumption, Profiles
<1>4. \A p \in Profiles : Sound(p)
  <2> SUFFICES ASSUME NEW p \in Profiles PROVE Sound(p) OBVIOUS
  <2>1. IsProfile(p) /\ IsPoint(p.place) BY <1>3 DEF IsProfile
  <2>2. p.place \in Spots BY <1>1, <2>1 DEF Spots
  <2> QED BY <2>1, <2>2 DEF Sound
<1> QED BY <1>2, <1>4 DEF Profiles

Fields ==
    {"profile", "path", "title", "runner", "source", "dashboard", "pause", "steering",
     "record", "clear_destination", "slider", "status", "chart", "open", "wanted", "jumps"}

RunnerShape(x) ==
    /\ DOMAIN x = {"profile", "running", "paused", "recorder", "position", "sentences"}
    /\ x.running \in BOOLEAN /\ x.paused \in BOOLEAN
    /\ Sound(x.profile)
SourceShape(x) ==
    /\ DOMAIN x = {"steering", "rudder", "pinned", "place", "destination", "origin"}
    /\ x.place \in Spots /\ x.pinned \in SUBSET Steerable
DashboardShape(x) ==
    x \in [overrides : BOOLEAN, steering : BOOLEAN, ticked : SUBSET Steerable,
           enabled : SUBSET Steerable]
ActionShape(x) == x \in [checked : BOOLEAN, enabled : BOOLEAN]
SliderShape(x) == DOMAIN x = {"enabled", "value", "down"}

(* The map shows a part of the world at a zoom there is.                   *)
Located(x) ==
    /\ OnWorld(x.center)
    /\ x.zoom \in Int /\ MinZoom <= x.zoom /\ x.zoom <= MaxZoom
    /\ \A p \in x.drag : IsPoint(p)
ChartShape(x) ==
    /\ DOMAIN x = {"center", "zoom", "follow", "vessel", "track", "broken", "route",
                   "destination", "leg_origin", "drag"}
    /\ x.follow \in BOOLEAN /\ x.broken \in BOOLEAN
    /\ x.track \in Seq(Seq(TrackPoint) \ {<<>>})
    /\ Located(x)

Shaped(w) ==
    /\ DOMAIN w = Fields
    /\ RunnerShape(w.runner) /\ SourceShape(w.source) /\ DashboardShape(w.dashboard)
    /\ ActionShape(w.pause) /\ ActionShape(w.steering)
    /\ SliderShape(w.slider) /\ ChartShape(w.chart)
    /\ w.open \in BOOLEAN /\ w.wanted \in BOOLEAN /\ w.jumps \in Nat
    /\ Sound(w.profile)

Kept(r, w, changed) == \A f \in Fields \ changed : r[f] = w[f]

(* The run, its actions and its lights.                                    *)
Lit(w) ==
    /\ w.status.led = IF ~w.runner.running THEN "stopped"
                      ELSE IF w.runner.paused THEN "paused" ELSE "running"
    /\ w.status.recording = w.record

Recorded(w) == w.record = (w.runner.recorder # "")

Runs(w) ==
    /\ w.runner.paused => w.runner.running
    /\ w.pause.checked = w.runner.paused
    /\ w.pause.enabled = w.runner.running

Sliding(w) == w.slider.enabled = Finite(w)

(* One lemma for each function the slots are made of: the fields it keeps  *)
(* and what those it changes are for.                                      *)
LEMMA RefreshStatusFacts ==
    ASSUME NEW w, NEW r, Shaped(w), r = RefreshStatus(w)
    PROVE  /\ Shaped(r) /\ Kept(r, w, {"status"})
           /\ Recorded(w) => Lit(r)
<1>1. /\ DOMAIN r = Fields /\ \A f \in Fields \ {"status"} : r[f] = w[f]
  BY DEF RefreshStatus, Shaped, Fields
<1>2. /\ r.status.led = IF ~IsRunning(w) THEN "stopped"
                        ELSE IF w.runner.paused THEN "paused" ELSE "running"
      /\ r.status.recording = (w.runner.recorder # "")
  BY DEF RefreshStatus, Shaped, Fields
<1>3. Shaped(r) BY <1>1 DEF Shaped, Fields
<1>4. Kept(r, w, {"status"}) BY <1>1 DEF Kept
<1>5. Recorded(w) => Lit(r)
  BY <1>1, <1>2 DEF Lit, Recorded, IsRunning, Fields
<1> QED BY <1>3, <1>4, <1>5

LEMMA RefreshTransportFacts ==
    ASSUME NEW w, NEW r, Shaped(w), r = RefreshTransport(w)
    PROVE  Shaped(r) /\ Kept(r, w, {"slider"}) /\ Sliding(r)
<1>1. /\ DOMAIN r = Fields /\ \A f \in Fields \ {"slider"} : r[f] = w[f]
  BY DEF RefreshTransport, Shaped, Fields
<1>2. r.slider.enabled = Finite(w) /\ SliderShape(r.slider)
  <2>1. \E v, down : r.slider = IF ~Finite(w) THEN [enabled |-> FALSE, value |-> 0, down |-> FALSE]
                                ELSE [enabled |-> TRUE, value |-> v, down |-> down]
    BY DEF RefreshTransport, Shaped, Fields
  <2>2. PICK v, down :
          r.slider = IF ~Finite(w) THEN [enabled |-> FALSE, value |-> 0, down |-> FALSE]
                     ELSE [enabled |-> TRUE, value |-> v, down |-> down]
    BY <2>1
  <2>3. CASE Finite(w)
    <3>1. r.slider = [enabled |-> TRUE, value |-> v, down |-> down] BY <2>2, <2>3
    <3>2. r.slider.enabled = TRUE /\ SliderShape(r.slider) BY <3>1 DEF SliderShape
    <3>3. Finite(w) = TRUE BY <2>3 DEF Finite
    <3> QED BY <3>2, <3>3
  <2>4. CASE ~Finite(w)
    <3>1. r.slider = [enabled |-> FALSE, value |-> 0, down |-> FALSE] BY <2>2, <2>4
    <3>2. r.slider.enabled = FALSE /\ SliderShape(r.slider) BY <3>1 DEF SliderShape
    <3>3. Finite(w) = FALSE BY <2>4 DEF Finite
    <3> QED BY <3>2, <3>3
  <2> QED BY <2>3, <2>4
<1>3. Shaped(r) BY <1>1, <1>2 DEF Shaped, Fields
<1>4. Sliding(r) BY <1>1, <1>2 DEF Sliding, Finite, Fields
<1> QED BY <1>1, <1>3, <1>4 DEF Kept

LEMMA UpdateActionsFacts ==
    ASSUME NEW w, NEW r, Shaped(w), r = UpdateActions(w)
    PROVE  /\ Shaped(r) /\ Kept(r, w, {"pause", "slider", "status"})
           /\ Sliding(r)
           /\ r.pause.enabled = w.runner.running
           /\ r.pause.checked = (w.pause.checked /\ w.runner.running)
           /\ Recorded(w) => Lit(r)
<1>1. PICK a : a = [w EXCEPT !.pause.enabled = IsRunning(w),
                             !.pause.checked = @ /\ IsRunning(w)]
  OBVIOUS
<1>2. /\ DOMAIN a = Fields /\ \A f \in Fields \ {"pause"} : a[f] = w[f]
  BY <1>1 DEF Shaped, Fields
<1>3. /\ ActionShape(a.pause)
      /\ a.pause.enabled = w.runner.running
      /\ a.pause.checked = (w.pause.checked /\ w.runner.running)
  BY <1>1 DEF Shaped, Fields, ActionShape, RunnerShape, IsRunning
<1>4. Shaped(a) BY <1>2, <1>3 DEF Shaped, Fields
<1>5. PICK b : b = RefreshTransport(a) OBVIOUS
<1>6. Shaped(b) /\ Kept(b, a, {"slider"}) /\ Sliding(b)
  BY <1>4, <1>5, RefreshTransportFacts
<1>7. r = RefreshStatus(b) BY <1>1, <1>5 DEF UpdateActions
<1>8. Shaped(r) /\ Kept(r, b, {"status"}) /\ (Recorded(b) => Lit(r))
  BY <1>6, <1>7, RefreshStatusFacts
<1>9. Kept(r, w, {"pause", "slider", "status"}) BY <1>2, <1>6, <1>8 DEF Kept
<1>10. r.pause = a.pause BY <1>6, <1>8 DEF Kept, Fields
<1>11. Sliding(r) BY <1>6, <1>8 DEF Kept, Fields, Sliding, Finite
<1>12. Recorded(w) => Lit(r) BY <1>2, <1>6, <1>8 DEF Kept, Fields, Recorded
<1> QED BY <1>3, <1>8, <1>9, <1>10, <1>11, <1>12

LEMMA PausedChangedFacts ==
    ASSUME NEW w, NEW r, Shaped(w), r = PausedChanged(w)
    PROVE  /\ Shaped(r) /\ Kept(r, w, {"pause", "status"})
           /\ r.pause.checked = w.runner.paused
           /\ r.pause.enabled = w.pause.enabled
           /\ Recorded(w) => Lit(r)
<1>1. PICK a : a = [w EXCEPT !.pause.checked = w.runner.paused] OBVIOUS
<1>2. /\ DOMAIN a = Fields /\ \A f \in Fields \ {"pause"} : a[f] = w[f]
  BY <1>1 DEF Shaped, Fields
<1>3. /\ ActionShape(a.pause)
      /\ a.pause.enabled = w.pause.enabled
      /\ a.pause.checked = w.runner.paused
  BY <1>1 DEF Shaped, Fields, ActionShape, RunnerShape
<1>4. Shaped(a) BY <1>2, <1>3 DEF Shaped, Fields
<1>5. r = RefreshStatus(a) BY <1>1 DEF PausedChanged
<1>6. Shaped(r) /\ Kept(r, a, {"status"}) /\ (Recorded(a) => Lit(r))
  BY <1>4, <1>5, RefreshStatusFacts
<1>7. Kept(r, w, {"pause", "status"}) BY <1>2, <1>6 DEF Kept
<1>8. r.pause = a.pause BY <1>6 DEF Kept, Fields
<1>9. Recorded(w) => Lit(r) BY <1>2, <1>6 DEF Fields, Recorded
<1> QED BY <1>3, <1>6, <1>7, <1>8, <1>9

LEMMA RecordingChangedFacts ==
    ASSUME NEW w, NEW r, Shaped(w), r = RecordingChanged(w)
    PROVE  /\ Shaped(r) /\ Kept(r, w, {"record", "status"})
           /\ Recorded(r) /\ Lit(r)
<1>1. PICK a : a = [w EXCEPT !.record = w.runner.recorder # ""] OBVIOUS
<1>2. /\ DOMAIN a = Fields /\ \A f \in Fields \ {"record"} : a[f] = w[f]
      /\ a.record = (w.runner.recorder # "")
  BY <1>1 DEF Shaped, Fields
<1>3. Shaped(a) BY <1>2 DEF Shaped, Fields
<1>4. Recorded(a) BY <1>2 DEF Recorded, Fields
<1>5. r = RefreshStatus(a) BY <1>1 DEF RecordingChanged
<1>6. Shaped(r) /\ Kept(r, a, {"status"}) /\ Lit(r)
  BY <1>3, <1>4, <1>5, RefreshStatusFacts
<1>7. Recorded(r) BY <1>4, <1>6 DEF Kept, Fields, Recorded
<1> QED BY <1>2, <1>6, <1>7 DEF Kept
-----------------------------------------------------------------------------
(* The track of the map: every segment joins places with one mark, and the *)
(* last one, unless the track is broken, those of the present one.         *)
Tracks == Seq(Seq(TrackPoint) \ {<<>>})

Joined(t) == \A i \in DOMAIN t : \A j, k \in DOMAIN t[i] : t[i][j].mark = t[i][k].mark

EndsWith(t, mark) == t # <<>> => \A j \in DOMAIN t[Len(t)] : t[Len(t)][j].mark = mark

LEMMA SegmentFacts ==
    ASSUME NEW t \in Tracks, NEW i \in DOMAIN t
    PROVE  /\ t[i] \in Seq(TrackPoint) /\ t[i] # <<>>
           /\ DOMAIN t[i] = 1 .. Len(t[i]) /\ Len(t[i]) \in Nat \ {0}
<1>1. t[i] \in Seq(TrackPoint) \ {<<>>} BY DEF Tracks
<1> QED BY <1>1

LEMMA ExtendedFacts ==
    ASSUME NEW c, ChartShape(c), NEW pt \in TrackPoint,
           Joined(c.track), c.broken \/ EndsWith(c.track, pt.mark)
    PROVE  LET t == Extended(c, pt)
           IN  t \in Tracks /\ t # <<>> /\ Joined(t) /\ EndsWith(t, pt.mark)
<1> DEFINE t == c.track
           n == Len(t)
           r == Extended(c, pt)
<1>1. t \in Tracks /\ DOMAIN t = 1 .. n /\ n \in Nat BY DEF ChartShape, Tracks
<1>2. <<pt>> \in Seq(TrackPoint) \ {<<>>} /\ DOMAIN <<pt>> = {1} OBVIOUS
<1>3. CASE n = 0 \/ c.broken
  <2>1. r = Append(t, <<pt>>) BY <1>3 DEF Extended
  <2>2. r \in Tracks /\ Len(r) = n + 1 /\ DOMAIN r = 1 .. n + 1
        /\ r[n + 1] = <<pt>> /\ \A i \in 1 .. n : r[i] = t[i]
    BY <2>1, <1>1, <1>2 DEF Tracks
  <2>3. r # <<>> BY <2>2, <1>1
  <2> HIDE DEF r, n, t
  <2>4. ASSUME NEW i \in DOMAIN r, NEW j \in DOMAIN r[i], NEW k \in DOMAIN r[i]
        PROVE  r[i][j].mark = r[i][k].mark
    <3>1. CASE i = n + 1 BY <3>1, <2>2, <1>2
    <3>2. CASE i \in 1 .. n BY <3>2, <2>2, <1>1 DEF Joined, t
    <3> QED BY <3>1, <3>2, <2>2, <1>1
  <2>5. \A j \in DOMAIN r[n + 1] : r[n + 1][j].mark = pt.mark BY <2>2, <1>2
  <2> QED BY <2>2, <2>3, <2>4, <2>5 DEF Joined, EndsWith, r
<1>4. CASE n # 0 /\ ~c.broken
  <2> DEFINE s == t[n]
  <2>1. n \in DOMAIN t BY <1>1, <1>4
  <2>2. s \in Seq(TrackPoint) /\ s # <<>> /\ DOMAIN s = 1 .. Len(s) /\ Len(s) \in Nat \ {0}
    BY <1>1, <2>1, SegmentFacts
  <2>3. \A j \in DOMAIN s : s[j].mark = pt.mark BY <1>1, <1>4 DEF EndsWith
  <2>4. CASE r = t
    <3>1. r \in Tracks /\ r # <<>> BY <1>1, <1>4, <2>4
    <3>2. Joined(r) /\ EndsWith(r, pt.mark) BY <1>4, <2>4
    <3> HIDE DEF r
    <3> QED BY <3>1, <3>2 DEF r
  <2>5. CASE r = [t EXCEPT ![n] = Append(s, pt)]
    <3> DEFINE a == Append(s, pt)
    <3>1. /\ a \in Seq(TrackPoint) \ {<<>>} /\ DOMAIN a = 1 .. Len(s) + 1
          /\ a[Len(s) + 1] = pt /\ \A j \in 1 .. Len(s) : a[j] = s[j]
      BY <2>2
    <3>2. \A j \in DOMAIN a : a[j].mark = pt.mark BY <3>1, <2>2, <2>3
    <3> HIDE DEF a
    <3>3. /\ r \in Tracks /\ Len(r) = n /\ DOMAIN r = DOMAIN t
          /\ r[n] = a /\ \A i \in DOMAIN t \ {n} : r[i] = t[i]
      BY <2>1, <2>5, <1>1, <3>1 DEF Tracks, a
    <3>4. r # <<>> BY <3>3, <1>1, <1>4
    <3> HIDE DEF r, n, t
    <3>5. ASSUME NEW i \in DOMAIN r, NEW j \in DOMAIN r[i], NEW k \in DOMAIN r[i]
          PROVE  r[i][j].mark = r[i][k].mark
      <4>1. CASE i = n BY <4>1, <3>2, <3>3
      <4>2. CASE i \in DOMAIN t \ {n} BY <4>2, <3>3 DEF Joined, t
      <4> QED BY <4>1, <4>2, <3>3
    <3> QED BY <3>2, <3>3, <3>4, <3>5 DEF Joined, EndsWith, r
  <2>6. r = t \/ r = [t EXCEPT ![n] = Append(s, pt)] BY <1>4 DEF Extended
  <2> HIDE DEF r, t, n
  <2> QED BY <2>4, <2>5, <2>6 DEF r
<1> HIDE DEF r
<1> QED BY <1>3, <1>4

LEMMA TrimmedFacts ==
    ASSUME NEW t \in Tracks, t # <<>>, NEW mark, Joined(t), EndsWith(t, mark)
    PROVE  Trimmed(t) \in Tracks /\ Joined(Trimmed(t)) /\ EndsWith(Trimmed(t), mark)
<1> DEFINE n == Len(t)
           h == Head(t)
           rest == Tail(t)
           r == Trimmed(t)
<1>1. /\ n \in Nat \ {0} /\ DOMAIN t = 1 .. n
      /\ h = t[1] /\ rest \in Tracks /\ Len(rest) = n - 1 /\ DOMAIN rest = 1 .. n - 1
      /\ \A i \in 1 .. n - 1 : rest[i] = t[i + 1]
  BY DEF Tracks
<1>2. h \in Seq(TrackPoint) /\ h # <<>> /\ Len(h) \in Nat \ {0} /\ DOMAIN h = 1 .. Len(h)
  <2>1. 1 \in DOMAIN t BY <1>1
  <2> QED BY <1>1, <2>1, SegmentFacts
<1>3. r = t \/ (Len(h) = 1 /\ r = rest) \/ (Len(h) # 1 /\ r = <<Tail(h)>> \o rest)
  BY DEF Trimmed
<1>4. CASE r = t BY <1>4
<1>5. CASE r = rest
  <2> HIDE DEF n, h, rest, r
  <2>1. Joined(rest)
    <3> SUFFICES ASSUME NEW i \in 1 .. n - 1, NEW j \in DOMAIN rest[i], NEW k \in DOMAIN rest[i]
                 PROVE  rest[i][j].mark = rest[i][k].mark
      BY <1>1 DEF Joined
    <3>1. rest[i] = t[i + 1] /\ i + 1 \in DOMAIN t BY <1>1
    <3> QED BY <3>1 DEF Joined
  <2>2. EndsWith(rest, mark)
    <3> SUFFICES ASSUME rest # <<>>, NEW j \in DOMAIN rest[n - 1]
                 PROVE  rest[n - 1][j].mark = mark
      BY <1>1 DEF EndsWith
    <3>1. n - 1 # 0
      <4> SUFFICES ASSUME n - 1 = 0 PROVE FALSE OBVIOUS
      <4>1. rest \in Seq(Seq(TrackPoint) \ {<<>>}) /\ Len(rest) = 0 BY <1>1 DEF Tracks
      <4> QED BY <4>1
    <3>2. rest[n - 1] = t[n] BY <1>1, <3>1
    <3> QED BY <3>2 DEF EndsWith, n
  <2> QED BY <1>1, <1>5, <2>1, <2>2 DEF r
<1>6. CASE Len(h) # 1 /\ r = <<Tail(h)>> \o rest
  <2> DEFINE s == Tail(h)
  <2>1. /\ s \in Seq(TrackPoint) /\ s # <<>> /\ DOMAIN s = 1 .. Len(h) - 1
        /\ \A j \in 1 .. Len(h) - 1 : s[j] = h[j + 1]
    <3> HIDE DEF h
    <3>1. /\ s \in Seq(TrackPoint) /\ Len(s) = Len(h) - 1
          /\ \A j \in 1 .. Len(s) : s[j] = h[j + 1]
      BY <1>2, HeadTailProperties
    <3>2. DOMAIN s = 1 .. Len(s) BY <3>1
    <3>3. s # <<>> BY <3>1, <1>2, <1>6
    <3> QED BY <3>1, <3>2, <3>3
  <2> HIDE DEF s
  <2>2. /\ r \in Tracks /\ Len(r) = n /\ DOMAIN r = 1 .. n
        /\ r[1] = s /\ \A i \in 2 .. n : r[i] = t[i]
    <3>1. <<s>> \in Tracks /\ Len(<<s>>) = 1 /\ <<s>>[1] = s BY <2>1 DEF Tracks
    <3>2. r = <<s>> \o rest BY <1>6 DEF s
    <3> HIDE DEF r, rest, n, h
    <3>3. /\ r \in Tracks /\ Len(r) = 1 + (n - 1)
          /\ \A i \in 1 .. 1 + (n - 1) : r[i] = IF i <= 1 THEN <<s>>[i] ELSE rest[i - 1]
      BY <3>1, <3>2, <1>1, ConcatProperties DEF Tracks
    <3>4. ASSUME NEW i \in 2 .. n PROVE r[i] = t[i]
      <4>1. i - 1 \in 1 .. n - 1 /\ i - 1 + 1 = i /\ i \in 1 .. 1 + (n - 1) /\ ~ (i <= 1)
        BY <1>1
      <4> QED BY <4>1, <3>3, <1>1
    <3>5. r[1] = s BY <3>1, <3>3, <1>1
    <3>6. DOMAIN r = 1 .. n BY <3>3, <1>1 DEF Tracks
    <3> QED BY <3>3, <3>4, <3>5, <3>6, <1>1
  <2> HIDE DEF r, rest, n
  <2>3. \A j \in DOMAIN s : \E k \in DOMAIN t[1] : s[j] = t[1][k]
    <3> TAKE j \in DOMAIN s
    <3>1. j + 1 \in DOMAIN h /\ s[j] = h[j + 1] BY <1>2, <2>1
    <3> QED BY <3>1, <1>1
  <2>4. Joined(r)
    <3> SUFFICES ASSUME NEW i \in 1 .. n, NEW j \in DOMAIN r[i], NEW k \in DOMAIN r[i]
                 PROVE  r[i][j].mark = r[i][k].mark
      BY <2>2 DEF Joined
    <3>1. CASE i = 1
      <4>1. PICK a \in DOMAIN t[1] : r[i][j] = t[1][a] BY <3>1, <2>2, <2>3
      <4>2. PICK b \in DOMAIN t[1] : r[i][k] = t[1][b] BY <3>1, <2>2, <2>3
      <4>3. 1 \in DOMAIN t BY <1>1
      <4> QED BY <4>1, <4>2, <4>3 DEF Joined
    <3>2. CASE i \in 2 .. n
      <4>1. i \in DOMAIN t /\ r[i] = t[i] BY <3>2, <1>1, <2>2
      <4> QED BY <4>1 DEF Joined
    <3> QED BY <3>1, <3>2, <1>1
  <2>5. EndsWith(r, mark)
    <3> SUFFICES ASSUME NEW j \in DOMAIN r[n] PROVE r[n][j].mark = mark
      BY <2>2 DEF EndsWith
    <3>0. \A k \in DOMAIN t[n] : t[n][k].mark = mark BY DEF EndsWith, n
    <3>1. CASE n = 1
      <4>1. PICK a \in DOMAIN t[1] : r[n][j] = t[1][a] BY <3>1, <2>2, <2>3
      <4> QED BY <4>1, <3>0, <3>1
    <3>2. CASE n \in 2 .. n BY <3>2, <2>2, <3>0
    <3> QED BY <3>1, <3>2, <1>1
  <2> QED BY <2>2, <2>4, <2>5 DEF r
<1> HIDE DEF r
<1> QED BY <1>3, <1>4, <1>5, <1>6 DEF r
LEMMA MapSetVesselFacts ==
    ASSUME NEW c, NEW r, NEW p \in Spots, NEW mark \in Nat, ChartShape(c),
           Joined(c.track), c.broken \/ EndsWith(c.track, mark),
           r = MapSetVessel(c, p, mark)
    PROVE  /\ ChartShape(r) /\ r.vessel = {p} /\ r.follow = c.follow /\ r.route = c.route
           /\ r.follow => r.center = OnMap(p)
           /\ Joined(r.track) /\ EndsWith(r.track, mark)
<1>1. PICK point : point = [at |-> p, mark |-> mark] OBVIOUS
<1>2. point \in TrackPoint /\ point.mark = mark BY <1>1 DEF TrackPoint
<1>3. PICK e : e = Extended(c, point) OBVIOUS
<1>4. e \in Tracks /\ e # <<>> /\ Joined(e) /\ EndsWith(e, mark)
  BY <1>2, <1>3, ExtendedFacts
<1>5. PICK t : t = Trimmed(e) OBVIOUS
<1>6. t \in Tracks /\ Joined(t) /\ EndsWith(t, mark) BY <1>4, <1>5, TrimmedFacts
<1>7. r = [c EXCEPT !.vessel = {p}, !.track = t, !.broken = FALSE,
                    !.center = IF c.follow THEN OnMap(p) ELSE @]
  BY <1>1, <1>3, <1>5 DEF MapSetVessel
<1>8. /\ DOMAIN r = DOMAIN c /\ r.vessel = {p} /\ r.track = t /\ r.broken = FALSE
      /\ r.follow = c.follow /\ r.route = c.route
      /\ r.zoom = c.zoom /\ r.drag = c.drag
      /\ r.center = IF c.follow THEN OnMap(p) ELSE c.center
  BY <1>7 DEF ChartShape
<1>8a. Located(r)
  <2>1. OnWorld(OnMap(p)) BY DEF Spots
  <2>2. OnWorld(r.center) BY <1>8, <2>1 DEF ChartShape, Located
  <2> QED BY <1>8, <2>2 DEF ChartShape, Located
<1>9. ChartShape(r) BY <1>6, <1>8, <1>8a DEF ChartShape, Tracks
<1> QED BY <1>6, <1>8, <1>9

(* The chart shows the vessel and where it steers for.                     *)
TrackReady(w) == Joined(w.chart.track) /\ (w.chart.broken \/ EndsWith(w.chart.track, w.jumps))

Centred(w) == w.chart.follow /\ HasDelta(w) => w.chart.center = OnMap(w.source.place)

Sails(w) ==
    /\ w.chart.vessel = {w.source.place}
    /\ Centred(w)
    /\ TrackReady(w)
    /\ w.chart.destination = w.source.destination
    /\ w.clear_destination = (w.source.destination # {})

LEMMA RefreshViewFacts ==
    ASSUME NEW w, NEW r, Shaped(w), TrackReady(w), r = RefreshView(w)
    PROVE  /\ Shaped(r) /\ Kept(r, w, {"chart", "clear_destination"})
           /\ Sails(r) /\ r.chart.route = w.chart.route
<1>1. PICK c : c = MapSetVessel(w.chart, w.source.place, w.jumps) OBVIOUS
<1>2. w.source.place \in Spots /\ w.jumps \in Nat /\ ChartShape(w.chart)
  BY DEF Shaped, SourceShape
<1>3. /\ ChartShape(c) /\ c.vessel = {w.source.place} /\ c.follow = w.chart.follow
      /\ c.route = w.chart.route
      /\ c.follow => c.center = OnMap(w.source.place)
      /\ Joined(c.track) /\ EndsWith(c.track, w.jumps)
  BY <1>1, <1>2, MapSetVesselFacts DEF TrackReady
<1>4. PICK d : d = MapSetDestination(c, w.source.destination, w.source.origin) OBVIOUS
<1>5. /\ DOMAIN d = DOMAIN c /\ d.destination = w.source.destination
      /\ d.vessel = c.vessel /\ d.follow = c.follow /\ d.route = c.route
      /\ d.center = c.center /\ d.track = c.track /\ d.broken = c.broken
      /\ d.zoom = c.zoom /\ d.drag = c.drag
  BY <1>3, <1>4 DEF MapSetDestination, ChartShape
<1>6. ChartShape(d) BY <1>3, <1>5 DEF ChartShape, Located
<1>7. PICK clear : clear = (w.source.destination # {}) OBVIOUS
<1>8. r = [w EXCEPT !.chart = d, !.clear_destination = clear]
  BY <1>1, <1>4, <1>7 DEF RefreshView
<1>9. /\ DOMAIN r = Fields /\ r.chart = d /\ r.clear_destination = clear
      /\ \A f \in Fields \ {"chart", "clear_destination"} : r[f] = w[f]
  BY <1>8 DEF Shaped, Fields
<1>10. Shaped(r) BY <1>6, <1>9 DEF Shaped, Fields
<1>11. /\ r.source = w.source /\ r.jumps = w.jumps /\ r.runner = w.runner
  BY <1>9 DEF Fields
<1>12. Sails(r)
  BY <1>3, <1>5, <1>7, <1>9, <1>11 DEF Sails, TrackReady, Centred
<1> QED BY <1>3, <1>5, <1>9, <1>10, <1>12 DEF Kept

LEMMA TickedFacts ==
    ASSUME NEW w, NEW r, Shaped(w), TrackReady(w), r = Ticked(w)
    PROVE  /\ Shaped(r) /\ Kept(r, w, {"chart", "clear_destination", "slider", "status"})
           /\ Sails(r) /\ r.chart.route = w.chart.route /\ Sliding(r)
           /\ Recorded(w) => Lit(r)
<1>1. PICK a : a = RefreshView(w) OBVIOUS
<1>2. /\ Shaped(a) /\ Kept(a, w, {"chart", "clear_destination"})
      /\ Sails(a) /\ a.chart.route = w.chart.route
  BY <1>1, RefreshViewFacts
<1>3. PICK b : b = RefreshTransport(a) OBVIOUS
<1>4. Shaped(b) /\ Kept(b, a, {"slider"}) /\ Sliding(b) BY <1>2, <1>3, RefreshTransportFacts
<1>5. r = RefreshStatus(b) BY <1>1, <1>3 DEF Ticked
<1>6. Shaped(r) /\ Kept(r, b, {"status"}) /\ (Recorded(b) => Lit(r))
  BY <1>4, <1>5, RefreshStatusFacts
<1>7. /\ r.chart = a.chart /\ r.source = a.source /\ r.jumps = a.jumps
      /\ r.runner = a.runner /\ r.clear_destination = a.clear_destination
      /\ r.slider = b.slider /\ r.runner = b.runner
      /\ b.record = w.record /\ b.runner = w.runner
  BY <1>2, <1>4, <1>6 DEF Kept, Fields
<1>8. Sails(r) BY <1>2, <1>7 DEF Sails, TrackReady, Centred, HasDelta
<1>9. Sliding(r) BY <1>4, <1>7 DEF Sliding, Finite
<1>10. Recorded(w) => Lit(r) BY <1>6, <1>7 DEF Recorded
<1>11. Kept(r, w, {"chart", "clear_destination", "slider", "status"})
  BY <1>2, <1>4, <1>6 DEF Kept
<1> QED BY <1>2, <1>6, <1>7, <1>8, <1>9, <1>10, <1>11
-----------------------------------------------------------------------------
(* The runner starts, stops and pauses, and the window hears of it.        *)
SameRun(r, w) == r.runner.profile = w.runner.profile /\ r.runner.recorder = w.runner.recorder

RunnerFields == {"runner", "pause", "slider", "status"}

LEMMA HaltedFacts ==
    ASSUME NEW w, NEW r, NEW runs \in BOOLEAN, NEW pauses \in BOOLEAN, Shaped(w),
           r = [w EXCEPT !.runner.running = runs, !.runner.paused = pauses]
    PROVE  /\ Shaped(r) /\ Kept(r, w, {"runner"}) /\ SameRun(r, w)
           /\ r.runner.running = runs /\ r.runner.paused = pauses
<1>1. /\ DOMAIN r = Fields /\ \A f \in Fields \ {"runner"} : r[f] = w[f]
  BY DEF Shaped, Fields
<1>2. /\ r.runner.running = runs /\ r.runner.paused = pauses
      /\ SameRun(r, w) /\ RunnerShape(r.runner)
  BY DEF Shaped, Fields, RunnerShape, SameRun
<1>3. Shaped(r) BY <1>1, <1>2 DEF Shaped, Fields
<1> QED BY <1>1, <1>2, <1>3 DEF Kept

LEMMA RunnerStopFacts ==
    ASSUME NEW w, NEW r, Shaped(w), Runs(w), Recorded(w), r = RunnerStop(w)
    PROVE  /\ Shaped(r) /\ Kept(r, w, RunnerFields) /\ SameRun(r, w)
           /\ ~r.runner.running /\ Runs(r) /\ Recorded(r)
           /\ Sliding(w) => Sliding(r)
           /\ Lit(w) => Lit(r)
<1>1. PICK h : h = [w EXCEPT !.runner.running = FALSE, !.runner.paused = FALSE] OBVIOUS
<1>2. /\ Shaped(h) /\ Kept(h, w, {"runner"}) /\ SameRun(h, w)
      /\ h.runner.running = FALSE /\ h.runner.paused = FALSE
  BY <1>1, HaltedFacts
<1>3. /\ h.pause = w.pause /\ h.record = w.record /\ h.status = w.status
      /\ h.slider = w.slider
  BY <1>2 DEF Kept, Fields
<1>4. Recorded(h) BY <1>2, <1>3 DEF Recorded, SameRun
<1>5. w.runner.running \in BOOLEAN /\ w.runner.paused \in BOOLEAN
      /\ w.pause.checked \in BOOLEAN /\ w.pause.enabled \in BOOLEAN
  BY DEF Shaped, RunnerShape, ActionShape
<1>6. PICK told : told = IF w.runner.paused THEN PausedChanged(h) ELSE h OBVIOUS
<1>7. /\ Shaped(told) /\ Kept(told, h, {"pause", "status"})
      /\ told.pause.enabled = w.pause.enabled
      /\ ~told.pause.checked
  <2>1. CASE w.runner.paused
    <3>1. told = PausedChanged(h) BY <1>6, <2>1
    <3> QED BY <1>2, <1>3, <3>1, PausedChangedFacts
  <2>2. CASE ~w.runner.paused
    <3>1. told = h BY <1>6, <2>2
    <3> QED BY <1>2, <1>3, <2>2, <3>1 DEF Kept, Runs
  <2> QED BY <2>1, <2>2
<1>8. /\ told.runner = h.runner /\ told.record = h.record /\ told.slider = w.slider
  BY <1>3, <1>7 DEF Kept, Fields
<1>9. Recorded(told) BY <1>4, <1>8 DEF Recorded
<1>10. r = IF w.runner.running THEN UpdateActions(told) ELSE told
  BY <1>1, <1>6 DEF RunnerStop, IsRunning
<1>11. CASE w.runner.running
  <2>1. r = UpdateActions(told) BY <1>10, <1>11
  <2>2. /\ Shaped(r) /\ Kept(r, told, {"pause", "slider", "status"})
        /\ Sliding(r) /\ Lit(r)
        /\ r.pause.enabled = told.runner.running
        /\ r.pause.checked = (told.pause.checked /\ told.runner.running)
    BY <1>7, <1>9, <2>1, UpdateActionsFacts
  <2>3. r.runner = h.runner /\ r.record = told.record
    BY <1>8, <2>2 DEF Kept, Fields
  <2>4. Kept(r, w, RunnerFields)
    BY <1>2, <1>7, <2>2 DEF Kept, RunnerFields
  <2>5. Runs(r) BY <1>2, <1>7, <1>8, <2>2, <2>3 DEF Runs
  <2> QED BY <1>2, <1>9, <1>8, <2>2, <2>3, <2>4, <2>5 DEF Recorded, SameRun
<1>12. CASE ~w.runner.running
  <2>1. ~w.runner.paused /\ r = h BY <1>6, <1>10, <1>12 DEF Runs
  <2>2. Kept(r, w, RunnerFields) BY <1>2, <2>1 DEF Kept, RunnerFields
  <2>3. Runs(r) BY <1>2, <1>3, <1>12, <2>1, <1>5 DEF Runs
  <2>4. Sliding(w) => Sliding(r) BY <1>2, <1>3, <2>1 DEF Sliding, Finite, SameRun
  <2>5. Lit(w) => Lit(r) BY <1>2, <1>3, <1>12, <2>1 DEF Lit
  <2> QED BY <1>2, <1>4, <2>1, <2>2, <2>3, <2>4, <2>5
<1> QED BY <1>5, <1>11, <1>12

LEMMA RunnerStartFacts ==
    ASSUME NEW w, NEW r, Shaped(w), Runs(w), Recorded(w), r = RunnerStart(w)
    PROVE  /\ Shaped(r) /\ Kept(r, w, RunnerFields) /\ SameRun(r, w)
           /\ r.runner.running /\ Runs(r) /\ Recorded(r)
           /\ Sliding(w) => Sliding(r)
           /\ Lit(w) => Lit(r)
<1>1. w.runner.running \in BOOLEAN /\ w.pause.checked \in BOOLEAN
  BY DEF Shaped, RunnerShape, ActionShape
<1>2. CASE w.runner.running
  <2>1. r = w BY <1>2 DEF RunnerStart, IsRunning
  <2> QED BY <2>1, <1>2 DEF Kept, SameRun
<1>3. CASE ~w.runner.running
  <2>1. PICK s : s = [w EXCEPT !.runner.running = TRUE, !.runner.paused = FALSE] OBVIOUS
  <2>2. /\ Shaped(s) /\ Kept(s, w, {"runner"}) /\ SameRun(s, w)
        /\ s.runner.running = TRUE /\ s.runner.paused = FALSE
    BY <2>1, HaltedFacts
  <2>3. s.pause = w.pause /\ s.record = w.record BY <2>2 DEF Kept, Fields
  <2>4. Recorded(s) BY <2>2, <2>3 DEF Recorded, SameRun
  <2>5. r = UpdateActions(s) BY <1>3, <2>1 DEF RunnerStart, IsRunning
  <2>6. /\ Shaped(r) /\ Kept(r, s, {"pause", "slider", "status"})
        /\ Sliding(r) /\ Lit(r)
        /\ r.pause.enabled = s.runner.running
        /\ r.pause.checked = (s.pause.checked /\ s.runner.running)
    BY <2>2, <2>4, <2>5, UpdateActionsFacts
  <2>7. r.runner = s.runner /\ r.record = s.record BY <2>6 DEF Kept, Fields
  <2>8. ~w.pause.checked BY <1>3, <1>1 DEF Runs
  <2>9. Runs(r) BY <2>2, <2>3, <2>6, <2>7, <2>8 DEF Runs
  <2>10. Kept(r, w, RunnerFields) BY <2>2, <2>6 DEF Kept, RunnerFields
  <2> QED BY <2>2, <2>4, <2>6, <2>7, <2>9, <2>10 DEF SameRun, Recorded
<1> QED BY <1>1, <1>2, <1>3

LEMMA SetPausedFacts ==
    ASSUME NEW w, NEW r, NEW paused \in BOOLEAN, Shaped(w), Recorded(w),
           w.runner.running, w.pause.enabled = w.runner.running,
           w.runner.paused = paused => Runs(w),
           r = SetPaused(w, paused)
    PROVE  /\ Shaped(r) /\ Kept(r, w, RunnerFields) /\ SameRun(r, w)
           /\ r.runner.running /\ r.runner.paused = paused /\ Runs(r) /\ Recorded(r)
           /\ Sliding(w) => Sliding(r)
           /\ Lit(w) => Lit(r)
<1>1. CASE w.runner.paused = paused
  <2>1. r = w BY <1>1 DEF SetPaused
  <2> QED BY <1>1, <2>1 DEF Kept, SameRun
<1>2. CASE w.runner.paused # paused
  <2>1. PICK s : s = [w EXCEPT !.runner.paused = paused] OBVIOUS
  <2>2. /\ DOMAIN s = Fields /\ \A f \in Fields \ {"runner"} : s[f] = w[f]
    BY <2>1 DEF Shaped, Fields
  <2>3. /\ s.runner.running = w.runner.running /\ s.runner.paused = paused
        /\ SameRun(s, w) /\ RunnerShape(s.runner)
    BY <2>1 DEF Shaped, Fields, RunnerShape, SameRun
  <2>4. Shaped(s) BY <2>2, <2>3 DEF Shaped, Fields
  <2>5. s.pause = w.pause /\ s.record = w.record /\ s.slider = w.slider BY <2>2 DEF Fields
  <2>6. Recorded(s) BY <2>3, <2>5 DEF Recorded, SameRun
  <2>7. r = PausedChanged(s) BY <1>2, <2>1 DEF SetPaused, IsRunning
  <2>8. /\ Shaped(r) /\ Kept(r, s, {"pause", "status"}) /\ Lit(r)
        /\ r.pause.checked = s.runner.paused /\ r.pause.enabled = s.pause.enabled
    BY <2>4, <2>6, <2>7, PausedChangedFacts
  <2>9. r.runner = s.runner /\ r.record = s.record /\ r.slider = s.slider
    BY <2>8 DEF Kept, Fields
  <2>10. Runs(r) BY <2>3, <2>5, <2>8, <2>9 DEF Runs
  <2>11. Kept(r, w, RunnerFields) BY <2>2, <2>8 DEF Kept, RunnerFields
  <2>12. Sliding(w) => Sliding(r) BY <2>3, <2>5, <2>9 DEF Sliding, Finite, SameRun
  <2> QED BY <2>3, <2>6, <2>8, <2>9, <2>10, <2>11, <2>12 DEF SameRun, Recorded
<1> QED BY <1>1, <1>2
LEMMA SetRecorderFacts ==
    ASSUME NEW w, NEW r, NEW path, Shaped(w), r = SetRecorder(w, path)
    PROVE  /\ Shaped(r) /\ Kept(r, w, {"runner", "record", "status"})
           /\ r.runner.profile = w.runner.profile
           /\ r.runner.running = w.runner.running /\ r.runner.paused = w.runner.paused
           /\ Recorded(r) /\ Lit(r)
<1>1. PICK a : a = [w EXCEPT !.runner.recorder = path] OBVIOUS
<1>2. /\ DOMAIN a = Fields /\ \A f \in Fields \ {"runner"} : a[f] = w[f]
  BY <1>1 DEF Shaped, Fields
<1>3. /\ a.runner.profile = w.runner.profile /\ RunnerShape(a.runner)
      /\ a.runner.running = w.runner.running /\ a.runner.paused = w.runner.paused
  BY <1>1 DEF Shaped, Fields, RunnerShape
<1>4. Shaped(a) BY <1>2, <1>3 DEF Shaped, Fields
<1>5. r = RecordingChanged(a) BY <1>1 DEF SetRecorder
<1>6. /\ Shaped(r) /\ Kept(r, a, {"record", "status"}) /\ Recorded(r) /\ Lit(r)
  BY <1>4, <1>5, RecordingChangedFacts
<1>7. r.runner = a.runner BY <1>6 DEF Kept, Fields
<1>8. Kept(r, w, {"runner", "record", "status"}) BY <1>2, <1>6 DEF Kept
<1> QED BY <1>3, <1>6, <1>7, <1>8

(* The dashboard and the steering action go with the source.               *)
Offered(w) ==
    IF HasDelta(w)
    THEN {IF w.steering.checked THEN "RudderAngle" ELSE "HeadingTrue", "SpeedOverGround"}
    ELSE {}

Steers(w) ==
    /\ w.dashboard.overrides = HasDelta(w)
    /\ w.dashboard.steering = w.steering.checked
    /\ w.dashboard.enabled = Offered(w)
    /\ HasDelta(w) => w.dashboard.ticked = w.source.pinned
    /\ w.steering.enabled = HasDelta(w)
    /\ w.steering.checked => HasDelta(w)
    /\ w.source.rudder # 0 => w.steering.checked

SameHelm(r, w) == r.source.pinned = w.source.pinned /\ r.source.rudder = w.source.rudder

LEMMA SteersKept ==
    ASSUME NEW w, NEW r, Steers(w), r.runner.profile = w.runner.profile,
           r.dashboard = w.dashboard, r.steering = w.steering, SameHelm(r, w)
    PROVE  Steers(r)
<1>1. HasDelta(r) <=> HasDelta(w) BY DEF HasDelta
<1>2. HasDelta(r) = HasDelta(w) BY DEF HasDelta
<1>3. Offered(r) = Offered(w) BY <1>1 DEF Offered
<1> QED BY <1>1, <1>2, <1>3 DEF Steers, SameHelm

LEMMA SailsKept ==
    ASSUME NEW w, NEW r, Sails(w), r.runner.profile = w.runner.profile,
           r.chart = w.chart, r.source.place = w.source.place,
           r.source.destination = w.source.destination,
           r.clear_destination = w.clear_destination, r.jumps = w.jumps
    PROVE  Sails(r)
<1>1. HasDelta(r) <=> HasDelta(w) BY DEF HasDelta
<1> QED BY <1>1 DEF Sails, TrackReady, Centred

LEMMA StopRunFacts ==
    ASSUME NEW w, NEW r, Shaped(w), Runs(w), Recorded(w), r = StopRun(w)
    PROVE  /\ Shaped(r) /\ Kept(r, w, RunnerFields) /\ SameRun(r, w)
           /\ ~r.runner.running /\ Runs(r) /\ Recorded(r)
           /\ Sliding(w) => Sliding(r)
           /\ Lit(w) => Lit(r)
<1>1. PICK s : s = RunnerStop(w) OBVIOUS
<1>2. /\ Shaped(s) /\ Kept(s, w, RunnerFields) /\ SameRun(s, w)
      /\ ~s.runner.running /\ Runs(s) /\ Recorded(s)
      /\ Sliding(w) => Sliding(s)
      /\ Lit(w) => Lit(s)
  BY <1>1, RunnerStopFacts
<1>3. r = [s EXCEPT !.pause.checked = FALSE] BY <1>1 DEF StopRun
<1>4. /\ DOMAIN r = Fields /\ \A f \in Fields \ {"pause"} : r[f] = s[f]
  BY <1>2, <1>3 DEF Shaped, Fields
<1>40. PICK no \in BOOLEAN : no = FALSE OBVIOUS
<1>41. PICK pause : pause = [s.pause EXCEPT !.checked = no] OBVIOUS
<1>42. r.pause = pause BY <1>2, <1>3, <1>40, <1>41 DEF Shaped, Fields
<1>43. ActionShape(pause) /\ pause.enabled = s.pause.enabled /\ pause.checked = no
  BY <1>2, <1>41 DEF Shaped, ActionShape
<1>5. /\ ActionShape(r.pause) /\ r.pause.enabled = s.pause.enabled
      /\ r.pause.checked = FALSE
  BY <1>40, <1>42, <1>43
<1>6. Shaped(r) BY <1>2, <1>4, <1>5 DEF Shaped, Fields
<1>7. /\ r.runner = s.runner /\ r.record = s.record /\ r.slider = s.slider
      /\ r.status = s.status
  BY <1>4 DEF Fields
<1>8. s.runner.paused \in BOOLEAN BY <1>2 DEF Shaped, RunnerShape
<1>9. ~s.runner.paused BY <1>2 DEF Runs
<1>10. Runs(r) BY <1>2, <1>5, <1>7, <1>8, <1>9 DEF Runs
<1>11. Kept(r, w, RunnerFields) BY <1>2, <1>4 DEF Kept, RunnerFields
<1>12. Sliding(s) => Sliding(r) BY <1>7 DEF Sliding, Finite
<1>13. Lit(s) => Lit(r) BY <1>7 DEF Lit
<1> QED BY <1>2, <1>6, <1>7, <1>10, <1>11, <1>12, <1>13 DEF Recorded, SameRun

LEMMA StartRunFacts ==
    ASSUME NEW w, NEW r, Shaped(w), Runs(w), Recorded(w), Steers(w), r = StartRun(w)
    PROVE  /\ Shaped(r) /\ Kept(r, w, RunnerFields \cup {"source", "dashboard"})
           /\ SameRun(r, w) /\ SameHelm(r, w)
           /\ r.source.place = w.source.place /\ r.source.destination = w.source.destination
           /\ r.runner.running /\ Runs(r) /\ Recorded(r) /\ Steers(r)
           /\ Sliding(w) => Sliding(r)
           /\ Lit(w) => Lit(r)
<1>1. PICK s : s = RunnerStart(w) OBVIOUS
<1>2. /\ Shaped(s) /\ Kept(s, w, RunnerFields) /\ SameRun(s, w)
      /\ s.runner.running /\ Runs(s) /\ Recorded(s)
      /\ Sliding(w) => Sliding(s)
      /\ Lit(w) => Lit(s)
  BY <1>1, RunnerStartFacts
<1>3. s.source = w.source /\ s.dashboard = w.dashboard /\ s.steering = w.steering
  BY <1>2 DEF Kept, Fields, RunnerFields
<1>4. Steers(s) BY <1>2, <1>3, SteersKept DEF SameRun, SameHelm
<1>5. Kept(s, w, RunnerFields \cup {"source", "dashboard"})
  BY <1>2 DEF Kept
<1>6. CASE r = s \/ (r = w /\ w.runner.running)
  <2>1. CASE r = s BY <1>2, <1>3, <1>4, <1>5, <2>1 DEF SameHelm
  <2>2. CASE r = w /\ w.runner.running
    BY <2>2 DEF Kept, SameRun, SameHelm
  <2> QED BY <1>6, <2>1, <2>2
<1>7. CASE HasDelta(w) /\ r = SyncOverrides([s EXCEPT !.source.steering = w.steering.checked])
  <2>1. PICK a : a = [s EXCEPT !.source.steering = w.steering.checked] OBVIOUS
  <2>2. /\ DOMAIN a = Fields /\ \A f \in Fields \ {"source"} : a[f] = s[f]
        /\ SourceShape(a.source) /\ a.source.pinned = s.source.pinned
        /\ a.source.rudder = s.source.rudder /\ a.source.place = s.source.place
        /\ a.source.destination = s.source.destination
    BY <1>2, <2>1 DEF Shaped, Fields, SourceShape
  <2>3. r = [a EXCEPT !.dashboard.ticked = a.source.pinned]
    BY <1>7, <2>1 DEF SyncOverrides
  <2>4. /\ DOMAIN r = Fields /\ \A f \in Fields \ {"dashboard"} : r[f] = a[f]
    BY <2>2, <2>3 DEF Fields
  <2>5. DashboardShape(s.dashboard) /\ a.dashboard = s.dashboard
    BY <1>2, <2>2 DEF Shaped, Fields
  <2>6. /\ DashboardShape(r.dashboard) /\ r.dashboard.ticked = a.source.pinned
        /\ r.dashboard.overrides = s.dashboard.overrides
        /\ r.dashboard.steering = s.dashboard.steering
        /\ r.dashboard.enabled = s.dashboard.enabled
    BY <2>2, <2>3, <2>5 DEF Fields, DashboardShape, SourceShape
  <2>7. Shaped(r) BY <1>2, <2>2, <2>4, <2>6 DEF Shaped, Fields
  <2>8. /\ r.runner = s.runner /\ r.record = s.record /\ r.slider = s.slider
        /\ r.status = s.status /\ r.source = a.source /\ r.pause = s.pause
        /\ r.steering = s.steering
    BY <2>2, <2>4 DEF Fields
  <2>9. (HasDelta(r) <=> HasDelta(s)) /\ HasDelta(r) = HasDelta(s) BY <2>8 DEF HasDelta
  <2>10. Offered(r) = Offered(s) BY <2>8, <2>9 DEF Offered
  <2>11. Steers(r) BY <1>4, <2>2, <2>6, <2>8, <2>9, <2>10 DEF Steers
  <2>12. Runs(r) /\ Recorded(r) BY <1>2, <2>8 DEF Runs, Recorded
  <2>13. Sliding(s) => Sliding(r) BY <2>8 DEF Sliding, Finite
  <2>14. Lit(s) => Lit(r) BY <2>8 DEF Lit
  <2>15. Kept(r, w, RunnerFields \cup {"source", "dashboard"})
    BY <1>5, <2>2, <2>4 DEF Kept
  <2>16. SameRun(r, w) /\ SameHelm(r, w)
    BY <1>2, <1>3, <2>2, <2>8 DEF SameRun, SameHelm
  <2> QED BY <1>2, <1>3, <2>2, <2>7, <2>8, <2>11, <2>12, <2>13, <2>14, <2>15, <2>16
<1>8. CASE w.runner.running
  <2>1. r = w BY <1>8 DEF StartRun, IsRunning
  <2> HIDE DEF RunnerFields
  <2> QED BY <1>6, <1>8, <2>1
<1>9. CASE ~w.runner.running /\ HasDelta(w)
  <2>1. r = SyncOverrides([s EXCEPT !.source.steering = w.steering.checked])
    BY <1>1, <1>9 DEF StartRun, IsRunning
  <2> QED BY <1>7, <1>9, <2>1
<1>10. CASE ~w.runner.running /\ ~HasDelta(w)
  <2>1. r = s BY <1>1, <1>10 DEF StartRun, IsRunning
  <2> QED BY <1>6, <2>1
<1> QED BY <1>8, <1>9, <1>10

(* A step of the source, at the end of which the run may be over.          *)
LEMMA SteppedFacts ==
    ASSUME NEW w, NEW r, NEW place \in Spots, Shaped(w), Runs(w), Recorded(w),
           TrackReady(w), r = Stepped(w, place)
    PROVE  /\ Shaped(r)
           /\ Kept(r, w, RunnerFields \cup {"source", "chart", "clear_destination", "wanted"})
           /\ SameRun(r, w) /\ SameHelm(r, w)
           /\ Sails(r) /\ r.chart.route = w.chart.route
           /\ Runs(r) /\ Recorded(r) /\ Sliding(r) /\ Lit(r)
           /\ w.runner.running = w.wanted => r.runner.running = r.wanted
<1>1. PICK position :
        position = IF Finite(w) THEN Between(w.runner.position + 1, 0, w.runner.profile.duration)
                   ELSE 0
  OBVIOUS
<1>2. PICK a : a = [w EXCEPT !.runner.position = position,
                             !.runner.sentences = Between(@ + 1, 0, 1),
                             !.source.place = place]
  OBVIOUS
<1>3. /\ DOMAIN a = Fields /\ \A f \in Fields \ {"runner", "source"} : a[f] = w[f]
  BY <1>2 DEF Shaped, Fields
<1>4. /\ RunnerShape(a.runner) /\ SameRun(a, w)
      /\ a.runner.running = w.runner.running /\ a.runner.paused = w.runner.paused
  BY <1>2 DEF Shaped, Fields, RunnerShape, SameRun
<1>5. SourceShape(a.source) /\ SameHelm(a, w)
  BY <1>2 DEF Shaped, Fields, SourceShape, SameHelm
<1>6. Shaped(a) BY <1>3, <1>4, <1>5 DEF Shaped, Fields
<1>7. /\ a.chart = w.chart /\ a.jumps = w.jumps /\ a.pause = w.pause /\ a.record = w.record
      /\ a.wanted = w.wanted
  BY <1>3 DEF Fields
<1>8. TrackReady(a) /\ Runs(a) /\ Recorded(a)
  BY <1>4, <1>7 DEF TrackReady, Runs, Recorded, SameRun
<1>9. PICK m : m = Ticked(a) OBVIOUS
<1>10. /\ Shaped(m) /\ Kept(m, a, {"chart", "clear_destination", "slider", "status"})
       /\ Sails(m) /\ m.chart.route = a.chart.route /\ Sliding(m) /\ Lit(m)
  BY <1>6, <1>8, <1>9, TickedFacts
<1>11. /\ m.runner = a.runner /\ m.source = a.source /\ m.pause = a.pause
       /\ m.record = a.record /\ m.wanted = a.wanted
  BY <1>10 DEF Kept, Fields
<1>12. Runs(m) /\ Recorded(m) /\ SameRun(m, w) /\ SameHelm(m, w)
  BY <1>4, <1>5, <1>8, <1>11 DEF Runs, Recorded, SameRun, SameHelm
<1>13. Kept(m, w, RunnerFields \cup {"source", "chart", "clear_destination", "wanted"})
  BY <1>3, <1>10 DEF Kept, RunnerFields
<1>14. r = m \/ r = [RunnerStop(m) EXCEPT !.wanted = FALSE]
  BY <1>1, <1>2, <1>9 DEF Stepped
<1>15. CASE r = m
  BY <1>4, <1>7, <1>10, <1>11, <1>12, <1>13, <1>15
<1>16. CASE r = [RunnerStop(m) EXCEPT !.wanted = FALSE]
  <2>1. PICK s : s = RunnerStop(m) OBVIOUS
  <2>2. /\ Shaped(s) /\ Kept(s, m, RunnerFields) /\ SameRun(s, m)
        /\ ~s.runner.running /\ Runs(s) /\ Recorded(s) /\ Sliding(s) /\ Lit(s)
    BY <1>10, <1>12, <2>1, RunnerStopFacts
  <2>3. /\ DOMAIN r = Fields /\ \A f \in Fields \ {"wanted"} : r[f] = s[f]
        /\ r.wanted = FALSE
    BY <1>16, <2>1, <2>2 DEF Shaped, Fields
  <2>4. Shaped(r) BY <2>2, <2>3 DEF Shaped, Fields
  <2>5. /\ r.runner = s.runner /\ r.record = s.record /\ r.slider = s.slider
        /\ r.status = s.status /\ r.pause = s.pause
        /\ r.source = m.source /\ r.chart = m.chart /\ r.jumps = m.jumps
        /\ r.clear_destination = m.clear_destination
    BY <2>2, <2>3 DEF Kept, Fields, RunnerFields
  <2>6. Runs(r) /\ Recorded(r) /\ Lit(r) BY <2>2, <2>5 DEF Runs, Recorded, Lit
  <2>7. Sliding(r) BY <2>2, <2>5 DEF Sliding, Finite
  <2>8. Sails(r) BY <1>10, <2>2, <2>5, SailsKept DEF SameRun
  <2>9. SameRun(r, w) /\ SameHelm(r, w)
    BY <1>12, <2>2, <2>5 DEF SameRun, SameHelm
  <2>10. Kept(r, w, RunnerFields \cup {"source", "chart", "clear_destination", "wanted"})
    BY <1>13, <2>2, <2>3 DEF Kept
  <2>11. r.runner.running = r.wanted
    <3>1. r.runner.running \in BOOLEAN BY <2>4 DEF Shaped, RunnerShape
    <3> QED BY <3>1, <2>2, <2>3, <2>5
  <2> QED BY <1>7, <1>10, <2>4, <2>5, <2>6, <2>7, <2>8, <2>9, <2>10, <2>11
<1> QED BY <1>14, <1>15, <1>16
-----------------------------------------------------------------------------
(* Steering with the rudder or the heading.                                *)
Aligned(w) ==
    /\ w.dashboard.overrides = HasDelta(w)
    /\ w.dashboard.steering = w.steering.checked
    /\ w.dashboard.enabled = Offered(w)
    /\ HasDelta(w) => w.dashboard.ticked = w.source.pinned
    /\ w.source.rudder # 0 => w.steering.checked /\ HasDelta(w)

LEMMA DashboardSteeringFacts ==
    ASSUME NEW w, NEW r, NEW on \in BOOLEAN, Shaped(w), r = DashboardSteering(w, on)
    PROVE  /\ Shaped(r) /\ Kept(r, w, {"dashboard"})
           /\ r.dashboard.overrides = w.dashboard.overrides
           /\ r.dashboard.ticked = w.dashboard.ticked
           /\ r.dashboard.steering = on
           /\ w.dashboard.overrides =>
                r.dashboard.enabled = (w.dashboard.enabled \ {"RudderAngle", "HeadingTrue"})
                                      \cup {IF on THEN "RudderAngle" ELSE "HeadingTrue"}
           /\ ~w.dashboard.overrides =>
                r.dashboard.enabled = w.dashboard.enabled \ {"RudderAngle", "HeadingTrue"}
<1> DEFINE all == w.dashboard.overrides
           gone == w.dashboard.enabled \ {"RudderAngle", "HeadingTrue"}
<1>0. PICK left, right : /\ left = IF all /\ on THEN {"RudderAngle"} ELSE {}
                         /\ right = IF all /\ ~on THEN {"HeadingTrue"} ELSE {}
  OBVIOUS
<1>1. PICK offered : offered = gone \cup left \cup right
  OBVIOUS
<1>2. all \in BOOLEAN /\ w.dashboard.enabled \in SUBSET Steerable
  BY DEF Shaped, DashboardShape
<1>3. /\ all => offered = gone \cup {IF on THEN "RudderAngle" ELSE "HeadingTrue"}
      /\ ~all => offered = gone
      /\ offered \in SUBSET Steerable
  BY <1>0, <1>1, <1>2 DEF Steerable
<1>4. r = [w EXCEPT !.dashboard.steering = on,
                    !.dashboard.enabled = (@ \ {"RudderAngle", "HeadingTrue"})
                                          \cup left \cup right]
  BY <1>0 DEF DashboardSteering
<1>4a. PICK v : v = [w EXCEPT !.dashboard.steering = on] OBVIOUS
<1>5. r = [v EXCEPT !.dashboard.enabled =
                   (w.dashboard.enabled \ {"RudderAngle", "HeadingTrue"})
                   \cup left \cup right]
  BY <1>4, <1>4a
<1> HIDE DEF gone, all
<1>5a. /\ DOMAIN v = Fields /\ \A f \in Fields \ {"dashboard"} : v[f] = w[f]
      /\ v.dashboard.overrides = w.dashboard.overrides
      /\ v.dashboard.ticked = w.dashboard.ticked
      /\ v.dashboard.steering = on /\ v.dashboard.enabled = w.dashboard.enabled
      /\ DashboardShape(v.dashboard)
  BY <1>4a DEF Shaped, Fields, DashboardShape
<1>6. /\ r.dashboard.overrides = w.dashboard.overrides
      /\ r.dashboard.ticked = w.dashboard.ticked
      /\ r.dashboard.steering = on /\ r.dashboard.enabled = offered
      /\ DashboardShape(r.dashboard)
  <2>1. r.dashboard = [v.dashboard EXCEPT !.enabled = offered]
    BY <1>1, <1>5, <1>5a DEF Fields, gone
  <2> QED BY <2>1, <1>3, <1>5a DEF DashboardShape
<1>7. DOMAIN r = Fields /\ \A f \in Fields \ {"dashboard"} : r[f] = w[f]
  BY <1>5, <1>5a DEF Fields
<1>8. Shaped(r) BY <1>6, <1>7 DEF Shaped, Fields
<1> QED BY <1>3, <1>6, <1>7, <1>8 DEF Kept, gone, all

LEMMA SetOverridesEnabledFacts ==
    ASSUME NEW w, NEW r, NEW on \in BOOLEAN, Shaped(w), r = SetOverridesEnabled(w, on)
    PROVE  /\ Shaped(r) /\ Kept(r, w, {"dashboard"})
           /\ r.dashboard.overrides = on
           /\ r.dashboard.steering = w.dashboard.steering
           /\ r.dashboard.enabled =
                IF on THEN {IF w.dashboard.steering THEN "RudderAngle" ELSE "HeadingTrue",
                            "SpeedOverGround"}
                ELSE {}
<1>1. PICK a : a = [w EXCEPT !.dashboard.overrides = on,
                             !.dashboard.enabled = IF on THEN Steerable ELSE {}]
  OBVIOUS
<1>2. /\ DOMAIN a = Fields /\ \A f \in Fields \ {"dashboard"} : a[f] = w[f]
  BY <1>1 DEF Shaped, Fields
<1>3. /\ a.dashboard.overrides = on /\ a.dashboard.enabled = IF on THEN Steerable ELSE {}
      /\ a.dashboard.steering = w.dashboard.steering
      /\ DashboardShape(a.dashboard)
  BY <1>1 DEF Shaped, Fields, DashboardShape
<1>4. Shaped(a) BY <1>2, <1>3 DEF Shaped, Fields
<1>5. w.dashboard.steering \in BOOLEAN BY DEF Shaped, DashboardShape
<1>6. r = DashboardSteering(a, w.dashboard.steering) BY <1>1 DEF SetOverridesEnabled
<1>7. /\ Shaped(r) /\ Kept(r, a, {"dashboard"})
      /\ r.dashboard.overrides = a.dashboard.overrides
      /\ r.dashboard.steering = w.dashboard.steering
      /\ on => r.dashboard.enabled =
                   (Steerable \ {"RudderAngle", "HeadingTrue"})
                   \cup {IF w.dashboard.steering THEN "RudderAngle" ELSE "HeadingTrue"}
      /\ ~on => r.dashboard.enabled = {} \ {"RudderAngle", "HeadingTrue"}
  BY <1>3, <1>4, <1>5, <1>6, DashboardSteeringFacts
<1>8. Kept(r, w, {"dashboard"}) BY <1>2, <1>7 DEF Kept
<1>9. CASE on
  <2>1. r.dashboard.enabled =
            {IF w.dashboard.steering THEN "RudderAngle" ELSE "HeadingTrue", "SpeedOverGround"}
    BY <1>7, <1>9 DEF Steerable
  <2> QED BY <1>3, <1>7, <1>8, <1>9, <2>1
<1>10. CASE ~on
  <2>1. r.dashboard.enabled = {} BY <1>7, <1>10
  <2> QED BY <1>3, <1>7, <1>8, <1>10, <2>1
<1> QED BY <1>9, <1>10

LEMMA CheckSteeringFacts ==
    ASSUME NEW w, NEW r, NEW on \in BOOLEAN, Shaped(w), Aligned(w), r = CheckSteering(w, on)
    PROVE  /\ Shaped(r) /\ Kept(r, w, {"dashboard", "steering", "source"})
           /\ r.source.place = w.source.place /\ r.source.destination = w.source.destination
           /\ r.steering.checked = on /\ r.steering.enabled = w.steering.enabled
           /\ Aligned(r)
<1>1. CASE w.steering.checked = on
  <2>1. r = w BY <1>1 DEF CheckSteering
  <2> QED BY <1>1, <2>1 DEF Kept
<1>2. CASE w.steering.checked # on
  <2>1. PICK c : c = [w EXCEPT !.steering.checked = on] OBVIOUS
  <2>2. /\ DOMAIN c = Fields /\ \A f \in Fields \ {"steering"} : c[f] = w[f]
        /\ c.steering.checked = on /\ c.steering.enabled = w.steering.enabled
        /\ ActionShape(c.steering)
    BY <2>1 DEF Shaped, Fields, ActionShape
  <2>3. Shaped(c) BY <2>2 DEF Shaped, Fields
  <2>4. /\ c.source = w.source /\ c.dashboard = w.dashboard /\ c.runner = w.runner
    BY <2>2 DEF Fields
  <2>5. PICK s : s = [c EXCEPT !.source.steering = on,
                               !.source.rudder = IF on THEN @ ELSE 0,
                               !.source.pinned = IF on THEN @ ELSE @ \ {"RudderAngle"}]
    OBVIOUS
  <2>6. /\ DOMAIN s = Fields /\ \A f \in Fields \ {"source"} : s[f] = c[f]
        /\ SourceShape(s.source) /\ s.source.place = c.source.place
        /\ s.source.destination = c.source.destination
        /\ s.source.rudder # 0 => on
    BY <2>3, <2>5 DEF Shaped, Fields, SourceShape
  <2>7. Shaped(s) BY <2>3, <2>6 DEF Shaped, Fields
  <2>8. PICK t : t = [s EXCEPT !.dashboard.ticked = s.source.pinned] OBVIOUS
  <2>9. /\ DOMAIN t = Fields /\ \A f \in Fields \ {"dashboard"} : t[f] = s[f]
        /\ t.dashboard.ticked = s.source.pinned
        /\ t.dashboard.overrides = s.dashboard.overrides
        /\ t.dashboard.enabled = s.dashboard.enabled
        /\ DashboardShape(t.dashboard)
    BY <2>7, <2>8 DEF Shaped, Fields, SourceShape, DashboardShape
  <2>10. Shaped(t) BY <2>7, <2>9 DEF Shaped, Fields
  <2>11. PICK u : u = IF HasDelta(w) THEN t ELSE c OBVIOUS
  <2>12. r = DashboardSteering(u, on)
    <3>1. HasDelta(c) <=> HasDelta(w) BY <2>4 DEF HasDelta
    <3> QED BY <1>2, <2>1, <2>5, <2>8, <2>11, <3>1
            DEF CheckSteering, ToggleSteering, SyncOverrides
  <2>13. /\ Shaped(u) /\ Kept(u, w, {"dashboard", "steering", "source"})
         /\ u.source.place = w.source.place /\ u.source.destination = w.source.destination
         /\ u.steering = c.steering
         /\ u.dashboard.overrides = w.dashboard.overrides
         /\ u.dashboard.enabled = w.dashboard.enabled
         /\ HasDelta(w) => u.dashboard.ticked = u.source.pinned
         /\ u.source.rudder # 0 => on /\ HasDelta(w)
    <3>1. CASE HasDelta(w)
      <4>1. u = t BY <2>11, <3>1
      <4>2. t.source = s.source /\ t.steering = c.steering /\ s.dashboard = w.dashboard
        BY <2>2, <2>6, <2>9 DEF Fields
      <4> QED BY <2>2, <2>4, <2>6, <2>9, <2>10, <3>1, <4>1, <4>2 DEF Kept
    <3>2. CASE ~HasDelta(w)
      <4>1. u = c BY <2>11, <3>2
      <4> QED BY <2>2, <2>3, <2>4, <3>2, <4>1 DEF Kept, Aligned
    <3> QED BY <3>1, <3>2
  <2>14. /\ Shaped(r) /\ Kept(r, u, {"dashboard"})
         /\ r.dashboard.overrides = u.dashboard.overrides
         /\ r.dashboard.ticked = u.dashboard.ticked /\ r.dashboard.steering = on
         /\ u.dashboard.overrides =>
              r.dashboard.enabled = (u.dashboard.enabled \ {"RudderAngle", "HeadingTrue"})
                                    \cup {IF on THEN "RudderAngle" ELSE "HeadingTrue"}
         /\ ~u.dashboard.overrides =>
              r.dashboard.enabled = u.dashboard.enabled \ {"RudderAngle", "HeadingTrue"}
    BY <2>12, <2>13, DashboardSteeringFacts
  <2>15. r.runner = w.runner /\ r.source = u.source /\ r.steering = c.steering
    BY <2>13, <2>14 DEF Kept, Fields
  <2>16. Kept(r, w, {"dashboard", "steering", "source"}) BY <2>13, <2>14 DEF Kept
  <2>17. (HasDelta(r) <=> HasDelta(w)) /\ HasDelta(r) = HasDelta(w) BY <2>15 DEF HasDelta
  <2>18. r.dashboard.enabled = Offered(r)
    <3>1. w.dashboard.overrides = HasDelta(w) /\ w.dashboard.enabled = Offered(w)
      BY DEF Aligned
    <3>2. CASE HasDelta(w)
      <4>1. w.dashboard.enabled = {IF w.steering.checked THEN "RudderAngle" ELSE "HeadingTrue",
                                   "SpeedOverGround"}
        BY <3>1, <3>2 DEF Offered
      <4>2. r.dashboard.enabled = (w.dashboard.enabled \ {"RudderAngle", "HeadingTrue"})
                                  \cup {IF on THEN "RudderAngle" ELSE "HeadingTrue"}
        BY <2>13, <2>14, <3>1, <3>2
      <4>3. r.dashboard.enabled = {IF on THEN "RudderAngle" ELSE "HeadingTrue",
                                   "SpeedOverGround"}
        BY <4>1, <4>2
      <4> QED BY <2>2, <2>15, <2>17, <3>2, <4>3 DEF Offered
    <3>3. CASE ~HasDelta(w)
      <4>1. w.dashboard.enabled = {} BY <3>1, <3>3 DEF Offered
      <4>2. ~u.dashboard.overrides BY <2>13, <3>1, <3>3
      <4>3. r.dashboard.enabled = {} BY <2>13, <2>14, <4>1, <4>2
      <4> QED BY <2>17, <3>3, <4>3 DEF Offered
    <3> QED BY <3>2, <3>3
  <2>19. Aligned(r)
    BY <2>2, <2>13, <2>14, <2>15, <2>17, <2>18 DEF Aligned
  <2> QED BY <2>2, <2>13, <2>14, <2>15, <2>16, <2>19
<1> QED BY <1>1, <1>2
-----------------------------------------------------------------------------
(* The controls of a profile that was applied.                             *)
Presented(w) ==
    /\ Steers(w) /\ Sails(w) /\ Sliding(w)
    /\ w.chart.route = w.runner.profile.route
    /\ w.runner.profile.name = w.profile.name

ShownFields ==
    {"profile", "path", "title", "chart", "dashboard", "steering", "source",
     "clear_destination", "slider"}

LEMMA PresentProfileFacts ==
    ASSUME NEW w, NEW r, NEW p, NEW path, Shaped(w), Sound(p),
           w.dashboard.steering = w.steering.checked,
           w.runner.profile = p, w.source = SourceOf(p),
           r = PresentProfile(w, p, path)
    PROVE  Shaped(r) /\ Kept(r, w, ShownFields) /\ Presented(r)
<1>1. PICK c : c = ClearTrack(w.chart) OBVIOUS
<1>2. ChartShape(c) /\ c.track = <<>>
  <2>1. ChartShape(w.chart) BY DEF Shaped
  <2>2. /\ DOMAIN c = DOMAIN w.chart /\ c.follow = w.chart.follow /\ c.broken = FALSE
        /\ c.track = <<>>
        /\ c.center = w.chart.center /\ c.zoom = w.chart.zoom /\ c.drag = w.chart.drag
    BY <1>1, <2>1 DEF ClearTrack, ChartShape
  <2>3. <<>> \in Seq(Seq(TrackPoint) \ {<<>>}) OBVIOUS
  <2> QED BY <2>1, <2>2, <2>3 DEF ChartShape, Located
<1>3. PICK named : named = [w EXCEPT !.profile = p, !.path = path, !.chart = ClearTrack(@),
                                     !.title = IF path = "" THEN p.name ELSE path]
  OBVIOUS
<1>4. /\ DOMAIN named = Fields /\ named.profile = p /\ named.chart = c
      /\ \A f \in Fields \ {"profile", "path", "title", "chart"} : named[f] = w[f]
  BY <1>1, <1>3 DEF Shaped, Fields
<1>5. Shaped(named) BY <1>2, <1>4 DEF Shaped, Fields
<1>6. /\ named.dashboard = w.dashboard /\ named.steering = w.steering
      /\ named.runner = w.runner /\ named.source = w.source /\ named.jumps = w.jumps
  BY <1>4 DEF Fields
<1>7. PICK delta \in BOOLEAN : delta = (p.mode = "delta") OBVIOUS
<1>8. PICK e : e = SetOverridesEnabled(named, delta) OBVIOUS
<1>9. /\ Shaped(e) /\ Kept(e, named, {"dashboard"})
      /\ e.dashboard.overrides = delta
      /\ e.dashboard.steering = w.steering.checked
      /\ e.dashboard.enabled =
           IF delta THEN {IF w.steering.checked THEN "RudderAngle" ELSE "HeadingTrue",
                          "SpeedOverGround"}
           ELSE {}
  <2>1. /\ Shaped(e) /\ Kept(e, named, {"dashboard"})
        /\ e.dashboard.overrides = delta
        /\ e.dashboard.steering = named.dashboard.steering
        /\ e.dashboard.enabled =
             IF delta THEN {IF named.dashboard.steering THEN "RudderAngle" ELSE "HeadingTrue",
                            "SpeedOverGround"}
             ELSE {}
    BY <1>5, <1>8, SetOverridesEnabledFacts
  <2>2. named.dashboard.steering = w.steering.checked BY <1>6
  <2>3. w.steering.checked \in BOOLEAN BY DEF Shaped, ActionShape
  <2> QED BY <2>1, <2>2, <2>3
<1>10. /\ e.steering = w.steering /\ e.runner = w.runner /\ e.source = w.source
       /\ e.chart = c /\ e.jumps = w.jumps /\ e.profile = p
  BY <1>4, <1>6, <1>9 DEF Kept, Fields
<1>11. HasDelta(e) = delta /\ (HasDelta(e) <=> delta) BY <1>7, <1>10 DEF HasDelta
<1>12. e.source.rudder = 0 /\ e.source.pinned = {} BY <1>10 DEF SourceOf
<1>13. e.dashboard.enabled = Offered(e)
  BY <1>9, <1>10, <1>11 DEF Offered
<1>14. PICK s : s = IF delta THEN e ELSE CheckSteering(e, FALSE) OBVIOUS
<1>15. /\ Shaped(s) /\ Kept(s, e, {"dashboard", "steering", "source"})
       /\ s.source.place = e.source.place /\ s.source.destination = e.source.destination
       /\ s.dashboard.overrides = HasDelta(s) /\ s.dashboard.steering = s.steering.checked
       /\ s.dashboard.enabled = Offered(s)
       /\ s.source.rudder # 0 => s.steering.checked
       /\ s.steering.checked => HasDelta(s)
  <2>1. CASE delta
    <3>1. s = e BY <1>14, <2>1
    <3> QED BY <1>9, <1>10, <1>11, <1>12, <1>13, <2>1, <3>1 DEF Kept
  <2>2. CASE ~delta
    <3>1. s = CheckSteering(e, FALSE) BY <1>14, <2>2
    <3>2. Aligned(e) BY <1>9, <1>10, <1>11, <1>12, <1>13, <2>2 DEF Aligned
    <3>3. /\ Shaped(s) /\ Kept(s, e, {"dashboard", "steering", "source"})
          /\ s.source.place = e.source.place /\ s.source.destination = e.source.destination
          /\ s.steering.checked = FALSE /\ Aligned(s)
      BY <1>9, <3>1, <3>2, CheckSteeringFacts
    <3> QED BY <3>3 DEF Aligned
  <2> QED BY <2>1, <2>2
<1>16. PICK a : a = [s EXCEPT !.steering.enabled = delta] OBVIOUS
<1>17. /\ DOMAIN a = Fields /\ \A f \in Fields \ {"steering"} : a[f] = s[f]
       /\ ActionShape(a.steering) /\ a.steering.enabled = delta
       /\ a.steering.checked = s.steering.checked
  BY <1>15, <1>16 DEF Shaped, Fields, ActionShape
<1>18. Shaped(a) BY <1>15, <1>17 DEF Shaped, Fields
<1>19. PICK b : b = IF delta THEN [a EXCEPT !.dashboard.ticked = a.source.pinned] ELSE a
  OBVIOUS
<1>20. /\ Shaped(b) /\ \A f \in Fields \ {"dashboard"} : b[f] = a[f]
       /\ b.dashboard.overrides = a.dashboard.overrides
       /\ b.dashboard.steering = a.dashboard.steering
       /\ b.dashboard.enabled = a.dashboard.enabled
       /\ delta => b.dashboard.ticked = a.source.pinned
  <2>1. CASE delta
    <3>1. b = [a EXCEPT !.dashboard.ticked = a.source.pinned] BY <1>19, <2>1
    <3>2. /\ DOMAIN b = Fields /\ \A f \in Fields \ {"dashboard"} : b[f] = a[f]
          /\ b.dashboard.overrides = a.dashboard.overrides
          /\ b.dashboard.steering = a.dashboard.steering
          /\ b.dashboard.enabled = a.dashboard.enabled
          /\ b.dashboard.ticked = a.source.pinned
          /\ DashboardShape(b.dashboard)
      BY <1>18, <3>1 DEF Shaped, Fields, DashboardShape, SourceShape
    <3>3. Shaped(b) BY <1>18, <3>2 DEF Shaped, Fields
    <3> QED BY <3>2, <3>3
  <2>2. CASE ~delta BY <1>18, <1>19, <2>2
  <2> QED BY <2>1, <2>2
<1>21. /\ b.runner = w.runner /\ b.source = s.source /\ b.steering = a.steering
       /\ b.chart = c /\ b.jumps = w.jumps /\ b.profile = p /\ a.dashboard = s.dashboard
       /\ a.source = s.source
  BY <1>10, <1>15, <1>17, <1>20 DEF Kept, Fields
<1>22. /\ HasDelta(b) = delta /\ (HasDelta(b) <=> delta)
       /\ HasDelta(b) = HasDelta(s) /\ (HasDelta(b) <=> HasDelta(s))
  <2>1. s.runner = w.runner BY <1>10, <1>15 DEF Kept, Fields
  <2> QED BY <1>7, <1>21, <2>1 DEF HasDelta
<1>23. Offered(b) = Offered(s) BY <1>17, <1>21, <1>22 DEF Offered
<1>24. Steers(b)
  BY <1>15, <1>17, <1>20, <1>21, <1>22, <1>23 DEF Steers
<1>25. Kept(b, w, ShownFields)
  BY <1>4, <1>9, <1>15, <1>17, <1>20 DEF Kept, ShownFields
<1>26. TrackReady(b) BY <1>2, <1>21 DEF TrackReady, Joined, EndsWith
<1>27. PICK v : v = RefreshView(b) OBVIOUS
<1>28. Shaped(v) /\ Kept(v, b, {"chart", "clear_destination"}) /\ Sails(v)
  BY <1>20, <1>26, <1>27, RefreshViewFacts
<1>29. v.source.place = p.place
  <2>1. v.source = b.source BY <1>28 DEF Kept, Fields
  <2>2. e.source.place = p.place BY <1>10 DEF SourceOf
  <2> QED BY <1>15, <1>21, <2>1, <2>2
<1>30. PICK d : d = MapSetRoute(MapSetCenter(v.chart, p.place), p.route) OBVIOUS
<1>31. /\ DOMAIN d = DOMAIN v.chart /\ d.center = OnMap(p.place) /\ d.route = p.route
       /\ d.vessel = v.chart.vessel /\ d.follow = v.chart.follow
       /\ d.track = v.chart.track /\ d.broken = v.chart.broken
       /\ d.destination = v.chart.destination
       /\ d.zoom = v.chart.zoom /\ d.drag = v.chart.drag
  BY <1>28, <1>30 DEF MapSetRoute, MapSetCenter, Shaped, ChartShape
<1>32. ChartShape(d)
  <2>1. OnWorld(OnMap(p.place)) BY DEF Sound, Spots
  <2> QED BY <1>28, <1>31, <2>1 DEF Shaped, ChartShape, Located
<1>33. PICK x : x = [v EXCEPT !.chart = d] OBVIOUS
<1>34. /\ DOMAIN x = Fields /\ x.chart = d /\ \A f \in Fields \ {"chart"} : x[f] = v[f]
  BY <1>28, <1>33 DEF Shaped, Fields
<1>35. Shaped(x) BY <1>28, <1>32, <1>34 DEF Shaped, Fields
<1>36. /\ x.source = v.source /\ x.jumps = v.jumps /\ x.runner = w.runner
       /\ x.clear_destination = v.clear_destination /\ x.profile = p
       /\ x.source = b.source /\ x.dashboard = b.dashboard /\ x.steering = b.steering
       /\ b.runner = x.runner
  BY <1>21, <1>28, <1>34 DEF Kept, Fields
<1>37. r = RefreshTransport(x)
  <2>1. x = [v EXCEPT !.chart = MapSetRoute(MapSetCenter(@, p.place), p.route)]
    BY <1>30, <1>33
  <2>2. s = IF p.mode = "delta" THEN e ELSE CheckSteering(e, FALSE) BY <1>7, <1>14
  <2>3. b = IF p.mode = "delta" THEN SyncOverrides(a) ELSE a
    BY <1>7, <1>19 DEF SyncOverrides
  <2> QED BY ZenonT(60), <1>3, <1>7, <1>8, <1>16, <1>27, <2>1, <2>2, <2>3 DEF PresentProfile
<1>38. Shaped(r) /\ Kept(r, x, {"slider"}) /\ Sliding(r)
  BY <1>35, <1>37, RefreshTransportFacts
<1>39. /\ r.source = x.source /\ r.jumps = x.jumps /\ r.runner = x.runner
       /\ r.clear_destination = x.clear_destination /\ r.profile = x.profile
       /\ r.dashboard = x.dashboard /\ r.steering = x.steering /\ r.chart = x.chart
  BY <1>38 DEF Kept, Fields
<1>40. Steers(r) BY <1>24, <1>36, <1>39, SteersKept DEF SameHelm
<1>41. Sails(r)
  <2>1. /\ r.chart = d /\ r.source = v.source /\ r.jumps = v.jumps
        /\ r.clear_destination = v.clear_destination
    BY <1>34, <1>36, <1>39
  <2>2. Centred(r) BY <2>1, <1>29, <1>31 DEF Centred
  <2>3. TrackReady(r) BY <2>1, <1>28, <1>31 DEF Sails, TrackReady
  <2>4. r.chart.vessel = {r.source.place} /\ r.chart.destination = r.source.destination
    BY <2>1, <1>28, <1>31 DEF Sails
  <2>5. r.clear_destination = (r.source.destination # {}) BY <2>1, <1>28 DEF Sails
  <2> QED BY <2>2, <2>3, <2>4, <2>5 DEF Sails
<1>42. Kept(r, w, ShownFields)
  BY <1>25, <1>28, <1>34, <1>38 DEF Kept, ShownFields
<1>43. Presented(r)
  BY <1>31, <1>34, <1>36, <1>38, <1>39, <1>40, <1>41 DEF Presented
<1> QED BY <1>38, <1>42, <1>43
LEMMA PresentedKept ==
    ASSUME NEW w, NEW r, Presented(w), Steers(r), Sliding(r),
           r.runner.profile = w.runner.profile, r.chart = w.chart, r.jumps = w.jumps,
           r.source.place = w.source.place, r.source.destination = w.source.destination,
           r.clear_destination = w.clear_destination, r.profile = w.profile
    PROVE  Presented(r)
<1>1. Sails(w) BY DEF Presented
<1>2. Sails(r) BY <1>1, SailsKept
<1> QED BY <1>2 DEF Presented

Settled(w) == Shaped(w) /\ Runs(w) /\ Recorded(w) /\ Presented(w)

SameAsk(r, w) ==
    r.runner.running = w.runner.running /\ r.wanted = w.wanted /\ r.open = w.open

LEMMA SetProfileFacts ==
    ASSUME NEW w, NEW r, NEW p, NEW path, Shaped(w), Runs(w), Recorded(w), Sound(p),
           w.dashboard.steering = w.steering.checked,
           p.opens = "ok" \/ Presented(w),
           r = SetProfile(w, p, path)
    PROVE  Settled(r) /\ (Lit(w) => Lit(r)) /\ SameAsk(r, w)
<1>1. PICK s : s = StopRun(w) OBVIOUS
<1>2. /\ Shaped(s) /\ Kept(s, w, RunnerFields) /\ SameRun(s, w)
      /\ ~s.runner.running /\ Runs(s) /\ Recorded(s)
      /\ Sliding(w) => Sliding(s)
      /\ Lit(w) => Lit(s)
  BY <1>1, StopRunFacts
<1>3. /\ s.dashboard = w.dashboard /\ s.steering = w.steering /\ s.wanted = w.wanted
      /\ s.open = w.open /\ s.source = w.source /\ s.chart = w.chart /\ s.jumps = w.jumps
      /\ s.clear_destination = w.clear_destination /\ s.profile = w.profile
  BY <1>2 DEF Kept, Fields, RunnerFields
<1>4. PICK n : n = IF p.opens = "ok" THEN PresentProfile(Applied(s, p), p, path) ELSE s
  OBVIOUS
<1>5. /\ Settled(n) /\ (Lit(w) => Lit(n)) /\ ~n.runner.running
      /\ n.wanted = w.wanted /\ n.open = w.open
  <2>1. CASE p.opens = "ok"
    <3>1. PICK a : a = Applied(s, p) OBVIOUS
    <3>2. a = [s EXCEPT !.runner.profile = p, !.runner.position = 0, !.runner.sentences = 0,
                        !.source = SourceOf(p)]
      BY <3>1 DEF Applied
    <3>3. /\ DOMAIN a = Fields /\ \A f \in Fields \ {"runner", "source"} : a[f] = s[f]
          /\ a.source = SourceOf(p)
      BY <1>2, <3>2 DEF Shaped, Fields
    <3>4. /\ a.runner.profile = p /\ a.runner.running = s.runner.running
          /\ a.runner.paused = s.runner.paused /\ a.runner.recorder = s.runner.recorder
          /\ RunnerShape(a.runner)
      BY <1>2, <3>2 DEF Shaped, Fields, RunnerShape
    <3>5. SourceShape(a.source) BY <3>3 DEF SourceOf, SourceShape, Sound
    <3>6. Shaped(a) BY <1>2, <3>3, <3>4, <3>5 DEF Shaped, Fields
    <3>7. /\ a.dashboard = s.dashboard /\ a.steering = s.steering /\ a.pause = s.pause
          /\ a.record = s.record /\ a.status = s.status /\ a.wanted = s.wanted
          /\ a.open = s.open
      BY <3>3 DEF Fields
    <3>8. n = PresentProfile(a, p, path) BY <1>4, <2>1, <3>1
    <3>9. Shaped(n) /\ Kept(n, a, ShownFields) /\ Presented(n)
      BY <1>3, <3>3, <3>4, <3>6, <3>7, <3>8, PresentProfileFacts
    <3>10. /\ n.runner = a.runner /\ n.pause = s.pause /\ n.record = s.record
           /\ n.status = s.status /\ n.wanted = w.wanted /\ n.open = w.open
      BY <1>3, <3>7, <3>9 DEF Kept, Fields, ShownFields
    <3>11. Runs(n) BY <1>2, <3>4, <3>10 DEF Runs
    <3>12. Recorded(n) BY <1>2, <3>4, <3>10 DEF Recorded
    <3>13. Lit(s) => Lit(n) BY <3>4, <3>10 DEF Lit
    <3> QED BY <1>2, <3>4, <3>9, <3>10, <3>11, <3>12, <3>13 DEF Settled
  <2>2. CASE p.opens # "ok"
    <3>1. n = s /\ Presented(w) BY <1>4, <2>2
    <3>2. Steers(w) /\ Sliding(w) BY <3>1 DEF Presented
    <3>3. Steers(s) BY <1>2, <1>3, <3>2, SteersKept DEF SameRun, SameHelm
    <3>4. Presented(s) BY <1>2, <1>3, <3>1, <3>2, <3>3, PresentedKept DEF SameRun
    <3> QED BY <1>2, <1>3, <3>1, <3>4 DEF Settled
  <2> QED BY <2>1, <2>2
<1>6. r = IF w.runner.running THEN StartRun(n) ELSE n
  BY <1>1, <1>4 DEF SetProfile, IsRunning
<1>7. w.runner.running \in BOOLEAN /\ n.runner.running \in BOOLEAN
  BY <1>5 DEF Shaped, RunnerShape, Settled
<1>8. CASE w.runner.running
  <2>1. r = StartRun(n) BY <1>6, <1>8
  <2>2. Steers(n) /\ Sliding(n) BY <1>5 DEF Settled, Presented
  <2>3. /\ Shaped(r) /\ Kept(r, n, RunnerFields \cup {"source", "dashboard"})
        /\ SameRun(r, n) /\ r.source.place = n.source.place
        /\ r.source.destination = n.source.destination
        /\ r.runner.running /\ Runs(r) /\ Recorded(r) /\ Steers(r)
        /\ Sliding(r) /\ (Lit(n) => Lit(r))
    BY <1>5, <2>1, <2>2, StartRunFacts DEF Settled
  <2>4. /\ r.chart = n.chart /\ r.jumps = n.jumps /\ r.profile = n.profile
        /\ r.clear_destination = n.clear_destination /\ r.wanted = n.wanted
        /\ r.open = n.open
    BY <2>3 DEF Kept, Fields, RunnerFields
  <2>5. Presented(r) BY <1>5, <2>3, <2>4, PresentedKept DEF Settled, SameRun
  <2>6. r.runner.running \in BOOLEAN BY <2>3 DEF Shaped, RunnerShape
  <2>7. r.runner.running = w.runner.running BY <1>7, <1>8, <2>3, <2>6
  <2> QED BY <1>5, <2>3, <2>4, <2>5, <2>7 DEF Settled, SameAsk
<1>9. CASE ~w.runner.running
  <2>1. r = n BY <1>6, <1>9
  <2>2. r.runner.running = w.runner.running BY <1>5, <1>7, <1>9, <2>1
  <2> QED BY <1>5, <2>1, <2>2 DEF SameAsk
<1> QED BY <1>7, <1>8, <1>9

LEMMA LoadProfileFacts ==
    ASSUME NEW w, NEW r, NEW path, Settled(w),
           \A f \in DOMAIN profileFiles : Sound(profileFiles[f]),
           r = LoadProfile(w, path)
    PROVE  Settled(r) /\ (Lit(w) => Lit(r)) /\ SameAsk(r, w)
<1>1. r = w \/ (path \in DOMAIN profileFiles /\ r = SetProfile(w, profileFiles[path], path))
  BY DEF LoadProfile
<1>2. CASE r = w BY <1>2 DEF SameAsk
<1>3. CASE path \in DOMAIN profileFiles /\ r = SetProfile(w, profileFiles[path], path)
  <2>1. w.dashboard.steering = w.steering.checked BY DEF Settled, Presented, Steers
  <2>2. Sound(profileFiles[path]) BY <1>3
  <2> QED BY <1>3, <2>1, <2>2, SetProfileFacts DEF Settled
<1> QED BY <1>1, <1>2, <1>3

LEMMA OpenInitialProfileFacts ==
    ASSUME NEW w, NEW r, NEW path, Settled(w), Lit(w),
           \A f \in DOMAIN profileFiles : Sound(profileFiles[f]),
           r = OpenInitialProfile(w, path)
    PROVE  Settled(r) /\ Lit(r) /\ SameAsk(r, w)
<1>1. PICK t : t = IF path = "" THEN w ELSE LoadProfile(w, path) OBVIOUS
<1>2. Settled(t) /\ Lit(t) /\ SameAsk(t, w)
  <2>1. CASE t = w BY <2>1 DEF SameAsk
  <2>2. CASE t = LoadProfile(w, path) BY <2>2, LoadProfileFacts
  <2> QED BY <1>1, <2>1, <2>2
<1>3. r = t \/ r = LoadProfile(t, settings.last) BY <1>1 DEF OpenInitialProfile
<1>4. CASE r = t BY <1>2, <1>4
<1>5. CASE r = LoadProfile(t, settings.last)
  BY <1>2, <1>5, LoadProfileFacts DEF SameAsk
<1> QED BY <1>3, <1>4, <1>5
-----------------------------------------------------------------------------
(* What every slot leaves behind.                                          *)
Good(w) == Settled(w) /\ Lit(w) /\ w.runner.running = w.wanted

LEMMA ConstructedFacts ==
    ASSUME WindowAssumption, NEW zoom \in Int, NEW w, w = Constructed(zoom)
    PROVE  /\ Shaped(w) /\ Runs(w) /\ Recorded(w)
           /\ w.dashboard.steering = w.steering.checked
           /\ w.runner.running = w.wanted
<1>1. PICK c : c = ZoomTo(NoChart(MaxZoom), zoom, Middle) OBVIOUS
<1>2. ChartShape(c)
  <2>1. PICK n : n = NoChart(MaxZoom) OBVIOUS
  <2>2. /\ MinZoom \in Nat /\ MaxZoom \in Nat /\ MinZoom <= MaxZoom
    BY DEF WindowAssumption, MapAssumption
  <2>3. ChartShape(n) /\ n.follow
    <3>1. <<>> \in Seq(Seq(TrackPoint) \ {<<>>}) OBVIOUS
    <3>2. OnWorld(Middle)
      <4>1. 0 \in 0 .. MaxZoom BY <2>2
      <4>2. World \in Nat \ {0} BY <4>1, SpanFacts DEF WindowAssumption
      <4> QED BY <4>2 DEF OnWorld, Middle
    <3>3. Located(n) BY <2>1, <2>2, <3>2 DEF NoChart, Located
    <3> QED BY <2>1, <3>1, <3>3 DEF NoChart, ChartShape
  <2>4. PICK z : z = Between(zoom, MinZoom, MaxZoom) OBVIOUS
  <2>5. z \in Int /\ MinZoom <= z /\ z <= MaxZoom BY <2>2, <2>4 DEF Between
  <2>6. CASE c = n BY <2>3, <2>6
  <2>7. CASE c # n
    <3>1. c = [n EXCEPT !.zoom = z, !.center = n.center]
      BY <1>1, <2>1, <2>3, <2>4, <2>7 DEF ZoomTo
    <3>2. /\ DOMAIN c = DOMAIN n /\ c.follow = n.follow /\ c.broken = n.broken
          /\ c.track = n.track /\ c.drag = n.drag /\ c.zoom = z /\ c.center = n.center
      BY <2>3, <3>1 DEF ChartShape
    <3> QED BY <2>3, <2>5, <3>2 DEF ChartShape, Located
  <2> QED BY <2>6, <2>7
<1>3. Sound(StartProfile) BY SoundProfiles
<1>4. PICK no : no = FALSE OBVIOUS
<1>4n. PICK none : none = "" OBVIOUS
<1>5. no \in BOOLEAN BY <1>4
<1>6. w.runner = [profile |-> StartProfile, running |-> no, paused |-> no,
                  recorder |-> none, position |-> 0, sentences |-> 0]
  BY <1>4, <1>4n DEF Constructed
<1>7. /\ DOMAIN w = Fields /\ w.chart = c /\ w.profile = StartProfile
      /\ w.source = SourceOf(StartProfile) /\ w.jumps = 0
  BY <1>1 DEF Constructed, Fields
<1>8. w.dashboard = [overrides |-> no, steering |-> no, ticked |-> {}, enabled |-> {}]
  BY <1>4 DEF Constructed
<1>9. /\ w.pause = [checked |-> no, enabled |-> no]
      /\ w.steering = [checked |-> no, enabled |-> no]
  BY <1>4 DEF Constructed
<1>10. w.slider = [enabled |-> no, value |-> 0, down |-> no] BY <1>4 DEF Constructed
<1>11. w.record = no /\ w.wanted = no BY <1>4 DEF Constructed
<1>12. w.open = TRUE BY DEF Constructed
<1>13. /\ DOMAIN w.runner = {"profile", "running", "paused", "recorder", "position", "sentences"}
       /\ w.runner.running = no /\ w.runner.paused = no /\ w.runner.recorder = none
       /\ w.runner.profile = StartProfile
  BY <1>6
<1>14. RunnerShape(w.runner) BY <1>3, <1>5, <1>13 DEF RunnerShape
<1>15. SourceShape(w.source) BY <1>3, <1>7 DEF SourceOf, SourceShape, Sound
<1>16. DashboardShape(w.dashboard) /\ w.dashboard.steering = no
  <2>1. ASSUME NEW a \in BOOLEAN, NEW t \in SUBSET Steerable
        PROVE  DashboardShape([overrides |-> a, steering |-> a, ticked |-> t, enabled |-> t])
    BY DEF DashboardShape
  <2>2. {} \in SUBSET Steerable OBVIOUS
  <2>3. DashboardShape(w.dashboard) BY <1>5, <1>8, <2>1, <2>2
  <2> QED BY <1>8, <2>3
<1>17. /\ w.pause.checked = no /\ w.pause.enabled = no /\ w.steering.checked = no
  BY <1>9
<1>18. ActionShape(w.pause) /\ ActionShape(w.steering) BY <1>5, <1>9 DEF ActionShape
<1>19. SliderShape(w.slider) BY <1>10 DEF SliderShape
<1>20. Shaped(w)
  <2>1. w.open \in BOOLEAN BY <1>12
  <2>2. w.wanted \in BOOLEAN BY <1>5, <1>11
  <2>3. w.jumps \in Nat BY <1>7
  <2> QED BY <1>2, <1>3, <1>7, <1>14, <1>15, <1>16, <1>18, <1>19, <2>1, <2>2, <2>3 DEF Shaped
<1>21. Runs(w)
  <2>1. ~ w.runner.paused BY <1>4, <1>13
  <2> QED BY <1>13, <1>17, <2>1 DEF Runs
<1>22. Recorded(w)
  <2>1. w.record = FALSE BY <1>4, <1>11
  <2>2. (w.runner.recorder # "") = FALSE BY <1>4n, <1>13
  <2> QED BY <2>1, <2>2 DEF Recorded
<1> QED BY <1>11, <1>13, <1>16, <1>17, <1>20, <1>21, <1>22

LEMMA LookKeeps ==
    ASSUME NEW w, NEW r, NEW c, Good(w), ChartShape(c),
           c.vessel = w.chart.vessel, c.track = w.chart.track, c.broken = w.chart.broken,
           c.destination = w.chart.destination, c.route = w.chart.route,
           c.follow /\ HasDelta(w) => c.center = OnMap(w.source.place),
           r = [w EXCEPT !.chart = c]
    PROVE  Good(r)
<1>1. Shaped(w) /\ Presented(w) /\ Runs(w) /\ Recorded(w) BY DEF Good, Settled
<1>2. /\ DOMAIN r = Fields /\ r.chart = c /\ \A f \in Fields \ {"chart"} : r[f] = w[f]
  BY <1>1 DEF Shaped, Fields
<1>3. Shaped(r) BY <1>1, <1>2 DEF Shaped, Fields
<1>4. /\ r.runner = w.runner /\ r.source = w.source /\ r.dashboard = w.dashboard
      /\ r.pause = w.pause /\ r.steering = w.steering /\ r.record = w.record
      /\ r.clear_destination = w.clear_destination /\ r.slider = w.slider
      /\ r.status = w.status /\ r.wanted = w.wanted /\ r.jumps = w.jumps
      /\ r.profile = w.profile
  BY <1>2 DEF Fields
<1>5. Steers(w) /\ Sails(w) /\ Sliding(w) BY <1>1 DEF Presented
<1>6. Steers(r) BY <1>4, <1>5, SteersKept DEF SameHelm
<1>7. HasDelta(r) <=> HasDelta(w) BY <1>4 DEF HasDelta
<1>8. Centred(r) BY <1>2, <1>4, <1>7 DEF Centred
<1>9. TrackReady(r) BY <1>2, <1>4, <1>5 DEF Sails, TrackReady
<1>10. Sails(r) BY <1>2, <1>4, <1>5, <1>8, <1>9 DEF Sails
<1>11. Sliding(r) BY <1>4, <1>5 DEF Sliding, Finite
<1>12. Presented(r) BY <1>1, <1>2, <1>4, <1>6, <1>10, <1>11 DEF Presented
<1>13. Runs(r) /\ Recorded(r) BY <1>1, <1>4 DEF Runs, Recorded
<1>14. Lit(r) BY <1>4 DEF Good, Lit
<1> QED BY <1>3, <1>4, <1>12, <1>13, <1>14 DEF Good, Settled

(* Zooms and centres there are give whole numbers of pixels.               *)
Zooms == {z \in Int : MinZoom <= z /\ z <= MaxZoom}

LEMMA ZoomsFacts ==
    ASSUME MapAssumption, NEW z \in Zooms
    PROVE  PixelSize(z) \in Int /\ -PixelSize(z) \in Int
<1>1. z \in 0 .. MaxZoom BY DEF MapAssumption, Zooms
<1>2. PixelSize(z) \in Nat \ {0} BY <1>1, SpanFacts
<1> QED BY <1>2

LEMMA LocatedFacts ==
    ASSUME MapAssumption, NEW x, Located(x)
    PROVE  IsPoint(x.center) /\ x.zoom \in Zooms /\ PixelSize(x.zoom) \in Int
<1>1. x.zoom \in Zooms BY DEF Located, Zooms
<1>2. 0 \in 0 .. MaxZoom BY DEF MapAssumption
<1>3. World \in Nat BY <1>2, SpanFacts
<1>4. IsPoint(x.center) BY <1>3 DEF Located, OnWorld, IsPoint
<1> QED BY <1>1, <1>4, ZoomsFacts

LEMMA PlusFacts ==
    ASSUME NEW p, NEW q, NEW scale \in Int, IsPoint(p), IsPoint(q)
    PROVE  IsPoint(Plus(p, q, scale))
<1>1. PICK a \in Int, b \in Int, c \in Int, e \in Int :
        a = p.x /\ b = p.y /\ c = q.x /\ e = q.y
  BY DEF IsPoint
<1>2. Plus(p, q, scale).x = a + scale * c /\ Plus(p, q, scale).y = b + scale * e
  BY <1>1 DEF Plus
<1>3. a + scale * c \in Int /\ b + scale * e \in Int OBVIOUS
<1> QED BY <1>2, <1>3 DEF IsPoint

LEMMA ViewKeeps ==
    ASSUME WindowAssumption, NEW w, NEW r, NEW c, Good(w), r = [w EXCEPT !.chart = c],
           NEW point, IsPoint(point), NEW level \in Int, NEW on \in BOOLEAN,
           \/ c = ZoomTo(w.chart, level, point)
           \/ c = SetFollowVessel(w.chart, on)
           \/ c = Press(w.chart, point)
           \/ c = DragTo(w.chart, point)
           \/ c = Release(w.chart)
    PROVE  Good(r)
<1> DEFINE old == w.chart
           Same(d) == /\ ChartShape(d) /\ d.vessel = old.vessel /\ d.track = old.track
                      /\ d.broken = old.broken /\ d.destination = old.destination
                      /\ d.route = old.route
                      /\ d.follow /\ HasDelta(w) => d.center = OnMap(w.source.place)
<1>1. ChartShape(old) /\ old.vessel = {w.source.place}
      /\ (old.follow /\ HasDelta(w) => old.center = OnMap(w.source.place))
  BY DEF Good, Settled, Shaped, Presented, Sails, Centred
<1>1a. w.source.place \in Spots BY DEF Good, Settled, Shaped, SourceShape
<1>2. Same(old) BY <1>1
<1>2a. MapAssumption /\ MinZoom \in Nat /\ MaxZoom \in Nat /\ MinZoom <= MaxZoom
  BY DEF WindowAssumption, MapAssumption
<1>2b. IsPoint(old.center) /\ old.zoom \in Zooms /\ PixelSize(old.zoom) \in Int
  BY <1>1, <1>2a, LocatedFacts DEF ChartShape
<1>2c. ASSUME NEW z \in Zooms PROVE -PixelSize(z) \in Int
  BY <1>2a, ZoomsFacts
<1>3. ASSUME NEW d, NEW x, NEW y, Same(d), ~d.follow, OnWorld(x),
             \/ y = [d EXCEPT !.center = x]
             \/ \E z \in Zooms : y = [d EXCEPT !.zoom = z, !.center = x]
      PROVE  Same(y)
  <2>1. /\ DOMAIN y = DOMAIN d /\ y.vessel = d.vessel /\ y.track = d.track
        /\ y.broken = d.broken /\ y.destination = d.destination /\ y.route = d.route
        /\ y.follow = d.follow /\ y.drag = d.drag /\ y.center = x
        /\ y.zoom = d.zoom \/ y.zoom \in Zooms
    BY <1>3 DEF ChartShape
  <2> HIDE DEF old
  <2>2. Located(d) BY <1>3 DEF ChartShape
  <2>3. y.zoom \in Int /\ MinZoom <= y.zoom /\ y.zoom <= MaxZoom
    BY <2>1, <2>2 DEF Zooms, Located
  <2>4. Located(y) BY <1>3, <2>1, <2>2, <2>3 DEF Located
  <2> QED BY <1>3, <2>1, <2>4 DEF ChartShape
<1>4. ASSUME NEW d, NEW x, NEW y, Same(d), y = [d EXCEPT !.drag = x], \A p \in x : IsPoint(p)
      PROVE  Same(y) /\ (y.follow <=> d.follow)
  <2>1. /\ DOMAIN y = DOMAIN d /\ y.vessel = d.vessel /\ y.track = d.track
        /\ y.broken = d.broken /\ y.destination = d.destination /\ y.route = d.route
        /\ y.follow = d.follow /\ y.center = d.center /\ y.zoom = d.zoom /\ y.drag = x
    BY <1>4 DEF ChartShape
  <2> HIDE DEF old
  <2>2. Located(d) BY <1>4 DEF ChartShape
  <2>3. Located(y) BY <1>4, <2>1, <2>2 DEF Located
  <2> QED BY <1>4, <2>1, <2>3 DEF ChartShape
<1>4a. ASSUME NEW d, NEW z \in Zooms, NEW y, Same(d),
              y = [d EXCEPT !.zoom = z, !.center = d.center]
       PROVE  Same(y)
  <2>1. /\ DOMAIN y = DOMAIN d /\ y.vessel = d.vessel /\ y.track = d.track
        /\ y.broken = d.broken /\ y.destination = d.destination /\ y.route = d.route
        /\ y.follow = d.follow /\ y.center = d.center /\ y.zoom = z /\ y.drag = d.drag
    BY <1>4a DEF ChartShape
  <2> HIDE DEF old
  <2>2. Located(d) BY <1>4a DEF ChartShape
  <2>3. Located(y) BY <2>1, <2>2 DEF Located, Zooms
  <2> QED BY <1>4a, <2>1, <2>3 DEF ChartShape
<1>5. ASSUME NEW d, NEW e, NEW v \in BOOLEAN, Same(d), e = SetFollowVessel(d, v)
      PROVE  Same(e) /\ (e.follow <=> v)
  <2>1. CASE d.follow = v
    <3>1. e = d BY <1>5, <2>1 DEF SetFollowVessel
    <3> HIDE DEF old
    <3> QED BY <1>5, <2>1, <3>1
  <2>2. CASE d.follow # v /\ v
    <3>0. d.vessel = {w.source.place} BY <1>1, <1>5
    <3>1. (CHOOSE x \in d.vessel : TRUE) = w.source.place BY <3>0
    <3>2. PICK s : s = [d EXCEPT !.follow = v] OBVIOUS
    <3>3. e = [s EXCEPT !.center = OnMap(w.source.place)]
      BY <1>5, <2>2, <3>0, <3>1, <3>2 DEF SetFollowVessel, MapSetCenter
    <3>4. /\ DOMAIN s = DOMAIN d /\ s.vessel = d.vessel /\ s.track = d.track
          /\ s.broken = d.broken /\ s.destination = d.destination /\ s.route = d.route
          /\ s.follow = v /\ s.zoom = d.zoom /\ s.drag = d.drag
      BY <1>5, <3>2 DEF ChartShape
    <3>5. /\ DOMAIN e = DOMAIN s /\ e.vessel = s.vessel /\ e.track = s.track
          /\ e.broken = s.broken /\ e.destination = s.destination /\ e.route = s.route
          /\ e.follow = s.follow /\ e.center = OnMap(w.source.place)
          /\ e.zoom = s.zoom /\ e.drag = s.drag
      BY <1>5, <3>3, <3>4 DEF ChartShape
    <3> HIDE DEF old
    <3>6. Located(e)
      <4>1. Located(d) BY <1>5 DEF ChartShape
      <4>2. OnWorld(OnMap(w.source.place)) BY <1>1a DEF Spots
      <4> QED BY <3>4, <3>5, <4>1, <4>2 DEF Located
    <3> QED BY <1>5, <3>4, <3>5, <3>6 DEF ChartShape
  <2>3. CASE d.follow # v /\ ~v
    <3>1. e = [d EXCEPT !.follow = v] BY <1>5, <2>3 DEF SetFollowVessel
    <3>2. /\ DOMAIN e = DOMAIN d /\ e.vessel = d.vessel /\ e.track = d.track
          /\ e.broken = d.broken /\ e.destination = d.destination /\ e.route = d.route
          /\ e.follow = v /\ e.center = d.center /\ e.zoom = d.zoom /\ e.drag = d.drag
      BY <1>5, <3>1 DEF ChartShape
    <3> HIDE DEF old
    <3>3. Located(d) BY <1>5 DEF ChartShape
    <3>4. Located(e) BY <3>2, <3>3 DEF Located
    <3> QED BY <1>5, <2>3, <3>2, <3>4 DEF ChartShape
  <2> QED BY <2>1, <2>2, <2>3
<1>6. Same(c)
  <2>1. CASE c = ZoomTo(old, level, point)
    <3>1. PICK z : z = Between(level, MinZoom, MaxZoom) OBVIOUS
    <3>2. z \in Zooms BY <3>1, <1>2a DEF Between, Zooms
    <3>3. PICK x : x = OnMap(Plus(PositionAt(old, point), point, -PixelSize(z))) OBVIOUS
    <3>4. OnWorld(x)
      <4>1. IsPoint(PositionAt(old, point))
        <5>1. IsPoint(Plus(old.center, point, PixelSize(old.zoom))) BY <1>2b, PlusFacts
        <5> QED BY <5>1, <1>2a, OnMapFacts DEF PositionAt
      <4>2. -PixelSize(z) \in Int BY <3>2, <1>2c
      <4>3. IsPoint(Plus(PositionAt(old, point), point, -PixelSize(z))) BY <4>1, <4>2, PlusFacts
      <4> QED BY <3>3, <4>3, <1>2a, OnMapFacts
    <3>5. \/ c = old
          \/ old.follow /\ c = [old EXCEPT !.zoom = z, !.center = old.center]
          \/ ~old.follow /\ c = [old EXCEPT !.zoom = z, !.center = x]
      <4>1. CASE old.follow BY <2>1, <3>1, <4>1 DEF ZoomTo
      <4>2. CASE ~old.follow BY <2>1, <3>1, <3>3, <4>2 DEF ZoomTo
      <4> QED BY <4>1, <4>2
    <3> HIDE DEF Same, old
    <3> QED BY <1>2, <1>3, <1>4a, <3>2, <3>4, <3>5
  <2>2. CASE c = SetFollowVessel(old, on)
    <3> HIDE DEF Same, old
    <3> QED BY <1>2, <1>5, <2>2
  <2>3. CASE c = Press(old, point) \/ c = Release(old)
    <3>1. PICK x : c = [old EXCEPT !.drag = x] /\ x \in {{point}, {}}
      BY <2>3 DEF Press, Release
    <3>2. \A p \in x : IsPoint(p) BY <3>1
    <3> HIDE DEF Same, old
    <3> QED BY <1>2, <1>4, <3>1, <3>2
  <2>4. CASE c = DragTo(old, point)
    <3>1. CASE c = old BY <1>2, <3>1
    <3>2. CASE c # old
      <4>1. PICK s : s = SetFollowVessel(old, FALSE) OBVIOUS
      <4>2. PICK m : m = [s EXCEPT !.drag = {point}] OBVIOUS
      <4>3. PICK from : from = CHOOSE p \in old.drag : TRUE OBVIOUS
      <4>4. old.drag # {} /\ c = PanBy(m, Plus(point, from, -1))
        BY <2>4, <3>2, <4>1, <4>2, <4>3 DEF DragTo
      <4>5. from \in old.drag BY <4>3, <4>4
      <4>6. IsPoint(Plus(point, from, -1))
        <5>1. IsPoint(from) BY <1>1, <4>5 DEF ChartShape, Located
        <5> QED BY <5>1, PlusFacts
      <4>7. PICK x : x = OnMap(Plus(m.center, Plus(point, from, -1), -PixelSize(m.zoom))) OBVIOUS
      <4>8. c = [m EXCEPT !.center = x] BY <4>4, <4>7 DEF PanBy
      <4>8a. PICK held : held = {point} OBVIOUS
      <4>9. \A p \in held : IsPoint(p) BY <4>8a
      <4>10. Same(s) /\ ~s.follow
        <5> HIDE DEF Same, old
        <5> QED BY <1>2, <1>5, <4>1
      <4>11. Same(m) /\ ~m.follow
        <5>1. m = [s EXCEPT !.drag = held] BY <4>2, <4>8a
        <5> HIDE DEF Same, old
        <5> QED BY <1>4, <4>9, <4>10, <5>1
      <4>12. OnWorld(x)
        <5>1. IsPoint(m.center) /\ m.zoom \in Zooms
          BY <4>11, <1>2a, LocatedFacts DEF ChartShape
        <5>2. -PixelSize(m.zoom) \in Int BY <5>1, <1>2c
        <5>3. IsPoint(Plus(m.center, Plus(point, from, -1), -PixelSize(m.zoom)))
          BY <4>6, <5>1, <5>2, PlusFacts
        <5> QED BY <4>7, <5>3, <1>2a, OnMapFacts
      <4> HIDE DEF Same, old
      <4> QED BY <1>3, <4>8, <4>11, <4>12
    <3> QED BY <3>1, <3>2
  <2> QED BY <2>1, <2>2, <2>3, <2>4
<1> QED BY <1>6, LookKeeps
(* A slot that keeps the run and what it shows, but for what is stated.    *)
LEMMA SlotKeeps ==
    ASSUME NEW w, NEW r, Good(w), Shaped(r), Runs(r), Recorded(r), Lit(r), Sliding(r),
           Steers(r), Sails(r), r.chart.route = w.chart.route,
           r.runner.profile = w.runner.profile, r.profile.name = w.profile.name,
           r.runner.running = r.wanted
    PROVE  Good(r)
BY DEF Good, Settled, Presented

LEMMA ToggleRunKeeps ==
    ASSUME NEW w, NEW r, Good(w),
           r = [(IF IsRunning(w) THEN StopRun(w) ELSE StartRun(w)) EXCEPT !.wanted = ~IsRunning(w)]
    PROVE  Good(r)
<1>1. /\ Shaped(w) /\ Runs(w) /\ Recorded(w) /\ Lit(w)
      /\ Steers(w) /\ Sails(w) /\ Sliding(w)
  BY DEF Good, Settled, Presented
<1>2. PICK s : s = IF IsRunning(w) THEN StopRun(w) ELSE StartRun(w) OBVIOUS
<1>3. /\ Shaped(s) /\ Kept(s, w, RunnerFields \cup {"source", "dashboard"})
      /\ SameRun(s, w) /\ SameHelm(s, w)
      /\ s.source.place = w.source.place /\ s.source.destination = w.source.destination
      /\ s.runner.running = ~w.runner.running
      /\ Runs(s) /\ Recorded(s) /\ Steers(s) /\ Sliding(s) /\ Lit(s)
  <2>1. w.runner.running \in BOOLEAN BY <1>1 DEF Shaped, RunnerShape
  <2>2. CASE w.runner.running
    <3>1. s = StopRun(w) BY <1>2, <2>2 DEF IsRunning
    <3>2. /\ Shaped(s) /\ Kept(s, w, RunnerFields) /\ SameRun(s, w)
          /\ ~s.runner.running /\ Runs(s) /\ Recorded(s) /\ Sliding(s) /\ Lit(s)
      BY <1>1, <3>1, StopRunFacts
    <3>3. s.source = w.source /\ s.dashboard = w.dashboard /\ s.steering = w.steering
      BY <3>2 DEF Kept, Fields, RunnerFields
    <3>4. Steers(s) BY <1>1, <3>2, <3>3, SteersKept DEF SameRun, SameHelm
    <3>5. s.runner.running \in BOOLEAN BY <3>2 DEF Shaped, RunnerShape
    <3>6. s.runner.running = ~w.runner.running BY <2>1, <2>2, <3>2, <3>5
    <3>7. Kept(s, w, RunnerFields \cup {"source", "dashboard"}) BY <3>2 DEF Kept
    <3> QED BY <3>2, <3>3, <3>4, <3>6, <3>7 DEF SameHelm
  <2>3. CASE ~w.runner.running
    <3>1. s = StartRun(w) BY <1>2, <2>3 DEF IsRunning
    <3>2. /\ Shaped(s) /\ Kept(s, w, RunnerFields \cup {"source", "dashboard"})
          /\ SameRun(s, w) /\ SameHelm(s, w)
          /\ s.source.place = w.source.place /\ s.source.destination = w.source.destination
          /\ s.runner.running /\ Runs(s) /\ Recorded(s) /\ Steers(s)
          /\ Sliding(s) /\ Lit(s)
      BY <1>1, <3>1, StartRunFacts
    <3>3. s.runner.running \in BOOLEAN BY <3>2 DEF Shaped, RunnerShape
    <3>4. s.runner.running = ~w.runner.running BY <2>1, <2>3, <3>2, <3>3
    <3> QED BY <3>2, <3>4
  <2> QED BY <2>1, <2>2, <2>3
<1>4. r = [s EXCEPT !.wanted = ~w.runner.running] BY <1>2 DEF IsRunning
<1>5. /\ DOMAIN r = Fields /\ \A f \in Fields \ {"wanted"} : r[f] = s[f]
      /\ r.wanted = ~w.runner.running
  BY <1>3, <1>4 DEF Shaped, Fields
<1>6. r.wanted \in BOOLEAN BY <1>5
<1>7. Shaped(r) BY <1>3, <1>5, <1>6 DEF Shaped, Fields
<1>8. /\ r.runner = s.runner /\ r.source = s.source /\ r.dashboard = s.dashboard
      /\ r.steering = s.steering /\ r.pause = s.pause /\ r.record = s.record
      /\ r.status = s.status /\ r.slider = s.slider
      /\ r.chart = w.chart /\ r.jumps = w.jumps /\ r.profile = w.profile
      /\ r.clear_destination = w.clear_destination
  BY <1>3, <1>5 DEF Kept, Fields, RunnerFields
<1>9. Runs(r) /\ Recorded(r) /\ Lit(r)
  <2>1. Runs(r) BY <1>3, <1>8 DEF Runs
  <2>2. Recorded(r) BY <1>3, <1>8 DEF Recorded
  <2>3. Lit(r) BY <1>3, <1>8 DEF Lit
  <2> QED BY <2>1, <2>2, <2>3
<1>10. Sliding(r) BY <1>3, <1>8 DEF Sliding, Finite
<1>11. Steers(r)
  <2>1. Steers(s) BY <1>3
  <2>2. /\ r.runner.profile = s.runner.profile /\ r.dashboard = s.dashboard
        /\ r.steering = s.steering
    BY <1>8
  <2>3. SameHelm(r, s) BY <1>8 DEF SameHelm
  <2> QED BY <2>1, <2>2, <2>3, SteersKept
<1>12. /\ r.runner.profile = w.runner.profile
       /\ r.source.place = w.source.place /\ r.source.destination = w.source.destination
  BY <1>3, <1>8 DEF SameRun
<1>13. Sails(r) BY <1>1, <1>8, <1>12, SailsKept
<1>14. r.runner.running = r.wanted BY <1>3, <1>5, <1>8
<1>15. r.chart.route = w.chart.route /\ r.profile.name = w.profile.name BY <1>8
<1> QED BY <1>3, <1>7, <1>9, <1>10, <1>11, <1>12, <1>13, <1>14, <1>15, SlotKeeps

LEMMA TogglePauseKeeps ==
    ASSUME NEW w, NEW r, Good(w), w.pause.enabled,
           r = RefreshStatus(SetPaused([w EXCEPT !.pause.checked = ~w.pause.checked],
                                       ~w.pause.checked))
    PROVE  Good(r)
<1>1. /\ Shaped(w) /\ Runs(w) /\ Recorded(w) /\ Lit(w)
      /\ Steers(w) /\ Sails(w) /\ Sliding(w) /\ w.runner.running = w.wanted
  BY DEF Good, Settled, Presented
<1>2. PICK a : a = [w EXCEPT !.pause.checked = ~w.pause.checked] OBVIOUS
<1>3. /\ DOMAIN a = Fields /\ \A f \in Fields \ {"pause"} : a[f] = w[f]
      /\ ActionShape(a.pause) /\ a.pause.enabled = w.pause.enabled
  BY <1>1, <1>2 DEF Shaped, Fields, ActionShape
<1>4. Shaped(a) BY <1>1, <1>3 DEF Shaped, Fields
<1>5. a.runner = w.runner /\ a.record = w.record /\ a.slider = w.slider /\ a.status = w.status
  BY <1>3 DEF Fields
<1>6. Recorded(a) /\ Lit(a) BY <1>1, <1>5 DEF Recorded, Lit
<1>7. Sliding(a) BY <1>1, <1>5 DEF Sliding, Finite
<1>8. PICK paused \in BOOLEAN : paused = ~w.pause.checked OBVIOUS
<1>9. w.runner.running /\ w.runner.paused # paused
  BY <1>1, <1>8 DEF Runs, Shaped, RunnerShape, ActionShape
<1>10. PICK b : b = SetPaused(a, paused) OBVIOUS
<1>11. /\ Shaped(b) /\ Kept(b, a, RunnerFields) /\ SameRun(b, a)
       /\ b.runner.running /\ Runs(b) /\ Recorded(b) /\ Sliding(b) /\ Lit(b)
  <2>1. /\ a.runner.running /\ a.pause.enabled = a.runner.running
        /\ a.runner.paused = paused => Runs(a)
    BY <1>1, <1>3, <1>5, <1>9 DEF Runs
  <2> QED BY <1>4, <1>6, <1>7, <1>10, <2>1, SetPausedFacts
<1>12. r = RefreshStatus(b) BY <1>2, <1>8, <1>10
<1>13. Shaped(r) /\ Kept(r, b, {"status"}) /\ Lit(r)
  BY <1>11, <1>12, RefreshStatusFacts
<1>14. Kept(r, w, RunnerFields) BY <1>3, <1>11, <1>13 DEF Kept, RunnerFields
<1>15. r.runner = b.runner /\ r.pause = b.pause /\ r.record = b.record /\ r.slider = b.slider
  BY <1>13 DEF Kept, Fields
<1>16. /\ r.source = w.source /\ r.dashboard = w.dashboard /\ r.steering = w.steering
       /\ r.chart = w.chart /\ r.jumps = w.jumps /\ r.profile = w.profile
       /\ r.clear_destination = w.clear_destination /\ r.wanted = w.wanted
  BY <1>14 DEF Kept, Fields, RunnerFields
<1>17. r.runner.profile = w.runner.profile BY <1>5, <1>11, <1>15 DEF SameRun
<1>18. Runs(r) /\ Recorded(r) BY <1>11, <1>15 DEF Runs, Recorded
<1>19. Sliding(r) BY <1>11, <1>15 DEF Sliding, Finite
<1>20. Steers(r) BY <1>1, <1>16, <1>17, SteersKept DEF SameHelm
<1>21. Sails(r) BY <1>1, <1>16, <1>17, SailsKept
<1>22. r.runner.running = r.wanted
  <2>1. r.runner.running \in BOOLEAN /\ w.runner.running \in BOOLEAN
    BY <1>1, <1>13 DEF Shaped, RunnerShape
  <2>2. r.runner.running = w.runner.running BY <1>9, <1>11, <1>15, <2>1
  <2> QED BY <2>2, <1>1, <1>16
<1> QED BY <1>13, <1>16, <1>17, <1>18, <1>19, <1>20, <1>21, <1>22, SlotKeeps

(* A tick of the runner, and the Step action.                              *)
LEMMA TickKeeps ==
    ASSUME NEW w, NEW r, NEW place \in Spots, Good(w), r = Stepped(w, place)
    PROVE  Good(r)
<1>1. /\ Shaped(w) /\ Runs(w) /\ Recorded(w)
      /\ Steers(w) /\ TrackReady(w) /\ w.runner.running = w.wanted
  BY DEF Good, Settled, Presented, Sails
<1>2. /\ Shaped(r)
      /\ Kept(r, w, RunnerFields \cup {"source", "chart", "clear_destination", "wanted"})
      /\ SameRun(r, w) /\ SameHelm(r, w)
      /\ Sails(r) /\ r.chart.route = w.chart.route
      /\ Runs(r) /\ Recorded(r) /\ Sliding(r) /\ Lit(r)
      /\ r.runner.running = r.wanted
  BY <1>1, SteppedFacts
<1>3. r.dashboard = w.dashboard /\ r.steering = w.steering /\ r.profile = w.profile
  BY <1>2 DEF Kept, Fields, RunnerFields
<1>4. Steers(r) BY <1>1, <1>2, <1>3, SteersKept DEF SameRun
<1> QED BY <1>2, <1>3, <1>4, SlotKeeps DEF SameRun

LEMMA StepKeeps ==
    ASSUME NEW w, NEW r, NEW place \in Spots, Good(w),
           r = UpdateActions(Stepped(SetPaused(RunnerStart([w EXCEPT !.wanted = TRUE]), TRUE),
                                     place))
    PROVE  Good(r)
<1>1. /\ Shaped(w) /\ Runs(w) /\ Recorded(w) /\ Lit(w)
      /\ Steers(w) /\ Sails(w) /\ Sliding(w)
  BY DEF Good, Settled, Presented
<1>2. PICK a : a = [w EXCEPT !.wanted = TRUE] OBVIOUS
<1>3. /\ DOMAIN a = Fields /\ \A f \in Fields \ {"wanted"} : a[f] = w[f]
  BY <1>1, <1>2 DEF Shaped, Fields
<1>4. a.wanted = TRUE BY <1>1, <1>2 DEF Shaped, Fields
<1>5. a.wanted \in BOOLEAN BY <1>4
<1>6. Shaped(a) BY <1>1, <1>3, <1>5 DEF Shaped, Fields
<1>7. /\ a.runner = w.runner /\ a.record = w.record /\ a.slider = w.slider
      /\ a.status = w.status /\ a.pause = w.pause
  BY <1>3 DEF Fields
<1>8. Recorded(a) /\ Runs(a) BY <1>1, <1>7 DEF Recorded, Runs
<1>9. PICK b : b = RunnerStart(a) OBVIOUS
<1>10. /\ Shaped(b) /\ Kept(b, a, RunnerFields) /\ SameRun(b, a)
       /\ b.runner.running /\ Runs(b) /\ Recorded(b)
  BY <1>6, <1>8, <1>9, RunnerStartFacts
<1>11. PICK yes \in BOOLEAN : yes = TRUE OBVIOUS
<1>12. PICK c : c = SetPaused(b, yes) OBVIOUS
<1>13. /\ Shaped(c) /\ Kept(c, b, RunnerFields) /\ SameRun(c, b)
       /\ c.runner.running /\ Runs(c) /\ Recorded(c)
  <2>1. b.pause.enabled = b.runner.running BY <1>10 DEF Runs
  <2> QED BY <1>10, <1>12, <2>1, SetPausedFacts
<1>14. /\ c.chart = w.chart /\ c.jumps = w.jumps /\ c.wanted = a.wanted
       /\ c.dashboard = w.dashboard /\ c.steering = w.steering /\ c.source = w.source
       /\ c.profile = w.profile
  BY <1>3, <1>10, <1>13 DEF Kept, Fields, RunnerFields
<1>15. TrackReady(c) BY <1>1, <1>14 DEF Sails, TrackReady
<1>16. c.runner.running = c.wanted
  <2>1. c.runner.running \in BOOLEAN BY <1>13 DEF Shaped, RunnerShape
  <2>2. c.runner.running = TRUE BY <1>13, <2>1
  <2> QED BY <1>4, <1>14, <2>2
<1>17. PICK s : s = Stepped(c, place) OBVIOUS
<1>18. /\ Shaped(s)
       /\ Kept(s, c, RunnerFields \cup {"source", "chart", "clear_destination", "wanted"})
       /\ SameRun(s, c) /\ SameHelm(s, c)
       /\ Sails(s) /\ s.chart.route = c.chart.route
       /\ Runs(s) /\ Recorded(s) /\ Sliding(s) /\ Lit(s)
       /\ s.runner.running = s.wanted
  BY <1>13, <1>15, <1>16, <1>17, SteppedFacts
<1>19. r = UpdateActions(s) BY <1>2, <1>9, <1>11, <1>12, <1>17
<1>20. /\ Shaped(r) /\ Kept(r, s, {"pause", "slider", "status"})
       /\ Sliding(r) /\ Lit(r)
       /\ r.pause.enabled = s.runner.running
       /\ r.pause.checked = (s.pause.checked /\ s.runner.running)
  BY <1>18, <1>19, UpdateActionsFacts
<1>21. /\ r.runner = s.runner /\ r.record = s.record /\ r.source = s.source
       /\ r.chart = s.chart /\ r.jumps = s.jumps /\ r.wanted = s.wanted
       /\ r.clear_destination = s.clear_destination /\ r.dashboard = s.dashboard
       /\ r.steering = s.steering /\ r.profile = s.profile
  BY <1>20 DEF Kept, Fields
<1>22. s.dashboard = c.dashboard /\ s.steering = c.steering /\ s.profile = c.profile
  BY <1>18 DEF Kept, Fields, RunnerFields
<1>23. r.runner.profile = w.runner.profile
  <2>1. s.runner.profile = c.runner.profile BY <1>18 DEF SameRun
  <2>2. c.runner.profile = b.runner.profile BY <1>13 DEF SameRun
  <2>3. b.runner.profile = a.runner.profile BY <1>10 DEF SameRun
  <2> QED BY <1>7, <1>21, <2>1, <2>2, <2>3
<1>24. Recorded(r) BY <1>18, <1>21 DEF Recorded
<1>25. Runs(r)
  <2>1. s.pause.checked \in BOOLEAN /\ s.runner.running \in BOOLEAN
        /\ s.runner.paused \in BOOLEAN
    BY <1>18 DEF Shaped, ActionShape, RunnerShape
  <2>2. (s.pause.checked /\ s.runner.running) = s.runner.paused BY <1>18, <2>1 DEF Runs
  <2> QED BY <1>18, <1>20, <1>21, <2>2 DEF Runs
<1>26. SameHelm(r, w) BY <1>14, <1>18, <1>21 DEF SameHelm
<1>27. Steers(r) BY <1>1, <1>14, <1>21, <1>22, <1>23, <1>26, SteersKept
<1>28. Sails(r) BY <1>18, <1>21, SailsKept
<1> QED BY <1>14, <1>18, <1>20, <1>21, <1>22, <1>23, <1>24, <1>25, <1>27, <1>28, SlotKeeps
LEMMA SteerWithRudderKeeps ==
    ASSUME NEW w, NEW r, NEW on \in BOOLEAN, Good(w), w.steering.enabled,
           r = CheckSteering(w, on)
    PROVE  Good(r)
<1>1. /\ Shaped(w) /\ Runs(w) /\ Recorded(w) /\ Lit(w)
      /\ Steers(w) /\ Sails(w) /\ Sliding(w) /\ w.runner.running = w.wanted
  BY DEF Good, Settled, Presented
<1>2. HasDelta(w) BY <1>1 DEF Steers
<1>3. Aligned(w) BY <1>1, <1>2 DEF Aligned, Steers
<1>4. /\ Shaped(r) /\ Kept(r, w, {"dashboard", "steering", "source"})
      /\ r.source.place = w.source.place /\ r.source.destination = w.source.destination
      /\ r.steering.checked = on /\ r.steering.enabled = w.steering.enabled
      /\ Aligned(r)
  BY <1>1, <1>3, CheckSteeringFacts
<1>5. /\ r.runner = w.runner /\ r.record = w.record /\ r.slider = w.slider
      /\ r.status = w.status /\ r.pause = w.pause
      /\ r.chart = w.chart /\ r.jumps = w.jumps /\ r.profile = w.profile
      /\ r.clear_destination = w.clear_destination /\ r.wanted = w.wanted
  BY <1>4 DEF Kept, Fields
<1>6. (HasDelta(r) <=> HasDelta(w)) /\ HasDelta(r) = HasDelta(w) BY <1>5 DEF HasDelta
<1>7. r.steering.enabled = HasDelta(r) BY <1>1, <1>4, <1>6 DEF Steers
<1>8. Steers(r) BY <1>2, <1>4, <1>6, <1>7 DEF Aligned, Steers
<1>9. Sails(r) BY <1>1, <1>4, <1>5, SailsKept
<1>10. Runs(r) /\ Recorded(r) /\ Lit(r) BY <1>1, <1>5 DEF Runs, Recorded, Lit
<1>11. Sliding(r) BY <1>1, <1>5 DEF Sliding, Finite
<1> QED BY <1>1, <1>4, <1>5, <1>8, <1>9, <1>10, <1>11, SlotKeeps

LEMMA SetProfileKeeps ==
    ASSUME NEW w, NEW r, NEW p, NEW path, Good(w), Sound(p), r = SetProfile(w, p, path)
    PROVE  Good(r)
<1>1. /\ Shaped(w) /\ Runs(w) /\ Recorded(w) /\ Lit(w) /\ Presented(w)
      /\ w.runner.running = w.wanted
  BY DEF Good, Settled
<1>2. w.dashboard.steering = w.steering.checked BY <1>1 DEF Presented, Steers
<1>3. Settled(r) /\ Lit(r) /\ SameAsk(r, w) BY <1>1, <1>2, SetProfileFacts
<1> QED BY <1>1, <1>3 DEF Good, SameAsk

LEMMA LoadProfileKeeps ==
    ASSUME NEW w, NEW r, NEW path, Good(w), r = LoadProfile(w, path),
           \A f \in DOMAIN profileFiles : Sound(profileFiles[f])
    PROVE  Good(r)
<1>1. Settled(w) /\ Lit(w) /\ w.runner.running = w.wanted BY DEF Good
<1>2. Settled(r) /\ Lit(r) /\ SameAsk(r, w) BY <1>1, LoadProfileFacts
<1> QED BY <1>1, <1>2 DEF Good, SameAsk

(* Fields that neither the run nor what is shown of it reads.              *)
LEMMA AsideKeeps ==
    ASSUME NEW w, NEW r, Good(w), DOMAIN r = Fields, SliderShape(r.slider),
           r.slider.enabled = w.slider.enabled, Kept(r, w, {"path", "title", "slider"})
    PROVE  Good(r)
<1>1. /\ Shaped(w) /\ Runs(w) /\ Recorded(w) /\ Lit(w)
      /\ Steers(w) /\ Sails(w) /\ Sliding(w) /\ w.runner.running = w.wanted
  BY DEF Good, Settled, Presented
<1>2. Shaped(r) BY <1>1 DEF Shaped, Kept, Fields
<1>3. /\ r.runner = w.runner /\ r.record = w.record /\ r.source = w.source
      /\ r.status = w.status /\ r.pause = w.pause
      /\ r.chart = w.chart /\ r.jumps = w.jumps /\ r.profile = w.profile
      /\ r.clear_destination = w.clear_destination /\ r.wanted = w.wanted
      /\ r.dashboard = w.dashboard /\ r.steering = w.steering
  BY DEF Kept, Fields
<1>4. Steers(r) BY <1>1, <1>3, SteersKept DEF SameHelm
<1>5. Sails(r) BY <1>1, <1>3, SailsKept
<1>6. Runs(r) /\ Recorded(r) /\ Lit(r) BY <1>1, <1>3 DEF Runs, Recorded, Lit
<1>7. Sliding(r) BY <1>1, <1>3 DEF Sliding, Finite
<1> QED BY <1>1, <1>2, <1>3, <1>4, <1>5, <1>6, <1>7, SlotKeeps

LEMMA SaveKeeps ==
    ASSUME NEW w, NEW r, NEW path, Good(w), r = [w EXCEPT !.path = path, !.title = path]
    PROVE  Good(r)
<1>1. Shaped(w) BY DEF Good, Settled
<1>2. /\ DOMAIN r = Fields /\ r.slider = w.slider
      /\ \A f \in Fields \ {"path", "title", "slider"} : r[f] = w[f]
  BY <1>1 DEF Shaped, Fields
<1> QED BY <1>1, <1>2, AsideKeeps DEF Shaped, Kept

LEMMA HoldSliderKeeps ==
    ASSUME NEW w, NEW r, NEW held, Good(w), r = [w EXCEPT !.slider.down = held]
    PROVE  Good(r)
<1>1. Shaped(w) BY DEF Good, Settled
<1>2. /\ DOMAIN r = Fields /\ SliderShape(r.slider) /\ r.slider.enabled = w.slider.enabled
      /\ \A f \in Fields \ {"path", "title", "slider"} : r[f] = w[f]
  BY <1>1 DEF Shaped, Fields, SliderShape
<1> QED BY <1>2, AsideKeeps DEF Kept

LEMMA RecordingKeeps ==
    ASSUME NEW w, NEW r, NEW a, NEW path, Good(w), r = SetRecorder(a, path),
           Shaped(a), Kept(a, w, {"record"})
    PROVE  Good(r)
<1>1. /\ Shaped(w) /\ Runs(w) /\ Steers(w) /\ Sails(w) /\ Sliding(w)
      /\ w.runner.running = w.wanted
  BY DEF Good, Settled, Presented
<1>2. /\ Shaped(r) /\ Kept(r, a, {"runner", "record", "status"})
      /\ r.runner.profile = a.runner.profile
      /\ r.runner.running = a.runner.running /\ r.runner.paused = a.runner.paused
      /\ Recorded(r) /\ Lit(r)
  BY SetRecorderFacts
<1>3. a.runner = w.runner BY DEF Kept, Fields
<1>4. Kept(r, w, {"runner", "record", "status"}) BY <1>2 DEF Kept
<1>5. /\ r.slider = w.slider /\ r.source = w.source /\ r.pause = w.pause
      /\ r.chart = w.chart /\ r.jumps = w.jumps /\ r.profile = w.profile
      /\ r.clear_destination = w.clear_destination /\ r.wanted = w.wanted
      /\ r.dashboard = w.dashboard /\ r.steering = w.steering
  BY <1>4 DEF Kept, Fields
<1>6. r.runner.profile = w.runner.profile BY <1>2, <1>3
<1>7. Steers(r) BY <1>1, <1>5, <1>6, SteersKept DEF SameHelm
<1>8. Sails(r) BY <1>1, <1>5, <1>6, SailsKept
<1>9. Runs(r) BY <1>1, <1>2, <1>3, <1>5 DEF Runs
<1>10. Sliding(r) BY <1>1, <1>5, <1>6 DEF Sliding, Finite
<1>11. r.runner.running = r.wanted BY <1>1, <1>2, <1>3, <1>5
<1> QED BY <1>2, <1>5, <1>6, <1>7, <1>8, <1>9, <1>10, <1>11, SlotKeeps

LEMMA StartRecordingKeeps ==
    ASSUME NEW w, NEW r, NEW path, Good(w), r = SetRecorder([w EXCEPT !.record = TRUE], path)
    PROVE  Good(r)
<1>1. PICK a : a = [w EXCEPT !.record = TRUE] OBVIOUS
<1>2. Shaped(w) BY DEF Good, Settled
<1>3. /\ DOMAIN a = Fields /\ \A f \in Fields \ {"record"} : a[f] = w[f]
  BY <1>1, <1>2 DEF Shaped, Fields
<1>4. Shaped(a) BY <1>2, <1>3 DEF Shaped, Fields
<1>5. Kept(a, w, {"record"}) BY <1>3 DEF Kept
<1>6. r = SetRecorder(a, path) BY <1>1
<1> QED BY <1>4, <1>5, <1>6, RecordingKeeps

LEMMA StopRecordingKeeps ==
    ASSUME NEW w, NEW r, NEW path, Good(w), r = SetRecorder(w, path)
    PROVE  Good(r)
BY RecordingKeeps DEF Good, Settled, Kept

(* Letting the slider go elsewhere puts the vessel there.                  *)
LEMMA SeekKeeps ==
    ASSUME NEW w, NEW r, NEW value, NEW place \in Spots, Good(w),
           r = Ticked([[w EXCEPT !.slider.down = FALSE] EXCEPT
                          !.slider.value = value, !.chart = BreakTrack(@), !.jumps = @ + 1,
                          !.runner.position = value, !.source.place = place])
    PROVE  Good(r)
<1>1. PICK h : h = [w EXCEPT !.slider.down = FALSE] OBVIOUS
<1>2. Good(h) BY <1>1, HoldSliderKeeps
<1>3. /\ Shaped(h) /\ Runs(h) /\ Recorded(h) /\ Steers(h) /\ Sails(h)
      /\ h.runner.running = h.wanted /\ h.chart.route = h.runner.profile.route
  BY <1>2 DEF Good, Settled, Presented
<1>4. PICK b : b = BreakTrack(h.chart) OBVIOUS
<1>5. /\ ChartShape(b) /\ b.track = h.chart.track /\ b.broken /\ b.route = h.chart.route
  <2>1. ChartShape(h.chart) BY <1>3 DEF Shaped
  <2>2. /\ DOMAIN b = DOMAIN h.chart /\ b.track = h.chart.track /\ b.broken = TRUE
        /\ b.route = h.chart.route /\ b.follow = h.chart.follow
        /\ b.center = h.chart.center /\ b.zoom = h.chart.zoom /\ b.drag = h.chart.drag
    BY <1>4, <2>1 DEF BreakTrack, ChartShape
  <2> QED BY <2>1, <2>2 DEF ChartShape, Located
<1>6. PICK a : a = [h EXCEPT !.slider.value = value, !.chart = b, !.jumps = @ + 1,
                             !.runner.position = value, !.source.place = place]
  OBVIOUS
<1>7. r = Ticked(a) BY <1>1, <1>4, <1>6
<1>8. /\ DOMAIN a = Fields /\ a.chart = b /\ a.jumps = h.jumps + 1
      /\ \A f \in Fields \ {"slider", "chart", "jumps", "runner", "source"} : a[f] = h[f]
  BY <1>3, <1>6 DEF Shaped, Fields
<1>9. /\ RunnerShape(a.runner) /\ SameRun(a, h)
      /\ a.runner.running = h.runner.running /\ a.runner.paused = h.runner.paused
  BY <1>3, <1>6 DEF Shaped, Fields, RunnerShape, SameRun
<1>10. SourceShape(a.source) /\ SameHelm(a, h)
  BY <1>3, <1>6 DEF Shaped, Fields, SourceShape, SameHelm
<1>11. SliderShape(a.slider) BY <1>3, <1>6 DEF Shaped, Fields, SliderShape
<1>12. Shaped(a) BY <1>3, <1>5, <1>8, <1>9, <1>10, <1>11 DEF Shaped, Fields
<1>13. TrackReady(a) BY <1>3, <1>5, <1>8 DEF Sails, TrackReady
<1>14. /\ a.pause = h.pause /\ a.record = h.record /\ a.wanted = h.wanted
       /\ a.dashboard = h.dashboard /\ a.steering = h.steering /\ a.profile = h.profile
  BY <1>8 DEF Fields
<1>15. Runs(a) /\ Recorded(a)
  BY <1>3, <1>9, <1>14 DEF Runs, Recorded, SameRun
<1>16. /\ Shaped(r) /\ Kept(r, a, {"chart", "clear_destination", "slider", "status"})
       /\ Sails(r) /\ r.chart.route = a.chart.route /\ Sliding(r) /\ Lit(r)
  BY <1>7, <1>12, <1>13, <1>15, TickedFacts
<1>17. /\ r.runner = a.runner /\ r.source = a.source /\ r.pause = a.pause
       /\ r.record = a.record /\ r.wanted = a.wanted /\ r.dashboard = a.dashboard
       /\ r.steering = a.steering /\ r.profile = a.profile
  BY <1>16 DEF Kept, Fields
<1>18. Runs(r) /\ Recorded(r) BY <1>15, <1>17 DEF Runs, Recorded
<1>19. Steers(r) BY <1>3, <1>9, <1>10, <1>14, <1>17, SteersKept DEF SameRun, SameHelm
<1>20. /\ r.runner.profile = h.runner.profile /\ r.runner.running = r.wanted
       /\ r.chart.route = h.chart.route /\ r.profile.name = h.profile.name
  <2>1. r.runner.profile = h.runner.profile BY <1>9, <1>17 DEF SameRun
  <2>2. r.runner.running = r.wanted BY <1>3, <1>9, <1>14, <1>17
  <2>3. r.chart.route = h.chart.route BY <1>5, <1>8, <1>16
  <2>4. r.profile.name = h.profile.name BY <1>14, <1>17
  <2> QED BY <2>1, <2>2, <2>3, <2>4
<1> QED BY <1>2, <1>16, <1>18, <1>19, <1>20, SlotKeeps

(* The override boxes, and the arrow keys.                                 *)
Overridden(w, p, active, value) ==
    LET change(set) == IF active THEN set \cup {p} ELSE set \ {p}
    IN  [w EXCEPT !.dashboard.ticked = change(@), !.source.pinned = change(@),
                  !.source.rudder = IF p = "RudderAngle" /\ active THEN value ELSE @]

LEMMA OverrideKeeps ==
    ASSUME NEW w, NEW r, NEW p \in Steerable, NEW active \in BOOLEAN, NEW value,
           Good(w), p \in w.dashboard.enabled, r = Overridden(w, p, active, value)
    PROVE  Good(r)
<1>01. PICK ticked, pinned :
         /\ ticked = IF active THEN w.dashboard.ticked \cup {p} ELSE w.dashboard.ticked \ {p}
         /\ pinned = IF active THEN w.source.pinned \cup {p} ELSE w.source.pinned \ {p}
  OBVIOUS
<1>02. PICK d, s, rudder :
         /\ d = [w.dashboard EXCEPT !.ticked = ticked]
         /\ rudder = IF p = "RudderAngle" /\ active THEN value ELSE w.source.rudder
         /\ s = [[w.source EXCEPT !.pinned = pinned] EXCEPT !.rudder = rudder]
  OBVIOUS
<1>03. r = [[w EXCEPT !.dashboard = d, !.source = [w.source EXCEPT !.pinned = pinned]]
              EXCEPT !.source.rudder = rudder]
  BY <1>01, <1>02 DEF Overridden
<1>1. /\ Shaped(w) /\ Runs(w) /\ Recorded(w) /\ Lit(w)
      /\ Steers(w) /\ Sails(w) /\ Sliding(w) /\ w.runner.running = w.wanted
      /\ w.chart.route = w.runner.profile.route
  BY DEF Good, Settled, Presented
<1>2. w.dashboard.ticked \in SUBSET Steerable /\ w.source.pinned \in SUBSET Steerable
  BY <1>1 DEF Shaped, DashboardShape, SourceShape
<1>3. ticked \in SUBSET Steerable /\ pinned \in SUBSET Steerable BY <1>01, <1>2
<1>4. /\ DOMAIN r = Fields /\ \A f \in Fields \ {"dashboard", "source"} : r[f] = w[f]
  BY <1>03, <1>1 DEF Shaped, Fields
<1>40. r.dashboard = d /\ r.source = s BY <1>02, <1>03, <1>1 DEF Shaped, Fields
<1>5. /\ DashboardShape(r.dashboard) /\ r.dashboard.ticked = ticked
      /\ r.dashboard.overrides = w.dashboard.overrides
      /\ r.dashboard.steering = w.dashboard.steering
      /\ r.dashboard.enabled = w.dashboard.enabled
  BY <1>02, <1>1, <1>3, <1>40 DEF Shaped, DashboardShape
<1>6. /\ SourceShape(r.source) /\ r.source.pinned = pinned
      /\ r.source.place = w.source.place /\ r.source.destination = w.source.destination
      /\ p # "RudderAngle" => r.source.rudder = w.source.rudder
  BY <1>02, <1>1, <1>3, <1>40 DEF Shaped, SourceShape
<1>7. Shaped(r) BY <1>1, <1>4, <1>5, <1>6 DEF Shaped, Fields
<1>8. /\ r.runner = w.runner /\ r.record = w.record /\ r.slider = w.slider
      /\ r.status = w.status /\ r.pause = w.pause
      /\ r.chart = w.chart /\ r.jumps = w.jumps /\ r.profile = w.profile
      /\ r.clear_destination = w.clear_destination /\ r.wanted = w.wanted
      /\ r.steering = w.steering
  BY <1>4 DEF Fields
<1>9. (HasDelta(r) <=> HasDelta(w)) /\ HasDelta(r) = HasDelta(w) BY <1>8 DEF HasDelta
<1>10. HasDelta(w) /\ (p = "RudderAngle" => w.steering.checked)
  BY <1>1 DEF Steers, Offered
<1>11. ticked = pinned
  <2>1. w.dashboard.ticked = w.source.pinned BY <1>1, <1>10 DEF Steers
  <2> QED BY <1>01, <2>1
<1>12. Offered(r) = Offered(w) BY <1>8, <1>9 DEF Offered
<1>13. r.source.rudder # 0 => r.steering.checked
  <2>1. CASE p = "RudderAngle" BY <1>8, <1>10, <2>1
  <2>2. CASE p # "RudderAngle" BY <1>1, <1>6, <1>8, <2>2 DEF Steers
  <2> QED BY <2>1, <2>2
<1>14. Steers(r)
  <2>1. /\ r.dashboard.overrides = HasDelta(r) /\ r.dashboard.steering = r.steering.checked
        /\ r.steering.enabled = HasDelta(r) /\ (r.steering.checked => HasDelta(r))
    BY <1>1, <1>5, <1>8, <1>9 DEF Steers
  <2>2. r.dashboard.enabled = Offered(r) BY <1>1, <1>5, <1>12 DEF Steers
  <2>3. r.dashboard.ticked = r.source.pinned BY <1>5, <1>6, <1>11
  <2> QED BY <1>13, <2>1, <2>2, <2>3 DEF Steers
<1>15. Sails(r) BY <1>1, <1>6, <1>8, SailsKept
<1>16. Runs(r) /\ Recorded(r) /\ Lit(r) BY <1>1, <1>8 DEF Runs, Recorded, Lit
<1>17. Sliding(r) BY <1>1, <1>8 DEF Sliding, Finite
<1>18. /\ r.chart.route = w.chart.route /\ r.runner.profile = w.runner.profile
       /\ r.profile.name = w.profile.name /\ r.runner.running = r.wanted
  BY <1>1, <1>8
<1> QED BY <1>7, <1>14, <1>15, <1>16, <1>17, <1>18, SlotKeeps

(* The functions that end with RefreshView: with the source and the track  *)
(* as they have to be, the rest follows.                                   *)
LEMMA RefreshedKeeps ==
    ASSUME NEW w, NEW a, NEW r, Good(w), Shaped(a), TrackReady(a), Steers(a),
           a.chart.route = w.chart.route, a.profile.name = w.profile.name,
           a.runner = w.runner, a.pause = w.pause, a.record = w.record,
           a.status = w.status, a.slider = w.slider, a.wanted = w.wanted,
           r = RefreshView(a)
    PROVE  Good(r)
<1>1. /\ Runs(w) /\ Recorded(w) /\ Lit(w) /\ Sliding(w) /\ w.runner.running = w.wanted
  BY DEF Good, Settled, Presented
<1>2. /\ Shaped(r) /\ Kept(r, a, {"chart", "clear_destination"})
      /\ Sails(r) /\ r.chart.route = a.chart.route
  BY RefreshViewFacts
<1>3. /\ r.runner = a.runner /\ r.record = a.record /\ r.slider = a.slider
      /\ r.status = a.status /\ r.pause = a.pause /\ r.profile = a.profile
      /\ r.wanted = a.wanted /\ r.source = a.source /\ r.dashboard = a.dashboard
      /\ r.steering = a.steering
  BY <1>2 DEF Kept, Fields
<1>4. Steers(r) BY <1>3, SteersKept DEF SameHelm
<1>5. r.runner = w.runner /\ r.pause = w.pause /\ r.record = w.record
      /\ r.status = w.status /\ r.slider = w.slider /\ r.wanted = w.wanted
  BY <1>3
<1>6. Runs(r) /\ Recorded(r) /\ Lit(r) BY <1>1, <1>5 DEF Runs, Recorded, Lit
<1>7. Sliding(r) BY <1>1, <1>5 DEF Sliding, Finite
<1> QED BY <1>1, <1>2, <1>3, <1>4, <1>5, <1>6, <1>7, SlotKeeps

LEMMA NudgedKeeps ==
    ASSUME NEW w, NEW r, NEW p \in Steerable, NEW by, Good(w), HasDelta(w),
           p = "RudderAngle" => w.steering.checked,
           r = RefreshView(SyncOverrides(
                   [w EXCEPT !.source.pinned = @ \cup {p},
                             !.source.rudder = IF p = "RudderAngle"
                                               THEN Between(@ + by, -1, 1) ELSE @]))
    PROVE  Good(r)
<1>1. Shaped(w) /\ Steers(w) /\ Sails(w) BY DEF Good, Settled, Presented
<1>2. PICK rudder :
        rudder = IF p = "RudderAngle" THEN Between(w.source.rudder + by, -1, 1) ELSE w.source.rudder
  OBVIOUS
<1>3. PICK pinned : pinned = w.source.pinned \cup {p} OBVIOUS
<1>4. PICK s : s = [w.source EXCEPT !.pinned = pinned, !.rudder = rudder] OBVIOUS
<1>5. PICK h : h = [w EXCEPT !.source.pinned = @ \cup {p},
                             !.source.rudder = IF p = "RudderAngle"
                                               THEN Between(@ + by, -1, 1) ELSE @]
  OBVIOUS
<1>6. h = [[w EXCEPT !.source = [w.source EXCEPT !.pinned = pinned]]
             EXCEPT !.source.rudder = rudder]
  BY <1>2, <1>3, <1>5
<1>7. /\ DOMAIN h = Fields /\ h.source = s /\ \A f \in Fields \ {"source"} : h[f] = w[f]
  BY <1>1, <1>4, <1>6 DEF Shaped, Fields
<1>8. /\ SourceShape(s) /\ s.pinned = pinned /\ s.rudder = rudder
      /\ s.place = w.source.place /\ pinned \in SUBSET Steerable
  BY <1>1, <1>3, <1>4 DEF Shaped, SourceShape
<1>9. PICK a : a = [h EXCEPT !.dashboard.ticked = h.source.pinned] OBVIOUS
<1>10. DashboardShape(h.dashboard) /\ h.dashboard = w.dashboard
  BY <1>1, <1>7 DEF Shaped, Fields
<1>11. /\ DOMAIN a = Fields /\ \A f \in Fields \ {"dashboard"} : a[f] = h[f]
       /\ DashboardShape(a.dashboard) /\ a.dashboard.ticked = pinned
       /\ a.dashboard.overrides = w.dashboard.overrides
       /\ a.dashboard.steering = w.dashboard.steering
       /\ a.dashboard.enabled = w.dashboard.enabled
  BY <1>7, <1>8, <1>9, <1>10 DEF Fields, DashboardShape
<1>12. Shaped(a) BY <1>1, <1>7, <1>8, <1>11 DEF Shaped, Fields
<1>13. /\ a.runner = w.runner /\ a.record = w.record /\ a.slider = w.slider
       /\ a.status = w.status /\ a.pause = w.pause
       /\ a.chart = w.chart /\ a.jumps = w.jumps /\ a.profile = w.profile
       /\ a.wanted = w.wanted /\ a.steering = w.steering /\ a.source = s
  BY <1>7, <1>11 DEF Fields
<1>14. (HasDelta(a) <=> HasDelta(w)) /\ HasDelta(a) = HasDelta(w) BY <1>13 DEF HasDelta
<1>15. Offered(a) = Offered(w) BY <1>13, <1>14 DEF Offered
<1>16. a.source.rudder # 0 => a.steering.checked
  <2>1. CASE p = "RudderAngle" BY <1>13, <2>1
  <2>2. CASE p # "RudderAngle"
    <3>1. rudder = w.source.rudder BY <1>2, <2>2
    <3> QED BY <1>1, <1>8, <1>13, <3>1 DEF Steers
  <2> QED BY <2>1, <2>2
<1>17. Steers(a)
  <2>1. /\ a.dashboard.overrides = HasDelta(a) /\ a.dashboard.steering = a.steering.checked
        /\ a.steering.enabled = HasDelta(a) /\ (a.steering.checked => HasDelta(a))
    BY <1>1, <1>11, <1>13, <1>14 DEF Steers
  <2>2. a.dashboard.enabled = Offered(a) BY <1>1, <1>11, <1>15 DEF Steers
  <2>3. a.dashboard.ticked = a.source.pinned BY <1>8, <1>11, <1>13
  <2> QED BY <1>16, <2>1, <2>2, <2>3 DEF Steers
<1>18. TrackReady(a) BY <1>1, <1>13 DEF Sails, TrackReady
<1>19. r = RefreshView(a) BY <1>5, <1>9 DEF SyncOverrides
<1> QED BY <1>12, <1>13, <1>17, <1>18, <1>19, RefreshedKeeps

LEMMA SteerForKeeps ==
    ASSUME NEW w, NEW r, NEW destination, NEW origin, Good(w),
           r = RefreshView([w EXCEPT !.profile.destination = destination,
                                     !.profile.origin = origin,
                                     !.source.destination = destination,
                                     !.source.origin = origin])
    PROVE  Good(r)
<1>1. Shaped(w) /\ Steers(w) /\ Sails(w) BY DEF Good, Settled, Presented
<1>2. PICK a : a = [w EXCEPT !.profile.destination = destination,
                             !.profile.origin = origin,
                             !.source.destination = destination,
                             !.source.origin = origin]
  OBVIOUS
<1>3. /\ DOMAIN a = Fields /\ \A f \in Fields \ {"profile", "source"} : a[f] = w[f]
  BY <1>1, <1>2 DEF Shaped, Fields
<1>4. /\ SourceShape(a.source) /\ SameHelm(a, w)
  BY <1>1, <1>2 DEF Shaped, Fields, SourceShape, SameHelm
<1>5. Sound(a.profile) /\ a.profile.name = w.profile.name
  BY <1>1, <1>2 DEF Shaped, Fields, Sound, IsProfile
<1>6. Shaped(a) BY <1>1, <1>3, <1>4, <1>5 DEF Shaped, Fields
<1>7. /\ a.runner = w.runner /\ a.record = w.record /\ a.slider = w.slider
      /\ a.status = w.status /\ a.pause = w.pause
      /\ a.chart = w.chart /\ a.jumps = w.jumps
      /\ a.wanted = w.wanted /\ a.steering = w.steering /\ a.dashboard = w.dashboard
  BY <1>3 DEF Fields
<1>8. Steers(a) BY <1>1, <1>4, <1>7, SteersKept
<1>9. TrackReady(a) BY <1>1, <1>7 DEF Sails, TrackReady
<1>10. r = RefreshView(a) BY <1>2
<1> QED BY <1>5, <1>6, <1>7, <1>8, <1>9, <1>10, RefreshedKeeps

(* MoveVessel, with a delta source and without one.                        *)
LEMMA RecentredKeeps ==
    ASSUME NEW w, NEW r, NEW p \in Spots, Good(w), HasDelta(w) => p = w.source.place,
           r = [w EXCEPT !.chart = MapSetCenter(@, p)]
    PROVE  Good(r)
<1>1. PICK c : c = MapSetCenter(w.chart, p) OBVIOUS
<1>2. ChartShape(w.chart) BY DEF Good, Settled, Shaped
<1>3. /\ DOMAIN c = DOMAIN w.chart /\ c.center = OnMap(p) /\ c.vessel = w.chart.vessel
      /\ c.track = w.chart.track /\ c.broken = w.chart.broken /\ c.route = w.chart.route
      /\ c.destination = w.chart.destination /\ c.follow = w.chart.follow
      /\ c.zoom = w.chart.zoom /\ c.drag = w.chart.drag
  BY <1>1, <1>2 DEF MapSetCenter, ChartShape
<1>4. ChartShape(c)
  <2>1. OnWorld(OnMap(p)) BY DEF Spots
  <2> QED BY <1>2, <1>3, <2>1 DEF ChartShape, Located
<1>5. r = [w EXCEPT !.chart = c] BY <1>1
<1> QED BY <1>3, <1>4, <1>5, LookKeeps

ProfileMoved(w, p) ==
    [w.profile EXCEPT !.place = p,
                      !.origin = IF w.profile.destination = {} THEN @ ELSE {p}]
VesselEdited(w, p) == [w EXCEPT !.profile = ProfileMoved(w, p), !.chart = BreakTrack(@)]
VesselJumped(w, p, edited) ==
    [edited EXCEPT !.source.place = p, !.jumps = @ + 1,
                   !.source.origin = IF w.source.destination = {} THEN @ ELSE {p}]
VesselMoved(w, p) ==
    LET edited == VesselEdited(w, p)
        moved == RefreshView(VesselJumped(w, p, edited))
        seen == IF HasDelta(w) THEN moved ELSE edited
    IN  [seen EXCEPT !.chart = MapSetCenter(@, p)]

LEMMA MoveVesselKeeps ==
    ASSUME NEW w, NEW p \in Spots, NEW r, Good(w), r = VesselMoved(w, p)
    PROVE  Good(r)
<1>01. PICK origin : origin = IF w.profile.destination = {} THEN w.profile.origin ELSE {p}
  OBVIOUS
<1>02. PICK edited :
         edited = [w EXCEPT !.profile = [w.profile EXCEPT !.place = p, !.origin = origin],
                            !.chart = BreakTrack(@)]
  OBVIOUS
<1>03. PICK from : from = IF w.source.destination = {} THEN edited.source.origin ELSE {p}
  OBVIOUS
<1>04. PICK moved :
         moved = RefreshView([edited EXCEPT !.source.place = p, !.jumps = @ + 1,
                                            !.source.origin = from])
  OBVIOUS
<1>05. r = [(IF HasDelta(w) THEN moved ELSE edited) EXCEPT !.chart = MapSetCenter(@, p)]
  <2>1. ProfileMoved(w, p) = [w.profile EXCEPT !.place = p, !.origin = origin]
    BY <1>01 DEF ProfileMoved
  <2>2. VesselEdited(w, p) = edited BY <1>02, <2>1 DEF VesselEdited
  <2>3. VesselJumped(w, p, edited)
          = [edited EXCEPT !.source.place = p, !.jumps = @ + 1, !.source.origin = from]
    BY <1>03 DEF VesselJumped
  <2>4. moved = RefreshView(VesselJumped(w, p, edited)) BY <1>04, <2>3
  <2> QED BY <2>2, <2>4 DEF VesselMoved
<1>1. /\ Shaped(w) /\ Runs(w) /\ Recorded(w) /\ Lit(w)
      /\ Steers(w) /\ Sails(w) /\ Sliding(w) /\ w.runner.running = w.wanted
  BY DEF Good, Settled, Presented
<1>2. PICK b : b = BreakTrack(w.chart) OBVIOUS
<1>3. /\ ChartShape(b) /\ b.track = w.chart.track /\ b.broken /\ b.route = w.chart.route
      /\ b.vessel = w.chart.vessel /\ b.destination = w.chart.destination
  <2>1. ChartShape(w.chart) BY <1>1 DEF Shaped
  <2>2. /\ DOMAIN b = DOMAIN w.chart /\ b.track = w.chart.track /\ b.broken = TRUE
        /\ b.route = w.chart.route /\ b.follow = w.chart.follow
        /\ b.vessel = w.chart.vessel /\ b.destination = w.chart.destination
        /\ b.center = w.chart.center /\ b.zoom = w.chart.zoom /\ b.drag = w.chart.drag
    BY <1>2, <2>1 DEF BreakTrack, ChartShape
  <2> QED BY <2>1, <2>2 DEF ChartShape, Located
<1>4. PICK profile : profile = [w.profile EXCEPT !.place = p, !.origin = origin] OBVIOUS
<1>5. Sound(profile) /\ profile.name = w.profile.name
  <2>1. IsPoint(p) BY DEF Spots
  <2> QED BY <1>1, <1>4, <2>1 DEF Shaped, Sound, IsProfile
<1>6. edited = [w EXCEPT !.profile = profile, !.chart = b] BY <1>02, <1>2, <1>4
<1>7. /\ DOMAIN edited = Fields /\ edited.profile = profile /\ edited.chart = b
      /\ \A f \in Fields \ {"profile", "chart"} : edited[f] = w[f]
  BY <1>1, <1>6 DEF Shaped, Fields
<1>8. Shaped(edited) BY <1>1, <1>3, <1>5, <1>7 DEF Shaped, Fields
<1>9. /\ edited.runner = w.runner /\ edited.record = w.record /\ edited.slider = w.slider
      /\ edited.status = w.status /\ edited.pause = w.pause /\ edited.source = w.source
      /\ edited.jumps = w.jumps /\ edited.wanted = w.wanted
      /\ edited.steering = w.steering /\ edited.dashboard = w.dashboard
      /\ edited.clear_destination = w.clear_destination
  BY <1>7 DEF Fields
<1>10. Steers(edited) BY <1>1, <1>9, SteersKept DEF SameHelm
<1>11. TrackReady(edited) BY <1>1, <1>3, <1>7 DEF Sails, TrackReady
<1>12. (HasDelta(edited) <=> HasDelta(w)) BY <1>9 DEF HasDelta
<1>13. CASE ~HasDelta(w)
  <2>1. Centred(edited) BY <1>12, <1>13 DEF Centred
  <2>2. Sails(edited) BY <1>1, <1>3, <1>7, <1>9, <1>11, <2>1 DEF Sails
  <2>3. Runs(edited) /\ Recorded(edited) /\ Lit(edited)
    BY <1>1, <1>9 DEF Runs, Recorded, Lit
  <2>4. Sliding(edited) BY <1>1, <1>9 DEF Sliding, Finite
  <2>5. /\ edited.chart.route = w.chart.route /\ edited.runner.profile = w.runner.profile
        /\ edited.profile.name = w.profile.name /\ edited.runner.running = edited.wanted
    BY <1>1, <1>3, <1>5, <1>7, <1>9
  <2>6. Good(edited) BY <1>8, <1>10, <2>2, <2>3, <2>4, <2>5, SlotKeeps
  <2>7. r = [edited EXCEPT !.chart = MapSetCenter(@, p)] BY <1>05, <1>13
  <2>8. HasDelta(edited) => p = edited.source.place BY <1>12, <1>13
  <2>9. PICK e : e = edited OBVIOUS
  <2>10. /\ Good(e) /\ (HasDelta(e) => p = e.source.place)
         /\ r = [e EXCEPT !.chart = MapSetCenter(@, p)]
    BY <2>6, <2>7, <2>8, <2>9
  <2> QED BY <2>10, RecentredKeeps
<1>14. CASE HasDelta(w)
  <2>1. PICK a : a = [edited EXCEPT !.source.place = p, !.jumps = @ + 1,
                                    !.source.origin = from]
    OBVIOUS
  <2>2. /\ DOMAIN a = Fields /\ a.jumps = edited.jumps + 1
        /\ \A f \in Fields \ {"jumps", "source"} : a[f] = edited[f]
    BY <1>8, <2>1 DEF Shaped, Fields
  <2>3. SourceShape(a.source) /\ SameHelm(a, edited) /\ a.source.place = p
    BY <1>8, <2>1 DEF Shaped, Fields, SourceShape, SameHelm
  <2>4. Shaped(a)
    <3>1. edited.jumps \in Nat BY <1>8 DEF Shaped
    <3>2. a.jumps \in Nat BY <2>2, <3>1
    <3> QED BY <1>8, <2>2, <2>3, <3>2 DEF Shaped, Fields
  <2>5. /\ a.runner = w.runner /\ a.record = w.record /\ a.slider = w.slider
        /\ a.status = w.status /\ a.pause = w.pause /\ a.wanted = w.wanted
        /\ a.steering = edited.steering /\ a.dashboard = edited.dashboard
        /\ a.chart = b /\ a.profile = profile /\ a.runner = edited.runner
    BY <1>7, <1>9, <2>2 DEF Fields
  <2>6. Steers(a) BY <1>10, <2>3, <2>5, SteersKept
  <2>7. TrackReady(a) BY <1>3, <1>7, <1>11, <2>5 DEF TrackReady
  <2>8. moved = RefreshView(a) BY <1>04, <2>1
  <2>9. Good(moved) BY <1>3, <1>5, <2>4, <2>5, <2>6, <2>7, <2>8, RefreshedKeeps
  <2>10. moved.source.place = p
    <3>1. Kept(moved, a, {"chart", "clear_destination"})
      BY <2>4, <2>7, <2>8, RefreshViewFacts
    <3> QED BY <2>3, <3>1 DEF Kept, Fields
  <2>11. r = [moved EXCEPT !.chart = MapSetCenter(@, p)] BY <1>05, <1>14
  <2> QED BY <2>9, <2>10, <2>11, RecentredKeeps
<1> QED BY <1>13, <1>14
-----------------------------------------------------------------------------
(* The window, once open, is Good, and the files hold profiles.            *)
FilesSound == \A f \in DOMAIN profileFiles : Sound(profileFiles[f])

SettingsShape ==
    DOMAIN settings = {"last", "autostart", "online", "zoom"} /\ settings.zoom \in Int

WindowInv ==
    /\ FilesSound
    /\ SettingsShape
    /\ Located(window.chart)
    /\ window.open => Good(window) /\ settings.zoom = window.chart.zoom

LEMMA WindowStarts == ASSUME WindowAssumption, WindowInit PROVE WindowInv
<1>1. FilesSound
  <2>1. profileFiles = StoredProfiles BY DEF WindowInit
  <2>2. \A f \in DOMAIN StoredProfiles : Sound(StoredProfiles[f])
    BY SoundProfiles
  <2> QED BY <2>1, <2>2 DEF FilesSound
<1>2. SettingsShape BY DEF WindowInit, SettingsShape, WindowAssumption
<1>3. window.open = FALSE /\ Located(window.chart)
  <2>1. PICK w : w = Constructed(MinZoom) OBVIOUS
  <2>2. DOMAIN w = Fields /\ Located(w.chart)
    <3>1. MinZoom \in Int BY DEF WindowAssumption, MapAssumption
    <3>2. Shaped(w) BY <2>1, <3>1, ConstructedFacts
    <3> QED BY <3>2 DEF Shaped, ChartShape
  <2>3. window = [w EXCEPT !.open = FALSE] BY <2>1 DEF WindowInit
  <2> QED BY <2>2, <2>3 DEF Fields
<1> QED BY <1>1, <1>2, <1>3 DEF WindowInv

LEMMA BecomesFacts ==
    ASSUME SettingsShape, NEW w, Good(w), Becomes(w)
    PROVE  /\ SettingsShape' /\ Good(window)' /\ (settings.zoom = window.chart.zoom)'
           /\ Located(window.chart)'
<1>1. PICK last : last = IF w.path = "" THEN settings.last ELSE w.path OBVIOUS
<1>2. settings' = [settings EXCEPT !.last = last, !.zoom = w.chart.zoom]
  BY <1>1 DEF Becomes
<1>3. DOMAIN settings' = DOMAIN settings /\ settings'.zoom = w.chart.zoom
  BY <1>2 DEF SettingsShape
<1>4. window' = w BY DEF Becomes
<1>5. Located(w.chart) BY DEF Good, Settled, Shaped, ChartShape
<1>6. w.chart.zoom \in Int BY <1>5 DEF Located
<1> QED BY <1>3, <1>4, <1>5, <1>6 DEF SettingsShape

LEMMA SlotStep ==
    ASSUME WindowInv, NEW w, Slot(w), window.open => Good(w)
    PROVE  WindowInv'
<1>1. Becomes(w) /\ profileFiles' = profileFiles /\ Good(w) BY DEF Slot, Event
<1>2. /\ SettingsShape' /\ Good(window)' /\ (settings.zoom = window.chart.zoom)'
      /\ Located(window.chart)'
  BY <1>1, BecomesFacts DEF WindowInv
<1>3. FilesSound' BY <1>1 DEF WindowInv, FilesSound
<1> QED BY <1>2, <1>3 DEF WindowInv

LEMMA LaunchStep ==
    ASSUME WindowAssumption, WindowInv, NEW path, Launch(path) PROVE WindowInv'
<1>1. PICK c : c = Constructed(settings.zoom) OBVIOUS
<1>2. /\ Shaped(c) /\ Runs(c) /\ Recorded(c)
      /\ c.dashboard.steering = c.steering.checked
      /\ c.runner.running = c.wanted
  BY <1>1, ConstructedFacts DEF WindowInv, SettingsShape
<1>3. Sound(StartProfile) /\ StartProfile.opens = "ok"
  BY SoundProfiles DEF WindowAssumption
<1>4. PICK b : b = SetProfile(c, StartProfile, "") OBVIOUS
<1>5. Settled(b) /\ SameAsk(b, c) BY <1>2, <1>3, <1>4, SetProfileFacts
<1>6. PICK u : u = UpdateActions(b) OBVIOUS
<1>7. Good(u)
  <2>1. /\ Shaped(b) /\ Runs(b) /\ Recorded(b) /\ Steers(b) /\ Sails(b)
        /\ b.chart.route = b.runner.profile.route /\ b.runner.profile.name = b.profile.name
    BY <1>5 DEF Settled, Presented
  <2>2. /\ Shaped(u) /\ Kept(u, b, {"pause", "slider", "status"})
        /\ Sliding(u) /\ Lit(u)
        /\ u.pause.enabled = b.runner.running
        /\ u.pause.checked = (b.pause.checked /\ b.runner.running)
    BY <1>6, <2>1, UpdateActionsFacts
  <2>3. /\ u.runner = b.runner /\ u.record = b.record /\ u.source = b.source
        /\ u.chart = b.chart /\ u.jumps = b.jumps /\ u.wanted = b.wanted
        /\ u.clear_destination = b.clear_destination /\ u.dashboard = b.dashboard
        /\ u.steering = b.steering /\ u.profile = b.profile
    BY <2>2 DEF Kept, Fields
  <2>4. Steers(u) BY <2>1, <2>3, SteersKept DEF SameHelm
  <2>5. Sails(u) BY <2>1, <2>3, SailsKept
  <2>6. Recorded(u) BY <2>1, <2>3 DEF Recorded
  <2>7. Runs(u)
    <3>1. b.pause.checked \in BOOLEAN /\ b.runner.running \in BOOLEAN
          /\ b.runner.paused \in BOOLEAN
      BY <2>1 DEF Shaped, ActionShape, RunnerShape
    <3>2. (b.pause.checked /\ b.runner.running) = b.runner.paused BY <2>1, <3>1 DEF Runs
    <3> QED BY <2>1, <2>2, <2>3, <3>2 DEF Runs
  <2>8. u.runner.running = u.wanted BY <1>2, <1>5, <2>3 DEF SameAsk
  <2>9. Presented(u) BY <2>1, <2>2, <2>3, <2>4, <2>5 DEF Presented
  <2> QED BY <2>2, <2>6, <2>7, <2>8, <2>9 DEF Good, Settled
<1>8. PICK o : o = OpenInitialProfile(u, path) OBVIOUS
<1>9. Good(o)
  <2>1. \A f \in DOMAIN profileFiles : Sound(profileFiles[f]) BY DEF WindowInv, FilesSound
  <2>2. Settled(u) /\ Lit(u) /\ u.runner.running = u.wanted BY <1>7 DEF Good
  <2>3. Settled(o) /\ Lit(o) /\ SameAsk(o, u) BY <1>8, <2>1, <2>2, OpenInitialProfileFacts
  <2> QED BY <2>2, <2>3 DEF Good, SameAsk
<1>10. PICK s : s = [StartRun(o) EXCEPT !.wanted = TRUE] OBVIOUS
<1>11. Good(s)
  <2>1. /\ Shaped(o) /\ Runs(o) /\ Recorded(o) /\ Lit(o)
        /\ Steers(o) /\ Sails(o) /\ Sliding(o)
    BY <1>9 DEF Good, Settled, Presented
  <2>2. PICK t : t = StartRun(o) OBVIOUS
  <2>3. /\ Shaped(t) /\ Kept(t, o, RunnerFields \cup {"source", "dashboard"})
        /\ SameRun(t, o) /\ SameHelm(t, o)
        /\ t.source.place = o.source.place /\ t.source.destination = o.source.destination
        /\ t.runner.running /\ Runs(t) /\ Recorded(t) /\ Steers(t)
        /\ Sliding(t) /\ Lit(t)
    BY <2>1, <2>2, StartRunFacts
  <2>4. s = [t EXCEPT !.wanted = TRUE] BY <1>10, <2>2
  <2>5. DOMAIN s = Fields /\ \A f \in Fields \ {"wanted"} : s[f] = t[f]
    BY <2>3, <2>4 DEF Shaped, Fields
  <2>6. s.wanted = TRUE BY <2>3, <2>4 DEF Shaped, Fields
  <2>7. Shaped(s)
    <3>1. s.wanted \in BOOLEAN BY <2>6
    <3> QED BY <2>3, <2>5, <3>1 DEF Shaped, Fields
  <2>8. /\ s.runner = t.runner /\ s.record = t.record /\ s.slider = t.slider
        /\ s.status = t.status /\ s.pause = t.pause /\ s.source = t.source
        /\ s.dashboard = t.dashboard /\ s.steering = t.steering
        /\ s.chart = o.chart /\ s.jumps = o.jumps /\ s.profile = o.profile
        /\ s.clear_destination = o.clear_destination
    BY <2>3, <2>5 DEF Kept, Fields, RunnerFields
  <2>9. Runs(s) /\ Recorded(s) /\ Lit(s) BY <2>3, <2>8 DEF Runs, Recorded, Lit
  <2>10. Sliding(s) BY <2>3, <2>8 DEF Sliding, Finite
  <2>11. Steers(s) BY <2>3, <2>8, SteersKept DEF SameHelm
  <2>12. /\ s.runner.profile = o.runner.profile /\ s.source.place = o.source.place
         /\ s.source.destination = o.source.destination
    BY <2>3, <2>8 DEF SameRun
  <2>13. Sails(s) BY <2>1, <2>8, <2>12, SailsKept
  <2>14. s.runner.running = s.wanted
    <3>1. s.runner.running \in BOOLEAN BY <2>7 DEF Shaped, RunnerShape
    <3>2. s.runner.running = TRUE BY <2>3, <2>8, <3>1
    <3> QED BY <2>6, <3>2
  <2>15. s.chart.route = o.chart.route /\ s.profile.name = o.profile.name BY <2>8
  <2> QED BY <1>9, <2>7, <2>9, <2>10, <2>11, <2>12, <2>13, <2>14, <2>15, SlotKeeps
<1>12. PICK w : w = IF settings.autostart THEN s ELSE o OBVIOUS
<1>13. Good(w) BY <1>9, <1>11, <1>12
<1>14. Becomes(w) /\ profileFiles' = profileFiles
  BY <1>1, <1>4, <1>6, <1>8, <1>10, <1>12 DEF Launch
<1>15. /\ SettingsShape' /\ Good(window)' /\ (settings.zoom = window.chart.zoom)'
       /\ Located(window.chart)'
  BY <1>13, <1>14, BecomesFacts DEF WindowInv
<1>16. FilesSound' BY <1>14 DEF WindowInv, FilesSound
<1> QED BY <1>15, <1>16 DEF WindowInv

LEMMA CloseStep == ASSUME WindowInv, CloseWindow PROVE WindowInv'
<1>1. /\ Shaped(window) /\ Runs(window) /\ Recorded(window)
  BY DEF WindowInv, CloseWindow, Good, Settled
<1>2. PICK s : s = RunnerStop(window) OBVIOUS
<1>3. DOMAIN s = Fields /\ Located(s.chart)
  <2>1. Shaped(s) BY <1>1, <1>2, RunnerStopFacts
  <2> QED BY <2>1 DEF Shaped, ChartShape
<1>4. window' = [s EXCEPT !.open = FALSE, !.wanted = FALSE] BY <1>2 DEF CloseWindow
<1>5. window'.open = FALSE /\ window'.chart = s.chart BY <1>3, <1>4 DEF Fields
<1>6. settings' = settings /\ profileFiles' = profileFiles BY DEF CloseWindow
<1> QED BY <1>3, <1>5, <1>6 DEF WindowInv, FilesSound, SettingsShape

LEMMA SaveStep == ASSUME WindowInv, NEW path, SaveDocument(path) PROVE WindowInv'
<1>1. window.open /\ Good(window) BY DEF SaveDocument, Event, WindowInv
<1>2. CASE path \notin Unwritable
  <2>1. PICK w : w = [window EXCEPT !.path = path, !.title = path] OBVIOUS
  <2>2. Good(w) BY <1>1, <2>1, SaveKeeps
  <2>3. Becomes(w) BY <1>2, <2>1 DEF SaveDocument
  <2>4. /\ SettingsShape' /\ Good(window)' /\ (settings.zoom = window.chart.zoom)'
        /\ Located(window.chart)'
    BY <2>2, <2>3, BecomesFacts DEF WindowInv
  <2>5. Sound(window.profile) BY <1>1 DEF Good, Settled, Shaped
  <2>6. profileFiles' = [f \in DOMAIN profileFiles \cup {path} |->
                           IF f = path THEN window.profile ELSE profileFiles[f]]
    BY <1>2 DEF SaveDocument
  <2>7. FilesSound' BY <2>5, <2>6 DEF WindowInv, FilesSound
  <2> QED BY <2>4, <2>7 DEF WindowInv
<1>3. CASE path \in Unwritable
  <2>1. Becomes(window) /\ profileFiles' = profileFiles BY <1>3 DEF SaveDocument
  <2>2. /\ SettingsShape' /\ Good(window)' /\ (settings.zoom = window.chart.zoom)'
        /\ Located(window.chart)'
    BY <1>1, <2>1, BecomesFacts DEF WindowInv
  <2>3. FilesSound' BY <2>1 DEF WindowInv, FilesSound
  <2> QED BY <2>2, <2>3 DEF WindowInv
<1> QED BY <1>2, <1>3

LEMMA SettingStep ==
    ASSUME WindowInv, NEW on, SetAutostart(on) \/ DownloadMapTiles(on) PROVE WindowInv'
<1>1. /\ window' = window /\ profileFiles' = profileFiles
      /\ \/ settings' = [settings EXCEPT !.autostart = on]
         \/ settings' = [settings EXCEPT !.online = on]
  BY DEF SetAutostart, DownloadMapTiles
<1>2. DOMAIN settings' = DOMAIN settings /\ settings'.zoom = settings.zoom
  BY <1>1 DEF WindowInv, SettingsShape
<1> QED BY <1>1, <1>2 DEF WindowInv, FilesSound, SettingsShape
LEMMA WindowStep ==
    ASSUME WindowAssumption, WindowInv, WindowNext PROVE WindowInv'
<1>0. /\ \A f \in DOMAIN profileFiles : Sound(profileFiles[f])
      /\ Sound(StartProfile) /\ \A p \in Chosen : Sound(p)
      /\ Places \subseteq Spots
  BY SoundProfiles DEF WindowInv, FilesSound
<1>01. PICK w : w = window OBVIOUS
<1>02. window.open => Good(w) BY <1>01 DEF WindowInv
<1>1. CASE \E path \in {""} \cup DOMAIN StoredProfiles : Launch(path) BY <1>1, LaunchStep
<1>2. CASE CloseWindow BY <1>2, CloseStep
<1>3. CASE ToggleRun
  <2>1. PICK r : /\ r = [(IF IsRunning(w) THEN StopRun(w) ELSE StartRun(w))
                           EXCEPT !.wanted = ~IsRunning(w)]
                 /\ Slot(r)
    BY <1>3, <1>01 DEF ToggleRun
  <2> QED BY <1>02, <2>1, ToggleRunKeeps, SlotStep
<1>4. CASE TogglePause
  <2>1. PICK r : /\ r = RefreshStatus(SetPaused([w EXCEPT !.pause.checked = ~w.pause.checked],
                                                ~w.pause.checked))
                 /\ Slot(r) /\ w.pause.enabled
    BY <1>4, <1>01 DEF TogglePause
  <2> QED BY <1>02, <2>1, TogglePauseKeeps, SlotStep
<1>5. CASE SteerWithRudder
  <2>1. PICK on \in BOOLEAN : on = ~w.steering.checked OBVIOUS
  <2>2. PICK r : r = CheckSteering(w, on) /\ Slot(r) /\ w.steering.enabled
    BY <1>5, <1>01, <2>1 DEF SteerWithRudder
  <2> QED BY <1>02, <2>2, SteerWithRudderKeeps, SlotStep
<1>6. ASSUME NEW place \in Places, Step(place) PROVE WindowInv'
  <2>1. PICK r : /\ r = UpdateActions(Stepped(SetPaused(
                            RunnerStart([w EXCEPT !.wanted = TRUE]), TRUE), place))
                 /\ Slot(r)
    BY <1>6, <1>01 DEF Step
  <2>2. place \in Spots BY <1>0
  <2> QED BY <1>02, <2>1, <2>2, StepKeeps, SlotStep
<1>7. ASSUME NEW place \in Places, Tick(place) PROVE WindowInv'
  <2>1. PICK r : r = Stepped(w, place) /\ Slot(r) BY <1>7, <1>01 DEF Tick
  <2>2. place \in Spots BY <1>0
  <2> QED BY <1>02, <2>1, <2>2, TickKeeps, SlotStep
<1>8. ASSUME NEW p \in Places, MoveVessel(p) PROVE WindowInv'
  <2>1. Slot(VesselMoved(window, p)) BY <1>8 DEF MoveVessel, VesselMoved, VesselEdited, VesselJumped, ProfileMoved
  <2>2. PICK r : r = VesselMoved(w, p) /\ Slot(r) BY <1>01, <2>1
  <2>3. p \in Spots BY <1>0
  <2> QED BY <1>02, <2>2, <2>3, MoveVesselKeeps, SlotStep
<1>9. ASSUME NEW destination, NEW origin, SteerFor(destination, origin) PROVE WindowInv'
  <2>1. PICK r : /\ r = RefreshView([w EXCEPT !.profile.destination = destination,
                                              !.profile.origin = origin,
                                              !.source.destination = destination,
                                              !.source.origin = origin])
                 /\ Slot(r)
    BY <1>9, <1>01 DEF SteerFor
  <2> QED BY <1>02, <2>1, SteerForKeeps, SlotStep
<1>10. ASSUME NEW p \in Places, PickDestination(p) PROVE WindowInv'
  BY <1>9, <1>10 DEF PickDestination
<1>11. CASE ClearDestination BY <1>9, <1>11 DEF ClearDestination
<1>12. CASE NewDocument
  <2>1. PICK r : r = SetProfile(w, StartProfile, "") /\ Slot(r)
    BY <1>12, <1>01 DEF NewDocument
  <2> QED BY <1>0, <1>02, <2>1, SetProfileKeeps, SlotStep
<1>13. ASSUME NEW path, OpenDocument(path) PROVE WindowInv'
  <2>1. PICK r : r = LoadProfile(w, path) /\ Slot(r) BY <1>13, <1>01 DEF OpenDocument
  <2> QED BY <1>0, <1>02, <2>1, LoadProfileKeeps, SlotStep
<1>14. ASSUME NEW p \in Chosen, ChooseProfile(p) PROVE WindowInv'
  <2>1. PICK r, path : r = SetProfile(w, p, path) /\ Slot(r)
    BY <1>14, <1>01 DEF ChooseProfile
  <2>2. Sound(p) BY <1>0
  <2> QED BY <1>02, <2>1, <2>2, SetProfileKeeps, SlotStep
<1>15. ASSUME NEW path, SaveDocument(path) PROVE WindowInv' BY <1>15, SaveStep
<1>16. ASSUME NEW path, StartRecording(path) PROVE WindowInv'
  <2>1. PICK r, file : r = SetRecorder([w EXCEPT !.record = TRUE], file) /\ Slot(r)
    BY <1>16, <1>01 DEF StartRecording
  <2> QED BY <1>02, <2>1, StartRecordingKeeps, SlotStep
<1>17. CASE StopRecording
  <2>1. PICK r, file : r = SetRecorder(w, file) /\ Slot(r)
    BY <1>17, <1>01 DEF StopRecording
  <2> QED BY <1>02, <2>1, StopRecordingKeeps, SlotStep
<1>18. ASSUME NEW on, SetAutostart(on) PROVE WindowInv' BY <1>18, SettingStep
<1>19. ASSUME NEW on, DownloadMapTiles(on) PROVE WindowInv' BY <1>19, SettingStep
<1>20. ASSUME NEW r, NEW c, NEW point, IsPoint(point), NEW level \in Int, NEW on \in BOOLEAN,
              \/ c = ZoomTo(w.chart, level, point)
              \/ c = SetFollowVessel(w.chart, on)
              \/ c = Press(w.chart, point)
              \/ c = DragTo(w.chart, point)
              \/ c = Release(w.chart),
              r = [w EXCEPT !.chart = c], Slot(r)
       PROVE  WindowInv'
  BY <1>02, <1>20, ViewKeeps, SlotStep
<1>21. ASSUME NEW on \in BOOLEAN, Follow(on) PROVE WindowInv'
  <2>1. PICK c, r : /\ c = SetFollowVessel(w.chart, on)
                    /\ r = [w EXCEPT !.chart = c] /\ Slot(r)
    BY <1>21, <1>01 DEF Follow, Look
  <2>2. IsPoint(Middle) /\ 0 \in Int BY DEF IsPoint, Middle
  <2> QED BY <1>20, <2>1, <2>2
<1>22. ASSUME NEW level \in Int, NEW point, IsPoint(point), Zoom(level, point) PROVE WindowInv'
  <2>1. PICK c, r : /\ c = ZoomTo(w.chart, level, point)
                    /\ r = [w EXCEPT !.chart = c] /\ Slot(r)
    BY <1>22, <1>01 DEF Zoom, Look
  <2>2. TRUE \in BOOLEAN OBVIOUS
  <2> QED BY <1>20, <1>22, <2>1, <2>2
<1>23. ASSUME NEW point, IsPoint(point), MousePress(point) \/ MouseMove(point) \/ MouseRelease
       PROVE  WindowInv'
  <2>1. PICK c, r : /\ \/ c = Press(w.chart, point)
                       \/ c = DragTo(w.chart, point)
                       \/ c = Release(w.chart)
                    /\ r = [w EXCEPT !.chart = c] /\ Slot(r)
    BY <1>23, <1>01 DEF MousePress, MouseMove, MouseRelease, Look
  <2>2. TRUE \in BOOLEAN /\ 0 \in Int OBVIOUS
  <2> QED BY <1>20, <1>23, <2>1, <2>2
<1>24. CASE HoldSlider
  <2>1. PICK held, r : r = [w EXCEPT !.slider.down = held] /\ Slot(r)
    BY <1>24, <1>01 DEF HoldSlider
  <2> QED BY <1>02, <2>1, HoldSliderKeeps, SlotStep
<1>25. ASSUME NEW value, NEW place \in Places, ReleaseSlider(value, place) PROVE WindowInv'
  <2>0. place \in Spots BY <1>0
  <2>1. PICK held, h : held = FALSE /\ h = [w EXCEPT !.slider.down = held] OBVIOUS
  <2>2. PICK r : r = Ticked([[w EXCEPT !.slider.down = FALSE] EXCEPT
                               !.slider.value = value, !.chart = BreakTrack(@),
                               !.jumps = @ + 1, !.runner.position = value,
                               !.source.place = place])
    OBVIOUS
  <2>3. Slot(h) \/ Slot(r) BY <1>25, <1>01, <2>1, <2>2 DEF ReleaseSlider
  <2>4. CASE Slot(h) BY <1>02, <2>1, <2>4, HoldSliderKeeps, SlotStep
  <2>5. CASE Slot(r) BY <1>02, <2>0, <2>2, <2>5, SeekKeeps, SlotStep
  <2> QED BY <2>3, <2>4, <2>5
<1>26. ASSUME NEW p \in Steerable, NEW active \in BOOLEAN, NEW value,
              Override(p, active, value)
       PROVE  WindowInv'
  <2>1. Slot(Overridden(window, p, active, value)) /\ p \in window.dashboard.enabled
    BY <1>26 DEF Override, Overridden
  <2>2. PICK r : r = Overridden(w, p, active, value) /\ Slot(r) BY <1>01, <2>1
  <2>3. p \in w.dashboard.enabled BY <1>01, <2>1
  <2> QED BY <1>02, <1>26, <2>2, <2>3, OverrideKeeps, SlotStep
<1>27. ASSUME NEW p \in Steerable, NEW by, Nudged(p, by),
              p = "RudderAngle" => w.steering.checked
       PROVE  WindowInv'
  <2>1. PICK r : /\ r = RefreshView(SyncOverrides(
                           [w EXCEPT !.source.pinned = @ \cup {p},
                                     !.source.rudder = IF p = "RudderAngle"
                                                       THEN Between(@ + by, -1, 1) ELSE @]))
                 /\ Slot(r) /\ HasDelta(w)
    BY <1>27, <1>01 DEF Nudged
  <2> QED BY <1>02, <1>27, <2>1, NudgedKeeps, SlotStep
<1>28. ASSUME NEW by, ArrowUpDown(by) PROVE WindowInv'
  <2>1. "SpeedOverGround" \in Steerable /\ "SpeedOverGround" # "RudderAngle"
    BY DEF Steerable
  <2> QED BY <1>27, <1>28, <2>1 DEF ArrowUpDown
<1>29. ASSUME NEW by, ArrowLeftRight(by) PROVE WindowInv'
  <2>1. "RudderAngle" \in Steerable /\ "HeadingTrue" \in Steerable
        /\ "HeadingTrue" # "RudderAngle"
    BY DEF Steerable
  <2>2. CASE w.steering.checked
    <3>1. Nudged("RudderAngle", by) BY <1>29, <1>01, <2>2 DEF ArrowLeftRight
    <3> QED BY <1>27, <2>1, <2>2, <3>1
  <2>3. CASE ~w.steering.checked
    <3>1. Nudged("HeadingTrue", by) BY <1>29, <1>01, <2>3 DEF ArrowLeftRight
    <3> QED BY <1>27, <2>1, <3>1
  <2> QED BY <2>2, <2>3
<1>30. /\ \A point \in Points : IsPoint(point)
       /\ {MinZoom - 1, MaxZoom} \subseteq Int
  BY DEF WindowAssumption, MapAssumption
<1>31. ASSUME NEW level \in {MinZoom - 1, MaxZoom}, NEW point \in Points, Zoom(level, point)
       PROVE  WindowInv'
  BY <1>22, <1>30, <1>31
<1>32. ASSUME NEW point \in Points, MousePress(point) \/ MouseMove(point)
       PROVE  WindowInv'
  BY <1>23, <1>30, <1>32
<1>33. CASE MouseRelease
  <2>1. IsPoint(Middle) BY DEF IsPoint, Middle
  <2> QED BY <1>23, <1>33, <2>1
<1> QED
  BY <1>1, <1>2, <1>3, <1>4, <1>5, <1>6, <1>7, <1>8, <1>10, <1>11, <1>12, <1>13, <1>14,
     <1>15, <1>16, <1>17, <1>18, <1>19, <1>21, <1>24, <1>25, <1>26, <1>28, <1>29, <1>31,
     <1>32, <1>33
  DEF WindowNext

LEMMA WindowKeptUp == ASSUME WindowInv PROVE WindowAgrees
<1> SUFFICES ASSUME window.open
             PROVE  /\ window.runner.running = window.wanted
                    /\ window.runner.profile.name = window.profile.name
                    /\ RunIsShown /\ OverridesAreShown /\ MapIsShown
  BY DEF WindowAgrees
<1>1. /\ Runs(window) /\ Recorded(window) /\ Lit(window) /\ Sliding(window)
      /\ Steers(window) /\ Sails(window)
      /\ window.runner.running = window.wanted
      /\ window.chart.route = window.runner.profile.route
      /\ window.runner.profile.name = window.profile.name
      /\ settings.zoom = window.chart.zoom
  BY DEF WindowInv, Good, Settled, Presented
<1>2. RunIsShown BY <1>1 DEF RunIsShown, Runs, Recorded, Lit, Sliding
<1>3. OverridesAreShown
  <2>1. window.dashboard.enabled =
          IF HasDelta(window)
          THEN {IF window.steering.checked THEN "RudderAngle" ELSE "HeadingTrue",
                "SpeedOverGround"}
          ELSE {}
    BY <1>1 DEF Steers, Offered
  <2> QED BY <1>1, <2>1 DEF OverridesAreShown, Steers
<1>4. MapIsShown
  <2>1. Joined(window.chart.track) /\ Centred(window) BY <1>1 DEF Sails, TrackReady
  <2>2. window.chart.destination = window.source.destination
        /\ window.clear_destination = (window.chart.destination # {})
    BY <1>1 DEF Sails
  <2> QED BY <1>1, <2>1, <2>2 DEF MapIsShown, Joined, Centred
<1> QED BY <1>1, <1>2, <1>3, <1>4

LEMMA WindowInductive == ASSUME WindowAssumption PROVE WindowSpec => []WindowInv
<1>1. WindowInit => WindowInv BY WindowStarts
<1>2. WindowInv /\ [WindowNext]_windowVars => WindowInv'
  <2>1. ASSUME WindowInv, UNCHANGED windowVars PROVE WindowInv'
    BY <2>1 DEF windowVars, WindowInv, FilesSound, SettingsShape
  <2> QED BY <2>1, WindowStep
<1> QED BY <1>1, <1>2, PTL DEF WindowSpec

(* Whatever the profiles, the files, the places and the events: the window *)
(* shows the run it owns, the source it steers and the vessel's track      *)
(* (the slots of MainWindow).                                              *)
THEOREM WindowKeepsUp == ASSUME WindowAssumption PROVE WindowSpec => []WindowAgrees
<1>1. WindowInv => WindowAgrees BY WindowKeptUp
<1> QED BY <1>1, WindowInductive, PTL

(* For every size of the map and of its tiles, and every number of zooms:  *)
(* wherever the map is dragged, zoomed or follows, the tiles drawn include *)
(* the one looked at, and the ancestor of it that is there is painted in   *)
(* its place (draw_tiles, draw_tile, zoom_to, pan_by, set_center).         *)
THEOREM TilesAreCovered == ASSUME WindowAssumption PROVE WindowSpec => []TilesCover
<1>1. ASSUME WindowInv PROVE TilesCover
  <2>1. MapAssumption BY DEF WindowAssumption
  <2>2. OnWorld(window.chart.center) /\ window.chart.zoom \in MinZoom .. MaxZoom
    BY <1>1, <2>1 DEF WindowInv, Located, MapAssumption
  <2> QED BY <2>1, <2>2, CentreCovered DEF TilesCover
<1>2. WindowInv => TilesCover BY <1>1
<1> QED BY <1>2, WindowInductive, PTL
=============================================================================
