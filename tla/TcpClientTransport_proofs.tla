--------------------- MODULE TcpClientTransport_proofs ---------------------
(***************************************************************************)
(* Proofs about TcpClientTransport for every reconnection interval and     *)
(* every set of lines.  The three invariants together are inductive: that  *)
(* a retry is pending needs that a closed client has no timer, and that    *)
(* the state is the truth needs the types of the handlers' results.        *)
(***************************************************************************)
EXTENDS TcpClientTransport, TLAPS

IInv == TypeOK /\ RetryOnTime /\ StateTellsTheTruth

-----------------------------------------------------------------------------
(* What the handlers do to a client of the right type.                     *)
LEMMA ThisIsAClient ==
    TypeOK => this \in Client /\ this = [state |-> state, wanted |-> wanted, timer |-> timer]
  BY DEF TypeOK, Client, this

(* close() first gives up wanting the link and stops the timer.            *)
LEMMA ClosingFacts ==
    ASSUME IntervalAssumption, TypeOK
    PROVE  LET c == [this EXCEPT !.wanted = FALSE, !.timer = NoTimer]
           IN  c \in Client /\ ~c.wanted /\ c.timer = NoTimer
<1> DEFINE u == [this EXCEPT !.wanted = FALSE]
           c == [u EXCEPT !.timer = NoTimer]
<1>1. u \in Client /\ ~u.wanted BY ThisIsAClient DEF Client
<1> HIDE DEF u
<1>2. NoTimer \in 0 .. NoTimer BY DEF NoTimer, IntervalAssumption
<1> HIDE DEF NoTimer
<1>3. c \in Client /\ ~c.wanted /\ c.timer = NoTimer BY <1>1, <1>2 DEF Client
<1> QED BY <1>3 DEF u

(* After schedule_reconnect a client that is wanted has its timer running, *)
(* with at most an interval left; nothing else has changed.                *)
LEMMA ScheduledFacts ==
    ASSUME IntervalAssumption, NEW c \in Client
    PROVE  /\ ScheduleReconnect(c) \in Client
           /\ ScheduleReconnect(c).state = c.state
           /\ ScheduleReconnect(c).wanted = c.wanted
           /\ c.wanted => ScheduleReconnect(c).timer \in 0 .. Interval
           /\ ~c.wanted => ScheduleReconnect(c).timer = c.timer
  BY DEF ScheduleReconnect, Client, NoTimer, IntervalAssumption

(* The signal disconnected: an open client that is wanted is connecting    *)
(* again, and a wanted client has its timer running.                       *)
LEMMA DisconnectedFacts ==
    ASSUME IntervalAssumption, NEW c \in Client
    PROVE  /\ OnDisconnected(c) \in Client
           /\ OnDisconnected(c).wanted = c.wanted
           /\ OnDisconnected(c).state =
                IF c.wanted /\ c.state = "Open" THEN "Opening" ELSE c.state
           /\ c.wanted => OnDisconnected(c).timer \in 0 .. Interval
           /\ ~c.wanted => OnDisconnected(c).timer = c.timer
<1> DEFINE d == IF c.wanted /\ c.state = "Open" THEN [c EXCEPT !.state = "Opening"] ELSE c
<1>1. /\ d \in Client /\ d.wanted = c.wanted /\ d.timer = c.timer
      /\ d.state = IF c.wanted /\ c.state = "Open" THEN "Opening" ELSE c.state
  BY DEF Client
<1>2. OnDisconnected(c) = ScheduleReconnect(d) BY DEF OnDisconnected
<1> HIDE DEF d
<1> QED BY <1>1, <1>2, ScheduledFacts

(* The signal errorOccurred: a client that is not wanted ignores it, and   *)
(* one that is has its timer running and is not open any more.             *)
LEMMA ErrorFacts ==
    ASSUME IntervalAssumption, NEW c \in Client, NEW closed \in BOOLEAN
    PROVE  /\ OnError(c, closed) \in Client
           /\ OnError(c, closed).wanted = c.wanted
           /\ ~c.wanted => OnError(c, closed) = c
           /\ c.wanted =>
                /\ OnError(c, closed).timer \in 0 .. Interval
                /\ OnError(c, closed).state =
                     IF c.state = "Open" THEN "Opening"
                     ELSE IF closed THEN c.state ELSE "Failed"
<1> DEFINE d == IF c.state = "Open" THEN [c EXCEPT !.state = "Opening"]
                ELSE IF closed THEN c ELSE [c EXCEPT !.state = "Failed"]
<1>1. /\ d \in Client /\ d.wanted = c.wanted
      /\ d.state = IF c.state = "Open" THEN "Opening"
                   ELSE IF closed THEN c.state ELSE "Failed"
  BY DEF Client
<1>2. OnError(c, closed) = IF ~c.wanted THEN c ELSE ScheduleReconnect(d)
  BY DEF OnError
<1> HIDE DEF d
<1> QED BY <1>1, <1>2, ScheduledFacts

-----------------------------------------------------------------------------
LEMMA NothingSent == <<>> \in Seq(Lines)
  OBVIOUS

LEMMA InitInv == IntervalAssumption /\ Init => IInv
<1> SUFFICES ASSUME IntervalAssumption, Init PROVE IInv OBVIOUS
<1>1. stream \in Seq(Lines) BY NothingSent DEF Init
<1>2. ~wanted /\ wanted \in BOOLEAN /\ state = "Closed" /\ timer = NoTimer /\ socket = "Unconnected"
      /\ listening \in BOOLEAN /\ waited = 0
  BY DEF Init
<1> QED BY <1>1, <1>2 DEF IntervalAssumption, IInv, TypeOK, RetryOnTime, StateTellsTheTruth, NoTimer

LEMMA OpenInv == IntervalAssumption /\ IInv /\ Open => IInv'
<1> SUFFICES ASSUME IntervalAssumption, IInv, Open PROVE IInv' OBVIOUS
<1> DEFINE c == [this EXCEPT !.wanted = TRUE,
                             !.state = IF socket = "Connected" THEN "Open" ELSE "Opening"]
<1>1. c.wanted /\ c.timer = timer
      /\ c.state = IF socket = "Connected" THEN "Open" ELSE "Opening"
  BY DEF this
<1>2. /\ Becomes(c) /\ socket' = ConnectNow(c) /\ waited' = 0
      /\ UNCHANGED <<listening, stream>>
  BY DEF Open
<1> HIDE DEF c
<1>3. socket' = IF socket = "Unconnected" THEN "Connecting" ELSE socket
  BY <1>1, <1>2 DEF ConnectNow
<1>4. wanted' /\ wanted' \in BOOLEAN /\ timer' = timer /\ waited' = 0
      /\ state' = IF socket = "Connected" THEN "Open" ELSE "Opening"
  BY <1>1, <1>2 DEF Becomes
<1> QED BY <1>2, <1>3, <1>4
        DEF IInv, TypeOK, RetryOnTime, StateTellsTheTruth, NoTimer, IntervalAssumption

LEMMA CloseInv == IntervalAssumption /\ IInv /\ Close => IInv'
<1> SUFFICES ASSUME IntervalAssumption, IInv, Close PROVE IInv' OBVIOUS
<1> DEFINE c == [this EXCEPT !.wanted = FALSE, !.timer = NoTimer]
           aborted == IF socket = "Connected" THEN OnDisconnected(c) ELSE c
           closed == [aborted EXCEPT !.state = "Closed"]
<1>1. c \in Client /\ ~c.wanted /\ c.timer = NoTimer
  BY ClosingFacts DEF IInv
<1>2. Becomes(closed) /\ socket' = "Unconnected" /\ stream' = <<>>
      /\ waited' = 0 /\ UNCHANGED listening
  BY DEF Close
<1> HIDE DEF c
<1>3. aborted \in Client /\ ~aborted.wanted /\ aborted.timer = NoTimer
  BY <1>1, DisconnectedFacts
<1> HIDE DEF aborted
<1>4. /\ closed.state = "Closed" /\ ~closed.wanted /\ closed.wanted \in BOOLEAN
      /\ closed.timer = NoTimer
  BY <1>3 DEF Client
<1> HIDE DEF closed
<1> QED BY <1>2, <1>4
        DEF IInv, TypeOK, RetryOnTime, StateTellsTheTruth, Becomes, NoTimer, IntervalAssumption

(* The connection drops: whatever signals report it, in either order, the  *)
(* client is connecting again with its timer running.                      *)
LEMMA DropFacts ==
    ASSUME IntervalAssumption, IInv, Drop
    PROVE  /\ wanted /\ state = "Open"
           /\ state' = "Opening" /\ wanted' /\ wanted' \in BOOLEAN /\ timer' \in 0 .. Interval
           /\ socket' = "Unconnected" /\ stream' = <<>> /\ waited' = 0
           /\ UNCHANGED listening
<1>1. /\ this \in Client /\ this.state = "Open" /\ this.wanted
      /\ wanted /\ state = "Open"
  BY DEF IInv, TypeOK, StateTellsTheTruth, Drop, this, Client
<1>2. /\ socket' = "Unconnected" /\ stream' = <<>> /\ waited' = 0
      /\ UNCHANGED listening
  BY DEF Drop
<1>3. ASSUME NEW c \in Client, Becomes(c), c.state = "Opening", c.wanted,
             c.timer \in 0 .. Interval
      PROVE  state' = "Opening" /\ wanted' /\ wanted' \in BOOLEAN /\ timer' \in 0 .. Interval
  BY <1>3 DEF Becomes
<1>4. ASSUME NEW c \in Client, c.state = "Open", c.wanted
      PROVE  /\ OnDisconnected(c) \in Client
             /\ OnDisconnected(c).state = "Opening" /\ OnDisconnected(c).wanted
             /\ OnDisconnected(c).timer \in 0 .. Interval
  BY <1>4, DisconnectedFacts
<1>5. ASSUME NEW closed \in BOOLEAN, Becomes(OnDisconnected(OnError(this, closed)))
      PROVE  state' = "Opening" /\ wanted' /\ wanted' \in BOOLEAN /\ timer' \in 0 .. Interval
  <2> DEFINE e == OnError(this, closed)
             d == OnDisconnected(e)
  <2>1. e \in Client /\ e.state = "Opening" /\ e.wanted
    BY <1>1, ErrorFacts
  <2> HIDE DEF e
  <2>2. d \in Client /\ d.state = "Opening" /\ d.wanted /\ d.timer \in 0 .. Interval
    BY <2>1, DisconnectedFacts
  <2> QED BY <1>3, <1>5, <2>2 DEF e
<1>6. ASSUME Becomes(OnError(OnDisconnected(this), TRUE))
      PROVE  state' = "Opening" /\ wanted' /\ wanted' \in BOOLEAN /\ timer' \in 0 .. Interval
  <2> DEFINE d == OnDisconnected(this)
             e == OnError(d, TRUE)
  <2>1. d \in Client /\ d.state = "Opening" /\ d.wanted
    BY <1>1, <1>4
  <2> HIDE DEF d
  <2>2. e \in Client /\ e.state = "Opening" /\ e.wanted /\ e.timer \in 0 .. Interval
    BY <2>1, ErrorFacts
  <2> QED BY <1>3, <1>6, <2>2 DEF d
<1>7. ASSUME Becomes(OnDisconnected(this))
      PROVE  state' = "Opening" /\ wanted' /\ wanted' \in BOOLEAN /\ timer' \in 0 .. Interval
  BY <1>1, <1>3, <1>4, <1>7
<1> QED BY <1>1, <1>2, <1>5, <1>6, <1>7 DEF Drop

LEMMA RunningTimer ==
    ASSUME IntervalAssumption, NEW t \in 0 .. Interval
    PROVE  t # NoTimer /\ t + 0 =< Interval
  BY DEF IntervalAssumption, NoTimer

LEMMA DropInv == IntervalAssumption /\ IInv /\ Drop => IInv'
<1> SUFFICES ASSUME IntervalAssumption, IInv, Drop PROVE IInv' OBVIOUS
<1>1. /\ state' = "Opening" /\ wanted' /\ wanted' \in BOOLEAN
      /\ timer' \in 0 .. Interval
      /\ socket' = "Unconnected" /\ stream' = <<>> /\ waited' = 0
      /\ listening' = listening
  BY DropFacts
<1>2. TypeOK' BY <1>1, NothingSent DEF IInv, TypeOK, NoTimer, IntervalAssumption
<1>3. timer' # NoTimer /\ timer' + 0 =< Interval BY <1>1, RunningTimer
<1>4. RetryOnTime' BY <1>1, <1>3 DEF RetryOnTime
<1>5. StateTellsTheTruth' BY <1>1 DEF StateTellsTheTruth
<1> QED BY <1>2, <1>4, <1>5 DEF IInv

(* An attempt that fails moves a wanted client to Failed and starts its    *)
(* timer unless it is running.                                             *)
LEMMA RefusedFacts ==
    ASSUME IntervalAssumption, IInv, Refused
    PROVE  /\ wanted /\ state \in {"Opening", "Failed"}
           /\ state' = "Failed" /\ wanted' /\ wanted' \in BOOLEAN /\ timer' \in 0 .. Interval
           /\ socket' = "Unconnected" /\ waited' = 0
           /\ UNCHANGED <<listening, stream>>
<1>1. /\ this \in Client /\ this.state # "Open" /\ this.wanted
      /\ wanted /\ state \in {"Opening", "Failed"}
  BY DEF IInv, TypeOK, StateTellsTheTruth, Refused, this, Client
<1>2. /\ OnError(this, FALSE) \in Client
      /\ OnError(this, FALSE).state = "Failed" /\ OnError(this, FALSE).wanted
      /\ OnError(this, FALSE).timer \in 0 .. Interval
  BY <1>1, ErrorFacts
<1> QED BY <1>1, <1>2 DEF Refused, Becomes

LEMMA RefusedInv == IntervalAssumption /\ IInv /\ Refused => IInv'
<1> SUFFICES ASSUME IntervalAssumption, IInv, Refused PROVE IInv' OBVIOUS
<1> QED BY RefusedFacts DEF IInv, TypeOK, RetryOnTime, StateTellsTheTruth, NoTimer, IntervalAssumption

LEMMA ConnectedInv == IntervalAssumption /\ IInv /\ Connected => IInv'
<1> SUFFICES ASSUME IntervalAssumption, IInv, Connected PROVE IInv' OBVIOUS
<1>1. /\ OnConnected(this).state = "Open" /\ OnConnected(this).wanted = wanted
      /\ OnConnected(this).timer = timer
  BY DEF OnConnected, this
<1>2. /\ Becomes(OnConnected(this)) /\ socket = "Connecting" /\ socket' = "Connected"
      /\ stream' = <<>> /\ UNCHANGED <<listening, waited>>
  BY DEF Connected
<1> QED BY <1>1, <1>2 DEF IInv, TypeOK, RetryOnTime, StateTellsTheTruth, Becomes

LEMMA TimeoutInv == IntervalAssumption /\ IInv /\ Timeout => IInv'
<1> SUFFICES ASSUME IntervalAssumption, IInv, Timeout PROVE IInv' OBVIOUS
<1>1. wanted /\ timer = 0 /\ timer' = NoTimer
      /\ socket' = (IF socket = "Unconnected" THEN "Connecting" ELSE socket)
      /\ waited' = 0 /\ UNCHANGED <<state, wanted, listening, stream>>
  BY DEF IInv, TypeOK, StateTellsTheTruth, Timeout, ConnectNow, this, NoTimer,
         IntervalAssumption
<1> QED BY <1>1 DEF IInv, TypeOK, RetryOnTime, StateTellsTheTruth, NoTimer, IntervalAssumption

LEMMA PassTimeInv == IntervalAssumption /\ IInv /\ PassTime => IInv'
  BY DEF IInv, TypeOK, RetryOnTime, StateTellsTheTruth, PassTime, NoTimer, IntervalAssumption

LEMMA WriteInv ==
    ASSUME IntervalAssumption, IInv, NEW line \in Lines, Write(line)
    PROVE  IInv'
  BY DEF IInv, TypeOK, RetryOnTime, StateTellsTheTruth, Write

LEMMA ServerChangeInv == IInv /\ ServerChange => IInv'
  BY DEF IInv, TypeOK, RetryOnTime, StateTellsTheTruth, ServerChange

LEMMA NextInv == IntervalAssumption /\ IInv /\ [Next]_vars => IInv'
<1> SUFFICES ASSUME IntervalAssumption, IInv, [Next]_vars PROVE IInv' OBVIOUS
<1>1. CASE Open BY <1>1, OpenInv
<1>2. CASE Close BY <1>2, CloseInv
<1>3. CASE \E line \in Lines : Write(line) BY <1>3, WriteInv
<1>4. CASE Timeout BY <1>4, TimeoutInv
<1>5. CASE Connected BY <1>5, ConnectedInv
<1>6. CASE Refused BY <1>6, RefusedInv
<1>7. CASE Drop BY <1>7, DropInv
<1>8. CASE ServerChange BY <1>8, ServerChangeInv
<1>9. CASE PassTime BY <1>9, PassTimeInv
<1>10. CASE UNCHANGED vars
  BY <1>10 DEF IInv, TypeOK, RetryOnTime, StateTellsTheTruth, vars
<1> QED BY <1>1, <1>2, <1>3, <1>4, <1>5, <1>6, <1>7, <1>8, <1>9, <1>10 DEF Next, Event

LEMMA SpecInv == ASSUME IntervalAssumption PROVE Spec => []IInv
<1>1. Init => IInv BY InitInv
<1>2. IInv /\ [Next]_vars => IInv' BY NextInv
<1> QED BY <1>1, <1>2, PTL DEF Spec

-----------------------------------------------------------------------------
(* Every variable of the client keeps its type; the reconnection timer     *)
(* never has more than an interval left (schedule_reconnect).              *)
THEOREM TypeCorrect == ASSUME IntervalAssumption PROVE Spec => []TypeOK
<1>1. IInv => TypeOK BY DEF IInv
<1> QED BY <1>1, SpecInv, PTL

(* The client never gives up: whatever signals, attempts and calls of open *)
(* led to a wanted client without a connection, the next attempt follows   *)
(* within the interval (the handlers of TcpClientTransport).               *)
THEOREM RetriesOnTime == ASSUME IntervalAssumption PROVE Spec => []RetryOnTime
<1>1. IInv => RetryOnTime BY DEF IInv
<1> QED BY <1>1, SpecInv, PTL

(* The state that the runner goes by is that of the socket, and a closed   *)
(* client has nothing left that could revive it (close, set_state).        *)
THEOREM StateIsTheTruth == ASSUME IntervalAssumption PROVE Spec => []StateTellsTheTruth
<1>1. IInv => StateTellsTheTruth BY DEF IInv
<1> QED BY <1>1, SpecInv, PTL

(* A step of the client is one that Transport allows a client.             *)
LEMMA TransportStep ==
    ASSUME IntervalAssumption, IInv, [Next]_vars
    PROVE  [T!Next]_state
<1>1. CASE Open
  <2>1. state' = IF state = "Open" THEN "Open" ELSE "Opening"
    BY <1>1 DEF Open, Becomes, this, IInv, StateTellsTheTruth
  <2>2. T!OpenOutcomes("client") = {"Opening"} BY DEF T!OpenOutcomes
  <2> QED BY <2>1, <2>2 DEF T!Next, T!Open
<1>2. CASE Close
  <2>1. state' = "Closed"
    <3> DEFINE c == [this EXCEPT !.wanted = FALSE, !.timer = NoTimer]
               aborted == IF socket = "Connected" THEN OnDisconnected(c) ELSE c
    <3>1. aborted \in Client
      <4>1. c \in Client
        BY ClosingFacts DEF IInv
      <4> HIDE DEF c
      <4> QED BY <4>1, DisconnectedFacts
    <3>2. Becomes([aborted EXCEPT !.state = "Closed"]) BY <1>2 DEF Close
    <3> HIDE DEF aborted
    <3> QED BY <3>1, <3>2 DEF Becomes, Client
  <2> QED BY <2>1 DEF T!Next, T!Close
<1>3. CASE Connected
  <2>1. state \in {"Opening", "Failed"} /\ state' = "Open"
    BY <1>3 DEF Connected, Becomes, OnConnected, this, IInv, TypeOK, StateTellsTheTruth
  <2> QED BY <2>1 DEF T!Next, T!Event, T!EventOutcomes, T!States
<1>4. CASE Refused
  <2>1. state \in {"Opening", "Failed"} /\ state' = "Failed" BY <1>4, RefusedFacts
  <2> QED BY <2>1 DEF T!Next, T!Event, T!EventOutcomes, T!States
<1>5. CASE Drop
  <2>1. state = "Open" /\ state' = "Opening" BY <1>5, DropFacts
  <2> QED BY <2>1 DEF T!Next, T!Event, T!EventOutcomes, T!States
<1>6. CASE UNCHANGED state BY <1>6
<1> QED BY <1>1, <1>2, <1>3, <1>4, <1>5, <1>6
        DEF Next, Event, Write, Timeout, ServerChange, PassTime, vars

(* TcpClientTransport implements Transport for a link of kind "client":    *)
(* what the model of the runner assumes of such an output is what the      *)
(* client does.                                                            *)
THEOREM ClientIsATransport == ASSUME IntervalAssumption PROVE Spec => IsATransport
<1>1. Init => T!Init BY DEF Init, T!Init
<1>2. IInv /\ [Next]_vars => [T!Next]_state BY TransportStep
<1> QED BY <1>1, <1>2, SpecInv, PTL DEF Spec, IsATransport, T!Spec
=============================================================================
