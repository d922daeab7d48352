------------------------ MODULE TcpClientTransport ------------------------
(***************************************************************************)
(* The TCP client output (TcpClientTransport): connects in the background, *)
(* reconnects after an interval when the connection fails or drops, and    *)
(* sends lines while connected.                                            *)
(*                                                                         *)
(* QTcpSocket is external.  An action that stands for one of its events    *)
(* runs the handlers of the signals it emits, in the order it emits them.  *)
(***************************************************************************)
EXTENDS Naturals, Sequences

CONSTANTS
    Interval,   \* reconnect_interval_ms, in units of PassTime
    Lines       \* the lines the runner may write

(* What the constants must satisfy, whatever instantiates this module.    *)
IntervalAssumption == Interval \in Nat

NoTimer == Interval + 1

VARIABLES
    state,      \* state_, as in Transport
    wanted,     \* wanted_open_
    timer,      \* what reconnect_timer_ has left; NoTimer while inactive
    socket,     \* socket_.state(): Unconnected, Connecting or Connected
    listening,  \* whether the server the client is configured for is up
    stream,     \* the lines of the current connection, as sent
    waited      \* history: time unconnected while wanted, up to NoTimer

vars == <<state, wanted, timer, socket, listening, stream, waited>>

Client == [state : {"Closed", "Opening", "Open", "Failed"},
           wanted : BOOLEAN, timer : 0 .. NoTimer]

this == [state |-> state, wanted |-> wanted, timer |-> timer]

-----------------------------------------------------------------------------
(* The handlers, as operators from this transport to this transport.       *)

ScheduleReconnect(c) ==
    IF c.wanted /\ c.timer = NoTimer THEN [c EXCEPT !.timer = Interval] ELSE c

OnConnected(c) == [c EXCEPT !.state = "Open"]

(* Mutants of OnDisconnected: the state waits for an error that may not    *)
(* come, or a lost connection counts as a failure.                         *)
OnDisconnected_StateKept(c) == ScheduleReconnect(c)
OnDisconnected_Fails(c) ==
    ScheduleReconnect(IF c.wanted /\ c.state = "Open"
                      THEN [c EXCEPT !.state = "Failed"] ELSE c)

OnDisconnected(c) ==
    ScheduleReconnect(IF c.wanted /\ c.state = "Open"
                      THEN [c EXCEPT !.state = "Opening"] ELSE c)

(* Mutant of OnError: an attempt that fails is not retried.                *)
OnError_NoRetry(c, closed) ==
    IF ~c.wanted THEN c
    ELSE IF c.state = "Open" THEN ScheduleReconnect([c EXCEPT !.state = "Opening"])
    ELSE IF closed THEN c
    ELSE [c EXCEPT !.state = "Failed"]

(* errorOccurred; `closed' for a RemoteHostClosedError.                    *)
OnError(c, closed) ==
    IF ~c.wanted THEN c
    ELSE ScheduleReconnect(
            IF c.state = "Open" THEN [c EXCEPT !.state = "Opening"]
            ELSE IF closed THEN c
            ELSE [c EXCEPT !.state = "Failed"])

(* Mutant of ConnectNow: nothing is tried after a failure.                 *)
ConnectNow_NotAfterFailure(c) ==
    IF c.wanted /\ c.state = "Opening" /\ socket = "Unconnected"
    THEN "Connecting" ELSE socket

(* connect_now(): does nothing while the socket is busy.                   *)
ConnectNow(c) == IF c.wanted /\ socket = "Unconnected" THEN "Connecting" ELSE socket

Becomes(c) == state' = c.state /\ wanted' = c.wanted /\ timer' = c.timer

-----------------------------------------------------------------------------
Init ==
    /\ state = "Closed" /\ wanted = FALSE
    /\ timer = NoTimer
    /\ socket = "Unconnected"
    /\ listening \in BOOLEAN
    /\ stream = <<>>
    /\ waited = 0

Open ==
    LET c == [this EXCEPT !.wanted = TRUE,
                          !.state = IF socket = "Connected" THEN "Open" ELSE "Opening"]
    IN  /\ Becomes(c)
        /\ socket' = ConnectNow(c)
        /\ waited' = 0
        /\ UNCHANGED <<listening, stream>>

(* abort() emits disconnected when the socket was connected.               *)
Close ==
    LET c == [this EXCEPT !.wanted = FALSE, !.timer = NoTimer]
        aborted == IF socket = "Connected" THEN OnDisconnected(c) ELSE c
    IN  /\ Becomes([aborted EXCEPT !.state = "Closed"])
        /\ socket' = "Unconnected"
        /\ stream' = <<>>
        /\ waited' = 0
        /\ UNCHANGED listening

Write(line) ==
    /\ stream' = IF state = "Open" /\ socket = "Connected"
                 THEN Append(stream, line) ELSE stream
    /\ UNCHANGED <<state, wanted, timer, socket, listening, waited>>

(* The reconnection timer fires; it is a single-shot timer.                *)
Timeout ==
    /\ timer = 0
    /\ timer' = NoTimer
    /\ socket' = ConnectNow(this)
    /\ waited' = 0
    /\ UNCHANGED <<state, wanted, listening, stream>>

Connected ==
    /\ socket = "Connecting" /\ listening
    /\ socket' = "Connected"
    /\ Becomes(OnConnected(this))
    /\ stream' = <<>>
    /\ UNCHANGED <<listening, waited>>

Refused ==
    /\ socket = "Connecting" /\ ~listening
    /\ socket' = "Unconnected"
    /\ Becomes(OnError(this, FALSE))
    /\ waited' = 0
    /\ UNCHANGED <<listening, stream>>

(* The connection is lost: the error before the disconnection, or after it *)
(* when the peer closed, or no error at all.                               *)
Drop ==
    /\ socket = "Connected"
    /\ socket' = "Unconnected"
    /\ \/ \E closed \in BOOLEAN : Becomes(OnDisconnected(OnError(this, closed)))
       \/ Becomes(OnError(OnDisconnected(this), TRUE))
       \/ Becomes(OnDisconnected(this))
    /\ stream' = <<>>
    /\ waited' = 0
    /\ UNCHANGED listening

(* The server the client talks to comes and goes.                          *)
ServerChange ==
    /\ listening' = ~listening
    /\ UNCHANGED <<state, wanted, timer, socket, stream, waited>>

(* Time passes; the event loop runs a timer that is due before it waits.   *)
PassTime ==
    /\ timer # 0
    /\ timer' = IF timer = NoTimer THEN NoTimer ELSE timer - 1
    /\ waited' = IF ~wanted \/ socket # "Unconnected" THEN 0
                 ELSE IF waited = NoTimer THEN NoTimer ELSE waited + 1
    /\ UNCHANGED <<state, wanted, socket, listening, stream>>

Event == Timeout \/ Connected \/ Refused \/ Drop \/ ServerChange \/ PassTime

Next == Open \/ Close \/ (\E line \in Lines : Write(line)) \/ Event

Spec == Init /\ [][Next]_vars

(* The event loop runs a due timer; a connection attempt has an outcome,   *)
(* a listening server accepts it; time passes.                             *)
Fairness ==
    /\ WF_vars(Timeout) /\ WF_vars(PassTime)
    /\ WF_vars(Connected) /\ WF_vars(Refused)

-----------------------------------------------------------------------------
TypeOK ==
    /\ state \in {"Closed", "Opening", "Open", "Failed"}
    /\ wanted \in BOOLEAN
    /\ timer \in 0 .. NoTimer
    /\ socket \in {"Unconnected", "Connecting", "Connected"}
    /\ listening \in BOOLEAN
    /\ stream \in Seq(Lines)
    /\ waited \in 0 .. NoTimer

(* The client never gives up: while it is wanted open and has no           *)
(* connection and no attempt under way, a new attempt follows within the   *)
(* interval, whatever mix of errors, disconnections, attempts and calls    *)
(* of open() led here.                                                     *)
RetryOnTime ==
    wanted /\ socket = "Unconnected" => timer # NoTimer /\ timer + waited <= Interval

(* The state the runner and the window go by is the truth: Open exactly    *)
(* while the socket is connected, so that no line is accepted that cannot  *)
(* be sent and none is dropped that could be; Closed exactly while not     *)
(* wanted, and then no timer, no attempt and no late signal is left that   *)
(* could bring the client back.                                            *)
StateTellsTheTruth ==
    /\ state = "Open" <=> socket = "Connected"
    /\ state = "Closed" <=> ~wanted
    /\ ~wanted => timer = NoTimer /\ socket = "Unconnected"

(* While the server is up and the client wanted, it gets connected.        *)
Reconnects ==
    (wanted /\ listening) ~> (state = "Open" \/ ~wanted \/ ~listening)

(* What the runner is promised: see Transport.                             *)
T == INSTANCE Transport WITH kind <- "client"
IsATransport == T!Spec
=============================================================================
