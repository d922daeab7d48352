------------------------------- MODULE FanOut -------------------------------
(***************************************************************************)
(* Two outputs of one run, a TCP client and a server, side by side on the  *)
(* event loop: the runner opens, writes and closes them (start,            *)
(* emit_sentences and stop of SimulationRunner), while the sockets of both *)
(* have events of their own.                                               *)
(***************************************************************************)
EXTENDS Naturals, Sequences, FiniteSets

CONSTANTS
    Interval,    \* the reconnection interval of the client
    Peers,       \* the hosts that may connect to the server
    Greets,      \* whether the server sends the hello
    MaxLines     \* bound: lines written in one run

Lines == 1 .. MaxLines

VARIABLES
    running,     \* is_running()
    line,        \* the number of lines emitted in this run
    cstate, wanted, timer, csocket, listening, stream, waited,   \* the client
    sstate, clients, ssocket, count, got, due                    \* the server

C == INSTANCE TcpClientTransport WITH state <- cstate, socket <- csocket
S == INSTANCE ServerTransport WITH state <- sstate, socket <- ssocket

(* What the modules of the outputs assume of their constants.              *)
ASSUME FanOutAssumption ==
    /\ C!IntervalAssumption /\ C!T!KindAssumption
    /\ S!ServerAssumption /\ S!T!KindAssumption
    /\ MaxLines \in Nat

cvars == <<cstate, wanted, timer, csocket, listening, stream, waited>>
svars == <<sstate, clients, ssocket, count, got, due>>
vars == <<running, line, cvars, svars>>

Init == running = FALSE /\ line = 0 /\ C!Init /\ S!Init

(* start(): opens what is not open; a failure leaves the others alone.     *)
Start ==
    /\ ~running
    /\ running' = TRUE
    /\ line' = 0
    /\ IF cstate = "Open" THEN UNCHANGED cvars ELSE C!Open
    /\ IF sstate = "Open" THEN UNCHANGED svars ELSE S!Open

(* stop(): closes every output.                                            *)
Stop ==
    /\ running' = FALSE
    /\ line' = 0
    /\ C!Close
    /\ S!Close

(* emit_sentences(): the line goes to every output that is open.           *)
EmitLine ==
    /\ running
    /\ line < MaxLines
    /\ line' = line + 1
    /\ IF cstate = "Open" THEN C!Write(line') ELSE UNCHANGED cvars
    /\ IF sstate = "Open" THEN S!Write(line') ELSE UNCHANGED svars
    /\ UNCHANGED running

ClientEvent == C!Event /\ UNCHANGED <<running, line, svars>>
ServerEvent == S!Event /\ UNCHANGED <<running, line, cvars>>

(* The application opens a client that is already wanted once more, which  *)
(* the Transport interface allows in any state.                            *)
Reopen == running /\ C!Open /\ UNCHANGED <<running, line, svars>>

Next == Start \/ Stop \/ EmitLine \/ ClientEvent \/ ServerEvent \/ Reopen

Spec == Init /\ [][Next]_vars
FairSpec == Spec /\ C!Fairness

-----------------------------------------------------------------------------
(* Every variable has its type.                                            *)
TypeOK == C!TypeOK /\ S!TypeOK /\ running \in BOOLEAN /\ line \in 0 .. MaxLines

(* TcpClientTransport: while the client is wanted and has no connection,   *)
(* the next attempt follows within the interval (schedule_reconnect).      *)
RetryOnTime == C!RetryOnTime

(* TcpClientTransport: Open exactly while the socket is connected, Closed  *)
(* exactly while not wanted, and nothing is left to revive a closed client *)
(* (the handlers of connected, disconnected and errorOccurred, close).     *)
StateTellsTheTruth == C!StateTellsTheTruth

(* TcpClientTransport: a wanted client of a server that is up connects.    *)
Reconnects == C!Reconnects

(* Both outputs keep the promise of Transport to the runner, and so do     *)
(* what SimulationRunner assumes of a client and of a listener.            *)
OutputsAreTransports == C!IsATransport /\ S!IsATransport

(* The servers: no client is left behind by a disconnection, an error, a   *)
(* stop or a restart, and the count on display is right.                   *)
ClientsAreAttached == S!ClientsAreAttached

(* emit_sentences: each consumer gets every line of the run since it was   *)
(* attached, in order, whatever happens to the other output.               *)
EveryLineArrives ==
    /\ S!StreamIsWhole
    /\ \A i \in 1 .. Len(stream) : stream[i] = line - Len(stream) + i
    /\ \A p \in clients : \A i \in 1 .. Len(got[p]) :
          ssocket[p] = "connected" /\ got[p][i] # S!Hello =>
             got[p][i] = line - Len(got[p]) + i
=============================================================================
