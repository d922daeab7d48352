-------------------------- MODULE ServerTransport --------------------------
(***************************************************************************)
(* A server output: TcpServerTransport, or with Greets also                *)
(* WebSocketServerTransport, whose code differs by the greeting only.      *)
(* Clients come and go; every line goes to every client attached when it   *)
(* is written.                                                             *)
(*                                                                         *)
(* QTcpServer and the client sockets are external: a peer waits in the     *)
(* listen queue until newConnection is handled, and a closing socket is    *)
(* still attached until its disconnected signal is handled.                *)
(***************************************************************************)
EXTENDS Naturals, Sequences, FiniteSets

CONSTANTS
    Peers,     \* the hosts that may connect
    Greets,    \* TRUE when a new client is sent the Signal K hello first
    Lines      \* the lines the runner may write

Hello == 0    \* the greeting, among lines numbered from 1

(* What the constants must satisfy, whatever instantiates this module.    *)
ServerAssumption ==
    /\ IsFiniteSet(Peers)
    /\ Greets \in BOOLEAN
    /\ Hello \notin Lines

VARIABLES
    state,      \* state_, as in Transport
    clients,    \* clients_
    socket,     \* the socket of each peer
    count,      \* history: the last client_count_changed
    got,        \* history: what was sent to each peer since it was attached
    due         \* history: what was written since then

vars == <<state, clients, socket, count, got, due>>

Sockets == {"away", "pending", "connected", "closing"}

(* Mutant of Greeting: no hello is sent.                                   *)
Greeting_Missing == <<>>

Greeting == IF Greets THEN <<Hello>> ELSE <<>>

Init ==
    /\ state = "Closed"
    /\ clients = {}
    /\ socket = [p \in Peers |-> "away"]
    /\ count = 0
    /\ got = [p \in Peers |-> <<>>]
    /\ due = [p \in Peers |-> <<>>]

(* open(): does nothing while open; the port may be taken.                 *)
Open ==
    /\ state' \in IF state = "Open" THEN {"Open"} ELSE {"Open", "Failed"}
    /\ UNCHANGED <<clients, socket, count, got, due>>

(* close(): the clients are detached before they are closed, so that one   *)
(* count of 0 is emitted; the listen queue goes with the server.           *)
Close ==
    /\ clients' = {}
    /\ socket' = [p \in Peers |-> "away"]
    /\ state' = "Closed"
    /\ count' = 0
    /\ got' = [p \in Peers |-> <<>>]
    /\ due' = [p \in Peers |-> <<>>]

Write(line) ==
    LET sent == IF state = "Open"
                THEN {p \in clients : socket[p] = "connected"} ELSE {}
    IN  /\ got' = [p \in Peers |-> IF p \in sent THEN Append(got[p], line) ELSE got[p]]
        /\ due' = [p \in Peers |-> IF socket[p] = "connected" /\ p \in clients
                                   THEN Append(due[p], line) ELSE due[p]]
        /\ UNCHANGED <<state, clients, socket, count>>

(* A peer connects; the kernel queues it until the event loop runs.        *)
Connect(p) ==
    /\ state = "Open"
    /\ socket[p] = "away"
    /\ socket' = [socket EXCEPT ![p] = "pending"]
    /\ UNCHANGED <<state, clients, count, got, due>>

(* accept_connections(): every pending connection, greeted first.          *)
AcceptConnections ==
    LET pending == {p \in Peers : socket[p] = "pending"}
    IN  /\ pending # {}
        /\ clients' = clients \cup pending
        /\ socket' = [p \in Peers |-> IF p \in pending THEN "connected" ELSE socket[p]]
        /\ count' = Cardinality(clients')
        /\ got' = [p \in Peers |-> IF p \in pending THEN Greeting ELSE got[p]]
        /\ due' = [p \in Peers |-> IF p \notin pending THEN due[p]
                                  ELSE IF Greets THEN <<Hello>> ELSE <<>>]
        /\ UNCHANGED state

(* The peer hangs up: lines are no longer written to it.                   *)
HangUp(p) ==
    /\ socket[p] = "connected"
    /\ socket' = [socket EXCEPT ![p] = "closing"]
    /\ UNCHANGED <<state, clients, count, got, due>>

(* Mutant of DropClient: the count is not reported.                        *)
DropClient_Silent(p) ==
    /\ socket[p] \in {"connected", "closing"}
    /\ socket' = [socket EXCEPT ![p] = "away"]
    /\ clients' = clients \ {p}
    /\ got' = [got EXCEPT ![p] = <<>>]
    /\ due' = [due EXCEPT ![p] = <<>>]
    /\ UNCHANGED <<state, count>>

(* drop_client(): for a disconnection, an error or both.                   *)
DropClient(p) ==
    /\ socket[p] \in {"connected", "closing"}
    /\ socket' = [socket EXCEPT ![p] = "away"]
    /\ clients' = clients \ {p}
    /\ count' = IF p \in clients THEN Cardinality(clients') ELSE count
    /\ got' = [got EXCEPT ![p] = <<>>]
    /\ due' = [due EXCEPT ![p] = <<>>]
    /\ UNCHANGED state

Event ==
    \/ \E p \in Peers : Connect(p) \/ HangUp(p) \/ DropClient(p)
    \/ AcceptConnections

Next == Open \/ Close \/ (\E line \in Lines : Write(line)) \/ Event

Spec == Init /\ [][Next]_vars

Fairness == WF_vars(AcceptConnections)

-----------------------------------------------------------------------------
TypeOK ==
    /\ state \in {"Closed", "Open", "Failed"}
    /\ clients \subseteq Peers
    /\ socket \in [Peers -> Sockets]
    /\ count \in Nat
    /\ got \in [Peers -> Seq(Lines \cup {Hello})]
    /\ due \in [Peers -> Seq(Lines \cup {Hello})]

(* No stray client: a client is held exactly while its socket is attached  *)
(* to an open server, and the count on display is their number.            *)
ClientsAreAttached ==
    /\ clients = {p \in Peers : socket[p] \in {"connected", "closing"}}
    /\ clients # {} => state = "Open"
    /\ count = Cardinality(clients)

(* An attached client gets the hello before anything else, and then every  *)
(* line written since it was attached, in order, with none left out.       *)
StreamIsWhole == \A p \in clients : socket[p] = "connected" => got[p] = due[p]

(* What the runner is promised: see Transport.                             *)
T == INSTANCE Transport WITH kind <- "listener"
IsATransport == T!Spec
=============================================================================
