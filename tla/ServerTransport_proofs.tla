----------------------- MODULE ServerTransport_proofs -----------------------
(***************************************************************************)
(* Proofs about ServerTransport for every finite set of peers, with or     *)
(* without the greeting.  ClientsAreAttached is not inductive: that an     *)
(* accepted client belongs to an open server needs that the listen queue   *)
(* of a server that is not open is empty (OnlyWhileOpen).                  *)
(***************************************************************************)
EXTENDS ServerTransport, FiniteSetTheorems, TLAPS

OnlyWhileOpen == \A p \in Peers : socket[p] # "away" => state = "Open"

(* ClientsAreAttached, with the count apart.                               *)
Attached == clients = {p \in Peers : socket[p] \in {"connected", "closing"}}

Counted == count = Cardinality(clients)

IInv == TypeOK /\ OnlyWhileOpen /\ Attached /\ Counted /\ StreamIsWhole

-----------------------------------------------------------------------------
LEMMA ClientsAreFinite ==
    ASSUME ServerAssumption, NEW held \in SUBSET Peers
    PROVE  Cardinality(held) \in Nat
  BY FS_Subset, FS_CardinalityType DEF ServerAssumption

LEMMA NoClients == Cardinality({}) = 0
  BY FS_EmptySet

(* The three parts of the invariant are what ClientsAreAttached says.      *)
LEMMA AttachedFacts == IInv => ClientsAreAttached
  BY DEF IInv, TypeOK, OnlyWhileOpen, Attached, Counted, ClientsAreAttached

LEMMA NothingGot == [p \in Peers |-> <<>>] \in [Peers -> Seq(Lines \cup {Hello})]
  OBVIOUS

LEMMA InitInv == ServerAssumption /\ Init => IInv
<1> SUFFICES ASSUME ServerAssumption, Init PROVE IInv OBVIOUS
<1>1. TypeOK BY NothingGot DEF Init, TypeOK, Sockets
<1>2. Counted BY NoClients DEF Init, Counted
<1>3. OnlyWhileOpen /\ Attached /\ StreamIsWhole
  BY DEF Init, OnlyWhileOpen, Attached, StreamIsWhole
<1> QED BY <1>1, <1>2, <1>3 DEF IInv

LEMMA OpenInv == IInv /\ Open => IInv'
  BY DEF IInv, TypeOK, OnlyWhileOpen, Attached, Counted, StreamIsWhole, Open

LEMMA CloseInv == ServerAssumption /\ Close => IInv'
<1> SUFFICES ASSUME ServerAssumption, Close PROVE IInv' OBVIOUS
<1>1. TypeOK' BY NothingGot DEF Close, TypeOK, Sockets
<1>2. Counted' BY NoClients DEF Close, Counted
<1>3. OnlyWhileOpen' /\ Attached' /\ StreamIsWhole'
  BY DEF Close, OnlyWhileOpen, Attached, StreamIsWhole
<1> QED BY <1>1, <1>2, <1>3 DEF IInv

(* A line goes to the connected clients of an open server, and there are   *)
(* clients only while it is open.                                          *)
LEMMA WriteInv ==
    ASSUME IInv, NEW line \in Lines, Write(line)
    PROVE  IInv'
<1> DEFINE sent == IF state = "Open" THEN {p \in clients : socket[p] = "connected"} ELSE {}
<1>1. sent = {p \in Peers : socket[p] = "connected" /\ p \in clients}
  BY DEF IInv, TypeOK, OnlyWhileOpen
<1>2. /\ got' = [p \in Peers |-> IF p \in sent THEN Append(got[p], line) ELSE got[p]]
      /\ due' = [p \in Peers |-> IF socket[p] = "connected" /\ p \in clients
                                 THEN Append(due[p], line) ELSE due[p]]
      /\ UNCHANGED <<state, clients, socket, count>>
  BY DEF Write
<1> HIDE DEF sent
<1>3. TypeOK'
  <2>1. ASSUME NEW s \in Seq(Lines \cup {Hello})
        PROVE  Append(s, line) \in Seq(Lines \cup {Hello})
    OBVIOUS
  <2>2. ASSUME NEW p \in Peers
        PROVE  got[p] \in Seq(Lines \cup {Hello}) /\ due[p] \in Seq(Lines \cup {Hello})
    BY DEF IInv, TypeOK
  <2>3. /\ got' \in [Peers -> Seq(Lines \cup {Hello})]
        /\ due' \in [Peers -> Seq(Lines \cup {Hello})]
    BY <1>2, <2>1, <2>2
  <2> QED BY <1>2, <2>3 DEF IInv, TypeOK
<1>4. StreamIsWhole' BY <1>1, <1>2 DEF IInv, TypeOK, StreamIsWhole
<1>5. OnlyWhileOpen' /\ Attached' /\ Counted'
  BY <1>2 DEF IInv, OnlyWhileOpen, Attached, Counted
<1> QED BY <1>3, <1>4, <1>5 DEF IInv

LEMMA ConnectInv ==
    ASSUME IInv, NEW p \in Peers, Connect(p)
    PROVE  IInv'
  BY DEF IInv, TypeOK, Sockets, OnlyWhileOpen, Attached, Counted, StreamIsWhole, Connect

LEMMA HangUpInv ==
    ASSUME IInv, NEW p \in Peers, HangUp(p)
    PROVE  IInv'
  BY DEF IInv, TypeOK, Sockets, OnlyWhileOpen, Attached, Counted, StreamIsWhole, HangUp

(* Every pending connection becomes a client, greeted before any line.     *)
LEMMA AcceptInv == ServerAssumption /\ IInv /\ AcceptConnections => IInv'
<1> SUFFICES ASSUME ServerAssumption, IInv, AcceptConnections PROVE IInv' OBVIOUS
<1> DEFINE pending == {p \in Peers : socket[p] = "pending"}
           hello == IF Greets THEN <<Hello>> ELSE <<>>
<1>1. /\ clients' = clients \cup pending
      /\ socket' = [p \in Peers |-> IF p \in pending THEN "connected" ELSE socket[p]]
      /\ count' = Cardinality(clients')
      /\ got' = [p \in Peers |-> IF p \in pending THEN hello ELSE got[p]]
      /\ due' = [p \in Peers |-> IF p \in pending THEN hello ELSE due[p]]
      /\ state' = state
  BY DEF AcceptConnections, Greeting
<1>2. hello \in Seq(Lines \cup {Hello})
  <2>1. <<Hello>> \in Seq(Lines \cup {Hello}) /\ <<>> \in Seq(Lines \cup {Hello}) OBVIOUS
  <2> QED BY <2>1
<1> HIDE DEF hello
<1>3. TypeOK'
  <2>1. clients' \in SUBSET Peers BY <1>1 DEF IInv, TypeOK
  <2>2. count' \in Nat BY <1>1, <2>1, ClientsAreFinite
  <2>3. socket' \in [Peers -> Sockets] BY <1>1 DEF IInv, TypeOK, Sockets
  <2>4. /\ got' \in [Peers -> Seq(Lines \cup {Hello})]
        /\ due' \in [Peers -> Seq(Lines \cup {Hello})]
    BY <1>1, <1>2 DEF IInv, TypeOK
  <2> QED BY <1>1, <2>1, <2>2, <2>3, <2>4 DEF IInv, TypeOK
<1>4. OnlyWhileOpen' BY <1>1 DEF IInv, TypeOK, OnlyWhileOpen
<1>5. Attached' BY <1>1 DEF IInv, TypeOK, Attached
<1>6. Counted' BY <1>1 DEF Counted
<1>7. StreamIsWhole' BY <1>1 DEF IInv, TypeOK, Attached, StreamIsWhole
<1> QED BY <1>3, <1>4, <1>5, <1>6, <1>7 DEF IInv

(* A client that is dropped is detached, and the count follows.            *)
LEMMA DropInv ==
    ASSUME ServerAssumption, IInv, NEW p \in Peers, DropClient(p)
    PROVE  IInv'
<1>1. /\ socket[p] \in {"connected", "closing"}
      /\ socket' = [socket EXCEPT ![p] = "away"]
      /\ clients' = clients \ {p}
      /\ got' = [got EXCEPT ![p] = <<>>]
      /\ due' = [due EXCEPT ![p] = <<>>]
      /\ state' = state
  BY DEF DropClient
<1>2. p \in clients BY <1>1 DEF IInv, Attached
<1>3. count' = Cardinality(clients') BY <1>2 DEF DropClient
<1>4. clients' \in SUBSET Peers BY <1>1 DEF IInv, TypeOK
<1>5. TypeOK'
  <2>1. count' \in Nat BY <1>3, <1>4, ClientsAreFinite
  <2>2. socket' \in [Peers -> Sockets] BY <1>1 DEF IInv, TypeOK, Sockets
  <2>3. <<>> \in Seq(Lines \cup {Hello}) OBVIOUS
  <2>4. /\ got' \in [Peers -> Seq(Lines \cup {Hello})]
        /\ due' \in [Peers -> Seq(Lines \cup {Hello})]
    BY <1>1, <2>3 DEF IInv, TypeOK
  <2> QED BY <1>1, <1>4, <2>1, <2>2, <2>4 DEF IInv, TypeOK
<1>6. OnlyWhileOpen' BY <1>1 DEF IInv, TypeOK, OnlyWhileOpen
<1>7. Attached' BY <1>1 DEF IInv, TypeOK, Attached
<1>8. Counted' BY <1>3 DEF Counted
<1>9. StreamIsWhole' BY <1>1 DEF IInv, TypeOK, StreamIsWhole
<1> QED BY <1>5, <1>6, <1>7, <1>8, <1>9 DEF IInv

LEMMA NextInv == ServerAssumption /\ IInv /\ [Next]_vars => IInv'
<1> SUFFICES ASSUME ServerAssumption, IInv, [Next]_vars PROVE IInv' OBVIOUS
<1>1. CASE Open BY <1>1, OpenInv
<1>2. CASE Close BY <1>2, CloseInv
<1>3. CASE \E line \in Lines : Write(line) BY <1>3, WriteInv
<1>4. CASE \E p \in Peers : Connect(p) BY <1>4, ConnectInv
<1>5. CASE \E p \in Peers : HangUp(p) BY <1>5, HangUpInv
<1>6. CASE \E p \in Peers : DropClient(p) BY <1>6, DropInv
<1>7. CASE AcceptConnections BY <1>7, AcceptInv
<1>8. CASE UNCHANGED vars
  BY <1>8 DEF IInv, TypeOK, OnlyWhileOpen, Attached, Counted, StreamIsWhole, vars
<1> QED BY <1>1, <1>2, <1>3, <1>4, <1>5, <1>6, <1>7, <1>8 DEF Next, Event

LEMMA SpecInv == ASSUME ServerAssumption PROVE Spec => []IInv
<1>1. Init => IInv BY InitInv
<1>2. IInv /\ [Next]_vars => IInv' BY NextInv
<1> QED BY <1>1, <1>2, PTL DEF Spec

-----------------------------------------------------------------------------
(* No client is left behind by any order of connections, disconnections,   *)
(* errors and closings, and the count on display is their number           *)
(* (accept_connections, drop_client, close).                               *)
THEOREM NoStrayClient == ASSUME ServerAssumption PROVE Spec => []ClientsAreAttached
<1>1. IInv => ClientsAreAttached BY AttachedFacts
<1> QED BY <1>1, SpecInv, PTL

(* A client gets the hello first and then every line written since it was  *)
(* attached (accept_connections, write).                                   *)
THEOREM StreamsAreWhole == ASSUME ServerAssumption PROVE Spec => []StreamIsWhole
<1>1. IInv => StreamIsWhole BY DEF IInv
<1> QED BY <1>1, SpecInv, PTL

(* A step of a server is one that Transport allows a listener.             *)
LEMMA TransportStep == [Next]_vars => [T!Next]_state
<1> SUFFICES ASSUME [Next]_vars PROVE [T!Next]_state OBVIOUS
<1>1. CASE Open
  <2>1. T!OpenOutcomes("listener") = {"Open", "Failed"} BY DEF T!OpenOutcomes
  <2> QED BY <1>1, <2>1 DEF Open, T!Next, T!Open
<1>2. CASE Close BY <1>2 DEF Close, T!Next, T!Close
<1>3. CASE UNCHANGED state BY <1>3
<1> QED BY <1>1, <1>2, <1>3
        DEF Next, Event, Write, Connect, HangUp, DropClient, AcceptConnections, vars

(* A server implements Transport for a link of kind "listener": its state  *)
(* changes in open and close only, never by what its clients do.           *)
THEOREM ServerIsATransport == Spec => IsATransport
<1>1. Init => T!Init BY DEF Init, T!Init
<1> QED BY <1>1, TransportStep, PTL DEF Spec, IsATransport, T!Spec
=============================================================================
