--------------------------- MODULE FanOut_proofs ---------------------------
(***************************************************************************)
(* Proofs about FanOut for every interval, every finite set of peers and   *)
(* every number of lines.  A step of the whole is a step of the client or  *)
(* leaves it alone, and likewise for the server (ClientStep, ServerStep),  *)
(* so that what is proved of each output holds of both side by side.       *)
(*                                                                         *)
(* CP and SP are C and S together with the theorems about them; the first  *)
(* lemmas say that they are the same specifications.                       *)
(***************************************************************************)
EXTENDS FanOut, SequenceTheorems, TLAPS

CP == INSTANCE TcpClientTransport_proofs WITH state <- cstate, socket <- csocket
SP == INSTANCE ServerTransport_proofs WITH state <- sstate, socket <- ssocket

IInv == CP!IInv /\ SP!IInv /\ running \in BOOLEAN /\ line \in 0 .. MaxLines

-----------------------------------------------------------------------------
LEMMA SameClient ==
    /\ C!Init <=> CP!Init
    /\ C!Open <=> CP!Open
    /\ C!Close <=> CP!Close
    /\ \A l \in Lines : C!Write(l) <=> CP!Write(l)
    /\ C!Event <=> CP!Event
<1>1. C!Init <=> CP!Init BY Zenon DEF C!Init, CP!Init, C!NoTimer, CP!NoTimer
<1>2. C!Open <=> CP!Open
  BY Zenon DEF C!Open, CP!Open, C!this, CP!this, C!Becomes, CP!Becomes,
               C!ConnectNow, CP!ConnectNow
<1>3. C!Close <=> CP!Close
  BY Zenon DEF C!Close, CP!Close, C!this, CP!this, C!Becomes, CP!Becomes,
               C!OnDisconnected, CP!OnDisconnected,
               C!ScheduleReconnect, CP!ScheduleReconnect, C!NoTimer, CP!NoTimer
<1>4. ASSUME NEW l \in Lines PROVE C!Write(l) <=> CP!Write(l)
  BY Zenon DEF C!Write, CP!Write
<1>5. C!Event <=> CP!Event
  BY Zenon DEF C!Event, CP!Event, C!Timeout, CP!Timeout, C!Connected, CP!Connected,
               C!Refused, CP!Refused, C!Drop, CP!Drop, C!ServerChange, CP!ServerChange,
               C!PassTime, CP!PassTime, C!this, CP!this, C!Becomes, CP!Becomes,
               C!OnConnected, CP!OnConnected, C!OnError, CP!OnError,
               C!OnDisconnected, CP!OnDisconnected, C!ConnectNow, CP!ConnectNow,
               C!ScheduleReconnect, CP!ScheduleReconnect, C!NoTimer, CP!NoTimer
<1> QED BY <1>1, <1>2, <1>3, <1>4, <1>5

LEMMA SameServer ==
    /\ S!Init <=> SP!Init
    /\ S!Open <=> SP!Open
    /\ S!Close <=> SP!Close
    /\ \A l \in Lines : S!Write(l) <=> SP!Write(l)
    /\ S!Event <=> SP!Event
<1>1. S!Init <=> SP!Init BY Zenon DEF S!Init, SP!Init
<1>2. S!Open <=> SP!Open BY Zenon DEF S!Open, SP!Open
<1>3. S!Close <=> SP!Close BY Zenon DEF S!Close, SP!Close
<1>4. ASSUME NEW l \in Lines PROVE S!Write(l) <=> SP!Write(l)
  BY Zenon DEF S!Write, SP!Write
<1>5. S!Event <=> SP!Event
  BY Zenon DEF S!Event, SP!Event, S!Connect, SP!Connect, S!HangUp, SP!HangUp,
               S!DropClient, SP!DropClient, S!AcceptConnections, SP!AcceptConnections,
               S!Greeting, SP!Greeting, S!Hello, SP!Hello,
               S!Cardinality, SP!Cardinality
<1> QED BY <1>1, <1>2, <1>3, <1>4, <1>5

LEMMA SameProperties ==
    /\ CP!RetryOnTime => RetryOnTime
    /\ CP!StateTellsTheTruth => StateTellsTheTruth
    /\ SP!ClientsAreAttached => ClientsAreAttached
    /\ CP!TypeOK => C!TypeOK
    /\ SP!TypeOK => S!TypeOK
<1>1. CP!RetryOnTime => RetryOnTime
  BY Zenon DEF CP!RetryOnTime, RetryOnTime, C!RetryOnTime, C!NoTimer, CP!NoTimer
<1>2. CP!StateTellsTheTruth => StateTellsTheTruth
  BY Zenon DEF CP!StateTellsTheTruth, StateTellsTheTruth, C!StateTellsTheTruth,
               C!NoTimer, CP!NoTimer
<1>3. SP!ClientsAreAttached => ClientsAreAttached
  BY Zenon DEF SP!ClientsAreAttached, ClientsAreAttached, S!ClientsAreAttached,
               S!Cardinality, SP!Cardinality
<1>4. CP!TypeOK => C!TypeOK BY Zenon DEF CP!TypeOK, C!TypeOK, C!NoTimer, CP!NoTimer
<1>5. SP!TypeOK => S!TypeOK
  BY Zenon DEF SP!TypeOK, S!TypeOK, S!Sockets, SP!Sockets, S!Hello, SP!Hello
<1> QED BY <1>1, <1>2, <1>3, <1>4, <1>5

LEMMA ConstantsAreRight ==
    CP!IntervalAssumption /\ SP!ServerAssumption /\ MaxLines \in Nat
<1>1. CP!IntervalAssumption
  BY Zenon, FanOutAssumption DEF C!IntervalAssumption, CP!IntervalAssumption
<1>2. SP!ServerAssumption
  BY Zenon, FanOutAssumption DEF S!ServerAssumption, SP!ServerAssumption, S!Hello, SP!Hello,
                                  S!IsFiniteSet, SP!IsFiniteSet
<1> QED BY <1>1, <1>2, FanOutAssumption

-----------------------------------------------------------------------------
(* The line that is written next is one of the lines.                      *)
LEMMA LineFacts ==
    ASSUME line \in 0 .. MaxLines, EmitLine
    PROVE  line' \in Lines /\ line' \in 0 .. MaxLines
  BY ConstantsAreRight DEF EmitLine, Lines

LEMMA ClientStep ==
    ASSUME IInv, [Next]_vars
    PROVE  [CP!Next]_CP!vars
<1> DEFINE same == UNCHANGED cvars
<1>1. same => [CP!Next]_CP!vars BY DEF cvars, CP!vars
<1>2. CP!Open \/ CP!Close \/ CP!Event => [CP!Next]_CP!vars BY DEF CP!Next
<1>3. ASSUME NEW l \in Lines, CP!Write(l) PROVE [CP!Next]_CP!vars BY <1>3 DEF CP!Next
<1>4. CASE Start BY <1>1, <1>2, <1>4, SameClient DEF Start
<1>5. CASE Stop BY <1>2, <1>5, SameClient DEF Stop
<1>6. CASE EmitLine
  <2>1. line' \in Lines BY <1>6, LineFacts DEF IInv
  <2> QED BY <1>1, <1>3, <1>6, <2>1, SameClient DEF EmitLine
<1>7. CASE ClientEvent BY <1>2, <1>7, SameClient DEF ClientEvent
<1>8. CASE ServerEvent BY <1>1, <1>8 DEF ServerEvent
<1>9. CASE Reopen BY <1>2, <1>9, SameClient DEF Reopen
<1>10. CASE UNCHANGED vars BY <1>1, <1>10 DEF vars
<1> QED BY <1>4, <1>5, <1>6, <1>7, <1>8, <1>9, <1>10 DEF Next

LEMMA ServerStep ==
    ASSUME IInv, [Next]_vars
    PROVE  [SP!Next]_SP!vars
<1> DEFINE same == UNCHANGED svars
<1>1. same => [SP!Next]_SP!vars BY DEF svars, SP!vars
<1>2. SP!Open \/ SP!Close \/ SP!Event => [SP!Next]_SP!vars BY DEF SP!Next
<1>3. ASSUME NEW l \in Lines, SP!Write(l) PROVE [SP!Next]_SP!vars BY <1>3 DEF SP!Next
<1>4. CASE Start BY <1>1, <1>2, <1>4, SameServer DEF Start
<1>5. CASE Stop BY <1>2, <1>5, SameServer DEF Stop
<1>6. CASE EmitLine
  <2>1. line' \in Lines BY <1>6, LineFacts DEF IInv
  <2> QED BY <1>1, <1>3, <1>6, <2>1, SameServer DEF EmitLine
<1>7. CASE ClientEvent BY <1>1, <1>7 DEF ClientEvent
<1>8. CASE ServerEvent BY <1>2, <1>8, SameServer DEF ServerEvent
<1>9. CASE Reopen BY <1>1, <1>9 DEF Reopen
<1>10. CASE UNCHANGED vars BY <1>1, <1>10 DEF vars
<1> QED BY <1>4, <1>5, <1>6, <1>7, <1>8, <1>9, <1>10 DEF Next

LEMMA InitInv == Init => IInv
<1> SUFFICES ASSUME Init PROVE IInv OBVIOUS
<1>1. CP!Init /\ SP!Init /\ ~running /\ running \in BOOLEAN /\ line = 0
  BY SameClient, SameServer DEF Init
<1>2. CP!IInv BY <1>1, ConstantsAreRight, CP!InitInv
<1>3. SP!IInv BY <1>1, ConstantsAreRight, SP!InitInv
<1> QED BY <1>1, <1>2, <1>3, ConstantsAreRight DEF IInv

LEMMA NextInv == IInv /\ [Next]_vars => IInv'
<1> SUFFICES ASSUME IInv, [Next]_vars PROVE IInv' OBVIOUS
<1>1. CP!IInv' BY ConstantsAreRight, ClientStep, CP!NextInv DEF IInv
<1>2. SP!IInv' BY ConstantsAreRight, ServerStep, SP!NextInv DEF IInv
<1>3. line' \in 0 .. MaxLines
  <2>1. CASE EmitLine BY <2>1, LineFacts DEF IInv
  <2>2. CASE line' = 0 BY <2>2, ConstantsAreRight
  <2>3. CASE line' = line BY <2>3 DEF IInv
  <2> QED BY <2>1, <2>2, <2>3
          DEF Next, Start, Stop, ClientEvent, ServerEvent, Reopen, vars
<1>4. running' \in BOOLEAN
  BY DEF IInv, Next, Start, Stop, EmitLine, ClientEvent, ServerEvent, Reopen, vars
<1> QED BY <1>1, <1>2, <1>3, <1>4 DEF IInv

LEMMA SpecInv == Spec => []IInv
  BY InitInv, NextInv, PTL DEF Spec

-----------------------------------------------------------------------------
(* Every variable of the run and of both outputs keeps its type.           *)
THEOREM TypeCorrect == Spec => []TypeOK
<1>1. IInv => TypeOK
  BY SameProperties DEF IInv, CP!IInv, SP!IInv, TypeOK
<1> QED BY <1>1, SpecInv, PTL

(* The client never gives up: whatever signals, attempts and calls of open *)
(* led to a wanted client without a connection, the next attempt follows   *)
(* within the interval (the handlers of TcpClientTransport).               *)
THEOREM RetriesOnTime == Spec => []RetryOnTime
<1>1. IInv => RetryOnTime BY SameProperties DEF IInv, CP!IInv
<1> QED BY <1>1, SpecInv, PTL

(* The state that the runner goes by is that of the socket, and a client   *)
(* closed by stop has nothing left that could revive it (close).           *)
THEOREM StateIsTheTruth == Spec => []StateTellsTheTruth
<1>1. IInv => StateTellsTheTruth BY SameProperties DEF IInv, CP!IInv
<1> QED BY <1>1, SpecInv, PTL

(* No client of the server is left behind by a disconnection, an error, a  *)
(* stop or a restart, whatever the other output does (drop_client, close). *)
THEOREM NoStrayClient == Spec => []ClientsAreAttached
<1>1. SP!IInv => SP!ClientsAreAttached BY SP!AttachedFacts
<1>2. IInv => ClientsAreAttached BY <1>1, SameProperties DEF IInv
<1> QED BY <1>2, SpecInv, PTL

(* Both outputs keep the promise of Transport, which is what the model of  *)
(* the runner assumes of a client and of a listener.                       *)
THEOREM OutputsKeepThePromise == Spec => OutputsAreTransports
<1>1. Init => C!T!Init /\ S!T!Init
  BY DEF Init, C!Init, S!Init, C!T!Init, S!T!Init
<1>2. /\ C!T!Next <=> CP!T!Next
      /\ S!T!Next <=> SP!T!Next
  BY Zenon DEF C!T!Next, CP!T!Next, C!T!Open, CP!T!Open, C!T!Close, CP!T!Close,
               C!T!Event, CP!T!Event, C!T!OpenOutcomes, CP!T!OpenOutcomes,
               C!T!EventOutcomes, CP!T!EventOutcomes, C!T!States, CP!T!States,
               S!T!Next, SP!T!Next, S!T!Open, SP!T!Open, S!T!Close, SP!T!Close,
               S!T!Event, SP!T!Event, S!T!OpenOutcomes, SP!T!OpenOutcomes,
               S!T!EventOutcomes, SP!T!EventOutcomes, S!T!States, SP!T!States
<1>3. IInv /\ [Next]_vars => [C!T!Next]_cstate /\ [S!T!Next]_sstate
  <2> SUFFICES ASSUME IInv, [Next]_vars
               PROVE  [C!T!Next]_cstate /\ [S!T!Next]_sstate
    OBVIOUS
  <2>1. [CP!T!Next]_cstate
    BY ConstantsAreRight, ClientStep, CP!TransportStep DEF IInv
  <2>2. [SP!T!Next]_sstate BY ServerStep, SP!TransportStep
  <2> QED BY <1>2, <2>1, <2>2
<1> QED BY <1>1, <1>3, SpecInv, PTL
        DEF Spec, OutputsAreTransports, C!IsATransport, S!IsATransport, C!T!Spec, S!T!Spec
-----------------------------------------------------------------------------
(* What the peers of a run hold: the last lines written, ending with the   *)
(* last one; nothing without a connection; and a run that is stopped left  *)
(* nothing that could connect.                                             *)
LastLines(s, n) == \A i \in 1 .. Len(s) : s[i] = n - Len(s) + i
AfterHello(s, n) == \A i \in 1 .. Len(s) : s[i] # S!Hello => s[i] = n - Len(s) + i

ClientHolds == LastLines(stream, line) /\ (csocket # "Connected" => stream = <<>>)
ServerHolds == \A p \in clients : ssocket[p] = "connected" => AfterHello(got[p], line)
Stopped == ~running => ~wanted /\ sstate = "Closed"

LInv == IInv /\ ClientHolds /\ ServerHolds /\ Stopped

(* One more line keeps the order.                                          *)
LEMMA NextLine ==
    ASSUME NEW s \in Seq(Nat), NEW n \in Nat
    PROVE  /\ LastLines(s, n) => LastLines(Append(s, n + 1), n + 1)
           /\ AfterHello(s, n) => AfterHello(Append(s, n + 1), n + 1)
  BY DEF LastLines, AfterHello

LEMMA NoLines == \A n \in Nat : LastLines(<<>>, n) /\ AfterHello(S!Greeting, n)
  BY DEF LastLines, AfterHello, S!Greeting

(* What IInv says of the client and the server, in the terms of the model. *)
LEMMA HeldFacts ==
    ASSUME IInv
    PROVE  /\ stream \in Seq(Nat) /\ line \in Nat
           /\ \A p \in Peers : got[p] \in Seq(Nat)
           /\ clients \subseteq Peers
           /\ cstate = "Open" <=> csocket = "Connected"
           /\ ~wanted => csocket = "Unconnected"
           /\ sstate # "Open" => clients = {}
<1>1. C!TypeOK /\ S!TypeOK /\ StateTellsTheTruth /\ ClientsAreAttached
  BY SameProperties, SP!AttachedFacts DEF IInv, CP!IInv, SP!IInv
<1>2. line \in Nat /\ Lines \subseteq Nat BY ConstantsAreRight DEF IInv, Lines
<1>3. Lines \cup {S!Hello} \subseteq Nat BY <1>2 DEF S!Hello
<1>4. stream \in Seq(Nat) BY <1>1, <1>2, SeqMonotonic DEF C!TypeOK
<1>5. ASSUME NEW p \in Peers PROVE got[p] \in Seq(Nat)
  <2>1. got[p] \in Seq(Lines \cup {S!Hello}) BY <1>1 DEF S!TypeOK
  <2> QED BY <1>3, <2>1, SeqMonotonic
<1> QED BY <1>1, <1>2, <1>4, <1>5
        DEF StateTellsTheTruth, C!StateTellsTheTruth, ClientsAreAttached,
            S!ClientsAreAttached, S!TypeOK
LEMMA ClientHoldsOn ==
    ASSUME LInv, [Next]_vars
    PROVE  ClientHolds'
<1>1. /\ stream \in Seq(Nat) /\ line \in Nat
      /\ cstate = "Open" <=> csocket = "Connected"
      /\ ~wanted => csocket = "Unconnected"
      /\ LastLines(stream, line)
      /\ csocket # "Connected" => stream = <<>>
      /\ ~running => ~wanted
  BY HeldFacts DEF LInv, ClientHolds, Stopped
<1>2. line' \in Nat BY NextInv, ConstantsAreRight DEF LInv, IInv
<1>3. CASE Stop
  <2>1. stream' = <<>> BY <1>3 DEF Stop, C!Close
  <2>2. LastLines(stream', line') BY <2>1 DEF LastLines
  <2> QED BY <2>1, <2>2 DEF ClientHolds
<1>4. CASE EmitLine
  <2>1. line' = line + 1 BY <1>4 DEF EmitLine
  <2>2. csocket' = csocket BY <1>4 DEF EmitLine, C!Write, cvars
  <2>3. CASE cstate = "Open"
    <3>1. stream' = Append(stream, line + 1) BY <1>1, <1>4, <2>1, <2>3 DEF EmitLine, C!Write
    <3>2. LastLines(stream', line') BY <1>1, <2>1, <3>1, NextLine
    <3> QED BY <1>1, <2>2, <2>3, <3>2 DEF ClientHolds
  <2>4. CASE cstate # "Open"
    <3>1. stream' = <<>> BY <1>1, <1>4, <2>4 DEF EmitLine, cvars
    <3>2. LastLines(stream', line') BY <3>1 DEF LastLines
    <3> QED BY <3>1, <3>2 DEF ClientHolds
  <2> QED BY <2>3, <2>4
<1>5. CASE Start
  <2>1. stream = <<>> BY <1>1, <1>5 DEF Start
  <2>2. stream' = stream BY <1>5 DEF Start, C!Open, cvars
  <2>3. LastLines(stream', line') BY <2>1, <2>2 DEF LastLines
  <2> QED BY <2>1, <2>2, <2>3 DEF ClientHolds
<1>6. CASE C!Open /\ line' = line
  <2>1. stream' = stream /\ (csocket = "Connected" => csocket' = "Connected")
    BY <1>6 DEF C!Open, C!ConnectNow
  <2> QED BY <1>1, <1>6, <2>1 DEF ClientHolds
<1>7. CASE C!Event /\ line' = line
  <2>1. \/ stream' = <<>>
        \/ stream' = stream /\ (csocket = "Connected" => csocket' = "Connected")
    BY <1>7 DEF C!Event, C!Timeout, C!Connected, C!Refused, C!Drop, C!ServerChange,
                C!PassTime, C!ConnectNow
  <2>2. CASE stream' = <<>>
    <3>1. LastLines(stream', line') BY <2>2 DEF LastLines
    <3> QED BY <2>2, <3>1 DEF ClientHolds
  <2>3. CASE stream' = stream /\ (csocket = "Connected" => csocket' = "Connected")
    BY <1>1, <1>7, <2>3 DEF ClientHolds
  <2> QED BY <2>1, <2>2, <2>3
<1>8. CASE UNCHANGED <<line, stream, csocket>> BY <1>1, <1>8 DEF ClientHolds, LastLines
<1> QED BY <1>3, <1>4, <1>5, <1>6, <1>7, <1>8
        DEF Next, ClientEvent, ServerEvent, Reopen, vars, cvars

LEMMA ServerHoldsOn ==
    ASSUME LInv, [Next]_vars
    PROVE  ServerHolds'
<1>1. /\ line \in Nat /\ clients \subseteq Peers
      /\ \A p \in Peers : got[p] \in Seq(Nat)
      /\ sstate # "Open" => clients = {}
      /\ \A p \in clients : ssocket[p] = "connected" => AfterHello(got[p], line)
      /\ ~running => sstate = "Closed"
  BY HeldFacts DEF LInv, ServerHolds, Stopped
<1>2. S!TypeOK BY SameProperties DEF LInv, IInv, SP!IInv
<1>3. CASE Stop
  <2>1. clients' = {} BY <1>3 DEF Stop, S!Close
  <2> QED BY <2>1 DEF ServerHolds
<1>4. CASE Start
  <2>1. clients' = {} BY <1>1, <1>4 DEF Start, S!Open, svars
  <2> QED BY <2>1 DEF ServerHolds
<1>5. CASE EmitLine
  <2>1. line' = line + 1 /\ clients' = clients /\ ssocket' = ssocket
    BY <1>5 DEF EmitLine, S!Write, svars
  <2> SUFFICES ASSUME NEW p \in clients, ssocket[p] = "connected"
               PROVE  AfterHello(got'[p], line')
    BY <2>1 DEF ServerHolds
  <2>2. sstate = "Open" /\ p \in Peers BY <1>1
  <2>3. got'[p] = Append(got[p], line + 1) BY <1>5, <2>1, <2>2 DEF EmitLine, S!Write
  <2> QED BY <1>1, <2>1, <2>2, <2>3, NextLine
<1>6. CASE S!Event /\ line' = line
  <2> SUFFICES ASSUME NEW p \in clients', ssocket'[p] = "connected"
               PROVE  AfterHello(got'[p], line)
    BY <1>6 DEF ServerHolds
  <2>1. CASE S!AcceptConnections
    <3>1. p \in Peers BY <1>1, <2>1 DEF S!AcceptConnections
    <3>2. CASE ssocket[p] = "pending"
      <4>1. got'[p] = S!Greeting BY <2>1, <3>1, <3>2 DEF S!AcceptConnections
      <4> QED BY <1>1, <4>1, NoLines
    <3>3. CASE ssocket[p] # "pending"
      <4>1. got'[p] = got[p] /\ ssocket[p] = "connected" /\ p \in clients
        BY <2>1, <3>1, <3>3 DEF S!AcceptConnections
      <4> QED BY <1>1, <4>1
    <3> QED BY <3>2, <3>3
  <2>2. ASSUME NEW q \in Peers, S!Connect(q) \/ S!HangUp(q) \/ S!DropClient(q)
        PROVE  p \in clients /\ p # q /\ ssocket[p] = "connected" /\ got'[p] = got[p]
    BY <1>1, <1>2, <2>2 DEF S!TypeOK, S!Connect, S!HangUp, S!DropClient
  <2>3. S!AcceptConnections
          \/ \E q \in Peers : S!Connect(q) \/ S!HangUp(q) \/ S!DropClient(q)
    BY <1>6 DEF S!Event
  <2> QED BY <1>1, <2>1, <2>2, <2>3
<1>7. CASE UNCHANGED <<line, svars>> BY <1>1, <1>7 DEF ServerHolds, svars
<1> QED BY <1>3, <1>4, <1>5, <1>6, <1>7
        DEF Next, ClientEvent, ServerEvent, Reopen, vars

LEMMA StoppedOn ==
    ASSUME LInv, [Next]_vars
    PROVE  Stopped'
<1>1. C!TypeOK BY SameProperties DEF LInv, IInv, CP!IInv
<1>2. CASE Stop
  <2>1. sstate' = "Closed" BY <1>2 DEF Stop, S!Close
  <2>2. ~wanted'
    <3>1. CP!IInv' BY NextInv DEF LInv, IInv
    <3>2. cstate' = "Closed" BY <1>2 DEF Stop, C!Close, C!Becomes, C!this
    <3> QED BY <3>1, <3>2 DEF CP!IInv, CP!StateTellsTheTruth
  <2> QED BY <2>1, <2>2 DEF Stopped
<1>3. CASE running' BY <1>3 DEF Stopped
<1>4. CASE ClientEvent
  <2>1. sstate' = sstate /\ running' = running BY <1>4 DEF ClientEvent, svars
  <2>2. ~wanted => ~wanted'
    <3> SUFFICES ASSUME ~wanted PROVE ~wanted' OBVIOUS
    <3>1. csocket = "Unconnected" BY HeldFacts DEF LInv
    <3>2. C!Timeout \/ C!ServerChange \/ C!PassTime
      BY <1>4, <3>1 DEF ClientEvent, C!Event, C!Connected, C!Refused, C!Drop
    <3> QED BY <3>2 DEF C!Timeout, C!ServerChange, C!PassTime
  <2> QED BY <2>1, <2>2 DEF LInv, Stopped
<1>5. CASE ServerEvent
  <2>1. wanted' = wanted /\ running' = running BY <1>5 DEF ServerEvent, cvars
  <2>2. sstate' = sstate
    BY <1>5 DEF ServerEvent, S!Event, S!Connect, S!HangUp, S!DropClient, S!AcceptConnections
  <2> QED BY <2>1, <2>2 DEF LInv, Stopped
<1>6. CASE UNCHANGED vars BY <1>6 DEF LInv, Stopped, vars, cvars, svars
<1> QED BY <1>2, <1>3, <1>4, <1>5, <1>6 DEF Next, Start, EmitLine, Reopen

LEMMA LinesInv == Spec => []LInv
<1>1. Init => LInv
  <2> SUFFICES ASSUME Init PROVE LInv OBVIOUS
  <2>1. IInv BY InitInv
  <2>2. /\ stream = <<>> /\ ~wanted /\ clients = {} /\ sstate = "Closed"
    BY DEF Init, C!Init, S!Init
  <2>3. LastLines(stream, line) BY <2>2 DEF LastLines
  <2> QED BY <2>1, <2>2, <2>3 DEF LInv, ClientHolds, ServerHolds, Stopped
<1>2. LInv /\ [Next]_vars => LInv'
  BY NextInv, ClientHoldsOn, ServerHoldsOn, StoppedOn DEF LInv
<1> QED BY <1>1, <1>2, PTL DEF Spec

(* Each consumer has every line of the run since it was attached, in       *)
(* order, whatever happens to the other output (emit_sentences).           *)
THEOREM LinesArrive == Spec => []EveryLineArrives
<1>1. LInv => EveryLineArrives
  <2> SUFFICES ASSUME LInv PROVE EveryLineArrives OBVIOUS
  <2>1. S!StreamIsWhole BY DEF LInv, IInv, SP!IInv, SP!StreamIsWhole, S!StreamIsWhole
  <2> QED BY <2>1 DEF LInv, ClientHolds, ServerHolds, LastLines, AfterHello, EveryLineArrives
<1> QED BY <1>1, LinesInv, PTL
=============================================================================
