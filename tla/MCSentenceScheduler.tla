------------------------ MODULE MCSentenceScheduler ------------------------
(***************************************************************************)
(* SentenceScheduler with one registry sentence and lists of      *)
(* custom sentences that collide in every way the code tells apart: with   *)
(* each other, with the registry and with an id filled in from a position. *)
(***************************************************************************)
EXTENDS SentenceScheduler

MCRegistry == {"RMC"}
MCIds == {"RMC", "BARO", "CUSTOM-1", "CUSTOM-2", "CUSTOM-3"}
MCDefaultPeriod == [id \in MCRegistry |-> 3]
MCDefaultEnabled == [id \in MCRegistry |-> TRUE]
MCGroup == [id \in MCRegistry |-> "gnss"]
MCGroups == {"gnss", "wind"}
MCAutoId == <<"CUSTOM-1", "CUSTOM-2", "CUSTOM-3">>
MCNoId == "none"

Line(id, framed, period) ==
    [id |-> id, framed |-> framed, enabled |-> TRUE, period |-> period]

MCCustomLists ==
    { <<>>,
      <<Line("CUSTOM-2", TRUE, 2), Line("none", TRUE, 0)>>,
      <<Line("RMC", TRUE, 2), Line("BARO", FALSE, 2), Line("BARO", TRUE, 2)>> }
=============================================================================
