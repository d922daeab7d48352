--------------------------- MODULE MCReplaySource ---------------------------
(***************************************************************************)
(* ReplaySource over small logs: empty, of one entry, with shared offsets  *)
(* at the start and at the end, with a gap, without duration, and with     *)
(* entries that set nothing.                                               *)
(*                                                                         *)
(* The loop of ReplaySource::advance is also written out pass by pass      *)
(* here, and LoopAgrees says that the closed form is what it computes.     *)
(***************************************************************************)
EXTENDS ReplaySource

MCPositions == {-1, 0, 1, 2, 5}
MCFields == {"position", "heading"}

At(offset, sets) == [offset |-> offset, sets |-> sets]

MCLogs ==
    { <<>>,
      <<At(0, {"position"})>>,
      <<At(0, {"position"}), At(0, {"heading"})>>,
      <<At(0, {"position"}), At(1, {}), At(3, {"heading"})>>,
      <<At(0, {"heading"}), At(0, {"position"}), At(2, {"position"}),
        At(2, MCFields)>>,
      <<At(0, MCFields), At(4, {"position"})>> }

-----------------------------------------------------------------------------
(* advance(), pass by pass: p is [clock, cursor, state, finished, out].    *)
RECURSIVE EmitWhileDue(_)
EmitWhileDue(p) ==
    IF p.cursor < Size /\ log[p.cursor + 1].offset <= p.clock
    THEN EmitWhileDue(
           [p EXCEPT !.cursor = @ + 1,
                     !.out = Append(@, p.cursor + 1),
                     !.state = [f \in Fields |->
                                  IF f \in log[p.cursor + 1].sets
                                  THEN p.cursor + 1 ELSE p.state[f]]])
    ELSE p

Rewound(p) == [p EXCEPT !.cursor = 0, !.state = SeedState]

RECURSIVE PassAfterPass(_)
PassAfterPass(p) ==
    LET q == EmitWhileDue(p)
    IN  CASE q.cursor < Size -> q
          [] q.cursor = Size /\ end = "Loop" /\ Duration > 0 ->
               PassAfterPass(Rewound([q EXCEPT !.clock = @ - Duration]))
          [] q.cursor = Size /\ end = "Loop" /\ Duration = 0 ->
               Rewound([q EXCEPT !.clock = 0])
          [] q.cursor = Size /\ end = "Stop" ->
               [q EXCEPT !.clock = Duration, !.finished = TRUE]

Looped(dt) ==
    LET p == [clock |-> clock, cursor |-> cursor, state |-> state,
              finished |-> finished, out |-> <<>>]
    IN  IF Ignored THEN p ELSE PassAfterPass([p EXCEPT !.clock = @ + dt])

(* An advance leaves the clock, the cursor, the state, the end and the     *)
(* sentences where the loop of the code leaves them.                       *)
LoopAgrees ==
    [][\A dt \in Steps :
          Step(dt) =>
              Looped(dt) = [clock |-> clock', cursor |-> cursor',
                            state |-> state', finished |-> finished',
                            out |-> out']]_vars
=============================================================================
