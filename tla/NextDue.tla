------------------------------ MODULE NextDue ------------------------------
(***************************************************************************)
(* The cadence rule shared by the sentence schedule and by the state       *)
(* messages of the runner: when a periodic message that was due at `due'   *)
(* and is sent at `now' is due again (sentence_scheduler.cpp).             *)
(***************************************************************************)
EXTENDS Integers

(* Mutants of NextDueAfter: every missed slot is made up for, or the       *)
(* cadence is counted from the late emission.                              *)
NextDueAfter_CatchesUp(due, now, period) == due + period
NextDueAfter_Drifts(due, now, period) == now + period

NextDueAfter(due, now, period) ==
    IF due + period > now THEN due + period ELSE now + period

(* The test in front of every use of the rule: enabled, and not early.     *)
IsDue(entry, now) == entry.enabled /\ entry.next_due <= now

(* An entry after one round at time `now'.                                 *)
Advanced(entry, now) ==
    IF IsDue(entry, now)
    THEN [entry EXCEPT !.next_due = NextDueAfter(@, now, entry.period)]
    ELSE entry
=============================================================================
