--------------------------- MODULE MCWeeklyReport ---------------------------
(* WeeklyReport for TLC: refusals by design, which end a run, a log record   *)
(* of a failure handled upstream, which six refusals outweigh, and           *)
(* investigations without confidence, which outweigh both.                   *)
EXTENDS WeeklyReport, TLC

CONSTANTS a, b

ClassOf ==
    [f \in 1..3 |-> IF f = 1 THEN "by_design" ELSE IF f = 2 THEN "handled_upstream" ELSE "quality"]

Symmetry == Permutations({a, b})
=============================================================================
