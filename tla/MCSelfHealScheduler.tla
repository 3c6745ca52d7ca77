------------------------- MODULE MCSelfHealScheduler -------------------------
(* SelfHealScheduler for TLC: weeks of two days, three days in all.          *)
EXTENDS SelfHealScheduler
=============================================================================
