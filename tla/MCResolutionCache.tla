------------------------- MODULE MCResolutionCache -------------------------
(* ResolutionCache for TLC: a maintainer's signal, a bot's, which GitHub     *)
(* calls a member too, and a remark.  The comment that is posted fills the   *)
(* last page of three comments, or begins a page after four, before a fetch  *)
(* or between two of its requests.                                           *)
EXTENDS ResolutionCache, TLC

Signal == [bot |-> FALSE, maintainer |-> TRUE, signal |-> TRUE]
BotSignal == [Signal EXCEPT !.bot = TRUE]
Remark == [bot |-> FALSE, maintainer |-> FALSE, signal |-> FALSE]
KindsOf == {Signal, BotSignal, Remark}
Started == {<<Remark, Signal, Remark>>, <<Remark, Remark, Remark, Signal>>}

CONSTANTS t1, t2, i1, i2
Symmetry == Permutations({t1, t2}) \cup Permutations({i1, i2})
=============================================================================
