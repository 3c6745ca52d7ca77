------------------------------ MODULE MCFixWave ------------------------------
(* FixWave for TLC: two clusters, so that the wave goes on to a second run   *)
(* while the first, whose file cannot be relied on, is verified or mined.    *)
EXTENDS FixWave
=============================================================================
