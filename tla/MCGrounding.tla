----------------------------- MODULE MCGrounding -----------------------------
(* Grounding for TLC.                                                         *)
EXTENDS Grounding
=============================================================================
