---------------------------- MODULE MCRemediation ----------------------------
(* Remediation for TLC; calls and patterns are interchangeable.            *)
EXTENDS Remediation, TLC

Symmetry == Permutations(Calls) \cup Permutations(Patterns)
=============================================================================
