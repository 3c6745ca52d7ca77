------------------------------ MODULE MCVerifier ------------------------------
(* Verifier for TLC: a fix and a pull request that share a file, each with one *)
(* of its own, and a file of the fix that is no module.                        *)
EXTENDS Verifier

CONSTANTS both, prOnly, fixOnly, notebook
=============================================================================
