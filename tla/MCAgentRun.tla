----------------------------- MODULE MCAgentRun -----------------------------
(* AgentRun for TLC: two source files and a page of the documentation.  One  *)
(* source file holds a token twice, the other every token once.              *)
EXTENDS AgentRun

CONSTANTS src, lib, doc, x, y

Contents == [p \in {src, lib, doc} |-> IF p = lib THEN <<x, x>> ELSE <<x, y>>]
=============================================================================
