--------------------------- MODULE MCRunLifecycle ---------------------------
(* RunLifecycle for TLC; the sets are given in the .cfg files.             *)
EXTENDS RunLifecycle
=============================================================================
