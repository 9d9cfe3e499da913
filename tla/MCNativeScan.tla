---------------------------- MODULE MCNativeScan ----------------------------
(* Two tasks and a restart of the planner node.                              *)
EXTENDS NativeScan

=============================================================================
