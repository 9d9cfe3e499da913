--------------------------- MODULE MCScanTakeover ---------------------------
(* No commands arrive here: only who drives matters.                         *)
EXTENDS ScanTakeover

Handovers == TakeoverSpec /\ TakeoverFairness

=============================================================================
