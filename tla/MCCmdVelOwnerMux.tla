-------------------------- MODULE MCCmdVelOwnerMux --------------------------
(* Reverse, stand and forward commands; every message in any order.          *)
EXTENDS CmdVelOwnerMux

MCCommands == {-1, 0, 2}

MuxForEver == MuxSpec /\ MuxFairness

=============================================================================
