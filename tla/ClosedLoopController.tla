------------------------ MODULE ClosedLoopController ------------------------
(***************************************************************************)
(* closed_loop_controller: which trajectory native SCAN's controller is    *)
(* following.  A takeover_sync throws it away and makes the controller     *)
(* wait for one that starts where the robot is; accepting that one is      *)
(* announced, once, on /native_scan/takeover_ready.  The velocity that the *)
(* controller computes from its trajectory is left out.                    *)
(*                                                                         *)
(* A topic is the set of what is under way on it, at most the last message.*)
(***************************************************************************)

VARIABLES
  receive_traj, (* receive_traj: a trajectory is being followed              *)
  waiting,      (* waiting_takeover_trajectory                               *)
  ready_msg     (* under way on /native_scan/takeover_ready                  *)

controllerVars == <<receive_traj, waiting, ready_msg>>

ControllerInit ==
  /\ receive_traj = FALSE
  /\ waiting = FALSE
  /\ ready_msg = {FALSE}

ControllerReset ==
  /\ receive_traj' = FALSE
  /\ waiting' = FALSE
  /\ ready_msg' = {FALSE}

(* Variant: the flush is not announced.                                      *)
TakeoverSyncSilent ==
  /\ receive_traj' = FALSE
  /\ waiting' = TRUE
  /\ UNCHANGED ready_msg

TakeoverSync ==
  /\ receive_traj' = FALSE
  /\ waiting' = TRUE
  /\ ready_msg' = {FALSE}

(* Variant: a refused trajectory ends the wait.                              *)
BsplineOnce(anchored) ==
  /\ receive_traj' = (receive_traj \/ anchored \/ ~waiting)
  /\ waiting' = FALSE
  /\ ready_msg' = IF waiting /\ anchored THEN {TRUE} ELSE ready_msg

(* A well-formed B-spline; anchored: it passes within                        *)
(* takeover_anchor_tolerance of the robot.                                   *)
Bspline(anchored) ==
  /\ waiting => anchored
  /\ receive_traj' = TRUE
  /\ waiting' = FALSE
  /\ ready_msg' = IF waiting THEN {TRUE} ELSE ready_msg

=============================================================================
