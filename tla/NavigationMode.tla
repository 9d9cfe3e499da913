--------------------------- MODULE NavigationMode ---------------------------
(***************************************************************************)
(* What the navigation sub-mode promises, whatever the confirmation timers *)
(* do: which modes may follow which, on which observation.  The            *)
(* coordinator is modelled over this relation; NavigationModeManager is    *)
(* the detailed component and implements it.                               *)
(***************************************************************************)

Modes == {"NONE", "ROUTE_FOLLOW", "LOCAL_AVOID"}

(* A corridor observation as far as the mode can tell: clear; blocked beyond *)
(* enter_blocked_distance_m, within it, or within immediate_enter_distance_m;*)
(* not usable yet; or an internal error of the gate.                         *)
BlockedInRange == {"BLOCKED_NEAR", "BLOCKED_IMMEDIATE"}
Blocked        == {"BLOCKED_FAR"} \cup BlockedInRange
Usable         == {"CLEAR"} \cup Blocked
Corridors      == Usable \cup {"WAITING", "INVALID"}

(* The obstacle summary: not valid, closer than the exit clearances, free.   *)
Obstacles == {"invalid", "close", "free"}

AvoidanceAllowed(taskMode) == taskMode \in {"NORMAL_AVOID", "CHARGING"}

(* A task the mode has not seen yet starts on the route.                     *)
Initialized(mode) == IF mode = "NONE" THEN "ROUTE_FOLLOW" ELSE mode

MayEnterAvoid(taskMode, corridor) ==
  AvoidanceAllowed(taskMode) /\ corridor \in BlockedInRange

MayLeaveAvoid(corridor, obstacles) ==
  corridor = "CLEAR" /\ obstacles = "free"

(* The modes one update may end in.                                          *)
ModesAfter(mode, taskMode, corridor, obstacles) ==
  LET from == Initialized(mode) IN
  {to \in {"ROUTE_FOLLOW", "LOCAL_AVOID"} :
     \/ to = from /\ ~(/\ from = "ROUTE_FOLLOW"
                       /\ AvoidanceAllowed(taskMode)
                       /\ corridor = "BLOCKED_IMMEDIATE")
     \/ from = "ROUTE_FOLLOW" /\ to = "LOCAL_AVOID"
          /\ MayEnterAvoid(taskMode, corridor)
     \/ from = "LOCAL_AVOID" /\ to = "ROUTE_FOLLOW"
          /\ MayLeaveAvoid(corridor, obstacles)}

=============================================================================
