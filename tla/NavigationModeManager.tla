----------------------- MODULE NavigationModeManager -----------------------
(***************************************************************************)
(* navdog::NavigationModeManager: whether a task follows its route or      *)
(* avoids an obstacle, decided once per update from the corridor and the   *)
(* obstacle summary, with confirmation times against flicker.              *)
(*                                                                         *)
(* The manager is driven by any caller: it may be told of a new task with  *)
(* or without a reset, and may be left alone for any time (the coordinator *)
(* does not call it while the task is paused or the robot is unknown).     *)
(***************************************************************************)
EXTENDS NavigationMode, Timers

CONSTANTS
  EnterConfirm, (* navigation_mode.enter_confirm_sec, in ticks               *)
  MinHold,      (* min_local_avoid_hold_sec                                  *)
  ExitConfirm,  (* exit_clear_confirm_sec                                    *)
  ModeTasks     (* the tasks a caller may pass: records [sequence, mode]     *)

ASSUME ModeConfigAssumption ==
  /\ EnterConfirm \in Nat
  /\ MinHold \in Nat
  /\ ExitConfirm \in Nat
  /\ ModeTasks \subseteq
       [sequence : Nat \ {0}, mode : {"NORMAL_AVOID", "ROUTE_ONLY", "CHARGING"}]
  /\ \A t1, t2 \in ModeTasks : t1.sequence = t2.sequence => t1 = t2

VARIABLES
  mode,        (* status_.mode                                               *)
  active,      (* the task of active_task_sequence_, NoTask if none          *)
  blocked_age, (* blocked_candidate_: since the block was first seen         *)
  clear_age,   (* clear_candidate_: since the exit was first possible        *)
  hold_age     (* since mode_enter_stamp_sec                                 *)

modeVars == <<mode, active, blocked_age, clear_age, hold_age>>

NoTask == [sequence |-> 0, mode |-> "NORMAL_AVOID"]

ModeInit ==
  /\ mode = "NONE"
  /\ active = NoTask
  /\ blocked_age = Off
  /\ clear_age = Off
  /\ hold_age = Off

(* Variant: only the number of the task is forgotten.                        *)
ModeResetNumber ==
  /\ mode' = "NONE"
  /\ active' = [active EXCEPT !.sequence = 0]
  /\ blocked_age' = Off
  /\ clear_age' = Off
  /\ hold_age' = Off

ModeReset ==
  /\ mode' = "NONE"
  /\ active' = NoTask
  /\ blocked_age' = Off
  /\ clear_age' = Off
  /\ hold_age' = Off

-----------------------------------------------------------------------------
(* What the update works on once initializeForTask has run: a task that is   *)
(* not the active one starts on the route, with no candidate.                *)
IsNew(task) == mode = "NONE" \/ task.sequence # active.sequence
From(task)  == IF IsNew(task) THEN "ROUTE_FOLLOW" ELSE mode
BlockedCandidate(task) == IF IsNew(task) THEN Off ELSE blocked_age
ClearCandidate(task)   == IF IsNew(task) THEN Off ELSE clear_age
Hold(task)             == IF IsNew(task) THEN 0 ELSE hold_age

(* Variant: the hold time counts on from the previous mode.                  *)
TransitionToKeepingHold(task, to) ==
  /\ mode' = to
  /\ blocked_age' = Off
  /\ clear_age' = Off
  /\ hold_age' = Hold(task)

(* Variant: a transition leaves the candidates running.                      *)
TransitionToKeepingCandidates(task, to) ==
  /\ mode' = to
  /\ blocked_age' = BlockedCandidate(task)
  /\ clear_age' = ClearCandidate(task)
  /\ hold_age' = 0

TransitionTo(task, to) ==
  /\ mode' = to
  /\ blocked_age' = Off
  /\ clear_age' = Off
  /\ hold_age' = 0

Stays(task, blocked, clear) ==
  /\ mode' = From(task)
  /\ blocked_age' = blocked
  /\ clear_age' = clear
  /\ hold_age' = Hold(task)

(* WAITING_FOR_CORRIDOR and every result the coordinator takes for a failure:*)
(* the mode is kept, and so are the candidates.                              *)
UpdateUnobserved(task, corridor) ==
  /\ corridor \notin Usable
  /\ Stays(task, BlockedCandidate(task), ClearCandidate(task))

(* ROUTE_FOLLOW, the route blocked within range.                             *)
UpdateBlockedRouteOnly(task, corridor) ==
  /\ From(task) = "ROUTE_FOLLOW" /\ corridor \in BlockedInRange
  /\ ~AvoidanceAllowed(task.mode)
  /\ Stays(task, BlockedCandidate(task), ClearCandidate(task))

UpdateEnterImmediately(task, corridor) ==
  /\ From(task) = "ROUTE_FOLLOW" /\ corridor = "BLOCKED_IMMEDIATE"
  /\ AvoidanceAllowed(task.mode)
  /\ TransitionTo(task, "LOCAL_AVOID")

(* Variant: every blocked frame starts the confirmation anew.                *)
UpdateRestartBlocked(task, corridor) ==
  /\ From(task) = "ROUTE_FOLLOW" /\ corridor = "BLOCKED_NEAR"
  /\ AvoidanceAllowed(task.mode)
  /\ IF EnterConfirm = 0
       THEN TransitionTo(task, "LOCAL_AVOID")
       ELSE Stays(task, 0, ClearCandidate(task))

UpdateConfirmBlocked(task, corridor) ==
  /\ From(task) = "ROUTE_FOLLOW" /\ corridor = "BLOCKED_NEAR"
  /\ AvoidanceAllowed(task.mode)
  /\ LET held == Started(BlockedCandidate(task)) IN
       IF held >= EnterConfirm
         THEN TransitionTo(task, "LOCAL_AVOID")
         ELSE Stays(task, held, ClearCandidate(task))

(* ROUTE_FOLLOW, the route not blocked within range.                         *)
UpdateFree(task, corridor) ==
  /\ From(task) = "ROUTE_FOLLOW"
  /\ corridor \in Usable \ BlockedInRange
  /\ Stays(task, Off, ClearCandidate(task))

(* LOCAL_AVOID is left when it has been held long enough and the route and   *)
(* the surroundings have been clear for the confirmation time.               *)
(* Variant: the surroundings are not asked.                                  *)
ExitConditionsOfRoute(task, corridor, obstacles) ==
  /\ Hold(task) >= MinHold
  /\ corridor = "CLEAR"

ExitConditions(task, corridor, obstacles) ==
  /\ Hold(task) >= MinHold
  /\ MayLeaveAvoid(corridor, obstacles)

UpdateAvoid(task, corridor, obstacles) ==
  /\ From(task) = "LOCAL_AVOID" /\ corridor \in Usable
  /\ ~ExitConditions(task, corridor, obstacles)
  /\ Stays(task, BlockedCandidate(task), Off)

(* Variant: every clear frame starts the confirmation anew.                  *)
UpdateRestartClear(task, corridor, obstacles) ==
  /\ From(task) = "LOCAL_AVOID" /\ corridor \in Usable
  /\ ExitConditions(task, corridor, obstacles)
  /\ IF ExitConfirm = 0
       THEN TransitionTo(task, "ROUTE_FOLLOW")
       ELSE Stays(task, BlockedCandidate(task), 0)

UpdateConfirmClear(task, corridor, obstacles) ==
  /\ From(task) = "LOCAL_AVOID" /\ corridor \in Usable
  /\ ExitConditions(task, corridor, obstacles)
  /\ LET held == Started(ClearCandidate(task)) IN
       IF held >= ExitConfirm
         THEN TransitionTo(task, "ROUTE_FOLLOW")
         ELSE Stays(task, BlockedCandidate(task), held)

ModeUpdate(task, corridor, obstacles) ==
  /\ active' = task
  /\ \/ UpdateUnobserved(task, corridor)
     \/ UpdateBlockedRouteOnly(task, corridor)
     \/ UpdateEnterImmediately(task, corridor)
     \/ UpdateConfirmBlocked(task, corridor)
     \/ UpdateFree(task, corridor)
     \/ UpdateAvoid(task, corridor, obstacles)
     \/ UpdateConfirmClear(task, corridor, obstacles)

ModeTick ==
  /\ blocked_age' = Aged(blocked_age, EnterConfirm)
  /\ clear_age' = Aged(clear_age, ExitConfirm)
  /\ hold_age' = Aged(hold_age, MinHold)
  /\ UNCHANGED <<mode, active>>

=============================================================================
