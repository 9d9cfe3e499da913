------------------------ MODULE NavigationModeTiming ------------------------
(***************************************************************************)
(* The mode manager under any caller, watched by history variables that    *)
(* measure what was observed, independently of the manager's own timers.   *)
(***************************************************************************)
EXTENDS NavigationModeManager

VARIABLES
  seen,        (* the inputs of the last update since a reset                *)
  blocked_for, (* how long every observation has been a block within range   *)
  clear_for,   (* how long every observation has allowed the exit            *)
  steady,      (* how long no update was without an observation either       *)
  stay         (* how long the mode has been held                            *)

history    == <<seen, blocked_for, clear_for, steady, stay>>
timingVars == <<modeVars, history>>

Unseen == [corridor |-> "none", obstacles |-> "none"]

TimingInit ==
  /\ ModeInit
  /\ seen = Unseen
  /\ blocked_for = Off
  /\ clear_for = Off
  /\ steady = Off
  /\ stay = Off

(* An observation of another kind ends the run of one kind, and so does a    *)
(* new task; an update without an observation leaves it as it is.            *)
BlockedRun(run, corridor) ==
  CASE corridor \in BlockedInRange          -> Started(run)
    [] corridor \in Usable \ BlockedInRange -> Off
    [] OTHER                                -> run
ClearRun(run, corridor, obstacles) ==
  CASE MayLeaveAvoid(corridor, obstacles) -> Started(run)
    [] corridor \notin Usable             -> run
    [] OTHER                              -> Off
RunOf(task, run) == IF IsNew(task) THEN Off ELSE run
SteadyRun(task, corridor) ==
  CASE corridor \notin Usable -> Off
    [] RunOf(task, blocked_for) # Off /\ blocked_for' # Off -> Started(steady)
    [] RunOf(task, clear_for) # Off /\ clear_for' # Off     -> Started(steady)
    [] blocked_for' # Off \/ clear_for' # Off               -> 0
    [] OTHER -> Off

Observe(task, corridor, obstacles) ==
  /\ seen' = [corridor |-> corridor, obstacles |-> obstacles]
  /\ blocked_for' = BlockedRun(RunOf(task, blocked_for), corridor)
  /\ clear_for' = ClearRun(RunOf(task, clear_for), corridor, obstacles)
  /\ steady' = SteadyRun(task, corridor)
  /\ stay' = IF IsNew(task) \/ mode' # mode THEN 0 ELSE stay

UpdateArrives ==
  \E task \in ModeTasks, corridor \in Corridors, obstacles \in Obstacles :
    /\ task.sequence >= active.sequence
    /\ ModeUpdate(task, corridor, obstacles)
    /\ Observe(task, corridor, obstacles)

ResetArrives ==
  /\ ModeReset
  /\ seen' = Unseen
  /\ blocked_for' = Off
  /\ clear_for' = Off
  /\ steady' = Off
  /\ stay' = Off

TimePasses ==
  /\ ModeTick
  /\ blocked_for' = Aged(blocked_for, EnterConfirm)
  /\ clear_for' = Aged(clear_for, ExitConfirm)
  /\ stay' = Aged(stay, MinHold + ExitConfirm)
  /\ steady' = Aged(steady, EnterConfirm + ExitConfirm)
  /\ UNCHANGED seen

TimingNext == UpdateArrives \/ ResetArrives \/ TimePasses

TimingSpec == TimingInit /\ [][TimingNext]_timingVars

(* The runtime's control timer fires and time passes for ever.               *)
TimingFairness == WF_timingVars(UpdateArrives) /\ WF_timingVars(TimePasses)

-----------------------------------------------------------------------------
ModeTypeOK ==
  /\ mode \in Modes
  /\ active \in ModeTasks \cup {NoTask}
  /\ blocked_age \in Nat \cup {Off}
  /\ clear_age \in Nat \cup {Off}
  /\ hold_age \in Nat \cup {Off}
  /\ blocked_for \in Nat \cup {Off}
  /\ clear_for \in Nat \cup {Off}
  /\ steady \in Nat \cup {Off}
  /\ stay \in Nat \cup {Off}
  /\ seen \in [corridor : Corridors \cup {"none"},
               obstacles : Obstacles \cup {"none"}]

(* A candidate timer runs only in the mode it may end, and never for a task  *)
(* that may not avoid: a route-only task is never in LOCAL_AVOID.            *)
TimersBelongToMode ==
  /\ mode = "NONE" <=> active = NoTask
  /\ blocked_age # Off => mode = "ROUTE_FOLLOW" /\ AvoidanceAllowed(active.mode)
  /\ clear_age # Off => mode = "LOCAL_AVOID" /\ hold_age >= MinHold
  /\ mode = "LOCAL_AVOID" => AvoidanceAllowed(active.mode)

SameTask == active' = active /\ active # NoTask

(* LOCAL_AVOID is entered for an immediate block, or for one that every      *)
(* observation of the confirmation time agreed on.  It is left no earlier    *)
(* than the hold time and the confirmation time together, after observations *)
(* that all allowed it: the mode does not flicker.                           *)
ChangesAreConfirmed ==
  [][/\ SameTask /\ mode' = "LOCAL_AVOID" /\ mode # "LOCAL_AVOID" =>
          \/ seen'.corridor = "BLOCKED_IMMEDIATE"
          \/ blocked_for' >= EnterConfirm
     /\ SameTask /\ mode = "LOCAL_AVOID" /\ mode' # "LOCAL_AVOID" =>
          /\ stay >= MinHold + ExitConfirm
          /\ clear_for' >= ExitConfirm]_timingVars

(* A confirmation is continuous: an update that finds no corridor in the     *)
(* confirmation time starts it anew.                                         *)
ConfirmationsAreContinuous ==
  [][/\ SameTask /\ mode # mode' /\ mode' = "LOCAL_AVOID" =>
          \/ seen'.corridor = "BLOCKED_IMMEDIATE"
          \/ steady' >= EnterConfirm
     /\ SameTask /\ mode = "LOCAL_AVOID" /\ mode' # mode =>
          steady' >= ExitConfirm]_timingVars

(* What the coordinator relies on: whatever the timers do, an update ends in *)
(* a mode that its observation allows.                                       *)
FollowsModeRules ==
  [][seen' # Unseen =>
       \/ UNCHANGED <<mode, active, seen>>
       \/ mode' \in ModesAfter(IF SameTask THEN mode ELSE "NONE", active'.mode,
                               seen'.corridor, seen'.obstacles)]_timingVars

(* A task that may avoid does, if its route stays blocked within range, and  *)
(* returns to the route once route and surroundings stay clear.              *)
BlockedRouteIsAvoided ==
  <>[](seen.corridor \in BlockedInRange /\ AvoidanceAllowed(active.mode))
    => <>[](mode = "LOCAL_AVOID")
ClearRouteIsFollowed ==
  <>[](MayLeaveAvoid(seen.corridor, seen.obstacles)) => <>[](mode = "ROUTE_FOLLOW")

=============================================================================
