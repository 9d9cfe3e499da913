--------------------------- MODULE SCANReplanFSM ---------------------------
(***************************************************************************)
(* SCANReplanFSM, native SCAN's planner node, as the navigation node uses  *)
(* it: with navi_mode REFERENCE_PATH.  It keeps one reference path, plans  *)
(* a B-spline along the next metres of it, and publishes it; replans while *)
(* the robot follows it; and stops the robot when planning keeps failing.  *)
(*                                                                         *)
(* All callbacks run on one thread: an execution timer (10 ms), a safety   *)
(* timer (50 ms) and the topics.  Each callback is an operator from the    *)
(* state of the FSM to its next state.  The optimizer, the map and the     *)
(* robot are abstracted to the answers the FSM gets from them.             *)
(*                                                                         *)
(* A trajectory is named by the reference path it was planned along: the   *)
(* number of the path's task.                                              *)
(***************************************************************************)
EXTENDS Timers

CONSTANTS
  MaxFailCount,   (* max_replan_fail_count_                                  *)
  FailureLimit,   (* finishProcess: 1.0 s of failures, in ticks              *)
  Duration,       (* how long a B-spline lasts, in ticks                     *)
  LeadTime        (* replan_lead_time_sec_, in ticks                         *)

ASSUME ReplanConfigAssumption ==
  /\ MaxFailCount \in Nat \ {0}
  /\ FailureLimit \in Nat \ {0}
  /\ LeadTime \in Nat \ {0}
  /\ Duration \in Nat /\ Duration > LeadTime

VARIABLES
  fsm,          (* the state of the node, a record                           *)
  published,    (* the last trajectory published on /planning/bspline        *)
  bspline_msg   (* ... and whether it is still under way                     *)

replanVars == <<fsm, published, bspline_msg>>

NoTrajectory   == 0                    \* local_data_ after its reset()
StopTrajectory == -1                   \* EmergencyStop's: stand where you are

ExecStates ==
  {"INIT", "WAIT_TARGET", "GEN_NEW_TRAJ", "EXEC_TRAJ", "EMERGENCY_STOP"}

FsmInit ==
  [exec_state |-> "INIT",
   trigger |-> FALSE, have_odom |-> FALSE, have_target |-> FALSE,
   route |-> 0,                        \* global_data_: the path of this task
   fails |-> 0, failing |-> Off,       \* replan_fail_count_, since when
   escape |-> TRUE,                    \* flag_escape_emergency_
   stopped |-> FALSE,                  \* emergency_stop_active_
   hover |-> FALSE,                    \* need_hover_stop_
   sync_pending |-> FALSE,             \* takeover_sync_pending_
   local |-> NoTrajectory,             \* local_data_
   left |-> 0]                         \* ... and how much of it is left

ReplanInit == fsm = FsmInit /\ published = NoTrajectory /\ bspline_msg = FALSE

Publishes(trajectory) == published' = trajectory /\ bspline_msg' = TRUE
PublishesNothing      == UNCHANGED <<published, bspline_msg>>

ForgetFailures(f) == [f EXCEPT !.fails = 0, !.failing = Off]

-----------------------------------------------------------------------------
(* The topics.                                                               *)

Odometry(f) == [f EXCEPT !.have_odom = TRUE]

(* Variant: a reset that keeps the reference path.                           *)
ResetLocal(f) ==
  [ForgetFailures(f) EXCEPT
     !.exec_state = IF f.have_target THEN f.exec_state ELSE "WAIT_TARGET",
     !.escape = TRUE, !.stopped = FALSE, !.hover = FALSE,
     !.sync_pending = FALSE]

Reset(f) ==
  [ForgetFailures(f) EXCEPT
     !.exec_state = "WAIT_TARGET",
     !.trigger = FALSE, !.have_target = FALSE, !.route = 0,
     !.escape = TRUE, !.stopped = FALSE, !.hover = FALSE,
     !.sync_pending = FALSE,
     !.local = NoTrajectory, !.left = 0]

(* pathCallback.  A path none of whose points is usable is ignored; one that *)
(* cannot be planned along is refused, whether the global trajectory cannot  *)
(* be computed or, once it is stored, none of its points is free.            *)
PathAccepted(f, path) ==
  [ForgetFailures(f) EXCEPT
     !.exec_state = "GEN_NEW_TRAJ",
     !.trigger = TRUE, !.have_target = TRUE, !.route = path,
     !.escape = TRUE, !.stopped = FALSE, !.hover = FALSE,
     !.local = NoTrajectory, !.left = 0]

PathRefused(f, path) ==
  {[f EXCEPT !.trigger = TRUE, !.route = r] : r \in {f.route, path}}

AfterPath(f, path) == {f, PathAccepted(f, path)} \cup PathRefused(f, path)

(* takeoverSyncCallback: the local trajectory, planned while the robot was   *)
(* driven by others, is void; the reference path is kept.                    *)
Synced(f) ==
  [ForgetFailures(f) EXCEPT
     !.exec_state = "GEN_NEW_TRAJ",
     !.stopped = FALSE, !.sync_pending = FALSE,
     !.local = NoTrajectory, !.left = 0]

TakeoverSynced(f) ==
  IF f.have_odom /\ f.have_target THEN Synced(f)
                                  ELSE [f EXCEPT !.sync_pending = TRUE]

-----------------------------------------------------------------------------
(* Planning.                                                                 *)

(* callReboundReplan, if it succeeds: the new B-spline has been checked      *)
(* against the map and is published.                                         *)
Planned(f) == [f EXCEPT !.local = f.route, !.left = Duration]

(* getLocalTarget needs a global trajectory.                                 *)
CanPlan(f) == f.route # 0

(* Variant: the emergency stop gives up the path.                            *)
FinishHovering(f) ==
  IF f.fails >= MaxFailCount /\ f.failing >= FailureLimit
    THEN [ForgetFailures(f) EXCEPT
            !.exec_state = "EMERGENCY_STOP",
            !.hover = TRUE, !.escape = TRUE, !.stopped = FALSE]
    ELSE f

(* finishProcess, at the end of the execution timer's callback.              *)
FinishProcess(f) ==
  IF f.fails >= MaxFailCount /\ f.failing >= FailureLimit
    THEN [ForgetFailures(f) EXCEPT
            !.exec_state = "EMERGENCY_STOP",
            !.hover = ~f.have_target, !.escape = TRUE, !.stopped = FALSE]
    ELSE f

(* Variant: the next emergency stop is taken for sent.                       *)
ExecutingAsBefore(f) ==
  [ForgetFailures(Planned(f)) EXCEPT !.exec_state = "EXEC_TRAJ"]

(* GEN_NEW_TRAJ after a success.                                             *)
Executing(f) ==
  [ForgetFailures(Planned(f)) EXCEPT
     !.exec_state = "EXEC_TRAJ", !.escape = TRUE, !.stopped = FALSE]

(* Variant: the failures are timed from the last one.                        *)
OneMoreFailureNow(f) ==
  [f EXCEPT !.fails = IF @ < MaxFailCount THEN @ + 1 ELSE @, !.failing = 0]

(* ... after OPTIMIZATION_FAILED.  The count is only compared with its       *)
(* maximum, where it saturates.                                              *)
OneMoreFailure(f) ==
  [f EXCEPT !.fails = IF @ < MaxFailCount THEN @ + 1 ELSE @,
            !.failing = Started(@)]

(* Variant: an expired trajectory is not left.                               *)
FreshPlanOf(f) == ForgetFailures(f)

(* From EXEC_TRAJ back to GEN_NEW_TRAJ: plan afresh from the odometry.       *)
FreshPlan(f) == [ForgetFailures(f) EXCEPT !.exec_state = "GEN_NEW_TRAJ"]

GoalReached(f) ==
  [f EXCEPT !.exec_state = "WAIT_TARGET", !.have_target = FALSE]

-----------------------------------------------------------------------------
(* The execution timer: one case per state, given the state f that a         *)
(* deferred synchronization leaves.                                          *)

ExecInit(f) ==
  /\ f.exec_state = "INIT"
  /\ fsm' = IF f.have_odom /\ f.trigger
              THEN FinishProcess([f EXCEPT !.exec_state = "WAIT_TARGET"])
              ELSE f
  /\ PublishesNothing

ExecWaitTarget(f) ==
  /\ f.exec_state = "WAIT_TARGET"
  /\ fsm' = IF f.have_target
              THEN FinishProcess([f EXCEPT !.exec_state = "GEN_NEW_TRAJ"])
              ELSE f
  /\ PublishesNothing

ExecPlanned(f) ==
  /\ f.exec_state = "GEN_NEW_TRAJ" /\ CanPlan(f)
  /\ fsm' = Executing(f)
  /\ Publishes(f.route)

(* Not due yet (there are 0.1 s between attempts), or no local target.       *)
ExecNotPlanned(f) ==
  /\ f.exec_state = "GEN_NEW_TRAJ"
  /\ fsm' = FinishProcess(f)
  /\ PublishesNothing

ExecPlanFailed(f) ==
  /\ f.exec_state = "GEN_NEW_TRAJ" /\ CanPlan(f)
  /\ fsm' = FinishProcess(OneMoreFailure(f))
  /\ PublishesNothing

(* The rolling replan: due periodically while the robot moves, and near the  *)
(* end of the trajectory.  A failure keeps a trajectory that is safe and     *)
(* lasts.                                                                    *)
ExecReplanned(f) ==
  /\ f.exec_state = "EXEC_TRAJ" /\ CanPlan(f)
  /\ fsm' = FinishProcess(Planned(f))
  /\ Publishes(f.route)

ExecReplanFailed(f, safe) ==
  /\ f.exec_state = "EXEC_TRAJ"
  /\ fsm' = FinishProcess(IF safe /\ f.left > LeadTime THEN f
                                                       ELSE FreshPlan(f))
  /\ PublishesNothing

(* No replan is due: the robot is within no_replan_thresh_ of the goal, or   *)
(* the trajectory has expired, or it is followed.                            *)
ExecArrives(f) ==
  /\ f.exec_state = "EXEC_TRAJ"
  /\ fsm' = GoalReached(f)
  /\ PublishesNothing

ExecFollows(f) ==
  /\ f.exec_state = "EXEC_TRAJ"
  /\ fsm' = IF f.left = 0 THEN FreshPlan(f) ELSE FinishProcess(f)
  /\ PublishesNothing

(* The stop is published once.                                               *)
ExecStops(f) ==
  /\ f.exec_state = "EMERGENCY_STOP" /\ f.escape
  /\ IF f.stopped
       THEN /\ fsm' = FinishProcess([f EXCEPT !.escape = FALSE])
            /\ PublishesNothing
       ELSE /\ fsm' = FinishProcess([f EXCEPT !.escape = FALSE,
                                              !.stopped = TRUE,
                                              !.local = StopTrajectory,
                                              !.left = Duration])
            /\ Publishes(StopTrajectory)

(* Afterwards, once the robot stands (fail_safe is on), it plans again, or   *)
(* gives up the target.                                                      *)
ExecRecovers(f) ==
  /\ f.exec_state = "EMERGENCY_STOP" /\ ~f.escape
  /\ fsm' = FinishProcess(
       IF f.hover
         THEN [f EXCEPT !.exec_state = "WAIT_TARGET", !.hover = FALSE,
                        !.have_target = FALSE, !.trigger = FALSE]
         ELSE [f EXCEPT !.exec_state = "GEN_NEW_TRAJ"])
  /\ PublishesNothing

ExecState(f) ==
  \/ ExecInit(f) \/ ExecWaitTarget(f)
  \/ ExecPlanned(f) \/ ExecNotPlanned(f) \/ ExecPlanFailed(f)
  \/ ExecReplanned(f)
  \/ \E safe \in BOOLEAN : ExecReplanFailed(f, safe)
  \/ ExecArrives(f) \/ ExecFollows(f)
  \/ ExecStops(f) \/ ExecRecovers(f)

(* execFSMCallback, with the deferred synchronization first.                 *)
SyncDue(f) == f.sync_pending /\ f.have_odom /\ f.have_target

AfterDeferredSync(f) == IF SyncDue(f) THEN Synced(f) ELSE f

ExecFSM == ExecState(AfterDeferredSync(fsm))

(* What the execution timer does whatever the optimizer and the map answer.  *)
ExecTimer ==
  LET f == AfterDeferredSync(fsm) IN
    \/ ExecInit(f) \/ ExecWaitTarget(f) \/ ExecNotPlanned(f)
    \/ ExecFollows(f) \/ ExecStops(f) \/ ExecRecovers(f)

-----------------------------------------------------------------------------
(* The safety timer: a collision ahead of the robot on the trajectory it     *)
(* follows.  Near: replan or stop.  Far: replan if possible.                 *)
SafetyReplanned ==
  /\ fsm.exec_state = "EXEC_TRAJ" /\ fsm.local # NoTrajectory /\ CanPlan(fsm)
  /\ fsm' = Planned(fsm)
  /\ Publishes(fsm.route)

SafetyFailed ==
  /\ fsm.exec_state = "EXEC_TRAJ" /\ fsm.local # NoTrajectory
  /\ fsm' = [fsm EXCEPT !.exec_state = "EMERGENCY_STOP"]
  /\ PublishesNothing

CheckCollision == SafetyReplanned \/ SafetyFailed

(* Time.                                                                     *)

(* Variant: the time left is not cut off at zero.                            *)
ReplanTickOn ==
  /\ fsm' = [fsm EXCEPT !.failing = Aged(@, FailureLimit), !.left = @ - 1]
  /\ PublishesNothing

ReplanTick ==
  /\ fsm' = [fsm EXCEPT !.failing = Aged(@, FailureLimit),
                        !.left = IF @ = 0 THEN 0 ELSE @ - 1]
  /\ PublishesNothing

=============================================================================
