----------------------------- MODULE NativeScan -----------------------------
(***************************************************************************)
(* Native SCAN as the navigation node finds it: the planner node and the   *)
(* controller node, connected by /planning/bspline, both told to reset and *)
(* to synchronize for a takeover, each by a message of its own; and the    *)
(* planner node may be restarted.                                          *)
(*                                                                         *)
(* The navigation node is abstracted to what it tells them: one task after *)
(* another, each with a reset, a reference path, takeovers and a reset.    *)
(* Its messages take less than the time between these; what the two nodes  *)
(* tell each other may come at any time.                                   *)
(***************************************************************************)
EXTENDS SCANReplanFSM, ClosedLoopController

CONSTANTS
  MaxTasks,     (* bound: how many tasks there are                           *)
  MaxRestarts   (* bound: how often the planner node is restarted            *)

ASSUME NativeScanAssumption == MaxTasks \in Nat /\ MaxRestarts \in Nat

VARIABLES
  task,       (* the task, by number                                         *)
  phase,      (* ... and how far it is                                       *)
  path,       (* the last path on /native_scan/initial_path, latched         *)
  to_planner, (* under way to the planner node                               *)
  to_control, (* under way to the controller                                 *)
  following,  (* traj: the trajectory the controller follows                 *)
  restarts

taskStatus == <<task, phase>>
messages   == <<to_planner, to_control>>
scanVars   == <<replanVars, controllerVars, taskStatus, path, messages,
                following, restarts>>

Phases == {"IDLE", "STARTING", "ALIGNING", "TRACKING", "AVOIDING"}

NativeScanInit ==
  /\ ReplanInit /\ ControllerInit
  /\ task = 0 /\ phase = "IDLE"
  /\ path = 0
  /\ to_planner = {} /\ to_control = {}
  /\ following = NoTrajectory
  /\ restarts = 0

nodes == <<replanVars, controllerVars, following, restarts>>

-----------------------------------------------------------------------------
(* The navigation node.                                                      *)
Tells(message) ==
  /\ to_planner' = to_planner \cup {message}
  /\ to_control' = to_control \cup {message}

NothingUnderWay == to_planner = {} /\ to_control = {} /\ ~bspline_msg

TaskStarts ==
  /\ phase = "IDLE" /\ task < MaxTasks /\ "path" \notin to_planner
  /\ task' = task + 1 /\ phase' = "STARTING"
  /\ Tells("reset")
  /\ UNCHANGED <<path, nodes>>

(* The path follows the reset 20 ms later.                                   *)
PathSent ==
  /\ phase = "STARTING" /\ NothingUnderWay
  /\ phase' = "ALIGNING"
  /\ path' = task
  /\ to_planner' = {"path"}
  /\ UNCHANGED <<task, to_control, nodes>>

TaskTracks ==
  \/ /\ phase = "ALIGNING" /\ NothingUnderWay
     /\ phase' = "TRACKING"
     /\ UNCHANGED <<task, path, messages, nodes>>
  \/ /\ phase = "AVOIDING"
     /\ phase' = "TRACKING"
     /\ UNCHANGED <<task, path, messages, nodes>>

TaskAvoids ==
  /\ phase = "TRACKING"
  /\ phase' = "AVOIDING"
  /\ Tells("sync")
  /\ UNCHANGED <<task, path, nodes>>

TaskEnds ==
  /\ phase # "IDLE" /\ "path" \notin to_planner
  /\ phase' = "IDLE"
  /\ Tells("reset")
  /\ UNCHANGED <<task, path, nodes>>

Navigator == TaskStarts \/ PathSent \/ TaskTracks \/ TaskAvoids \/ TaskEnds

-----------------------------------------------------------------------------
(* The planner node.                                                         *)
Received(message) ==
  message \in to_planner /\ to_planner' = to_planner \ {message}

controllerSide == <<controllerVars, following>>

PlannerReset ==
  /\ Received("reset")
  /\ fsm' = Reset(fsm)
  /\ PublishesNothing
  /\ UNCHANGED <<controllerSide, taskStatus, path, to_control, restarts>>

PlannerPath ==
  /\ Received("path")
  /\ fsm' \in AfterPath(fsm, path)
  /\ PublishesNothing
  /\ UNCHANGED <<controllerSide, taskStatus, path, to_control, restarts>>

PlannerSync ==
  /\ Received("sync")
  /\ fsm' = TakeoverSynced(fsm)
  /\ PublishesNothing
  /\ UNCHANGED <<controllerSide, taskStatus, path, to_control, restarts>>

PlannerOdometry ==
  /\ fsm' = Odometry(fsm)
  /\ PublishesNothing
  /\ UNCHANGED <<controllerSide, taskStatus, path, messages, restarts>>

PlannerTimers ==
  /\ ExecFSM \/ CheckCollision \/ ReplanTick
  /\ UNCHANGED <<controllerSide, taskStatus, path, messages, restarts>>

(* A new planner node: what was under way to the old one is lost, except for *)
(* the path, which is latched.  Not in the 20 ms of a task that has not sent *)
(* its path: the path of the task before would be planned along if this      *)
(* task's is refused.                                                        *)
PlannerRestarts ==
  /\ restarts < MaxRestarts /\ phase # "STARTING"
  /\ restarts' = restarts + 1
  /\ fsm' = FsmInit
  /\ to_planner' = IF path = 0 THEN {} ELSE {"path"}
  /\ PublishesNothing
  /\ UNCHANGED <<controllerSide, taskStatus, path, to_control>>

Planner ==
  \/ PlannerReset \/ PlannerPath \/ PlannerSync
  \/ PlannerOdometry \/ PlannerTimers
  \/ PlannerRestarts

-----------------------------------------------------------------------------
(* The controller.                                                           *)
plannerSide == <<fsm, published, taskStatus, path, to_planner, restarts>>

Heard(message) ==
  message \in to_control /\ to_control' = to_control \ {message}

ControlReset ==
  /\ Heard("reset")
  /\ ControllerReset /\ following' = NoTrajectory
  /\ UNCHANGED <<plannerSide, bspline_msg>>

ControlSync ==
  /\ Heard("sync")
  /\ TakeoverSync /\ following' = NoTrajectory
  /\ UNCHANGED <<plannerSide, bspline_msg>>

ControlAccepts(anchored) ==
  /\ bspline_msg /\ bspline_msg' = FALSE
  /\ Bspline(anchored) /\ following' = published
  /\ UNCHANGED <<plannerSide, to_control>>

(* While a takeover waits, only a trajectory from where the robot is counts. *)
ControlRefuses ==
  /\ bspline_msg /\ bspline_msg' = FALSE
  /\ waiting
  /\ UNCHANGED <<controllerSide, plannerSide, to_control>>

Control ==
  \/ ControlReset \/ ControlSync
  \/ \E anchored \in BOOLEAN : ControlAccepts(anchored)
  \/ ControlRefuses

-----------------------------------------------------------------------------
NativeScanNext == Navigator \/ Planner \/ Control

NativeScanSpec == NativeScanInit /\ [][NativeScanNext]_scanVars

PlannerStep(step) ==
  step /\ UNCHANGED <<controllerSide, taskStatus, path, messages, restarts>>

(* Messages arrive, the robot has odometry, time passes and the timer fires. *)
TimersFire ==
  /\ WF_scanVars(PlannerReset) /\ WF_scanVars(PlannerPath)
  /\ WF_scanVars(PlannerSync) /\ WF_scanVars(PlannerOdometry)
  /\ WF_scanVars(ControlReset) /\ WF_scanVars(ControlSync)
  /\ WF_scanVars(PlannerStep(ExecTimer))
  /\ WF_scanVars(PlannerStep(ReplanTick))

FairNativeScan == NativeScanSpec /\ TimersFire

(* Of the plans from where the robot is, made again and again, one succeeds, *)
(* and of the trajectories published again and again one starts where the    *)
(* robot is.                                                                 *)
PlansSucceed ==
  /\ SF_scanVars(PlannerStep(ExecPlanned(AfterDeferredSync(fsm))))
  /\ SF_scanVars(ControlAccepts(TRUE))

(* Attempts to plan find a local target again and again, whatever then comes *)
(* of them.                                                                  *)
PlansTried ==
  SF_scanVars(PlannerStep(LET f == AfterDeferredSync(fsm)
                          IN  ExecPlanned(f) \/ ExecPlanFailed(f)))

-----------------------------------------------------------------------------
Trajectories == {StopTrajectory, NoTrajectory} \cup 1..MaxTasks

NativeScanTypeOK ==
  /\ fsm \in [exec_state : ExecStates,
              trigger : BOOLEAN, have_odom : BOOLEAN, have_target : BOOLEAN,
              route : 0..MaxTasks,
              fails : 0..MaxFailCount, failing : Nat \cup {Off},
              escape : BOOLEAN, stopped : BOOLEAN, hover : BOOLEAN,
              sync_pending : BOOLEAN,
              local : Trajectories, left : 0..Duration]
  /\ published \in Trajectories /\ bspline_msg \in BOOLEAN
  /\ receive_traj \in BOOLEAN /\ waiting \in BOOLEAN
  /\ ready_msg \subseteq BOOLEAN
  /\ task \in 0..MaxTasks /\ phase \in Phases /\ path \in 0..MaxTasks
  /\ to_planner \subseteq {"reset", "path", "sync"}
  /\ to_control \subseteq {"reset", "sync"}
  /\ following \in Trajectories
  /\ restarts \in 0..MaxRestarts

(* However often planning fails, and however the failures mix with new       *)
(* paths, takeovers and resets, an emergency stop never makes the planner    *)
(* give up the reference path.                                               *)
RouteSurvivesFailures == ~fsm.hover

(* The trajectory the planner supervises is the one it published last, and   *)
(* every emergency stop is published: the robot never drives on while the    *)
(* planner takes it for stopped.                                             *)
SupervisesWhatItPublished ==
  /\ fsm.exec_state = "EXEC_TRAJ" => fsm.local > 0 /\ fsm.local = published
  /\ fsm.exec_state = "EMERGENCY_STOP" =>
       IF fsm.escape THEN ~fsm.stopped ELSE published = StopTrajectory

(* In a takeover that was announced, the controller stands or follows the    *)
(* path of the task that asked for it, whatever was planned for the task     *)
(* before or is planned by a restarted node.                                 *)
ReadyIsForThisTask ==
  /\ phase = "AVOIDING" /\ to_control = {} /\ ready_msg = {TRUE}
  => following \in {StopTrajectory, task}

(* A takeover is answered if planning can succeed at all, in whatever order  *)
(* its two messages arrive, even if the planner has to defer it or is        *)
(* restarted, unless the path is lost.                                       *)
TakeoverIsAnswered ==
  PlansSucceed =>
    (waiting /\ fsm.have_target ~> ~waiting \/ ~fsm.have_target)

(* A trajectory that the planner has found unsafe with much of it left, and  *)
(* so went back to planning afresh, is replaced or stopped, even if no new   *)
(* plan ever succeeds and takeovers clear the count of failures; while it    *)
(* plans afresh, the safety timer does not look at it.                       *)
UnsafeTrajectoryIsLeft ==
  PlansTried =>
    (fsm.exec_state = "GEN_NEW_TRAJ" /\ fsm.local > 0 /\ fsm.left > LeadTime
       ~> fsm.exec_state # "GEN_NEW_TRAJ" \/ fsm.local <= 0)

=============================================================================
