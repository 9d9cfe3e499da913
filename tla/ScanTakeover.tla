---------------------------- MODULE ScanTakeover ----------------------------
(***************************************************************************)
(* The handover of a moving robot from the route controller to native SCAN:*)
(* the navigation node reports its state and mode and requests a takeover, *)
(* SCAN's controller flushes its trajectory, waits for a new one and       *)
(* announces it, and the mux takes SCAN for ready.  Five topics connect    *)
(* them, without any order between them.  The commands themselves are left *)
(* to the mux's own module.                                                *)
(*                                                                         *)
(* The navigation node is abstracted to what it publishes: one task after  *)
(* another, paused and resumed, cancelled or done, with cycles in which    *)
(* the robot's odometry cannot be used.  The SCAN planner is abstracted to *)
(* the trajectories it may publish: any, at any time.                      *)
(***************************************************************************)
EXTENDS CmdVelOwnerMux, ClosedLoopController

VARIABLES
  task,      (* the coordinator's state: IDLE, START_ALIGN, TRACKING         *)
  paused,    (* ... or PAUSED, with that state to return to                  *)
  held,      (* the mode manager's mode                                      *)
  state_msg, (* under way on /navdog/state                                   *)
  mode_msg,  (* under way on /navdog/navigation_mode                         *)
  sync_msg,  (* a takeover_sync is under way to the controller               *)
  reset_msg  (* a reset is under way to the controller                       *)

navigator    == <<task, paused, held>>
reports      == <<state_msg, mode_msg>>
requests     == <<sync_msg, reset_msg>>
takeoverVars == <<muxVars, controllerVars, navigator, reports, requests>>

TakeoverInit ==
  /\ MuxInit /\ ControllerInit
  /\ task = "IDLE" /\ paused = FALSE /\ held = "NONE"
  /\ state_msg = {} /\ mode_msg = {}
  /\ sync_msg = FALSE /\ reset_msg = FALSE

-----------------------------------------------------------------------------
(* One control cycle of the navigation node.                                 *)
Reports(st, md) == state_msg' = {st} /\ mode_msg' = {md}

others == <<muxVars, controllerVars>>

NavigatorStarts ==
  /\ task = "IDLE"
  /\ task' = "START_ALIGN"
  /\ Reports("START_ALIGN", "NONE")
  /\ reset_msg' = TRUE
  /\ UNCHANGED <<paused, held, sync_msg, others>>

(* Planning and aligning take some cycles: the reset of the start is no      *)
(* longer under way.                                                         *)
NavigatorAligned ==
  /\ task = "START_ALIGN" /\ ~paused /\ ~reset_msg
  /\ task' = "TRACKING"
  /\ Reports("TRACKING", "NONE")
  /\ UNCHANGED <<paused, held, requests, others>>

SyncOn(md) == sync_msg \/ (md = "LOCAL_AVOID" /\ held # "LOCAL_AVOID")

NavigatorTracks(md) ==
  /\ task = "TRACKING" /\ ~paused
  /\ held' = md
  /\ Reports("TRACKING", md)
  /\ sync_msg' = SyncOn(md)
  /\ UNCHANGED <<task, paused, reset_msg, others>>

(* The robot's odometry is not valid: the mode is not decided, and NONE is   *)
(* reported.                                                                 *)
NavigatorBlind ==
  /\ task = "TRACKING" /\ ~paused
  /\ Reports("TRACKING", "NONE")
  /\ UNCHANGED <<navigator, requests, others>>

NavigatorPauses ==
  /\ task # "IDLE" /\ ~paused
  /\ paused' = TRUE
  /\ Reports("PAUSED", "NONE")
  /\ UNCHANGED <<task, held, requests, others>>

NavigatorResumes ==
  /\ paused
  /\ paused' = FALSE
  /\ UNCHANGED <<task, held, reports, requests, others>>

NavigatorEnds ==
  /\ task # "IDLE"
  /\ task' = "IDLE" /\ paused' = FALSE /\ held' = "NONE"
  /\ Reports("IDLE", "NONE")
  /\ reset_msg' = TRUE
  /\ UNCHANGED <<sync_msg, others>>

NavigatorCycle ==
  \/ NavigatorStarts
  \/ NavigatorAligned
  \/ \E md \in {"ROUTE_FOLLOW", "LOCAL_AVOID"} : NavigatorTracks(md)
  \/ NavigatorBlind
  \/ NavigatorPauses
  \/ NavigatorResumes
  \/ NavigatorEnds

-----------------------------------------------------------------------------
(* The topics.                                                               *)
DeliverState ==
  /\ \E st \in state_msg : StateReport(st)
  /\ state_msg' = {}
  /\ UNCHANGED <<controllerVars, navigator, mode_msg, requests>>

DeliverMode ==
  /\ \E md \in mode_msg : ModeReport(md)
  /\ mode_msg' = {}
  /\ UNCHANGED <<controllerVars, navigator, state_msg, requests>>

DeliverSync ==
  /\ sync_msg
  /\ TakeoverSync
  /\ sync_msg' = FALSE
  /\ UNCHANGED <<muxVars, navigator, reports, reset_msg>>

DeliverReset ==
  /\ reset_msg
  /\ ControllerReset
  /\ reset_msg' = FALSE
  /\ UNCHANGED <<muxVars, navigator, reports, sync_msg>>

(* takeover_ready is latched, for subscribers that come late; the mux hears  *)
(* each message once.                                                        *)
DeliverReady ==
  /\ \E isReady \in ready_msg : TakeoverReady(isReady)
  /\ ready_msg' = {}
  /\ UNCHANGED <<receive_traj, waiting, navigator, reports, requests>>

Deliver ==
  \/ DeliverState \/ DeliverMode
  \/ DeliverSync \/ DeliverReset
  \/ DeliverReady

-----------------------------------------------------------------------------
ControllerStep ==
  /\ \E anchored \in BOOLEAN : Bspline(anchored)
  /\ UNCHANGED <<muxVars, navigator, reports, requests>>

(* The timer of the mux is punctual: once per tick of the clock.             *)
MuxStep ==
  /\ \/ publish_age # 0 /\ MuxTimer
     \/ publish_age = 0 /\ MuxTick
  /\ UNCHANGED <<controllerVars, navigator, reports, requests>>

TakeoverNext == NavigatorCycle \/ Deliver \/ ControllerStep \/ MuxStep

TakeoverSpec == TakeoverInit /\ [][TakeoverNext]_takeoverVars

(* What is published arrives; the timers of the mux fire; and SCAN, which    *)
(* replans again and again, comes up with a trajectory from where the robot  *)
(* is.                                                                       *)
SpliceArrives ==
  Bspline(TRUE) /\ UNCHANGED <<muxVars, navigator, reports, requests>>

TakeoverFairness ==
  /\ WF_takeoverVars(DeliverState) /\ WF_takeoverVars(DeliverMode)
  /\ WF_takeoverVars(DeliverSync) /\ WF_takeoverVars(DeliverReset)
  /\ WF_takeoverVars(DeliverReady)
  /\ WF_takeoverVars(SpliceArrives)
  /\ WF_takeoverVars(MuxStep)

-----------------------------------------------------------------------------
(* When the mux takes SCAN for ready and no announcement is under way, the   *)
(* controller does follow a trajectory: what the mux believes is never older *)
(* than a flush or a reset that it has been told of.                         *)
ReadyIsBacked == ready /\ ready_msg = {} => receive_traj /\ ~waiting

(* While LOCAL_AVOID lasts, a takeover the mux has entered before SCAN's new *)
(* trajectory comes through: SCAN becomes ready, or loses the robot.         *)
TakeoverCompletes ==
  <>[](held = "LOCAL_AVOID") =>
    ((owner = "SCAN" /\ waiting) ~> (ready \/ owner # "SCAN"))

(* The task stays in LOCAL_AVOID, and nothing else is reported.              *)
Settled ==
  /\ held = "LOCAL_AVOID" /\ ~paused
  /\ nav_state = "TRACKING" /\ state_msg \subseteq {"TRACKING"}
  /\ nav_mode = held /\ mode_msg \subseteq {held}

(* docs/NAVIGATION_WORKFLOW.md:7: in LOCAL_AVOID native SCAN provides the    *)
(* command, and the mux selects it once ownership has changed.               *)
LastingAvoidanceIsDriven == <>[]Settled => <>[]ready

=============================================================================
