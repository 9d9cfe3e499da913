-------------------------- MODULE NativeScanProofs --------------------------
(***************************************************************************)
(* What holds of native SCAN for every number of tasks and restarts and    *)
(* every limit of the planner: the types, that the reference path survives *)
(* every failure, that the planner supervises what it published, and that  *)
(* readiness is never announced for another task's path.                   *)
(***************************************************************************)
EXTENDS NativeScan, TLAPS

Fsms ==
  [exec_state : ExecStates,
   trigger : BOOLEAN, have_odom : BOOLEAN, have_target : BOOLEAN,
   route : 0..MaxTasks,
   fails : 0..MaxFailCount, failing : Nat \cup {Off},
   escape : BOOLEAN, stopped : BOOLEAN, hover : BOOLEAN,
   sync_pending : BOOLEAN,
   local : Trajectories, left : 0..Duration]

(* The strengthening of the planner node's part.  It plans for a target;     *)
(* failures are counted only where it plans afresh; and the flags of the     *)
(* emergency stop are clear while it executes.                               *)
FsmAgrees(f) ==
  /\ f.exec_state \notin {"INIT", "WAIT_TARGET"} => f.have_target
  /\ f.fails > 0 => f.exec_state = "GEN_NEW_TRAJ"
  /\ f.exec_state = "EXEC_TRAJ" => f.escape /\ ~f.stopped
  /\ ~f.hover

Supervised(f, p) ==
  /\ f.exec_state = "EXEC_TRAJ" => f.local > 0 /\ f.local = p
  /\ f.exec_state = "EMERGENCY_STOP" =>
       IF f.escape THEN ~f.stopped ELSE p = StopTrajectory

FsmInv(f, p) == f \in Fsms /\ FsmAgrees(f) /\ Supervised(f, p)

(* The strengthening of the hand-over.  While a task waits for its path, the *)
(* planner node has forgotten every other, or is about to; afterwards it     *)
(* plans along no other path, and no other trajectory is under way.          *)
Settled == phase \in {"ALIGNING", "TRACKING", "AVOIDING"}

HandoverAgrees ==
  /\ bspline_msg => published # NoTrajectory
  /\ ready_msg = {TRUE} => following # NoTrajectory
  /\ phase = "STARTING" =>
       "path" \notin to_planner /\ ("reset" \in to_planner \/ fsm.route = 0)
  /\ Settled =>
       /\ path = task
       /\ "reset" \notin to_planner
       /\ fsm.route \in {0, task}
       /\ bspline_msg => published \in {StopTrajectory, task}
  /\ phase = "AVOIDING" /\ to_control = {} =>
       following \in {NoTrajectory, StopTrajectory, task}

ScanInv ==
  /\ NativeScanTypeOK
  /\ FsmInv(fsm, published)
  /\ HandoverAgrees

-----------------------------------------------------------------------------
(* The operators of the planner node.  `p` is the last trajectory published. *)

LEMMA ValuesFit ==
  /\ 0 \in 0..MaxFailCount /\ Off \in Nat \cup {Off}
  /\ 0 \in 0..MaxTasks /\ 0 \in 0..Duration /\ Duration \in 0..Duration
  /\ NoTrajectory \in Trajectories /\ StopTrajectory \in Trajectories
  /\ 1..MaxTasks \subseteq Trajectories /\ NoTrajectory = 0
BY ReplanConfigAssumption, NativeScanAssumption
DEF ReplanConfigAssumption, NativeScanAssumption, Trajectories, NoTrajectory,
    StopTrajectory

LEMMA ForgettingKeepsInv ==
  ASSUME NEW f, NEW p, FsmInv(f, p)
  PROVE  FsmInv(ForgetFailures(f), p)
<1>1. ForgetFailures(f) \in Fsms
  BY ValuesFit DEF FsmInv, Fsms, ForgetFailures
<1>2. FsmAgrees(ForgetFailures(f)) /\ Supervised(ForgetFailures(f), p)
  BY DEF FsmInv, Fsms, ForgetFailures, FsmAgrees, Supervised
<1> QED
  BY <1>1, <1>2 DEF FsmInv

LEMMA FinishKeepsInv ==
  ASSUME NEW f, NEW p, FsmInv(f, p)
  PROVE  FsmInv(FinishProcess(f), p) /\ FinishProcess(f).route = f.route
<1> DEFINE g == ForgetFailures(f)
<1>1. FsmInv(g, p) /\ g.route = f.route /\ g.have_target = f.have_target
  BY ForgettingKeepsInv DEF ForgetFailures, FsmInv, Fsms
<1> HIDE DEF g
<1>2. CASE f.fails >= MaxFailCount /\ f.failing >= FailureLimit
  <2>1. f.fails > 0 /\ f.have_target = TRUE
    BY <1>2, ReplanConfigAssumption
    DEF FsmInv, FsmAgrees, Fsms, ReplanConfigAssumption
  <2>2. FinishProcess(f) =
          [g EXCEPT !.exec_state = "EMERGENCY_STOP",
                    !.hover = FALSE, !.escape = TRUE, !.stopped = FALSE]
    BY <1>2, <2>1 DEF FinishProcess, g
  <2>3. FinishProcess(f) \in Fsms /\ FinishProcess(f).route = f.route
    BY <1>1, <2>2 DEF FsmInv, Fsms, ExecStates
  <2>4. g.fails = 0
    BY ValuesFit DEF g, ForgetFailures, FsmInv, Fsms
  <2>5. FsmAgrees(FinishProcess(f)) /\ Supervised(FinishProcess(f), p)
    BY <1>1, <2>1, <2>2, <2>4 DEF FsmInv, Fsms, FsmAgrees, Supervised
  <2> QED
    BY <2>3, <2>5 DEF FsmInv
<1>3. CASE ~(f.fails >= MaxFailCount /\ f.failing >= FailureLimit)
  <2>1. FinishProcess(f) = f
    BY <1>3 DEF FinishProcess
  <2> QED
    BY <2>1
<1> QED
  BY <1>2, <1>3

LEMMA ResetKeepsInv ==
  ASSUME NEW f, NEW p, FsmInv(f, p)
  PROVE  FsmInv(Reset(f), p) /\ Reset(f).route = 0
<1> DEFINE g == ForgetFailures(f)
<1>1. g \in Fsms /\ g.fails = 0
  BY ForgettingKeepsInv DEF g, FsmInv, Fsms, ForgetFailures
<1>2. Reset(f) =
        [g EXCEPT !.exec_state = "WAIT_TARGET",
                  !.trigger = FALSE, !.have_target = FALSE, !.route = 0,
                  !.escape = TRUE, !.stopped = FALSE, !.hover = FALSE,
                  !.sync_pending = FALSE,
                  !.local = NoTrajectory, !.left = 0]
  BY DEF Reset, g
<1> HIDE DEF g
<1>3. Reset(f) \in Fsms /\ Reset(f).route = 0
  BY <1>1, <1>2, ValuesFit DEF Fsms, ExecStates
<1>4. FsmAgrees(Reset(f)) /\ Supervised(Reset(f), p)
  BY <1>1, <1>2 DEF Fsms, FsmAgrees, Supervised
<1> QED
  BY <1>3, <1>4 DEF FsmInv

LEMMA SyncKeepsInv ==
  ASSUME NEW f, NEW p, FsmInv(f, p), f.have_target
  PROVE  FsmInv(Synced(f), p) /\ Synced(f).route = f.route
<1> DEFINE g == ForgetFailures(f)
<1>1. /\ g \in Fsms /\ g.fails = 0 /\ g.route = f.route
      /\ g.have_target = f.have_target /\ ~g.hover
  BY ForgettingKeepsInv DEF g, FsmInv, FsmAgrees, Fsms, ForgetFailures
<1>2. Synced(f) =
        [g EXCEPT !.exec_state = "GEN_NEW_TRAJ",
                  !.stopped = FALSE, !.sync_pending = FALSE,
                  !.local = NoTrajectory, !.left = 0]
  BY DEF Synced, g
<1> HIDE DEF g
<1>3. Synced(f) \in Fsms /\ Synced(f).route = f.route
  BY <1>1, <1>2, ValuesFit DEF Fsms, ExecStates
<1>4. FsmAgrees(Synced(f)) /\ Supervised(Synced(f), p)
  BY <1>1, <1>2 DEF Fsms, FsmAgrees, Supervised
<1> QED
  BY <1>3, <1>4 DEF FsmInv

LEMMA TakeoverKeepsInv ==
  ASSUME NEW f, NEW p, FsmInv(f, p)
  PROVE  /\ FsmInv(TakeoverSynced(f), p) /\ TakeoverSynced(f).route = f.route
         /\ FsmInv(AfterDeferredSync(f), p)
         /\ AfterDeferredSync(f).route = f.route
<1>1. CASE f.have_odom /\ f.have_target
  BY <1>1, SyncKeepsInv DEF TakeoverSynced, AfterDeferredSync
<1>2. ASSUME ~(f.have_odom /\ f.have_target)
      PROVE  FsmInv(TakeoverSynced(f), p) /\ TakeoverSynced(f).route = f.route
  BY <1>2 DEF TakeoverSynced, FsmInv, FsmAgrees, Supervised, Fsms
<1>3. CASE ~SyncDue(f)
  BY <1>1, <1>2, <1>3 DEF AfterDeferredSync
<1> QED
  BY <1>1, <1>2, <1>3 DEF SyncDue

LEMMA OdometryKeepsInv ==
  ASSUME NEW f, NEW p, FsmInv(f, p)
  PROVE  FsmInv(Odometry(f), p) /\ Odometry(f).route = f.route
BY DEF Odometry, FsmInv, FsmAgrees, Supervised, Fsms

LEMMA PathKeepsInv ==
  ASSUME NEW f, NEW p, NEW r \in 0..MaxTasks, NEW g \in AfterPath(f, r),
         FsmInv(f, p)
  PROVE  FsmInv(g, p) /\ g.route \in {f.route, r}
<1>1. CASE g = f
  BY <1>1
<1>2. CASE g = PathAccepted(f, r)
  <2> DEFINE h == ForgetFailures(f)
  <2>1. h \in Fsms /\ h.fails = 0
    BY ForgettingKeepsInv DEF h, FsmInv, Fsms, ForgetFailures
  <2>2. g = [h EXCEPT !.exec_state = "GEN_NEW_TRAJ",
                      !.trigger = TRUE, !.have_target = TRUE, !.route = r,
                      !.escape = TRUE, !.stopped = FALSE, !.hover = FALSE,
                      !.local = NoTrajectory, !.left = 0]
    BY <1>2 DEF PathAccepted, h
  <2> HIDE DEF h
  <2>3. g \in Fsms /\ g.route = r
    BY <2>1, <2>2, ValuesFit DEF Fsms, ExecStates
  <2>4. FsmAgrees(g) /\ Supervised(g, p)
    BY <2>1, <2>2 DEF Fsms, FsmAgrees, Supervised
  <2> QED
    BY <2>3, <2>4 DEF FsmInv
<1>3. CASE g \in PathRefused(f, r)
  <2>1. PICK q \in {f.route, r} :
          g = [f EXCEPT !.trigger = TRUE, !.route = q]
    BY <1>3 DEF PathRefused
  <2> QED
    BY <2>1 DEF FsmInv, FsmAgrees, Supervised, Fsms
<1> QED
  BY <1>1, <1>2, <1>3 DEF AfterPath

LEMMA FreshPlanKeepsInv ==
  ASSUME NEW f, NEW p, FsmInv(f, p), f.exec_state = "EXEC_TRAJ"
  PROVE  FsmInv(FreshPlan(f), p) /\ FreshPlan(f).route = f.route
<1> DEFINE g == ForgetFailures(f)
<1>1. FsmInv(g, p) /\ g.route = f.route /\ g.have_target
  BY ForgettingKeepsInv DEF g, FsmInv, FsmAgrees, Fsms, ForgetFailures
<1>2. FreshPlan(f) = [g EXCEPT !.exec_state = "GEN_NEW_TRAJ"]
  BY DEF FreshPlan, g
<1> HIDE DEF g
<1>3. FreshPlan(f) \in Fsms /\ FreshPlan(f).route = f.route
  BY <1>1, <1>2 DEF FsmInv, Fsms, ExecStates
<1>4. FsmAgrees(FreshPlan(f)) /\ Supervised(FreshPlan(f), p)
  BY <1>1, <1>2 DEF FsmInv, Fsms, FsmAgrees, Supervised
<1> QED
  BY <1>3, <1>4 DEF FsmInv

LEMMA FailureKeepsInv ==
  ASSUME NEW f, NEW p, FsmInv(f, p), f.exec_state = "GEN_NEW_TRAJ"
  PROVE  FsmInv(OneMoreFailure(f), p) /\ OneMoreFailure(f).route = f.route
<1> DEFINE fails == IF f.fails < MaxFailCount THEN f.fails + 1 ELSE f.fails
           since == Started(f.failing)
<1>1. fails \in 0..MaxFailCount /\ since \in Nat \cup {Off}
  BY ReplanConfigAssumption
  DEF FsmInv, Fsms, Started, ReplanConfigAssumption
<1>2. OneMoreFailure(f) = [f EXCEPT !.fails = fails, !.failing = since]
  BY DEF OneMoreFailure, FsmInv, Fsms
<1> HIDE DEF fails, since
<1> QED
  BY <1>1, <1>2 DEF FsmInv, FsmAgrees, Supervised, Fsms

LEMMA PlannedKeepsInv ==
  ASSUME NEW f, NEW p, FsmInv(f, p), f.exec_state = "EXEC_TRAJ", CanPlan(f)
  PROVE  FsmInv(Planned(f), f.route) /\ Planned(f).route = f.route
<1>1. f.route \in 1..MaxTasks /\ f.route > 0
  BY NativeScanAssumption DEF FsmInv, Fsms, CanPlan, NativeScanAssumption
<1>2. Planned(f) \in Fsms /\ Planned(f).route = f.route
  BY <1>1, ValuesFit DEF Planned, FsmInv, Fsms
<1>3. FsmAgrees(Planned(f)) /\ Supervised(Planned(f), f.route)
  BY <1>1 DEF Planned, FsmInv, FsmAgrees, Supervised, Fsms
<1> QED
  BY <1>2, <1>3 DEF FsmInv

LEMMA ExecutingKeepsInv ==
  ASSUME NEW f, NEW p, FsmInv(f, p), f.exec_state = "GEN_NEW_TRAJ", CanPlan(f)
  PROVE  FsmInv(Executing(f), f.route) /\ Executing(f).route = f.route
<1> DEFINE g == ForgetFailures(Planned(f))
<1>1. f.route \in 1..MaxTasks /\ f.route > 0
  BY NativeScanAssumption DEF FsmInv, Fsms, CanPlan, NativeScanAssumption
<1>2. Planned(f) \in Fsms
  BY <1>1, ValuesFit DEF Planned, FsmInv, Fsms
<1>3. /\ Planned(f).route = f.route /\ Planned(f).local = f.route
      /\ Planned(f).have_target /\ ~Planned(f).hover
  BY DEF Planned, FsmInv, FsmAgrees, Fsms
<1>4. /\ g \in Fsms /\ g.fails = 0 /\ g.route = f.route
      /\ g.local = f.route /\ g.have_target /\ ~g.hover
  BY <1>2, <1>3, ValuesFit DEF ForgetFailures, Fsms
<1>5. Executing(f) = [g EXCEPT !.exec_state = "EXEC_TRAJ",
                               !.escape = TRUE, !.stopped = FALSE]
  BY DEF Executing, g
<1> HIDE DEF g
<1>6. Executing(f) \in Fsms /\ Executing(f).route = f.route
  BY <1>4, <1>5 DEF Fsms, ExecStates
<1>7. FsmAgrees(Executing(f)) /\ Supervised(Executing(f), f.route)
  BY <1>1, <1>4, <1>5 DEF Fsms, FsmAgrees, Supervised
<1> QED
  BY <1>6, <1>7 DEF FsmInv

-----------------------------------------------------------------------------
(* A step of a timer: the route stays, and what is published was planned     *)
(* along it or stops the robot.                                              *)
TimerKeeps(f) ==
  /\ FsmInv(fsm', published')
  /\ fsm'.route = f.route
  /\ \/ PublishesNothing
     \/ bspline_msg' = TRUE /\ published' \in {StopTrajectory, f.route} \ {0}

LEMMA ExecKeepsInv ==
  ASSUME NEW f, FsmInv(f, published), ExecState(f)
  PROVE  TimerKeeps(f)
<1> USE DEF TimerKeeps
<1>1. CASE ExecInit(f) \/ ExecWaitTarget(f)
  <2> DEFINE g(s) == [f EXCEPT !.exec_state = s]
  <2>1. ASSUME NEW s \in {"WAIT_TARGET", "GEN_NEW_TRAJ"},
               f.exec_state \in {"INIT", "WAIT_TARGET"},
               s = "GEN_NEW_TRAJ" => f.have_target
        PROVE  FsmInv(g(s), published) /\ g(s).route = f.route
    BY <2>1 DEF FsmInv, FsmAgrees, Supervised, Fsms, ExecStates
  <2>2. \/ fsm' = f
        \/ fsm' = FinishProcess(g("WAIT_TARGET")) /\ f.exec_state = "INIT"
        \/ /\ fsm' = FinishProcess(g("GEN_NEW_TRAJ")) /\ f.have_target
           /\ f.exec_state = "WAIT_TARGET"
    BY <1>1 DEF ExecInit, ExecWaitTarget
  <2>3. PublishesNothing /\ published' = published
    BY <1>1 DEF ExecInit, ExecWaitTarget, PublishesNothing
  <2> HIDE DEF g
  <2> QED
    BY <2>1, <2>2, <2>3, FinishKeepsInv
<1>2. CASE ExecPlanned(f)
  BY <1>2, ExecutingKeepsInv DEF ExecPlanned, Publishes, CanPlan
<1>3. CASE ExecNotPlanned(f)
  BY <1>3, FinishKeepsInv DEF ExecNotPlanned, PublishesNothing
<1>4. CASE ExecPlanFailed(f)
  <2>1. FsmInv(OneMoreFailure(f), published)
        /\ OneMoreFailure(f).route = f.route
    BY <1>4, FailureKeepsInv DEF ExecPlanFailed
  <2> QED
    BY <1>4, <2>1, FinishKeepsInv DEF ExecPlanFailed, PublishesNothing
<1>5. CASE ExecReplanned(f)
  <2>1. FsmInv(Planned(f), f.route) /\ Planned(f).route = f.route
    BY <1>5, PlannedKeepsInv DEF ExecReplanned
  <2> QED
    BY <1>5, <2>1, FinishKeepsInv DEF ExecReplanned, Publishes, CanPlan
<1>6. ASSUME NEW safe \in BOOLEAN, ExecReplanFailed(f, safe)
      PROVE  TimerKeeps(f)
  <2>1. FsmInv(FreshPlan(f), published) /\ FreshPlan(f).route = f.route
    BY <1>6, FreshPlanKeepsInv DEF ExecReplanFailed
  <2>2. fsm' = FinishProcess(f) \/ fsm' = FinishProcess(FreshPlan(f))
    BY <1>6 DEF ExecReplanFailed
  <2> QED
    BY <1>6, <2>1, <2>2, FinishKeepsInv DEF ExecReplanFailed, PublishesNothing
<1>7. CASE ExecArrives(f)
  BY <1>7
  DEF ExecArrives, GoalReached, PublishesNothing, FsmInv, FsmAgrees,
      Supervised, Fsms, ExecStates
<1>8. CASE ExecFollows(f)
  BY <1>8, FinishKeepsInv, FreshPlanKeepsInv DEF ExecFollows, PublishesNothing
<1>9. CASE ExecStops(f)
  <2> DEFINE again == [f EXCEPT !.escape = FALSE]
             first == [f EXCEPT !.escape = FALSE, !.stopped = TRUE,
                                !.local = StopTrajectory, !.left = Duration]
  <2>1. f.exec_state = "EMERGENCY_STOP" /\ ~f.stopped
    BY <1>9 DEF ExecStops, FsmInv, Supervised
  <2>2. FsmInv(first, StopTrajectory) /\ first.route = f.route
    <3>1. first \in Fsms /\ first.route = f.route
      BY ValuesFit DEF FsmInv, Fsms
    <3>2. FsmAgrees(first) /\ Supervised(first, StopTrajectory)
      BY <2>1 DEF FsmInv, FsmAgrees, Supervised, Fsms
    <3> HIDE DEF first
    <3> QED
      BY <3>1, <3>2 DEF FsmInv
  <2>3. fsm' = FinishProcess(first) /\ Publishes(StopTrajectory)
    BY <1>9, <2>1 DEF ExecStops
  <2>4. StopTrajectory # 0
    BY DEF StopTrajectory
  <2> HIDE DEF first
  <2> QED
    BY <2>2, <2>3, <2>4, FinishKeepsInv DEF Publishes
<1>10. CASE ExecRecovers(f)
  <2> DEFINE g == [f EXCEPT !.exec_state = "GEN_NEW_TRAJ"]
  <2>1. FsmInv(g, published) /\ g.route = f.route
    BY <1>10
    DEF ExecRecovers, FsmInv, FsmAgrees, Supervised, Fsms, ExecStates
  <2>2. fsm' = FinishProcess(g)
    BY <1>10 DEF ExecRecovers, FsmInv, FsmAgrees
  <2> HIDE DEF g
  <2> QED
    BY <1>10, <2>1, <2>2, FinishKeepsInv DEF ExecRecovers, PublishesNothing
<1> QED
  BY <1>1, <1>2, <1>3, <1>4, <1>5, <1>6, <1>7, <1>8, <1>9, <1>10 DEF ExecState

LEMMA CollisionKeepsInv ==
  ASSUME FsmInv(fsm, published), CheckCollision
  PROVE  TimerKeeps(fsm)
<1>1. CASE SafetyReplanned
  BY <1>1, PlannedKeepsInv DEF SafetyReplanned, Publishes, CanPlan, TimerKeeps
<1>2. CASE SafetyFailed
  BY <1>2
  DEF SafetyFailed, TimerKeeps, PublishesNothing, FsmInv, FsmAgrees,
      Supervised, Fsms, ExecStates
<1> QED
  BY <1>1, <1>2 DEF CheckCollision

LEMMA TickKeepsFsm ==
  ASSUME FsmInv(fsm, published), ReplanTick
  PROVE  TimerKeeps(fsm)
<1> DEFINE since == Aged(fsm.failing, FailureLimit)
           left  == IF fsm.left = 0 THEN 0 ELSE fsm.left - 1
<1>1. since \in Nat \cup {Off} /\ left \in 0..Duration
  BY ReplanConfigAssumption
  DEF FsmInv, Fsms, Aged, Off, ReplanConfigAssumption
<1>2. fsm' = [fsm EXCEPT !.failing = since, !.left = left]
  BY DEF ReplanTick, FsmInv, Fsms
<1> HIDE DEF since, left
<1> QED
  BY <1>1, <1>2
  DEF ReplanTick, PublishesNothing, TimerKeeps, FsmInv, FsmAgrees, Supervised,
      Fsms

LEMMA TimersKeepInv ==
  ASSUME FsmInv(fsm, published), ExecFSM \/ CheckCollision \/ ReplanTick
  PROVE  TimerKeeps(fsm)
<1>1. /\ FsmInv(AfterDeferredSync(fsm), published)
      /\ AfterDeferredSync(fsm).route = fsm.route
  BY TakeoverKeepsInv
<1>2. ASSUME ExecFSM PROVE TimerKeeps(fsm)
  BY <1>1, <1>2, ExecKeepsInv DEF ExecFSM, TimerKeeps
<1> QED
  BY <1>2, CollisionKeepsInv, TickKeepsFsm

-----------------------------------------------------------------------------
(* The two nodes and what is under way between them.                         *)
Controller ==
  /\ receive_traj \in BOOLEAN /\ waiting \in BOOLEAN
  /\ ready_msg \subseteq BOOLEAN

LEMMA ControllerKeepsTypes ==
  ASSUME Controller,
         \/ ControllerReset \/ TakeoverSync
         \/ \E anchored \in BOOLEAN : Bspline(anchored)
  PROVE  Controller'
<1>1. receive_traj' \in BOOLEAN /\ waiting' \in BOOLEAN
  BY DEF ControllerReset, TakeoverSync, Bspline
<1>2. ready_msg' \in {{FALSE}, {TRUE}, ready_msg}
  BY DEF ControllerReset, TakeoverSync, Bspline
<1> QED
  BY <1>1, <1>2 DEF Controller

LEMMA NavigatorStep ==
  ASSUME ScanInv, Navigator
  PROVE  ScanInv'
<1> USE DEF Settled
<1>1. /\ fsm' = fsm /\ published' = published /\ bspline_msg' = bspline_msg
      /\ following' = following /\ restarts' = restarts
      /\ Controller' /\ ready_msg' = ready_msg
  BY DEF Navigator, TaskStarts, PathSent, TaskTracks, TaskAvoids, TaskEnds,
         nodes, replanVars, controllerVars, ScanInv, NativeScanTypeOK,
         Controller
<1>2. /\ task' \in 0..MaxTasks /\ phase' \in Phases /\ path' \in 0..MaxTasks
      /\ to_planner' \subseteq {"reset", "path", "sync"}
      /\ to_control' \subseteq {"reset", "sync"}
  <2>1. /\ task \in 0..MaxTasks /\ path \in 0..MaxTasks
        /\ to_planner \subseteq {"reset", "path", "sync"}
        /\ to_control \subseteq {"reset", "sync"}
    BY DEF ScanInv, NativeScanTypeOK
  <2>2. task' \in 0..MaxTasks /\ path' \in 0..MaxTasks
    BY <2>1, NativeScanAssumption
    DEF Navigator, TaskStarts, PathSent, TaskTracks, TaskAvoids, TaskEnds,
        NativeScanAssumption
  <2>3. phase' \in Phases
    BY DEF Navigator, TaskStarts, PathSent, TaskTracks, TaskAvoids, TaskEnds,
           Phases
  <2>4. to_planner' \subseteq {"reset", "path", "sync"}
    BY <2>1
    DEF Navigator, TaskStarts, PathSent, TaskTracks, TaskAvoids, TaskEnds,
        Tells, messages
  <2>5. to_control' \subseteq {"reset", "sync"}
    BY <2>1
    DEF Navigator, TaskStarts, PathSent, TaskTracks, TaskAvoids, TaskEnds,
        Tells, messages
  <2> QED
    BY <2>2, <2>3, <2>4, <2>5
<1>3. FsmInv(fsm', published')
  BY <1>1 DEF ScanInv
<1>4. NativeScanTypeOK'
  BY <1>1, <1>2, <1>3
  DEF ScanInv, NativeScanTypeOK, FsmInv, Fsms, Controller, Trajectories
<1>5. HandoverAgrees'
  <2>1. CASE TaskStarts
    BY <1>1, <2>1 DEF TaskStarts, Tells, ScanInv, HandoverAgrees
  <2>2. CASE PathSent
    BY <1>1, <2>2 DEF PathSent, NothingUnderWay, ScanInv, HandoverAgrees
  <2>3. CASE TaskTracks
    BY <1>1, <2>3 DEF TaskTracks, messages, ScanInv, HandoverAgrees
  <2>4. CASE TaskAvoids
    BY <1>1, <2>4 DEF TaskAvoids, Tells, ScanInv, HandoverAgrees
  <2>5. CASE TaskEnds
    BY <1>1, <2>5 DEF TaskEnds, ScanInv, HandoverAgrees
  <2> QED
    BY <2>1, <2>2, <2>3, <2>4, <2>5 DEF Navigator
<1> QED
  BY <1>1, <1>3, <1>4, <1>5 DEF ScanInv

(* What the planner node's steps have in common: one of its own messages is  *)
(* taken, nothing else is touched, and the route becomes none or the last    *)
(* path sent, if at all.                                                     *)
LEMMA PlannerStepKeepsInv ==
  ASSUME ScanInv,
         UNCHANGED <<controllerSide, taskStatus, path, to_control>>,
         restarts' \in 0..MaxRestarts,
         FsmInv(fsm', published'),
         to_planner' \subseteq to_planner \/ to_planner' \in {{}, {"path"}},
         "path" \in to_planner' => "path" \in to_planner \/ phase # "STARTING",
         "reset" \in to_planner' \/ "reset" \notin to_planner
           \/ fsm'.route = 0,
         phase # "STARTING" => fsm'.route \in {fsm.route, path, 0},
         phase = "STARTING" => fsm'.route \in {fsm.route, 0},
         \/ PublishesNothing
         \/ /\ bspline_msg' = TRUE
            /\ published' \in {StopTrajectory, fsm.route} \ {0}
  PROVE  ScanInv'
<1>1. /\ task' = task /\ phase' = phase /\ path' = path
      /\ to_control' = to_control /\ following' = following
      /\ receive_traj' = receive_traj /\ waiting' = waiting
      /\ ready_msg' = ready_msg
  BY DEF controllerSide, taskStatus, controllerVars
<1>2. bspline_msg' \in BOOLEAN /\ published' \in Trajectories
  <2>1. fsm.route # 0 => fsm.route \in Trajectories
    BY NativeScanAssumption
    DEF ScanInv, FsmInv, Fsms, Trajectories, NativeScanAssumption
  <2>2. CASE PublishesNothing
    BY <2>2 DEF PublishesNothing, ScanInv, NativeScanTypeOK
  <2> QED
    BY <2>1, <2>2, ValuesFit
<1>3. NativeScanTypeOK'
  <2>1. to_planner' \subseteq {"reset", "path", "sync"}
    BY DEF ScanInv, NativeScanTypeOK
  <2> QED
    BY <1>1, <1>2, <2>1
    DEF ScanInv, NativeScanTypeOK, FsmInv, Fsms, Trajectories
<1>4. HandoverAgrees'
  <2>1. bspline_msg' => published' # NoTrajectory
    BY DEF PublishesNothing, NoTrajectory, ScanInv, HandoverAgrees
  <2>2. phase' = "STARTING" =>
          "path" \notin to_planner'
            /\ ("reset" \in to_planner' \/ fsm'.route = 0)
    BY <1>1 DEF ScanInv, HandoverAgrees
  <2>3. Settled' =>
          /\ path' = task'
          /\ "reset" \notin to_planner'
          /\ fsm'.route \in {0, task'}
    BY <1>1 DEF ScanInv, HandoverAgrees, Settled
  <2>4. Settled' /\ bspline_msg' => published' \in {StopTrajectory, task'}
    BY <1>1 DEF PublishesNothing, ScanInv, HandoverAgrees, Settled
  <2> QED
    BY <1>1, <2>1, <2>2, <2>3, <2>4 DEF ScanInv, HandoverAgrees
<1> QED
  BY <1>3, <1>4 DEF ScanInv

LEMMA PlannerStepsKeepInv ==
  ASSUME ScanInv, Planner
  PROVE  ScanInv'
<1>1. /\ FsmInv(fsm, published) /\ path \in 0..MaxTasks
      /\ restarts \in 0..MaxRestarts
      /\ phase = "STARTING" => "path" \notin to_planner
  BY DEF ScanInv, NativeScanTypeOK, HandoverAgrees
<1>2. CASE PlannerReset
  <2>1. FsmInv(fsm', published') /\ fsm'.route = 0
    BY <1>1, <1>2, ResetKeepsInv DEF PlannerReset, PublishesNothing
  <2> QED
    BY <1>1, <1>2, <2>1, PlannerStepKeepsInv DEF PlannerReset, Received
<1>3. CASE PlannerPath
  <2>1. FsmInv(fsm', published') /\ fsm'.route \in {fsm.route, path}
    BY <1>1, <1>3, PathKeepsInv DEF PlannerPath, PublishesNothing
  <2>2. phase # "STARTING"
    BY <1>1, <1>3 DEF PlannerPath, Received
  <2> QED
    BY <1>1, <1>3, <2>1, <2>2, PlannerStepKeepsInv
    DEF PlannerPath, Received
<1>4. CASE PlannerSync
  <2>1. FsmInv(fsm', published') /\ fsm'.route = fsm.route
    BY <1>1, <1>4, TakeoverKeepsInv DEF PlannerSync, PublishesNothing
  <2> QED
    BY <1>1, <1>4, <2>1, PlannerStepKeepsInv DEF PlannerSync, Received
<1>5. CASE PlannerOdometry
  <2>1. FsmInv(fsm', published') /\ fsm'.route = fsm.route
    BY <1>1, <1>5, OdometryKeepsInv DEF PlannerOdometry, PublishesNothing
  <2> QED
    BY <1>1, <1>5, <2>1, PlannerStepKeepsInv DEF PlannerOdometry, messages
<1>6. CASE PlannerTimers
  <2>1. TimerKeeps(fsm)
    BY <1>1, <1>6, TimersKeepInv DEF PlannerTimers
  <2> QED
    BY <1>1, <1>6, <2>1, PlannerStepKeepsInv
    DEF PlannerTimers, TimerKeeps, messages
<1>7. CASE PlannerRestarts
  <2>1. FsmInv(FsmInit, published) /\ FsmInit.route = 0
    <3>1. FsmInit \in Fsms
      BY ValuesFit DEF FsmInit, Fsms, ExecStates
    <3> QED
      BY <3>1 DEF FsmInit, FsmInv, FsmAgrees, Supervised
  <2>2. restarts' \in 0..MaxRestarts
    BY <1>1, <1>7, NativeScanAssumption
    DEF PlannerRestarts, NativeScanAssumption
  <2> QED
    BY <1>1, <1>7, <2>1, <2>2, PlannerStepKeepsInv
    DEF PlannerRestarts, PublishesNothing
<1> QED
  BY <1>2, <1>3, <1>4, <1>5, <1>6, <1>7 DEF Planner

LEMMA ControlStep ==
  ASSUME ScanInv, Control
  PROVE  ScanInv'
<1> USE DEF Settled
<1>1. /\ fsm' = fsm /\ published' = published /\ task' = task
      /\ phase' = phase /\ path' = path /\ to_planner' = to_planner
      /\ restarts' = restarts
  BY DEF Control, ControlReset, ControlSync, ControlAccepts, ControlRefuses,
         plannerSide, taskStatus
<1>2. Controller'
  <2>1. Controller
    BY DEF ScanInv, NativeScanTypeOK, Controller
  <2>2. CASE ControlRefuses
    BY <2>1, <2>2 DEF ControlRefuses, controllerSide, controllerVars, Controller
  <2> QED
    BY <2>1, <2>2, ControllerKeepsTypes
    DEF Control, ControlReset, ControlSync, ControlAccepts
<1>3. /\ to_control' \subseteq to_control
      /\ bspline_msg' = bspline_msg \/ bspline_msg' = FALSE
      /\ following' \in {following, NoTrajectory, published}
  BY DEF Control, ControlReset, ControlSync, ControlAccepts, ControlRefuses,
         Heard, controllerSide
<1>4. NativeScanTypeOK'
  <2>1. following' \in Trajectories
    BY <1>3, ValuesFit DEF ScanInv, NativeScanTypeOK
  <2>2. bspline_msg' \in BOOLEAN /\ to_control' \subseteq {"reset", "sync"}
    BY <1>3 DEF ScanInv, NativeScanTypeOK
  <2> QED
    BY <1>1, <1>2, <2>1, <2>2
    DEF ScanInv, NativeScanTypeOK, Controller, Trajectories
<1>5. \/ following' = NoTrajectory /\ ready_msg' = {FALSE}
      \/ following' = published /\ bspline_msg /\ to_control' = to_control
      \/ following' = following /\ ready_msg' = ready_msg
           /\ to_control' = to_control
  BY DEF Control, ControlReset, ControlSync, ControlAccepts, ControlRefuses,
         ControllerReset, TakeoverSync, controllerSide, controllerVars
<1>6. ready_msg' = {TRUE} => following' # NoTrajectory
  BY <1>5 DEF ScanInv, HandoverAgrees
<1>7. phase' = "AVOIDING" /\ to_control' = {} =>
        following' \in {NoTrajectory, StopTrajectory, task'}
  BY <1>1, <1>5 DEF ScanInv, HandoverAgrees
<1>8. HandoverAgrees'
  <2>1. bspline_msg' => bspline_msg
    BY <1>3
  <2>2. bspline_msg' => published' # NoTrajectory
    BY <1>1, <2>1 DEF ScanInv, HandoverAgrees
  <2>3. phase' = "STARTING" =>
          "path" \notin to_planner'
            /\ ("reset" \in to_planner' \/ fsm'.route = 0)
    BY <1>1 DEF ScanInv, HandoverAgrees
  <2>4. Settled' =>
          /\ path' = task'
          /\ "reset" \notin to_planner'
          /\ fsm'.route \in {0, task'}
          /\ bspline_msg' => published' \in {StopTrajectory, task'}
    BY <1>1, <2>1 DEF ScanInv, HandoverAgrees
  <2> QED
    BY <1>6, <1>7, <2>2, <2>3, <2>4 DEF HandoverAgrees
<1> QED
  BY <1>1, <1>4, <1>8 DEF ScanInv

LEMMA ScanInitially == NativeScanInit => ScanInv
<1> SUFFICES ASSUME NativeScanInit PROVE ScanInv
  OBVIOUS
<1> USE DEF NativeScanInit, ReplanInit, ControllerInit
<1>1. FsmInit \in Fsms /\ FsmInit.route = 0
  BY ValuesFit DEF FsmInit, Fsms, ExecStates
<1>2. FsmInv(fsm, published)
  BY <1>1 DEF FsmInit, FsmInv, FsmAgrees, Supervised
<1>3. /\ receive_traj \in BOOLEAN /\ waiting \in BOOLEAN
      /\ ready_msg \subseteq BOOLEAN /\ bspline_msg \in BOOLEAN
  OBVIOUS
<1>4. NativeScanTypeOK
  BY <1>1, <1>3, ValuesFit, NativeScanAssumption
  DEF NativeScanTypeOK, Fsms, Phases, NativeScanAssumption
<1>5. HandoverAgrees
  BY DEF HandoverAgrees, Settled
<1> QED
  BY <1>2, <1>4, <1>5 DEF ScanInv

LEMMA ScanStutters ==
  ASSUME ScanInv, UNCHANGED scanVars
  PROVE  ScanInv'
<1>1. NativeScanTypeOK'
  BY DEF scanVars, replanVars, controllerVars, taskStatus, messages, ScanInv,
         NativeScanTypeOK, Trajectories
<1>2. FsmInv(fsm', published')
  BY DEF scanVars, replanVars, ScanInv
<1>3. HandoverAgrees'
  BY DEF scanVars, replanVars, controllerVars, taskStatus, messages, ScanInv,
         HandoverAgrees, Settled
<1> QED
  BY <1>1, <1>2, <1>3 DEF ScanInv

LEMMA ScanInvariance == NativeScanSpec => []ScanInv
<1>1. ScanInv /\ [NativeScanNext]_scanVars => ScanInv'
  BY NavigatorStep, PlannerStepsKeepInv, ControlStep, ScanStutters
  DEF NativeScanNext
<1> QED
  BY <1>1, ScanInitially, PTL DEF NativeScanSpec

-----------------------------------------------------------------------------
(* Every variable of the two nodes, and of what is under way between them,   *)
(* keeps its type.                                                           *)
THEOREM NativeScanTypes == NativeScanSpec => []NativeScanTypeOK
BY ScanInvariance, PTL DEF ScanInv

(* No run of failures, paths, takeovers and resets makes an emergency stop   *)
(* give up the reference path, whatever max_replan_fail_count_ is: failures  *)
(* are only counted while there is a target.                                 *)
THEOREM RouteSurvives == NativeScanSpec => []RouteSurvivesFailures
<1>1. ScanInv => RouteSurvivesFailures
  BY DEF ScanInv, FsmInv, FsmAgrees, RouteSurvivesFailures
<1> QED
  BY <1>1, ScanInvariance, PTL

(* The planner supervises the trajectory it published last, and publishes    *)
(* every emergency stop.                                                     *)
THEOREM Supervises == NativeScanSpec => []SupervisesWhatItPublished
<1>1. ScanInv => SupervisesWhatItPublished
  BY DEF ScanInv, FsmInv, Supervised, SupervisesWhatItPublished
<1> QED
  BY <1>1, ScanInvariance, PTL

(* In a takeover that was announced, the controller stands or follows the    *)
(* path of the task that asked for it, however many tasks came before and    *)
(* however often the planner node was restarted.                             *)
THEOREM ReadyForThisTask == NativeScanSpec => []ReadyIsForThisTask
<1>1. ScanInv => ReadyIsForThisTask
  BY DEF ScanInv, HandoverAgrees, ReadyIsForThisTask
<1> QED
  BY <1>1, ScanInvariance, PTL

=============================================================================
