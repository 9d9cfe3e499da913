----------------------- MODULE NavigationCoordinator -----------------------
(***************************************************************************)
(* navdog::NavigationCoordinator: the navigation state machine.            *)
(*                                                                         *)
(* handleEvent() joins the task session to the machine; update() is one    *)
(* control cycle: it advances the planning handshake, emits at most one    *)
(* planner action and runs the controller of the current state.  The       *)
(* controllers themselves are seen through their results (aligned,         *)
(* reached, blocked, ...), which are the inputs of a cycle, and every      *)
(* velocity is "zero", "rotate" or "drive".  SafetySupervisor may turn a   *)
(* velocity into zero in any cycle.                                        *)
(*                                                                         *)
(* Time: Tick advances the three timers of the machine.  They hold the     *)
(* ticks since their start, saturate just past their limit, and go on      *)
(* while the task is paused, because the code compares time stamps.        *)
(***************************************************************************)
EXTENDS TaskManager, NavigationMode, Timers, Sequences

CONSTANTS
  PlanTimeout,    (* planner.planning_timeout_sec, in ticks                  *)
  AlignTimeout,   (* start_align.max_hold_sec                                *)
  FinishTimeout,  (* goal_controller.obstacle_finish_timeout_sec             *)
  MaxPending      (* bound: events are handled while the deque is shorter    *)

ASSUME CoordinatorConfigAssumption ==
  /\ PlanTimeout \in Nat
  /\ AlignTimeout \in Nat
  /\ FinishTimeout \in Nat
  /\ MaxPending \in Nat

VARIABLES
  state,               (* NavState: the values the code ever assigns         *)
  state_before_pause,
  route,               (* RouteManager's task view: number and points        *)
  pending,             (* pending_planner_actions_, a deque                  *)
  plan_age,            (* planning_request_sent_ and planning_started_sec_   *)
  expected,            (* expected_trajectory_id_                            *)
  align_age,           (* phase_started_ of StartAlignController             *)
  near_age,            (* the near-goal-blocked timer                        *)
  mode,                (* the mode NavigationModeManager holds               *)
  output               (* CoreOutput of the last cycle                       *)

machine == <<state, state_before_pause, route, pending, plan_age, expected,
             align_age, near_age, mode>>
coordinatorVars == <<taskVars, machine, output>>

NavStates == {"IDLE", "PLANNING", "START_ALIGN", "TRACKING", "PAUSED",
              "SUCCEEDED", "FAILED"}

NoRoute == [sequence |-> 0, points |-> "empty"]

ActionTypes == {"SET_ROUTE", "CANCEL", "PAUSE", "RESUME", "UPDATE_SPEED_LIMIT"}
PlannerAction(type, sequence) == [type |-> type, sequence |-> sequence]
NoAction == PlannerAction("NONE", 0)

PlannerStates == {"READY", "EXECUTING", "FAILED", "PLANNING", "IDLE",
                  "UNAVAILABLE"}
(* timely: the stamp lies between the request and now.                       *)
Feedback(sequence, timely, st) ==
  [valid |-> TRUE, sequence |-> sequence, timely |-> timely, state |-> st]
NoFeedback == [valid |-> FALSE, sequence |-> 0, timely |-> FALSE,
               state |-> "UNAVAILABLE"]
Feedbacks == {NoFeedback} \cup
  {Feedback(n, t, st) : n \in 0..MaxSequence, t \in BOOLEAN,
                        st \in PlannerStates}

Alignments == {"aligned", "rotating", "noDirection"}
(* Distance to the goal: beyond near_goal_switch_dist, within it, within     *)
(* finish_dist, and there with the final yaw as well.                        *)
Goals      == {"far", "near", "finish", "reached"}
Velocities == {"zero", "rotate", "drive"}

Output(act, st, md, switched, cmd, progressed) ==
  [action |-> act, state |-> st, mode |-> md, transitioned |-> switched,
   cmd |-> cmd, progress |-> progressed]

(* SafetySupervisor.apply lets a velocity through or stops the robot.        *)
Supervised(raw) == {raw, "zero"}

CoordinatorInit ==
  /\ TaskInit
  /\ state = "IDLE"
  /\ state_before_pause = "IDLE"
  /\ route = NoRoute
  /\ pending = <<>>
  /\ plan_age = Off
  /\ expected = 0
  /\ align_age = Off
  /\ near_age = Off
  /\ mode = "NONE"
  /\ output = Output(NoAction, "IDLE", "NONE", FALSE, "zero", FALSE)

-----------------------------------------------------------------------------
(* Shared steps.                                                             *)

(* Variant: a CANCEL queues up behind what it should have cleared.           *)
EnqueuedBehind(action) == Append(pending, action)

(* A CANCEL supersedes everything that still waits.                          *)
Enqueued(action) ==
  IF action.type = "CANCEL" THEN <<action>> ELSE Append(pending, action)

NextAction == IF pending = <<>> THEN NoAction ELSE Head(pending)
(* Variant: taking an action clears the queue.                               *)
AfterTakingAll == <<>>

AfterTaking == IF pending = <<>> THEN <<>> ELSE Tail(pending)

ClearPlanningContext ==
  /\ plan_age' = Off
  /\ expected' = 0

(* Variant: the near-goal timer survives.                                    *)
ResetControllersButTimer ==
  /\ align_age' = Off
  /\ mode' = "NONE"
  /\ UNCHANGED near_age

ResetControllers ==
  /\ near_age' = Off
  /\ align_age' = Off
  /\ mode' = "NONE"

(* Variant: the failed task keeps its route.                                 *)
EnterFailedWithRoute ==
  /\ state' = "FAILED"
  /\ pending' = <<>>
  /\ ClearPlanningContext
  /\ ResetControllers
  /\ UNCHANGED <<taskVars, state_before_pause, route>>

(* The session is not touched: a failed task keeps its lock.                 *)
EnterFailedState ==
  /\ state' = "FAILED"
  /\ pending' = <<>>
  /\ route' = NoRoute
  /\ ClearPlanningContext
  /\ ResetControllers
  /\ UNCHANGED <<taskVars, state_before_pause>>

-----------------------------------------------------------------------------
(* handleEvent                                                               *)

CanAcceptRoute(sequence) ==
  sequence # 0 /\ (route.sequence = 0 \/ sequence > route.sequence)

OnStarted(ev) ==
  /\ StartTask(ev)
  /\ IF CanAcceptRoute(next_sequence)
       THEN /\ route' = [sequence |-> next_sequence, points |-> ev.task.points]
            /\ ClearPlanningContext
            /\ ResetControllers
            /\ state' = "PLANNING"
            /\ pending' = Enqueued(PlannerAction("SET_ROUTE", next_sequence))
       ELSE /\ state' = "FAILED"
            /\ UNCHANGED <<route, pending, plan_age, expected, align_age,
                           near_age, mode>>
  /\ UNCHANGED state_before_pause

OnCancelled(ev) ==
  /\ CancelTask(ev)
  /\ ClearPlanningContext
  /\ ResetControllers
  /\ route' = NoRoute
  /\ state' = "IDLE"
  /\ pending' = Enqueued(PlannerAction("CANCEL", session.sequence))
  /\ UNCHANGED state_before_pause

OnMaxVxUpdated(ev) ==
  /\ UpdateMaxVx(ev)
  /\ pending' = IF state \in {"PLANNING", "START_ALIGN", "TRACKING"}
                  THEN Enqueued(PlannerAction("UPDATE_SPEED_LIMIT",
                                              session.sequence))
                  ELSE pending
  /\ UNCHANGED <<state, state_before_pause, route, plan_age, expected,
                 align_age, near_age, mode>>

(* Variant: a second pause overwrites the state to return to.                *)
OnPausedAgain(ev) ==
  /\ PauseTask(ev)
  /\ state_before_pause' = state
  /\ state' = "PAUSED"
  /\ pending' = Enqueued(PlannerAction("PAUSE", 0))
  /\ UNCHANGED <<route, plan_age, expected, align_age, near_age, mode>>

(* A pause is accepted in every state of an active task, a finished one      *)
(* included; a second pause does not overwrite the state to return to.       *)
OnPaused(ev) ==
  /\ PauseTask(ev)
  /\ IF state # "PAUSED"
       THEN /\ state_before_pause' = state
            /\ state' = "PAUSED"
            /\ pending' = Enqueued(PlannerAction("PAUSE", 0))
       ELSE UNCHANGED <<state, state_before_pause, pending>>
  /\ UNCHANGED <<route, plan_age, expected, align_age, near_age, mode>>

OnResumed(ev) ==
  /\ ResumeTask(ev)
  /\ IF state = "PAUSED"
       THEN /\ state' = IF state_before_pause = "IDLE" THEN "TRACKING"
                                                       ELSE state_before_pause
            /\ pending' = Enqueued(PlannerAction("RESUME", 0))
       ELSE UNCHANGED <<state, pending>>
  /\ UNCHANGED <<state_before_pause, route, plan_age, expected, align_age,
                 near_age, mode>>

OnRefused(ev) ==
  /\ RefuseEvent(ev)
  /\ UNCHANGED machine

HandleEvent(ev) ==
  /\ \/ OnStarted(ev)
     \/ OnCancelled(ev)
     \/ OnMaxVxUpdated(ev)
     \/ OnPaused(ev)
     \/ OnResumed(ev)
     \/ OnRefused(ev)
  /\ UNCHANGED output

-----------------------------------------------------------------------------
(* update: the planning handshake                                            *)

FeedbackUsable(fb) ==
  /\ plan_age # Off
  /\ fb.valid
  /\ fb.timely
  /\ fb.sequence # 0
  /\ fb.sequence = expected

(* Variant: planning never times out.                                        *)
PlanFailedWithoutTimeout(fb) == FeedbackUsable(fb) /\ fb.state = "FAILED"

PlanReady(fb)  == FeedbackUsable(fb) /\ fb.state \in {"READY", "EXECUTING"}
PlanFailed(fb) == \/ FeedbackUsable(fb) /\ fb.state = "FAILED"
                  \/ ~PlanReady(fb) /\ plan_age > PlanTimeout

Stopped == Output(NextAction, state, "NONE", FALSE, "zero", FALSE)

(* PLANNING before the request is out: the cycle takes one action, and only  *)
(* if that is the SET_ROUTE does the planning clock start.                   *)
UpdateRequest ==
  /\ state = "PLANNING"
  /\ plan_age = Off
  /\ pending' = AfterTaking
  /\ IF NextAction.type = "SET_ROUTE"
       THEN /\ plan_age' = 0
            /\ expected' = NextAction.sequence
       ELSE UNCHANGED <<plan_age, expected>>
  /\ output' = Stopped
  /\ UNCHANGED <<taskVars, state, state_before_pause, route, align_age,
                 near_age, mode>>

UpdateAwaitPlan(fb) ==
  /\ state = "PLANNING"
  /\ plan_age # Off
  /\ ~PlanReady(fb) /\ ~PlanFailed(fb)
  /\ pending' = AfterTaking
  /\ output' = Stopped
  /\ UNCHANGED <<taskVars, state, state_before_pause, route, plan_age,
                 expected, align_age, near_age, mode>>

UpdatePlanFailed(fb) ==
  /\ state = "PLANNING"
  /\ plan_age # Off
  /\ PlanFailed(fb)
  /\ EnterFailedState
  /\ output' = Output(NoAction, "FAILED", "NONE", FALSE, "zero", FALSE)

(* Every state without a controller, and any state but START_ALIGN in the    *)
(* cycle that emits a CANCEL: the command is zero.                           *)
UpdateIdle ==
  /\ \/ state \in {"IDLE", "PAUSED", "SUCCEEDED", "FAILED"}
     \/ state = "TRACKING" /\ NextAction.type = "CANCEL"
  /\ pending' = AfterTaking
  /\ output' = Stopped
  /\ UNCHANGED <<taskVars, state, state_before_pause, route, plan_age,
                 expected, align_age, near_age, mode>>

-----------------------------------------------------------------------------
(* update: START_ALIGN.  A usable READY enters the state and its controller  *)
(* runs in the same cycle.                                                   *)

(* Variant: planning is left without a trajectory.                           *)
AtStartAlignEarly(fb) == state \in {"PLANNING", "START_ALIGN"}

AtStartAlign(fb) ==
  \/ state = "START_ALIGN"
  \/ state = "PLANNING" /\ PlanReady(fb)

AlignAge == IF state = "PLANNING" THEN Off ELSE align_age

Aligns(st, age, cmd, progressed) ==
  /\ state' = st
  /\ align_age' = age
  /\ pending' = AfterTaking
  /\ ClearPlanningContext
  /\ output' = Output(NextAction, st, "NONE", FALSE, cmd, progressed)
  /\ UNCHANGED <<taskVars, state_before_pause, route, near_age, mode>>

(* No progress (WAITING_FOR_ROBOT, or a route progress error: START_ALIGN    *)
(* does not tell them apart), or no corridor yet: stand still.  The          *)
(* alignment clock is not started.                                           *)
AlignWaitRobot == Aligns("START_ALIGN", AlignAge, "zero", FALSE)

AlignWaitCorridor(corridor) ==
  /\ corridor \notin Usable
  /\ Aligns("START_ALIGN", AlignAge, "zero", TRUE)

(* A blocked route skips the alignment, and so does a finished one.          *)
AlignSkip(corridor, alignment) ==
  /\ corridor \in Blocked \/ (corridor = "CLEAR" /\ alignment = "aligned")
  /\ Aligns("TRACKING", Off, "zero", TRUE)

(* Variant: every cycle of the rotation restarts the clock.                  *)
AlignRotateAnew(corridor, alignment) ==
  /\ corridor = "CLEAR" /\ alignment = "rotating"
  /\ Started(AlignAge) <= AlignTimeout
  /\ \E cmd \in Supervised("rotate") :
       Aligns("START_ALIGN", 0, cmd, TRUE)

AlignRotate(corridor, alignment) ==
  /\ corridor = "CLEAR" /\ alignment = "rotating"
  /\ Started(AlignAge) <= AlignTimeout
  /\ \E cmd \in Supervised("rotate") :
       Aligns("START_ALIGN", Started(AlignAge), cmd, TRUE)

(* Timed out, or no direction to turn to: no point has a yaw, and none is    *)
(* far enough from the one before it or from the robot.  The direction is    *)
(* resolved once, in the first cycle of the controller.                      *)
AlignFail(corridor, alignment) ==
  /\ corridor = "CLEAR"
  /\ \/ alignment = "rotating" /\ Started(AlignAge) > AlignTimeout
     \/ alignment = "noDirection" /\ AlignAge = Off
  /\ EnterFailedState
  /\ output' = Output(NextAction, "FAILED", "NONE", FALSE, "zero", TRUE)

UpdateStartAlign(fb, corridors) ==
  /\ AtStartAlign(fb)
  /\ \/ AlignWaitRobot
     \/ \E corridor \in corridors :
          \/ AlignWaitCorridor(corridor)
          \/ \E alignment \in Alignments :
               \/ AlignSkip(corridor, alignment)
               \/ AlignRotate(corridor, alignment)
               \/ AlignFail(corridor, alignment)

-----------------------------------------------------------------------------
(* update: TRACKING                                                          *)

(* In LOCAL_AVOID a clear corridor without an obstacle summary counts as no  *)
(* observation.                                                              *)
Observed(corridor, obstacles) ==
  IF mode = "LOCAL_AVOID" /\ corridor = "CLEAR" /\ obstacles = "invalid"
    THEN "WAITING" ELSE corridor

(* The robot is not usable: the mode manager is not asked, and the cycle     *)
(* reports the default mode NONE.                                            *)
TrackWaitRobot ==
  /\ pending' = AfterTaking
  /\ output' = Output(NextAction, "TRACKING", "NONE", FALSE, "zero", FALSE)
  /\ UNCHANGED <<taskVars, state, state_before_pause, route, plan_age,
                 expected, align_age, near_age, mode>>

(* A route progress error, or a corridor the mode manager refuses.           *)
TrackFail(progressed) ==
  /\ EnterFailedState
  /\ output' = Output(NextAction, "FAILED", "NONE", FALSE, "zero", progressed)

(* The mode is kept and reported; no controller runs and no timer is reset.  *)
TrackWaitCorridor ==
  /\ mode' = Initialized(mode)
  /\ pending' = AfterTaking
  /\ output' = Output(NextAction, "TRACKING", mode', mode = "NONE", "zero",
                      TRUE)
  /\ UNCHANGED <<taskVars, state, state_before_pause, route, plan_age,
                 expected, align_age, near_age>>

NearGoalBlocked(corridor, goal) == goal # "far" /\ corridor \in BlockedInRange

Switched == mode = "NONE" \/ mode' # mode

Tracks(st, age, cmd) ==
  /\ state' = st
  /\ near_age' = age
  /\ pending' = AfterTaking
  /\ output' = Output(NextAction, st, mode', Switched, cmd, TRUE)
  /\ UNCHANGED <<taskVars, state_before_pause, route, plan_age, expected,
                 align_age>>

(* The goal is close and the way to it is blocked: stand, and call it a      *)
(* success when that has lasted long enough.                                 *)
TrackNearGoalBlocked(corridor, goal) ==
  /\ NearGoalBlocked(corridor, goal)
  /\ IF Started(near_age) >= FinishTimeout
       THEN Tracks("SUCCEEDED", Off, "zero")
       ELSE Tracks("TRACKING", Started(near_age), "zero")

(* The route may be driven: the goal controller turns the robot on the spot  *)
(* within finish_dist, the route follower drives before.                     *)
TrackRoute(corridor, goal) ==
  /\ ~NearGoalBlocked(corridor, goal)
  /\ mode' = "ROUTE_FOLLOW"
  /\ \/ corridor \in BlockedInRange /\ Tracks("TRACKING", Off, "zero")
     \/ /\ corridor \notin BlockedInRange
        /\ \/ goal = "reached" /\ Tracks("SUCCEEDED", Off, "zero")
           \/ goal = "finish" /\ \E cmd \in Supervised("rotate") :
                                   Tracks("TRACKING", Off, cmd)
           \/ goal \in {"far", "near"} /\ \E cmd \in Supervised("drive") :
                                   Tracks("TRACKING", Off, cmd)

(* The velocity is native SCAN's; the coordinator asks for none.             *)
TrackAvoid(corridor, goal) ==
  /\ ~NearGoalBlocked(corridor, goal)
  /\ mode' = "LOCAL_AVOID"
  /\ Tracks("TRACKING", Off, "zero")

TrackMode(corridor, obstacles) ==
  /\ corridor \in Usable
  /\ mode' \in ModesAfter(mode, session.mode, corridor, obstacles)
  /\ \E goal \in Goals :
       \/ TrackNearGoalBlocked(corridor, goal)
       \/ TrackRoute(corridor, goal)
       \/ TrackAvoid(corridor, goal)

UpdateTracking(corridors) ==
  /\ state = "TRACKING"
  /\ NextAction.type # "CANCEL"
  /\ session.active /\ route.sequence # 0
  /\ \/ TrackWaitRobot
     \/ TrackFail(FALSE)
     \/ \E corridor \in corridors, obstacles \in Obstacles :
          LET seen == Observed(corridor, obstacles) IN
            \/ seen = "INVALID" /\ TrackFail(TRUE)
            \/ seen = "WAITING" /\ TrackWaitCorridor
            \/ TrackMode(seen, obstacles)

-----------------------------------------------------------------------------
(* One control cycle, given the planner feedback and the corridor            *)
(* observations it may find.                                                 *)
Update(fb, corridors) ==
  \/ UpdateRequest
  \/ UpdateAwaitPlan(fb)
  \/ UpdatePlanFailed(fb)
  \/ UpdateIdle
  \/ UpdateStartAlign(fb, corridors)
  \/ UpdateTracking(corridors)

(* reset(): everything back to the start, except the task counter.           *)
Reset ==
  /\ session' = NoSession
  /\ state' = "IDLE"
  /\ state_before_pause' = "IDLE"
  /\ route' = NoRoute
  /\ pending' = <<>>
  /\ ClearPlanningContext
  /\ ResetControllers
  /\ UNCHANGED <<next_sequence, output>>

Tick ==
  /\ plan_age' = Aged(plan_age, PlanTimeout)
  /\ align_age' = Aged(align_age, AlignTimeout)
  /\ near_age' = Aged(near_age, FinishTimeout)
  /\ UNCHANGED <<taskVars, state, state_before_pause, route, pending,
                 expected, mode, output>>

-----------------------------------------------------------------------------
(* The coordinator under any caller: events and cycles in any order, every   *)
(* feedback and observation a cycle may bring.                               *)

(* Only PLANNING reads the feedback.                                         *)
FeedbacksRead == IF state = "PLANNING" THEN Feedbacks ELSE {NoFeedback}

Cycle == \E fb \in FeedbacksRead : Update(fb, Corridors)

EventArrives ==
  /\ Len(pending) < MaxPending
  /\ \E ev \in Events : HandleEvent(ev)

CoordinatorNext == EventArrives \/ Cycle \/ Reset \/ Tick

CoordinatorSpec == CoordinatorInit /\ [][CoordinatorNext]_coordinatorVars

(* The coordinator as the runtime drives it: reset() is never called, the    *)
(* control timer fires for ever, time passes, and the sender may only use    *)
(* the events given.                                                         *)
ServedNext(events) ==
  \/ Len(pending) < MaxPending /\ \E ev \in events : HandleEvent(ev)
  \/ Cycle
  \/ Tick

ServedFairness ==
  /\ WF_coordinatorVars(Cycle)
  /\ WF_coordinatorVars(Tick)

-----------------------------------------------------------------------------
CoordinatorTypeOK ==
  /\ TaskTypeOK
  /\ state \in NavStates
  /\ state_before_pause \in NavStates \ {"PAUSED"}
  /\ route \in [sequence : Nat, points : PointLists]
  /\ pending \in Seq([type : ActionTypes, sequence : Nat])
  /\ plan_age \in Nat \cup {Off}
  /\ expected \in Nat
  /\ align_age \in Nat \cup {Off}
  /\ near_age \in Nat \cup {Off}
  /\ mode \in Modes
  /\ output \in [action : [type : ActionTypes \cup {"NONE"}, sequence : Nat],
                 state : NavStates, mode : Modes, transitioned : BOOLEAN,
                 cmd : Velocities, progress : BOOLEAN]

(* The state a paused machine will return to.                                *)
EffectiveState == IF state = "PAUSED" THEN state_before_pause ELSE state

(* The machine and the task session, kept by two classes, always agree:      *)
(* IDLE exactly without a task, PAUSED exactly when the session is paused,   *)
(* and a pause never returns to IDLE.                                        *)
SessionMatchesState ==
  /\ (state = "IDLE") <=> ~session.active
  /\ (state = "PAUSED") <=> session.paused
  /\ state = "PAUSED" => state_before_pause # "IDLE"
  /\ session.active <=> session.sequence # 0

(* The route is the session's own as long as the task is alive, and gone     *)
(* once it failed or was cancelled: update() never finds a TRACKING or       *)
(* START_ALIGN state without a route, and acceptRoute never refuses.         *)
RouteMatchesSession ==
  /\ EffectiveState \in {"PLANNING", "START_ALIGN", "TRACKING", "SUCCEEDED"}
       => route.sequence = session.sequence
  /\ EffectiveState \in {"IDLE", "FAILED"} => route = NoRoute
  /\ session.sequence < next_sequence

(* What the coordinator remembers of a phase is set in that phase only.      *)
ContextMatchesState ==
  /\ (plan_age = Off) <=> (expected = 0)
  /\ plan_age # Off => /\ EffectiveState = "PLANNING"
                       /\ expected = session.sequence
  /\ align_age # Off => EffectiveState = "START_ALIGN"
  /\ near_age # Off => EffectiveState = "TRACKING"
  /\ mode # "NONE" => EffectiveState \in {"TRACKING", "SUCCEEDED"}

(* No clock, expected trajectory or mode of an earlier state or task is      *)
(* still set when the machine is somewhere else, and of all the answers the  *)
(* planner may give, late ones included, only one to the live session's      *)
(* request is ever taken, and only while that session is being planned.      *)
ContextBelongsToState ==
  /\ ContextMatchesState
  /\ \A fb \in Feedbacks :
       FeedbackUsable(fb) => /\ EffectiveState = "PLANNING"
                             /\ fb.sequence = session.sequence

(* The planner is never asked for the route of a task that is gone: a        *)
(* SET_ROUTE that still waits is the live session's, is the only one, and    *)
(* was not sent before; a CANCEL is always next in line, and none waits once *)
(* the robot may move.                                                       *)
PlannerQueueIsCurrent ==
  \A i \in DOMAIN pending :
    /\ pending[i].type = "SET_ROUTE" =>
         /\ pending[i].sequence = session.sequence
         /\ EffectiveState = "PLANNING"
         /\ plan_age = Off
         /\ \A j \in DOMAIN pending : pending[j].type = "SET_ROUTE" => j = i
    /\ pending[i].type = "CANCEL" =>
         /\ i = 1
         /\ EffectiveState \in {"IDLE", "PLANNING"}
         /\ plan_age = Off

(* A cycle moves the robot only for a task that is active, not paused and    *)
(* holds its route, and never in the cycle that tells the planner to cancel  *)
(* or to plan.                                                               *)
MotionIsAuthorized ==
  [][output'.cmd # "zero" /\ output' # output =>
       /\ session'.active /\ ~session'.paused
       /\ route'.sequence = session'.sequence
       /\ output'.state = state'
       /\ output'.action.type \notin {"CANCEL", "SET_ROUTE"}]_coordinatorVars

(* The task lifecycle.                                                       *)
Phase ==
  CASE EffectiveState = "IDLE"      -> "none"
    [] EffectiveState = "SUCCEEDED" -> "succeeded"
    [] EffectiveState = "FAILED"    -> "failed"
    [] OTHER                        -> "running"

Lifecycle == INSTANCE TaskLifecycle
  WITH task <- session.sequence, issued <- next_sequence - 1,
       phase <- Phase, paused <- session.paused

(* The coordinator implements the task lifecycle: tasks are locked until     *)
(* cancelled, a paused task cannot finish, and an outcome is final.          *)
ImplementsLifecycle == Lifecycle!Spec

Waits(type, sequence) ==
  \E i \in DOMAIN pending : pending[i] = PlannerAction(type, sequence)

(* A route request that waits is served, and a cancellation that waits is    *)
(* passed on, itself or merged into a later one; a request is withdrawn only *)
(* with its task, and everything only by reset().  Nothing else that arrives *)
(* in between starves them.                                                  *)
RequestsReachPlanner ==
  \A n \in 1..MaxSequence :
    /\ Waits("SET_ROUTE", n) ~>
         \/ output.action = PlannerAction("SET_ROUTE", n)
         \/ session.sequence # n
    /\ Waits("CANCEL", n) ~>
         \/ output.action.type = "CANCEL" /\ output.action.sequence >= n
         \/ session.sequence = 0 /\ pending = <<>>

(* Planning ends, with a trajectory or by the timeout.                       *)
PlanningEnds == state = "PLANNING" ~> state # "PLANNING"

(* It does whenever its request still waits or was sent from PLANNING.       *)
OpenPlanningEnds ==
  (/\ state = "PLANNING"
   /\ plan_age # Off \/ Waits("SET_ROUTE", session.sequence))
     ~> state # "PLANNING"

(* In the cycles of START_ALIGN a usable corridor is observed again and      *)
(* again, and the robot is on its route.                                     *)
CorridorIsSeen ==
  SF_coordinatorVars(
    \E corridor \in Usable, alignment \in Alignments :
      /\ state = "START_ALIGN"
      /\ \/ AlignSkip(corridor, alignment)
         \/ AlignRotate(corridor, alignment)
         \/ AlignFail(corridor, alignment))

(* The alignment ends, at the latest by its timeout, if corridors are seen:  *)
(* pauses do not put the timeout off, nor do cycles without a corridor in    *)
(* between.  Only a pause that lasts, or a corridor never seen again, does.  *)
AlignmentEnds ==
  CorridorIsSeen =>
    (EffectiveState = "START_ALIGN"
       ~> EffectiveState # "START_ALIGN" \/ [](state = "PAUSED"))

=============================================================================
