# Verification of SCAN_Planner_dmq's navigation

TLA+ models of the part of this repository that decides: who may start, pause
and cancel a task, in which phase a task is, whether the robot follows its
route or avoids an obstacle, who owns `/cmd_vel`, and how the robot is handed
over between two controllers while it moves.  TLC checks the models on small
instances; TLAPS proves every safety property among
them for every configuration, and leaves liveness to TLC.
Of the geometry, the progress along a route and the look at the corridor ahead
are modelled on small routes of whole-numbered lengths; optimisation (A*,
B-splines, grid maps) is not, and what it answers is an input that may take any
value.

Paths below are relative to the repository; `navdog` stands for
`src/navdog`, `dmq` for `src/planner/plan_manage_dmq`.

## 1. The system

```
 MQTT broker
    | thread of the MQTT client
 MqttBridge ── queue ──> NavdogRuntimeNode (control timer)
                           │  NavigationCoordinator
                           │    TaskManager, RouteManager, StartAlignController,
                           │    NavigationModeManager, GoalController, RouteFollower,
                           │    SafetySupervisor
        route_cmd, state,  │  │ reset, initial_path, takeover_sync
        navigation_mode    │  v
                           │ native SCAN: SCANReplanFSM ── B-spline ──> closed_loop_controller
                           v                                    scan_cmd, takeover_ready │
                     cmd_vel_owner_mux <─────────────────────────────────────────────────┘
                           │
                        /cmd_vel
```

Three ROS nodes (`navdog_runtime`, native SCAN with its controller, the mux)
run concurrently and talk by topics; within `navdog_runtime` the MQTT client
has a thread of its own.

| Component | State it keeps | Operations | What makes it correct |
|---|---|---|---|
| `TaskManager` (navdog/navdog_task) | the session (number, mode, speed, active, paused), the next number | one event in, one result out | one task at a time, fresh numbers, the session is a lock that only a cancellation opens |
| `NavigationCoordinator` (navdog/navdog_core) | state, state before the pause, route, queue of planner actions, planning context, clocks | `handleEvent`, `update`, `reset` | session and machine agree; nothing of an old task survives; the robot moves only when it may; every phase ends |
| `NavigationModeManager` | mode, active task, two candidate timers, the hold time | `update`, `reset` | changes are confirmed, no flicker, a lasting block is avoided |
| `RouteManager`, `RouteProgressTracker` | route, legs, arc position | accept, clear, progress | progress neither falls nor takes the wrong branch |
| `RouteCorridorObservationGate`, corridor evaluator (navdog_scan_adapter) | none; the runtime keeps the progress of the last cycle for them | walk along the route ahead, judge the observation | clear means clear, although it was looked at one cycle before |
| `StartAlignController`, `GoalController`, `RouteFollower`, `SafetySupervisor` | a clock or the last output | one command per cycle | bounded commands, phases that end |
| `MqttBridge`, `MqttCodec` | a bounded queue of events | append from the MQTT thread, take from the timer | a cancellation is not lost |
| `NavdogRuntimeNode` | planner feedback, last progress, cleanup number, path handoff | MQTT events, one cycle, answer, path handoff, cleanup | nothing crosses from one task to another; native SCAN follows the live task's path |
| `cmd_vel_owner_mux`, `VelocitySlewLimiter` | state, mode, two commands and their stamps, owner, takeover, last output | five subscribers, a timer | only the owner moves the robot, on fresh commands, without jumps |
| `closed_loop_controller` (dmq) | trajectory, whether it waits for a takeover trajectory | B-spline, reset, takeover_sync, timer | it announces only what it follows |
| `SCANReplanFSM` (dmq) | planner state, target, trajectory, failures, flags of the emergency stop | odometry, path, reset, sync, two timers | replans, stops in an emergency and says so, keeps the path, serves takeovers |
| `ScanLocalPlannerAdapter` | a request slot, a result | submit, worker thread | newest wins, no stale result |

What is hard about this code, and hard to test:

- *order on independent topics*: state, mode, reset, path, takeover_sync and
  takeover_ready have no order between them, and one of them is published once;
- *interleaving*: MQTT messages between any two steps of the control timer, and
  the mux timer between any two messages;
- *clocks compared by stamps*: they run on through pauses and through cycles in
  which nobody looks;
- *long sequences of legal events*: a pause before the first cycle, cancellation
  in every phase, speed changes of finished tasks;
- *answers to questions of the past*: feedback, progress and paths of the task
  before, a corridor looked at from the progress of the cycle before;
- *failures in a row*: native SCAN counts failed plans and clears the count in
  many places; whether it then stops, retries or gives up the path depends on
  the order;
- *a restart in the middle*: the path is latched, the reset is not.

`PROJECT.json` lists these hazards line by line, with the properties that would
notice them going wrong.

## 2. The modules

| Module | Models | Builds on |
|---|---|---|
| `TaskLifecycle` | the abstract specification of a task: start, pause, resume, finish, cancel | |
| `TaskManager` | `navdog_task/src/task_manager.cpp` | |
| `NavigationMode` | which mode may follow which on what observation: the contract of the mode manager, and its data types | |
| `Timers` | stamps compared with a limit | |
| `NavigationCoordinator` | `navdog_core/src/navigation_coordinator.cpp` with the results of its controllers | TaskManager, NavigationMode, Timers |
| `NavigationCoordinatorProofs` | theorems about it | NavigationCoordinator |
| `NavigationModeManager` | `navdog_core/src/navigation_mode_manager.cpp` | NavigationMode, Timers |
| `NavigationModeTiming` | the manager under any caller, measured by history variables | NavigationModeManager |
| `NavigationModeProofs` | theorems about it | NavigationModeTiming |
| `NavdogRuntime` | `navdog_runtime_node.cpp`, the queue of `mqtt_bridge.cpp`, the two topics to native SCAN | NavigationCoordinator |
| `NavdogRuntimeProofs` | theorems about it | NavdogRuntime, NavigationCoordinatorProofs |
| `VelocitySlewLimiter` | one axis of `velocity_slew_limiter.hpp` | |
| `CmdVelOwnerMux` | `cmd_vel_owner_mux.cpp` | VelocitySlewLimiter, NavigationMode, Timers |
| `CmdVelOwnerMuxProofs` | theorems about it | CmdVelOwnerMux |
| `RouteProgressTracker` | `navdog_core/src/route_progress_tracker.cpp` on axis-parallel legs | |
| `RouteManager` | `navdog_core/src/route_manager.cpp` | RouteProgressTracker |
| `RouteCorridor` | `navdog_scan_adapter/src/scan_route_corridor_evaluator_3d.cpp` and `navdog_core/src/route_corridor_observation_gate.cpp`, over two cycles of the runtime | RouteManager |
| `RouteProofs` | lemmas about the operators of the route: lengths, legs, projections, walks | RouteManager |
| `RouteCorridorProofs` | theorems about the corridor | RouteCorridor, RouteProofs |
| `ClosedLoopController` | which trajectory `closed_loop_controller.cpp` follows | |
| `ScanTakeover` | the handover: navigation node, controller and mux with five topics | CmdVelOwnerMux, ClosedLoopController |
| `ScanTakeoverProofs` | theorems about it, also with a robot that is driven | ScanTakeover, CmdVelOwnerMuxProofs |
| `SCANReplanFSM` | `dmq/src/scan_replan_fsm.cpp` in the mode the navigation node uses | Timers |
| `NativeScan` | planner and controller of native SCAN under one task after another, with restarts of the planner | SCANReplanFSM, ClosedLoopController |
| `NativeScanProofs` | theorems about it | NativeScan |

Modules whose name starts with `MC` give the constants their values.

**Coordinator.**  Each variable is a member of the class (named so in the
module).  `HandleEvent` is `handleEvent` with the session's half
(`StartTask`, `CancelTask`, ...) and the machine's half (`OnStarted`,
`OnCancelled`, ...) in one step.  `Update` is one call of `update`, as a
disjunction over the states and the early returns in their order: request,
wait for the plan, plan failed, idle states, alignment, tracking.  A READY in
PLANNING runs the alignment controller in the same cycle, as in the code.
What the route, alignment, goal and corridor computations return is chosen
freely; velocities are `zero`, `rotate` or `drive`, and the supervisor may turn
any into `zero`.  The mode decision is the relation `ModesAfter` of
`NavigationMode`; that the manager stays within it is the property
`FollowsModeRules` of the manager's own model, checked there and proved.

**Mode manager.**  One action per branch of `update`, after
`initializeForTask`.  The history variables `blocked_for`, `clear_for`,
`steady` and `stay` measure observations independently of the manager's timers.

**Runtime.**  `phase` tells where in `controlCallback` the node is:
`ProcessEvent` takes one event, `ControlCycle` does one update with the answer
for the next cycle, path scheduling and cleanup.  `MqttMessage` may happen
between any two of them.

**Mux.**  One action per subscriber and one for the timer.  A velocity is its
`linear.x`; a command of another axis goes through the same limiter.  Stamps
are ages: two events of one tick have equal stamps, so the strict and the weak
comparisons of the code are told apart.  A route command may carry a stamp of
the past.  `MuxTimer` may be late by any number of ticks.

**Takeover.**  The navigation node is reduced to what it publishes, the SCAN
planner to any trajectory at any time.  Each topic holds at most its last
message; reports of state and mode are repeated every cycle, so a newer one
replacing an older one loses nothing that the mux would keep.
Commands are left out (`Commands = {0}`): the mux's own run covers them.

**Route.**  `TrackerUpdate` is `RouteProgressTracker::update` with its two
searches (of the whole route at first, of the legs ahead afterwards) and
`UpdateProgress` is `RouteManager::updateProgress` on top of it.  A cycle of
`RouteCorridor` does what `controlCallback` and `update` do in this order: look
along the route from the progress of the cycle before, project the robot,
judge the observation with the new progress, keep the progress.  Points are
cells and legs run parallel to an axis, so projections fall on cells and no
rounding takes place.  The grid is sampled at cells in the middle of the route
and the width of the footprint is left out; of the age of the map only fresh,
stale and from the future is kept.  A robot may be anywhere in the next cycle.
That the follower, the manager and the evaluator each walk along the route with
code of their own, over all legs where the tracker leaves the short ones out, is
what `ProgressStaysOnRoute` is about.

**Native SCAN.**  `fsm` is the state of the node, a record with a field per
member; a callback is an operator from one state to the next, since all of them
run on one thread.  `AfterDeferredSync` and `FinishProcess` stand at the
beginning and the end of a call of the execution timer, unless it returns early,
as in the code.  A
trajectory is named by the task along whose path it was planned, `-1` is the
emergency stop's.  Nondeterministic are: whether a replan is due, whether a plan
succeeds, fails or finds no local target, what the collision check sees, and
whether the goal is taken for reached.  Left out, because nothing modelled
depends on them: members that only seed the optimizer
(`continuation_failure_count_`, `initial_plan_attempt_count_`,
`force_takeover_poly_init_`, `have_new_target_`), the other target modes, and
two flags that are never set where they are looked at on one thread
(`planning_in_progress_`, `go2_execution_frozen_`).  `fails` saturates at its
limit, the only value it is compared with.

The navigation node is reduced to a task after another, each with a reset, a
path 20 ms later, takeovers and a final reset.  The reset and the
path of a task have arrived before its alignment is over; takeovers and the final
reset may overtake each other, and what the two nodes of SCAN tell each other may
be under way for any time in between.  The planner node may be restarted, which loses its state and what was
under way to it except for the latched path, but not in the 20 ms between a
task's reset and its path: there it would plan along the path of the task
before, and go on if this task's path is refused.

## 3. What TLC checks

Runs that pass:

| Run | States | Shows |
|---|---|---|
| `coordinator` | 71 885 | `SessionMatchesState`, `RouteMatchesSession`, `ContextBelongsToState`, `PlannerQueueIsCurrent`: session, machine, route, clocks and action queue agree after every sequence of events, cycles and ticks, and of all the answers a planner may give only the one to the live session's request is taken; `MotionIsAuthorized`: no cycle moves the robot without an active, unpaused task holding its route; `ImplementsLifecycle`: refinement of `TaskLifecycle`; `RequestsReachPlanner`, `OpenPlanningEnds`, `AlignmentEnds`: with the control timer firing for ever, requests and cancellations reach the planner, a planning phase whose request is out or waiting ends, and so does an alignment whose corridor is seen again and again |
| `mode` | 2 403 | `TimersBelongToMode`, `ChangesAreConfirmed`, `FollowsModeRules`; `BlockedRouteIsAvoided`, `ClearRouteIsFollowed`: a lasting block or clearance is acted on |
| `runtime` | 208 825 | `NothingCrossesTasks`, `OutcomeIsCleanedUp`, `ScanPathIsCurrent`, `CancelGoesFirst`; `CancelTakesEffect`, `PathReachesScan`: a received cancellation ends the task unless the queue overflowed, and the path of every task arrives |
| `mux` | 284 124 | `OutputBelongsToOwner`, `SpeedsUpOnlyOnFreshCommand`, `NoReverseBeforeForward`, `VelocityIsContinuous`; `SilenceStopsRobot`: when the owner's commands stop the robot comes to a stand |
| `route` | 4 641 | `ProgressIsNearestAhead`: the search by legs finds the nearest point of the route ahead, the earliest of several, at crossings, in loops and hairpins, so progress never falls; `ProgressStaysOnRoute`: the tracker's arc length and the other walks' agree; `ClearMeansClear`: a route reported clear is clear ahead of the robot although it was looked at from where it was one cycle before |
| `takeover` | 308 730 | `ReadyIsBacked`: what the mux believes of SCAN is never older than a flush it has been told of; `TakeoverCompletes`: a takeover the mux has entered in time comes through |
| `native_scan` | 217 256 | `RouteSurvivesFailures`: failed plans never cost the reference path; `SupervisesWhatItPublished`: the collision check watches what the robot drives, and no emergency stop is silent; `ReadyIsForThisTask`: readiness is never for the path of another task; `TakeoverIsAnswered`: if plans succeed, a takeover is answered in whatever order its messages arrive, deferred or not, with a restart or without; `UnsafeTrajectoryIsLeft`: a trajectory found unsafe is replaced or stopped even if no plan ever succeeds again |

Runs that end in a counterexample, each a disagreement between the code and
what a document, a comment or a test of the repository says:

| Run | Property | What happens |
|---|---|---|
| `planning_stuck` | `PlanningEnds` | START_TASK and PAUSE before the first cycle: the cycle in PAUSED takes SET_ROUTE without starting the planning context.  After RESUME the task stays in PLANNING for ever: the timeout the core's README promises is only looked at once a request was sent. |
| `mode_continuous` | `ConfirmationsAreContinuous` | A blocked frame before a gap without observations and one after it confirm a change; the core's README says the gap clears the timers. |
| `answer_lost` | `AnsweredPlanSucceeds` | The planner's READY is handed to one cycle whatever its state.  A PAUSE handled before that cycle loses it, and after RESUME planning times out.  The runtime's test says the feedback is kept. |
| `takeover_lost` | `LastingAvoidanceIsDriven` | SCAN's controller announces its trajectory, once, before the mux's timer has seen LOCAL_AVOID; the timer then clears the readiness as part of the change of owner, and nothing announces it again.  The robot stands for as long as LOCAL_AVOID lasts.  A pause, or one cycle without valid odometry, in LOCAL_AVOID has the same effect. |
| `single_point` | `SinglePointRouteIsChecked` | `RouteManager::updateProgress` overwrites the remaining distance of a route of one point by 0, and the evaluator then returns a clear corridor before it reaches its branch for such routes: the robot drives to its goal without a look at the map, where the core's README lists the check. |

`OpenPlanningEnds` and `TakeoverCompletes` state what is true next to
`planning_stuck` and `takeover_lost`: the same promise under the precondition
that the counterexample lacks.  `AlignmentEnds` is conditional for the same
reason: START_ALIGN without a usable corridor returns before the alignment
controller is called, so its clock does not start.

### Bounds

- Coordinator: two tasks (`MaxSequence`), enough for anything one task can leave
  to the next; timeouts of one tick, so that each can be met, just exceeded and
  exceeded in a pause; three queued planner actions, enough for a request, a
  pause and a resume in front of a cancellation; one invalid speed, one within
  the limits and one above; a mode that may avoid and one that may not.
- Mode: confirmation to enter 2, hold 2, confirmation to leave 1; three tasks,
  two that may avoid and one that may not.  The update may come with any
  corridor and summary at any time, or never.
- Runtime: five messages, three tasks, a queue of two, so that a start, a
  cancellation and a start overlap and the queue can overflow; the planner
  always answers, as the runtime's `feedbackForAction` does.
- Mux: speeds -1, 0 and 2, acceleration 1, deceleration 2 and all timeouts 1: an
  acceleration takes several steps and a reversal has to pass zero.
- Takeover: all timeouts 1, any number of tasks, pauses and takeovers.
- Route: on a map of three by three cells a loop that ends where it starts, a
  route that crosses itself, a hairpin whose ends are next to each other, one
  that leaves the map, one with repeated points, a single point and a repeated
  one; two tasks; three maps; look ahead and forward search of two cells and a
  lag of one, so that every limit is met, exceeded and cuts a leg.
- Native SCAN: two tasks and a restart; two failures and one tick of failures to
  an emergency stop, so that each of the two can be missing; B-splines of two
  ticks with a lead time of one, so that one may be fresh, about to end, or over.

Every bound is a constant with its name; ages saturate one tick past the limit
they are compared with, where they no longer differ.

### Assumptions on time and fairness

- The control timer of the runtime fires for ever (`ServedFairness`: `WF` of
  `Cycle` and `Tick`; `WF` on the timer callback of the runtime): ROS timers are
  not stopped by the code.  No fairness is put on events: a sender may fall
  silent.
- `AlignmentEnds` assumes `CorridorIsSeen`: usable observations come again and
  again (`SF`) while the machine is in START_ALIGN.  They depend on the map.
- MQTT messages are finitely many, so `processEvents` ends.  The code drains the
  queue without a limit; a sender faster than the loop is outside the model.
- What the runtime sends to native SCAN arrives within a control period
  (`TimerFires` waits for `in_flight = Nothing`), in any order within it.  The
  code relies on the same: it sends the path 20 ms after the reset and has
  nothing else to keep one behind the other.
- In `mux`, timer and clock are weakly fair and the timer may be late;
  `SilenceStopsRobot` asks for timer intervals the limiter accepts, since a
  longer one leaves the output as it was.
- In `takeover`, the mux timer is punctual, topics deliver, and SCAN, which
  replans again and again, comes up with a trajectory from where the robot is.
  The reset of a task's start has arrived before the task is aligned.
- In `mode`, updates and time go on for ever (`WF`).
- In `native_scan`, messages arrive, odometry comes, time passes and the
  execution timer fires (`TimersFire`, `WF` each); the timer's fairness is on
  what it does whatever the optimizer answers.  `TakeoverIsAnswered` adds
  `PlansSucceed`: of plans made again and again one succeeds, and of the
  trajectories published one starts at the robot.  `UnsafeTrajectoryIsLeft` adds
  `PlansTried` only: attempts find a local target again and again and may all
  fail.  Without a local target nothing is counted as a failure, and nothing
  stops the robot before its trajectory ends.

## 4. What TLAPS proves

For every value of the constants that satisfies the named assumptions, of every
number of tasks and every length of the queues.  `TaskConfigAssumption`,
`CoordinatorConfigAssumption`, `ModeConfigAssumption`, `MuxConfigAssumption`,
`RuntimeConfigAssumption`, `ReplanConfigAssumption`, `NativeScanAssumption`,
`TrackerConfigAssumption` and `CorridorConfigAssumption` say that limits are
positive, timeouts and distances natural numbers, and that a task number stands
for one task.  `RoutesAssumption` and `MapAssumption` are the abstraction of the
plane: a route is a sequence of whole-numbered points with legs parallel to an
axis, and every cell of a leg is on the map or beside it.  TLC evaluates all
of them on the instances it checks.

| Theorem | Property | Argument |
|---|---|---|
| `TypeCorrect` | `CoordinatorTypeOK` | by the actions |
| `SessionAgrees`, `RouteAgrees`, `ContextAgrees` | `SessionMatchesState`, `RouteMatchesSession`, `ContextBelongsToState` | none of the three is inductive alone: that a route is the session's needs the session to be active, the planning context needs both.  Together with the type they are |
| `QueueIsCurrent` | `PlannerQueueIsCurrent` | on top of the agreement; lemmas say what taking from and adding to the queue leaves at each place |
| `MotionAuthorized` | `MotionIsAuthorized` | an action property, from the invariant |
| `CoordinatorImplementsLifecycle` | `ImplementsLifecycle` | initial states map to initial states and every action to one step of `TaskLifecycle` or to a stutter |
| `ModeTypes` | `ModeTypeOK` | by the branches of the update |
| `TimersBelong` | `TimersBelongToMode` | with two strengthenings: no candidate is older than the run of observations that started it, and the exit candidate plus the hold time is never more than the stay |
| `ConfirmedChanges` | `ChangesAreConfirmed` | from these: a candidate that has reached its limit witnesses the run |
| `ManagerFollowsRules` | `FollowsModeRules` | the manager refines the relation the coordinator uses |
| `RuntimeTypes`, `NothingCrosses`, `OutcomesCleanedUp` | `RuntimeTypeOK`, `NothingCrossesTasks`, `OutcomeIsCleanedUp` | on top of the coordinator's invariant, whose lemmas hold for any feedback and any observations.  Cleanup looks at the edge between the states of two cycles; the strengthening `NodeAgrees` says that a task that runs while the last outcome is still on record has not asked for its plan yet, so it cannot end in the next cycle and hide behind that outcome |
| `ScanFollowsLiveTask` | `ScanPathIsCurrent` | for `PathDelay = 1`.  The danger is a task that succeeds in the cycle that sends its path, so that path and reset are under way together.  `PathTiming` says why it cannot: while a path is still promised the task has not tracked yet, because the first cycle of a task has no answer of the planner and the second no progress to see a corridor from, and by then the path is sent |
| `NodeKeepsCoordinator`, `NodeMovesAuthorized`, `NodeImplementsLifecycle` | the four agreements, `MotionIsAuthorized`, `ImplementsLifecycle`, of the whole node | `CoordinatorIsDriven`: each step of the node is one event, one update with some feedback and observation, one tick, or none of the coordinator's; the lemmas about those hold for any feedback and any observation |
| `CancelFirst` | `CancelGoesFirst` | no step puts anything in front of what is queued; `QueueKeepsOrder` |
| `OwnerAgrees` | `OutputBelongsToOwner` | inductive with the types |
| `FreshCommandsOnly`, `ForwardFirst`, `NoJumps` | `SpeedsUpOnlyOnFreshCommand`, `NoReverseBeforeForward`, `VelocityIsContinuous` | `SlewIsBounded` says what one step of the limiter may do; the steps follow from the target each owner may set |
| `ReadinessIsBacked` | `ReadyIsBacked` | strengthened by: a ready that is still under way is true, because a flush replaces it |
| `HandoverImplementsMux`, `HandoverIsSafe` | `MuxSpec`, and with it the mux's properties while the robot is handed over | of `DrivenSpec`, which adds to the handover commands of both sides at any time.  Each topic delivers what one subscriber of the mux takes (`ReportsKnown`), and nobody else touches its variables |
| `CorridorTypes` | `CorridorTypeOK` | `RouteInv`: the tracker is fresh, or it is the one of the route held and stands on one of its legs; and manager and runtime both keep what it reported last, so that the correction the manager makes changes no progress on a route with legs |
| `ProgressNeverFallsBack` | within a task progress is neither lost nor falls | from `RouteInv` and what a search may find |
| `NearestPointAhead` | `ProgressIsNearestAhead` | `Projection`: the clamped projection onto one leg is the nearest of its points from the last progress on; `SearchFinds` lifts it to the legs that are searched; the nearest distance, the earliest of several, is unique |
| `OnRoute` | `ProgressStaysOnRoute` | running totals of lengths are a recursive function; that they agree over all legs and over the long ones, and that the walk finds at an arc length the point of the leg, also where two legs meet, is `SameLengths` and `WalkOnLeg` |
| `ClearIsClear` | `ClearMeansClear` | the samples from the progress of the cycle before include every cell ahead of the progress of this one, since progress never falls and `MaxLag` bounds the lag |
| `NativeScanTypes`, `RouteSurvives`, `Supervises` | `NativeScanTypeOK`, `RouteSurvivesFailures`, `SupervisesWhatItPublished` | `FsmAgrees`: SCAN plans, executes and stops only with a target, counts failures only while it plans afresh, and has the flags of the stop clear while it executes; one lemma per operator, each callback composes them |
| `ReadyForThisTask` | `ReadyIsForThisTask` | `HandoverAgrees`: while a task waits for its path the planner has forgotten every other or has the reset still to come, and from then on neither its route nor a B-spline under way is another task's |

Only model-checked:

- liveness (`RequestsReachPlanner`, `OpenPlanningEnds`, `AlignmentEnds`,
  `BlockedRouteIsAvoided`, `ClearRouteIsFollowed`, `CancelTakesEffect`,
  `PathReachesScan`, `SilenceStopsRobot`, `TakeoverCompletes`,
  `TakeoverIsAnswered`, `UnsafeTrajectoryIsLeft`): it needs fairness and
  `ENABLED`, out of the prover's reach.

Some theorems have a hypothesis of their own:

- `ScanFollowsLiveTask` has `PathDelay = 1`: a control period of 20 ms or more,
  as with the default `control_rate_hz` of 50 and with every slower loop.  The
  hypothesis is needed: with `PathDelay = 2`, a loop faster than 50 Hz, TLC finds a
  task that starts to track while its path still waits and succeeds in the cycle
  that sends it; if the reset of the success arrives first, native SCAN keeps the
  path of a task that is over.
- `OnRoute`, `NearestPointAhead` and `ClearIsClear` have `NoShortLegs`: the legs the
  tracker leaves out (`min_segment_length_m`, 0.01 m by default) have no length
  at all, as those between repeated points.  The follower and the evaluator
  measure every leg, so legs shorter than that but not empty shift the tracker's
  arc lengths against theirs by what was left out: millimetres with the default.
  TLC shows the shift at once on a hairpin with `MinSegment = 2`.
  `CorridorTypes` and `ProgressNeverFallsBack` do without it.
- `HandoverImplementsMux` and `HandoverIsSafe` ask that the mux knows the four
  states the navigation node reports; it does.

Sums and walks along a route of any length need an induction, which the provers
cannot instantiate for a formula; `RouteProofs` does it with sets in the place of
formulas, by well-founded induction on the places of a route.

## 5. What is not modelled

The navigation is a small part of the repository: by lines most of it is
vendored OpenGL and GLM headers, the simulator, and numerical code.  Not
modelled are:

- Numbers: velocities of the controllers, B-splines, optimisation, A*, grid
  maps, footprints, the obstacle summary.  Their results are inputs.
- `SafetySupervisor`'s limits: that it may turn a command into a stop is part of
  the coordinator; how much it slows one down, and its acceleration limits from
  the previous output, are arithmetic on doubles.  What the robot gets passes the
  limiter of the mux afterwards, which is modelled and proved about.
- MQTT's connection, encoding (`MqttCodec`) and status: events arrive decoded; an
  event that does not decode is never queued.
- `ScanLocalPlannerAdapter`: a planning worker thread behind a request slot.  No
  node instantiates it; native SCAN has taken its place.
- `TrajectoryFollower` and `RecoveryController` are compiled and called by
  nothing; the upstream `plan_manage`, the simulators, visualisation and tools
  are not part of the navigation.
- Of native SCAN: the target modes that `navdog` does not use, and what the
  controller computes from its trajectory.

## 6. What could come next

1. `ScanTakeover` with `SCANReplanFSM` in place of its free planner: the mux,
   the controller and the planner in one state space.
2. The limits of `SafetySupervisor` on integers, with its stamp kept over a
   pause.
3. `ScanLocalPlannerAdapter`, should a node come to use it.
4. Routes of legs in any direction, with the rounding of their projections.
