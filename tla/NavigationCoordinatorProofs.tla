--------------------- MODULE NavigationCoordinatorProofs ---------------------
(***************************************************************************)
(* What holds of the coordinator for every configuration, every number of  *)
(* tasks and every length of the action queue.  First its type             *)
(* correctness, then the inductive invariant that ties the session, the    *)
(* machine, the route, the clocks and the queue together.                  *)
(***************************************************************************)
EXTENDS NavigationCoordinator, TLAPS

QueuedActions == [type : ActionTypes, sequence : Nat]

-----------------------------------------------------------------------------
(* The clamp of a speed limit is a legal speed limit.                        *)
LEMMA ClampIsNatural ==
  ASSUME NEW v \in Int
  PROVE  ClampMaxVx(v) \in Nat
BY TaskConfigAssumption DEF ClampMaxVx, LowLimit, HighLimit, TaskConfigAssumption

(* Events carry what their type says.                                        *)
LEMMA EventShape ==
  ASSUME NEW ev \in Events
  PROVE  /\ ev.type = "START_TASK" =>
              /\ ev.task.mode \in AllTaskModes
              /\ ev.task.max_vx \in Int
              /\ ev.task.points \in PointLists
         /\ ev.type = "UPDATE_MAX_VX" => ev.max_vx \in Int
BY TaskConfigAssumption DEF Events, Tasks, TaskConfigAssumption

(* Taking an action from the queue.                                          *)
LEMMA TakingTypes ==
  ASSUME pending \in Seq(QueuedActions)
  PROVE  /\ AfterTaking \in Seq(QueuedActions)
         /\ NextAction \in [type : ActionTypes \cup {"NONE"}, sequence : Nat]
         /\ NextAction.type = "SET_ROUTE" => NextAction.sequence \in Nat
<1>1. CASE pending = <<>>
  BY <1>1 DEF AfterTaking, NextAction, NoAction, PlannerAction
<1>2. CASE pending # <<>>
  <2>1. Head(pending) \in QueuedActions /\ Tail(pending) \in Seq(QueuedActions)
    BY <1>2
  <2> QED
    BY <1>2, <2>1 DEF AfterTaking, NextAction, QueuedActions
<1> QED
  BY <1>1, <1>2

(* Adding one.                                                               *)
LEMMA EnqueuedTypes ==
  ASSUME pending \in Seq(QueuedActions),
         NEW type \in ActionTypes, NEW n \in Nat
  PROVE  /\ PlannerAction(type, n) \in QueuedActions
         /\ Enqueued(PlannerAction(type, n)) \in Seq(QueuedActions)
<1>1. PlannerAction(type, n) \in QueuedActions
  BY DEF PlannerAction, QueuedActions
<1> QED
  BY <1>1 DEF Enqueued

LEMMA FailureTypes ==
  ASSUME CoordinatorTypeOK, EnterFailedState
  PROVE  /\ TaskTypeOK'
         /\ state' \in NavStates
         /\ state_before_pause' \in NavStates \ {"PAUSED"}
         /\ route' \in [sequence : Nat, points : PointLists]
         /\ pending' \in Seq([type : ActionTypes, sequence : Nat])
         /\ plan_age' \in Nat \cup {Off}
         /\ expected' \in Nat
         /\ align_age' \in Nat \cup {Off}
         /\ near_age' \in Nat \cup {Off}
         /\ mode' \in Modes
BY DEF EnterFailedState, CoordinatorTypeOK, TaskTypeOK, NavStates, NoRoute,
       PointLists, ClearPlanningContext, ResetControllers, Modes, taskVars

LEMMA EventKeepsTypes ==
  ASSUME CoordinatorTypeOK, NEW ev \in Events, HandleEvent(ev)
  PROVE  CoordinatorTypeOK'
<1> USE DEF CoordinatorTypeOK, TaskTypeOK
<1>0. /\ pending \in Seq(QueuedActions)
      /\ session.sequence \in Nat /\ next_sequence \in Nat
  BY DEF QueuedActions
<1>e. \A type \in ActionTypes, n \in Nat :
        Enqueued(PlannerAction(type, n)) \in Seq(QueuedActions)
  BY <1>0, EnqueuedTypes
<1>1. CASE OnStarted(ev)
  <2>1. TaskTypeOK'
    BY <1>1, EventShape, ClampIsNatural
    DEF OnStarted, StartTask, StartAccepted, ClampMaxVx
  <2>2. pending' \in Seq(QueuedActions)
    <3>1. Enqueued(PlannerAction("SET_ROUTE", next_sequence))
            \in Seq(QueuedActions)
      BY <1>0, <1>e DEF ActionTypes
    <3> QED
      BY <1>0, <1>1, <3>1 DEF OnStarted
  <2> QED
    BY <1>1, <2>1, <2>2, EventShape
    DEF OnStarted, StartTask, StartAccepted, HandleEvent, NavStates, Modes,
        ClearPlanningContext, ResetControllers, QueuedActions
<1>2. CASE OnCancelled(ev)
  <2>1. pending' \in Seq(QueuedActions)
    BY <1>0, <1>e, <1>2 DEF OnCancelled, ActionTypes
  <2> QED
    BY <1>2, <2>1
    DEF OnCancelled, CancelTask, HandleEvent, NavStates, Modes, NoSession,
        AllTaskModes, NoRoute, PointLists, ClearPlanningContext,
        ResetControllers, QueuedActions
<1>3. CASE OnMaxVxUpdated(ev)
  <2>1. pending' \in Seq(QueuedActions)
    BY <1>0, <1>e, <1>3 DEF OnMaxVxUpdated, ActionTypes
  <2>2. TaskTypeOK'
    BY <1>3, EventShape, ClampIsNatural
    DEF OnMaxVxUpdated, UpdateMaxVx, SpeedAccepted
  <2> QED
    BY <1>3, <2>1, <2>2 DEF OnMaxVxUpdated, HandleEvent, QueuedActions
<1>4. CASE OnPaused(ev)
  <2>1. pending' \in Seq(QueuedActions)
    <3>1. Enqueued(PlannerAction("PAUSE", 0)) \in Seq(QueuedActions)
      BY <1>e DEF ActionTypes
    <3> QED
      BY <1>0, <1>4, <3>1 DEF OnPaused
  <2>2. TaskTypeOK'
    BY <1>4 DEF OnPaused, PauseTask
  <2>3. /\ state' \in NavStates
        /\ state_before_pause' \in NavStates \ {"PAUSED"}
    BY <1>4 DEF OnPaused, NavStates
  <2> QED
    BY <1>4, <2>1, <2>2, <2>3 DEF OnPaused, HandleEvent, QueuedActions
<1>5. CASE OnResumed(ev)
  <2>1. pending' \in Seq(QueuedActions)
    <3>1. Enqueued(PlannerAction("RESUME", 0)) \in Seq(QueuedActions)
      BY <1>e DEF ActionTypes
    <3> QED
      BY <1>0, <1>5, <3>1 DEF OnResumed
  <2>2. TaskTypeOK'
    BY <1>5 DEF OnResumed, ResumeTask
  <2>3. state' \in NavStates
    BY <1>5 DEF OnResumed, NavStates
  <2> QED
    BY <1>5, <2>1, <2>2, <2>3 DEF OnResumed, HandleEvent, QueuedActions
<1>6. CASE OnRefused(ev)
  BY <1>6 DEF OnRefused, RefuseEvent, HandleEvent, machine, taskVars
<1> QED
  BY <1>1, <1>2, <1>3, <1>4, <1>5, <1>6 DEF HandleEvent

LEMMA UpdateKeepsTypes ==
  ASSUME CoordinatorTypeOK, NEW fb, Update(fb, Corridors)
  PROVE  CoordinatorTypeOK'
<1> USE DEF CoordinatorTypeOK, TaskTypeOK
<1>1. /\ AfterTaking \in Seq(QueuedActions)
      /\ NextAction \in [type : ActionTypes \cup {"NONE"}, sequence : Nat]
  BY TakingTypes DEF QueuedActions
<1>3. CASE UpdateRequest
  BY <1>1, <1>3
  DEF UpdateRequest, Stopped, Output, Modes, Velocities, taskVars, QueuedActions
<1>4. CASE UpdateAwaitPlan(fb)
  BY <1>1, <1>4
  DEF UpdateAwaitPlan, Stopped, Output, Modes, Velocities, taskVars,
      QueuedActions
<1>5. CASE UpdatePlanFailed(fb)
  BY <1>5, FailureTypes
  DEF UpdatePlanFailed, Output, Modes, Velocities, NoAction, PlannerAction,
      NavStates
<1>6. CASE UpdateIdle
  BY <1>1, <1>6
  DEF UpdateIdle, Stopped, Output, Modes, Velocities, taskVars, QueuedActions
<1>7. CASE UpdateStartAlign(fb, Corridors)
  <2>1. AlignAge \in Nat \cup {Off} /\ Started(AlignAge) \in Nat
    BY DEF AlignAge, Started, Off
  <2>2. ASSUME NEW st \in {"START_ALIGN", "TRACKING"},
               NEW age \in Nat \cup {Off},
               NEW cmd \in Velocities, NEW progressed \in BOOLEAN,
               Aligns(st, age, cmd, progressed)
        PROVE  CoordinatorTypeOK'
    BY <1>1, <2>2
    DEF Aligns, ClearPlanningContext, Output, Modes, NavStates, taskVars,
        QueuedActions
  <2>3. CASE AlignWaitRobot
    BY <2>1, <2>2, <2>3 DEF AlignWaitRobot, Velocities
  <2>4. ASSUME NEW corridor \in Corridors, AlignWaitCorridor(corridor)
        PROVE  CoordinatorTypeOK'
    BY <2>1, <2>2, <2>4 DEF AlignWaitCorridor, Velocities
  <2>5. ASSUME NEW corridor \in Corridors, NEW alignment \in Alignments,
               AlignSkip(corridor, alignment)
        PROVE  CoordinatorTypeOK'
    BY <2>2, <2>5 DEF AlignSkip, Velocities
  <2>6. ASSUME NEW corridor \in Corridors, NEW alignment \in Alignments,
               AlignRotate(corridor, alignment)
        PROVE  CoordinatorTypeOK'
    <3>1. PICK cmd \in Supervised("rotate") :
            Aligns("START_ALIGN", Started(AlignAge), cmd, TRUE)
      BY <2>6 DEF AlignRotate
    <3>2. cmd \in Velocities
      BY DEF Supervised, Velocities
    <3> QED
      BY <2>1, <2>2, <3>1, <3>2
  <2>7. ASSUME NEW corridor \in Corridors, NEW alignment \in Alignments,
               AlignFail(corridor, alignment)
        PROVE  CoordinatorTypeOK'
    BY <1>1, <2>7, FailureTypes
    DEF AlignFail, Output, Modes, Velocities, NavStates
  <2> QED
    BY <1>7, <2>3, <2>4, <2>5, <2>6, <2>7 DEF UpdateStartAlign
<1>8. CASE UpdateTracking(Corridors)
  <2>1. ASSUME NEW st \in {"TRACKING", "SUCCEEDED"},
               NEW age \in Nat \cup {Off}, NEW cmd \in Velocities,
               mode' \in Modes, Tracks(st, age, cmd)
        PROVE  CoordinatorTypeOK'
    BY <1>1, <2>1
    DEF Tracks, Switched, Output, NavStates, taskVars, QueuedActions
  <2>2. CASE TrackWaitRobot
    BY <1>1, <2>2
    DEF TrackWaitRobot, Output, Modes, Velocities, NavStates, taskVars,
        QueuedActions
  <2>3. ASSUME NEW progressed \in BOOLEAN, TrackFail(progressed)
        PROVE  CoordinatorTypeOK'
    BY <1>1, <2>3, FailureTypes
    DEF TrackFail, Output, Modes, Velocities, NavStates
  <2>4. CASE TrackWaitCorridor
    BY <1>1, <2>4
    DEF TrackWaitCorridor, Initialized, Output, Modes, Velocities, NavStates,
        taskVars, QueuedActions
  <2>5. ASSUME NEW corridor, NEW obstacles, TrackMode(corridor, obstacles)
        PROVE  CoordinatorTypeOK'
    <3>1. mode' \in Modes
      BY <2>5 DEF TrackMode, ModesAfter, Modes
    <3>2. Started(near_age) \in Nat
      BY DEF Started, Off
    <3>3. PICK goal \in Goals : \/ TrackNearGoalBlocked(corridor, goal)
                                \/ TrackRoute(corridor, goal)
                                \/ TrackAvoid(corridor, goal)
      BY <2>5 DEF TrackMode
    <3>4. CASE TrackNearGoalBlocked(corridor, goal)
      BY <2>1, <3>1, <3>2, <3>4 DEF TrackNearGoalBlocked, Velocities
    <3>5. CASE TrackRoute(corridor, goal)
      <4>1. PICK st \in {"TRACKING", "SUCCEEDED"}, cmd \in Velocities :
              Tracks(st, Off, cmd)
        BY <3>5 DEF TrackRoute, Supervised, Velocities
      <4> QED
        BY <2>1, <3>1, <4>1
    <3>6. CASE TrackAvoid(corridor, goal)
      BY <2>1, <3>1, <3>6 DEF TrackAvoid, Velocities
    <3> QED
      BY <3>3, <3>4, <3>5, <3>6
  <2> QED
    BY <1>8, <2>2, <2>3, <2>4, <2>5 DEF UpdateTracking
<1> QED
  BY <1>3, <1>4, <1>5, <1>6, <1>7, <1>8 DEF Update

LEMMA TickKeepsTypes ==
  ASSUME CoordinatorTypeOK, Tick
  PROVE  CoordinatorTypeOK'
BY DEF Tick, Aged, Off, CoordinatorTypeOK, TaskTypeOK, taskVars

(* Initially every variable has its type.                                    *)
LEMMA InitialTypes == CoordinatorInit => CoordinatorTypeOK
BY DEF CoordinatorInit, TaskInit, CoordinatorTypeOK, TaskTypeOK, NoSession,
       AllTaskModes, NavStates, NoRoute, PointLists, Modes, Output, NoAction,
       PlannerAction, Velocities

(* Every variable keeps its type, whatever the configuration.                *)
THEOREM TypeCorrect == CoordinatorSpec => []CoordinatorTypeOK
<1>1. CoordinatorInit => CoordinatorTypeOK
  BY InitialTypes
<1>2. CoordinatorTypeOK /\ [CoordinatorNext]_coordinatorVars
        => CoordinatorTypeOK'
  <2> SUFFICES ASSUME CoordinatorTypeOK, [CoordinatorNext]_coordinatorVars
               PROVE  CoordinatorTypeOK'
    OBVIOUS
  <2>1. CASE EventArrives
    BY <2>1, EventKeepsTypes DEF EventArrives
  <2>2. CASE Cycle
    BY <2>2, UpdateKeepsTypes DEF Cycle
  <2>3. CASE Reset
    BY <2>3
    DEF Reset, CoordinatorTypeOK, TaskTypeOK, NoSession, AllTaskModes,
        NavStates, NoRoute, PointLists, Modes, ClearPlanningContext,
        ResetControllers
  <2>4. CASE Tick
    BY <2>4, TickKeepsTypes
  <2>5. CASE UNCHANGED coordinatorVars
    BY <2>5
    DEF coordinatorVars, machine, taskVars, CoordinatorTypeOK, TaskTypeOK
  <2> QED
    BY <2>1, <2>2, <2>3, <2>4, <2>5 DEF CoordinatorNext
<1> QED
  BY <1>1, <1>2, PTL DEF CoordinatorSpec

-----------------------------------------------------------------------------
(* The inductive invariant.  The queue part is needed for the clocks: the    *)
(* trajectory the machine waits for is the one the queue handed out.  The    *)
(* clock part is needed for the queue: a machine past planning has nothing   *)
(* left to ask for.                                                          *)
CoordinatorInv ==
  /\ CoordinatorTypeOK
  /\ SessionMatchesState
  /\ RouteMatchesSession
  /\ ContextMatchesState
  /\ PlannerQueueIsCurrent

(* The part that TypeCorrect does not already give.                          *)
Agreement ==
  /\ SessionMatchesState
  /\ RouteMatchesSession
  /\ ContextMatchesState
  /\ PlannerQueueIsCurrent

(* Where the actions of the new queue come from.                             *)
LEMMA QueueAfterTaking ==
  ASSUME pending \in Seq(QueuedActions)
  PROVE  /\ \A i \in DOMAIN AfterTaking :
              /\ i \in Nat \ {0} /\ i + 1 \in DOMAIN pending
              /\ AfterTaking[i] = pending[i + 1]
         /\ NextAction # NoAction =>
              1 \in DOMAIN pending /\ NextAction = pending[1]
<1>1. CASE pending = <<>>
  BY <1>1 DEF AfterTaking, NextAction
<1>2. CASE pending # <<>>
  <2>1. /\ AfterTaking = Tail(pending) /\ NextAction = Head(pending)
        /\ Len(pending) \in Nat \ {0}
    BY <1>2 DEF AfterTaking, NextAction
  <2>2. /\ DOMAIN pending = 1..Len(pending)
        /\ DOMAIN AfterTaking = 1..(Len(pending) - 1)
        /\ \A i \in 1..(Len(pending) - 1) : AfterTaking[i] = pending[i + 1]
    BY <1>2, <2>1
  <2> QED
    BY <1>2, <2>1, <2>2
<1> QED
  BY <1>1, <1>2

LEMMA QueueAfterEnqueue ==
  ASSUME pending \in Seq(QueuedActions), NEW action
  PROVE  \A i \in DOMAIN Enqueued(action) :
           \/ action.type # "CANCEL" /\ i \in DOMAIN pending
                /\ Enqueued(action)[i] = pending[i]
           \/ action.type # "CANCEL" /\ i = Len(pending) + 1
                /\ Enqueued(action)[i] = action
           \/ action.type = "CANCEL" /\ i = 1 /\ Enqueued(action)[i] = action
<1>1. CASE action.type = "CANCEL"
  BY <1>1 DEF Enqueued
<1>2. CASE action.type # "CANCEL"
  <2>1. Enqueued(action) = Append(pending, action) /\ Len(pending) \in Nat
    BY <1>2 DEF Enqueued
  <2>2. /\ DOMAIN pending = 1..Len(pending)
        /\ DOMAIN Append(pending, action) = 1..(Len(pending) + 1)
        /\ \A i \in 1..(Len(pending) + 1) :
             Append(pending, action)[i]
               = IF i <= Len(pending) THEN pending[i] ELSE action
    BY <2>1
  <2> QED
    BY <1>2, <2>1, <2>2
<1> QED
  BY <1>1, <1>2

(* A queue without route requests and cancellations stays so.                *)
LEMMA QuietQueue ==
  ASSUME CoordinatorInv, pending' = AfterTaking,
         EffectiveState \notin {"IDLE", "PLANNING"} \/ plan_age # Off
  PROVE  PlannerQueueIsCurrent'
<1>1. \A i \in DOMAIN pending : pending[i].type \notin {"SET_ROUTE", "CANCEL"}
  BY DEF CoordinatorInv, PlannerQueueIsCurrent
<1>2. \A i \in DOMAIN AfterTaking :
        i + 1 \in DOMAIN pending /\ AfterTaking[i] = pending[i + 1]
  BY QueueAfterTaking DEF CoordinatorInv, CoordinatorTypeOK, QueuedActions
<1> QED
  BY <1>1, <1>2 DEF PlannerQueueIsCurrent

(* One that had them keeps them in order, minus the first.                   *)
LEMMA TakingKeepsQueue ==
  ASSUME CoordinatorInv, pending' = AfterTaking,
         EffectiveState' = EffectiveState, session' = session,
         \/ plan_age' = plan_age
         \/ NextAction.type = "SET_ROUTE"
  PROVE  PlannerQueueIsCurrent'
<1>1. pending \in Seq(QueuedActions)
  BY DEF CoordinatorInv, CoordinatorTypeOK, QueuedActions
<1>2. \A i \in DOMAIN AfterTaking :
        /\ i \in Nat \ {0} /\ i + 1 \in DOMAIN pending
        /\ AfterTaking[i] = pending[i + 1]
  BY <1>1, QueueAfterTaking
<1>3. NextAction # NoAction => 1 \in DOMAIN pending /\ NextAction = pending[1]
  BY <1>1, QueueAfterTaking
<1>4. \A i \in DOMAIN AfterTaking : AfterTaking[i].type # "CANCEL"
  BY <1>2 DEF CoordinatorInv, PlannerQueueIsCurrent
<1>5. ASSUME NEW i \in DOMAIN AfterTaking, AfterTaking[i].type = "SET_ROUTE"
      PROVE  /\ AfterTaking[i].sequence = session.sequence
             /\ EffectiveState = "PLANNING"
             /\ plan_age = Off
             /\ \A j \in DOMAIN AfterTaking :
                  AfterTaking[j].type = "SET_ROUTE" => j = i
             /\ NextAction.type # "SET_ROUTE"
  <2>1. i + 1 \in DOMAIN pending /\ pending[i + 1].type = "SET_ROUTE"
    BY <1>2, <1>5
  <2>2. \A j \in DOMAIN pending : pending[j].type = "SET_ROUTE" => j = i + 1
    BY <2>1 DEF CoordinatorInv, PlannerQueueIsCurrent
  <2>3. \A j \in DOMAIN AfterTaking :
          AfterTaking[j].type = "SET_ROUTE" => j + 1 = i + 1
    BY <1>2, <2>2
  <2>4. NextAction.type # "SET_ROUTE"
    BY <1>2, <1>3, <2>2, i + 1 # 1 DEF NoAction, PlannerAction
  <2> QED
    BY <1>2, <2>1, <2>3, <2>4 DEF CoordinatorInv, PlannerQueueIsCurrent
<1> QED
  BY <1>4, <1>5 DEF PlannerQueueIsCurrent

LEMMA FailureKeepsAgreement ==
  ASSUME CoordinatorInv, EnterFailedState, session.active, ~session.paused
  PROVE  Agreement'
BY DEF CoordinatorInv, Agreement, EnterFailedState, SessionMatchesState,
       RouteMatchesSession, ContextMatchesState, PlannerQueueIsCurrent,
       EffectiveState, ClearPlanningContext, ResetControllers, taskVars

LEMMA EventKeepsAgreement ==
  ASSUME CoordinatorInv, NEW ev \in Events, HandleEvent(ev)
  PROVE  Agreement'
<1> USE DEF CoordinatorInv
<1>0. /\ pending \in Seq(QueuedActions)
      /\ session.sequence \in Nat /\ next_sequence \in Nat \ {0}
      /\ session \in [sequence : Nat, mode : AllTaskModes, max_vx : Nat,
                      active : BOOLEAN, paused : BOOLEAN]
      /\ Len(pending) \in Nat /\ DOMAIN pending = 1..Len(pending)
  BY DEF QueuedActions, CoordinatorTypeOK, TaskTypeOK
<1>q. \A a : a.type \notin {"SET_ROUTE", "CANCEL"}
               /\ pending' \in {pending, Enqueued(a)}
               /\ EffectiveState' = EffectiveState
               /\ session'.sequence = session.sequence
               /\ plan_age' = plan_age
             => PlannerQueueIsCurrent'
  <2> SUFFICES ASSUME NEW a, a.type \notin {"SET_ROUTE", "CANCEL"},
                      pending' \in {pending, Enqueued(a)},
                      EffectiveState' = EffectiveState,
                      session'.sequence = session.sequence,
                      plan_age' = plan_age
               PROVE  PlannerQueueIsCurrent'
    OBVIOUS
  <2>1. CASE pending' = pending
    BY <2>1 DEF PlannerQueueIsCurrent
  <2>2. CASE pending' = Enqueued(a)
    <3>1. \A i \in DOMAIN pending' :
            \/ i \in DOMAIN pending /\ pending'[i] = pending[i]
            \/ pending'[i] = a
      BY <1>0, <2>2, QueueAfterEnqueue
    <3> QED
      BY <3>1 DEF PlannerQueueIsCurrent
  <2> QED
    BY <2>1, <2>2
<1>1. CASE OnStarted(ev)
  <2>0. /\ state = "IDLE" /\ ~session.active /\ ~session.paused
        /\ route = NoRoute /\ plan_age = Off
    BY <1>1 DEF OnStarted, StartTask, StartAccepted, SessionMatchesState,
                RouteMatchesSession, ContextMatchesState, EffectiveState
  <2>1. CanAcceptRoute(next_sequence)
    BY <1>0, <2>0 DEF CanAcceptRoute, NoRoute
  <2>2. /\ session'.sequence = next_sequence /\ session'.active
        /\ ~session'.paused /\ next_sequence' = next_sequence + 1
        /\ state' = "PLANNING" /\ plan_age' = Off /\ expected' = 0
        /\ align_age' = Off /\ near_age' = Off /\ mode' = "NONE"
        /\ route'.sequence = next_sequence
        /\ pending' = Enqueued(PlannerAction("SET_ROUTE", next_sequence))
    BY <1>0, <1>1, <2>1
    DEF OnStarted, StartTask, ClearPlanningContext, ResetControllers
  <2>3. SessionMatchesState' /\ RouteMatchesSession' /\ ContextMatchesState'
    BY <1>0, <2>2 DEF SessionMatchesState, RouteMatchesSession,
                      ContextMatchesState, EffectiveState
  <2>4. PlannerQueueIsCurrent'
    <3>1. \A i \in DOMAIN pending' :
            \/ i \in DOMAIN pending /\ pending'[i] = pending[i]
            \/ i = Len(pending) + 1
                 /\ pending'[i] = PlannerAction("SET_ROUTE", next_sequence)
      BY <1>0, <2>2, QueueAfterEnqueue DEF PlannerAction
    <3>2. \A i \in DOMAIN pending : pending[i].type # "SET_ROUTE"
      BY <2>0 DEF PlannerQueueIsCurrent, EffectiveState
    <3>3. \A i \in DOMAIN pending : pending[i].type = "CANCEL" => i = 1
      BY DEF PlannerQueueIsCurrent
    <3> QED
      BY <2>2, <3>1, <3>2, <3>3
      DEF PlannerQueueIsCurrent, EffectiveState, PlannerAction
  <2> QED
    BY <2>3, <2>4 DEF Agreement
<1>2. CASE OnCancelled(ev)
  <2>1. /\ session' = NoSession /\ next_sequence' = next_sequence
        /\ state' = "IDLE" /\ route' = NoRoute
        /\ plan_age' = Off /\ expected' = 0
        /\ align_age' = Off /\ near_age' = Off /\ mode' = "NONE"
        /\ pending' = <<PlannerAction("CANCEL", session.sequence)>>
    BY <1>2 DEF OnCancelled, CancelTask, ClearPlanningContext,
                ResetControllers, Enqueued, PlannerAction
  <2>2. PlannerQueueIsCurrent'
    BY <2>1 DEF PlannerQueueIsCurrent, EffectiveState, PlannerAction
  <2> QED
    BY <1>0, <2>1, <2>2
    DEF Agreement, SessionMatchesState, RouteMatchesSession, NoSession,
        ContextMatchesState, EffectiveState
<1>3. CASE OnMaxVxUpdated(ev)
  <2>1. /\ session'.sequence = session.sequence
        /\ session'.active = session.active /\ session'.paused = session.paused
        /\ next_sequence' = next_sequence
    BY <1>0, <1>3 DEF OnMaxVxUpdated, UpdateMaxVx
  <2>2. /\ EffectiveState' = EffectiveState
        /\ UNCHANGED <<state, state_before_pause, route, plan_age, expected,
                       align_age, near_age, mode>>
    BY <1>3 DEF OnMaxVxUpdated, EffectiveState
  <2>3. PlannerQueueIsCurrent'
    <3> DEFINE a == PlannerAction("UPDATE_SPEED_LIMIT", session.sequence)
    <3>1. pending' \in {pending, Enqueued(a)} /\ a.type = "UPDATE_SPEED_LIMIT"
      BY <1>3 DEF OnMaxVxUpdated, PlannerAction
    <3> HIDE DEF a
    <3> QED
      BY <1>q, <2>1, <2>2, <3>1
  <2> QED
    BY <2>1, <2>2, <2>3
    DEF Agreement, SessionMatchesState, RouteMatchesSession,
        ContextMatchesState
<1>4. CASE OnPaused(ev)
  <2>1. /\ session'.sequence = session.sequence /\ session.active
        /\ session'.active /\ session'.paused
        /\ next_sequence' = next_sequence
    BY <1>0, <1>4 DEF OnPaused, PauseTask
  <2>2. /\ EffectiveState' = EffectiveState /\ state' = "PAUSED"
        /\ state_before_pause' # "IDLE"
        /\ UNCHANGED <<route, plan_age, expected, align_age, near_age, mode>>
    BY <1>4, <2>1 DEF OnPaused, EffectiveState, SessionMatchesState
  <2>3. PlannerQueueIsCurrent'
    <3> DEFINE a == PlannerAction("PAUSE", 0)
    <3>1. pending' \in {pending, Enqueued(a)} /\ a.type = "PAUSE"
      BY <1>4 DEF OnPaused, PlannerAction
    <3> HIDE DEF a
    <3> QED
      BY <1>q, <2>1, <2>2, <3>1
  <2> QED
    BY <2>1, <2>2, <2>3
    DEF Agreement, SessionMatchesState, RouteMatchesSession,
        ContextMatchesState
<1>5. CASE OnResumed(ev)
  <2>1. /\ session'.sequence = session.sequence /\ session.active
        /\ session'.active /\ ~session'.paused
        /\ next_sequence' = next_sequence
    BY <1>0, <1>5 DEF OnResumed, ResumeTask
  <2>2. /\ EffectiveState' = EffectiveState
        /\ state' \notin {"PAUSED", "IDLE"}
        /\ UNCHANGED <<route, plan_age, expected, align_age, near_age, mode>>
    BY <1>5, <2>1
    DEF OnResumed, EffectiveState, SessionMatchesState, CoordinatorTypeOK
  <2>3. PlannerQueueIsCurrent'
    <3> DEFINE a == PlannerAction("RESUME", 0)
    <3>1. pending' \in {pending, Enqueued(a)} /\ a.type = "RESUME"
      BY <1>5 DEF OnResumed, PlannerAction
    <3> HIDE DEF a
    <3> QED
      BY <1>q, <2>1, <2>2, <3>1
  <2> QED
    BY <2>1, <2>2, <2>3
    DEF Agreement, SessionMatchesState, RouteMatchesSession,
        ContextMatchesState
<1>6. CASE OnRefused(ev)
  BY <1>6
  DEF OnRefused, RefuseEvent, machine, taskVars, Agreement,
      SessionMatchesState, RouteMatchesSession, ContextMatchesState,
      PlannerQueueIsCurrent, EffectiveState
<1> QED
  BY <1>1, <1>2, <1>3, <1>4, <1>5, <1>6 DEF HandleEvent

(* What a cycle that leaves the task, the route and the phase alone keeps.   *)
LEMMA StepKeepsAgreement ==
  ASSUME CoordinatorInv,
         UNCHANGED <<taskVars, state, state_before_pause, route, plan_age,
                     expected, align_age>>,
         pending' = AfterTaking,
         \/ UNCHANGED <<near_age, mode>>
         \/ state = "TRACKING"
  PROVE  Agreement'
<1>1. EffectiveState' = EffectiveState /\ session' = session
  BY DEF EffectiveState, taskVars
<1>2. PlannerQueueIsCurrent'
  BY <1>1, TakingKeepsQueue
<1> QED
  BY <1>1, <1>2
  DEF CoordinatorInv, Agreement, SessionMatchesState, RouteMatchesSession,
      ContextMatchesState, EffectiveState, taskVars

LEMMA UpdateKeepsAgreement ==
  ASSUME CoordinatorInv, NEW fb, Update(fb, Corridors)
  PROVE  Agreement'
<1> USE DEF CoordinatorInv
<1>0. /\ session.sequence \in Nat /\ next_sequence \in Nat \ {0}
      /\ pending \in Seq(QueuedActions)
      /\ plan_age \in Nat \cup {Off}
  BY DEF CoordinatorTypeOK, TaskTypeOK, QueuedActions
<1>3. CASE UpdateRequest
  <2>1. EffectiveState' = EffectiveState /\ session' = session
    BY <1>3 DEF UpdateRequest, EffectiveState, taskVars
  <2>2. PlannerQueueIsCurrent'
    BY <1>3, <2>1, TakingKeepsQueue DEF UpdateRequest
  <2>3. CASE NextAction.type # "SET_ROUTE"
    BY <1>3, <2>3, StepKeepsAgreement DEF UpdateRequest
  <2>4. CASE NextAction.type = "SET_ROUTE"
    <3>1. /\ NextAction.sequence = session.sequence
          /\ session.active /\ session.sequence # 0
      BY <1>0, <1>3, <2>4, QueueAfterTaking
      DEF PlannerQueueIsCurrent, SessionMatchesState, UpdateRequest, NoAction,
          PlannerAction
    <3> QED
      BY <1>3, <2>1, <2>2, <2>4, <3>1
      DEF UpdateRequest, Agreement, SessionMatchesState, RouteMatchesSession,
          ContextMatchesState, EffectiveState, taskVars, Off
  <2> QED
    BY <2>3, <2>4
<1>4. CASE UpdateAwaitPlan(fb)
  BY <1>4, StepKeepsAgreement DEF UpdateAwaitPlan
<1>5. CASE UpdatePlanFailed(fb)
  BY <1>5, FailureKeepsAgreement DEF UpdatePlanFailed, SessionMatchesState
<1>6. CASE UpdateIdle
  BY <1>6, StepKeepsAgreement DEF UpdateIdle
<1>7. CASE UpdateStartAlign(fb, Corridors)
  <2>1. /\ state \in {"START_ALIGN", "PLANNING"}
        /\ state = "PLANNING" => plan_age # Off
        /\ session.active /\ ~session.paused /\ EffectiveState = state
    BY <1>7
    DEF UpdateStartAlign, AtStartAlign, PlanReady, FeedbackUsable,
        SessionMatchesState, EffectiveState
  <2>2. AlignAge # Off => state = "START_ALIGN"
    BY <2>1 DEF AlignAge
  <2>3. ASSUME NEW st, NEW age, NEW cmd, NEW progressed,
               \/ st = "START_ALIGN"
               \/ st = "TRACKING" /\ age = Off,
               Aligns(st, age, cmd, progressed)
        PROVE  Agreement'
    <3>1. PlannerQueueIsCurrent'
      BY <2>1, <2>3, QuietQueue DEF Aligns
    <3> QED
      BY <2>1, <2>3, <3>1
      DEF Aligns, ClearPlanningContext, Agreement, SessionMatchesState,
          RouteMatchesSession, ContextMatchesState, EffectiveState, taskVars
  <2>4. ASSUME NEW corridor, NEW alignment, AlignFail(corridor, alignment)
        PROVE  Agreement'
    BY <2>1, <2>4, FailureKeepsAgreement DEF AlignFail
  <2> QED
    BY <1>7, <2>3, <2>4
    DEF UpdateStartAlign, AlignWaitRobot, AlignWaitCorridor, AlignSkip,
        AlignRotate
<1>8. CASE UpdateTracking(Corridors)
  <2>1. state = "TRACKING" /\ session.active /\ ~session.paused
    BY <1>8 DEF UpdateTracking, SessionMatchesState
  <2>2. ASSUME NEW st \in {"TRACKING", "SUCCEEDED"}, NEW age, NEW cmd,
               st = "SUCCEEDED" => age = Off,
               Tracks(st, age, cmd)
        PROVE  Agreement'
    <3>1. PlannerQueueIsCurrent'
      BY <2>1, <2>2, QuietQueue DEF Tracks, EffectiveState
    <3> QED
      BY <2>1, <2>2, <3>1
      DEF Tracks, Agreement, SessionMatchesState, RouteMatchesSession,
          ContextMatchesState, EffectiveState, taskVars
  <2>3. CASE TrackWaitRobot
    BY <2>3, StepKeepsAgreement DEF TrackWaitRobot
  <2>4. ASSUME NEW progressed, TrackFail(progressed)
        PROVE  Agreement'
    BY <2>1, <2>4, FailureKeepsAgreement DEF TrackFail
  <2>5. CASE TrackWaitCorridor
    BY <2>1, <2>5, StepKeepsAgreement DEF TrackWaitCorridor
  <2>6. ASSUME NEW corridor, NEW obstacles, TrackMode(corridor, obstacles)
        PROVE  Agreement'
    <3>1. PICK goal \in Goals : \/ TrackNearGoalBlocked(corridor, goal)
                                \/ TrackRoute(corridor, goal)
                                \/ TrackAvoid(corridor, goal)
      BY <2>6 DEF TrackMode
    <3> QED
      BY <2>2, <3>1 DEF TrackNearGoalBlocked, TrackRoute, TrackAvoid
  <2> QED
    BY <1>8, <2>3, <2>4, <2>5, <2>6 DEF UpdateTracking
<1> QED
  BY <1>3, <1>4, <1>5, <1>6, <1>7, <1>8 DEF Update

LEMMA InitiallyAgreed == CoordinatorInit => Agreement
BY DEF CoordinatorInit, TaskInit, NoSession, NoRoute, Agreement,
       SessionMatchesState, RouteMatchesSession, ContextMatchesState,
       PlannerQueueIsCurrent, EffectiveState

LEMMA TickKeepsInv ==
  ASSUME CoordinatorInv, CoordinatorTypeOK', Tick
  PROVE  CoordinatorInv'
<1>1. /\ \A age \in Nat \cup {Off}, limit \in Nat :
           Aged(age, limit) = Off <=> age = Off
      /\ plan_age \in Nat \cup {Off} /\ align_age \in Nat \cup {Off}
      /\ near_age \in Nat \cup {Off}
  BY DEF Aged, Off, CoordinatorInv, CoordinatorTypeOK
<1>2. /\ plan_age' = Off <=> plan_age = Off
      /\ align_age' = Off <=> align_age = Off
      /\ near_age' = Off <=> near_age = Off
  BY <1>1, CoordinatorConfigAssumption
  DEF Tick, CoordinatorConfigAssumption
<1> QED
  BY <1>2
  DEF Tick, CoordinatorInv, SessionMatchesState, RouteMatchesSession,
      ContextMatchesState, PlannerQueueIsCurrent, EffectiveState, taskVars

LEMMA StepKeepsInv ==
  ASSUME CoordinatorInv, [CoordinatorNext]_coordinatorVars, CoordinatorTypeOK'
  PROVE  CoordinatorInv'
<1>1. CASE EventArrives
  BY <1>1, EventKeepsAgreement DEF EventArrives, CoordinatorInv, Agreement
<1>2. CASE Cycle
  BY <1>2, UpdateKeepsAgreement DEF Cycle, CoordinatorInv, Agreement
<1>3. CASE Reset
  BY <1>3
  DEF Reset, CoordinatorInv, CoordinatorTypeOK, TaskTypeOK, NoSession, NoRoute,
      ClearPlanningContext, ResetControllers, SessionMatchesState,
      RouteMatchesSession, ContextMatchesState, PlannerQueueIsCurrent,
      EffectiveState
<1>4. CASE Tick
  BY <1>4, TickKeepsInv DEF CoordinatorInv
<1>5. CASE UNCHANGED coordinatorVars
  BY <1>5
  DEF coordinatorVars, machine, taskVars, CoordinatorInv, SessionMatchesState,
      RouteMatchesSession, ContextMatchesState, PlannerQueueIsCurrent,
      EffectiveState
<1> QED
  BY <1>1, <1>2, <1>3, <1>4, <1>5 DEF CoordinatorNext

LEMMA Invariance == CoordinatorSpec => []CoordinatorInv
<1>1. CoordinatorInit => Agreement
  BY InitiallyAgreed
<1>2. Agreement /\ CoordinatorTypeOK => CoordinatorInv
  BY DEF Agreement, CoordinatorInv
<1>3. CoordinatorInv /\ [CoordinatorNext]_coordinatorVars /\ CoordinatorTypeOK'
        => CoordinatorInv'
  BY StepKeepsInv
<1> QED
  BY <1>1, <1>2, <1>3, TypeCorrect, PTL DEF CoordinatorSpec

(* The two classes that keep a task's state never disagree on it.            *)
THEOREM SessionAgrees == CoordinatorSpec => []SessionMatchesState
<1>1. CoordinatorInv => SessionMatchesState
  BY DEF CoordinatorInv
<1> QED
  BY <1>1, Invariance, PTL

(* The coordinator never tracks without the route of its task, and keeps no  *)
(* route of a task that is gone.                                             *)
THEOREM RouteAgrees == CoordinatorSpec => []RouteMatchesSession
<1>1. CoordinatorInv => RouteMatchesSession
  BY DEF CoordinatorInv
<1> QED
  BY <1>1, Invariance, PTL

(* No clock, expected trajectory or mode outlives the state it belongs to,   *)
(* and no answer to another session's request is ever taken.                 *)
THEOREM ContextAgrees == CoordinatorSpec => []ContextBelongsToState
<1>1. CoordinatorInv => ContextBelongsToState
  BY DEF CoordinatorInv, ContextBelongsToState, ContextMatchesState,
         FeedbackUsable
<1> QED
  BY <1>1, Invariance, PTL

(* The action queue, however long, asks only for what still matters.         *)
THEOREM QueueIsCurrent == CoordinatorSpec => []PlannerQueueIsCurrent
<1>1. CoordinatorInv => PlannerQueueIsCurrent
  BY DEF CoordinatorInv
<1> QED
  BY <1>1, Invariance, PTL

-----------------------------------------------------------------------------
(* A cycle that moves the robot is one of the three controllers'.            *)
LEMMA MotionStep ==
  ASSUME CoordinatorInv, NEW fb, Update(fb, Corridors), output'.cmd # "zero"
  PROVE  /\ session'.active /\ ~session'.paused
         /\ route'.sequence = session'.sequence
         /\ output'.state = state'
         /\ output'.action.type \notin {"CANCEL", "SET_ROUTE"}
<1> DEFINE Authorized == /\ session'.active /\ ~session'.paused
                         /\ route'.sequence = session'.sequence
                         /\ output'.state = state'
                         /\ output'.action.type \notin {"CANCEL", "SET_ROUTE"}
<1> USE DEF CoordinatorInv
<1>2. ~UpdateRequest /\ ~UpdateAwaitPlan(fb) /\ ~UpdatePlanFailed(fb)
        /\ ~UpdateIdle
  BY DEF UpdateRequest, UpdateAwaitPlan, UpdatePlanFailed, UpdateIdle, Stopped,
         Output
<1>3. ASSUME EffectiveState \notin {"IDLE", "PLANNING"} \/ plan_age # Off
      PROVE  NextAction.type \notin {"CANCEL", "SET_ROUTE"}
  <2>1. pending \in Seq(QueuedActions)
    BY DEF CoordinatorTypeOK, QueuedActions
  <2> QED
    BY <1>3, <2>1, QueueAfterTaking
    DEF PlannerQueueIsCurrent, NoAction, PlannerAction
<1>4. CASE UpdateStartAlign(fb, Corridors)
  <2>1. /\ state \in {"START_ALIGN", "PLANNING"}
        /\ state = "PLANNING" => plan_age # Off
        /\ session.active /\ ~session.paused /\ EffectiveState = state
    BY <1>4
    DEF UpdateStartAlign, AtStartAlign, PlanReady, FeedbackUsable,
        SessionMatchesState, EffectiveState
  <2>2. ASSUME NEW st, NEW age, NEW cmd, NEW progressed,
               Aligns(st, age, cmd, progressed)
        PROVE  Authorized
    BY <1>3, <2>1, <2>2 DEF Aligns, Output, RouteMatchesSession, taskVars
  <2>3. ASSUME NEW corridor, NEW alignment
        PROVE  ~AlignFail(corridor, alignment)
    BY DEF AlignFail, Output
  <2> QED
    BY <1>4, <2>2, <2>3
    DEF UpdateStartAlign, AlignWaitRobot, AlignWaitCorridor, AlignSkip,
        AlignRotate
<1>5. CASE UpdateTracking(Corridors)
  <2>1. /\ state = "TRACKING" /\ EffectiveState = state
        /\ session.active /\ ~session.paused
    BY <1>5 DEF UpdateTracking, SessionMatchesState, EffectiveState
  <2>2. ASSUME NEW st, NEW age, NEW cmd, Tracks(st, age, cmd)
        PROVE  Authorized
    BY <1>3, <2>1, <2>2 DEF Tracks, Output, RouteMatchesSession, taskVars
  <2>3. ~TrackWaitRobot /\ ~TrackWaitCorridor
    BY DEF TrackWaitRobot, TrackWaitCorridor, Output
  <2>4. ASSUME NEW progressed
        PROVE  ~TrackFail(progressed)
    BY DEF TrackFail, Output
  <2>5. ASSUME NEW corridor, NEW obstacles, TrackMode(corridor, obstacles)
        PROVE  Authorized
    BY <2>2, <2>5
    DEF TrackMode, TrackNearGoalBlocked, TrackRoute, TrackAvoid
  <2> QED
    BY <1>5, <2>3, <2>4, <2>5 DEF UpdateTracking
<1> QED
  BY <1>2, <1>4, <1>5 DEF Update

(* The robot is only ever moved for a task that is active, not paused, and   *)
(* whose route the coordinator still holds.                                  *)
THEOREM MotionAuthorized == CoordinatorSpec => MotionIsAuthorized
<1>1. ASSUME CoordinatorInv, [CoordinatorNext]_coordinatorVars
      PROVE  [output'.cmd # "zero" /\ output' # output =>
                /\ session'.active /\ ~session'.paused
                /\ route'.sequence = session'.sequence
                /\ output'.state = state'
                /\ output'.action.type \notin {"CANCEL", "SET_ROUTE"}
             ]_coordinatorVars
  <2>1. CASE EventArrives
    BY <2>1 DEF EventArrives, HandleEvent
  <2>2. CASE Cycle
    BY <1>1, <2>2, MotionStep DEF Cycle
  <2>3. CASE Reset \/ Tick
    BY <2>3 DEF Reset, Tick
  <2> QED
    BY <1>1, <2>1, <2>2, <2>3 DEF CoordinatorNext
<1> QED
  BY <1>1, Invariance, PTL DEF CoordinatorSpec, MotionIsAuthorized

-----------------------------------------------------------------------------
(* The refinement: which step of the lifecycle each step of the coordinator  *)
(* is.  A step that keeps the session and the effective state stutters; one  *)
(* that leaves a running state for an outcome is Finish.                     *)
LEMMA UpdateFinishesOrStutters ==
  ASSUME NEW fb, Update(fb, Corridors)
  PROVE  /\ UNCHANGED taskVars
         /\ \/ EffectiveState' = EffectiveState
            \/ /\ EffectiveState \in {"PLANNING", "START_ALIGN", "TRACKING"}
               /\ state = EffectiveState
               /\ EffectiveState' \in {"START_ALIGN", "TRACKING", "SUCCEEDED",
                                       "FAILED"}
<1>2. CASE UpdateRequest \/ UpdateAwaitPlan(fb) \/ UpdateIdle
  BY <1>2
  DEF UpdateRequest, UpdateAwaitPlan, UpdateIdle, EffectiveState, taskVars
<1>3. CASE UpdatePlanFailed(fb)
  BY <1>3 DEF UpdatePlanFailed, EnterFailedState, EffectiveState, taskVars
<1>4. CASE UpdateStartAlign(fb, Corridors)
  BY <1>4
  DEF UpdateStartAlign, AtStartAlign, AlignWaitRobot, AlignWaitCorridor,
      AlignSkip, AlignRotate, AlignFail, Aligns, EnterFailedState,
      EffectiveState, taskVars
<1>5. CASE UpdateTracking(Corridors)
  <2>1. ASSUME NEW corridor, NEW obstacles, TrackMode(corridor, obstacles)
        PROVE  UNCHANGED taskVars /\ state' \in {"TRACKING", "SUCCEEDED"}
    BY <2>1
    DEF TrackMode, TrackNearGoalBlocked, TrackRoute, TrackAvoid, Tracks
  <2>2. UNCHANGED taskVars /\ state' \in {"TRACKING", "SUCCEEDED", "FAILED"}
    BY <1>5, <2>1
    DEF UpdateTracking, TrackWaitRobot, TrackFail, TrackWaitCorridor,
        EnterFailedState
  <2> QED
    BY <1>5, <2>2 DEF UpdateTracking, EffectiveState
<1> QED
  BY <1>2, <1>3, <1>4, <1>5 DEF Update

LEMMA EventIsLifecycleStep ==
  ASSUME CoordinatorInv, CoordinatorInv', NEW ev \in Events, HandleEvent(ev)
  PROVE  [Lifecycle!Next]_Lifecycle!vars
<1> USE DEF Lifecycle!vars, Lifecycle!Next, CoordinatorInv
<1>0. /\ session \in [sequence : Nat, mode : AllTaskModes, max_vx : Nat,
                      active : BOOLEAN, paused : BOOLEAN]
      /\ next_sequence \in Nat
  BY DEF CoordinatorTypeOK, TaskTypeOK
<1>1. CASE OnStarted(ev)
  <2>1. /\ state = "IDLE" /\ EffectiveState = "IDLE"
        /\ session'.sequence = next_sequence
        /\ next_sequence' = next_sequence + 1
        /\ session'.active /\ ~session'.paused /\ session'.paused = FALSE
    BY <1>1
    DEF OnStarted, StartTask, StartAccepted, SessionMatchesState,
        EffectiveState
  <2>2. state' = "PLANNING"
    BY <1>0, <1>1, <2>1
    DEF OnStarted, CanAcceptRoute, RouteMatchesSession, NoRoute,
        CoordinatorTypeOK, TaskTypeOK
  <2> QED
    BY <1>0, <2>1, <2>2 DEF Lifecycle!Start, Phase, EffectiveState
<1>2. CASE OnCancelled(ev)
  <2>1. /\ session.active /\ session' = NoSession /\ state' = "IDLE"
        /\ next_sequence' = next_sequence
    BY <1>2 DEF OnCancelled, CancelTask
  <2>2. EffectiveState # "IDLE"
    BY <2>1 DEF SessionMatchesState, EffectiveState
  <2> QED
    BY <1>0, <2>1, <2>2 DEF Lifecycle!Cancel, Phase, EffectiveState, NoSession
<1>3. CASE OnMaxVxUpdated(ev)
  BY <1>0, <1>3
  DEF OnMaxVxUpdated, UpdateMaxVx, Phase, EffectiveState
<1>4. CASE OnPaused(ev)
  <2>1. /\ session.active /\ session'.paused = TRUE
        /\ session'.sequence = session.sequence
        /\ next_sequence' = next_sequence
        /\ EffectiveState' = EffectiveState /\ EffectiveState # "IDLE"
    BY <1>0, <1>4
    DEF OnPaused, PauseTask, EffectiveState, SessionMatchesState
  <2> QED
    BY <1>0, <2>1 DEF Lifecycle!Pause, Phase
<1>5. CASE OnResumed(ev)
  <2>1. /\ session.active /\ session'.paused = FALSE
        /\ session'.sequence = session.sequence
        /\ next_sequence' = next_sequence
        /\ EffectiveState' = EffectiveState
    BY <1>0, <1>5
    DEF OnResumed, ResumeTask, EffectiveState, SessionMatchesState,
        CoordinatorTypeOK
  <2> QED
    BY <1>0, <2>1 DEF Lifecycle!Resume, Phase
<1>6. CASE OnRefused(ev)
  BY <1>6
  DEF OnRefused, RefuseEvent, machine, taskVars, Phase, EffectiveState
<1> QED
  BY <1>1, <1>2, <1>3, <1>4, <1>5, <1>6 DEF HandleEvent

LEMMA UpdateIsLifecycleStep ==
  ASSUME CoordinatorInv, NEW fb, Update(fb, Corridors)
  PROVE  [Lifecycle!Next]_Lifecycle!vars
<1> USE DEF Lifecycle!vars, Lifecycle!Next
<1>1. CASE EffectiveState' = EffectiveState
  BY <1>1, UpdateFinishesOrStutters DEF Phase, taskVars
<1>2. CASE EffectiveState' # EffectiveState
  <2>1. /\ UNCHANGED taskVars
        /\ state \in {"PLANNING", "START_ALIGN", "TRACKING"}
        /\ EffectiveState = state
        /\ EffectiveState' \in {"START_ALIGN", "TRACKING", "SUCCEEDED",
                                "FAILED"}
    BY <1>2, UpdateFinishesOrStutters
  <2>2. ~session.paused
    BY <2>1 DEF CoordinatorInv, SessionMatchesState
  <2>3. /\ Phase = "running"
        /\ Phase' \in {"running", "succeeded", "failed"}
    BY <2>1 DEF Phase
  <2> QED
    BY <2>1, <2>2, <2>3 DEF Lifecycle!Finish, Lifecycle!Outcomes, taskVars
<1> QED
  BY <1>1, <1>2

LEMMA LifecycleStep ==
  ASSUME CoordinatorInv, CoordinatorInv', [CoordinatorNext]_coordinatorVars
  PROVE  [Lifecycle!Next]_Lifecycle!vars
<1> USE DEF Lifecycle!vars, Lifecycle!Next
<1>1. CASE EventArrives
  BY <1>1, EventIsLifecycleStep DEF EventArrives
<1>2. CASE Cycle
  BY <1>2, UpdateIsLifecycleStep DEF Cycle
<1>3. CASE Reset
  <2>1. CASE session.active
    <3>1. EffectiveState # "IDLE" /\ EffectiveState' = "IDLE"
      BY <1>3, <2>1
      DEF Reset, CoordinatorInv, SessionMatchesState, EffectiveState
    <3> QED
      BY <1>3, <3>1 DEF Reset, Lifecycle!Cancel, Phase, NoSession
  <2>2. CASE ~session.active
    <3>1. /\ EffectiveState = "IDLE" /\ EffectiveState' = "IDLE"
          /\ session.sequence = 0 /\ session.paused = FALSE
      BY <1>3, <2>2
      DEF Reset, CoordinatorInv, SessionMatchesState, EffectiveState,
          CoordinatorTypeOK, TaskTypeOK
    <3> QED
      BY <1>3, <3>1 DEF Reset, Phase, NoSession
  <2> QED
    BY <2>1, <2>2
<1>4. CASE Tick
  BY <1>4 DEF Tick, taskVars, Phase, EffectiveState
<1>5. CASE UNCHANGED coordinatorVars
  BY <1>5 DEF coordinatorVars, machine, taskVars, Phase, EffectiveState
<1> QED
  BY <1>1, <1>2, <1>3, <1>4, <1>5 DEF CoordinatorNext

(* The coordinator implements the task lifecycle.                            *)
THEOREM CoordinatorImplementsLifecycle ==
  CoordinatorSpec => ImplementsLifecycle
<1>1. CoordinatorInit => Lifecycle!Init
  BY DEF CoordinatorInit, TaskInit, NoSession, Lifecycle!Init, Phase,
         EffectiveState
<1>2. CoordinatorInv /\ CoordinatorInv' /\ [CoordinatorNext]_coordinatorVars
        => [Lifecycle!Next]_Lifecycle!vars
  BY LifecycleStep
<1> QED
  BY <1>1, <1>2, Invariance, PTL
  DEF CoordinatorSpec, ImplementsLifecycle, Lifecycle!Spec

=============================================================================
