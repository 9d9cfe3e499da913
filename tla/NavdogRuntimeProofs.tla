------------------------ MODULE NavdogRuntimeProofs ------------------------
(***************************************************************************)
(* What holds of the runtime node for every set of messages, every length  *)
(* of the MQTT queue and every number of tasks: the types, that nothing it *)
(* keeps crosses from one task to another, that every outcome is cleaned   *)
(* up, and that a cancellation goes first.  The coordinator inside it      *)
(* keeps its own invariant and implements the task lifecycle, whatever the *)
(* runtime feeds to it; and with a second invariant, on when a path is     *)
(* sent, that native SCAN never follows the path of a task that is over.   *)
(***************************************************************************)
EXTENDS NavdogRuntime, NavigationCoordinatorProofs

Ended == {"SUCCEEDED", "FAILED"}

(* The strengthening.  An answer that waits belongs to some task; and an     *)
(* outcome that was reported last, while a task runs, is the outcome of the  *)
(* task before: the running one has not asked for its plan yet, so the next  *)
(* cycle cannot end it and go unnoticed.                                     *)
NodeAgrees ==
  /\ feedback.valid => feedback.sequence # 0
  /\ Running /\ last_state \in Ended
       => EffectiveState = "PLANNING" /\ plan_age = Off

RuntimeInv ==
  /\ CoordinatorInv
  /\ RuntimeTypeOK
  /\ NothingCrossesTasks
  /\ OutcomeIsCleanedUp
  /\ NodeAgrees
  /\ CancelGoesFirst

kept == <<feedback, progress_task, cleaned, path_pending, global_route>>

-----------------------------------------------------------------------------
(* A cycle reports the state it ends in, and an action from the queue.       *)
LEMMA UpdateReports ==
  ASSUME NEW fb, NEW corridors, Update(fb, corridors)
  PROVE  /\ output'.state = state'
         /\ output'.action \in {NextAction, NoAction}
<1> USE DEF Output
<1>1. CASE UpdateRequest \/ UpdateAwaitPlan(fb) \/ UpdateIdle
  BY <1>1 DEF UpdateRequest, UpdateAwaitPlan, UpdateIdle, Stopped
<1>2. CASE UpdatePlanFailed(fb)
  BY <1>2 DEF UpdatePlanFailed, EnterFailedState
<1>3. CASE UpdateStartAlign(fb, corridors)
  BY <1>3
  DEF UpdateStartAlign, AlignWaitRobot, AlignWaitCorridor, AlignSkip,
      AlignRotate, AlignFail, Aligns, EnterFailedState
<1>4. CASE UpdateTracking(corridors)
  <2>1. ASSUME NEW corridor, NEW obstacles, TrackMode(corridor, obstacles)
        PROVE  \E st, age, cmd : Tracks(st, age, cmd)
    BY <2>1 DEF TrackMode, TrackNearGoalBlocked, TrackRoute, TrackAvoid
  <2>2. CASE TrackWaitRobot
    BY <1>4, <2>2 DEF TrackWaitRobot, UpdateTracking
  <2>3. CASE TrackFail(FALSE) \/ TrackFail(TRUE)
    BY <2>3 DEF TrackFail, EnterFailedState
  <2>4. CASE TrackWaitCorridor
    BY <1>4, <2>4 DEF TrackWaitCorridor, UpdateTracking
  <2>5. CASE \E st, age, cmd : Tracks(st, age, cmd)
    BY <2>5 DEF Tracks
  <2> QED
    BY <1>4, <2>1, <2>2, <2>3, <2>4, <2>5 DEF UpdateTracking
<1> QED
  BY <1>1, <1>2, <1>3, <1>4 DEF Update

(* What the corridor is evaluated from only takes observations away.         *)
LEMMA ReadsCorridors ==
  ASSUME Update(feedback, CorridorsRead)
  PROVE  Update(feedback, Corridors)
<1>1. CorridorsRead \subseteq Corridors
  BY DEF CorridorsRead, Corridors
<1> QED
  BY <1>1 DEF Update, UpdateStartAlign, UpdateTracking

LEMMA NoFeedbackFits ==
  /\ NoFeedback \in [valid : BOOLEAN, sequence : Nat, timely : BOOLEAN,
                     state : PlannerStates]
  /\ ~NoFeedback.valid
<1>1. FALSE \in BOOLEAN /\ "UNAVAILABLE" \in PlannerStates
  BY DEF PlannerStates
<1> QED
  BY <1>1 DEF NoFeedback

(* The coordinator keeps its invariant.                                      *)
LEMMA CycleKeepsCoordinator ==
  ASSUME CoordinatorInv, Update(feedback, CorridorsRead)
  PROVE  CoordinatorInv'
<1>1. CoordinatorTypeOK'
  BY ReadsCorridors, UpdateKeepsTypes DEF CoordinatorInv
<1>2. Agreement'
  BY ReadsCorridors, UpdateKeepsAgreement
<1> QED
  BY <1>1, <1>2 DEF CoordinatorInv, Agreement

LEMMA EventKeepsCoordinator ==
  ASSUME CoordinatorInv, NEW ev \in Events, HandleEvent(ev)
  PROVE  CoordinatorInv'
<1>1. CoordinatorTypeOK'
  BY EventKeepsTypes DEF CoordinatorInv
<1>2. Agreement'
  BY EventKeepsAgreement
<1> QED
  BY <1>1, <1>2 DEF CoordinatorInv, Agreement

(* The cycle in which a task ends is the one that cleans up behind it.       *)
LEMMA CycleEnds ==
  ASSUME RuntimeInv, Update(feedback, CorridorsRead)
  PROVE  /\ session' = session
         /\ Running' => Running
         /\ EndsTask <=> Running /\ ~Running'
         /\ ~EndsTask /\ EffectiveState' \in Ended => EffectiveState \in Ended
<1>1. /\ UNCHANGED taskVars
      /\ \/ EffectiveState' = EffectiveState
         \/ /\ EffectiveState \in {"PLANNING", "START_ALIGN", "TRACKING"}
            /\ state = EffectiveState
            /\ EffectiveState' \in {"START_ALIGN", "TRACKING", "SUCCEEDED",
                                    "FAILED"}
  BY ReadsCorridors, UpdateFinishesOrStutters
<1>2. output'.state = state' /\ CoordinatorInv'
  BY UpdateReports, CycleKeepsCoordinator DEF RuntimeInv
<1>3. /\ session' = session
      /\ state \in NavStates /\ state' \in NavStates
      /\ state_before_pause' \in NavStates \ {"PAUSED"}
      /\ state_before_pause \in NavStates \ {"PAUSED"}
  BY <1>1, <1>2 DEF RuntimeInv, CoordinatorInv, CoordinatorTypeOK, taskVars
<1>4. Running' => Running
  BY <1>1 DEF Running
<1>5. ASSUME EndsTask PROVE Running /\ ~Running'
  <2>1. state' \in Ended /\ EffectiveState' = state'
    BY <1>2, <1>5 DEF EndsTask, Ended, EffectiveState
  <2>2. EffectiveState \notin Ended
    BY <1>3, <1>5 DEF EndsTask, RuntimeInv, OutcomeIsCleanedUp, Ended
  <2> QED
    BY <1>1, <2>1, <2>2 DEF Ended, Running
<1>6. ASSUME Running, ~Running' PROVE EndsTask
  <2>1. /\ state = EffectiveState /\ EffectiveState' \in Ended
        /\ EffectiveState' # EffectiveState
    BY <1>1, <1>6 DEF Running, Ended
  <2>2. state' = EffectiveState' /\ state' \in Ended
    <3>1. CASE state' # "PAUSED"
      BY <2>1, <3>1 DEF EffectiveState
    <3>2. CASE state' = "PAUSED"
      <4>1. session'.paused /\ ~session.paused
        BY <1>2, <1>6, <2>1, <3>2
        DEF RuntimeInv, CoordinatorInv, SessionMatchesState, Running
      <4> QED
        BY <1>3, <4>1
    <3> QED
      BY <3>1, <3>2
  <2>3. ~(state = "PLANNING" /\ plan_age = Off)
    <3>1. CASE UpdateRequest
      BY <2>1, <2>2, <3>1 DEF UpdateRequest
    <3>2. CASE ~UpdateRequest
      BY <2>2, <3>2
      DEF Update, UpdateAwaitPlan, UpdatePlanFailed, UpdateIdle,
          UpdateStartAlign, AtStartAlign, PlanReady, FeedbackUsable,
          UpdateTracking
    <3> QED
      BY <3>1, <3>2
  <2>4. last_state \notin Ended
    BY <1>6, <2>1, <2>3 DEF RuntimeInv, NodeAgrees
  <2>5. cleaned # session.sequence /\ session.sequence # 0
    BY <1>6, <2>1
    DEF RuntimeInv, OutcomeIsCleanedUp, CoordinatorInv, SessionMatchesState,
        Running
  <2> QED
    BY <1>2, <1>3, <2>2, <2>4, <2>5 DEF EndsTask, Ended
<1>7. ~EndsTask /\ EffectiveState' \in Ended => EffectiveState \in Ended
  BY <1>1, <1>6 DEF Running, Ended
<1> QED
  BY <1>3, <1>4, <1>5, <1>6, <1>7

-----------------------------------------------------------------------------
(* A step that leaves the task, the effective state and what the node keeps  *)
(* alone.                                                                    *)
LEMMA SameTask ==
  ASSUME NothingCrossesTasks, OutcomeIsCleanedUp, NodeAgrees,
         UNCHANGED <<kept, last_state>>,
         session'.sequence = session.sequence,
         EffectiveState' = EffectiveState,
         plan_age = Off => plan_age' = Off
  PROVE  NothingCrossesTasks' /\ OutcomeIsCleanedUp' /\ NodeAgrees'
BY DEF NothingCrossesTasks, OutcomeIsCleanedUp, NodeAgrees, kept, Running

LEMMA QueueKeepsOrder ==
  ASSUME queue \in Seq(Messages), queue # <<>>, CancelGoesFirst,
         queue' = Tail(queue)
  PROVE  /\ queue' \in Seq(Messages) /\ Len(queue') = Len(queue) - 1
         /\ CancelGoesFirst'
         /\ \A i \in DOMAIN queue' : queue'[i].type # "CANCEL_TASK"
<1>1. /\ queue' \in Seq(Messages) /\ Len(queue') = Len(queue) - 1
      /\ DOMAIN queue' = 1..Len(queue') /\ DOMAIN queue = 1..Len(queue)
      /\ \A i \in DOMAIN queue' : queue'[i] = queue[i + 1]
  OBVIOUS
<1>2. \A i \in DOMAIN queue' : queue'[i].type # "CANCEL_TASK"
  BY <1>1 DEF CancelGoesFirst
<1> QED
  BY <1>1, <1>2 DEF CancelGoesFirst

-----------------------------------------------------------------------------
(* One lemma per action.                                                     *)
LEMMA MessageStep ==
  ASSUME RuntimeInv, NEW ev \in Messages, MqttMessage(ev)
  PROVE  RuntimeInv'
<1>1. /\ queue \in Seq(Messages) /\ Len(queue) \in Nat /\ Len(queue) <= MaxQueue
      /\ MaxQueue \in Nat \ {0} /\ sent \in Nat /\ MaxMessages \in Nat
  BY RuntimeConfigAssumption
  DEF RuntimeInv, RuntimeTypeOK, RuntimeConfigAssumption
<1>2. CoordinatorInv'
  BY DEF MqttMessage, RuntimeInv, CoordinatorInv, CoordinatorTypeOK, TaskTypeOK,
         SessionMatchesState, RouteMatchesSession, ContextMatchesState,
         PlannerQueueIsCurrent, EffectiveState, coordinatorVars, machine,
         taskVars
<1>3. NothingCrossesTasks' /\ OutcomeIsCleanedUp' /\ NodeAgrees'
  BY SameTask
  DEF MqttMessage, RuntimeInv, kept, nodeVars, handoffVars, coordinatorVars,
      machine, taskVars, EffectiveState
<1>4. /\ KeptFor(ev) \in Seq(Messages) /\ Len(KeptFor(ev)) < MaxQueue
      /\ ev.type = "CANCEL_TASK" => KeptFor(ev) = <<>>
      /\ CancelGoesFirst =>
           \A i \in DOMAIN KeptFor(ev) : KeptFor(ev)[i].type = "CANCEL_TASK" => i = 1
  <2>1. CASE ev.type = "CANCEL_TASK"
    BY <1>1, <2>1 DEF KeptFor
  <2>2. CASE ev.type # "CANCEL_TASK" /\ Len(queue) >= MaxQueue
    <3>1. queue # <<>>
      BY <1>1, <2>2
    <3>2. /\ Tail(queue) \in Seq(Messages) /\ Len(Tail(queue)) = Len(queue) - 1
          /\ \A i \in DOMAIN Tail(queue) :
               /\ i \in 1..(Len(queue) - 1)
               /\ Tail(queue)[i] = queue[i + 1]
          /\ DOMAIN queue = 1..Len(queue)
      BY <1>1, <3>1
    <3>3. CancelGoesFirst =>
            \A i \in DOMAIN Tail(queue) : Tail(queue)[i].type # "CANCEL_TASK"
      BY <1>1, <3>2 DEF CancelGoesFirst
    <3> QED
      BY <1>1, <2>2, <3>2, <3>3 DEF KeptFor
  <2>3. CASE ev.type # "CANCEL_TASK" /\ ~(Len(queue) >= MaxQueue)
    BY <1>1, <2>3 DEF KeptFor, CancelGoesFirst
  <2> QED
    BY <2>1, <2>2, <2>3
<1>5. /\ queue' \in Seq(Messages) /\ Len(queue') <= MaxQueue
      /\ CancelGoesFirst'
  <2> DEFINE Q == KeptFor(ev)
  <2>1. /\ Q \in Seq(Messages) /\ Len(Q) < MaxQueue
        /\ ev.type = "CANCEL_TASK" => Q = <<>>
        /\ \A i \in DOMAIN Q : Q[i].type = "CANCEL_TASK" => i = 1
        /\ queue' = Append(Q, ev)
    BY <1>4 DEF MqttMessage, RuntimeInv
  <2> HIDE DEF Q
  <2>2. /\ Append(Q, ev) \in Seq(Messages) /\ Len(Append(Q, ev)) = Len(Q) + 1
        /\ \A i \in DOMAIN Append(Q, ev) :
             \/ i \in DOMAIN Q /\ Append(Q, ev)[i] = Q[i]
             \/ i = Len(Q) + 1 /\ Append(Q, ev)[i] = ev
    BY <2>1
  <2>3. Q = <<>> => Len(Q) + 1 = 1
    OBVIOUS
  <2>4. \A i \in DOMAIN queue' : queue'[i].type = "CANCEL_TASK" => i = 1
    BY <2>1, <2>2, <2>3
  <2> QED
    BY <1>1, <2>1, <2>2, <2>4 DEF CancelGoesFirst
<1>6. sent' \in 0..MaxMessages /\ overflowed' \in BOOLEAN
  BY <1>1 DEF MqttMessage, RuntimeInv, RuntimeTypeOK
<1>7. RuntimeTypeOK'
  BY <1>2, <1>5, <1>6
  DEF MqttMessage, RuntimeInv, RuntimeTypeOK, CoordinatorInv, nodeVars,
      handoffVars
<1> QED
  BY <1>2, <1>3, <1>5, <1>7 DEF RuntimeInv

LEMMA TimerStep ==
  ASSUME RuntimeInv, TimerFires
  PROVE  RuntimeInv'
<1>1. CoordinatorInv'
  BY TickKeepsTypes, TickKeepsInv DEF TimerFires, RuntimeInv, CoordinatorInv
<1>2. NothingCrossesTasks' /\ OutcomeIsCleanedUp' /\ NodeAgrees'
  <2>1. plan_age = Off => plan_age' = Off
    BY DEF TimerFires, Tick, Aged
  <2> QED
    BY <2>1, SameTask
    DEF TimerFires, Tick, RuntimeInv, kept, nodeVars, EffectiveState, taskVars
<1>3. reset_age' \in Nat \cup {Off}
  BY DEF TimerFires, Aged, Off, RuntimeInv, RuntimeTypeOK
<1>4. RuntimeTypeOK' /\ CancelGoesFirst'
  BY <1>1, <1>3
  DEF TimerFires, RuntimeInv, RuntimeTypeOK, CoordinatorInv, CancelGoesFirst,
      mqttVars, nodeVars
<1> QED
  BY <1>1, <1>2, <1>4 DEF RuntimeInv

LEMMA EventsDoneStep ==
  ASSUME RuntimeInv, EventsProcessed
  PROVE  RuntimeInv'
<1>1. CoordinatorInv'
  BY DEF EventsProcessed, RuntimeInv, CoordinatorInv, CoordinatorTypeOK,
         TaskTypeOK, SessionMatchesState, RouteMatchesSession,
         ContextMatchesState, PlannerQueueIsCurrent, EffectiveState,
         coordinatorVars, machine, taskVars
<1>2. NothingCrossesTasks' /\ OutcomeIsCleanedUp' /\ NodeAgrees'
  BY SameTask
  DEF EventsProcessed, RuntimeInv, kept, nodeVars, handoffVars,
      coordinatorVars, machine, taskVars, EffectiveState
<1>3. RuntimeTypeOK' /\ CancelGoesFirst'
  BY <1>1
  DEF EventsProcessed, RuntimeInv, RuntimeTypeOK, CoordinatorInv,
      CancelGoesFirst, mqttVars, nodeVars, handoffVars
<1> QED
  BY <1>1, <1>2, <1>3 DEF RuntimeInv

LEMMA DeliveryStep ==
  ASSUME RuntimeInv, Delivery
  PROVE  RuntimeInv'
<1>1. CoordinatorInv'
  BY DEF Delivery, ScanReset, ScanPath, RuntimeInv, CoordinatorInv,
         CoordinatorTypeOK, TaskTypeOK, SessionMatchesState,
         RouteMatchesSession, ContextMatchesState, PlannerQueueIsCurrent,
         EffectiveState, coordinatorVars, machine, taskVars
<1>2. NothingCrossesTasks' /\ OutcomeIsCleanedUp' /\ NodeAgrees'
  BY SameTask
  DEF Delivery, ScanReset, ScanPath, RuntimeInv, kept, nodeVars,
      coordinatorVars, machine, taskVars, EffectiveState
<1>3. /\ in_flight' \in [reset : BOOLEAN, path : Nat] /\ scan_path' \in Nat
  <2>1. in_flight \in [reset : BOOLEAN, path : Nat] /\ scan_path \in Nat
    BY DEF RuntimeInv, RuntimeTypeOK
  <2>2. CASE ScanReset
    BY <2>1, <2>2 DEF ScanReset
  <2>3. CASE ScanPath
    BY <2>1, <2>3 DEF ScanPath
  <2> QED
    BY <2>2, <2>3 DEF Delivery
<1>4. RuntimeTypeOK' /\ CancelGoesFirst'
  BY <1>1, <1>3
  DEF Delivery, ScanReset, ScanPath, RuntimeInv, RuntimeTypeOK,
      CoordinatorInv, CancelGoesFirst, mqttVars, nodeVars
<1> QED
  BY <1>1, <1>2, <1>4 DEF RuntimeInv

(* An event that neither starts nor ends a task.                             *)
LEMMA OtherEventsKeepTask ==
  ASSUME CoordinatorInv, CoordinatorInv', NEW ev \in Events, HandleEvent(ev),
         ~StartAccepted(ev), ~(ev.type = "CANCEL_TASK" /\ session.active)
  PROVE  /\ session'.sequence = session.sequence
         /\ EffectiveState' = EffectiveState
         /\ plan_age' = plan_age
<1>1. \/ OnMaxVxUpdated(ev) \/ OnPaused(ev) \/ OnResumed(ev) \/ OnRefused(ev)
  BY DEF HandleEvent, OnStarted, StartTask, OnCancelled, CancelTask
<1>2. CASE OnMaxVxUpdated(ev)
  BY <1>2
  DEF OnMaxVxUpdated, UpdateMaxVx, EffectiveState, CoordinatorInv,
      CoordinatorTypeOK, TaskTypeOK
<1>3. CASE OnPaused(ev)
  BY <1>3
  DEF OnPaused, PauseTask, EffectiveState, CoordinatorInv, CoordinatorTypeOK,
      TaskTypeOK
<1>4. CASE OnResumed(ev)
  <2>1. state_before_pause \in NavStates \ {"PAUSED"}
    BY DEF CoordinatorInv, CoordinatorTypeOK
  <2> QED
    BY <1>4, <2>1
    DEF OnResumed, ResumeTask, EffectiveState, CoordinatorInv,
        CoordinatorTypeOK, TaskTypeOK, SessionMatchesState
<1>5. CASE OnRefused(ev)
  BY <1>5 DEF OnRefused, RefuseEvent, EffectiveState, machine, taskVars
<1> QED
  BY <1>1, <1>2, <1>3, <1>4, <1>5

-----------------------------------------------------------------------------
(* One event of the queue.                                                   *)
LEMMA EventStep ==
  ASSUME RuntimeInv, ProcessEvent
  PROVE  RuntimeInv'
<1> DEFINE ev == Head(queue)
<1>1. /\ queue \in Seq(Messages) /\ queue # <<>> /\ Len(queue) <= MaxQueue
      /\ queue' = Tail(queue) /\ ev \in Messages /\ ev \in Events
      /\ MaxQueue \in Nat \ {0}
  BY RuntimeConfigAssumption
  DEF RuntimeInv, RuntimeTypeOK, ProcessEvent, RuntimeConfigAssumption
<1>2. /\ HandleEvent(ev)
      /\ \/ OnStarted(ev) /\ AfterStarted
         \/ OnCancelled(ev) /\ AfterCancelled
         \/ /\ ~StartAccepted(ev)
            /\ ~(ev.type = "CANCEL_TASK" /\ session.active)
            /\ UNCHANGED <<feedback, progress_task, cleaned, path_pending,
                           reset_age, global_route, in_flight>>
      /\ UNCHANGED <<sent, overflowed, phase, last_state, scan_path>>
  BY DEF ProcessEvent
<1> HIDE DEF ev
<1>3. CoordinatorInv /\ CoordinatorInv'
  BY <1>1, <1>2, EventKeepsCoordinator DEF RuntimeInv
<1>4. /\ queue' \in Seq(Messages) /\ Len(queue') <= MaxQueue
      /\ CancelGoesFirst'
  BY <1>1, QueueKeepsOrder DEF RuntimeInv
<1>5. /\ session.sequence \in Nat /\ session'.sequence \in Nat
      /\ route'.sequence \in Nat
      /\ state_before_pause \in NavStates \ {"PAUSED"}
  BY <1>3 DEF CoordinatorInv, CoordinatorTypeOK, TaskTypeOK
<1>6. in_flight \in [reset : BOOLEAN, path : Nat] /\ reset_age \in Nat \cup {Off}
      /\ feedback \in [valid : BOOLEAN, sequence : Nat, timely : BOOLEAN,
                       state : PlannerStates]
  BY DEF RuntimeInv, RuntimeTypeOK
<1>7. /\ [in_flight EXCEPT !.reset = TRUE] \in [reset : BOOLEAN, path : Nat]
  BY <1>6
<1>8. NoFeedback \in [valid : BOOLEAN, sequence : Nat, timely : BOOLEAN,
                      state : PlannerStates]
  BY DEF NoFeedback, PlannerStates
<1>9. CASE OnStarted(ev) /\ AfterStarted
  <2>1. /\ ~session.active /\ session'.active /\ ~session'.paused
        /\ session.sequence = 0 /\ session'.sequence # 0
        /\ last_state' = last_state
    BY <1>2, <1>3, <1>9
    DEF OnStarted, StartTask, StartAccepted, CoordinatorInv,
        SessionMatchesState
  <2>2. /\ state' = "PLANNING" /\ route'.sequence = session'.sequence
        /\ plan_age' = Off /\ EffectiveState' = "PLANNING"
    BY <1>3, <1>9, <2>1
    DEF OnStarted, StartTask, CanAcceptRoute, CoordinatorInv, NoRoute,
        CoordinatorTypeOK, TaskTypeOK, RouteMatchesSession,
        SessionMatchesState, EffectiveState, ClearPlanningContext
  <2>3. ~feedback.valid
    BY <2>1 DEF RuntimeInv, NothingCrossesTasks, NodeAgrees
  <2>4. NothingCrossesTasks' /\ OutcomeIsCleanedUp' /\ NodeAgrees'
    BY <1>9, <2>1, <2>2, <2>3
    DEF AfterStarted, NothingCrossesTasks, OutcomeIsCleanedUp, NodeAgrees,
        Running
  <2>5. RuntimeTypeOK'
    BY <1>2, <1>3, <1>4, <1>5, <1>6, <1>7, <1>9
    DEF AfterStarted, RuntimeInv, RuntimeTypeOK, CoordinatorInv
  <2> QED
    BY <1>3, <1>4, <2>4, <2>5 DEF RuntimeInv
<1>10. CASE OnCancelled(ev) /\ AfterCancelled
  <2>1. /\ state' = "IDLE" /\ EffectiveState' = "IDLE"
        /\ last_state' = last_state
    BY <1>2, <1>10 DEF OnCancelled, EffectiveState
  <2>2. ~NoFeedback.valid
    BY DEF NoFeedback
  <2>3. NothingCrossesTasks' /\ OutcomeIsCleanedUp' /\ NodeAgrees'
    BY <1>10, <2>1, <2>2
    DEF AfterCancelled, ResetNativeScan, NothingCrossesTasks,
        OutcomeIsCleanedUp, NodeAgrees, Running
  <2>4. RuntimeTypeOK'
    BY <1>2, <1>3, <1>4, <1>5, <1>6, <1>7, <1>8, <1>10
    DEF AfterCancelled, ResetNativeScan, RuntimeInv, RuntimeTypeOK,
        CoordinatorInv
  <2> QED
    BY <1>3, <1>4, <2>3, <2>4 DEF RuntimeInv
<1>11. CASE /\ ~StartAccepted(ev)
            /\ ~(ev.type = "CANCEL_TASK" /\ session.active)
            /\ UNCHANGED <<feedback, progress_task, cleaned, path_pending,
                           reset_age, global_route, in_flight>>
  <2>2. /\ session'.sequence = session.sequence
        /\ EffectiveState' = EffectiveState
        /\ plan_age' = plan_age
    BY <1>1, <1>2, <1>3, <1>11, OtherEventsKeepTask
  <2>3. NothingCrossesTasks' /\ OutcomeIsCleanedUp' /\ NodeAgrees'
    BY <1>2, <1>11, <2>2, SameTask DEF RuntimeInv, kept
  <2>4. RuntimeTypeOK'
    BY <1>2, <1>3, <1>4, <1>6, <1>11
    DEF RuntimeInv, RuntimeTypeOK, CoordinatorInv
  <2> QED
    BY <1>3, <1>4, <2>3, <2>4 DEF RuntimeInv
<1> QED
  BY <1>2, <1>9, <1>10, <1>11

-----------------------------------------------------------------------------
(* A planner action that asks for a route asks for the live task's.          *)
LEMMA RequestIsCurrent ==
  ASSUME CoordinatorInv, NEW action, action \in {NextAction, NoAction}
  PROVE  /\ action \in [type : ActionTypes \cup {"NONE"}, sequence : Nat]
         /\ action.type = "SET_ROUTE" => action.sequence = session.sequence
<1>1. pending \in Seq(QueuedActions)
  BY DEF CoordinatorInv, CoordinatorTypeOK, QueuedActions
<1>2. NoAction \in [type : ActionTypes \cup {"NONE"}, sequence : Nat]
      /\ NoAction.type # "SET_ROUTE"
  BY DEF NoAction, PlannerAction
<1>3. NextAction \in [type : ActionTypes \cup {"NONE"}, sequence : Nat]
  BY <1>1, TakingTypes
<1>4. NextAction.type = "SET_ROUTE" => NextAction.sequence = session.sequence
  BY <1>1, <1>2, QueueAfterTaking DEF CoordinatorInv, PlannerQueueIsCurrent
<1> QED
  BY <1>2, <1>3, <1>4

(* The answer to an action.                                                  *)
LEMMA AnswerFits ==
  ASSUME NEW action \in [type : ActionTypes \cup {"NONE"}, sequence : Nat]
  PROVE  /\ Answer(action) \in [valid : BOOLEAN, sequence : Nat,
                                timely : BOOLEAN, state : PlannerStates]
         /\ Answer(action).valid =>
              /\ action.type = "SET_ROUTE"
              /\ Answer(action).sequence = action.sequence
              /\ Answer(action).sequence # 0
<1>1. CASE action.type = "SET_ROUTE" /\ action.sequence # 0
  <2>1. Answer(action) = [valid |-> TRUE, sequence |-> action.sequence,
                          timely |-> TRUE, state |-> "READY"]
    BY <1>1 DEF Answer, Feedback
  <2> QED
    BY <1>1, <2>1 DEF PlannerStates
<1>2. CASE ~(action.type = "SET_ROUTE" /\ action.sequence # 0)
  <2>1. Answer(action) = [valid |-> FALSE, sequence |-> 0, timely |-> FALSE,
                          state |-> "UNAVAILABLE"]
    BY <1>2 DEF Answer, NoFeedback
  <2> QED
    BY <2>1 DEF PlannerStates
<1> QED
  BY <1>1, <1>2

(* One control cycle.                                                        *)
LEMMA ControlStep ==
  ASSUME RuntimeInv, ControlCycle
  PROVE  RuntimeInv'
<1>1. /\ phase' = "idle"
      /\ Update(feedback, CorridorsRead)
      /\ progress_task' = IF output'.progress THEN session'.sequence
                                              ELSE progress_task
      /\ last_state' = output'.state
      /\ UNCHANGED <<mqttVars, scan_path>>
  BY DEF ControlCycle
<1>2. CoordinatorInv /\ CoordinatorInv'
  BY <1>1, CycleKeepsCoordinator DEF RuntimeInv
<1>3. /\ session' = session
      /\ Running' => Running
      /\ EndsTask <=> Running /\ ~Running'
      /\ ~EndsTask /\ EffectiveState' \in Ended => EffectiveState \in Ended
  BY <1>1, CycleEnds
<1>4. output'.state = state' /\ output'.action \in {NextAction, NoAction}
  BY <1>1, UpdateReports
<1>5. /\ session.sequence \in Nat /\ route'.sequence \in Nat
      /\ state' \in NavStates
  BY <1>2 DEF CoordinatorInv, CoordinatorTypeOK, TaskTypeOK
<1>6. /\ in_flight \in [reset : BOOLEAN, path : Nat]
      /\ reset_age \in Nat \cup {Off} /\ path_pending \in BOOLEAN
      /\ cleaned \in Nat /\ global_route \in Nat /\ progress_task \in Nat
  BY DEF RuntimeInv, RuntimeTypeOK
<1>7. PICK due \in {PathDue, PathDue /\ reset_age > PathDelay} :
        LET path == IF due /\ PathSent THEN session'.sequence
                                       ELSE in_flight.path IN
        IF EndsTask
          THEN /\ cleaned' = session'.sequence
               /\ in_flight' = [reset |-> TRUE, path |-> path]
               /\ path_pending' = FALSE
               /\ reset_age' = 0
               /\ feedback' = NoFeedback
               /\ global_route' = 0
          ELSE /\ in_flight' = [in_flight EXCEPT !.path = path]
               /\ path_pending' = (path_pending /\ ~due)
               /\ feedback' = Answer(output'.action)
               /\ UNCHANGED <<cleaned, reset_age, global_route>>
  BY DEF ControlCycle
<1>8. PICK path \in Nat :
        IF EndsTask
          THEN /\ cleaned' = session'.sequence
               /\ in_flight' = [reset |-> TRUE, path |-> path]
               /\ path_pending' = FALSE
               /\ reset_age' = 0
               /\ feedback' = NoFeedback
               /\ global_route' = 0
          ELSE /\ in_flight' = [in_flight EXCEPT !.path = path]
               /\ path_pending' = (path_pending /\ ~due)
               /\ feedback' = Answer(output'.action)
               /\ UNCHANGED <<cleaned, reset_age, global_route>>
  <2>1. (IF due /\ PathSent THEN session'.sequence ELSE in_flight.path) \in Nat
    BY <1>3, <1>5, <1>6
  <2> QED
    BY <1>7, <2>1
<1>9. /\ output'.action \in [type : ActionTypes \cup {"NONE"}, sequence : Nat]
      /\ output'.action.type = "SET_ROUTE" =>
           output'.action.sequence = session.sequence
  BY <1>2, <1>4, RequestIsCurrent
<1>10. /\ feedback' \in [valid : BOOLEAN, sequence : Nat, timely : BOOLEAN,
                         state : PlannerStates]
       /\ feedback'.valid => feedback'.sequence = session'.sequence
                               /\ feedback'.sequence # 0
  <2>1. CASE EndsTask
    <3>1. feedback' = NoFeedback
      BY <1>8, <2>1
    <3> QED
      BY <3>1, NoFeedbackFits
  <2>2. CASE ~EndsTask
    <3>1. feedback' = Answer(output'.action)
      BY <1>8, <2>2
    <3> QED
      BY <1>3, <1>9, <3>1, AnswerFits
  <2> QED
    BY <2>1, <2>2
<1>11. path_pending' \in BOOLEAN
  <2>1. path_pending' = FALSE \/ path_pending' = (path_pending /\ ~due)
    BY <1>8
  <2> QED
    BY <2>1
<1>12. progress_task' \in {session'.sequence, progress_task}
  BY <1>1
<1>13. NothingCrossesTasks'
  <2>1. progress_task' # 0 => progress_task' = session'.sequence
    BY <1>3, <1>12 DEF RuntimeInv, NothingCrossesTasks
  <2>2. path_pending' => Running'
    BY <1>3, <1>8 DEF RuntimeInv, NothingCrossesTasks
  <2>3. global_route' = IF Running' THEN session'.sequence ELSE 0
    BY <1>3, <1>8 DEF RuntimeInv, NothingCrossesTasks
  <2> QED
    BY <1>10, <2>1, <2>2, <2>3 DEF NothingCrossesTasks
<1>14. OutcomeIsCleanedUp'
  <2>1. CASE EndsTask
    BY <1>3, <1>8, <2>1 DEF OutcomeIsCleanedUp
  <2>2. CASE ~EndsTask
    BY <1>3, <1>8, <2>2 DEF RuntimeInv, OutcomeIsCleanedUp, Ended
  <2> QED
    BY <2>1, <2>2
<1>15. NodeAgrees'
  <2>1. last_state' \in Ended => EffectiveState' \in Ended
    BY <1>1, <1>4 DEF EffectiveState, Ended
  <2> QED
    BY <1>10, <2>1 DEF NodeAgrees, Ended, Running
<1>16. in_flight' \in [reset : BOOLEAN, path : Nat]
  <2>1. CASE EndsTask
    <3>1. in_flight' = [reset |-> TRUE, path |-> path]
      BY <1>8, <2>1
    <3> QED
      BY <3>1
  <2>2. CASE ~EndsTask
    BY <1>6, <1>8, <2>2
  <2> QED
    BY <2>1, <2>2
<1>17. /\ cleaned' \in Nat /\ global_route' \in Nat /\ progress_task' \in Nat
       /\ reset_age' \in Nat \cup {Off}
       /\ last_state' \in NavStates \cup {"NONE"}
  BY <1>1, <1>3, <1>4, <1>5, <1>6, <1>8, <1>12
<1>18. RuntimeTypeOK' /\ CancelGoesFirst'
  BY <1>1, <1>2, <1>10, <1>11, <1>16, <1>17
  DEF RuntimeInv, RuntimeTypeOK, CoordinatorInv, CancelGoesFirst, mqttVars
<1> QED
  BY <1>2, <1>13, <1>14, <1>15, <1>18 DEF RuntimeInv

-----------------------------------------------------------------------------
LEMMA RuntimeInitially == RuntimeInit => RuntimeInv
<1> SUFFICES ASSUME RuntimeInit PROVE RuntimeInv
  OBVIOUS
<1>1. CoordinatorInv
  BY InitialTypes, InitiallyAgreed DEF RuntimeInit, CoordinatorInv, Agreement
<1>2. RuntimeTypeOK
  <2>1. <<>> \in Seq(Messages) /\ Len(<<>>) = 0
    OBVIOUS
  <2>2. Nothing \in [reset : BOOLEAN, path : Nat]
    BY DEF Nothing
  <2>3. queue \in Seq(Messages) /\ Len(queue) <= MaxQueue
    BY <2>1, RuntimeConfigAssumption DEF RuntimeInit, RuntimeConfigAssumption
  <2>4. /\ overflowed \in BOOLEAN /\ path_pending \in BOOLEAN
        /\ in_flight = Nothing /\ feedback = NoFeedback
    BY DEF RuntimeInit
  <2>5. /\ sent \in 0..MaxMessages /\ progress_task \in Nat
        /\ cleaned \in Nat /\ global_route \in Nat /\ scan_path \in Nat
        /\ reset_age \in Nat \cup {Off}
        /\ last_state \in NavStates \cup {"NONE"}
        /\ phase \in {"idle", "events", "cycle"}
    BY RuntimeConfigAssumption DEF RuntimeInit, RuntimeConfigAssumption
  <2> QED
    BY <1>1, <2>2, <2>3, <2>4, <2>5, NoFeedbackFits
    DEF RuntimeTypeOK, CoordinatorInv
<1>3. EffectiveState = "IDLE"
  BY DEF RuntimeInit, CoordinatorInit, EffectiveState
<1>4. NothingCrossesTasks /\ OutcomeIsCleanedUp /\ NodeAgrees
  BY <1>3
  DEF RuntimeInit, NothingCrossesTasks, OutcomeIsCleanedUp, NodeAgrees,
      Running, NoFeedback
<1>5. CancelGoesFirst
  BY DEF RuntimeInit, CancelGoesFirst
<1> QED
  BY <1>1, <1>2, <1>4, <1>5 DEF RuntimeInv

LEMMA RuntimeStutters ==
  ASSUME RuntimeInv, UNCHANGED runtimeVars
  PROVE  RuntimeInv'
<1>1. CoordinatorInv'
  BY DEF runtimeVars, RuntimeInv, CoordinatorInv, CoordinatorTypeOK,
         TaskTypeOK, SessionMatchesState, RouteMatchesSession,
         ContextMatchesState, PlannerQueueIsCurrent, EffectiveState,
         coordinatorVars, machine, taskVars
<1>2. NothingCrossesTasks' /\ OutcomeIsCleanedUp' /\ NodeAgrees'
  BY SameTask
  DEF runtimeVars, RuntimeInv, kept, nodeVars, handoffVars, coordinatorVars,
      machine, taskVars, EffectiveState
<1>3. RuntimeTypeOK' /\ CancelGoesFirst'
  BY <1>1
  DEF runtimeVars, RuntimeInv, RuntimeTypeOK, CoordinatorInv,
      CancelGoesFirst, mqttVars, nodeVars, handoffVars
<1> QED
  BY <1>1, <1>2, <1>3 DEF RuntimeInv

LEMMA RuntimeInvariance == RuntimeSpec => []RuntimeInv
<1>1. RuntimeInit => RuntimeInv
  BY RuntimeInitially
<1>2. RuntimeInv /\ [RuntimeNext]_runtimeVars => RuntimeInv'
  BY MessageStep, TimerStep, EventStep, EventsDoneStep, ControlStep,
     DeliveryStep, RuntimeStutters
  DEF RuntimeNext, TimerCallback
<1> QED
  BY <1>1, <1>2, PTL DEF RuntimeSpec

(* Every variable of the node keeps its type, and the queue its bound.       *)
THEOREM RuntimeTypes == RuntimeSpec => []RuntimeTypeOK
BY RuntimeInvariance, PTL DEF RuntimeInv

(* No answer, progress, promised path or displayed route crosses from one    *)
(* task to another, whatever the MQTT thread queues between two steps.       *)
THEOREM NothingCrosses == RuntimeSpec => []NothingCrossesTasks
BY RuntimeInvariance, PTL DEF RuntimeInv

(* Every outcome is cleaned up behind in the cycle that reaches it, and no   *)
(* running task is taken for cleaned up.                                     *)
THEOREM OutcomesCleanedUp == RuntimeSpec => []OutcomeIsCleanedUp
BY RuntimeInvariance, PTL DEF RuntimeInv

(* A cancellation in the queue is the next event, however full the queue.    *)
THEOREM CancelFirst == RuntimeSpec => []CancelGoesFirst
BY RuntimeInvariance, PTL DEF RuntimeInv

-----------------------------------------------------------------------------
(* What the coordinator promises under any caller the node keeps too: its    *)
(* timer callback is one of the coordinator's steps at a time, with the      *)
(* feedback and the corridor that the node itself has kept.                  *)
LEMMA CoordinatorIsDriven ==
  ASSUME RuntimeInv, [RuntimeNext]_runtimeVars
  PROVE  \/ \E ev \in Events : HandleEvent(ev)
         \/ Update(feedback, Corridors)
         \/ Tick
         \/ UNCHANGED coordinatorVars
<1>1. ASSUME ProcessEvent PROVE \E ev \in Events : HandleEvent(ev)
  <2>1. queue \in Seq(Messages) /\ queue # <<>> /\ Messages \subseteq Events
    BY <1>1, RuntimeConfigAssumption
    DEF ProcessEvent, RuntimeInv, RuntimeTypeOK, RuntimeConfigAssumption
  <2>2. Head(queue) \in Events
    BY <2>1
  <2> QED
    BY <1>1, <2>2 DEF ProcessEvent
<1>2. ControlCycle => Update(feedback, Corridors)
  BY ReadsCorridors DEF ControlCycle
<1>3. TimerFires => Tick
  BY DEF TimerFires
<1>4. ASSUME \/ \E ev \in Messages : MqttMessage(ev)
             \/ EventsProcessed \/ Delivery \/ UNCHANGED runtimeVars
      PROVE  UNCHANGED coordinatorVars
  BY <1>4 DEF MqttMessage, EventsProcessed, Delivery, ScanReset, ScanPath,
              runtimeVars
<1> QED
  BY <1>1, <1>2, <1>3, <1>4 DEF RuntimeNext, TimerCallback

(* Session, state, route, clocks and action queue of the coordinator agree   *)
(* in the node as well.                                                      *)
THEOREM NodeKeepsCoordinator ==
  RuntimeSpec => [](/\ SessionMatchesState /\ RouteMatchesSession
                    /\ ContextMatchesState /\ PlannerQueueIsCurrent)
<1>1. RuntimeInv => /\ SessionMatchesState /\ RouteMatchesSession
                    /\ ContextMatchesState /\ PlannerQueueIsCurrent
  BY DEF RuntimeInv, CoordinatorInv
<1> QED
  BY <1>1, RuntimeInvariance, PTL

(* The node moves the robot only for a task that is active, not paused and   *)
(* holds its route.                                                          *)
THEOREM NodeMovesAuthorized == RuntimeSpec => MotionIsAuthorized
<1>1. ASSUME RuntimeInv, [RuntimeNext]_runtimeVars
      PROVE  [output'.cmd # "zero" /\ output' # output =>
                /\ session'.active /\ ~session'.paused
                /\ route'.sequence = session'.sequence
                /\ output'.state = state'
                /\ output'.action.type \notin {"CANCEL", "SET_ROUTE"}
             ]_coordinatorVars
  <2>1. CASE \E ev \in Events : HandleEvent(ev)
    BY <2>1 DEF HandleEvent
  <2>2. CASE Update(feedback, Corridors)
    BY <1>1, <2>2, MotionStep DEF RuntimeInv
  <2>3. CASE Tick
    BY <2>3 DEF Tick
  <2> QED
    BY <1>1, <2>1, <2>2, <2>3, CoordinatorIsDriven
<1> QED
  BY <1>1, RuntimeInvariance, PTL DEF RuntimeSpec, MotionIsAuthorized

(* The node, driven over MQTT and answering itself, implements the task      *)
(* lifecycle: tasks are locked until cancelled, a paused task cannot finish, *)
(* and an outcome is final.                                                  *)
THEOREM NodeImplementsLifecycle == RuntimeSpec => ImplementsLifecycle
<1>1. RuntimeInit => Lifecycle!Init
  BY DEF RuntimeInit, CoordinatorInit, TaskInit, NoSession, Lifecycle!Init,
         Phase, EffectiveState
<1>2. RuntimeInv /\ RuntimeInv' /\ [RuntimeNext]_runtimeVars
        => [Lifecycle!Next]_Lifecycle!vars
  <2> SUFFICES ASSUME RuntimeInv, RuntimeInv', [RuntimeNext]_runtimeVars
               PROVE  [Lifecycle!Next]_Lifecycle!vars
    OBVIOUS
  <2>1. CoordinatorInv /\ CoordinatorInv'
    BY DEF RuntimeInv
  <2>2. CASE Tick \/ UNCHANGED coordinatorVars
    BY <2>1, <2>2, LifecycleStep DEF CoordinatorNext
  <2> QED
    BY <2>1, <2>2, CoordinatorIsDriven, EventIsLifecycleStep,
       UpdateIsLifecycleStep
<1> QED
  BY <1>1, <1>2, RuntimeInvariance, PTL
  DEF RuntimeSpec, ImplementsLifecycle, Lifecycle!Spec

-----------------------------------------------------------------------------
(* The reference path of native SCAN.  A path that is due is on its way      *)
(* before its task can succeed: until then the task is still planned, or     *)
(* aligned, and a task ends with a success only from TRACKING.  The first    *)
(* cycle of a task has no answer of the planner, and the second no route     *)
(* progress to look at the corridor from.  A path never meets its reset,     *)
(* which has arrived before the timer fires again.                           *)
PathTiming ==
  /\ in_flight.reset => reset_age = 0
  /\ phase # "idle" => in_flight.path = 0
  /\ path_pending =>
       /\ reset_age \in 0..2
       /\ phase = "idle" => reset_age # 2
       /\ EffectiveState \in {"PLANNING", "START_ALIGN"}
       /\ reset_age = 0 \/ (reset_age = 1 /\ phase # "idle")
            => EffectiveState = "PLANNING" /\ progress_task = 0
       /\ reset_age = 0 /\ phase # "idle" => ~feedback.valid

PathInv == PathTiming /\ ScanPathIsCurrent

pathVars == <<phase, feedback, progress_task, handoffVars>>

LEMMA SamePath ==
  ASSUME PathInv, UNCHANGED pathVars, session'.sequence = session.sequence,
         EffectiveState' = EffectiveState
  PROVE  PathInv'
BY DEF PathInv, PathTiming, ScanPathIsCurrent, pathVars, handoffVars, Running

(* What one cycle makes of a task that has not been driven yet.              *)
LEMMA EarlyCycles ==
  ASSUME CoordinatorInv, Update(feedback, CorridorsRead)
  PROVE  /\ EffectiveState = "PLANNING" /\ ~feedback.valid
              => EffectiveState' \in {"PLANNING", "FAILED"}
         /\ EffectiveState = "PLANNING" /\ progress_task = 0
              => EffectiveState' \in {"PLANNING", "START_ALIGN", "FAILED"}
         /\ EffectiveState \in {"PLANNING", "START_ALIGN"}
              => EffectiveState'
                   \in {"PLANNING", "START_ALIGN", "TRACKING", "FAILED"}
         /\ EffectiveState' = "PLANNING" => ~output'.progress
<1>1. /\ state \in NavStates
      /\ state_before_pause \in NavStates \ {"PAUSED"}
  BY DEF CoordinatorInv, CoordinatorTypeOK
<1>2. CASE UpdateRequest \/ UpdateAwaitPlan(feedback) \/ UpdateIdle
  BY <1>1, <1>2
  DEF UpdateRequest, UpdateAwaitPlan, UpdateIdle, Stopped, Output,
      EffectiveState
<1>3. CASE UpdatePlanFailed(feedback)
  BY <1>1, <1>3
  DEF UpdatePlanFailed, EnterFailedState, Output, EffectiveState
<1>4. CASE UpdateStartAlign(feedback, CorridorsRead)
  <2>1. /\ state' \in {"START_ALIGN", "TRACKING", "FAILED"}
        /\ state = "START_ALIGN" \/ (state = "PLANNING" /\ feedback.valid)
    BY <1>4
    DEF UpdateStartAlign, AtStartAlign, PlanReady, FeedbackUsable, Aligns,
        AlignWaitRobot, AlignWaitCorridor, AlignSkip, AlignRotate, AlignFail,
        EnterFailedState
  <2>2. ASSUME progress_task = 0
        PROVE  state' \in {"START_ALIGN", "FAILED"}
    <3>1. CorridorsRead = {"WAITING", "INVALID"}
      BY <2>2 DEF CorridorsRead
    <3>2. "WAITING" \notin Usable /\ "INVALID" \notin Usable
          /\ "WAITING" \notin Blocked /\ "INVALID" \notin Blocked
      BY DEF Usable, Blocked, BlockedInRange
    <3> QED
      BY <1>4, <3>1, <3>2
      DEF UpdateStartAlign, Aligns, AlignWaitRobot, AlignWaitCorridor,
          AlignSkip, AlignRotate, AlignFail, EnterFailedState
  <2> QED
    BY <1>1, <2>1, <2>2 DEF EffectiveState
<1>5. CASE UpdateTracking(CorridorsRead)
  <2>1. state = "TRACKING"
    BY <1>5 DEF UpdateTracking
  <2>2. state' # "PLANNING" /\ state' # "PAUSED"
    <3>1. ASSUME NEW corridor, NEW obstacles, TrackMode(corridor, obstacles)
          PROVE  state' \in {"TRACKING", "SUCCEEDED"}
      BY <3>1
      DEF TrackMode, TrackNearGoalBlocked, TrackRoute, TrackAvoid, Tracks
    <3> QED
      BY <1>5, <2>1, <3>1
      DEF UpdateTracking, TrackWaitRobot, TrackFail, TrackWaitCorridor,
          EnterFailedState
  <2> QED
    BY <2>1, <2>2 DEF EffectiveState
<1> QED
  BY <1>2, <1>3, <1>4, <1>5 DEF Update

LEMMA TimerKeepsPath ==
  ASSUME RuntimeInv, PathInv, TimerFires, PathDelay = 1
  PROVE  PathInv'
<1>1. /\ session' = session /\ EffectiveState' = EffectiveState
      /\ in_flight' = in_flight /\ in_flight = Nothing
      /\ phase = "idle" /\ phase' = "events"
      /\ UNCHANGED <<path_pending, scan_path, feedback, progress_task>>
      /\ reset_age' = Aged(reset_age, PathDelay)
  BY DEF TimerFires, Tick, taskVars, EffectiveState, nodeVars
<1>2. ~in_flight.reset /\ in_flight.path = 0
  BY <1>1 DEF Nothing
<1>3. path_pending => reset_age \in {0, 1} /\ reset_age' = reset_age + 1
  BY <1>1 DEF PathInv, PathTiming, Aged, Off
<1>4. PathTiming'
  BY <1>1, <1>2, <1>3 DEF PathInv, PathTiming
<1>5. ScanPathIsCurrent'
  BY <1>1 DEF PathInv, ScanPathIsCurrent, Running
<1> QED
  BY <1>4, <1>5 DEF PathInv

LEMMA DeliveryKeepsPath ==
  ASSUME RuntimeInv, PathInv, Delivery
  PROVE  PathInv'
<1>1. /\ session' = session /\ EffectiveState' = EffectiveState
      /\ UNCHANGED <<phase, path_pending, reset_age, feedback, progress_task>>
  BY DEF Delivery, ScanReset, ScanPath, coordinatorVars, machine, taskVars,
         EffectiveState, nodeVars
<1>2. in_flight \in [reset : BOOLEAN, path : Nat]
  BY DEF RuntimeInv, RuntimeTypeOK
<1>3. CASE ScanReset
  <2>1. ~in_flight'.reset /\ in_flight'.path = in_flight.path /\ scan_path' = 0
    BY <1>2, <1>3 DEF ScanReset
  <2> QED
    BY <1>1, <2>1 DEF PathInv, PathTiming, ScanPathIsCurrent, Running
<1>4. CASE ScanPath
  <2>1. /\ in_flight'.reset = in_flight.reset /\ in_flight'.path = 0
        /\ in_flight.path # 0 /\ scan_path' = in_flight.path
    BY <1>2, <1>4 DEF ScanPath
  <2> QED
    BY <1>1, <2>1 DEF PathInv, PathTiming, ScanPathIsCurrent, Running
<1> QED
  BY <1>3, <1>4 DEF Delivery

LEMMA EventKeepsPath ==
  ASSUME RuntimeInv, RuntimeInv', PathInv, ProcessEvent
  PROVE  PathInv'
<1> DEFINE ev == Head(queue)
<1>1. /\ ev \in Events /\ HandleEvent(ev)
      /\ \/ OnStarted(ev) /\ AfterStarted
         \/ OnCancelled(ev) /\ AfterCancelled
         \/ /\ ~StartAccepted(ev)
            /\ ~(ev.type = "CANCEL_TASK" /\ session.active)
            /\ UNCHANGED <<feedback, progress_task, cleaned, path_pending,
                           reset_age, global_route, in_flight>>
      /\ phase = "events" /\ UNCHANGED <<phase, scan_path>>
  BY RuntimeConfigAssumption
  DEF RuntimeInv, RuntimeTypeOK, ProcessEvent, RuntimeConfigAssumption
<1> HIDE DEF ev
<1>2. CoordinatorInv /\ CoordinatorInv'
  BY DEF RuntimeInv
<1>3. in_flight \in [reset : BOOLEAN, path : Nat] /\ in_flight.path = 0
  BY <1>1 DEF RuntimeInv, RuntimeTypeOK, PathInv, PathTiming
<1>4. CASE OnStarted(ev) /\ AfterStarted
  <2>1. /\ ~session.active /\ session.sequence = 0
        /\ session'.sequence # 0 /\ ~session'.paused /\ session'.active
    BY <1>2, <1>4
    DEF OnStarted, StartTask, StartAccepted, CoordinatorInv,
        SessionMatchesState
  <2>2. EffectiveState' = "PLANNING"
    BY <1>2, <1>4, <2>1
    DEF OnStarted, StartTask, CanAcceptRoute, CoordinatorInv, NoRoute,
        CoordinatorTypeOK, TaskTypeOK, RouteMatchesSession,
        SessionMatchesState, EffectiveState
  <2>3. ~feedback'.valid
    BY <1>4, <2>1 DEF AfterStarted, RuntimeInv, NothingCrossesTasks, NodeAgrees
  <2>4. /\ in_flight' = [in_flight EXCEPT !.reset = TRUE]
        /\ reset_age' = 0 /\ progress_task' = 0 /\ path_pending'
    BY <1>4 DEF AfterStarted
  <2>5. in_flight'.reset /\ in_flight'.path = 0
    BY <1>3, <2>4
  <2> QED
    BY <1>1, <2>2, <2>3, <2>4, <2>5 DEF PathInv, PathTiming, ScanPathIsCurrent
<1>5. CASE OnCancelled(ev) /\ AfterCancelled
  <2>1. /\ in_flight' = [in_flight EXCEPT !.reset = TRUE]
        /\ reset_age' = 0 /\ path_pending' = FALSE
    BY <1>5 DEF AfterCancelled, ResetNativeScan
  <2>2. in_flight'.reset /\ in_flight'.path = 0
    BY <1>3, <2>1
  <2> QED
    BY <1>1, <2>1, <2>2 DEF PathInv, PathTiming, ScanPathIsCurrent
<1>6. CASE /\ ~StartAccepted(ev)
           /\ ~(ev.type = "CANCEL_TASK" /\ session.active)
           /\ UNCHANGED <<feedback, progress_task, cleaned, path_pending,
                          reset_age, global_route, in_flight>>
  BY <1>1, <1>2, <1>6, OtherEventsKeepTask
  DEF PathInv, PathTiming, ScanPathIsCurrent, Running
<1> QED
  BY <1>1, <1>4, <1>5, <1>6

LEMMA ControlKeepsPath ==
  ASSUME RuntimeInv, RuntimeInv', PathInv, ControlCycle, PathDelay = 1
  PROVE  PathInv'
<1>1. /\ phase = "cycle" /\ phase' = "idle" /\ scan_path' = scan_path
      /\ Update(feedback, CorridorsRead)
      /\ progress_task' = IF output'.progress THEN session'.sequence
                                              ELSE progress_task
  BY DEF ControlCycle
<1>2. CoordinatorInv /\ CoordinatorInv'
  BY DEF RuntimeInv
<1>3. /\ session' = session
      /\ Running' => Running
      /\ EndsTask <=> Running /\ ~Running'
  BY <1>1, CycleEnds
<1>4. in_flight \in [reset : BOOLEAN, path : Nat] /\ in_flight.path = 0
  BY <1>1 DEF RuntimeInv, RuntimeTypeOK, PathInv, PathTiming
<1>5. PICK due \in {PathDue, PathDue /\ reset_age > PathDelay} :
        LET path == IF due /\ PathSent THEN session'.sequence
                                       ELSE in_flight.path IN
        IF EndsTask
          THEN /\ in_flight' = [reset |-> TRUE, path |-> path]
               /\ path_pending' = FALSE
               /\ reset_age' = 0
          ELSE /\ in_flight' = [in_flight EXCEPT !.path = path]
               /\ path_pending' = (path_pending /\ ~due)
               /\ reset_age' = reset_age
  BY DEF ControlCycle
<1>6. due => path_pending /\ reset_age >= 1
  BY <1>5 DEF PathDue
<1>7. path_pending /\ reset_age = 2 => due
  <2>1. ASSUME path_pending, reset_age = 2
        PROVE  PathDue /\ reset_age > PathDelay
    BY <2>1 DEF PathDue
  <2> QED
    BY <1>5, <2>1
<1>8. path_pending =>
        /\ EffectiveState' \in {"PLANNING", "START_ALIGN", "TRACKING", "FAILED"}
        /\ reset_age = 0 => EffectiveState' \in {"PLANNING", "FAILED"}
        /\ reset_age = 1
             => EffectiveState' \in {"PLANNING", "START_ALIGN", "FAILED"}
        /\ reset_age \in 0..2
  <2>1. path_pending =>
          /\ reset_age \in 0..2
          /\ EffectiveState \in {"PLANNING", "START_ALIGN"}
          /\ reset_age \in {0, 1}
               => EffectiveState = "PLANNING" /\ progress_task = 0
          /\ reset_age = 0 => ~feedback.valid
    BY <1>1 DEF PathInv, PathTiming
  <2>2. /\ EffectiveState = "PLANNING" /\ ~feedback.valid
             => EffectiveState' \in {"PLANNING", "FAILED"}
        /\ EffectiveState = "PLANNING" /\ progress_task = 0
             => EffectiveState' \in {"PLANNING", "START_ALIGN", "FAILED"}
        /\ EffectiveState \in {"PLANNING", "START_ALIGN"}
             => EffectiveState'
                  \in {"PLANNING", "START_ALIGN", "TRACKING", "FAILED"}
    BY <1>1, <1>2, EarlyCycles
  <2> QED
    BY <2>1, <2>2
<1>9. PathSent => Running'
  <2>1. path_pending /\ route'.sequence # 0 => EffectiveState' # "FAILED"
    BY <1>2 DEF CoordinatorInv, RouteMatchesSession, NoRoute
  <2> QED
    BY <1>8, <2>1 DEF PathSent, PathDue, Running
<1>10. CASE EndsTask
  <2>1. ~(due /\ PathSent)
    BY <1>3, <1>9, <1>10
  <2>2. /\ in_flight' = [reset |-> TRUE, path |-> in_flight.path]
        /\ path_pending' = FALSE /\ reset_age' = 0
    BY <1>5, <1>10, <2>1
  <2>3. in_flight'.reset /\ in_flight'.path = 0
    BY <1>4, <2>2
  <2> QED
    BY <1>1, <2>2, <2>3 DEF PathInv, PathTiming, ScanPathIsCurrent
<1>11. CASE ~EndsTask
  <2> DEFINE path == IF due /\ PathSent THEN session'.sequence
                                        ELSE in_flight.path
  <2>1. /\ in_flight' = [in_flight EXCEPT !.path = path]
        /\ path_pending' = (path_pending /\ ~due)
        /\ reset_age' = reset_age
    BY <1>5, <1>11
  <2>2. in_flight'.reset = in_flight.reset /\ in_flight'.path = path
    BY <1>4, <2>1
  <2>3. path # 0 => due /\ PathSent /\ path = session'.sequence
    BY <1>4
  <2> HIDE DEF path
  <2>4. Running' <=> Running
    BY <1>3, <1>11
  <2>5. path # 0 => ~in_flight.reset
    BY <1>6, <2>3 DEF PathInv, PathTiming
  <2>6. path_pending' =>
          /\ path_pending /\ Running'
          /\ reset_age \in {0, 1}
    <3>1. path_pending' => path_pending /\ ~due
      BY <2>1
    <3>2. path_pending => Running
      BY DEF RuntimeInv, NothingCrossesTasks
    <3> QED
      BY <1>7, <1>8, <2>4, <3>1, <3>2
  <2>7. path_pending' =>
          /\ EffectiveState' \in {"PLANNING", "START_ALIGN"}
          /\ reset_age = 0 => EffectiveState' = "PLANNING"
    BY <1>8, <2>6 DEF Running
  <2>8. path_pending' /\ reset_age = 0 => progress_task' = 0
    <3>1. path_pending' /\ reset_age = 0 => ~output'.progress
      BY <1>1, <1>2, <2>7, EarlyCycles
    <3> QED
      BY <1>1, <2>6, <3>1 DEF PathInv, PathTiming
  <2>9. PathTiming'
    BY <1>1, <2>1, <2>2, <2>6, <2>7, <2>8 DEF PathInv, PathTiming
  <2>10. ScanPathIsCurrent'
    BY <1>1, <1>3, <1>9, <2>2, <2>3, <2>4, <2>5
    DEF PathInv, ScanPathIsCurrent
  <2> QED
    BY <2>9, <2>10 DEF PathInv
<1> QED
  BY <1>10, <1>11

LEMMA PathInitially == RuntimeInit => PathInv
BY DEF RuntimeInit, CoordinatorInit, PathInv, PathTiming, ScanPathIsCurrent,
       Nothing

LEMMA StepKeepsPath ==
  ASSUME RuntimeInv, RuntimeInv', PathInv, [RuntimeNext]_runtimeVars,
         PathDelay = 1
  PROVE  PathInv'
<1>1. CASE \/ \E ev \in Messages : MqttMessage(ev)
           \/ UNCHANGED runtimeVars
  BY <1>1, SamePath
  DEF MqttMessage, runtimeVars, coordinatorVars, machine, taskVars, nodeVars,
      pathVars, EffectiveState
<1>2. CASE EventsProcessed
  <2>1. /\ phase = "events" /\ phase' = "cycle"
        /\ UNCHANGED <<session, feedback, progress_task, handoffVars>>
        /\ EffectiveState' = EffectiveState
    BY <1>2
    DEF EventsProcessed, coordinatorVars, machine, taskVars, nodeVars,
        EffectiveState
  <2> QED
    BY <2>1
    DEF PathInv, PathTiming, ScanPathIsCurrent, handoffVars, Running
<1> QED
  BY <1>1, <1>2, TimerKeepsPath, EventKeepsPath, ControlKeepsPath,
     DeliveryKeepsPath
  DEF RuntimeNext, TimerCallback

(* Native SCAN never follows the path of a task that is over unless its      *)
(* reset is on the way, and no path overtakes a reset, for control periods   *)
(* of 20 ms and more: the default rate and slower ones.                      *)
THEOREM ScanFollowsLiveTask ==
  ASSUME PathDelay = 1
  PROVE  RuntimeSpec => []ScanPathIsCurrent
<1>1. RuntimeInit => PathInv
  BY PathInitially
<1>2. RuntimeInv /\ RuntimeInv' /\ PathInv /\ [RuntimeNext]_runtimeVars
        => PathInv'
  BY StepKeepsPath
<1>3. PathInv => ScanPathIsCurrent
  BY DEF PathInv
<1> QED
  BY <1>1, <1>2, <1>3, RuntimeInvariance, PTL DEF RuntimeSpec

=============================================================================
