--------------------------- MODULE NavdogRuntime ---------------------------
(***************************************************************************)
(* navdog_runtime: the node around the coordinator.  MqttBridge receives   *)
(* events on the thread of the MQTT client; the control timer takes them   *)
(* from its queue, runs one cycle of the coordinator, answers its planner  *)
(* action for the next cycle, and keeps the native SCAN planner supplied   *)
(* with the reference path of the task: a reset when a task starts or      *)
(* ends, the path a little later, on topics of their own.                  *)
(*                                                                         *)
(* Time: one tick is one control period; the timers advance when the       *)
(* control timer fires.                                                    *)
(***************************************************************************)
EXTENDS NavigationCoordinator

CONSTANTS
  Messages,     (* the events the MQTT side may send                         *)
  MaxQueue,     (* mqtt.max_queue_size                                       *)
  MaxMessages,  (* bound: how many messages are sent                         *)
  PathDelay     (* native_scan_reset_time_ to path: 0.02 s, in ticks         *)

ASSUME RuntimeConfigAssumption ==
  /\ Messages \subseteq Events
  /\ MaxQueue \in Nat \ {0}
  /\ MaxMessages \in Nat
  /\ PathDelay \in Nat \ {0}

VARIABLES
  queue,          (* MqttBridge.events_                                      *)
  sent,           (* how many messages were sent                             *)
  overflowed,     (* the queue has dropped an event                          *)
  phase,          (* of the timer callback: idle, events, cycle              *)
  feedback,       (* pending_planner_feedback_                               *)
  progress_task,  (* the task of last_route_progress_, 0 if not valid        *)
  cleaned,        (* terminal_cleanup_sequence_                              *)
  last_state,     (* last_output_state_, NONE before the first cycle         *)
  path_pending,   (* pending_native_scan_path_                               *)
  reset_age,      (* since native_scan_reset_time_                           *)
  global_route,   (* the task whose route /navdog/global_route shows         *)
  in_flight,      (* to native SCAN: a reset, and the path of a task         *)
  scan_path       (* the task whose path native SCAN follows, 0 if none      *)

mqttVars    == <<queue, sent, overflowed>>
handoffVars == <<path_pending, reset_age, global_route, in_flight, scan_path>>
nodeVars    == <<feedback, progress_task, cleaned, last_state>>
runtimeVars == <<coordinatorVars, mqttVars, phase, nodeVars, handoffVars>>

Nothing == [reset |-> FALSE, path |-> 0]

RuntimeInit ==
  /\ CoordinatorInit
  /\ queue = <<>> /\ sent = 0 /\ overflowed = FALSE
  /\ phase = "idle"
  /\ feedback = NoFeedback
  /\ progress_task = 0
  /\ cleaned = 0
  /\ last_state = "NONE"
  /\ path_pending = FALSE
  /\ reset_age = Off
  /\ global_route = 0
  /\ in_flight = Nothing
  /\ scan_path = 0

-----------------------------------------------------------------------------
(* The MQTT thread.                                                          *)

(* Variants: a cancellation waits its turn; nothing is dropped; every message *)
(* supersedes.                                                               *)
KeptForAll(ev)      == IF Len(queue) >= MaxQueue THEN Tail(queue) ELSE queue
KeptForGrowing(ev)  == IF ev.type = "CANCEL_TASK" THEN <<>> ELSE queue
KeptForLatest(ev)   == <<>>

(* A CANCEL_TASK supersedes what still waits; a full queue drops its oldest. *)
KeptFor(ev) ==
  IF ev.type = "CANCEL_TASK" THEN <<>>
  ELSE IF Len(queue) >= MaxQueue THEN Tail(queue) ELSE queue

MqttMessage(ev) ==
  /\ sent < MaxMessages
  /\ sent' = sent + 1
  /\ queue' = Append(KeptFor(ev), ev)
  /\ overflowed' = (overflowed \/ (ev.type # "CANCEL_TASK"
                                   /\ Len(queue) >= MaxQueue))
  /\ UNCHANGED <<coordinatorVars, phase, nodeVars, handoffVars>>

-----------------------------------------------------------------------------
(* The control timer.                                                        *)

(* What is in flight arrives within a control period.                        *)
TimerFires ==
  /\ phase = "idle"
  /\ in_flight = Nothing
  /\ phase' = "events"
  /\ Tick
  /\ reset_age' = Aged(reset_age, PathDelay)
  /\ UNCHANGED <<mqttVars, nodeVars, path_pending, global_route, in_flight,
                 scan_path>>

(* resetNativeScan                                                           *)
ResetNativeScan ==
  /\ in_flight' = [in_flight EXCEPT !.reset = TRUE]
  /\ path_pending' = FALSE
  /\ reset_age' = 0

(* Variant: the reset comes last, and takes the promise of a path with it.   *)
AfterStartedResetLast ==
  /\ cleaned' = 0
  /\ progress_task' = 0
  /\ global_route' = route'.sequence
  /\ ResetNativeScan
  /\ UNCHANGED feedback

AfterStarted ==
  /\ cleaned' = 0
  /\ in_flight' = [in_flight EXCEPT !.reset = TRUE]
  /\ reset_age' = 0
  /\ progress_task' = 0
  /\ global_route' = route'.sequence
  /\ path_pending' = TRUE
  /\ UNCHANGED feedback

(* Variant: the answer to the cancelled task is kept.                        *)
AfterCancelledKeepingFeedback ==
  /\ ResetNativeScan
  /\ progress_task' = 0
  /\ global_route' = 0
  /\ UNCHANGED <<cleaned, feedback>>

AfterCancelled ==
  /\ ResetNativeScan
  /\ progress_task' = 0
  /\ feedback' = NoFeedback
  /\ global_route' = 0
  /\ UNCHANGED cleaned

(* One round of processEvents.                                               *)
ProcessEvent ==
  /\ phase = "events" /\ queue # <<>>
  /\ queue' = Tail(queue)
  /\ LET ev == Head(queue) IN
       /\ HandleEvent(ev)
       /\ \/ OnStarted(ev) /\ AfterStarted
          \/ OnCancelled(ev) /\ AfterCancelled
          \/ /\ ~StartAccepted(ev)
             /\ ~(ev.type = "CANCEL_TASK" /\ session.active)
             /\ UNCHANGED <<feedback, progress_task, cleaned, path_pending,
                            reset_age, global_route, in_flight>>
  /\ UNCHANGED <<sent, overflowed, phase, last_state, scan_path>>

EventsProcessed ==
  /\ phase = "events" /\ queue = <<>>
  /\ phase' = "cycle"
  /\ UNCHANGED <<coordinatorVars, mqttVars, nodeVars, handoffVars>>

(* The corridor is evaluated from the progress of the cycle before.          *)
CorridorsRead ==
  IF route.sequence # 0 /\ progress_task # 0 THEN Corridors
                                             ELSE {"WAITING", "INVALID"}

(* Variant: the path follows the reset at once.                              *)
PathDueAtOnce == path_pending

(* scheduleNativeScanReferencePath: whether exactly PathDelay periods are    *)
(* 0.02 s is a matter of jitter.                                             *)
PathDue ==
  /\ path_pending
  /\ reset_age >= PathDelay
PathSent == PathDue /\ route'.sequence # 0 /\ route'.points = "line"

(* feedbackForAction: the runtime answers at once.                           *)
Answer(action) ==
  CASE action.type = "SET_ROUTE" /\ action.sequence # 0 ->
         Feedback(action.sequence, TRUE, "READY")
    [] OTHER -> NoFeedback

(* Variant: a failure is not cleaned up behind.                              *)
EndsTaskBySuccess ==
  /\ output'.state = "SUCCEEDED"
  /\ last_state # output'.state
  /\ cleaned # session'.sequence

(* handleTerminalTransition                                                  *)
EndsTask ==
  /\ output'.state \in {"SUCCEEDED", "FAILED"}
  /\ last_state # output'.state
  /\ session'.sequence # 0
  /\ cleaned # session'.sequence

ControlCycle ==
  /\ phase = "cycle"
  /\ phase' = "idle"
  /\ Update(feedback, CorridorsRead)
  /\ progress_task' = IF output'.progress THEN session'.sequence
                                          ELSE progress_task
  /\ last_state' = output'.state
  /\ \E due \in {PathDue, PathDue /\ reset_age > PathDelay} :
       LET path == IF due /\ PathSent THEN session'.sequence
                                      ELSE in_flight.path IN
       IF EndsTask
         THEN /\ cleaned' = session'.sequence
              /\ in_flight' = [reset |-> TRUE, path |-> path]
              /\ path_pending' = FALSE
              /\ reset_age' = 0
              /\ feedback' = NoFeedback
              /\ global_route' = 0
         ELSE /\ in_flight' = [in_flight EXCEPT !.path = path]
              /\ path_pending' = (path_pending /\ ~due)
              /\ feedback' = Answer(output'.action)
              /\ UNCHANGED <<cleaned, reset_age, global_route>>
  /\ UNCHANGED <<mqttVars, scan_path>>

-----------------------------------------------------------------------------
(* Native SCAN: each topic arrives on its own.                               *)
ScanReset ==
  /\ in_flight.reset
  /\ in_flight' = [in_flight EXCEPT !.reset = FALSE]
  /\ scan_path' = 0
  /\ UNCHANGED <<coordinatorVars, mqttVars, phase, nodeVars, path_pending,
                 reset_age, global_route>>

ScanPath ==
  /\ in_flight.path # 0
  /\ in_flight' = [in_flight EXCEPT !.path = 0]
  /\ scan_path' = in_flight.path
  /\ UNCHANGED <<coordinatorVars, mqttVars, phase, nodeVars, path_pending,
                 reset_age, global_route>>

-----------------------------------------------------------------------------
TimerCallback == TimerFires \/ ProcessEvent \/ EventsProcessed \/ ControlCycle
Delivery == ScanReset \/ ScanPath

RuntimeNext ==
  \/ \E ev \in Messages : MqttMessage(ev)
  \/ TimerCallback
  \/ Delivery

RuntimeSpec == RuntimeInit /\ [][RuntimeNext]_runtimeVars

(* The control timer fires for ever and the topics deliver.                  *)
RuntimeFairness == WF_runtimeVars(TimerCallback) /\ WF_runtimeVars(Delivery)

-----------------------------------------------------------------------------
RuntimeTypeOK ==
  /\ CoordinatorTypeOK
  /\ queue \in Seq(Messages) /\ Len(queue) <= MaxQueue
  /\ sent \in 0..MaxMessages
  /\ overflowed \in BOOLEAN
  /\ phase \in {"idle", "events", "cycle"}
  /\ feedback \in [valid : BOOLEAN, sequence : Nat, timely : BOOLEAN,
                   state : PlannerStates]
  /\ progress_task \in Nat
  /\ cleaned \in Nat
  /\ last_state \in NavStates \cup {"NONE"}
  /\ path_pending \in BOOLEAN
  /\ reset_age \in Nat \cup {Off}
  /\ global_route \in Nat
  /\ in_flight \in [reset : BOOLEAN, path : Nat]
  /\ scan_path \in Nat

Running == EffectiveState \in {"PLANNING", "START_ALIGN", "TRACKING"}

(* Whatever the node keeps from one cycle for the next is the live task's:   *)
(* the planner's answer, the route progress the corridor is evaluated from,  *)
(* the promise of a path, the route on display.                              *)
NothingCrossesTasks ==
  /\ feedback.valid => feedback.sequence = session.sequence
  /\ progress_task # 0 => progress_task = session.sequence
  /\ path_pending => Running
  /\ global_route = IF Running THEN session.sequence ELSE 0

(* A task that ended has been cleaned up behind, in the cycle that ended it, *)
(* and no task is taken for cleaned up before it ends, however often it is   *)
(* paused and resumed.                                                       *)
OutcomeIsCleanedUp ==
  /\ EffectiveState \in {"SUCCEEDED", "FAILED"} => cleaned = session.sequence
  /\ Running => cleaned # session.sequence

(* Native SCAN never follows the path of a task that is over, unless the     *)
(* reset is on its way, and a path is never overtaken by its own reset.      *)
ScanPathIsCurrent ==
  /\ scan_path # 0 => (Running /\ scan_path = session.sequence)
                        \/ in_flight.reset
  /\ in_flight.path # 0 => ~in_flight.reset /\ Running
                             /\ in_flight.path = session.sequence

(* A cancellation is always the next event to be handled.                    *)
CancelGoesFirst ==
  \A i \in DOMAIN queue : queue[i].type = "CANCEL_TASK" => i = 1

(* A cancellation that was received ends the task held then, unless the      *)
(* queue overflowed.                                                         *)
CancelTakesEffect ==
  \A n \in 1..MaxSequence :
    (session.sequence = n /\ \E i \in DOMAIN queue : queue[i].type = "CANCEL_TASK")
      ~> (session.sequence # n \/ overflowed)

(* The path of every task with a line to follow reaches native SCAN while    *)
(* the task runs.                                                            *)
PathReachesScan ==
  \A n \in 1..MaxSequence :
    (Running /\ session.sequence = n /\ route.points = "line")
      ~> (scan_path = n \/ ~Running \/ session.sequence # n)

(* The runtime answers every route request at once, so planning succeeds.    *)
AnsweredPlanSucceeds ==
  [][state = "PLANNING" => state' # "FAILED"]_runtimeVars

=============================================================================
