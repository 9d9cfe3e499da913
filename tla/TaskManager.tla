---------------------------- MODULE TaskManager ----------------------------
(***************************************************************************)
(* navdog_task::TaskManager: the session of the one navigation task the    *)
(* robot may hold, and the rules by which events change it.                *)
(*                                                                         *)
(* The session is a lock.  START_TASK is refused while it is held,         *)
(* CANCEL_TASK is the only event that releases it, and a task keeps it     *)
(* after it has succeeded or failed.  Each operation is an action; the     *)
(* coordinator conjoins its own half of the handling to it.                *)
(***************************************************************************)
EXTENDS Integers

CONSTANTS
  MinMaxVx,   (* TaskConfig.min_max_vx, in an integer unit of speed          *)
  MaxMaxVx,   (* TaskConfig.max_max_vx                                       *)
  Speeds,     (* the speeds a sender may ask for; non-positive ones stand    *)
              (* for every value the code refuses, non-finite ones included  *)
  TaskModes,  (* the task modes a sender may ask for                         *)
  MaxSequence (* bound: no task beyond this number is started                *)

AllTaskModes == {"NORMAL_AVOID", "ROUTE_ONLY", "CHARGING"}

ASSUME TaskConfigAssumption ==
  /\ MinMaxVx \in Nat \ {0}
  /\ MaxMaxVx \in Nat \ {0}
  /\ Speeds \subseteq Int
  /\ TaskModes \subseteq AllTaskModes
  /\ MaxSequence \in Nat

VARIABLES
  session,      (* TaskSession: sequence, mode, max_vx, active, paused       *)
  next_sequence (* the number the next accepted task gets                    *)

taskVars == <<session, next_sequence>>

(* What a point list is to the code: empty, holding a coordinate that is not *)
(* finite, a single point, or a proper line.                                 *)
PointLists == {"empty", "nonFinite", "single", "line"}

NoSession == [sequence |-> 0, mode |-> "NORMAL_AVOID", max_vx |-> 0,
              active |-> FALSE, paused |-> FALSE]

Tasks  == [mode : TaskModes, max_vx : Speeds, points : PointLists]
Events == [type : {"START_TASK"}, task : Tasks]
            \cup [type : {"CANCEL_TASK", "PAUSE", "RESUME"}]
            \cup [type : {"UPDATE_MAX_VX"}, max_vx : Speeds]

IsTaskValid(task) ==
  /\ task.mode \in AllTaskModes
  /\ task.points \notin {"empty", "nonFinite"}
  /\ task.max_vx > 0

(* The two limits are sorted before they are applied, so a swapped           *)
(* configuration still clamps.                                               *)
LowLimit  == IF MinMaxVx <= MaxMaxVx THEN MinMaxVx ELSE MaxMaxVx
HighLimit == IF MinMaxVx <= MaxMaxVx THEN MaxMaxVx ELSE MinMaxVx

ClampMaxVx(v) ==
  IF v < LowLimit THEN LowLimit ELSE IF v > HighLimit THEN HighLimit ELSE v

TaskInit ==
  /\ session = NoSession
  /\ next_sequence = 1

-----------------------------------------------------------------------------
(* Variant: a busy session does not refuse a new task.                       *)
StartAcceptedBusy(ev) == ev.type = "START_TASK" /\ IsTaskValid(ev.task)

(* STARTED: the number comes from the internal counter, never from the       *)
(* sender.                                                                   *)
StartAccepted(ev) ==
  /\ ev.type = "START_TASK"
  /\ ~session.active
  /\ IsTaskValid(ev.task)

StartTask(ev) ==
  /\ StartAccepted(ev)
  /\ next_sequence <= MaxSequence
  /\ session' = [sequence |-> next_sequence, mode |-> ev.task.mode,
                 max_vx |-> ClampMaxVx(ev.task.max_vx),
                 active |-> TRUE, paused |-> FALSE]
  /\ next_sequence' = next_sequence + 1

(* CANCELLED *)
CancelTask(ev) ==
  /\ ev.type = "CANCEL_TASK"
  /\ session.active
  /\ session' = NoSession
  /\ UNCHANGED next_sequence

(* Variant: a pause needs no task.                                           *)
PauseAnything(ev) ==
  /\ ev.type = "PAUSE"
  /\ session' = [session EXCEPT !.paused = TRUE]
  /\ UNCHANGED next_sequence

(* PAUSED and RESUMED: an active task is paused or resumed whether it was    *)
(* paused before or not.                                                     *)
PauseTask(ev) ==
  /\ ev.type = "PAUSE"
  /\ session.active
  /\ session' = [session EXCEPT !.paused = TRUE]
  /\ UNCHANGED next_sequence

ResumeTask(ev) ==
  /\ ev.type = "RESUME"
  /\ session.active
  /\ session' = [session EXCEPT !.paused = FALSE]
  /\ UNCHANGED next_sequence

(* MAX_VX_UPDATED *)
SpeedAccepted(ev) ==
  /\ ev.type = "UPDATE_MAX_VX"
  /\ session.active
  /\ ev.max_vx > 0
  /\ ClampMaxVx(ev.max_vx) # session.max_vx

UpdateMaxVx(ev) ==
  /\ SpeedAccepted(ev)
  /\ session' = [session EXCEPT !.max_vx = ClampMaxVx(ev.max_vx)]
  /\ UNCHANGED next_sequence

(* Every other result: REJECTED_BUSY, REJECTED_INVALID_TASK, CANCEL_IGNORED, *)
(* PAUSE_RESUME_IGNORED, MAX_VX_UNCHANGED, MAX_VX_UPDATE_IGNORED and         *)
(* REJECTED_INVALID_MAX_VX.                                                  *)
RefuseEvent(ev) ==
  /\ ~StartAccepted(ev)
  /\ ~SpeedAccepted(ev)
  /\ ev.type \in {"CANCEL_TASK", "PAUSE", "RESUME"} => ~session.active
  /\ UNCHANGED taskVars

TaskTypeOK ==
  /\ session \in [sequence : Nat, mode : AllTaskModes, max_vx : Nat,
                  active : BOOLEAN, paused : BOOLEAN]
  /\ next_sequence \in Nat \ {0}

=============================================================================
