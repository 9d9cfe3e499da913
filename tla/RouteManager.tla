---------------------------- MODULE RouteManager ----------------------------
(***************************************************************************)
(* RouteManager: the route of the task, and its progress.                  *)
(***************************************************************************)
EXTENDS RouteProgressTracker

CONSTANT Routes   (* the lists of points that a task may have                *)

ASSUME RoutesAssumption ==
  \A points \in Routes :
    /\ points \in Seq(Int \X Int)
    /\ \A i \in AllLegs(points) :
         points[i][1] = points[i + 1][1] \/ points[i][2] = points[i + 1][2]

VARIABLES
  task_view,      (* the route that is held, with the sequence of its task   *)
  tracker,        (* progress_tracker_                                       *)
  last_progress   (* last_progress_                                          *)

routeVars == <<task_view, tracker, last_progress>>

NoTask == [sequence |-> 0, points |-> <<>>]

RouteInit ==
  task_view = NoTask /\ tracker = TrackerReset /\ last_progress = NoProgress

HasRoute == task_view.sequence # 0 /\ task_view.points # <<>>

(* Only the route of a later task replaces one that is held.                 *)
CanAccept(sequence, points) ==
  /\ sequence # 0 /\ points # <<>>
  /\ HasRoute => sequence > task_view.sequence

AcceptRoute(sequence, points) ==
  /\ CanAccept(sequence, points)
  /\ task_view' = [sequence |-> sequence, points |-> points]
  /\ tracker' = TrackerReset
  /\ last_progress' = NoProgress

ResetRoute ==
  task_view' = NoTask /\ tracker' = TrackerReset /\ last_progress' = NoProgress

(* updateProgress: what the tracker says, never behind what was said last,   *)
(* and with the remaining distance computed anew.                            *)
Larger(a, b) == IF a > b THEN a ELSE b

Advanced(progress) ==
  IF ~progress.valid THEN progress
  ELSE LET arc == Larger(IF last_progress.valid THEN last_progress.arc ELSE 0,
                         progress.arc)
       IN  [progress EXCEPT !.arc = arc,
                            !.remaining = Larger(0, progress.total - arc)]

UpdatedProgress(robot) ==
  IF HasRoute THEN Advanced(TrackerUpdate(tracker, task_view, robot).progress)
              ELSE NoProgress

UpdateProgress(robot) ==
  /\ tracker' = IF HasRoute
                  THEN TrackerUpdate(tracker, task_view, robot).tracker
                  ELSE tracker
  /\ last_progress' = IF UpdatedProgress(robot).valid
                        THEN UpdatedProgress(robot) ELSE last_progress
  /\ UNCHANGED task_view

-----------------------------------------------------------------------------
(* pointAtArcLength, and the same walk in RouteFollower and the corridor     *)
(* evaluator: over all the legs, also those the tracker leaves out.          *)
WalkStart(points, i) == Travelled(points, AllLegs(points))[i - 1]

PointAtArcLength(points, arc) ==
  LET onto == {i \in AllLegs(points) :
                 /\ LegLength(points, i) > 0
                 /\ arc <= WalkStart(points, i) + LegLength(points, i)}
      i    == Min(onto)
  IN  IF onto = {} THEN points[Len(points)]
      ELSE Towards(points[i], points[i + 1],
                   Larger(0, arc) - WalkStart(points, i))

=============================================================================
