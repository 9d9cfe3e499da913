--------------------------- MODULE RouteCorridor ---------------------------
(***************************************************************************)
(* Is the route ahead free?  In every cycle of the runtime the evaluator   *)
(* looks at the occupancy grid along the route, from the progress of the   *)
(* cycle before; the coordinator then updates the progress, and the gate   *)
(* decides whether the observation may be used with it.                    *)
(*                                                                         *)
(* The grid is a set of cells, sampled at every cell of the middle of the  *)
(* route; the width of the corridor is left out.                           *)
(***************************************************************************)
EXTENDS RouteManager

CONSTANTS
  Cells,        (* the cells of the map                                      *)
  Outside,      (* cells beside the map where the robot and routes may be    *)
  Obstacles,    (* the sets of cells that may be occupied                    *)
  Lookahead,    (* RouteCorridorConfig::lookahead_distance_m                 *)
  MaxLag,       (* max_progress_lag_m                                        *)
  MaxSequence   (* bound: the number of tasks                                *)

ASSUME CorridorConfigAssumption ==
  Lookahead \in Nat \ {0} /\ MaxLag \in Nat /\ MaxSequence \in Nat

(* Every cell of a route is one of these.                                    *)
ASSUME MapAssumption ==
  /\ Cells \subseteq Int \X Int /\ Outside \subseteq Int \X Int
  /\ \A points \in Routes :
       /\ \A i \in DOMAIN points : points[i] \in Cells \cup Outside
       /\ \A i \in AllLegs(points) : \A n \in 0 .. LegLength(points, i) :
            Towards(points[i], points[i + 1], n) \in Cells \cup Outside

VARIABLES
  last_route_progress, (* the progress of the cycle before                   *)
  occupied,            (* the cells that were occupied in the last cycle     *)
  robot,               (* where the robot was then                           *)
  corridor             (* what the gate made of the observation              *)

corridorVars ==
  <<routeVars, last_route_progress, occupied, robot, corridor>>

Maps == {"NOT_READY", "FRESH", "STALE", "FUTURE"}

-----------------------------------------------------------------------------
(* ScanRouteCorridorEvaluator3D::evaluate.                                   *)
NoAssessment == [valid |-> FALSE]

(* The walk along each route, step by step.                                  *)
Walk ==
  [points \in Routes |->
     [arc \in 0 .. LengthOf(points, AllLegs(points)) |->
        PointAtArcLength(points, arc)]]

(* What is ahead of the progress at the distance given: the route, or the    *)
(* straight line to a goal that is the only point.                           *)
CellAhead(task, progress, position, distance) ==
  LET points == task.points
      from   == WalkStart(points, progress.leg)
                + Length(points[progress.leg], progress.at)
  IN  IF Len(points) = 1 THEN Towards(position, points[1], distance)
      ELSE Walk[points][from + distance]

Smaller(a, b) == IF a < b THEN a ELSE b

(* The distances at which the grid is sampled.                               *)
Checked(task, progress, position) ==
  LET length == Smaller(Lookahead, progress.remaining)
      goal   == task.points[1]
  IN  IF length <= 0 THEN {}
      ELSE IF Len(task.points) > 1 THEN 0 .. length
      ELSE IF position = goal THEN {}
      ELSE 0 .. Smaller(length, Length(position, goal))

(* The first sample that is not free decides.                                *)
Evaluate(task, progress, position, cells) ==
  LET at(d)   == CellAhead(task, progress, position, d)
      checked == Checked(task, progress, position)
      hits    == {d \in checked : at(d) \in cells \/ at(d) \in Outside}
      hit     == Min(hits)
      free    == [valid |-> TRUE, sequence |-> task.sequence,
                  from |-> progress.arc,
                  checked |-> IF checked = {} THEN 0 ELSE Max(checked),
                  blocked |-> FALSE, out_of_map |-> FALSE]
  IN  IF ~progress.valid \/ progress.sequence # task.sequence
        THEN NoAssessment
      ELSE IF hits = {} THEN free
      ELSE IF at(hit) \in cells
        THEN [free EXCEPT !.checked = hit, !.blocked = TRUE]
        ELSE [free EXCEPT !.checked = hit, !.out_of_map = TRUE]

(* RouteCorridorObservationGate::evaluate.                                   *)
(* Variant: the observation may be older by any distance.                    *)
GateResultLagging(progress, seen, map) ==
  IF ~progress.valid THEN "INVALID_PROGRESS"
  ELSE IF ~seen.valid THEN "WAITING_FOR_OBSERVATION"
  ELSE IF seen.sequence # progress.sequence THEN "TASK_MISMATCH"
  ELSE IF map # "FRESH" THEN "STALE_MAP"
  ELSE IF seen.out_of_map THEN "OUT_OF_MAP"
  ELSE IF seen.blocked THEN "BLOCKED" ELSE "CLEAR"

GateResult(progress, seen, map) ==
  IF ~progress.valid THEN "INVALID_PROGRESS"
  ELSE IF ~seen.valid THEN "WAITING_FOR_OBSERVATION"
  ELSE IF seen.sequence # progress.sequence THEN "TASK_MISMATCH"
  ELSE IF map = "FUTURE" THEN "FUTURE_MAP"
  ELSE IF map = "STALE" THEN "STALE_MAP"
  ELSE IF progress.arc < seen.from THEN "FUTURE_PROGRESS"
  ELSE IF progress.arc - seen.from > MaxLag THEN "STALE_PROGRESS"
  ELSE IF seen.out_of_map THEN "OUT_OF_MAP"
  ELSE IF seen.blocked THEN "BLOCKED" ELSE "CLEAR"

-----------------------------------------------------------------------------
CorridorInit ==
  /\ RouteInit
  /\ last_route_progress = NoProgress
  /\ occupied = {} /\ robot = NoRobot /\ corridor = "NONE"

NothingSeen ==
  occupied' = {} /\ robot' = NoRobot /\ corridor' = "NONE"

(* A task starts: the runtime forgets the progress of the one before.        *)
TaskAccepted ==
  /\ \E sequence \in 1..MaxSequence, points \in Routes :
       AcceptRoute(sequence, points)
  /\ last_route_progress' = NoProgress
  /\ NothingSeen

(* A task ends.  Only a cancellation makes the runtime forget the progress.  *)
TaskOver ==
  /\ ResetRoute
  /\ last_route_progress' \in {last_route_progress, NoProgress}
  /\ NothingSeen

(* A route of one point only is approached along an axis: bound.             *)
Positions ==
  {p \in Cells \cup Outside :
     Legs(task_view.points) = {} =>
       LET goal == task_view.points[Len(task_view.points)]
       IN  p[1] = goal[1] \/ p[2] = goal[2]}

(* A control cycle in START_ALIGN or TRACKING.                               *)
Observed(position, cells, map) ==
  IF last_route_progress.valid /\ position # NoRobot /\ map # "NOT_READY"
    THEN Evaluate(task_view, last_route_progress, position, cells)
    ELSE NoAssessment

Cycle(position, cells, map) ==
  /\ HasRoute
  /\ robot' = position /\ occupied' = cells
  /\ UpdateProgress(position)
  /\ corridor' = GateResult(UpdatedProgress(position),
                            Observed(position, cells, map), map)
  /\ last_route_progress' = IF UpdatedProgress(position).valid
                              THEN UpdatedProgress(position)
                              ELSE last_route_progress

CorridorNext ==
  \/ TaskAccepted
  \/ TaskOver
  \/ HasRoute /\ \E position \in Positions \cup {NoRobot}, cells \in Obstacles,
                    map \in Maps : Cycle(position, cells, map)

CorridorSpec == CorridorInit /\ [][CorridorNext]_corridorVars

-----------------------------------------------------------------------------
Arcs == {0} \cup UNION {0 .. LengthOf(points, Legs(points)) : points \in Routes}

ProgressType ==
  [valid : {TRUE}, sequence : 1..MaxSequence, leg : Nat, arc : Arcs,
   total : Arcs, remaining : Arcs, at : Cells \cup Outside] \cup {NoProgress}

CorridorTypeOK ==
  /\ task_view \in [sequence : 1..MaxSequence, points : Routes] \cup {NoTask}
  /\ tracker.sequence \in {0, task_view.sequence}
  /\ tracker.arc \in Arcs
  /\ last_progress \in ProgressType /\ last_route_progress \in ProgressType
  /\ occupied \in Obstacles \cup {{}}
  /\ robot \in Cells \cup Outside \cup {NoRobot}

(* The three walks along the route agree: the point that the follower and    *)
(* the evaluator find at the arc length that the tracker reports is the      *)
(* point onto which the tracker projected the robot, and it lies on the leg  *)
(* reported.  At a crossing, one arc length with another's point would send  *)
(* the robot to the wrong branch.                                            *)
ProgressStaysOnRoute ==
  last_progress.valid /\ Legs(task_view.points) # {} =>
    LET leg == tracker.segments[last_progress.leg] IN
      /\ last_progress.at = Walk[task_view.points][last_progress.arc]
      /\ last_progress.arc \in leg.start .. leg.start + leg.length

(* Every point ahead on a leg that starts within the forward search: what    *)
(* the next progress is chosen from, without a word of legs or projections.  *)
ArcsAhead ==
  IF ~last_progress.valid THEN DOMAIN Walk[task_view.points]
  ELSE {arc \in DOMAIN Walk[task_view.points] :
          /\ arc >= last_progress.arc
          /\ \E i \in DOMAIN tracker.segments :
               /\ tracker.segments[i].start
                    <= last_progress.arc + MaxForwardSearch
               /\ arc <= tracker.segments[i].start + tracker.segments[i].length}

NearestAhead(position) ==
  LET distance == [arc \in ArcsAhead |->
                     DistanceSq(Walk[task_view.points][arc], position)]
  IN  CHOOSE arc \in ArcsAhead :
        \A other \in ArcsAhead :
          \/ distance[arc] < distance[other]
          \/ distance[arc] = distance[other] /\ arc <= other

(* Progress is the nearest point of the route ahead, the earliest of several,*)
(* so it never falls back in a task, whatever the robot does: the search by  *)
(* legs finds what a search of all the points finds.                         *)
ProgressIsNearestAhead ==
  [][robot' # NoRobot /\ Legs(task_view.points) # {} =>
       last_progress'.arc = NearestAhead(robot')]_corridorVars

(* The route is driven on a CLEAR: then nothing stands on it between where   *)
(* the robot is now and the end of what was looked at one cycle before, and  *)
(* that end is at most MaxLag short of the lookahead distance.               *)
ClearMeansClear ==
  corridor = "CLEAR" /\ Legs(task_view.points) # {} =>
    LET now == last_progress.arc
        end == Smaller(now + Lookahead - MaxLag, last_progress.total)
    IN  now < end =>
          \A arc \in now .. end : Walk[task_view.points][arc] \notin occupied

(* navdog_core README, line 93: the corridor of a route of a single point is *)
(* checked.  On a CLEAR nothing stands between the robot and its goal within *)
(* the lookahead distance.                                                   *)
SinglePointRouteIsChecked ==
  corridor = "CLEAR" /\ Len(task_view.points) = 1 =>
    LET goal == task_view.points[1] IN
      \A d \in 1 .. Smaller(Lookahead, Length(robot, goal)) :
        Towards(robot, goal, d) \notin occupied

=============================================================================
