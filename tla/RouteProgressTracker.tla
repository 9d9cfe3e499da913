------------------------ MODULE RouteProgressTracker ------------------------
(***************************************************************************)
(* RouteProgressTracker: how far along its route the robot is.  The route  *)
(* is a list of points; the tracker projects the robot onto the legs       *)
(* between them, the first time onto the whole route and then onto the     *)
(* part that lies ahead of where the robot was, so that at crossings and   *)
(* in loops the progress neither falls back nor runs away.                 *)
(*                                                                         *)
(* Lengths are whole numbers: points are cells <<x, y>> and every leg is   *)
(* parallel to an axis, so that projections fall on cells and no rounding  *)
(* takes place.                                                            *)
(***************************************************************************)
EXTENDS Integers, Sequences, FiniteSetsExt

CONSTANTS
  MinSegment,       (* min_segment_length: shorter legs are left out         *)
  MaxForwardSearch  (* max_forward_search: legs that start further ahead are *)
                    (* not searched                                          *)

ASSUME TrackerConfigAssumption ==
  MinSegment \in Nat \ {0} /\ MaxForwardSearch \in Nat \ {0}

-----------------------------------------------------------------------------
(* Legs.                                                                     *)
Size(n)    == IF n < 0 THEN -n ELSE n
Signum(n)  == IF n < 0 THEN -1 ELSE IF n = 0 THEN 0 ELSE 1

Clamp(value, lower, upper) ==
  IF value < lower THEN lower ELSE IF value > upper THEN upper ELSE value

(* std::hypot of a leg parallel to an axis.                                  *)
Length(p, q) == Size(q[1] - p[1]) + Size(q[2] - p[2])

DistanceSq(p, q) ==
  (q[1] - p[1]) * (q[1] - p[1]) + (q[2] - p[2]) * (q[2] - p[2])

(* The cell n steps from p towards q.                                        *)
Towards(p, q, n) ==
  <<p[1] + n * Signum(q[1] - p[1]), p[2] + n * Signum(q[2] - p[2])>>

AllLegs(points) == 1 .. Len(points) - 1

LegLength(points, i) == Length(points[i], points[i + 1])

Legs(points) == {i \in AllLegs(points) : LegLength(points, i) >= MinSegment}

(* The running total over the legs given: how far they lead, up to each leg. *)
Travelled(points, legs) ==
  LET upto[n \in 0 .. Len(points)] ==
        IF n = 0 THEN 0
        ELSE upto[n - 1] + (IF n \in legs THEN LegLength(points, n) ELSE 0)
  IN  upto

LengthOf(points, legs) == Travelled(points, legs)[Len(points)]

(* segments_: the legs that are not left out, by their index in the route.   *)
Segments(points) ==
  LET upto == Travelled(points, Legs(points)) IN
  [i \in Legs(points) |->
     [from |-> points[i], to |-> points[i + 1], length |-> LegLength(points, i),
      start |-> upto[i - 1]]]

-----------------------------------------------------------------------------
(* The tracker: whose route it tracks, the legs it was built from, and how   *)
(* far the robot is.                                                         *)
TrackerReset ==
  [sequence |-> 0, segments |-> <<>>, total |-> 0,
   initialized |-> FALSE, arc |-> 0, leg |-> 1]

RebuildRoute(task) ==
  [TrackerReset EXCEPT !.sequence = task.sequence,
                       !.segments = Segments(task.points),
                       !.total = LengthOf(task.points, Legs(task.points))]

(* projectToSegment: onto a leg, but not before minimum_arc_length_m.        *)
(* Variant: onto the line that the leg is part of.                           *)
AlongLine(segment, robot) ==
  (robot[1] - segment.from[1]) * Signum(segment.to[1] - segment.from[1])
  + (robot[2] - segment.from[2]) * Signum(segment.to[2] - segment.from[2])

Along(segment, robot) ==
  Clamp((robot[1] - segment.from[1]) * Signum(segment.to[1] - segment.from[1])
        + (robot[2] - segment.from[2]) * Signum(segment.to[2] - segment.from[2]),
        0, segment.length)

(* Variant: the point is not moved with the arc length.                      *)
ProjectToLegUnmoved(t, i, robot, minimum) ==
  LET segment == t.segments[i]
      free    == Along(segment, robot)
      at      == Towards(segment.from, segment.to, free)
  IN  [leg |-> i, arc |-> Clamp(segment.start + free, minimum,
                                segment.start + segment.length),
       at |-> at, distance_sq |-> DistanceSq(at, robot)]

ProjectToLeg(t, i, robot, minimum) ==
  LET segment == t.segments[i]
      end     == segment.start + segment.length
      free    == segment.start + Along(segment, robot)
      arc     == IF free >= minimum THEN free
                 ELSE IF minimum > end THEN end ELSE minimum
      at      == Towards(segment.from, segment.to, arc - segment.start)
  IN  [leg |-> i, arc |-> arc, at |-> at, distance_sq |-> DistanceSq(at, robot)]

(* isBetterCandidate: the nearer one, of equally near ones the earlier; the  *)
(* first of the legs if that leaves two.                                     *)
BetterCandidate(c, best) ==
  \/ c.distance_sq < best.distance_sq
  \/ c.distance_sq = best.distance_sq /\ c.arc < best.arc

BestCandidate(candidates) ==
  CHOOSE c \in candidates :
    \A other \in candidates \ {c} :
      \/ BetterCandidate(c, other)
      \/ ~BetterCandidate(other, c) /\ c.leg < other.leg

FindInitialProjection(t, robot) ==
  BestCandidate({ProjectToLeg(t, i, robot, 0) : i \in DOMAIN t.segments})

(* From the leg the robot was on, over the legs that start in reach.         *)
(* Variant: over the legs that the robot has not yet passed.                 *)
FindForwardProjectionFar(t, robot) ==
  BestCandidate({ProjectToLeg(t, i, robot, t.arc) :
                   i \in {j \in DOMAIN t.segments : j >= t.leg}})

FindForwardProjection(t, robot) ==
  LET searched == {i \in DOMAIN t.segments :
                     /\ i >= t.leg
                     /\ t.segments[i].start <= t.arc + MaxForwardSearch}
  IN  BestCandidate({ProjectToLeg(t, i, robot, t.arc) : i \in searched})

-----------------------------------------------------------------------------
(* update: the next tracker, and the progress if there is any.  A robot that *)
(* is not valid has no position; its route is rebuilt all the same.          *)
NoProgress == [valid |-> FALSE]
NoRobot    == <<>>

MakeProgress(t, at) ==
  [valid |-> TRUE, sequence |-> t.sequence, leg |-> t.leg, arc |-> t.arc,
   total |-> t.total, remaining |-> t.total - t.arc, at |-> at]

SinglePointProgress(t, target, robot) ==
  [MakeProgress(t, target) EXCEPT !.remaining = Length(robot, target)]

Moved(t, found) ==
  [t EXCEPT !.initialized = TRUE, !.leg = found.leg,
            !.arc = IF found.arc > @ THEN found.arc ELSE @]

Tracked(t, robot) ==
  LET found == IF t.initialized THEN FindForwardProjection(t, robot)
                                ELSE FindInitialProjection(t, robot)
      moved == Moved(t, found)
  IN  [tracker |-> moved, progress |-> MakeProgress(moved, found.at)]

TrackerUpdate(t, task, robot) ==
  LET current == IF task.sequence = t.sequence THEN t ELSE RebuildRoute(task)
      goal    == task.points[Len(task.points)]
      stays   == [current EXCEPT !.initialized = TRUE]
  IN  IF robot = NoRobot
        THEN [tracker |-> current, progress |-> NoProgress]
      ELSE IF DOMAIN current.segments = {}
        THEN [tracker |-> stays,
              progress |-> SinglePointProgress(stays, goal, robot)]
      ELSE Tracked(current, robot)

=============================================================================
