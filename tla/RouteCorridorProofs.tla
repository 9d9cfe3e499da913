------------------------ MODULE RouteCorridorProofs ------------------------
(***************************************************************************)
(* What holds of the route progress and of the corridor for every set of   *)
(* routes, every map and every way the robot may go: the types, that the   *)
(* progress is the nearest point ahead, stays on the route and never falls *)
(* back, and that a route reported clear is clear.                         *)
(***************************************************************************)
EXTENDS RouteCorridor, RouteProofs

(* A tracker that was built for the task: as long as it has not seen the     *)
(* robot it stands at the start, then on one of the legs.                    *)
BuiltFor(t, task) ==
  /\ t = [sequence |-> task.sequence, segments |-> Segments(task.points),
          total |-> Total(task.points), initialized |-> t.initialized,
          arc |-> t.arc, leg |-> t.leg]
  /\ t.initialized \in BOOLEAN /\ t.leg \in Nat
  /\ t.arc \in 0 .. Total(task.points)
  /\ ~t.initialized => t.arc = 0
  /\ t.initialized /\ Legs(task.points) # {} =>
       /\ t.leg \in Legs(task.points)
       /\ Start(task.points, t.leg) <= t.arc
       /\ t.arc <= End(task.points, t.leg)

(* What is reported of a tracker that has seen the robot.                    *)
Reported(t, task) ==
  [valid |-> TRUE, sequence |-> task.sequence, leg |-> t.leg, arc |-> t.arc,
   total |-> Total(task.points), remaining |-> Total(task.points) - t.arc,
   at |-> IF Legs(task.points) = {} THEN task.points[Len(task.points)]
                                    ELSE OnLeg(task.points, t.leg, t.arc)]

(* The same with another distance left.                                       *)
Left(progress, remaining) == [progress EXCEPT !.remaining = remaining]

(* The strengthening: the tracker is a fresh one or the one of the route     *)
(* that is held, and while a route is held everyone who keeps a progress     *)
(* keeps what the tracker reported last.                                     *)
ProgressIsTracked ==
  /\ tracker = TrackerReset \/ (HasRoute /\ BuiltFor(tracker, task_view))
  /\ last_progress = IF tracker.initialized THEN Reported(tracker, task_view)
                                            ELSE NoProgress
  /\ HasRoute => last_route_progress = last_progress
  /\ ~HasRoute => corridor = "NONE"

RouteInv == CorridorTypeOK /\ ProgressIsTracked

-----------------------------------------------------------------------------
(* The tracker.                                                              *)
LEMMA RebuiltFits ==
  ASSUME NEW task, task.points \in Routes
  PROVE  /\ BuiltFor(RebuildRoute(task), task)
         /\ RebuildRoute(task).arc = 0 /\ ~RebuildRoute(task).initialized
<1>1. RebuildRoute(task) =
        [sequence |-> task.sequence, segments |-> Segments(task.points),
         total |-> Total(task.points), initialized |-> FALSE, arc |-> 0,
         leg |-> 1]
  <2> DEFINE s == Segments(task.points)
             n == Total(task.points)
  <2>1. RebuildRoute(task) = [TrackerReset EXCEPT !.sequence = task.sequence,
                                                  !.segments = s, !.total = n]
    BY DEF RebuildRoute, Total
  <2> HIDE DEF s, n
  <2>2. RebuildRoute(task) =
          [sequence |-> task.sequence, segments |-> s, total |-> n,
           initialized |-> FALSE, arc |-> 0, leg |-> 1]
    BY <2>1 DEF TrackerReset
  <2> QED
    BY <2>2 DEF s, n
<1>2. Total(task.points) \in Nat
  BY TotalIsNat
<1> QED
  BY <1>1, <1>2 DEF BuiltFor

(* A search of the tracker: over the whole route the first time, then over   *)
(* what lies ahead.                                                          *)
Searched(t, points) ==
  IF t.initialized
    THEN {i \in Legs(points) : /\ i >= t.leg
                               /\ Start(points, i) <= t.arc + MaxForwardSearch}
    ELSE Legs(points)

Found(t, position) ==
  IF t.initialized THEN FindForwardProjection(t, position)
                   ELSE FindInitialProjection(t, position)

LEMMA FoundFits ==
  ASSUME NEW task, task.points \in Routes, Legs(task.points) # {},
         NEW t, BuiltFor(t, task), NEW position \in Int \X Int
  PROVE  NearestOn(Searched(t, task.points), task.points, t.arc, position,
                   Found(t, position))
<1> DEFINE P == task.points
           S == Searched(t, P)
<1>1. /\ t.segments = Segments(P) /\ DOMAIN t.segments = Legs(P)
      /\ \A i \in Legs(P) : t.segments[i].start = Start(P, i)
      /\ t.arc \in Nat /\ t.initialized \in BOOLEAN
      /\ ~t.initialized => t.arc = 0
  <2>1. t.segments = Segments(P) /\ t.arc \in 0 .. Total(P)
    BY DEF BuiltFor
  <2> QED
    BY <2>1, SegmentFacts DEF BuiltFor
<1>2. Found(t, position) =
        BestCandidate({ProjectToLeg(t, i, position, t.arc) : i \in S})
  <2>1. CASE t.initialized
    BY <1>1, <2>1 DEF Found, FindForwardProjection, Searched
  <2>2. CASE ~t.initialized
    BY <1>1, <2>2 DEF Found, FindInitialProjection, Searched
  <2> QED
    BY <2>1, <2>2
<1>3. S \subseteq Legs(P)
  BY DEF Searched
<1>4. S # {}
  <2>1. CASE t.initialized
    <3>1. /\ t.leg \in Legs(P) /\ Start(P, t.leg) <= t.arc
          /\ Start(P, t.leg) \in Nat /\ t.leg \in Nat
      BY <2>1, SegmentFacts DEF BuiltFor
    <3>2. MaxForwardSearch \in Nat
      BY TrackerConfigAssumption DEF TrackerConfigAssumption
    <3> QED
      BY <1>1, <2>1, <3>1, <3>2 DEF Searched
  <2>2. CASE ~t.initialized
    BY <2>2 DEF Searched
  <2> QED
    BY <2>1, <2>2
<1>5. \A i \in S : t.arc <= End(P, i)
  <2> SUFFICES ASSUME NEW i \in S PROVE t.arc <= End(P, i)
    OBVIOUS
  <2>1. i \in Legs(P) /\ End(P, i) \in Nat
    BY <1>3, SegmentFacts
  <2>2. CASE t.initialized
    <3>1. /\ t.leg \in Legs(P) /\ t.arc <= End(P, t.leg)
          /\ End(P, t.leg) \in Nat /\ t.leg <= i
      BY <2>2, SegmentFacts DEF BuiltFor, Searched
    <3>2. End(P, t.leg) <= End(P, i)
      BY <2>1, <3>1, EndsGrow
    <3> QED
      BY <1>1, <2>1, <3>1, <3>2
  <2>3. CASE ~t.initialized
    BY <1>1, <2>1, <2>3
  <2> QED
    BY <2>2, <2>3
<1>6. P \in Routes /\ t.segments = Segments(P) /\ t.arc \in Nat
      /\ S \in SUBSET Legs(P)
  BY <1>1, <1>3
<1> HIDE DEF S, P
<1>7. NearestOn(S, P, t.arc, position,
                BestCandidate({ProjectToLeg(t, i, position, t.arc) : i \in S}))
  BY <1>4, <1>5, <1>6, SearchFinds
<1> QED
  BY <1>2, <1>7 DEF S, P

(* The tracker that an update starts from.                                   *)
Current(t, task) == IF task.sequence = t.sequence THEN t ELSE RebuildRoute(task)

LEMMA CurrentFits ==
  ASSUME NEW task, task.points \in Routes, task.sequence # 0,
         NEW t, t = TrackerReset \/ BuiltFor(t, task)
  PROVE  /\ BuiltFor(Current(t, task), task)
         /\ Current(t, task).arc = t.arc
         /\ Current(t, task).initialized = t.initialized
         /\ t.initialized => Current(t, task) = t
<1>1. CASE t = TrackerReset
  <2>1. t.sequence = 0 /\ t.arc = 0 /\ t.initialized = FALSE
    BY <1>1 DEF TrackerReset
  <2>2. Current(t, task) = RebuildRoute(task)
    BY <2>1 DEF Current
  <2>3. RebuildRoute(task).initialized = FALSE
    BY RebuiltFits DEF BuiltFor
  <2> QED
    BY <2>1, <2>2, <2>3, RebuiltFits
<1>2. CASE BuiltFor(t, task)
  <2>1. t.sequence = task.sequence
    BY <1>2 DEF BuiltFor
  <2> QED
    BY <1>2, <2>1 DEF Current
<1> QED
  BY <1>1, <1>2

(* A tracker with some of its fields replaced.                               *)
LEMMA TrackerSeen ==
  ASSUME NEW q, NEW s, NEW m, NEW b, NEW a, NEW l, NEW x, NEW c,
         c = [sequence |-> q, segments |-> s, total |-> m,
              initialized |-> b, arc |-> a, leg |-> l]
  PROVE  [c EXCEPT !.initialized = x] =
           [sequence |-> q, segments |-> s, total |-> m,
            initialized |-> x, arc |-> a, leg |-> l]
OBVIOUS

LEMMA InTurn ==
  ASSUME NEW c, NEW x, NEW leg, NEW arc
  PROVE  [c EXCEPT !.initialized = x, !.leg = leg, !.arc = arc] =
           [[[c EXCEPT !.initialized = x] EXCEPT !.leg = leg] EXCEPT !.arc = arc]
OBVIOUS

(* What an update makes of it: without a robot nothing is reported; on a     *)
(* route without legs the goal is; else the nearest point that was found.    *)
LEMMA UpdateWithoutRobot ==
  ASSUME NEW task, NEW t
  PROVE  TrackerUpdate(t, task, NoRobot) =
           [tracker |-> Current(t, task), progress |-> NoProgress]
BY DEF TrackerUpdate, Current

LEMMA UpdateOnPoint ==
  ASSUME NEW task, task.points \in Routes, task.sequence # 0,
         Legs(task.points) = {},
         NEW t, t = TrackerReset \/ BuiltFor(t, task),
         NEW position \in Int \X Int, position # NoRobot
  PROVE  LET u == TrackerUpdate(t, task, position) IN
         /\ BuiltFor(u.tracker, task) /\ u.tracker.initialized
         /\ u.tracker.arc = t.arc
         /\ \E n : u.progress = Left(Reported(u.tracker, task), n)
<1> DEFINE c == Current(t, task)
           goal == task.points[Len(task.points)]
           stays == [c EXCEPT !.initialized = TRUE]
           u == TrackerUpdate(t, task, position)
           n == Length(position, goal)
<1>1. BuiltFor(c, task) /\ c.arc = t.arc
  BY CurrentFits
<1>2. DOMAIN c.segments = {}
  <2>1. c.segments = Segments(task.points)
    BY <1>1 DEF BuiltFor
  <2>2. DOMAIN Segments(task.points) = Legs(task.points)
    BY DEF Segments
  <2> QED
    BY <2>1, <2>2
<1>3. u = [tracker |-> stays, progress |-> SinglePointProgress(stays, goal, position)]
  BY <1>2 DEF TrackerUpdate, Current
<1> HIDE DEF c
<1>4. stays = [sequence |-> task.sequence, segments |-> Segments(task.points),
               total |-> Total(task.points), initialized |-> TRUE,
               arc |-> c.arc, leg |-> c.leg]
  <2> DEFINE q == task.sequence
             s == Segments(task.points)
             m == Total(task.points)
             b == c.initialized
             a == c.arc
             l == c.leg
  <2>1. c = [sequence |-> q, segments |-> s, total |-> m,
             initialized |-> b, arc |-> a, leg |-> l]
    BY <1>1 DEF BuiltFor
  <2> HIDE DEF q, s, m, b, a, l
  <2>2. PICK x : x = TRUE
    OBVIOUS
  <2>3. [c EXCEPT !.initialized = x] =
          [sequence |-> q, segments |-> s, total |-> m,
           initialized |-> x, arc |-> a, leg |-> l]
    BY <2>1, TrackerSeen
  <2> QED
    BY <2>2, <2>3 DEF q, s, m, b, a, l
<1> HIDE DEF stays
<1>5. BuiltFor(stays, task) /\ stays.initialized /\ stays.arc = c.arc
  BY <1>1, <1>4 DEF BuiltFor
<1>6. SinglePointProgress(stays, goal, position) = Left(Reported(stays, task), n)
  <2>1. MakeProgress(stays, goal) = Reported(stays, task)
    BY <1>4 DEF MakeProgress, Reported
  <2> QED
    BY <2>1 DEF SinglePointProgress, Left
<1> HIDE DEF n, goal
<1>7. u.tracker = stays /\ u.progress = Left(Reported(stays, task), n)
  BY <1>3, <1>6
<1> HIDE DEF u
<1>8. /\ BuiltFor(u.tracker, task) /\ u.tracker.initialized
      /\ u.tracker.arc = t.arc
      /\ u.progress = Left(Reported(u.tracker, task), n)
  BY <1>1, <1>5, <1>7
<1> QED
  BY <1>8 DEF u

LEMMA UpdateOnLegs ==
  ASSUME NEW task, task.points \in Routes, task.sequence # 0,
         Legs(task.points) # {},
         NEW t, t = TrackerReset \/ BuiltFor(t, task),
         NEW position \in Int \X Int, position # NoRobot
  PROVE  LET u == TrackerUpdate(t, task, position) IN
         /\ BuiltFor(u.tracker, task) /\ u.tracker.initialized
         /\ t.arc <= u.tracker.arc
         /\ u.progress = Reported(u.tracker, task)
         /\ NearestOn(Searched(Current(t, task), task.points), task.points,
                      t.arc, position, u.progress)
<1> DEFINE c == Current(t, task)
           found == Found(c, position)
           moved == Moved(c, found)
           u == TrackerUpdate(t, task, position)
           P == task.points
<1>1. BuiltFor(c, task) /\ c.arc = t.arc
  BY CurrentFits
<1>2. DOMAIN c.segments # {}
  <2>1. c.segments = Segments(task.points)
    BY <1>1 DEF BuiltFor
  <2>2. DOMAIN Segments(task.points) = Legs(task.points)
    BY DEF Segments
  <2> QED
    BY <2>1, <2>2
<1>3. u = [tracker |-> moved, progress |-> MakeProgress(moved, found.at)]
  BY <1>2 DEF TrackerUpdate, Current, Tracked, Found
<1> HIDE DEF c
<1>4. NearestOn(Searched(c, P), P, t.arc, position, found)
  BY <1>1, FoundFits
<1> HIDE DEF found
<1>5. /\ found.arc \in Nat /\ t.arc <= found.arc
      /\ found.leg \in Legs(P) /\ found.leg \in Nat
      /\ Start(P, found.leg) <= found.arc /\ found.arc <= End(P, found.leg)
      /\ found.at = OnLeg(P, found.leg, found.arc)
      /\ found.arc <= Total(P)
      /\ t.arc \in Nat
  <2>1. found.leg \in Legs(P)
    BY <1>4 DEF NearestOn, Searched
  <2>2. End(P, found.leg) \in Nat /\ End(P, found.leg) <= Total(P) /\ found.leg \in Nat
        /\ Total(P) \in Nat
    BY <2>1, SegmentFacts DEF Total
  <2> QED
    BY <1>1, <1>4, <2>1, <2>2 DEF NearestOn, BuiltFor
<1>6. moved = [sequence |-> task.sequence, segments |-> Segments(P),
               total |-> Total(P), initialized |-> TRUE,
               arc |-> found.arc, leg |-> found.leg]
  <2> DEFINE q == task.sequence
             s == Segments(P)
             m == Total(P)
             b == c.initialized
             a == t.arc
             l == c.leg
             arc == found.arc
             leg == found.leg
  <2>1. c.arc = t.arc
    BY <1>1
  <2>2. c = [sequence |-> q, segments |-> s, total |-> m,
             initialized |-> b, arc |-> a, leg |-> l]
    BY <1>1, <2>1 DEF BuiltFor
  <2> HIDE DEF q, s, m, b, a, l
  <2>3. PICK x : x = TRUE
    OBVIOUS
  <2>4. (IF found.arc > c.arc THEN found.arc ELSE c.arc) = found.arc
    BY <1>5, <2>1
  <2>5. moved = [c EXCEPT !.initialized = x, !.leg = leg, !.arc = arc]
    BY <2>3, <2>4 DEF Moved
  <2> HIDE DEF arc, leg, moved
  <2> DEFINE d == [c EXCEPT !.initialized = x]
             e == [d EXCEPT !.leg = leg]
             f == [e EXCEPT !.arc = arc]
  <2>6. d = [sequence |-> q, segments |-> s, total |-> m,
             initialized |-> x, arc |-> a, leg |-> l]
    BY <2>2
  <2>7. moved = f
    BY <2>5, InTurn, Zenon
  <2> HIDE DEF d
  <2>8. e = [sequence |-> q, segments |-> s, total |-> m,
             initialized |-> x, arc |-> a, leg |-> leg]
    BY <2>6
  <2> HIDE DEF e
  <2>9. f = [sequence |-> q, segments |-> s, total |-> m,
             initialized |-> x, arc |-> arc, leg |-> leg]
    BY <2>8
  <2> HIDE DEF f
  <2> QED
    BY <2>3, <2>7, <2>9 DEF q, s, m, arc, leg
<1> HIDE DEF moved
<1>7. /\ BuiltFor(moved, task) /\ moved.initialized
      /\ moved.arc = found.arc /\ moved.leg = found.leg
  <2>1. found.arc \in 0 .. Total(P)
    BY <1>5, TotalIsNat
  <2> QED
    BY <1>5, <1>6, <2>1 DEF BuiltFor
<1>8. MakeProgress(moved, found.at) = Reported(moved, task)
  BY <1>5, <1>6 DEF MakeProgress, Reported
<1>9. /\ Reported(moved, task).arc = found.arc
      /\ Reported(moved, task).leg = found.leg
      /\ Reported(moved, task).at = found.at
  BY <1>5, <1>7 DEF Reported
<1>10. NearestOn(Searched(c, P), P, t.arc, position, Reported(moved, task))
  BY <1>4, <1>9 DEF NearestOn
<1>11. u.tracker = moved /\ u.progress = Reported(moved, task)
  BY <1>3, <1>8
<1> HIDE DEF u
<1>12. /\ BuiltFor(u.tracker, task) /\ u.tracker.initialized
       /\ t.arc <= u.tracker.arc
       /\ u.progress = Reported(u.tracker, task)
       /\ NearestOn(Searched(c, P), P, t.arc, position, u.progress)
  BY <1>5, <1>7, <1>10, <1>11
<1> QED
  BY <1>12 DEF u, c

-----------------------------------------------------------------------------
(* What is reported, and the correction that the manager makes of it.  It    *)
(* changes nothing, but on a route without legs, where the remaining         *)
(* distance that the tracker reports is not one along the route.             *)
AnyProgress(valid, sequence, leg, arc, total, remaining, at) ==
  [valid |-> valid, sequence |-> sequence, leg |-> leg, arc |-> arc,
   total |-> total, remaining |-> remaining, at |-> at]

ProgressAt(sequence, leg, arc, total, remaining, at) ==
  [valid |-> TRUE, sequence |-> sequence, leg |-> leg, arc |-> arc,
   total |-> total, remaining |-> remaining, at |-> at]

Corrected(progress, arc, remaining) ==
  [progress EXCEPT !.arc = arc, !.remaining = remaining]

LEMMA AnyCorrected ==
  ASSUME NEW x, NEW q, NEW l, NEW a, NEW m, NEW n, NEW p, NEW d
  PROVE  Corrected(AnyProgress(x, q, l, a, m, n, p), a, d)
           = AnyProgress(x, q, l, a, m, d, p)
<1> DEFINE progress == [valid |-> x, sequence |-> q, leg |-> l, arc |-> a,
                        total |-> m, remaining |-> n, at |-> p]
<1>1. [progress EXCEPT !.arc = a] = progress
  OBVIOUS
<1>2. [progress EXCEPT !.arc = a, !.remaining = d] =
        [[progress EXCEPT !.arc = a] EXCEPT !.remaining = d]
  OBVIOUS
<1>3. [progress EXCEPT !.remaining = d] =
        [valid |-> x, sequence |-> q, leg |-> l, arc |-> a,
         total |-> m, remaining |-> d, at |-> p]
  OBVIOUS
<1>4. AnyProgress(x, q, l, a, m, n, p) = progress
  BY DEF AnyProgress
<1> HIDE DEF progress
<1> QED
  BY <1>1, <1>2, <1>3, <1>4 DEF Corrected, AnyProgress

LEMMA CorrectedProgress ==
  ASSUME NEW q, NEW l, NEW a, NEW m, NEW n, NEW p, NEW d
  PROVE  Corrected(ProgressAt(q, l, a, m, n, p), a, d)
           = ProgressAt(q, l, a, m, d, p)
<1> DEFINE x == TRUE
<1>1. /\ ProgressAt(q, l, a, m, n, p) = AnyProgress(x, q, l, a, m, n, p)
      /\ ProgressAt(q, l, a, m, d, p) = AnyProgress(x, q, l, a, m, d, p)
  BY DEF ProgressAt, AnyProgress
<1> HIDE DEF x
<1> QED
  BY <1>1, AnyCorrected

LEMMA AdvancedProgress ==
  ASSUME NEW q, NEW l, NEW a \in Nat, NEW m \in Nat, NEW n, NEW p, a <= m,
         last_progress.valid => last_progress.arc \in Nat /\ last_progress.arc <= a
  PROVE  Advanced(ProgressAt(q, l, a, m, n, p)) = ProgressAt(q, l, a, m, m - a, p)
<1> DEFINE progress == ProgressAt(q, l, a, m, n, p)
           arc == Larger(IF last_progress.valid THEN last_progress.arc ELSE 0,
                         progress.arc)
           rest == Larger(0, progress.total - arc)
<1>1. progress.valid /\ progress.arc = a /\ progress.total = m
  BY DEF ProgressAt
<1> HIDE DEF progress
<1>2. arc = a
  BY <1>1 DEF Larger
<1>3. rest = m - a
  BY <1>1, <1>2 DEF Larger
<1>4. Advanced(progress) = Corrected(progress, arc, rest)
  BY <1>1 DEF Advanced, Corrected
<1> HIDE DEF arc, rest
<1>5. \A d : Corrected(progress, a, d) = ProgressAt(q, l, a, m, d, p)
  BY CorrectedProgress DEF progress
<1>6. Advanced(progress) = Corrected(progress, a, m - a)
  BY <1>2, <1>3, <1>4
<1> QED
  BY <1>5, <1>6 DEF progress

LEMMA ReportedFields ==
  ASSUME NEW t, NEW task
  PROVE  /\ Reported(t, task).valid = TRUE
         /\ Reported(t, task).sequence = task.sequence
         /\ Reported(t, task).leg = t.leg
         /\ Reported(t, task).arc = t.arc
         /\ Reported(t, task).total = Total(task.points)
         /\ Reported(t, task).remaining = Total(task.points) - t.arc
         /\ Reported(t, task).at =
              IF Legs(task.points) = {} THEN task.points[Len(task.points)]
                                        ELSE OnLeg(task.points, t.leg, t.arc)
BY DEF Reported

LEMMA NoProgressFields ==
  NoProgress.valid = FALSE /\ TrackerReset.initialized = FALSE
  /\ TrackerReset.sequence = 0 /\ TrackerReset.arc = 0
BY DEF NoProgress, TrackerReset

(* A point on a leg is a cell of the map or beside it.                       *)
LEMMA LegIsOnMap ==
  ASSUME NEW points \in Routes, NEW i \in Legs(points), NEW arc \in Nat,
         Start(points, i) <= arc, arc <= End(points, i)
  PROVE  OnLeg(points, i, arc) \in Cells \cup Outside
<1>1. /\ Start(points, i) \in Nat /\ LegLength(points, i) \in Nat
      /\ End(points, i) = Start(points, i) + LegLength(points, i)
      /\ i \in AllLegs(points)
  BY SegmentFacts, RouteFacts
<1>2. arc - Start(points, i) \in 0 .. LegLength(points, i)
  BY <1>1
<1> QED
  BY <1>1, <1>2, MapAssumption DEF MapAssumption, OnLeg

LEMMA LastIsOnMap ==
  ASSUME NEW points \in Routes, points # <<>>
  PROVE  /\ points[Len(points)] \in Cells \cup Outside
         /\ Len(points) \in 1 .. Len(points)
<1>1. points \in Seq(Int \X Int)
  BY RouteFacts
<1>2. Len(points) \in 1 .. Len(points) /\ Len(points) \in DOMAIN points
  BY <1>1
<1> QED
  BY <1>2, MapAssumption DEF MapAssumption

LEMMA MapIsInPlane ==
  Cells \cup Outside \subseteq Int \X Int /\ NoRobot \notin Cells \cup Outside
BY MapAssumption DEF MapAssumption, NoRobot

(* The report of a tracker that fits the task is a progress.                 *)
LEMMA ReportedIsProgress ==
  ASSUME NEW task, task.points \in Routes, task.points # <<>>,
         task.sequence \in 1 .. MaxSequence,
         NEW t, BuiltFor(t, task), t.initialized
  PROVE  Reported(t, task) \in ProgressType
<1> DEFINE at == IF Legs(task.points) = {} THEN task.points[Len(task.points)]
                                           ELSE OnLeg(task.points, t.leg, t.arc)
           m == Total(task.points)
<1>1. /\ m \in Nat /\ t.arc \in 0 .. m /\ t.leg \in Nat
      /\ Legs(task.points) # {} =>
           /\ t.leg \in Legs(task.points)
           /\ Start(task.points, t.leg) <= t.arc
           /\ t.arc <= End(task.points, t.leg)
  BY TotalIsNat DEF BuiltFor
<1>2. 0 .. m \subseteq Arcs /\ m \in 0 .. m /\ m - t.arc \in 0 .. m
  BY <1>1 DEF Arcs, Total
<1>3. at \in Cells \cup Outside
  BY <1>1, LegIsOnMap, LastIsOnMap
<1>4. Reported(t, task) =
        [valid |-> TRUE, sequence |-> task.sequence, leg |-> t.leg,
         arc |-> t.arc, total |-> m, remaining |-> m - t.arc, at |-> at]
  BY DEF Reported
<1> HIDE DEF at, m
<1>5. t.arc \in Arcs /\ m \in Arcs /\ m - t.arc \in Arcs
  BY <1>1, <1>2
<1> QED
  BY <1>1, <1>3, <1>4, <1>5 DEF ProgressType

-----------------------------------------------------------------------------
(* A cycle.                                                                  *)
LEMMA AnyLeft ==
  ASSUME NEW x, NEW q, NEW l, NEW a, NEW m, NEW n, NEW p, NEW d
  PROVE  Left(AnyProgress(x, q, l, a, m, n, p), d)
           = AnyProgress(x, q, l, a, m, d, p)
BY DEF Left, AnyProgress

LEMMA ProgressLeft ==
  ASSUME NEW q, NEW l, NEW a, NEW m, NEW n, NEW p, NEW d
  PROVE  Left(ProgressAt(q, l, a, m, n, p), d) = ProgressAt(q, l, a, m, d, p)
<1> DEFINE x == TRUE
<1>1. /\ ProgressAt(q, l, a, m, n, p) = AnyProgress(x, q, l, a, m, n, p)
      /\ ProgressAt(q, l, a, m, d, p) = AnyProgress(x, q, l, a, m, d, p)
  BY DEF ProgressAt, AnyProgress
<1> HIDE DEF x
<1> QED
  BY <1>1, AnyLeft

(* What the invariant says while a route is held.                            *)
LEMMA HeldFacts ==
  ASSUME RouteInv, HasRoute
  PROVE  /\ task_view.points \in Routes /\ task_view.points # <<>>
         /\ task_view.sequence \in 1 .. MaxSequence /\ task_view.sequence # 0
         /\ tracker = TrackerReset \/ BuiltFor(tracker, task_view)
         /\ tracker.arc \in 0 .. Total(task_view.points) /\ tracker.arc \in Nat
         /\ last_progress = IF tracker.initialized
                              THEN Reported(tracker, task_view) ELSE NoProgress
         /\ last_route_progress = last_progress
         /\ last_progress.valid => /\ tracker.initialized
                                   /\ last_progress.arc = tracker.arc
<1>1. task_view \in [sequence : 1 .. MaxSequence, points : Routes]
  BY DEF RouteInv, CorridorTypeOK, HasRoute, NoTask
<1>2. task_view.points \in Routes /\ task_view.sequence \in 1 .. MaxSequence
  BY <1>1
<1>3. tracker = TrackerReset \/ BuiltFor(tracker, task_view)
  BY DEF RouteInv, ProgressIsTracked
<1>4. tracker.arc \in 0 .. Total(task_view.points) /\ tracker.arc \in Nat
  <2>1. Total(task_view.points) \in Nat
    BY <1>2, TotalIsNat
  <2>2. CASE tracker = TrackerReset
    BY <2>1, <2>2, NoProgressFields
  <2>3. CASE BuiltFor(tracker, task_view)
    BY <2>1, <2>3 DEF BuiltFor
  <2> QED
    BY <1>3, <2>2, <2>3
<1>5. /\ last_progress = IF tracker.initialized
                           THEN Reported(tracker, task_view) ELSE NoProgress
      /\ last_route_progress = last_progress
  BY DEF RouteInv, ProgressIsTracked
<1>6. last_progress.valid => /\ tracker.initialized
                             /\ last_progress.arc = tracker.arc
  BY <1>5, NoProgressFields, ReportedFields
<1> QED
  BY <1>2, <1>3, <1>4, <1>5, <1>6 DEF HasRoute

(* Without a robot the tracker may be rebuilt, but reports nothing.          *)
LEMMA CycleWithoutRobot ==
  ASSUME RouteInv, HasRoute
  PROVE  /\ UpdatedProgress(NoRobot) = NoProgress
         /\ TrackerUpdate(tracker, task_view, NoRobot).tracker
              = Current(tracker, task_view)
<1>1. TrackerUpdate(tracker, task_view, NoRobot) =
        [tracker |-> Current(tracker, task_view), progress |-> NoProgress]
  BY UpdateWithoutRobot
<1>2. /\ TrackerUpdate(tracker, task_view, NoRobot).progress = NoProgress
      /\ TrackerUpdate(tracker, task_view, NoRobot).tracker
           = Current(tracker, task_view)
  BY <1>1
<1> QED
  BY <1>2, NoProgressFields DEF UpdatedProgress, Advanced

(* With one, the manager reports what the tracker has become.                *)
LEMMA CycleWithRobot ==
  ASSUME RouteInv, HasRoute, NEW position \in Cells \cup Outside
  PROVE  LET u == TrackerUpdate(tracker, task_view, position) IN
         /\ BuiltFor(u.tracker, task_view) /\ u.tracker.initialized
         /\ tracker.arc <= u.tracker.arc
         /\ UpdatedProgress(position) = Reported(u.tracker, task_view)
         /\ Legs(task_view.points) # {} =>
              NearestOn(Searched(Current(tracker, task_view), task_view.points),
                        task_view.points, tracker.arc, position,
                        Reported(u.tracker, task_view))
<1> DEFINE u == TrackerUpdate(tracker, task_view, position)
           P == task_view.points
           at == IF Legs(P) = {} THEN P[Len(P)] ELSE OnLeg(P, u.tracker.leg, u.tracker.arc)
           m == Total(P)
<1>1. /\ P \in Routes /\ task_view.sequence # 0
      /\ tracker = TrackerReset \/ BuiltFor(tracker, task_view)
      /\ tracker.arc \in Nat
      /\ last_progress.valid => last_progress.arc = tracker.arc
  BY HeldFacts
<1>2. position \in Int \X Int /\ position # NoRobot
  BY MapIsInPlane
<1>3. /\ BuiltFor(u.tracker, task_view) /\ u.tracker.initialized
      /\ tracker.arc <= u.tracker.arc
      /\ \/ u.progress = Reported(u.tracker, task_view)
         \/ \E n : u.progress = Left(Reported(u.tracker, task_view), n)
      /\ Legs(P) # {} =>
           NearestOn(Searched(Current(tracker, task_view), P), P, tracker.arc,
                     position, Reported(u.tracker, task_view))
  <2>1. CASE Legs(P) = {}
    <3>1. /\ BuiltFor(u.tracker, task_view) /\ u.tracker.initialized
          /\ u.tracker.arc = tracker.arc
          /\ \E n : u.progress = Left(Reported(u.tracker, task_view), n)
      BY <1>1, <1>2, <2>1, UpdateOnPoint
    <3> HIDE DEF u
    <3> QED
      BY <1>1, <2>1, <3>1
  <2>2. CASE Legs(P) # {}
    <3>1. /\ BuiltFor(u.tracker, task_view) /\ u.tracker.initialized
          /\ tracker.arc <= u.tracker.arc
          /\ u.progress = Reported(u.tracker, task_view)
          /\ NearestOn(Searched(Current(tracker, task_view), P), P, tracker.arc,
                       position, u.progress)
      BY <1>1, <1>2, <2>2, UpdateOnLegs
    <3> HIDE DEF u
    <3> QED
      BY <3>1
  <2> QED
    BY <2>1, <2>2
<1>4. UpdatedProgress(position) = Advanced(u.progress)
  BY DEF UpdatedProgress
<1> HIDE DEF u
<1>5. m \in Nat /\ u.tracker.arc \in 0 .. m /\ u.tracker.arc \in Nat
      /\ u.tracker.arc <= m
  BY <1>1, <1>3, TotalIsNat DEF BuiltFor
<1>6. Reported(u.tracker, task_view) =
        ProgressAt(task_view.sequence, u.tracker.leg, u.tracker.arc, m,
                   m - u.tracker.arc, at)
  BY DEF Reported, ProgressAt
<1>7. PICK n : u.progress = ProgressAt(task_view.sequence, u.tracker.leg,
                                       u.tracker.arc, m, n, at)
  <2>1. CASE u.progress = Reported(u.tracker, task_view)
    BY <1>6, <2>1
  <2>2. ASSUME NEW n, u.progress = Left(Reported(u.tracker, task_view), n)
        PROVE  u.progress = ProgressAt(task_view.sequence, u.tracker.leg,
                                       u.tracker.arc, m, n, at)
    <3> HIDE DEF at, m
    <3> QED
      BY <1>6, <2>2, ProgressLeft
  <2> QED
    BY <1>3, <2>1, <2>2
<1> HIDE DEF at, m
<1>8. last_progress.valid =>
        last_progress.arc \in Nat /\ last_progress.arc <= u.tracker.arc
  BY <1>1, <1>3
<1>9. Advanced(u.progress) = Reported(u.tracker, task_view)
  BY <1>5, <1>6, <1>7, <1>8, AdvancedProgress
<1> QED
  BY <1>3, <1>4, <1>9 DEF u

-----------------------------------------------------------------------------
(* The invariant is inductive.                                               *)
LEMMA ArcsOfRoute ==
  0 \in Arcs /\ \A points \in Routes : 0 .. Total(points) \subseteq Arcs
BY DEF Arcs, Total

LEMMA RouteInitially == ASSUME CorridorInit PROVE RouteInv
<1>1. /\ task_view = NoTask /\ tracker = TrackerReset
      /\ last_progress = NoProgress /\ last_route_progress = NoProgress
      /\ occupied = {} /\ robot = NoRobot /\ corridor = "NONE"
  BY DEF CorridorInit, RouteInit
<1>2. CorridorTypeOK
  BY <1>1, ArcsOfRoute, NoProgressFields DEF CorridorTypeOK, ProgressType
<1>3. ~HasRoute
  BY <1>1 DEF HasRoute, NoTask
<1> QED
  BY <1>1, <1>2, <1>3, NoProgressFields DEF RouteInv, ProgressIsTracked

LEMMA AcceptKeepsRoute == ASSUME RouteInv, TaskAccepted PROVE RouteInv'
<1>1. PICK sequence \in 1 .. MaxSequence, points \in Routes :
        AcceptRoute(sequence, points)
  BY DEF TaskAccepted
<1>2. /\ task_view' = [sequence |-> sequence, points |-> points]
      /\ tracker' = TrackerReset /\ last_progress' = NoProgress
      /\ last_route_progress' = NoProgress
      /\ occupied' = {} /\ robot' = NoRobot /\ corridor' = "NONE"
  BY <1>1 DEF TaskAccepted, AcceptRoute, NothingSeen
<1>3. CorridorTypeOK'
  BY <1>2, ArcsOfRoute, NoProgressFields DEF CorridorTypeOK, ProgressType
<1> QED
  BY <1>2, <1>3, NoProgressFields DEF RouteInv, ProgressIsTracked

LEMMA OverKeepsRoute == ASSUME RouteInv, TaskOver PROVE RouteInv'
<1>1. /\ task_view' = NoTask
      /\ tracker' = TrackerReset /\ last_progress' = NoProgress
      /\ last_route_progress' \in {last_route_progress, NoProgress}
      /\ occupied' = {} /\ robot' = NoRobot /\ corridor' = "NONE"
  BY DEF TaskOver, ResetRoute, NothingSeen
<1>2. last_route_progress \in ProgressType
  BY DEF RouteInv, CorridorTypeOK
<1>3. CorridorTypeOK'
  BY <1>1, <1>2, ArcsOfRoute, NoProgressFields DEF CorridorTypeOK, ProgressType
<1>4. ~HasRoute'
  BY <1>1 DEF HasRoute, NoTask
<1> QED
  BY <1>1, <1>3, <1>4, NoProgressFields DEF RouteInv, ProgressIsTracked

LEMMA CycleKeepsRoute ==
  ASSUME RouteInv, NEW position \in Positions \cup {NoRobot},
         NEW cells \in Obstacles, NEW map \in Maps, Cycle(position, cells, map)
  PROVE  RouteInv'
<1>1. /\ HasRoute /\ task_view' = task_view
      /\ tracker' = TrackerUpdate(tracker, task_view, position).tracker
      /\ last_progress' = IF UpdatedProgress(position).valid
                            THEN UpdatedProgress(position) ELSE last_progress
      /\ last_route_progress' = IF UpdatedProgress(position).valid
                                  THEN UpdatedProgress(position)
                                  ELSE last_route_progress
      /\ occupied' = cells /\ robot' = position
  BY DEF Cycle, UpdateProgress
<1>2. /\ task_view.points \in Routes /\ task_view.points # <<>>
      /\ task_view.sequence \in 1 .. MaxSequence /\ task_view.sequence # 0
      /\ tracker = TrackerReset \/ BuiltFor(tracker, task_view)
      /\ last_progress = IF tracker.initialized
                           THEN Reported(tracker, task_view) ELSE NoProgress
      /\ last_route_progress = last_progress
  BY <1>1, HeldFacts
<1>3. /\ position \in Cells \cup Outside \cup {NoRobot}
      /\ task_view \in [sequence : 1 .. MaxSequence, points : Routes] \cup {NoTask}
      /\ last_progress \in ProgressType
  BY DEF Positions, RouteInv, CorridorTypeOK
<1>4. /\ BuiltFor(tracker', task_view)
      /\ last_progress' = IF tracker'.initialized
                            THEN Reported(tracker', task_view) ELSE NoProgress
      /\ last_route_progress' = last_progress'
      /\ last_progress' \in ProgressType
  <2>1. CASE position = NoRobot
    <3>1. /\ UpdatedProgress(position) = NoProgress
          /\ tracker' = Current(tracker, task_view)
      BY <1>1, <2>1, CycleWithoutRobot
    <3>2. last_progress' = last_progress /\ last_route_progress' = last_progress
      BY <1>1, <1>2, <3>1, NoProgressFields
    <3>3. /\ BuiltFor(tracker', task_view)
          /\ tracker'.initialized = tracker.initialized
          /\ tracker.initialized => tracker' = tracker
      BY <1>2, <3>1, CurrentFits
    <3> QED
      BY <1>2, <1>3, <3>2, <3>3
  <2>2. CASE position # NoRobot
    <3>1. /\ BuiltFor(tracker', task_view) /\ tracker'.initialized
          /\ UpdatedProgress(position) = Reported(tracker', task_view)
      BY <1>1, <1>3, <2>2, CycleWithRobot
    <3>2. /\ last_progress' = Reported(tracker', task_view)
          /\ last_route_progress' = Reported(tracker', task_view)
      BY <1>1, <3>1, ReportedFields
    <3>3. Reported(tracker', task_view) \in ProgressType
      BY <1>2, <3>1, ReportedIsProgress
    <3> QED
      BY <3>1, <3>2, <3>3
  <2> QED
    BY <2>1, <2>2
<1>5. tracker'.sequence = task_view.sequence /\ tracker'.arc \in Arcs
  <2>1. /\ tracker'.sequence = task_view.sequence
        /\ tracker'.arc \in 0 .. Total(task_view.points)
    BY <1>4 DEF BuiltFor
  <2> QED
    BY <1>2, <2>1, ArcsOfRoute
<1>6. CorridorTypeOK'
  BY <1>1, <1>3, <1>4, <1>5 DEF CorridorTypeOK
<1>7. HasRoute'
  BY <1>1 DEF HasRoute
<1>8. ProgressIsTracked'
  BY <1>1, <1>4, <1>7 DEF ProgressIsTracked
<1> QED
  BY <1>6, <1>8 DEF RouteInv

LEMMA StepKeepsRoute ==
  ASSUME RouteInv, [CorridorNext]_corridorVars PROVE RouteInv'
<1>1. CASE TaskAccepted
  BY <1>1, AcceptKeepsRoute
<1>2. CASE TaskOver
  BY <1>2, OverKeepsRoute
<1>3. ASSUME NEW position \in Positions \cup {NoRobot},
             NEW cells \in Obstacles, NEW map \in Maps,
             Cycle(position, cells, map)
      PROVE  RouteInv'
  BY <1>3, CycleKeepsRoute
<1>4. CASE UNCHANGED corridorVars
  <2>1. /\ task_view' = task_view /\ tracker' = tracker
        /\ last_progress' = last_progress
        /\ last_route_progress' = last_route_progress
        /\ occupied' = occupied /\ robot' = robot /\ corridor' = corridor
    BY <1>4 DEF corridorVars, routeVars
  <2> QED
    BY <2>1 DEF RouteInv, CorridorTypeOK, ProgressIsTracked, HasRoute
<1> QED
  BY <1>1, <1>2, <1>3, <1>4 DEF CorridorNext

(* Types: the tracker never leaves its route, and every distance reported,   *)
(* also what remains, is between nothing and the length of a route.          *)
THEOREM CorridorTypes == CorridorSpec => []CorridorTypeOK
<1>1. CorridorInit => RouteInv
  BY RouteInitially
<1>2. RouteInv /\ [CorridorNext]_corridorVars => RouteInv'
  BY StepKeepsRoute
<1>3. RouteInv => CorridorTypeOK
  BY DEF RouteInv
<1> QED
  BY <1>1, <1>2, <1>3, PTL DEF CorridorSpec

-----------------------------------------------------------------------------
(* The walk of the evaluator and of the follower measures all the legs, the  *)
(* tracker only those that are long enough.  What follows is about routes on *)
(* which the legs left out are those without any length: points repeated.    *)
NoShortLegs ==
  \A points \in Routes : \A i \in AllLegs(points) :
    i \in Legs(points) \/ LegLength(points, i) = 0

LEMMA WalkFollowsLegs ==
  ASSUME NoShortLegs, NEW points \in Routes
  PROVE  /\ Travelled(points, AllLegs(points)) = Travelled(points, Legs(points))
         /\ DOMAIN Walk[points] = 0 .. Total(points)
         /\ \A i \in Legs(points), arc \in Nat :
              Start(points, i) <= arc /\ arc <= End(points, i) =>
                /\ arc \in 0 .. Total(points)
                /\ Walk[points][arc] = OnLeg(points, i, arc)
<1>1. Travelled(points, AllLegs(points)) = Travelled(points, Legs(points))
  BY SameLengths DEF NoShortLegs
<1>2. LengthOf(points, AllLegs(points)) = Total(points)
  BY <1>1 DEF LengthOf, Total
<1>3. Walk[points] = [arc \in 0 .. Total(points) |-> PointAtArcLength(points, arc)]
  BY <1>2 DEF Walk
<1>4. ASSUME NEW i \in Legs(points), NEW arc \in Nat,
             Start(points, i) <= arc, arc <= End(points, i)
      PROVE  /\ arc \in 0 .. Total(points)
             /\ Walk[points][arc] = OnLeg(points, i, arc)
  <2>1. /\ End(points, i) \in Nat /\ End(points, i) <= Total(points)
        /\ Total(points) \in Nat
    BY SegmentFacts DEF Total
  <2>2. arc \in 0 .. Total(points)
    BY <1>4, <2>1
  <2>3. i \in AllLegs(points) /\ LegLength(points, i) > 0
    BY RouteFacts
  <2>4. /\ Travelled(points, AllLegs(points))[i - 1] = Start(points, i)
        /\ Travelled(points, AllLegs(points))[i] = End(points, i)
    BY <1>1 DEF Start, End
  <2>5. PointAtArcLength(points, arc) = OnLeg(points, i, arc)
    BY <1>4, <2>3, <2>4, WalkOnLeg DEF OnLeg
  <2> QED
    BY <1>3, <2>2, <2>5
<1> QED
  BY <1>1, <1>3, <1>4

(* A progress is only known of a tracker that fits the route that is held.   *)
LEMMA ValidFacts ==
  ASSUME RouteInv, last_progress.valid
  PROVE  /\ HasRoute /\ BuiltFor(tracker, task_view) /\ tracker.initialized
         /\ last_progress = Reported(tracker, task_view)
<1>1. tracker.initialized /\ last_progress = Reported(tracker, task_view)
  BY NoProgressFields DEF RouteInv, ProgressIsTracked
<1>2. tracker # TrackerReset
  BY <1>1, NoProgressFields
<1> QED
  BY <1>1, <1>2 DEF RouteInv, ProgressIsTracked

LEMMA InvKeepsToRoute ==
  ASSUME NoShortLegs, RouteInv PROVE ProgressStaysOnRoute
<1> SUFFICES ASSUME last_progress.valid, Legs(task_view.points) # {}
             PROVE  /\ last_progress.at = Walk[task_view.points][last_progress.arc]
                    /\ last_progress.arc \in
                         tracker.segments[last_progress.leg].start ..
                         tracker.segments[last_progress.leg].start
                           + tracker.segments[last_progress.leg].length
  BY DEF ProgressStaysOnRoute
<1> DEFINE P == task_view.points
           i == tracker.leg
           arc == tracker.arc
<1>1. /\ HasRoute /\ BuiltFor(tracker, task_view) /\ tracker.initialized
      /\ last_progress = Reported(tracker, task_view)
  BY ValidFacts
<1>2. P \in Routes /\ arc \in Nat
  BY <1>1, HeldFacts
<1>3. /\ last_progress.leg = i /\ last_progress.arc = arc
      /\ last_progress.at = OnLeg(P, i, arc)
  BY <1>1, ReportedFields
<1>4. /\ i \in Legs(P) /\ Start(P, i) <= arc /\ arc <= End(P, i)
      /\ tracker.segments = Segments(P)
  BY <1>1 DEF BuiltFor
<1>5. /\ tracker.segments[i].start = Start(P, i)
      /\ tracker.segments[i].length = LegLength(P, i)
      /\ Start(P, i) \in Nat /\ LegLength(P, i) \in Nat
      /\ End(P, i) = Start(P, i) + LegLength(P, i)
  BY <1>2, <1>4, SegmentFacts
<1>6. Walk[P][arc] = OnLeg(P, i, arc)
  BY <1>2, <1>4, WalkFollowsLegs
<1>7. arc \in Start(P, i) .. Start(P, i) + LegLength(P, i)
  BY <1>2, <1>4, <1>5
<1> QED
  BY <1>3, <1>5, <1>6, <1>7

(* The three walks along the route agree: the point reported is the one that *)
(* the follower and the evaluator find at the arc length reported, and it    *)
(* lies on the leg reported.                                                 *)
THEOREM OnRoute ==
  ASSUME NoShortLegs PROVE CorridorSpec => []ProgressStaysOnRoute
<1>1. CorridorInit => RouteInv
  BY RouteInitially
<1>2. RouteInv /\ [CorridorNext]_corridorVars => RouteInv'
  BY StepKeepsRoute
<1>3. RouteInv => ProgressStaysOnRoute
  BY InvKeepsToRoute
<1> QED
  BY <1>1, <1>2, <1>3, PTL DEF CorridorSpec

-----------------------------------------------------------------------------
(* The nearest of a set of distances along the route, the first of several,  *)
(* is the only one.                                                          *)
LEMMA NearestIsUnique ==
  ASSUME NEW A, A \subseteq Nat, NEW distance,
         \A arc \in A : distance[arc] \in Int,
         NEW x \in A,
         \A other \in A : \/ distance[x] < distance[other]
                          \/ distance[x] = distance[other] /\ x <= other
  PROVE  x = CHOOSE arc \in A :
               \A other \in A :
                 \/ distance[arc] < distance[other]
                 \/ distance[arc] = distance[other] /\ arc <= other
<1> DEFINE Nearest(arc) == \A other \in A :
                             \/ distance[arc] < distance[other]
                             \/ distance[arc] = distance[other] /\ arc <= other
           y == CHOOSE arc \in A : Nearest(arc)
<1>1. y \in A /\ Nearest(y) /\ Nearest(x)
  OBVIOUS
<1> HIDE DEF y
<1>2. /\ distance[x] < distance[y] \/ (distance[x] = distance[y] /\ x <= y)
      /\ distance[y] < distance[x] \/ (distance[y] = distance[x] /\ y <= x)
      /\ distance[x] \in Int /\ distance[y] \in Int /\ x \in Nat /\ y \in Nat
  BY <1>1
<1>3. x = y
  BY <1>2
<1> QED
  BY <1>3 DEF y

(* What the tracker searches by legs is what lies ahead.                     *)
LEMMA AheadIsSearched ==
  ASSUME NoShortLegs, RouteInv, HasRoute, Legs(task_view.points) # {}
  PROVE  LET S == Searched(Current(tracker, task_view), task_view.points) IN
         /\ ArcsAhead \subseteq Nat
         /\ S \subseteq Legs(task_view.points)
         /\ \A i \in S, arc \in Nat :
              /\ Start(task_view.points, i) <= arc
              /\ arc <= End(task_view.points, i) /\ tracker.arc <= arc
              => arc \in ArcsAhead
         /\ \A arc \in ArcsAhead :
              /\ tracker.arc <= arc
              /\ \E i \in S : /\ Start(task_view.points, i) <= arc
                              /\ arc <= End(task_view.points, i)
<1> DEFINE P == task_view.points
           S == Searched(Current(tracker, task_view), P)
           now == tracker.arc
<1>1. /\ P \in Routes /\ P # <<>> /\ task_view.sequence # 0
      /\ tracker = TrackerReset \/ BuiltFor(tracker, task_view)
      /\ now \in Nat
      /\ last_progress = IF tracker.initialized
                           THEN Reported(tracker, task_view) ELSE NoProgress
  BY HeldFacts
<1>2. /\ Current(tracker, task_view).arc = now
      /\ Current(tracker, task_view).initialized = tracker.initialized
      /\ tracker.initialized => Current(tracker, task_view) = tracker
  BY <1>1, CurrentFits
<1>3. /\ DOMAIN Walk[P] = 0 .. Total(P) /\ Total(P) \in Nat
      /\ \A i \in Legs(P), arc \in Nat :
           Start(P, i) <= arc /\ arc <= End(P, i) => arc \in 0 .. Total(P)
  BY <1>1, TotalIsNat, WalkFollowsLegs
<1>4. S \subseteq Legs(P)
  BY DEF Searched
<1>5. CASE ~tracker.initialized
  <2>1. last_progress = NoProgress /\ ArcsAhead = 0 .. Total(P)
    BY <1>1, <1>3, <1>5, NoProgressFields DEF ArcsAhead
  <2>2. S = Legs(P)
    BY <1>2, <1>5 DEF Searched
  <2>3. now = 0
    BY <1>1, <1>5, NoProgressFields DEF BuiltFor
  <2>4. \A arc \in 0 .. Total(P) :
          \E i \in Legs(P) : Start(P, i) <= arc /\ arc <= End(P, i)
    BY <1>1, ArcOnLeg DEF Total
  <2> HIDE DEF S, now
  <2>5. /\ ArcsAhead \subseteq Nat
        /\ \A i \in S, arc \in Nat :
             Start(P, i) <= arc /\ arc <= End(P, i) /\ now <= arc
             => arc \in ArcsAhead
    BY <1>3, <2>1, <2>2
  <2>6. \A arc \in ArcsAhead :
          /\ now <= arc
          /\ \E i \in S : Start(P, i) <= arc /\ arc <= End(P, i)
    BY <1>3, <2>1, <2>2, <2>3, <2>4
  <2> QED
    BY <1>4, <2>5, <2>6 DEF S, now
<1>6. CASE tracker.initialized
  <2>1. BuiltFor(tracker, task_view) /\ last_progress.valid /\ last_progress.arc = now
    BY <1>1, <1>6, NoProgressFields, ReportedFields
  <2>2. /\ tracker.leg \in Legs(P) /\ tracker.segments = Segments(P)
        /\ Start(P, tracker.leg) <= now /\ now <= End(P, tracker.leg)
    BY <1>6, <2>1 DEF BuiltFor
  <2>3. /\ DOMAIN tracker.segments = Legs(P)
        /\ \A i \in Legs(P) :
             /\ tracker.segments[i].start = Start(P, i)
             /\ tracker.segments[i].start + tracker.segments[i].length = End(P, i)
             /\ Start(P, i) \in Nat /\ End(P, i) \in Nat
    BY <1>1, <2>2, SegmentFacts
  <2>4. ArcsAhead = {arc \in 0 .. Total(P) :
                       /\ arc >= now
                       /\ \E i \in Legs(P) :
                            /\ Start(P, i) <= now + MaxForwardSearch
                            /\ arc <= End(P, i)}
    BY <1>3, <2>1, <2>3 DEF ArcsAhead
  <2>5. S = {i \in Legs(P) : /\ i >= tracker.leg
                             /\ Start(P, i) <= now + MaxForwardSearch}
    BY <1>2, <1>6 DEF Searched
  <2>6. MaxForwardSearch \in Nat
    BY TrackerConfigAssumption DEF TrackerConfigAssumption
  <2>7. \A i \in S, arc \in Nat :
          Start(P, i) <= arc /\ arc <= End(P, i) /\ now <= arc
          => arc \in ArcsAhead
    BY <1>1, <1>3, <1>4, <2>4, <2>5
  <2>8. ASSUME NEW arc \in ArcsAhead
        PROVE  /\ now <= arc
               /\ \E i \in S : Start(P, i) <= arc /\ arc <= End(P, i)
    <3>1. PICK far \in Legs(P) : /\ Start(P, far) <= now + MaxForwardSearch
                                 /\ arc <= End(P, far)
      BY <2>4
    <3>2. arc \in Nat /\ now <= arc
      BY <1>1, <1>3, <2>4
    <3>3. PICK i \in Legs(P) :
            /\ tracker.leg <= i
            /\ Start(P, i) <= arc /\ arc <= End(P, i)
            /\ Start(P, i) <= now \/ Start(P, i) <= Start(P, far)
      BY <1>1, <2>2, <3>1, <3>2, ArcAheadOnLeg
    <3>4. Start(P, i) <= now + MaxForwardSearch
      <4>1. Start(P, i) \in Nat /\ Start(P, far) \in Nat
        BY <2>3
      <4> QED
        BY <1>1, <2>6, <3>1, <3>3, <4>1
    <3>5. i \in Nat /\ tracker.leg \in Nat
      BY <1>1, <2>2, SegmentFacts
    <3>6. i \in S
      BY <2>5, <3>3, <3>4, <3>5
    <3> QED
      BY <3>2, <3>3, <3>6
  <2>9. ArcsAhead \subseteq Nat
    BY <2>4
  <2> HIDE DEF S, now
  <2> QED
    BY <1>4, <2>7, <2>8, <2>9 DEF S, now
<1> QED
  BY <1>5, <1>6

LEMMA CycleIsNearest ==
  ASSUME NoShortLegs, RouteInv, HasRoute, Legs(task_view.points) # {},
         NEW position \in Cells \cup Outside
  PROVE  TrackerUpdate(tracker, task_view, position).tracker.arc
           = NearestAhead(position)
<1> DEFINE P == task_view.points
           S == Searched(Current(tracker, task_view), P)
           t == TrackerUpdate(tracker, task_view, position).tracker
           r == Reported(t, task_view)
           distance == [arc \in ArcsAhead |-> DistanceSq(Walk[P][arc], position)]
<1>1. P \in Routes /\ position \in Int \X Int
  BY HeldFacts, MapIsInPlane
<1>2. NearestOn(S, P, tracker.arc, position, r)
  BY CycleWithRobot
<1>3. r.arc = t.arc
  BY ReportedFields
<1>4. /\ ArcsAhead \subseteq Nat /\ S \subseteq Legs(P)
      /\ \A i \in S, arc \in Nat :
           Start(P, i) <= arc /\ arc <= End(P, i) /\ tracker.arc <= arc
           => arc \in ArcsAhead
      /\ \A arc \in ArcsAhead :
           /\ tracker.arc <= arc
           /\ \E i \in S : Start(P, i) <= arc /\ arc <= End(P, i)
  BY AheadIsSearched
<1>5. \A i \in S, arc \in Nat :
        Start(P, i) <= arc /\ arc <= End(P, i) => Walk[P][arc] = OnLeg(P, i, arc)
  BY <1>1, <1>4, WalkFollowsLegs
<1> HIDE DEF S, r, t, P
<1>6. /\ r.leg \in S /\ r.arc \in Nat /\ tracker.arc <= r.arc
      /\ Start(P, r.leg) <= r.arc /\ r.arc <= End(P, r.leg)
      /\ r.at = OnLeg(P, r.leg, r.arc)
  BY <1>2 DEF NearestOn
<1>7. r.arc \in ArcsAhead /\ distance[r.arc] = DistanceSq(r.at, position)
  BY <1>4, <1>5, <1>6
<1>8. ASSUME NEW arc \in ArcsAhead
      PROVE  /\ distance[arc] \in Int
             /\ \/ distance[r.arc] < distance[arc]
                \/ distance[r.arc] = distance[arc] /\ r.arc <= arc
  <2>1. PICK i \in S : Start(P, i) <= arc /\ arc <= End(P, i)
    BY <1>4
  <2>2. arc \in Nat /\ tracker.arc <= arc /\ i \in Legs(P)
    BY <1>4
  <2>3. distance[arc] = DistanceSq(OnLeg(P, i, arc), position)
    BY <1>5, <2>1, <2>2
  <2>4. \/ DistanceSq(r.at, position) < DistanceSq(OnLeg(P, i, arc), position)
        \/ /\ DistanceSq(r.at, position) = DistanceSq(OnLeg(P, i, arc), position)
           /\ r.arc <= arc
    BY <1>2, <2>1, <2>2 DEF NearestOn
  <2>5. DistanceSq(OnLeg(P, i, arc), position) \in Int
    BY <1>1, <2>2, OnLegIsCell, DistanceIsInt
  <2> QED
    BY <1>7, <2>3, <2>4, <2>5
<1>9. NearestAhead(position) =
        CHOOSE arc \in ArcsAhead :
          \A other \in ArcsAhead :
            \/ distance[arc] < distance[other]
            \/ distance[arc] = distance[other] /\ arc <= other
  BY DEF NearestAhead, P
<1> HIDE DEF distance
<1>10. r.arc = NearestAhead(position)
  BY <1>4, <1>7, <1>8, <1>9, NearestIsUnique
<1> QED
  BY <1>3, <1>10 DEF t

LEMMA StepIsNearest ==
  ASSUME NoShortLegs, RouteInv, CorridorNext,
         robot' # NoRobot, Legs(task_view.points) # {}
  PROVE  last_progress'.arc = NearestAhead(robot')
<1>1. PICK position \in Positions \cup {NoRobot}, cells \in Obstacles, map \in Maps :
        Cycle(position, cells, map)
  BY DEF CorridorNext, TaskAccepted, TaskOver, NothingSeen
<1>2. /\ HasRoute /\ robot' = position
      /\ tracker' = TrackerUpdate(tracker, task_view, position).tracker
      /\ last_progress' = IF UpdatedProgress(position).valid
                            THEN UpdatedProgress(position) ELSE last_progress
  BY <1>1 DEF Cycle, UpdateProgress
<1>3. position \in Cells \cup Outside
  BY <1>1, <1>2 DEF Positions
<1>4. UpdatedProgress(position) = Reported(tracker', task_view)
  BY <1>2, <1>3, CycleWithRobot
<1>5. last_progress'.arc = tracker'.arc
  <2> DEFINE r == Reported(tracker', task_view)
  <2>1. r.valid /\ r.arc = tracker'.arc
    BY ReportedFields
  <2> HIDE DEF r
  <2>2. last_progress' = r
    BY <1>2, <1>4, <2>1 DEF r
  <2> QED
    BY <2>1, <2>2
<1>6. tracker'.arc = NearestAhead(position)
  BY <1>2, <1>3, CycleIsNearest
<1> QED
  BY <1>2, <1>5, <1>6

(* Progress is the nearest point of the route that lies ahead in reach, the  *)
(* earliest of several: the search by legs, each with its own projection,    *)
(* finds what a search of all the points of the route finds.                 *)
THEOREM NearestPointAhead ==
  ASSUME NoShortLegs PROVE CorridorSpec => ProgressIsNearestAhead
<1>1. CorridorInit => RouteInv
  BY RouteInitially
<1>2. RouteInv /\ [CorridorNext]_corridorVars => RouteInv'
  BY StepKeepsRoute
<1>3. RouteInv /\ [CorridorNext]_corridorVars
        => [robot' # NoRobot /\ Legs(task_view.points) # {} =>
              last_progress'.arc = NearestAhead(robot')]_corridorVars
  BY StepIsNearest
<1> QED
  BY <1>1, <1>2, <1>3, PTL DEF CorridorSpec, ProgressIsNearestAhead

-----------------------------------------------------------------------------
(* What a CLEAR says: the observation is one of this route, made from a      *)
(* little behind, and none of its samples was occupied.                      *)
LEMMA ClearObservation ==
  ASSUME NEW progress, NEW task, NEW old, NEW position, NEW cells, NEW map,
         NEW seen, seen = NoAssessment \/ seen = Evaluate(task, old, position, cells),
         GateResult(progress, seen, map) = "CLEAR"
  PROVE  /\ progress.valid
         /\ old.valid
         /\ ~(progress.arc < old.arc) /\ ~(progress.arc - old.arc > MaxLag)
         /\ \A d \in Checked(task, old, position) :
              CellAhead(task, old, position, d) \notin cells
<1> DEFINE at(d) == CellAhead(task, old, position, d)
           checked == Checked(task, old, position)
           hits == {d \in checked : at(d) \in cells \/ at(d) \in Outside}
           hit == Min(hits)
           free == [valid |-> TRUE, sequence |-> task.sequence,
                    from |-> old.arc,
                    checked |-> IF checked = {} THEN 0 ELSE Max(checked),
                    blocked |-> FALSE, out_of_map |-> FALSE]
<1>1. /\ progress.valid /\ seen.valid
      /\ ~(progress.arc < seen.from) /\ ~(progress.arc - seen.from > MaxLag)
      /\ ~seen.out_of_map /\ ~seen.blocked
  BY DEF GateResult
<1>2. seen = Evaluate(task, old, position, cells) /\ seen # NoAssessment
  BY <1>1 DEF NoAssessment
<1>3. Evaluate(task, old, position, cells) =
        IF ~old.valid \/ old.sequence # task.sequence THEN NoAssessment
        ELSE IF hits = {} THEN free
        ELSE IF at(hit) \in cells
          THEN [free EXCEPT !.checked = hit, !.blocked = TRUE]
          ELSE [free EXCEPT !.checked = hit, !.out_of_map = TRUE]
  BY DEF Evaluate
<1>4. /\ free.from = old.arc
      /\ [free EXCEPT !.checked = hit, !.blocked = TRUE].blocked
      /\ [free EXCEPT !.checked = hit, !.out_of_map = TRUE].out_of_map
  OBVIOUS
<1> HIDE DEF free, hit, hits
<1>5. old.valid /\ hits = {} /\ seen = free
  BY <1>1, <1>2, <1>3, <1>4
<1>6. \A d \in checked : at(d) \notin cells
  BY <1>5 DEF hits
<1> QED
  BY <1>1, <1>4, <1>5, <1>6

(* The samples lie on the route, one at every step from the progress kept.   *)
LEMMA SamplesLieOnRoute ==
  ASSUME NoShortLegs, RouteInv, last_progress.valid, Legs(task_view.points) # {},
         NEW position, NEW arc \in Nat,
         tracker.arc <= arc, arc <= tracker.arc + Lookahead,
         arc <= Total(task_view.points), tracker.arc < Total(task_view.points)
  PROVE  /\ arc - tracker.arc \in Checked(task_view, last_progress, position)
         /\ CellAhead(task_view, last_progress, position, arc - tracker.arc)
              = Walk[task_view.points][arc]
<1> DEFINE P == task_view.points
           i == tracker.leg
           now == tracker.arc
<1>1. /\ HasRoute /\ BuiltFor(tracker, task_view) /\ tracker.initialized
      /\ last_progress = Reported(tracker, task_view)
  BY ValidFacts
<1>2. /\ P \in Routes /\ now \in Nat /\ Total(P) \in Nat
      /\ P \in Seq(Int \X Int)
  BY <1>1, HeldFacts, TotalIsNat, RouteFacts
<1>3. /\ last_progress.leg = i /\ last_progress.at = OnLeg(P, i, now)
      /\ last_progress.remaining = Total(P) - now
  BY <1>1, ReportedFields
<1>4. i \in Legs(P) /\ Start(P, i) <= now /\ now <= End(P, i)
  BY <1>1 DEF BuiltFor
<1>5. /\ Start(P, i) \in Nat /\ LegLength(P, i) \in Nat
      /\ End(P, i) = Start(P, i) + LegLength(P, i)
      /\ i \in AllLegs(P)
      /\ P[i] \in Int \X Int /\ P[i + 1] \in Int \X Int
      /\ P[i][1] = P[i + 1][1] \/ P[i][2] = P[i + 1][2]
  BY <1>2, <1>4, SegmentFacts, RouteFacts
<1>6. Len(P) > 1 /\ Len(P) # 1
  <2>1. Len(P) \in Nat /\ i \in 1 .. Len(P) /\ i + 1 \in 1 .. Len(P)
    BY <1>2, <1>5, RouteFacts
  <2>2. \A j, n \in Nat : j \in 1 .. n /\ j + 1 \in 1 .. n => n > 1 /\ n # 1
    OBVIOUS
  <2>3. i \in Nat
    BY <1>2, <1>4, SegmentFacts
  <2> QED
    BY <2>1, <2>2, <2>3, Zenon
<1>7. WalkStart(P, i) = Start(P, i)
  BY <1>2, WalkFollowsLegs DEF WalkStart, Start
<1>8. Length(P[i], OnLeg(P, i, now)) = now - Start(P, i)
  <2>1. now - Start(P, i) \in 0 .. Length(P[i], P[i + 1])
    BY <1>2, <1>4, <1>5 DEF LegLength
  <2> QED
    BY <1>5, <2>1, StepsOfLeg DEF OnLeg
<1>9. WalkStart(P, i) + Length(P[i], OnLeg(P, i, now)) = now
  BY <1>2, <1>5, <1>7, <1>8
<1>10. now + (arc - now) = arc
  BY <1>2
<1>11. CellAhead(task_view, last_progress, position, arc - now) = Walk[P][arc]
  BY <1>3, <1>6, <1>9, <1>10 DEF CellAhead
<1>12. Lookahead \in Nat \ {0}
  BY CorridorConfigAssumption DEF CorridorConfigAssumption
<1>13. arc - now \in Checked(task_view, last_progress, position)
  <2> DEFINE length == Smaller(Lookahead, Total(P) - now)
  <2>1. length \in Nat /\ length > 0 /\ arc - now \in 0 .. length
    BY <1>2, <1>12 DEF Smaller
  <2>2. Checked(task_view, last_progress, position) = 0 .. length
    BY <1>3, <1>6, <2>1 DEF Checked
  <2> QED
    BY <2>1, <2>2
<1> QED
  BY <1>11, <1>13

LEMMA CycleIsClear ==
  ASSUME NoShortLegs, RouteInv, NEW position \in Positions \cup {NoRobot},
         NEW cells \in Obstacles, NEW map \in Maps, Cycle(position, cells, map)
  PROVE  ClearMeansClear'
<1> DEFINE P == task_view.points
<1>1. /\ HasRoute /\ task_view' = task_view /\ occupied' = cells
      /\ tracker' = TrackerUpdate(tracker, task_view, position).tracker
      /\ last_progress' = IF UpdatedProgress(position).valid
                            THEN UpdatedProgress(position) ELSE last_progress
      /\ corridor' = GateResult(UpdatedProgress(position),
                                Observed(position, cells, map), map)
  BY DEF Cycle, UpdateProgress
<1> SUFFICES ASSUME corridor' = "CLEAR", Legs(P) # {},
                    last_progress'.arc <
                      Smaller(last_progress'.arc + Lookahead - MaxLag,
                              last_progress'.total),
                    NEW arc \in last_progress'.arc ..
                      Smaller(last_progress'.arc + Lookahead - MaxLag,
                              last_progress'.total)
             PROVE  Walk[P][arc] \notin cells
  BY <1>1 DEF ClearMeansClear
<1>2. last_route_progress = last_progress
  BY <1>1, HeldFacts
<1>3. \/ Observed(position, cells, map) = NoAssessment
      \/ Observed(position, cells, map) =
           Evaluate(task_view, last_progress, position, cells)
  BY <1>2 DEF Observed
<1>4. /\ UpdatedProgress(position).valid /\ last_progress.valid
      /\ ~(UpdatedProgress(position).arc < last_progress.arc)
      /\ ~(UpdatedProgress(position).arc - last_progress.arc > MaxLag)
      /\ \A d \in Checked(task_view, last_progress, position) :
           CellAhead(task_view, last_progress, position, d) \notin cells
  BY <1>1, <1>3, ClearObservation
<1>5. position # NoRobot
  BY <1>1, <1>4, CycleWithoutRobot, NoProgressFields
<1>6. /\ UpdatedProgress(position) = Reported(tracker', task_view)
      /\ BuiltFor(tracker', task_view)
  BY <1>1, <1>5, CycleWithRobot DEF Positions
<1>7. last_progress'.arc = tracker'.arc /\ last_progress'.total = Total(P)
      /\ UpdatedProgress(position).arc = tracker'.arc
  <2> DEFINE r == Reported(tracker', task_view)
  <2>1. r.arc = tracker'.arc /\ r.total = Total(P)
    BY ReportedFields
  <2>2. last_progress' = UpdatedProgress(position)
    BY <1>1, <1>4
  <2> HIDE DEF r
  <2> QED
    BY <1>6, <2>1, <2>2 DEF r
<1>8. /\ P \in Routes /\ tracker.arc \in Nat /\ last_progress.arc = tracker.arc
      /\ Total(P) \in Nat /\ tracker'.arc \in Nat
  <2>1. /\ P \in Routes /\ tracker.arc \in Nat
        /\ last_progress.arc = tracker.arc
    BY <1>1, <1>4, HeldFacts
  <2> QED
    BY <1>6, <2>1, TotalIsNat DEF BuiltFor
<1> DEFINE then == tracker.arc
           now == tracker'.arc
<1>9. /\ Lookahead \in Nat /\ MaxLag \in Nat
  BY CorridorConfigAssumption DEF CorridorConfigAssumption
<1>10. then <= now /\ now - then <= MaxLag
  BY <1>4, <1>7, <1>8, <1>9
<1>11. /\ arc \in Nat /\ now <= arc /\ now < Total(P)
       /\ arc <= now + Lookahead - MaxLag /\ arc <= Total(P)
  BY <1>7, <1>8, <1>9 DEF Smaller
<1>12. /\ then <= arc /\ arc <= then + Lookahead /\ then < Total(P)
  BY <1>8, <1>9, <1>10, <1>11
<1>13. /\ arc - then \in Checked(task_view, last_progress, position)
       /\ CellAhead(task_view, last_progress, position, arc - then) = Walk[P][arc]
  BY <1>4, <1>11, <1>12, SamplesLieOnRoute
<1> QED
  BY <1>4, <1>13

(* The route is driven on a CLEAR: then nothing stands on it between where   *)
(* the robot is now and the end of what was looked at one cycle before.      *)
THEOREM ClearIsClear ==
  ASSUME NoShortLegs PROVE CorridorSpec => []ClearMeansClear
<1> DEFINE Inv == RouteInv /\ ClearMeansClear
<1>1. CorridorInit => Inv
  <2>1. CorridorInit => corridor = "NONE"
    BY DEF CorridorInit
  <2> QED
    BY <2>1, RouteInitially DEF ClearMeansClear
<1>2. Inv /\ [CorridorNext]_corridorVars => Inv'
  <2> SUFFICES ASSUME Inv, [CorridorNext]_corridorVars PROVE Inv'
    OBVIOUS
  <2>1. RouteInv'
    BY StepKeepsRoute
  <2>2. CASE TaskAccepted \/ TaskOver
    <3>1. corridor' = "NONE"
      BY <2>2 DEF TaskAccepted, TaskOver, NothingSeen
    <3> QED
      BY <2>1, <3>1 DEF ClearMeansClear
  <2>3. ASSUME NEW position \in Positions \cup {NoRobot},
               NEW cells \in Obstacles, NEW map \in Maps,
               Cycle(position, cells, map)
        PROVE  ClearMeansClear'
    BY <2>3, CycleIsClear
  <2>4. CASE UNCHANGED corridorVars
    <3>1. /\ task_view' = task_view /\ last_progress' = last_progress
          /\ occupied' = occupied /\ corridor' = corridor
      BY <2>4 DEF corridorVars, routeVars
    <3>2. ClearMeansClear
      OBVIOUS
    <3> QED
      BY <2>1, <3>1, <3>2 DEF ClearMeansClear
  <2> QED
    BY <2>1, <2>2, <2>3, <2>4 DEF CorridorNext
<1>3. Inv => ClearMeansClear
  OBVIOUS
<1> HIDE DEF Inv
<1> QED
  BY <1>1, <1>2, <1>3, PTL DEF CorridorSpec

-----------------------------------------------------------------------------
(* On any route, short legs or not: as long as a task is held its progress   *)
(* is never lost and never falls back, wherever the robot is seen.           *)
NeverFallsBack ==
  [][last_progress.valid /\ task_view'.sequence = task_view.sequence =>
       last_progress'.valid /\ last_progress.arc <= last_progress'.arc
    ]_corridorVars

LEMMA StepNeverFallsBack ==
  ASSUME RouteInv, CorridorNext,
         last_progress.valid, task_view'.sequence = task_view.sequence
  PROVE  last_progress'.valid /\ last_progress.arc <= last_progress'.arc
<1>1. HasRoute /\ task_view.sequence \in Nat /\ task_view.sequence # 0
  BY ValidFacts, HeldFacts
<1>2. ~TaskAccepted
  BY <1>1 DEF TaskAccepted, AcceptRoute, CanAccept
<1>3. ~TaskOver
  BY <1>1 DEF TaskOver, ResetRoute, NoTask
<1>4. PICK position \in Positions \cup {NoRobot}, cells \in Obstacles,
           map \in Maps : Cycle(position, cells, map)
  BY <1>2, <1>3 DEF CorridorNext
<1>5. /\ tracker' = TrackerUpdate(tracker, task_view, position).tracker
      /\ last_progress' = IF UpdatedProgress(position).valid
                            THEN UpdatedProgress(position) ELSE last_progress
  BY <1>1, <1>4 DEF Cycle, UpdateProgress
<1>6. last_progress.arc = tracker.arc /\ tracker.arc \in Nat
  BY <1>1, HeldFacts
<1>7. CASE position = NoRobot
  <2>1. last_progress' = last_progress
    BY <1>1, <1>5, <1>7, CycleWithoutRobot, NoProgressFields
  <2> QED
    BY <1>6, <2>1
<1>8. CASE position # NoRobot
  <2>1. position \in Cells \cup Outside
    BY <1>8 DEF Positions
  <2>2. /\ tracker.arc <= tracker'.arc
        /\ UpdatedProgress(position) = Reported(tracker', task_view)
    BY <1>1, <1>5, <2>1, CycleWithRobot
  <2> DEFINE r == Reported(tracker', task_view)
  <2>3. r.valid = TRUE /\ r.arc = tracker'.arc
    BY ReportedFields
  <2> HIDE DEF r
  <2>4. last_progress' = r
    BY <1>5, <2>2, <2>3 DEF r
  <2> QED
    BY <1>6, <2>2, <2>3, <2>4
<1> QED
  BY <1>7, <1>8

(* Progress never falls back within a task, and is never lost.               *)
THEOREM ProgressNeverFallsBack == CorridorSpec => NeverFallsBack
<1>1. CorridorInit => RouteInv
  BY RouteInitially
<1>2. RouteInv /\ [CorridorNext]_corridorVars => RouteInv'
  BY StepKeepsRoute
<1>3. RouteInv /\ [CorridorNext]_corridorVars =>
        [last_progress.valid /\ task_view'.sequence = task_view.sequence =>
           last_progress'.valid /\ last_progress.arc <= last_progress'.arc
        ]_corridorVars
  BY StepNeverFallsBack
<1> QED
  BY <1>1, <1>2, <1>3, PTL DEF CorridorSpec, NeverFallsBack

=============================================================================
