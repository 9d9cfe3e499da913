------------------------ MODULE VelocitySlewLimiter ------------------------
(***************************************************************************)
(* navdog_runtime::VelocitySlewLimiter: how far one axis of the velocity   *)
(* may move towards its target in one update.  Velocities are integers in  *)
(* a unit of the reader's choice; rates are per tick, dt is in ticks.      *)
(***************************************************************************)
EXTENDS Integers

Magnitude(v) == IF v < 0 THEN -v ELSE v

(* By at most step, towards the target.                                      *)
Towards(current, target, step) ==
  IF Magnitude(target - current) <= step THEN target
  ELSE IF target > current THEN current + step ELSE current - step

Reverses(current, target) ==
  (current < 0 /\ target > 0) \/ (current > 0 /\ target < 0)

(* Variant: a reversal is no different.                                      *)
LimitAxisThroughZero(current, target, accel, decel) ==
  IF Magnitude(target) > Magnitude(current)
    THEN Towards(current, target, accel)
    ELSE Towards(current, target, decel)

(* A reversal first decelerates to a stand; a growing speed is limited by    *)
(* the acceleration, a falling one by the deceleration.                      *)
LimitAxis(current, target, accel, decel) ==
  IF Reverses(current, target) THEN Towards(current, 0, decel)
  ELSE IF Magnitude(target) > Magnitude(current)
         THEN Towards(current, target, accel)
         ELSE Towards(current, target, decel)

(* An interval of no length, or one that is too long, leaves the output.     *)
Slewed(current, target, dt, dtLimit, accel, decel) ==
  IF dt <= 0 \/ dt > dtLimit THEN current
  ELSE LimitAxis(current, target, accel * dt, decel * dt)

=============================================================================
