------------------------ MODULE CmdVelOwnerMuxProofs ------------------------
(***************************************************************************)
(* What the mux guarantees for every set of commands and states, and every *)
(* timeout and rate limit.  First what one step of the slew limiter may    *)
(* do, then the inductive invariant of the mux, then its action            *)
(* properties, each from the invariant and the lemmas about the limiter.   *)
(***************************************************************************)
EXTENDS CmdVelOwnerMux, TLAPS

MaxRate == IF Accel > Decel THEN Accel ELSE Decel

-----------------------------------------------------------------------------
(* A velocity moves towards its target by no more than the step, never past  *)
(* it.                                                                       *)
LEMMA TowardsIsBounded ==
  ASSUME NEW current \in Int, NEW target \in Int, NEW step \in Nat
  PROVE  /\ Towards(current, target, step) \in Int
         /\ Magnitude(Towards(current, target, step) - current) <= step
         /\ current <= target => /\ current <= Towards(current, target, step)
                                 /\ Towards(current, target, step) <= target
         /\ target <= current => /\ target <= Towards(current, target, step)
                                 /\ Towards(current, target, step) <= current
BY DEF Towards, Magnitude

(* One axis of the limiter: bounded by the larger rate, no reversal, between *)
(* the old velocity and the target or zero.                                  *)
LEMMA AxisIsBounded ==
  ASSUME NEW current \in Int, NEW target \in Int,
         NEW accel \in Nat, NEW decel \in Nat, NEW bound \in Nat,
         accel <= bound, decel <= bound
  PROVE  LET out == LimitAxis(current, target, accel, decel) IN
         /\ out \in Int
         /\ Magnitude(out - current) <= bound
         /\ ~Reverses(current, out)
         /\ target = 0 => /\ Magnitude(out) <= Magnitude(current)
                          /\ out < current => out >= 0
         /\ target = current => out = current
<1> DEFINE out == LimitAxis(current, target, accel, decel)
<1>1. CASE Reverses(current, target)
  <2>1. out = Towards(current, 0, decel)
    BY <1>1 DEF LimitAxis
  <2>2. /\ out \in Int /\ Magnitude(out - current) <= bound
        /\ current <= 0 => current <= out /\ out <= 0
        /\ 0 <= current => 0 <= out /\ out <= current
    <3>1. /\ Towards(current, 0, decel) \in Int
          /\ Magnitude(Towards(current, 0, decel) - current) <= decel
          /\ current <= 0 => /\ current <= Towards(current, 0, decel)
                             /\ Towards(current, 0, decel) <= 0
          /\ 0 <= current => /\ 0 <= Towards(current, 0, decel)
                             /\ Towards(current, 0, decel) <= current
      <4>1. 0 \in Int
        OBVIOUS
      <4> QED
        BY <4>1, TowardsIsBounded
    <3> HIDE DEF out
    <3> QED
      BY <2>1, <3>1 DEF Magnitude
  <2> HIDE DEF out
  <2>3. /\ out \in Int /\ Magnitude(out - current) <= bound
        /\ ~Reverses(current, out)
        /\ target = 0 => /\ Magnitude(out) <= Magnitude(current)
                         /\ out < current => out >= 0
        /\ target = current => out = current
    BY <1>1, <2>2 DEF Reverses, Magnitude
  <2> QED
    BY <2>3 DEF out
<1>2. CASE ~Reverses(current, target)
  <2>1. PICK step \in {accel, decel} : out = Towards(current, target, step)
    BY <1>2 DEF LimitAxis
  <2>2. step \in Nat /\ step <= bound
    BY <2>1
  <2>3. /\ out \in Int /\ Magnitude(out - current) <= bound
        /\ current <= target => current <= out /\ out <= target
        /\ target <= current => target <= out /\ out <= current
    <3>1. /\ out \in Int /\ Magnitude(out - current) <= step
          /\ current <= target => current <= out /\ out <= target
          /\ target <= current => target <= out /\ out <= current
      BY <2>1, <2>2, TowardsIsBounded
    <3> QED
      BY <2>2, <3>1 DEF Magnitude
  <2> HIDE DEF out
  <2>4. /\ out \in Int /\ Magnitude(out - current) <= bound
        /\ ~Reverses(current, out)
        /\ target = 0 => /\ Magnitude(out) <= Magnitude(current)
                         /\ out < current => out >= 0
        /\ target = current => out = current
    BY <1>2, <2>3 DEF Reverses, Magnitude
  <2> QED
    BY <2>4 DEF out
<1> QED
  BY <1>1, <1>2

(* A rate over an interval within the limit.                                 *)
LEMMA RateOverInterval ==
  ASSUME NEW rate \in Nat, NEW most \in Nat, rate <= most,
         NEW dt \in Nat, NEW limit \in Nat, dt <= limit
  PROVE  rate * dt \in Nat /\ rate * dt <= limit * most
<1>1. rate * dt <= most * dt /\ most * dt <= most * limit
  BY Z3T(20)
<1>2. rate * dt \in Nat /\ most * dt \in Nat /\ most * limit \in Nat
  BY Z3T(20)
<1>3. most * limit = limit * most
  BY Z3T(20)
<1> QED
  BY <1>1, <1>2, <1>3

(* What one update of the limiter may do to the velocity, whatever the       *)
(* interval.                                                                 *)
LEMMA SlewIsBounded ==
  ASSUME NEW current \in Int, NEW target \in Int, NEW dt \in Int
  PROVE  LET out == Slewed(current, target, dt, DtLimit, Accel, Decel) IN
         /\ out \in Int
         /\ Magnitude(out - current) <= DtLimit * MaxRate
         /\ ~Reverses(current, out)
         /\ target = 0 => /\ Magnitude(out) <= Magnitude(current)
                          /\ out < current => out >= 0
         /\ target = current => out = current
<1>0. DtLimit \in Nat /\ Accel \in Nat /\ Decel \in Nat /\ MaxRate \in Nat
      /\ Accel <= MaxRate /\ Decel <= MaxRate
  BY MuxConfigAssumption DEF MuxConfigAssumption, MaxRate
<1>1. DtLimit * MaxRate \in Nat
  BY <1>0, RateOverInterval
<1>2. CASE dt <= 0 \/ dt > DtLimit
  BY <1>1, <1>2 DEF Slewed, Magnitude, Reverses
<1>3. CASE ~(dt <= 0 \/ dt > DtLimit)
  <2>1. dt \in Nat /\ dt <= DtLimit
    BY <1>0, <1>3
  <2>2. /\ Accel * dt \in Nat /\ Accel * dt <= DtLimit * MaxRate
        /\ Decel * dt \in Nat /\ Decel * dt <= DtLimit * MaxRate
    BY <1>0, <2>1, RateOverInterval
  <2>3. Slewed(current, target, dt, DtLimit, Accel, Decel)
          = LimitAxis(current, target, Accel * dt, Decel * dt)
    BY <1>3 DEF Slewed
  <2> DEFINE out == LimitAxis(current, target, Accel * dt, Decel * dt)
  <2>4. /\ out \in Int /\ Magnitude(out - current) <= DtLimit * MaxRate
        /\ ~Reverses(current, out)
        /\ target = 0 => /\ Magnitude(out) <= Magnitude(current)
                         /\ out < current => out >= 0
        /\ target = current => out = current
    BY <1>1, <2>2, AxisIsBounded
  <2> QED
    BY <2>3, <2>4
<1> QED
  BY <1>2, <1>3

-----------------------------------------------------------------------------
(* The inductive invariant: the output of the robot and the takeover agree   *)
(* with the owner, and every variable has its type.                          *)
MuxInv == MuxTypeOK /\ OutputBelongsToOwner

LEMMA MuxInitInv ==
  ASSUME MuxInit PROVE MuxInv
<1>1. NoCommand \in [vx : Int, age : Ages] /\ Off \in Ages
  BY DEF NoCommand, Ages
<1>2. MuxTypeOK
  <2>1. nav_state \in MuxStates /\ nav_mode \in Modes
    BY DEF MuxInit, MuxStates, Modes
  <2>2. /\ route_cmd \in [vx : Int, age : Ages] /\ scan_cmd \in [vx : Int, age : Ages]
        /\ state_age \in Ages /\ owner_age \in Ages /\ publish_age \in Ages
    BY <1>1 DEF MuxInit
  <2>3. owner \in {"NONE", "ROUTE", "SCAN"} /\ limiter \in Int /\ last_output \in Int
    BY DEF MuxInit
  <2>4. ready \in BOOLEAN /\ forward \in BOOLEAN
    BY Zenon DEF MuxInit
  <2> QED
    BY <2>1, <2>2, <2>3, <2>4 DEF MuxTypeOK
<1> QED
  BY <1>2 DEF MuxInit, MuxInv, OutputBelongsToOwner

(* What the timer decides on is well typed.                                  *)
LEMMA DecisionTypes ==
  ASSUME MuxInv
  PROVE  /\ OwnerNow \in {"NONE", "ROUTE", "SCAN"}
         /\ OwnerAge \in Ages
         /\ OwnerNow # "NONE" => OwnerAge # Off
         /\ LimiterNow = last_output
         /\ Interval \in Int
         /\ RouteTarget \in Int /\ ScanTarget \in Int
         /\ ReadyNow \in BOOLEAN /\ ForwardNow \in BOOLEAN
         /\ ForwardNow /\ OwnerNow # "NONE" => OwnerNow = "SCAN"
<1> USE DEF MuxInv, MuxTypeOK, OutputBelongsToOwner
<1>1. EffectiveOwner \in {"NONE", "ROUTE", "SCAN"}
  BY DEF EffectiveOwner
<1>2. OwnerNow \in {"NONE", "ROUTE", "SCAN"}
  BY <1>1 DEF OwnerNow
<1>3. OwnerAge \in Ages /\ (OwnerNow # "NONE" => OwnerAge # Off)
  BY DEF OwnerAge, Ages, Off
<1>4. LimiterNow = last_output /\ Interval \in Int
  BY DEF LimiterNow, Interval, Ages, Off
<1>5. RouteTarget \in Int /\ ScanTarget \in Int
  BY DEF RouteTarget, ScanTarget
<1>6. ReadyNow \in BOOLEAN /\ ForwardNow \in BOOLEAN
  BY DEF ReadyNow, ForwardNow
<1>7. ForwardNow /\ OwnerNow # "NONE" => OwnerNow = "SCAN"
  BY DEF ForwardNow, KeepsTakeover
<1> QED
  BY <1>2, <1>3, <1>4, <1>5, <1>6, <1>7

(* A step of the timer stops the robot, or moves its velocity one step of    *)
(* the limiter towards the command of the new owner.                         *)
LEMMA TimerOutput ==
  ASSUME MuxInv, MuxTimer
  PROVE  /\ owner' = OwnerNow /\ owner_age' = OwnerAge /\ publish_age' = 0
         /\ limiter' = last_output' /\ UNCHANGED inputs
         /\ owner' = "NONE" => last_output' = 0 /\ ~forward' /\ ~ready'
         /\ owner' = "ROUTE" =>
              /\ last_output' = Slewed(last_output, RouteTarget, Interval,
                                       DtLimit, Accel, Decel)
              /\ ready' = ReadyNow /\ forward' = ForwardNow
         /\ owner' = "SCAN" =>
              /\ last_output' = Slewed(last_output, ScanTarget, Interval,
                                       DtLimit, Accel, Decel)
              /\ ready' = ReadyNow
              /\ forward' = (ForwardNow \/ (ScanDrives /\ scan_cmd.vx >= 0))
<1>1. LimiterNow = last_output
  BY DecisionTypes
<1> QED
  BY <1>1 DEF MuxTimer, MuxHardStop, MuxDriveRoute, MuxDriveScan, MuxDrive

(* Every other step leaves the robot its velocity and its owner.             *)
LEMMA OtherSteps ==
  ASSUME [MuxNext]_muxVars, ~MuxTimer
  PROVE  UNCHANGED <<owner, forward, limiter, last_output>>
BY DEF MuxNext, muxVars, inputs, decisions, RouteCommand, ScanCommand,
       StateReport, ModeReport, TakeoverReady, MuxTick

LEMMA TimerKeepsInv ==
  ASSUME MuxInv, MuxTimer PROVE MuxInv'
<1>1. /\ OwnerNow \in {"NONE", "ROUTE", "SCAN"} /\ OwnerAge \in Ages
      /\ OwnerNow # "NONE" => OwnerAge # Off
      /\ Interval \in Int /\ RouteTarget \in Int /\ ScanTarget \in Int
      /\ ReadyNow \in BOOLEAN /\ ForwardNow \in BOOLEAN
      /\ ForwardNow /\ OwnerNow # "NONE" => OwnerNow = "SCAN"
  BY DecisionTypes
<1>2. last_output \in Int
  BY DEF MuxInv, MuxTypeOK
<1>3. /\ Slewed(last_output, RouteTarget, Interval, DtLimit, Accel, Decel) \in Int
      /\ Slewed(last_output, ScanTarget, Interval, DtLimit, Accel, Decel) \in Int
  BY <1>1, <1>2, SlewIsBounded
<1>4. /\ owner' = OwnerNow /\ owner_age' = OwnerAge /\ publish_age' = 0
      /\ limiter' = last_output' /\ UNCHANGED inputs
  BY TimerOutput
<1>5. CASE owner' = "NONE"
  <2>1. last_output' = 0 /\ ~forward' /\ ~ready'
    BY <1>5, TimerOutput
  <2>2. ready' \in BOOLEAN /\ forward' \in BOOLEAN
    BY <1>4, <1>5 DEF MuxTimer, MuxHardStop, MuxDriveRoute, MuxDriveScan
  <2> QED
    BY <1>1, <1>4, <1>5, <2>1, <2>2
    DEF MuxInv, MuxTypeOK, OutputBelongsToOwner, inputs, Ages
<1>6. CASE owner' = "ROUTE"
  <2>1. /\ last_output' \in Int /\ ready' \in BOOLEAN
        /\ forward' \in BOOLEAN /\ ~forward'
    BY <1>1, <1>3, <1>4, <1>6, TimerOutput
  <2> QED
    BY <1>1, <1>4, <1>6, <2>1
    DEF MuxInv, MuxTypeOK, OutputBelongsToOwner, inputs, Ages, Off
<1>7. CASE owner' = "SCAN"
  <2>1. last_output' \in Int /\ ready' \in BOOLEAN /\ forward' \in BOOLEAN
    BY <1>1, <1>3, <1>7, TimerOutput
  <2> QED
    BY <1>1, <1>4, <1>7, <2>1
    DEF MuxInv, MuxTypeOK, OutputBelongsToOwner, inputs, Ages, Off
<1> QED
  BY <1>1, <1>4, <1>5, <1>6, <1>7

(* An age stays one.                                                         *)
LEMMA AgedTypes ==
  ASSUME NEW age \in Ages, NEW limit \in Nat
  PROVE  Aged(age, limit) \in Ages /\ (age # Off => Aged(age, limit) # Off)
BY DEF Aged, Ages, Off

LEMMA TickKeepsInv ==
  ASSUME MuxInv, MuxTick PROVE MuxInv'
<1> DEFINE hold == IF HandoffHold > ScanTimeout THEN HandoffHold ELSE ScanTimeout
<1>1. /\ Grace \in Nat /\ RouteTimeout \in Nat /\ ScanTimeout \in Nat
      /\ DtLimit \in Nat /\ hold \in Nat
  BY MuxConfigAssumption DEF MuxConfigAssumption
<1>2. /\ state_age' \in Ages /\ owner_age' \in Ages /\ publish_age' \in Ages
      /\ owner_age # Off => owner_age' # Off
      /\ publish_age # Off => publish_age' # Off
  <2>1. state_age \in Ages /\ owner_age \in Ages /\ publish_age \in Ages
    BY DEF MuxInv, MuxTypeOK
  <2>2. /\ state_age' = Aged(state_age, Grace) /\ owner_age' = Aged(owner_age, hold)
        /\ publish_age' = Aged(publish_age, DtLimit)
    BY DEF MuxTick
  <2> QED
    BY <1>1, <2>1, <2>2, AgedTypes
<1>3. /\ route_cmd' \in [vx : Int, age : Ages]
      /\ scan_cmd' \in [vx : Int, age : Ages]
  <2>1. /\ route_cmd \in [vx : Int, age : Ages] /\ scan_cmd \in [vx : Int, age : Ages]
    BY DEF MuxInv, MuxTypeOK
  <2>2. /\ Aged(route_cmd.age, RouteTimeout) \in Ages
        /\ Aged(scan_cmd.age, ScanTimeout) \in Ages
    BY <1>1, <2>1, AgedTypes
  <2> QED
    BY <2>1, <2>2 DEF MuxTick
<1> QED
  BY <1>2, <1>3 DEF MuxTick, MuxInv, MuxTypeOK, OutputBelongsToOwner

(* The subscribers leave the decisions alone.                                *)
LEMMA InputKeepsInv ==
  ASSUME MuxInv,
         \/ \E vx \in Commands, age \in {0, 1} : RouteCommand(vx, age)
         \/ \E vx \in Commands : ScanCommand(vx)
         \/ \E st \in States : StateReport(st)
         \/ \E md \in Modes : ModeReport(md)
         \/ \E isReady \in BOOLEAN : TakeoverReady(isReady)
         \/ UNCHANGED muxVars
  PROVE  MuxInv'
<1>0. Commands \subseteq Int /\ States \subseteq MuxStates
  BY MuxConfigAssumption DEF MuxConfigAssumption
<1> USE DEF MuxInv, MuxTypeOK, OutputBelongsToOwner, decisions
<1>1. CASE \E vx \in Commands, age \in {0, 1} : RouteCommand(vx, age)
  BY <1>0, <1>1 DEF RouteCommand, Ages
<1>2. CASE \E vx \in Commands : ScanCommand(vx)
  BY <1>0, <1>2 DEF ScanCommand, Ages
<1>3. CASE \E st \in States : StateReport(st)
  BY <1>0, <1>3 DEF StateReport, Ages
<1>4. CASE \E md \in Modes : ModeReport(md)
  BY <1>4 DEF ModeReport
<1>5. CASE \E isReady \in BOOLEAN : TakeoverReady(isReady)
  BY <1>5 DEF TakeoverReady, inputs
<1>6. CASE UNCHANGED muxVars
  BY <1>6 DEF muxVars, inputs
<1> QED
  BY <1>1, <1>2, <1>3, <1>4, <1>5, <1>6

LEMMA MuxStepInv ==
  ASSUME MuxInv, [MuxNext]_muxVars PROVE MuxInv'
<1>1. CASE MuxTimer
  BY <1>1, TimerKeepsInv
<1>2. CASE MuxTick
  BY <1>2, TickKeepsInv
<1> QED
  BY <1>1, <1>2, InputKeepsInv DEF MuxNext

(* The mux keeps its invariant.                                              *)
THEOREM MuxInvariant == MuxSpec => []MuxInv
BY MuxInitInv, MuxStepInv, PTL DEF MuxSpec

(* Limiter, output, confirmation and clocks agree with the owner: nobody's   *)
(* robot stands, and no confirmation of SCAN outlives its ownership.         *)
THEOREM OwnerAgrees == MuxSpec => []OutputBelongsToOwner
BY MuxInvariant, PTL DEF MuxInv

-----------------------------------------------------------------------------
(* The robot gets faster only on a fresh command of its owner, SCAN only     *)
(* when it is ready and with a command newer than its ownership.             *)
LEMMA FreshStep ==
  ASSUME MuxInv, [MuxNext]_muxVars,
         Magnitude(last_output') > Magnitude(last_output)
  PROVE  \/ owner' = "ROUTE" /\ Fresh(route_cmd, RouteTimeout)
         \/ /\ owner' = "SCAN" /\ ready'
            /\ Fresh(scan_cmd, ScanTimeout) /\ scan_cmd.age < owner_age'
<1>0. last_output \in Int /\ Interval \in Int
      /\ RouteTarget \in Int /\ ScanTarget \in Int
  BY DecisionTypes DEF MuxInv, MuxTypeOK
<1>1. MuxTimer
  BY <1>0, OtherSteps DEF Magnitude
<1>2. owner' \in {"NONE", "ROUTE", "SCAN"} /\ owner' # "NONE"
  BY <1>0, <1>1, DecisionTypes, TimerOutput DEF Magnitude
<1>3. CASE owner' = "ROUTE"
  <2>1. last_output' = Slewed(last_output, RouteTarget, Interval, DtLimit,
                              Accel, Decel)
    BY <1>1, <1>3, TimerOutput
  <2>2. RouteTarget # 0
    <3> DEFINE out == Slewed(last_output, RouteTarget, Interval, DtLimit, Accel, Decel)
    <3>1. /\ out \in Int
          /\ RouteTarget = 0 => Magnitude(out) <= Magnitude(last_output)
      BY <1>0, SlewIsBounded
    <3>2. last_output' = out
      BY <2>1
    <3> HIDE DEF out
    <3> QED
      BY <1>0, <3>1, <3>2 DEF Magnitude
  <2> QED
    BY <1>3, <2>2 DEF RouteTarget
<1>4. CASE owner' = "SCAN"
  <2>1. /\ last_output' = Slewed(last_output, ScanTarget, Interval, DtLimit,
                                 Accel, Decel)
        /\ ready' = ReadyNow /\ owner_age' = OwnerAge
    BY <1>1, <1>4, TimerOutput
  <2>2. ScanTarget # 0 /\ ScanTarget # last_output
    <3> DEFINE out == Slewed(last_output, ScanTarget, Interval, DtLimit, Accel, Decel)
    <3>1. /\ out \in Int
          /\ ScanTarget = 0 => Magnitude(out) <= Magnitude(last_output)
          /\ ScanTarget = last_output => out = last_output
      BY <1>0, SlewIsBounded
    <3>2. last_output' = out
      BY <2>1
    <3> HIDE DEF out
    <3> QED
      BY <1>0, <3>1, <3>2 DEF Magnitude
  <2>3. ScanDrives
    BY <2>2 DEF ScanTarget
  <2> QED
    BY <1>4, <2>1, <2>3 DEF ScanDrives, ScanCommandUsable
<1> QED
  BY <1>2, <1>3, <1>4

THEOREM FreshCommandsOnly == MuxSpec => SpeedsUpOnlyOnFreshCommand
<1>1. MuxInv /\ [MuxNext]_muxVars =>
        [Magnitude(last_output') > Magnitude(last_output) =>
           \/ owner' = "ROUTE" /\ Fresh(route_cmd, RouteTimeout)
           \/ /\ owner' = "SCAN" /\ ready'
              /\ Fresh(scan_cmd, ScanTimeout) /\ scan_cmd.age < owner_age']_muxVars
  BY FreshStep
<1> QED
  BY <1>1, MuxInvariant, PTL DEF MuxSpec, SpeedsUpOnlyOnFreshCommand

(* A takeover never makes the robot reverse before SCAN has commanded        *)
(* forward motion in it.                                                     *)
LEMMA ForwardFirstStep ==
  ASSUME MuxInv, [MuxNext]_muxVars,
         owner' = "SCAN", last_output' < last_output
  PROVE  forward' \/ last_output' >= 0
<1>0. last_output \in Int /\ Interval \in Int /\ ScanTarget \in Int
      /\ scan_cmd.vx \in Int
  BY DecisionTypes DEF MuxInv, MuxTypeOK
<1>1. MuxTimer
  BY <1>0, OtherSteps
<1>2. /\ last_output' = Slewed(last_output, ScanTarget, Interval, DtLimit,
                               Accel, Decel)
      /\ forward' = (ForwardNow \/ (ScanDrives /\ scan_cmd.vx >= 0))
  BY <1>1, TimerOutput
<1>3. ScanTarget # last_output
  BY <1>0, <1>2, SlewIsBounded
<1>4. CASE ScanTarget = 0
  BY <1>0, <1>2, <1>4, SlewIsBounded
<1>5. CASE ScanTarget # 0
  BY <1>2, <1>3, <1>5 DEF ScanTarget
<1> QED
  BY <1>4, <1>5

THEOREM ForwardFirst == MuxSpec => NoReverseBeforeForward
<1>1. MuxInv /\ [MuxNext]_muxVars =>
        [owner' = "SCAN" /\ last_output' < last_output =>
           \/ forward'
           \/ last_output' >= 0]_muxVars
  BY ForwardFirstStep
<1> QED
  BY <1>1, MuxInvariant, PTL DEF MuxSpec, NoReverseBeforeForward

(* Outside a stop the velocity never jumps and never changes its sign        *)
(* without a stand, whoever gets or loses the robot.                         *)
LEMMA ContinuousStep ==
  ASSUME MuxInv, [MuxNext]_muxVars, owner' # "NONE"
  PROVE  /\ Magnitude(last_output' - last_output)
              <= DtLimit * (IF Accel > Decel THEN Accel ELSE Decel)
         /\ ~Reverses(last_output, last_output')
<1>0. last_output \in Int /\ Interval \in Int
      /\ RouteTarget \in Int /\ ScanTarget \in Int
  BY DecisionTypes DEF MuxInv, MuxTypeOK
<1>1. CASE MuxTimer
  <2>1. PICK target \in {RouteTarget, ScanTarget} :
          last_output' = Slewed(last_output, target, Interval, DtLimit,
                                Accel, Decel)
    BY <1>1, DecisionTypes, TimerOutput
  <2> QED
    BY <1>0, <2>1, SlewIsBounded DEF MaxRate
<1>2. CASE ~MuxTimer
  <2>1. last_output' = last_output
    BY <1>2, OtherSteps
  <2>2. DtLimit * MaxRate >= 0
    <3>1. DtLimit \in Nat /\ MaxRate \in Nat
      BY MuxConfigAssumption DEF MuxConfigAssumption, MaxRate
    <3> QED
      BY <3>1, RateOverInterval
  <2> QED
    BY <1>0, <2>1, <2>2 DEF MaxRate, Magnitude, Reverses
<1> QED
  BY <1>1, <1>2

THEOREM NoJumps == MuxSpec => VelocityIsContinuous
<1>1. MuxInv /\ [MuxNext]_muxVars =>
        [owner' # "NONE" =>
           /\ Magnitude(last_output' - last_output)
                <= DtLimit * (IF Accel > Decel THEN Accel ELSE Decel)
           /\ ~Reverses(last_output, last_output')]_muxVars
  BY ContinuousStep
<1> QED
  BY <1>1, MuxInvariant, PTL DEF MuxSpec, VelocityIsContinuous

=============================================================================
