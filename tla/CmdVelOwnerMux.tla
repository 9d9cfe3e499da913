--------------------------- MODULE CmdVelOwnerMux ---------------------------
(***************************************************************************)
(* cmd_vel_owner_mux: the only publisher of /cmd_vel.  From the navigation *)
(* state and mode it decides who owns the robot, the route controller or   *)
(* native SCAN, and publishes the owner's fresh command through the slew   *)
(* limiter.  SCAN may drive only after a takeover_ready message and with a *)
(* command newer than the change of owner; until it has once commanded     *)
(* forward motion its reverse commands are blocked.                        *)
(*                                                                         *)
(* A velocity is its linear.x.  Stamps are ages in ticks of the ROS clock: *)
(* two events of one tick have equal stamps.                               *)
(***************************************************************************)
EXTENDS VelocitySlewLimiter, NavigationMode, Timers

CONSTANTS
  States,       (* the navigation states reported                            *)
  Commands,     (* the velocities commanded                                  *)
  RouteTimeout, (* route_cmd_timeout, in ticks                               *)
  ScanTimeout,  (* scan_cmd_timeout                                          *)
  Grace,        (* mode_sync_grace_sec                                       *)
  HandoffHold,  (* scan_handoff_hold_sec                                     *)
  Accel, Decel, (* handoff_accel_x and handoff_decel_x, per tick             *)
  DtLimit       (* 0.2 s: the longest interval the limiter accepts           *)

MuxStates == {"IDLE", "PLANNING", "START_ALIGN", "TRACKING", "PAUSED",
              "SUCCEEDED", "FAILED"}

ASSUME MuxConfigAssumption ==
  /\ States \subseteq MuxStates
  /\ Commands \subseteq Int
  /\ RouteTimeout \in Nat \ {0} /\ ScanTimeout \in Nat \ {0}
  /\ Grace \in Nat /\ HandoffHold \in Nat
  /\ Accel \in Nat /\ Decel \in Nat
  /\ DtLimit \in Nat \ {0}

VARIABLES
  nav_state,   (* nav_state_                                                 *)
  nav_mode,    (* navigation_mode_                                           *)
  state_age,   (* since nav_state_change_stamp_sec_                          *)
  route_cmd,   (* latest_route_cmd_ and its age                              *)
  scan_cmd,    (* latest_scan_cmd_ and its age                               *)
  owner,       (* previous_owner_                                            *)
  owner_age,   (* since owner_change_stamp_sec_                              *)
  ready,       (* scan_takeover_ready                                        *)
  forward,     (* scan_takeover_forward_confirmed                            *)
  limiter,     (* slew_limiter_.vx_                                          *)
  last_output, (* last_output_cmd_: the velocity the robot was sent          *)
  publish_age  (* since last_publish_stamp_sec_                              *)

inputs  == <<nav_state, nav_mode, state_age, route_cmd, scan_cmd>>
muxVars == <<inputs, owner, owner_age, ready, forward, limiter, last_output,
             publish_age>>

NoCommand == [vx |-> 0, age |-> Off]

MuxInit ==
  /\ nav_state = "IDLE" /\ nav_mode = "NONE" /\ state_age = Off
  /\ route_cmd = NoCommand /\ scan_cmd = NoCommand
  /\ owner = "NONE" /\ owner_age = Off
  /\ ready = FALSE /\ forward = FALSE
  /\ limiter = 0 /\ last_output = 0 /\ publish_age = Off

-----------------------------------------------------------------------------
(* The subscribers.                                                          *)
decisions == <<owner, owner_age, forward, limiter, last_output, publish_age>>

RouteCommand(vx, age) ==
  /\ route_cmd' = [vx |-> vx, age |-> age]
  /\ UNCHANGED <<nav_state, nav_mode, state_age, scan_cmd, ready, decisions>>

ScanCommand(vx) ==
  /\ scan_cmd' = [vx |-> vx, age |-> 0]
  /\ UNCHANGED <<nav_state, nav_mode, state_age, route_cmd, ready, decisions>>

StateReport(st) ==
  /\ nav_state' = st
  /\ state_age' = IF st # nav_state THEN 0 ELSE state_age
  /\ UNCHANGED <<nav_mode, route_cmd, scan_cmd, ready, decisions>>

ModeReport(md) ==
  /\ nav_mode' = md
  /\ UNCHANGED <<nav_state, state_age, route_cmd, scan_cmd, ready, decisions>>

TakeoverReady(isReady) ==
  /\ ready' = isReady
  /\ UNCHANGED <<inputs, decisions>>

-----------------------------------------------------------------------------
(* The timer.                                                                *)
EffectiveOwner ==
  CASE nav_state = "START_ALIGN" -> "ROUTE"
    [] nav_state = "TRACKING" /\ nav_mode = "ROUTE_FOLLOW" -> "ROUTE"
    [] nav_state = "TRACKING" /\ nav_mode = "LOCAL_AVOID" -> "SCAN"
    [] OTHER -> "NONE"

(* State and mode arrive on topics of their own: shortly after TRACKING was  *)
(* reported a missing mode does not take the robot from its owner.           *)
GraceHolds ==
  /\ nav_state = "TRACKING" /\ EffectiveOwner = "NONE" /\ owner # "NONE"
  /\ state_age # Off /\ state_age < Grace

OwnerNow == IF GraceHolds THEN owner ELSE EffectiveOwner
OwnerAge == IF OwnerNow # owner THEN 0 ELSE owner_age

(* A takeover starts anew when SCAN gets the robot from the route, and ends  *)
(* with its ownership.                                                       *)
KeepsTakeover == OwnerNow = owner \/ (owner = "NONE" /\ OwnerNow = "SCAN")
ReadyNow   == ready /\ KeepsTakeover
ForwardNow == forward /\ KeepsTakeover

Fresh(cmd, timeout) == cmd.age # Off /\ cmd.age <= timeout
(* Variant: a command from before the handoff is good enough.                *)
AnyScanCommand == Fresh(scan_cmd, ScanTimeout)

ScanCommandUsable ==
  /\ scan_cmd.age # Off /\ scan_cmd.age < OwnerAge
  /\ Fresh(scan_cmd, ScanTimeout)
ScanDrives == ReadyNow /\ ScanCommandUsable

(* Variant: the last route command is good for ever.                         *)
RouteTargetLatest == route_cmd.vx

RouteTarget == IF Fresh(route_cmd, RouteTimeout) THEN route_cmd.vx ELSE 0

(* Variant: reverse commands pass before a forward one.                      *)
ScanTargetUnchecked ==
  CASE ScanDrives -> scan_cmd.vx
    [] ~ReadyNow /\ OwnerAge < HandoffHold -> last_output
    [] OTHER -> 0

(* Until SCAN is ready the robot keeps its speed for a moment.               *)
ScanTarget ==
  CASE ScanDrives /\ (ForwardNow \/ scan_cmd.vx >= 0) -> scan_cmd.vx
    [] ~ReadyNow /\ OwnerAge < HandoffHold -> last_output
    [] OTHER -> 0

LimiterNow == IF OwnerNow # owner THEN last_output ELSE limiter
Interval   == IF publish_age = Off THEN 1 ELSE publish_age

(* Variant: a stop is slewed like any other target.                          *)
MuxHardStopSlewed ==
  /\ OwnerNow = "NONE"
  /\ ready' = FALSE /\ forward' = FALSE
  /\ last_output' = Slewed(LimiterNow, 0, Interval, DtLimit, Accel, Decel)
  /\ limiter' = last_output'

(* IDLE, PLANNING, PAUSED, SUCCEEDED, FAILED, or nobody's robot.             *)
MuxHardStop ==
  /\ OwnerNow = "NONE"
  /\ ready' = FALSE /\ forward' = FALSE
  /\ limiter' = 0 /\ last_output' = 0

MuxDrive(target) ==
  /\ ready' = ReadyNow
  /\ last_output' = Slewed(LimiterNow, target, Interval, DtLimit, Accel, Decel)
  /\ limiter' = last_output'

MuxDriveRoute ==
  /\ OwnerNow = "ROUTE"
  /\ MuxDrive(RouteTarget)
  /\ forward' = ForwardNow

MuxDriveScan ==
  /\ OwnerNow = "SCAN"
  /\ MuxDrive(ScanTarget)
  /\ forward' = (ForwardNow \/ (ScanDrives /\ scan_cmd.vx >= 0))

MuxTimer ==
  /\ MuxHardStop \/ MuxDriveRoute \/ MuxDriveScan
  /\ owner' = OwnerNow
  /\ owner_age' = OwnerAge
  /\ publish_age' = 0
  /\ UNCHANGED inputs

MuxTick ==
  /\ state_age' = Aged(state_age, Grace)
  /\ route_cmd' = [route_cmd EXCEPT !.age = Aged(@, RouteTimeout)]
  /\ scan_cmd' = [scan_cmd EXCEPT !.age = Aged(@, ScanTimeout)]
  /\ owner_age' = Aged(owner_age, IF HandoffHold > ScanTimeout THEN HandoffHold
                                                              ELSE ScanTimeout)
  /\ publish_age' = Aged(publish_age, DtLimit)
  /\ UNCHANGED <<nav_state, nav_mode, owner, ready, forward, limiter,
                 last_output>>

-----------------------------------------------------------------------------
(* The mux under any publishers: every message in any order.                 *)
MuxNext ==
  \/ \E vx \in Commands, age \in {0, 1} : RouteCommand(vx, age)
  \/ \E vx \in Commands : ScanCommand(vx)
  \/ \E st \in States : StateReport(st)
  \/ \E md \in Modes : ModeReport(md)
  \/ \E isReady \in BOOLEAN : TakeoverReady(isReady)
  \/ MuxTimer
  \/ MuxTick

MuxSpec == MuxInit /\ [][MuxNext]_muxVars

(* The timer fires and time passes for ever.                                 *)
MuxFairness == WF_muxVars(MuxTimer) /\ WF_muxVars(MuxTick)

-----------------------------------------------------------------------------
Ages == Nat \cup {Off}

MuxTypeOK ==
  /\ nav_state \in MuxStates /\ nav_mode \in Modes
  /\ route_cmd \in [vx : Int, age : Ages] /\ scan_cmd \in [vx : Int, age : Ages]
  /\ state_age \in Ages /\ owner_age \in Ages /\ publish_age \in Ages
  /\ owner \in {"NONE", "ROUTE", "SCAN"}
  /\ ready \in BOOLEAN /\ forward \in BOOLEAN
  /\ limiter \in Int /\ last_output \in Int

(* The limiter never holds another velocity than the one the robot was sent, *)
(* the robot stands while nobody owns it, and SCAN's confirmation lives no   *)
(* longer than its ownership.                                                *)
OutputBelongsToOwner ==
  /\ limiter = last_output
  /\ owner = "NONE" => last_output = 0
  /\ forward => owner = "SCAN"
  /\ owner # "NONE" => owner_age # Off /\ publish_age # Off

(* The robot gets faster only on a fresh command of its owner; SCAN must be  *)
(* ready and its command newer than its ownership.                           *)
SpeedsUpOnlyOnFreshCommand ==
  [][Magnitude(last_output') > Magnitude(last_output) =>
       \/ owner' = "ROUTE" /\ Fresh(route_cmd, RouteTimeout)
       \/ /\ owner' = "SCAN" /\ ready'
          /\ Fresh(scan_cmd, ScanTimeout) /\ scan_cmd.age < owner_age']_muxVars

(* A takeover never makes the robot reverse before SCAN has commanded        *)
(* forward motion in it: a reverse motion it inherits only decays.           *)
NoReverseBeforeForward ==
  [][owner' = "SCAN" /\ last_output' < last_output =>
       \/ forward'
       \/ last_output' >= 0]_muxVars

(* Outside a stop the velocity never jumps, across changes of owner as well, *)
(* and never changes its sign without a stand.                               *)
VelocityIsContinuous ==
  [][owner' # "NONE" =>
       /\ Magnitude(last_output' - last_output)
            <= DtLimit * (IF Accel > Decel THEN Accel ELSE Decel)
       /\ ~Reverses(last_output, last_output')]_muxVars

(* When a lasting owner falls silent the robot comes to a stand, as long as  *)
(* the timer keeps to the intervals the limiter accepts.                     *)
SilenceStopsRobot ==
  \A o \in {"ROUTE", "SCAN"} :
    <>[](/\ owner = o /\ publish_age <= DtLimit
         /\ ~Fresh(route_cmd, RouteTimeout) /\ ~Fresh(scan_cmd, ScanTimeout))
      => <>[](last_output = 0)

=============================================================================
