------------------------- MODULE ScanTakeoverProofs -------------------------
(***************************************************************************)
(* What the mux believes of native SCAN, for every order in which the five *)
(* topics deliver.  The invariant adds what an announcement under way      *)
(* promises: a ready that is still to arrive was sent after the last       *)
(* flush, since a flush replaces it by its own message.  And that among    *)
(* its neighbours the mux does nothing that its own module does not allow. *)
(***************************************************************************)
EXTENDS ScanTakeover, CmdVelOwnerMuxProofs

Backed == receive_traj /\ ~waiting

(* What is announced, or was and has not been taken back, is true.           *)
ReadinessInv ==
  /\ ready_msg \in SUBSET BOOLEAN
  /\ TRUE \in ready_msg => Backed
  /\ ready /\ ready_msg = {} => Backed

LEMMA ReadinessInit ==
  ASSUME TakeoverInit PROVE ReadinessInv
BY DEF TakeoverInit, MuxInit, ControllerInit, ReadinessInv

(* The mux never takes SCAN for ready by itself.                             *)
LEMMA MuxNeverRaisesReady ==
  ASSUME MuxTimer, ready' PROVE ready
BY DEF MuxTimer, MuxHardStop, MuxDriveRoute, MuxDriveScan, MuxDrive, ReadyNow

LEMMA UntouchedReadiness ==
  ASSUME ReadinessInv, UNCHANGED <<ready, controllerVars>> PROVE ReadinessInv'
<1>1. /\ ready' = ready /\ receive_traj' = receive_traj
      /\ waiting' = waiting /\ ready_msg' = ready_msg
  BY DEF controllerVars
<1>2. ready_msg' \in SUBSET BOOLEAN
  BY <1>1 DEF ReadinessInv
<1>3. Backed => Backed'
  BY Zenon, <1>1 DEF Backed
<1>4. TRUE \in ready_msg' => Backed'
  BY <1>1, <1>3 DEF ReadinessInv
<1>5. ready' /\ ready_msg' = {} => Backed'
  <2>1. SUFFICES ASSUME ready', ready_msg' = {} PROVE Backed
    BY <1>3
  <2>2. ready /\ ready_msg = {}
    BY <1>1, <2>1
  <2> QED
    BY <2>2 DEF ReadinessInv
<1> QED
  BY <1>2, <1>4, <1>5 DEF ReadinessInv

LEMMA NavigatorLeavesReadiness ==
  ASSUME NavigatorCycle
  PROVE  UNCHANGED <<ready, controllerVars>>
BY DEF NavigatorCycle, NavigatorStarts, NavigatorAligned, NavigatorTracks,
       NavigatorBlind, NavigatorPauses, NavigatorResumes, NavigatorEnds,
       others, muxVars

LEMMA DeliveryKeepsReadiness ==
  ASSUME ReadinessInv, Deliver PROVE ReadinessInv'
<1> USE DEF ReadinessInv, Backed
<1>1. CASE DeliverState \/ DeliverMode
  <2>1. UNCHANGED <<ready, controllerVars>>
    BY <1>1 DEF DeliverState, DeliverMode, StateReport, ModeReport
  <2> QED
    BY <2>1, UntouchedReadiness
<1>2. CASE DeliverSync
  BY <1>2 DEF DeliverSync, TakeoverSync, muxVars
<1>3. CASE DeliverReset
  BY <1>3 DEF DeliverReset, ControllerReset, muxVars
<1>4. CASE DeliverReady
  <2>1. PICK isReady \in ready_msg : ready' = isReady
    BY <1>4 DEF DeliverReady, TakeoverReady
  <2>2. ready_msg' = {} /\ UNCHANGED <<receive_traj, waiting>>
    BY <1>4 DEF DeliverReady
  <2>3. isReady \in BOOLEAN /\ (isReady = TRUE => Backed)
    BY <2>1
  <2> QED
    BY <2>1, <2>2, <2>3
<1> QED
  BY <1>1, <1>2, <1>3, <1>4 DEF Deliver

LEMMA ReadinessStep ==
  ASSUME ReadinessInv, [TakeoverNext]_takeoverVars PROVE ReadinessInv'
<1> USE DEF ReadinessInv, Backed
<1>1. CASE NavigatorCycle
  BY <1>1, NavigatorLeavesReadiness, UntouchedReadiness
<1>2. CASE ControllerStep
  BY <1>2 DEF ControllerStep, Bspline, muxVars
<1>3. CASE MuxStep
  <2>1. UNCHANGED controllerVars
    BY <1>3 DEF MuxStep
  <2>2. ready' => ready
    BY <1>3, MuxNeverRaisesReady DEF MuxStep, MuxTick
  <2> QED
    BY <2>1, <2>2 DEF controllerVars
<1>4. CASE UNCHANGED takeoverVars
  BY <1>4, UntouchedReadiness DEF takeoverVars, muxVars
<1> QED
  BY <1>1, <1>2, <1>3, <1>4, DeliveryKeepsReadiness DEF TakeoverNext

(* Once no announcement is under way, a mux that takes SCAN for ready is     *)
(* right: the controller follows a trajectory from after its last flush.     *)
THEOREM ReadinessIsBacked == TakeoverSpec => []ReadyIsBacked
<1>1. ReadinessInv => ReadyIsBacked
  BY DEF ReadinessInv, ReadyIsBacked, Backed
<1> QED
  BY <1>1, ReadinessInit, ReadinessStep, PTL DEF TakeoverSpec

-----------------------------------------------------------------------------
(* The handover of a robot that is being driven: commands of both sides      *)
(* arrive at any time, of any age and velocity.                              *)
CommandsArrive ==
  /\ \/ \E vx \in Commands, age \in {0, 1} : RouteCommand(vx, age)
     \/ \E vx \in Commands : ScanCommand(vx)
  /\ UNCHANGED <<controllerVars, navigator, reports, requests>>

DrivenNext == TakeoverNext \/ CommandsArrive

DrivenSpec == TakeoverInit /\ [][DrivenNext]_takeoverVars

LEMMA CommandsLeaveReadiness ==
  ASSUME CommandsArrive PROVE UNCHANGED <<ready, controllerVars>>
BY DEF CommandsArrive, RouteCommand, ScanCommand

LEMMA DrivenReadiness ==
  ASSUME ReadinessInv, [DrivenNext]_takeoverVars PROVE ReadinessInv'
BY ReadinessStep, CommandsLeaveReadiness, UntouchedReadiness DEF DrivenNext

(* Whatever is under way to the mux is a message it knows.                   *)
ReportsKnown ==
  /\ state_msg \subseteq {"IDLE", "START_ALIGN", "TRACKING", "PAUSED"}
  /\ mode_msg \subseteq Modes

LEMMA ReportsInit == TakeoverInit => ReportsKnown
BY DEF TakeoverInit, ReportsKnown

LEMMA ReportsStep ==
  ASSUME ReportsKnown, [DrivenNext]_takeoverVars PROVE ReportsKnown'
<1>1. CASE NavigatorCycle
  BY <1>1
  DEF ReportsKnown, NavigatorCycle, NavigatorStarts, NavigatorAligned,
      NavigatorTracks, NavigatorBlind, NavigatorPauses, NavigatorResumes,
      NavigatorEnds, Reports, reports, Modes
<1>2. CASE Deliver
  BY <1>2
  DEF ReportsKnown, Deliver, DeliverState, DeliverMode, DeliverSync,
      DeliverReset, DeliverReady, reports
<1>3. CASE \/ ControllerStep \/ MuxStep \/ CommandsArrive
           \/ UNCHANGED takeoverVars
  BY <1>3
  DEF ReportsKnown, ControllerStep, MuxStep, CommandsArrive, takeoverVars,
      reports
<1> QED
  BY <1>1, <1>2, <1>3 DEF DrivenNext, TakeoverNext

(* In the handover the mux takes its own steps only: a topic delivers what   *)
(* one of its subscribers takes, and the other parts leave it alone.         *)
LEMMA HandoverIsMuxStep ==
  ASSUME ReadinessInv, ReportsKnown, [DrivenNext]_takeoverVars,
         {"IDLE", "START_ALIGN", "TRACKING", "PAUSED"} \subseteq States
  PROVE  [MuxNext]_muxVars
<1>1. CASE NavigatorCycle
  BY <1>1
  DEF NavigatorCycle, NavigatorStarts, NavigatorAligned, NavigatorTracks,
      NavigatorBlind, NavigatorPauses, NavigatorResumes, NavigatorEnds, others
<1>2. CASE DeliverState
  <2>1. \E st \in States : StateReport(st)
    BY <1>2 DEF DeliverState, ReportsKnown
  <2> QED
    BY <2>1 DEF MuxNext
<1>3. CASE DeliverMode
  <2>1. \E md \in Modes : ModeReport(md)
    BY <1>3 DEF DeliverMode, ReportsKnown
  <2> QED
    BY <2>1 DEF MuxNext
<1>4. CASE DeliverReady
  <2>1. \E isReady \in BOOLEAN : TakeoverReady(isReady)
    BY <1>4 DEF DeliverReady, ReadinessInv
  <2> QED
    BY <2>1 DEF MuxNext
<1>5. CASE \/ DeliverSync \/ DeliverReset \/ ControllerStep
           \/ UNCHANGED takeoverVars
  BY <1>5 DEF DeliverSync, DeliverReset, ControllerStep, takeoverVars
<1>6. CASE MuxStep \/ CommandsArrive
  BY <1>6 DEF MuxStep, CommandsArrive, MuxNext
<1> QED
  BY <1>1, <1>2, <1>3, <1>4, <1>5, <1>6 DEF DrivenNext, TakeoverNext, Deliver

(* The handover implements the mux: among its neighbours, which send only    *)
(* what the mux's own specification lets anybody send, it keeps all that is  *)
(* proved of it alone.                                                       *)
THEOREM HandoverImplementsMux ==
  ASSUME {"IDLE", "START_ALIGN", "TRACKING", "PAUSED"} \subseteq States
  PROVE  DrivenSpec => MuxSpec
<1>1. TakeoverInit => MuxInit
  BY DEF TakeoverInit
<1>2. ReadinessInv /\ ReportsKnown /\ [DrivenNext]_takeoverVars
        => [MuxNext]_muxVars
  BY HandoverIsMuxStep
<1> QED
  BY <1>1, <1>2, ReadinessInit, DrivenReadiness, ReportsInit, ReportsStep, PTL
  DEF DrivenSpec, MuxSpec

(* So while the robot is driven through a handover its velocity never jumps, *)
(* SCAN never reverses it before it has driven it forward, it speeds up only *)
(* on a fresh command of its owner, owner and output agree, and what the mux *)
(* believes of SCAN is true.                                                 *)
THEOREM HandoverIsSafe ==
  ASSUME {"IDLE", "START_ALIGN", "TRACKING", "PAUSED"} \subseteq States
  PROVE  DrivenSpec => /\ []OutputBelongsToOwner
                       /\ SpeedsUpOnlyOnFreshCommand
                       /\ NoReverseBeforeForward
                       /\ VelocityIsContinuous
                       /\ []ReadyIsBacked
<1>1. DrivenSpec => []ReadyIsBacked
  <2>1. ReadinessInv => ReadyIsBacked
    BY DEF ReadinessInv, ReadyIsBacked, Backed
  <2> QED
    BY <2>1, ReadinessInit, DrivenReadiness, PTL DEF DrivenSpec
<1> QED
  BY <1>1, HandoverImplementsMux, OwnerAgrees, FreshCommandsOnly, ForwardFirst,
     NoJumps, PTL

=============================================================================
