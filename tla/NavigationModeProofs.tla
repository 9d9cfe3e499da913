------------------------ MODULE NavigationModeProofs ------------------------
(***************************************************************************)
(* What the mode manager guarantees for every set of tasks and every       *)
(* confirmation and hold time.  The candidate timers belong to the mode    *)
(* they may end; no candidate is older than the run of observations that   *)
(* started it; the mode has been held at least as long as the candidate    *)
(* for leaving it says.  From these three follow that every change of the  *)
(* mode is confirmed and that an update stays within the relation the      *)
(* coordinator is modelled over.                                           *)
(***************************************************************************)
EXTENDS NavigationModeTiming, TLAPS

Times == Nat \cup {Off}

(* No candidate is older than what was observed.                             *)
CandidatesAreObserved ==
  /\ blocked_age # Off => blocked_for # Off /\ blocked_age <= blocked_for
  /\ clear_age # Off => clear_for # Off /\ clear_age <= clear_for

(* The hold timer and the exit candidate never claim more than the stay.     *)
StayIsMeasured ==
  /\ mode # "NONE" => hold_age # Off /\ hold_age <= stay
  /\ clear_age # Off => clear_age <= ExitConfirm + 1 /\ MinHold + clear_age <= stay

ModeInv ==
  /\ ModeTypeOK
  /\ TimersBelongToMode
  /\ CandidatesAreObserved
  /\ StayIsMeasured

LEMMA ConfigFacts ==
  /\ EnterConfirm \in Nat /\ MinHold \in Nat /\ ExitConfirm \in Nat
  /\ NoTask.sequence = 0
  /\ \A t \in ModeTasks : t.sequence \in Nat /\ t.sequence # 0 /\ t # NoTask
  /\ \A t1, t2 \in ModeTasks : t1.sequence = t2.sequence => t1 = t2
BY ModeConfigAssumption DEF ModeConfigAssumption, NoTask

LEMMA ModeInitInv ==
  ASSUME TimingInit PROVE ModeInv
<1>1. ModeTypeOK
  BY DEF TimingInit, ModeInit, ModeTypeOK, Modes, Unseen, Off
<1> QED
  BY <1>1 DEF TimingInit, ModeInit, ModeInv, TimersBelongToMode,
              CandidatesAreObserved, StayIsMeasured

-----------------------------------------------------------------------------
(* The timers initializeForTask leaves are those of the mode it leaves.      *)
LEMMA InitializedTimers ==
  ASSUME ModeInv, NEW task \in ModeTasks
  PROVE  /\ From(task) \in {"ROUTE_FOLLOW", "LOCAL_AVOID"}
         /\ ~IsNew(task) => active = task /\ From(task) = mode
         /\ IsNew(task) => From(task) = "ROUTE_FOLLOW"
         /\ BlockedCandidate(task) \in Times /\ ClearCandidate(task) \in Times
         /\ Hold(task) \in Nat
         /\ BlockedCandidate(task) # Off =>
              /\ ~IsNew(task) /\ From(task) = "ROUTE_FOLLOW"
              /\ AvoidanceAllowed(task.mode)
              /\ blocked_for # Off /\ BlockedCandidate(task) <= blocked_for
         /\ ClearCandidate(task) # Off =>
              /\ ~IsNew(task) /\ From(task) = "LOCAL_AVOID"
              /\ Hold(task) >= MinHold
              /\ clear_for # Off /\ ClearCandidate(task) <= clear_for
              /\ ClearCandidate(task) <= ExitConfirm + 1
              /\ MinHold + ClearCandidate(task) <= stay
         /\ From(task) = "LOCAL_AVOID" =>
              /\ AvoidanceAllowed(task.mode)
              /\ Hold(task) <= stay
<1> USE DEF ModeInv, Times
<1>1. ~IsNew(task) => active = task /\ mode \in {"ROUTE_FOLLOW", "LOCAL_AVOID"}
  BY ConfigFacts DEF IsNew, TimersBelongToMode, ModeTypeOK, Modes
<1>2. CASE IsNew(task)
  BY <1>2 DEF From, BlockedCandidate, ClearCandidate, Hold, Off
<1>3. CASE ~IsNew(task)
  BY <1>1, <1>3, ConfigFacts
  DEF From, BlockedCandidate, ClearCandidate, Hold, TimersBelongToMode,
      ModeTypeOK, CandidatesAreObserved, StayIsMeasured, Off
<1> QED
  BY <1>2, <1>3

(* What one update does, and on which observation.                           *)
LEMMA UpdateOutcome ==
  ASSUME ModeInv, NEW task \in ModeTasks, NEW corridor \in Corridors,
         NEW obstacles \in Obstacles, ModeUpdate(task, corridor, obstacles)
  PROVE  /\ active' = task
         /\ \/ /\ mode' # From(task)
               /\ mode' \in {"ROUTE_FOLLOW", "LOCAL_AVOID"}
               /\ blocked_age' = Off /\ clear_age' = Off /\ hold_age' = 0
               /\ mode' = "LOCAL_AVOID" =>
                    /\ MayEnterAvoid(task.mode, corridor)
                    /\ corridor = "BLOCKED_NEAR" =>
                         Started(BlockedCandidate(task)) >= EnterConfirm
               /\ mode' = "ROUTE_FOLLOW" =>
                    /\ MayLeaveAvoid(corridor, obstacles)
                    /\ Hold(task) >= MinHold
                    /\ Started(ClearCandidate(task)) >= ExitConfirm
            \/ /\ mode' = From(task) /\ hold_age' = Hold(task)
               /\ ~(/\ From(task) = "ROUTE_FOLLOW" /\ AvoidanceAllowed(task.mode)
                    /\ corridor = "BLOCKED_IMMEDIATE")
               /\ \/ /\ blocked_age' = BlockedCandidate(task)
                     /\ From(task) = "ROUTE_FOLLOW" =>
                          corridor \notin Usable \ BlockedInRange
                  \/ blocked_age' = Off
                  \/ /\ blocked_age' = Started(BlockedCandidate(task))
                     /\ From(task) = "ROUTE_FOLLOW"
                     /\ MayEnterAvoid(task.mode, corridor)
               /\ \/ /\ clear_age' = ClearCandidate(task)
                     /\ From(task) = "LOCAL_AVOID" => corridor \notin Usable
                  \/ clear_age' = Off
                  \/ /\ clear_age' = Started(ClearCandidate(task))
                     /\ clear_age' < ExitConfirm
                     /\ From(task) = "LOCAL_AVOID" /\ Hold(task) >= MinHold
                     /\ MayLeaveAvoid(corridor, obstacles)
<1>1. From(task) \in {"ROUTE_FOLLOW", "LOCAL_AVOID"}
      /\ BlockedCandidate(task) \in Times /\ ClearCandidate(task) \in Times
      /\ Hold(task) \in Nat
  BY InitializedTimers
<1>2. EnterConfirm \in Nat /\ ExitConfirm \in Nat /\ MinHold \in Nat
  BY ConfigFacts
<1>0. active' = task
  BY DEF ModeUpdate
<1> USE DEF Stays, TransitionTo, Usable, Blocked, BlockedInRange,
            MayEnterAvoid, MayLeaveAvoid
<1>3. CASE UpdateUnobserved(task, corridor)
  BY <1>0, <1>1, <1>3 DEF UpdateUnobserved
<1>4. CASE UpdateBlockedRouteOnly(task, corridor)
  BY <1>0, <1>1, <1>4 DEF UpdateBlockedRouteOnly
<1>5. CASE UpdateEnterImmediately(task, corridor)
  BY <1>0, <1>1, <1>5 DEF UpdateEnterImmediately
<1>6. CASE UpdateConfirmBlocked(task, corridor)
  BY <1>0, <1>1, <1>2, <1>6 DEF UpdateConfirmBlocked, Started, Times
<1>7. CASE UpdateFree(task, corridor)
  BY <1>0, <1>1, <1>7 DEF UpdateFree
<1>8. CASE UpdateAvoid(task, corridor, obstacles)
  BY <1>0, <1>1, <1>8 DEF UpdateAvoid
<1>9. CASE UpdateConfirmClear(task, corridor, obstacles)
  BY <1>0, <1>1, <1>2, <1>9 DEF UpdateConfirmClear, ExitConditions, Started, Times
<1> QED
  BY <1>3, <1>4, <1>5, <1>6, <1>7, <1>8, <1>9 DEF ModeUpdate

-----------------------------------------------------------------------------
(* An update, watched.                                                       *)
UpdateOf(task, corridor, obstacles) ==
  ModeUpdate(task, corridor, obstacles) /\ Observe(task, corridor, obstacles)

(* The runs of observations under an update.                                 *)
LEMMA ObservedRuns ==
  ASSUME ModeInv, NEW task \in ModeTasks, NEW corridor \in Corridors,
         NEW obstacles \in Obstacles, UpdateOf(task, corridor, obstacles)
  PROVE  /\ blocked_for' \in Times /\ clear_for' \in Times /\ steady' \in Times
         /\ ~(corridor \in Usable \ BlockedInRange) /\ ~IsNew(task)
              /\ blocked_for # Off
              => blocked_for' = blocked_for
         /\ corridor \in BlockedInRange =>
              /\ blocked_for' # Off
              /\ ~IsNew(task) => blocked_for' = Started(blocked_for)
         /\ ~(corridor \in Usable /\ ~MayLeaveAvoid(corridor, obstacles))
              /\ ~IsNew(task) /\ clear_for # Off
              => clear_for' = clear_for
         /\ MayLeaveAvoid(corridor, obstacles) =>
              /\ clear_for' # Off
              /\ ~IsNew(task) => clear_for' = Started(clear_for)
<1>1. blocked_for \in Times /\ clear_for \in Times /\ steady \in Times
  BY DEF ModeInv, ModeTypeOK, Times
<1>2. /\ blocked_for' = BlockedRun(RunOf(task, blocked_for), corridor)
      /\ clear_for' = ClearRun(RunOf(task, clear_for), corridor, obstacles)
      /\ steady' = SteadyRun(task, corridor)
  BY DEF UpdateOf, Observe
<1>3. steady' \in Times
  BY <1>1, <1>2 DEF SteadyRun, Started, Times, Off
<1>4. /\ blocked_for' \in Times
      /\ ~(corridor \in Usable \ BlockedInRange) /\ ~IsNew(task)
           /\ blocked_for # Off
           => blocked_for' = blocked_for
      /\ corridor \in BlockedInRange =>
           /\ blocked_for' # Off
           /\ ~IsNew(task) => blocked_for' = Started(blocked_for)
  BY <1>1, <1>2 DEF BlockedRun, RunOf, Started, Times, Off
<1>5. /\ clear_for' \in Times
      /\ ~(corridor \in Usable /\ ~MayLeaveAvoid(corridor, obstacles))
           /\ ~IsNew(task) /\ clear_for # Off
           => clear_for' = clear_for
      /\ MayLeaveAvoid(corridor, obstacles) =>
           /\ clear_for' # Off
           /\ ~IsNew(task) => clear_for' = Started(clear_for)
  <2>1. MayLeaveAvoid(corridor, obstacles) => corridor \in Usable
    BY DEF MayLeaveAvoid, Usable
  <2> QED
    BY <1>1, <1>2, <2>1 DEF ClearRun, RunOf, Started, Times, Off
<1> QED
  BY <1>3, <1>4, <1>5

LEMMA UpdateTypes ==
  ASSUME ModeInv, NEW task \in ModeTasks, NEW corridor \in Corridors,
         NEW obstacles \in Obstacles, UpdateOf(task, corridor, obstacles)
  PROVE  ModeTypeOK'
<1>1. ModeUpdate(task, corridor, obstacles) /\ Observe(task, corridor, obstacles)
  BY DEF UpdateOf
<1>2. /\ mode' \in {"ROUTE_FOLLOW", "LOCAL_AVOID"} /\ active' = task
      /\ blocked_age' \in Times /\ clear_age' \in Times /\ hold_age' \in Nat
  BY <1>1, UpdateOutcome, InitializedTimers DEF Started, Times, Off
<1>3. stay' \in Times /\ seen' = [corridor |-> corridor, obstacles |-> obstacles]
  BY <1>1 DEF Observe, ModeInv, ModeTypeOK, Times
<1>4. blocked_for' \in Times /\ clear_for' \in Times /\ steady' \in Times
  BY ObservedRuns
<1> QED
  BY <1>2, <1>3, <1>4 DEF ModeTypeOK, Modes, Times

LEMMA UpdateTimers ==
  ASSUME ModeInv, NEW task \in ModeTasks, NEW corridor \in Corridors,
         NEW obstacles \in Obstacles, UpdateOf(task, corridor, obstacles)
  PROVE  TimersBelongToMode' /\ CandidatesAreObserved' /\ StayIsMeasured'
<1>0. ModeUpdate(task, corridor, obstacles) /\ Observe(task, corridor, obstacles)
  BY DEF UpdateOf
<1>1. stay' = (IF IsNew(task) \/ mode' # mode THEN 0 ELSE stay) /\ active' = task
  BY <1>0, UpdateOutcome DEF Observe
<1>2. ExitConfirm \in Nat /\ MinHold \in Nat /\ task # NoTask
  BY ConfigFacts
<1>3. stay \in Times /\ blocked_for \in Times /\ clear_for \in Times
  BY DEF ModeInv, ModeTypeOK, Times
<1>4. CASE mode' # From(task)
  <2>1. /\ mode' \in {"ROUTE_FOLLOW", "LOCAL_AVOID"}
        /\ blocked_age' = Off /\ clear_age' = Off /\ hold_age' = 0
        /\ mode' = "LOCAL_AVOID" => AvoidanceAllowed(task.mode)
    BY <1>0, <1>4, UpdateOutcome DEF MayEnterAvoid
  <2>2. stay' = 0
    BY <1>1, <1>4, InitializedTimers
  <2> QED
    BY <1>1, <1>2, <2>1, <2>2
    DEF TimersBelongToMode, CandidatesAreObserved, StayIsMeasured, Off
<1>5. CASE mode' = From(task)
  <2>1. /\ From(task) \in {"ROUTE_FOLLOW", "LOCAL_AVOID"} /\ hold_age' = Hold(task)
        /\ Hold(task) \in Nat
        /\ From(task) = "LOCAL_AVOID" => AvoidanceAllowed(task.mode)
    BY <1>0, <1>5, UpdateOutcome, InitializedTimers
  <2>2. Hold(task) <= stay'
    <3>1. CASE IsNew(task)
      BY <1>1, <3>1 DEF Hold
    <3>2. CASE ~IsNew(task)
      <4>1. mode' = mode /\ mode # "NONE"
        BY <1>5, <2>1, <3>2, InitializedTimers
      <4> QED
        BY <1>1, <3>2, <4>1 DEF Hold, ModeInv, StayIsMeasured
    <3> QED
      BY <3>1, <3>2
  <2>3. blocked_age' # Off =>
          /\ mode' = "ROUTE_FOLLOW" /\ AvoidanceAllowed(task.mode)
          /\ blocked_for' # Off /\ blocked_age' <= blocked_for'
    <3>1. CASE /\ blocked_age' = BlockedCandidate(task)
               /\ From(task) = "ROUTE_FOLLOW" => corridor \notin Usable \ BlockedInRange
      <4>1. SUFFICES ASSUME blocked_age' # Off
                     PROVE  /\ mode' = "ROUTE_FOLLOW" /\ AvoidanceAllowed(task.mode)
                            /\ blocked_for' # Off /\ blocked_age' <= blocked_for'
        OBVIOUS
      <4>2. /\ ~IsNew(task) /\ From(task) = "ROUTE_FOLLOW"
            /\ AvoidanceAllowed(task.mode)
            /\ blocked_for # Off /\ BlockedCandidate(task) <= blocked_for
        BY <3>1, <4>1, InitializedTimers
      <4>3. blocked_for' = blocked_for
        BY <3>1, <4>2, ObservedRuns
      <4> QED
        BY <1>5, <3>1, <4>2, <4>3
    <3>2. CASE /\ blocked_age' = Started(BlockedCandidate(task))
               /\ From(task) = "ROUTE_FOLLOW"
               /\ MayEnterAvoid(task.mode, corridor)
      <4>1. AvoidanceAllowed(task.mode) /\ corridor \in BlockedInRange
        BY <3>2 DEF MayEnterAvoid
      <4>2. blocked_for' # Off /\ blocked_for' \in Times
            /\ (~IsNew(task) => blocked_for' = Started(blocked_for))
        BY <4>1, ObservedRuns
      <4>3. BlockedCandidate(task) # Off =>
              /\ ~IsNew(task) /\ blocked_for # Off
              /\ BlockedCandidate(task) <= blocked_for
        BY InitializedTimers
      <4>4. blocked_age' <= blocked_for'
        <5>1. CASE BlockedCandidate(task) = Off
          BY <3>2, <4>2, <5>1 DEF Started, Times, Off
        <5>2. CASE BlockedCandidate(task) # Off
          BY <3>2, <4>2, <4>3, <5>2 DEF Started
        <5> QED
          BY <5>1, <5>2
      <4> QED
        BY <1>5, <3>2, <4>1, <4>2, <4>4
    <3> QED
      BY <1>0, <1>5, <3>1, <3>2, UpdateOutcome
  <2>4. clear_age' # Off =>
          /\ mode' = "LOCAL_AVOID" /\ hold_age' >= MinHold
          /\ clear_for' # Off /\ clear_age' <= clear_for'
          /\ clear_age' <= ExitConfirm + 1 /\ MinHold + clear_age' <= stay'
    <3>0. /\ ClearCandidate(task) \in Times
          /\ ClearCandidate(task) # Off =>
               /\ ~IsNew(task) /\ From(task) = "LOCAL_AVOID"
               /\ Hold(task) >= MinHold
               /\ clear_for # Off /\ ClearCandidate(task) <= clear_for
               /\ ClearCandidate(task) <= ExitConfirm + 1
               /\ MinHold + ClearCandidate(task) <= stay
               /\ stay' = stay
      BY <1>1, <1>5, InitializedTimers
    <3>1. CASE /\ clear_age' = ClearCandidate(task)
               /\ From(task) = "LOCAL_AVOID" => corridor \notin Usable
      <4>1. ClearCandidate(task) # Off => clear_for' = clear_for
        BY <3>0, <3>1, ObservedRuns
      <4> QED
        BY <1>5, <2>1, <3>0, <3>1, <4>1
    <3>2. CASE /\ clear_age' = Started(ClearCandidate(task))
               /\ clear_age' < ExitConfirm
               /\ From(task) = "LOCAL_AVOID" /\ Hold(task) >= MinHold
               /\ MayLeaveAvoid(corridor, obstacles)
      <4>1. clear_for' # Off /\ clear_for' \in Times
            /\ (~IsNew(task) => clear_for' = Started(clear_for))
        BY <3>2, ObservedRuns
      <4>2. CASE ClearCandidate(task) = Off
        <5>1. clear_age' = 0
          BY <3>2, <4>2 DEF Started
        <5>2. stay' \in Nat /\ MinHold <= stay'
          BY <1>1, <1>2, <1>3, <2>1, <2>2, <3>2 DEF Times, Off
        <5> QED
          BY <1>2, <1>5, <2>1, <3>2, <4>1, <5>1, <5>2 DEF Times, Off
      <4>3. CASE ClearCandidate(task) # Off
        BY <1>2, <1>5, <2>1, <3>0, <3>2, <4>1, <4>3 DEF Started
      <4> QED
        BY <4>2, <4>3
    <3> QED
      BY <1>0, <1>5, <3>1, <3>2, UpdateOutcome
  <2>5. hold_age' # Off /\ hold_age' <= stay'
    BY <2>1, <2>2 DEF Off
  <2> QED
    BY <1>1, <1>2, <1>5, <2>1, <2>3, <2>4, <2>5
    DEF TimersBelongToMode, CandidatesAreObserved, StayIsMeasured
<1> QED
  BY <1>4, <1>5

-----------------------------------------------------------------------------
(* Ageing keeps the order of two timers when the limit of the older one is   *)
(* no smaller.                                                               *)
LEMMA AgedOrder ==
  ASSUME NEW limit \in Nat, NEW more \in Nat, NEW a \in Times, NEW b \in Times
  PROVE  /\ Aged(a, limit) \in Times /\ (Aged(a, limit) = Off <=> a = Off)
         /\ a # Off => a <= Aged(a, limit)
         /\ a # Off /\ a <= b => Aged(a, limit) <= Aged(b, limit)
         /\ a # Off /\ a <= limit + 1 => Aged(a, limit) <= limit + 1
         /\ a # Off /\ a <= limit + 1 /\ more + a <= b =>
              more + Aged(a, limit) <= Aged(b, more + limit)
BY DEF Aged, Times, Off

LEMMA TickKeepsInv ==
  ASSUME ModeInv, TimePasses PROVE ModeInv'
<1>1. /\ blocked_age' = Aged(blocked_age, EnterConfirm)
      /\ clear_age' = Aged(clear_age, ExitConfirm)
      /\ hold_age' = Aged(hold_age, MinHold)
      /\ blocked_for' = Aged(blocked_for, EnterConfirm)
      /\ clear_for' = Aged(clear_for, ExitConfirm)
      /\ stay' = Aged(stay, MinHold + ExitConfirm)
      /\ steady' = Aged(steady, EnterConfirm + ExitConfirm)
      /\ UNCHANGED <<mode, active, seen>>
  BY DEF TimePasses, ModeTick
<1>2. /\ EnterConfirm \in Nat /\ ExitConfirm \in Nat /\ MinHold \in Nat
      /\ MinHold + ExitConfirm \in Nat /\ EnterConfirm + ExitConfirm \in Nat
  BY ConfigFacts
<1>3. /\ blocked_age \in Times /\ clear_age \in Times /\ hold_age \in Times
      /\ blocked_for \in Times /\ clear_for \in Times /\ stay \in Times
      /\ steady \in Times
  BY DEF ModeInv, ModeTypeOK, Times
<1>4. /\ blocked_age' \in Times /\ clear_age' \in Times /\ hold_age' \in Times
      /\ blocked_for' \in Times /\ clear_for' \in Times /\ stay' \in Times
      /\ steady' \in Times
      /\ blocked_age' = Off <=> blocked_age = Off
      /\ clear_age' = Off <=> clear_age = Off
      /\ hold_age' = Off <=> hold_age = Off
      /\ blocked_for' = Off <=> blocked_for = Off
      /\ clear_for' = Off <=> clear_for = Off
  BY <1>1, <1>2, <1>3, AgedOrder
<1>5. ModeTypeOK'
  BY <1>1, <1>4 DEF ModeInv, ModeTypeOK, Times
<1>6. CandidatesAreObserved'
  BY <1>1, <1>2, <1>3, <1>4, AgedOrder DEF ModeInv, CandidatesAreObserved
<1>7. hold_age # Off => hold_age <= hold_age'
  BY <1>1, <1>2, <1>3, AgedOrder
<1>8. TimersBelongToMode'
  <2>1. clear_age # Off => hold_age # Off /\ hold_age >= MinHold
    BY <1>2 DEF ModeInv, TimersBelongToMode, Off
  <2> QED
    BY <1>1, <1>2, <1>3, <1>4, <1>7, <2>1 DEF ModeInv, TimersBelongToMode, Times, Off
<1>9. StayIsMeasured'
  <2>1. ASSUME mode # "NONE" PROVE hold_age' # Off /\ hold_age' <= stay'
    <3>1. hold_age # Off /\ hold_age <= stay
      BY <2>1 DEF ModeInv, StayIsMeasured
    <3> QED
      BY <1>1, <1>2, <1>3, <3>1 DEF Aged, Times, Off
  <2>2. ASSUME clear_age # Off
        PROVE  clear_age' <= ExitConfirm + 1 /\ MinHold + clear_age' <= stay'
    <3>1. clear_age <= ExitConfirm + 1 /\ MinHold + clear_age <= stay
      BY <2>2 DEF ModeInv, StayIsMeasured
    <3> QED
      BY <1>1, <1>2, <1>3, <2>2, <3>1, AgedOrder
  <2> QED
    BY <1>1, <1>4, <2>1, <2>2 DEF StayIsMeasured
<1> QED
  BY <1>5, <1>6, <1>8, <1>9 DEF ModeInv

LEMMA ResetKeepsInv ==
  ASSUME ModeInv, ResetArrives PROVE ModeInv'
BY DEF ResetArrives, ModeReset, ModeInv, ModeTypeOK, TimersBelongToMode, Modes,
       CandidatesAreObserved, StayIsMeasured, Unseen, Off

LEMMA ModeStepInv ==
  ASSUME ModeInv, [TimingNext]_timingVars PROVE ModeInv'
<1>1. CASE UpdateArrives
  <2>1. PICK task \in ModeTasks, corridor \in Corridors, obstacles \in Obstacles :
          UpdateOf(task, corridor, obstacles)
    BY <1>1 DEF UpdateArrives, UpdateOf
  <2> QED
    BY <2>1, UpdateTypes, UpdateTimers DEF ModeInv
<1>2. CASE UNCHANGED timingVars
  BY <1>2 DEF ModeInv, ModeTypeOK, TimersBelongToMode, CandidatesAreObserved,
              StayIsMeasured, timingVars, modeVars, history
<1> QED
  BY <1>1, <1>2, ResetKeepsInv, TickKeepsInv DEF TimingNext

THEOREM ModeInvariant == TimingSpec => []ModeInv
BY ModeInitInv, ModeStepInv, PTL DEF TimingSpec

(* Every variable of the mode manager keeps its type.                        *)
THEOREM ModeTypes == TimingSpec => []ModeTypeOK
BY ModeInvariant, PTL DEF ModeInv

(* A candidate timer runs only in the mode it may end, and a route-only task *)
(* never leaves its route.                                                   *)
THEOREM TimersBelong == TimingSpec => []TimersBelongToMode
BY ModeInvariant, PTL DEF ModeInv

-----------------------------------------------------------------------------
(* LOCAL_AVOID is entered for an immediate block or one that lasted the      *)
(* confirmation time, and left only after the hold time and the confirmation *)
(* time together, with every observation in between allowing it.             *)
ChangeConfirmed ==
  /\ SameTask /\ mode' = "LOCAL_AVOID" /\ mode # "LOCAL_AVOID" =>
       \/ seen'.corridor = "BLOCKED_IMMEDIATE"
       \/ blocked_for' >= EnterConfirm
  /\ SameTask /\ mode = "LOCAL_AVOID" /\ mode' # "LOCAL_AVOID" =>
       /\ stay >= MinHold + ExitConfirm
       /\ clear_for' >= ExitConfirm

LEMMA ConfirmedStep ==
  ASSUME ModeInv, [TimingNext]_timingVars PROVE ChangeConfirmed
<1>1. CASE UpdateArrives
  <2>1. PICK task \in ModeTasks, corridor \in Corridors, obstacles \in Obstacles :
          UpdateOf(task, corridor, obstacles)
    BY <1>1 DEF UpdateArrives, UpdateOf
  <2>2. ModeUpdate(task, corridor, obstacles) /\ active' = task
        /\ seen'.corridor = corridor
    BY <2>1, UpdateOutcome DEF UpdateOf, Observe
  <2>3. EnterConfirm \in Nat /\ ExitConfirm \in Nat /\ MinHold \in Nat
    BY ConfigFacts
  <2>4. ASSUME SameTask, mode' # mode PROVE ~IsNew(task) /\ From(task) = mode
    <3>1. active = task /\ mode # "NONE"
      BY <2>2, <2>4 DEF SameTask, ModeInv, TimersBelongToMode
    <3> QED
      BY <3>1 DEF IsNew, From
  <2>5. ASSUME SameTask, mode' = "LOCAL_AVOID", mode # "LOCAL_AVOID",
               corridor # "BLOCKED_IMMEDIATE"
        PROVE  blocked_for' >= EnterConfirm
    <3>1. MayEnterAvoid(task.mode, corridor)
          /\ (corridor = "BLOCKED_NEAR" =>
                Started(BlockedCandidate(task)) >= EnterConfirm)
      BY <2>2, <2>4, <2>5, UpdateOutcome
    <3>2. corridor \in BlockedInRange
          /\ Started(BlockedCandidate(task)) >= EnterConfirm
      BY <2>5, <3>1 DEF MayEnterAvoid, BlockedInRange
    <3>3. blocked_for' = Started(blocked_for)
      BY <2>1, <2>4, <2>5, <3>2, ObservedRuns
    <3>4. /\ blocked_for \in Times /\ BlockedCandidate(task) \in Times
          /\ BlockedCandidate(task) # Off =>
               blocked_for # Off /\ BlockedCandidate(task) <= blocked_for
      BY InitializedTimers DEF ModeInv, ModeTypeOK, Times
    <3> QED
      BY <2>3, <3>2, <3>3, <3>4 DEF Started, Times, Off
  <2>6. ASSUME SameTask, mode = "LOCAL_AVOID", mode' # "LOCAL_AVOID"
        PROVE  stay >= MinHold + ExitConfirm /\ clear_for' >= ExitConfirm
    <3>1. /\ MayLeaveAvoid(corridor, obstacles)
          /\ Hold(task) >= MinHold
          /\ Started(ClearCandidate(task)) >= ExitConfirm
      BY <2>2, <2>4, <2>6, UpdateOutcome
    <3>2. clear_for' = Started(clear_for)
      BY <2>1, <2>4, <2>6, <3>1, ObservedRuns
    <3>3. /\ clear_for \in Times /\ stay \in Times
          /\ ClearCandidate(task) \in Times /\ Hold(task) \in Nat
          /\ Hold(task) <= stay
          /\ ClearCandidate(task) # Off =>
               /\ clear_for # Off /\ ClearCandidate(task) <= clear_for
               /\ MinHold + ClearCandidate(task) <= stay
      BY <2>4, <2>6, InitializedTimers DEF ModeInv, ModeTypeOK, Times
    <3> QED
      BY <2>3, <3>1, <3>2, <3>3 DEF Started, Times, Off
  <2> QED
    BY <2>2, <2>5, <2>6 DEF ChangeConfirmed
<1>2. CASE ResetArrives
  BY <1>2 DEF ResetArrives, ModeReset, SameTask, ChangeConfirmed
<1>3. CASE TimePasses \/ UNCHANGED timingVars
  BY <1>3 DEF TimePasses, ModeTick, timingVars, modeVars, ChangeConfirmed
<1> QED
  BY <1>1, <1>2, <1>3 DEF TimingNext

(* Every change of the mode is confirmed, and the mode does not flicker.     *)
THEOREM ConfirmedChanges == TimingSpec => ChangesAreConfirmed
<1>1. ModeInv /\ [TimingNext]_timingVars => [ChangeConfirmed]_timingVars
  BY ConfirmedStep
<1> QED
  BY <1>1, ModeInvariant, PTL DEF TimingSpec, ChangesAreConfirmed, ChangeConfirmed

-----------------------------------------------------------------------------
(* Whatever the timers do, an update ends in a mode its observation allows.  *)
WithinRules ==
  seen' # Unseen =>
    \/ UNCHANGED <<mode, active, seen>>
    \/ mode' \in ModesAfter(IF SameTask THEN mode ELSE "NONE", active'.mode,
                            seen'.corridor, seen'.obstacles)

LEMMA RulesStep ==
  ASSUME ModeInv, [TimingNext]_timingVars PROVE WithinRules
<1>1. CASE UpdateArrives
  <2>1. PICK task \in ModeTasks, corridor \in Corridors, obstacles \in Obstacles :
          UpdateOf(task, corridor, obstacles)
    BY <1>1 DEF UpdateArrives, UpdateOf
  <2>2. /\ ModeUpdate(task, corridor, obstacles) /\ active' = task
        /\ seen'.corridor = corridor /\ seen'.obstacles = obstacles
    BY <2>1, UpdateOutcome DEF UpdateOf, Observe
  <2>3. From(task) = Initialized(IF SameTask THEN mode ELSE "NONE")
        /\ From(task) \in {"ROUTE_FOLLOW", "LOCAL_AVOID"}
    <3>1. task # NoTask /\ active \in ModeTasks \cup {NoTask}
      BY ConfigFacts DEF ModeInv, ModeTypeOK
    <3>2. CASE SameTask
      <4>1. active = task /\ mode # "NONE"
        BY <2>2, <3>2 DEF SameTask, ModeInv, TimersBelongToMode
      <4> QED
        BY <3>2, <4>1, InitializedTimers DEF From, IsNew, Initialized
    <3>3. CASE ~SameTask
      <4>1. active # task
        BY <2>2, <3>1, <3>3 DEF SameTask
      <4>2. IsNew(task)
        BY <4>1, InitializedTimers
      <4> QED
        BY <3>3, <4>2 DEF From, Initialized
    <3> QED
      BY <3>2, <3>3
  <2>4. \/ /\ mode' = From(task)
           /\ ~(/\ From(task) = "ROUTE_FOLLOW" /\ AvoidanceAllowed(task.mode)
                /\ corridor = "BLOCKED_IMMEDIATE")
        \/ /\ From(task) = "ROUTE_FOLLOW" /\ mode' = "LOCAL_AVOID"
           /\ MayEnterAvoid(task.mode, corridor)
        \/ /\ From(task) = "LOCAL_AVOID" /\ mode' = "ROUTE_FOLLOW"
           /\ MayLeaveAvoid(corridor, obstacles)
    BY <2>2, <2>3, UpdateOutcome
  <2>5. mode' \in ModesAfter(IF SameTask THEN mode ELSE "NONE", task.mode,
                             corridor, obstacles)
    BY <2>3, <2>4 DEF ModesAfter
  <2> QED
    BY <2>2, <2>5 DEF WithinRules
<1>2. CASE ResetArrives
  BY <1>2 DEF ResetArrives, WithinRules
<1>3. CASE TimePasses \/ UNCHANGED timingVars
  BY <1>3 DEF TimePasses, ModeTick, timingVars, modeVars, history, WithinRules
<1> QED
  BY <1>1, <1>2, <1>3 DEF TimingNext

(* The manager implements the relation the coordinator is modelled over.     *)
THEOREM ManagerFollowsRules == TimingSpec => FollowsModeRules
<1>1. ModeInv /\ [TimingNext]_timingVars => [WithinRules]_timingVars
  BY RulesStep
<1> QED
  BY <1>1, ModeInvariant, PTL DEF TimingSpec, FollowsModeRules, WithinRules

=============================================================================
