--------------------------- MODULE TaskLifecycle ---------------------------
(***************************************************************************)
(* What the navigation core promises about a task, whatever happens inside *)
(* a control cycle.  There is at most one task and its number is fresh;    *)
(* only a cancellation frees the place; only a running task that is not    *)
(* paused can finish; and a finished task never changes its outcome, paused*)
(* and resumed or not.                                                     *)
(***************************************************************************)
EXTENDS Naturals

VARIABLES
  task,    (* number of the task that holds the place, 0 if none             *)
  issued,  (* how many numbers have been given out                           *)
  phase,   (* of that task                                                   *)
  paused

vars == <<task, issued, phase, paused>>

Outcomes == {"succeeded", "failed"}
Phases   == {"none", "running"} \cup Outcomes

Init ==
  /\ task = 0 /\ issued = 0
  /\ phase = "none"
  /\ paused = FALSE

Start ==
  /\ phase = "none"
  /\ issued' = issued + 1
  /\ task' = issued'
  /\ phase' = "running"
  /\ paused' = FALSE

Cancel ==
  /\ phase # "none"
  /\ task' = 0
  /\ phase' = "none"
  /\ paused' = FALSE
  /\ UNCHANGED issued

Pause ==
  /\ phase # "none" /\ ~paused
  /\ paused' = TRUE
  /\ UNCHANGED <<task, issued, phase>>

Resume ==
  /\ paused
  /\ paused' = FALSE
  /\ UNCHANGED <<task, issued, phase>>

Finish ==
  /\ phase = "running" /\ ~paused
  /\ phase' \in Outcomes
  /\ UNCHANGED <<task, issued, paused>>

Next == Start \/ Cancel \/ Pause \/ Resume \/ Finish

Spec == Init /\ [][Next]_vars

=============================================================================
