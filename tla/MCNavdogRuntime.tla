--------------------------- MODULE MCNavdogRuntime ---------------------------
(* A few messages of one sender, in any order.                               *)
EXTENDS NavdogRuntime

Start(points) ==
  [type |-> "START_TASK",
   task |-> [mode |-> "NORMAL_AVOID", max_vx |-> 20, points |-> points]]

MCMessages ==
  {Start("line"), Start("single"), [type |-> "CANCEL_TASK"],
   [type |-> "PAUSE"], [type |-> "RESUME"]}

RunningForEver == RuntimeSpec /\ RuntimeFairness

=============================================================================
