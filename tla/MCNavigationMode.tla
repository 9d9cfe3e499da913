-------------------------- MODULE MCNavigationMode --------------------------
(* Two tasks that may avoid and one that may not.                            *)
EXTENDS NavigationModeTiming

MCTasks ==
  {[sequence |-> 1, mode |-> "NORMAL_AVOID"],
   [sequence |-> 2, mode |-> "ROUTE_ONLY"],
   [sequence |-> 3, mode |-> "CHARGING"]}

DrivenForEver == TimingSpec /\ TimingFairness

=============================================================================
