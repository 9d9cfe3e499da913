----------------------- MODULE MCNavigationCoordinator -----------------------
(* The coordinator under an arbitrary caller, two tasks deep.                *)
EXTENDS NavigationCoordinator

(* An invalid speed, one inside the limits and one above them.               *)
MCSpeeds == {0, 20, 50}

FairCoordinator == CoordinatorSpec /\ ServedFairness

=============================================================================
