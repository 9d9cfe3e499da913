-------------------------- MODULE MCCoordinatorLive --------------------------
(* The coordinator served by the runtime: what must eventually happen.       *)
EXTENDS NavigationCoordinator

MCSpeeds == {20, 50}

AnySender ==
  CoordinatorInit /\ [][ServedNext(Events)]_coordinatorVars /\ ServedFairness

=============================================================================
