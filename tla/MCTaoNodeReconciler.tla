------------------------ MODULE MCTaoNodeReconciler ------------------------
(* Model-checking instances of TaoNodeReconciler. *)
EXTENDS TaoNodeReconciler

Healthy  == [synced |-> TRUE,  critical |-> FALSE]
Lagging  == [synced |-> FALSE, critical |-> FALSE]
Failing  == [synced |-> FALSE, critical |-> TRUE]

HealthVerdicts  == {Healthy, Lagging}
MixedVerdicts   == {Healthy, Lagging, Failing}
FailingOnly     == {Failing}
============================================================================
