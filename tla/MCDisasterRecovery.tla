------------------------- MODULE MCDisasterRecovery ------------------------
(* Model-checking instance of DisasterRecovery. *)
EXTENDS DisasterRecovery

Small ==
  [network |-> "mainnet", subnetID |-> 1, role |-> "subtensor", image |-> "",
   size |-> 100, maxSize |-> {}, validator |-> {}, gpu |-> {},
   monitoring |-> FALSE, analytics |-> {}]

Large   == [Small EXCEPT !.size = 200]
Testnet == [Small EXCEPT !.network = "testnet"]

(* A volume of 200 with a maximum of 150, which merging may produce, is refused by
   the webhook. *)
Volumes ==
  {[s EXCEPT !.maxSize = max] : s \in {Small, Large, Testnet}, max \in {{}, {150}}}
============================================================================
