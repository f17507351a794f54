-------------------------- MODULE MCNodeWorkload ---------------------------
(* Model-checking instances of NodeWorkload. *)
EXTENDS NodeWorkload

Keys == {[hotKeySecret |-> "hotkey", slashingProtection |-> TRUE,
          maxConcurrentValidators |-> 1]}

Miner ==
  [network |-> "mainnet", subnetID |-> 1, role |-> "miner", image |-> "",
   size |-> 100, maxSize |-> {}, validator |-> Keys, gpu |-> {},
   monitoring |-> FALSE, analytics |-> {}]

Larger     == [Miner EXCEPT !.size = 200]
Validator  == [Miner EXCEPT !.role = "validator"]
NewVersion == [Validator EXCEPT !.image = "v2"]
Subtensor  == [Miner EXCEPT !.role = "subtensor", !.validator = {}]

(* Refused by the webhook. *)
KeylessMiner   == [Miner EXCEPT !.validator = {}]
KeyedSubtensor == [Miner EXCEPT !.role = "subtensor"]

FleetSubmissions ==
  {Miner, Larger, Validator, Subtensor, KeylessMiner, KeyedSubtensor}

ValidatorSubmissions == {Validator, NewVersion}
============================================================================
