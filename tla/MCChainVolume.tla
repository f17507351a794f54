--------------------------- MODULE MCChainVolume ---------------------------
(* Model-checking instance of ChainVolume. *)
EXTENDS ChainVolume

KeepOne == {[retention |-> 1, onSyncLoss |-> TRUE]}
KeepTwo == {[retention |-> 2, onSyncLoss |-> FALSE]}

(* 30 * 50 fits into integers up to 2047, 50 * 50 does not. *)
SomeSettings == [policy : {KeepOne, KeepTwo}, limit : {{}}]
                  \cup [policy : {{}}, limit : {{30}, {50}}]
============================================================================
