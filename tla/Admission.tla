----------------------------- MODULE Admission -----------------------------
(***************************************************************************)
(* The validating webhook of TaoNode (api/v1alpha1/taonode_webhook.go), as *)
(* predicates on the spec of a TaoNode.  Optional fields are sets with at  *)
(* most one element; quantities are in Gi.                                 *)
(***************************************************************************)
EXTENDS Integers

Networks == {"mainnet", "testnet", "devnet"}
Roles    == {"subtensor", "miner", "validator"}

Optional(S) == {{}} \cup {{x} : x \in S}

(* ValidatorSpec, GPUSpec, and the TaoNodeSpec with the fields the operator's
   workload code reads. *)
ValidatorSpec ==
  [hotKeySecret : STRING, slashingProtection : BOOLEAN, maxConcurrentValidators : Nat]

GPUSpec == [type : STRING, count : Int]

IsTaoNodeSpec(s) ==
  /\ s.network \in Networks
  /\ s.subnetID \in 0 .. 256
  /\ s.role \in Roles
  /\ s.image \in STRING
  /\ s.size \in Nat
  /\ \A m \in s.maxSize : m \in Nat
  /\ \A v \in s.validator : v \in ValidatorSpec
  /\ \A g \in s.gpu : g \in GPUSpec
  /\ s.monitoring \in BOOLEAN
  /\ \A a \in s.analytics : a \in [endpoint : STRING, credentialsSecret : STRING]

----------------------------------------------------------------------------
(* Mutant: only validators must name a hotkey Secret. *)
MinersNeedNoHotkey(s) ==
  \/ s.role = "miner"
  \/ \E v \in s.validator :
       /\ v.hotKeySecret # ""
       /\ s.network = "mainnet" => v.slashingProtection /\ v.maxConcurrentValidators = 1

ValidateValidatorSpec(s) ==
  \E v \in s.validator :
    /\ v.hotKeySecret # ""
    /\ s.network = "mainnet" => v.slashingProtection /\ v.maxConcurrentValidators = 1

RecognizedGPUs == {"nvidia-a100", "nvidia-h100", "nvidia-t4", "nvidia-l4",
                   "nvidia-a10g", "nvidia-v100", "amd-gpu"}

ValidateGPUSpec(s) ==
  \A g \in s.gpu : g.type \in RecognizedGPUs /\ g.count >= 1

MinSize == [subtensor |-> 100, miner |-> 50, validator |-> 100]

ValidateStorageSize(s) ==
  /\ s.size >= MinSize[s.role]
  /\ \A m \in s.maxSize : m >= s.size

ValidateAnalyticsSpec(s) ==
  \A a \in s.analytics : a.endpoint # "" /\ a.credentialsSecret # ""

(* Key material is required for validators and miners and forbidden for the
   rest. *)
ValidateKeys(s) ==
  IF s.role \in {"validator", "miner"} THEN ValidateValidatorSpec(s)
                                       ELSE s.validator = {}

ValidateImmutableFields(old, s) ==
  /\ s.network = old.network
  /\ s.subnetID = old.subnetID
  /\ s.size >= old.size

ValidateCreate(s) ==
  /\ ValidateKeys(s)
  /\ ValidateGPUSpec(s)
  /\ ValidateStorageSize(s)
  /\ ValidateAnalyticsSpec(s)

(* Mutant: the old object is not looked at. *)
ValidateUpdateAsCreate(old, s) == ValidateCreate(s)

(* The role is not among the immutable fields. *)
ValidateUpdate(old, s) == ValidateCreate(s) /\ ValidateImmutableFields(old, s)
============================================================================
