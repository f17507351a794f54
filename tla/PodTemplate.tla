---------------------------- MODULE PodTemplate ----------------------------
(***************************************************************************)
(* The StatefulSet that the operator wants for a TaoNode: the builders of  *)
(* internal/controller/workload_manager.go, statefulset_builder.go and     *)
(* helpers.go.  Containers are kept as the volumes they mount, the command *)
(* line as the options that depend on the spec; constant parts (ports,     *)
(* probes, limits, security contexts) are left out.                        *)
(***************************************************************************)
EXTENDS Admission

CONSTANT DefaultImage  \* the operator's --default-image, possibly empty

(* The one predicate that gates all hotkey material: the role and the spec. *)
RequiresHotkeyMaterial(s) ==
  /\ s.role \in {"validator", "miner"}
  /\ \E v \in s.validator : v.hotKeySecret # ""

(* The labels double as the selector of the StatefulSet and of the Service. *)
LabelsForNode(n, s) ==
  [instance |-> n, network |-> s.network, subnet |-> s.subnetID, role |-> s.role]

ImageForNode(s) ==
  IF s.image # "" THEN s.image
  ELSE IF DefaultImage # "" THEN DefaultImage ELSE "opentensor/subtensor:latest"

(* SubtensorChainSpec: the built-in chain of a network, of the names the CRD
   admits. *)
SubtensorChainSpec ==
  [mainnet |-> "finney", testnet |-> "test_finney", devnet |-> "dev"]

NeedsExternalSpec(s) == s.network \notin DOMAIN SubtensorChainSpec

(* ResolveChainSpec *)
ResolveChainSpec(s) ==
  IF NeedsExternalSpec(s) THEN "/data/chain-spec/raw_spec.json"
                          ELSE SubtensorChainSpec[s.network]

(* SubstrateArgs.Build *)
SubstrateArgs(s) ==
  [chain |-> ResolveChainSpec(s),
   keystorePath |-> IF RequiresHotkeyMaterial(s) THEN "/keystore" ELSE "",
   validator |-> s.role = "validator"]

When(cond, S) == IF cond THEN S ELSE {}

(* Mutant: the Secret is mounted where it is used. *)
MainContainerMountsSecret(s) ==
  {"chain-data"} \cup When(NeedsExternalSpec(s), {"chain-spec"})
                 \cup When(RequiresHotkeyMaterial(s), {"keystore", "hotkey-secret"})

(* buildMainContainer mounts the tmpfs keystore, never the Secret. *)
MainContainerMounts(s) ==
  {"chain-data"} \cup When(NeedsExternalSpec(s), {"chain-spec"})
                 \cup When(RequiresHotkeyMaterial(s), {"keystore"})

Containers(s) ==
  {"volume-permissions", "node", "chain-probe"}
    \cup When(RequiresHotkeyMaterial(s), {"key-injector"})
    \cup When(s.monitoring, {"metrics"})

(* What each container mounts: buildInitContainers and buildContainers. *)
ContainerMounts(s) ==
  [c \in Containers(s) |->
     CASE c = "volume-permissions" -> {"chain-data"}
       [] c = "key-injector"       -> {"hotkey-secret", "keystore"}
       [] c = "node"               -> MainContainerMounts(s)
       [] OTHER                    -> {}]

(* buildVolumes; chain-data comes from the volumeClaimTemplate. *)
BuildVolumes(s) ==
  {"probe-tmp"} \cup When(NeedsExternalSpec(s), {"chain-spec"})
                \cup When(RequiresHotkeyMaterial(s), {"hotkey-secret", "keystore"})

(* The pod template.  hash is Status.HotkeyHash. *)
Template(n, s, hash) ==
  [labels |-> LabelsForNode(n, s),
   image |-> ImageForNode(s),
   args |-> SubstrateArgs(s),
   hotkeyHash |-> IF RequiresHotkeyMaterial(s) THEN hash ELSE "",
   mounts |-> ContainerMounts(s),
   volumes |-> BuildVolumes(s)]

UpdateStrategy(s) == IF s.role = "validator" THEN "OnDelete" ELSE "RollingUpdate"

(* desiredStatefulSetForNode *)
DesiredStatefulSet(n, s, hash) ==
  [selector |-> LabelsForNode(n, s),
   vct |-> [size |-> s.size, volumeMode |-> "unset"],
   strategy |-> UpdateStrategy(s),
   template |-> Template(n, s, hash),
   deleting |-> FALSE]

VctDriftDetected(current, desired) == current.vct # desired.vct

StructuralChanges(current, desired) == current.selector # desired.selector

NeedsMutableUpdate(current, desired) ==
  \/ current.strategy # desired.strategy
  \/ current.template # desired.template

CopyMutableFields(current, desired) ==
  [current EXCEPT !.strategy = desired.strategy, !.template = desired.template]
============================================================================
