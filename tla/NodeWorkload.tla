---------------------------- MODULE NodeWorkload ---------------------------
(***************************************************************************)
(* Step 3 of Reconcile (internal/controller/taonode_controller.go): the    *)
(* resources a TaoNode owns.  Users edit the spec through the admission    *)
(* webhook, the secrets operator rotates the hotkey, the reconciler        *)
(* ensures Service, StatefulSet and Lease from the spec it has read, and   *)
(* Kubernetes runs the pod: the StatefulSet controller creates, adopts and *)
(* replaces it, the garbage collector orphans it, the kubelet injects the  *)
(* key that the Secret holds when the pod starts.                          *)
(*                                                                         *)
(* A reconcile is split at the calls that leave the process.  StatefulSets *)
(* are read through the informer cache, seen, which may lag behind.        *)
(***************************************************************************)
EXTENDS ValidatorGuard, FiniteSets

CONSTANTS
  Submissions,   \* the specs users submit
  Hotkeys,       \* values of the hotkey Secret
  NoKey,         \* the Secret does not exist
  InitialKey,    \* what the Secret holds at first
  Defaulting,    \* whether the API server fills in volumeMode: a set of BOOLEANs
  MaxEvents      \* bound on edits, changes of the Secret, foreign claims of a
                 \* Lease and faults, together

ASSUME WorkloadAssumption ==
  /\ \A s \in Submissions : IsTaoNodeSpec(s)
  /\ InitialKey \in Hotkeys \cup {NoKey} /\ NoKey \notin Hotkeys /\ "" \notin Hotkeys
  /\ Defaulting \subseteq BOOLEAN
  /\ MaxEvents \in Nat

VARIABLES
  spec,        \* [Nodes -> spec]: the admitted TaoNodes
  secret,      \* [Nodes -> key or NoKey]: the hotkey Secret
  rbac,        \* whether the workload-manager Role is in the namespace
  service,     \* [Nodes -> optional labels]: selector of the headless Service
  sts,         \* [Nodes -> optional StatefulSet], as the API server has it
  seen,        \* [Nodes -> optional StatefulSet], as the informer has it
  pod,         \* [Nodes -> optional pod "{name}-0"]
  pc,          \* [Nodes -> Steps]: where the reconcile of the node is
  tn,          \* [Nodes -> optional spec]: the copy the reconcile works on
  hash,        \* [Nodes -> Status.HotkeyHash of that copy]
  defaulting,  \* the API server fills in volumeMode
  events       \* how many of them there were

cluster == <<spec, secret, rbac, service, sts, seen, pod, defaulting>>
local   == <<pc, tn, hash>>
vars    == <<guardVars, cluster, local, events>>

Steps == {"idle", "hotkey", "ensure", "recreate", "update", "readLease", "lease"}

TypeOK ==
  /\ GuardTypeOK
  /\ spec \in [Nodes -> Submissions]
  /\ tn \in [Nodes -> Optional(Submissions)]
  /\ secret \in [Nodes -> Hotkeys \cup {NoKey}]
  /\ hash \in [Nodes -> Hotkeys \cup {""}]
  /\ rbac \in BOOLEAN
  /\ defaulting \in Defaulting
  /\ pc \in [Nodes -> Steps]
  /\ \A n \in Nodes : \A f \in {service, sts, seen, pod} : Cardinality(f[n]) <= 1
  /\ events \in 0 .. MaxEvents

Init ==
  /\ GuardInit
  /\ spec \in [Nodes -> {s \in Submissions : ValidateCreate(s)}]
  /\ secret = [n \in Nodes |-> InitialKey]
  /\ rbac = FALSE
  /\ defaulting \in Defaulting
  /\ service = [n \in Nodes |-> {}]
  /\ sts = [n \in Nodes |-> {}]
  /\ seen = [n \in Nodes |-> {}]
  /\ pod = [n \in Nodes |-> {}]
  /\ pc = [n \in Nodes |-> "idle"]
  /\ tn = [n \in Nodes |-> {}]
  /\ hash = [n \in Nodes |-> ""]
  /\ events = 0

TheSpec(n) == CHOOSE s \in tn[n] : TRUE

CountEvent == events < MaxEvents /\ events' = events + 1

Goto(n, from, to) == pc[n] = from /\ pc' = [pc EXCEPT ![n] = to]

(* The reconcile of n ends, and with it its local variables. *)
Return(n, from) ==
  /\ Goto(n, from, "idle")
  /\ hash' = [hash EXCEPT ![n] = ""]
  /\ tn' = [tn EXCEPT ![n] = {}]

Proceed(n, from, to) == Goto(n, from, to) /\ UNCHANGED <<tn, hash>>

----------------------------------------------------------------------------
(* Reconcile *)

(* The spec is read; then ensureServiceAccount, ensureHeadlessService and
   validateNamespacePermissions: without the Role, requeue in 60 s. *)
Fetch(n) ==
  /\ Goto(n, "idle", IF rbac THEN "hotkey" ELSE "idle")
  /\ tn' = [tn EXCEPT ![n] = IF rbac THEN {spec[n]} ELSE {}]
  /\ service' = [service EXCEPT ![n] = {LabelsForNode(n, spec[n])}]
  /\ UNCHANGED <<guardVars, spec, secret, rbac, sts, seen, pod, defaulting, hash, events>>

(* Mutant: NotFound is taken for an empty Secret. *)
HashesMissingSecret(n) ==
  /\ Goto(n, "hotkey", "ensure")
  /\ hash' = [hash EXCEPT ![n] = IF TheSpec(n).role = "subtensor" THEN "" ELSE secret[n]]
  /\ UNCHANGED <<guardVars, cluster, tn, events>>

(* validateHotkeySecret: a role without keys, or a Secret that is there.  The
   hash is injective, so the key stands for its hash. *)
HotkeyValid(n) ==
  /\ Goto(n, "hotkey", "ensure")
  /\ \/ TheSpec(n).role = "subtensor"
     \/ RequiresHotkeyMaterial(TheSpec(n)) /\ secret[n] # NoKey
  /\ hash' = [hash EXCEPT ![n] = IF TheSpec(n).role = "subtensor" THEN "" ELSE secret[n]]
  /\ UNCHANGED <<guardVars, cluster, tn, events>>

(* ... a missing Secret or reference: the hash is cleared, requeue in 30 s. *)
HotkeyInvalid(n) ==
  /\ Return(n, "hotkey")
  /\ TheSpec(n).role # "subtensor"
  /\ ~RequiresHotkeyMaterial(TheSpec(n)) \/ secret[n] = NoKey
  /\ UNCHANGED <<guardVars, cluster, events>>

(* ensureNodeWorkload *)

Desired(n) == DesiredStatefulSet(n, TheSpec(n), hash[n])

(* External: the API server fills in the volumeMode of a volumeClaimTemplate. *)
Stored(w) == IF defaulting THEN [w EXCEPT !.vct.volumeMode = "Filesystem"] ELSE w

MustReplace(n) ==
  \E w \in seen[n] :
    VctDriftDetected(w, Desired(n)) \/ StructuralChanges(w, Desired(n))

StsStep(n, new) ==
  /\ sts' = [sts EXCEPT ![n] = new]
  /\ UNCHANGED <<guardVars, spec, secret, rbac, service, seen, pod, defaulting, events>>

(* With the workload ensured (a failing ensureServiceMonitor has no consequence),
   a validator goes on to ensureValidatorSingleton. *)
Ensured(n, from) ==
  IF SingletonEnforced(TheSpec(n)) THEN Proceed(n, from, "readLease") ELSE Return(n, from)

(* Create succeeds, or fails with AlreadyExists and the reconcile returns. *)
CreateSts(n, from) ==
  IF sts[n] = {}
  THEN Ensured(n, from) /\ StsStep(n, {Stored(Desired(n))})
  ELSE Return(n, from) /\ StsStep(n, sts[n])

EnsureCreates(n) == pc[n] = "ensure" /\ seen[n] = {} /\ CreateSts(n, "ensure")

(* The delete names no UID: it hits whatever StatefulSet has the name now. *)
EnsureDeletes(n) ==
  /\ Proceed(n, "ensure", "recreate")
  /\ MustReplace(n)
  /\ \A w \in seen[n] : ~w.deleting
  /\ StsStep(n, {[w EXCEPT !.deleting = TRUE] : w \in sts[n]})

EnsureAwaitsDeletion(n) ==
  /\ Proceed(n, "ensure", "recreate")
  /\ MustReplace(n)
  /\ \E w \in seen[n] : w.deleting
  /\ StsStep(n, sts[n])

Recreate(n) == pc[n] = "recreate" /\ CreateSts(n, "recreate")

(* Nothing to replace: what follows, under RetryOnConflict, reads the cache
   again and checks nothing of this again. *)
EnsureKeeps(n) ==
  /\ Proceed(n, "ensure", "update")
  /\ seen[n] # {} /\ ~MustReplace(n)
  /\ StsStep(n, sts[n])

(* External: the API server refuses a template that the immutable selector does
   not match. *)
Acceptable(w) == w.selector = w.template.labels

UpdateNotNeeded(n) ==
  /\ pc[n] = "update"
  /\ \E latest \in seen[n] : ~NeedsMutableUpdate(latest, Desired(n))
  /\ Ensured(n, "update")
  /\ StsStep(n, sts[n])

(* The update is tried on the cached object until it carries the current
   resourceVersion. *)
UpdateSucceeds(n) ==
  /\ pc[n] = "update" /\ seen[n] = sts[n]
  /\ \E latest \in seen[n] :
       /\ NeedsMutableUpdate(latest, Desired(n))
       /\ Acceptable(CopyMutableFields(latest, Desired(n)))
       /\ StsStep(n, {CopyMutableFields(latest, Desired(n))})
  /\ Ensured(n, "update")

(* The error is returned: the StatefulSet is gone, RetryOnConflict runs out of
   steps, or the API server refuses the template. *)
UpdateFails(n) ==
  /\ Return(n, "update")
  /\ \A latest \in seen[n] :
       /\ NeedsMutableUpdate(latest, Desired(n))
       /\ seen[n] = sts[n] => ~Acceptable(CopyMutableFields(latest, Desired(n)))
  /\ StsStep(n, sts[n])

(* ensureValidatorSingleton *)

SingletonReads(n) ==
  /\ Proceed(n, "readLease", "lease")
  /\ ReadLease(n)
  /\ UNCHANGED <<cluster, events>>

SingletonClaims(n) ==
  /\ Return(n, "lease")
  /\ Claims(n) \/ ClaimRefused(n)
  /\ UNCHANGED <<cluster, events>>

(* Mutant: only the first violation cordons the pod. *)
AlertsOnly(n) ==
  /\ MustCordon(n)
  /\ Return(n, "lease")
  /\ ForgetRead(n)
  /\ UNCHANGED <<cluster, events>>

(* cordonValidatorPod *)
SingletonCordons(n) ==
  /\ MustCordon(n)
  /\ Return(n, "lease")
  /\ ForgetRead(n)
  /\ pod' = [pod EXCEPT ![n] = {}]
  /\ UNCHANGED <<spec, secret, rbac, service, sts, seen, defaulting, events>>

Reconcile(n) ==
  \/ Fetch(n) \/ HotkeyValid(n) \/ HotkeyInvalid(n)
  \/ EnsureCreates(n) \/ EnsureDeletes(n) \/ EnsureAwaitsDeletion(n) \/ Recreate(n)
  \/ EnsureKeeps(n) \/ UpdateNotNeeded(n) \/ UpdateSucceeds(n) \/ UpdateFails(n)
  \/ SingletonReads(n) \/ SingletonClaims(n) \/ SingletonCordons(n)

----------------------------------------------------------------------------
(* Faults *)

(* A call fails: the reconcile returns the error and is tried again. *)
CallFails(n) ==
  /\ CountEvent
  /\ pc[n] # "idle" /\ Return(n, pc[n])
  /\ ForgetRead(n)
  /\ UNCHANGED cluster

(* The operator restarts; its informers list everything anew. *)
OperatorRestart ==
  /\ CountEvent
  /\ pc' = [n \in Nodes |-> "idle"]
  /\ hash' = [n \in Nodes |-> ""]
  /\ tn' = [n \in Nodes |-> {}]
  /\ leaseRead' = [n \in Nodes |-> {}]
  /\ seen' = sts
  /\ UNCHANGED <<lease, spec, secret, rbac, service, sts, pod, defaulting>>

(* The pod is evicted, deleted by hand, or restarted by a recovery. *)
PodLost(n) ==
  /\ CountEvent
  /\ pod[n] # {} /\ pod' = [pod EXCEPT ![n] = {}]
  /\ UNCHANGED <<guardVars, spec, secret, rbac, service, sts, seen, defaulting,
                 local>>

----------------------------------------------------------------------------
(* Users: edits go through the webhook; keys are rotated, removed and put
   back; an administrator applies the Role. *)

UserEdits(n) ==
  /\ CountEvent
  /\ \E s \in Submissions \ {spec[n]} :
       /\ ValidateUpdate(spec[n], s)
       /\ spec' = [spec EXCEPT ![n] = s]
  /\ UNCHANGED <<guardVars, secret, rbac, service, sts, seen, pod, defaulting,
                 local>>

SecretChanges(n) ==
  /\ CountEvent
  /\ \E k \in (Hotkeys \cup {NoKey}) \ {secret[n]} : secret' = [secret EXCEPT ![n] = k]
  /\ UNCHANGED <<guardVars, spec, rbac, service, sts, seen, pod, defaulting,
                 local>>

RoleApplied ==
  /\ ~rbac /\ rbac' = TRUE
  /\ UNCHANGED <<guardVars, spec, secret, service, sts, seen, pod, defaulting,
                 local, events>>

----------------------------------------------------------------------------
(* Kubernetes *)

PodStep(n, new) ==
  /\ pod' = [pod EXCEPT ![n] = new]
  /\ UNCHANGED <<guardVars, spec, secret, rbac, service, sts, seen, defaulting,
                 local, events>>

CreatePod(n) ==
  /\ pod[n] = {}
  /\ \E w \in sts[n] :
       /\ ~w.deleting
       /\ PodStep(n, {[template |-> w.template, owned |-> TRUE, key |-> NoKey]})

AdoptPod(n) ==
  \E w \in sts[n], p \in pod[n] :
    /\ ~w.deleting /\ ~p.owned
    /\ p.template.labels = w.selector
    /\ PodStep(n, {[p EXCEPT !.owned = TRUE]})

ReplacePod(n) ==
  \E w \in sts[n], p \in pod[n] :
    /\ ~w.deleting /\ p.owned
    /\ w.strategy = "RollingUpdate"
    /\ p.template # w.template
    /\ PodStep(n, {})

(* The pod cannot start before its Secret exists; the key-injector copies the
   key of that moment. *)
InjectKey(n) ==
  \E p \in pod[n] :
    /\ p.key = NoKey /\ secret[n] # NoKey
    /\ "hotkey-secret" \in p.template.volumes
    /\ PodStep(n, {[p EXCEPT !.key = secret[n]]})

(* A StatefulSet deleted with orphan propagation lets its pod go. *)
CollectOrphans(n) ==
  /\ \E w \in sts[n] : w.deleting
  /\ sts' = [sts EXCEPT ![n] = {}]
  /\ pod' = [pod EXCEPT ![n] = {[p EXCEPT !.owned = FALSE] : p \in @}]
  /\ UNCHANGED <<guardVars, spec, secret, rbac, service, seen, defaulting, local, events>>

DeliverSts(n) ==
  /\ seen[n] # sts[n]
  /\ seen' = [seen EXCEPT ![n] = sts[n]]
  /\ UNCHANGED <<guardVars, spec, secret, rbac, service, sts, pod, defaulting,
                 local, events>>

(* The Lease's other writers. *)
LeaseEnvironment(n) ==
  /\ \/ RivalClaims(n) /\ CountEvent
     \/ (LeaseExpires(n) \/ ReadExpires(n)) /\ UNCHANGED events
  /\ UNCHANGED <<cluster, local>>

Next ==
  \/ \E n \in Nodes :
       \/ Reconcile(n)
       \/ CallFails(n) \/ PodLost(n)
       \/ UserEdits(n) \/ SecretChanges(n)
       \/ CreatePod(n) \/ AdoptPod(n) \/ ReplacePod(n) \/ InjectKey(n)
       \/ CollectOrphans(n) \/ DeliverSts(n) \/ LeaseEnvironment(n)
  \/ OperatorRestart
  \/ RoleApplied

Spec == Init /\ [][Next]_vars

(* Every node is requeued, so its reconcile goes on for ever; garbage collector
   and informer do their work in the end.  Nothing is assumed of the StatefulSet
   controller, which may lose every race with the operator. *)
Fairness ==
  \A n \in Nodes :
    WF_vars(Reconcile(n)) /\ WF_vars(CollectOrphans(n)) /\ WF_vars(DeliverSts(n))

FairSpec == Spec /\ Fairness

----------------------------------------------------------------------------
(***************************************************************************)
(* Properties                                                              *)
(***************************************************************************)

Templates == UNION {{w.template : w \in sts[n]} \cup {p.template : p \in pod[n]} : n \in Nodes}

(* Zero Trust key management, across the builders that share
   requiresHotkeyMaterial: in every StatefulSet and pod the cluster ever has,
   the hotkey Secret is mounted by the key-injector alone, every mount has its
   volume, the keystore option comes with the mount, and only nodes that were
   miners or validators have any of it. *)
KeyMaterialConfined ==
  \A t \in Templates :
    /\ \A c \in DOMAIN t.mounts :
         /\ "hotkey-secret" \in t.mounts[c] => c = "key-injector"
         /\ t.mounts[c] \subseteq t.volumes \cup {"chain-data"}
    /\ (t.args.keystorePath # "") <=> ("keystore" \in t.mounts["node"])
    /\ ("keystore" \in t.volumes) <=> (t.labels.role # "subtensor")

(* What keeps ensureNodeWorkload from being reached. *)
Blocked(n) == ~rbac \/ (spec[n].role # "subtensor" /\ secret[n] = NoKey)

WantedHash(n) == IF spec[n].role = "subtensor" THEN "" ELSE secret[n]

Wanted(n) == DesiredStatefulSet(n, spec[n], WantedHash(n))

(* The StatefulSet comes back: through stale reads, conflicts, failing calls,
   restarts between delete and create, and a role edit or replacement that falls
   between the structural check and the update, the StatefulSet of the current
   spec and key is there again and again. *)
WorkloadConverges ==
  \A n \in Nodes :
    []<>(\/ Blocked(n)
         \/ \E w \in sts[n] : ~w.deleting /\ w.template = Wanted(n).template
                                          /\ w.vct.size = Wanted(n).vct.size)

RivalHolds(n) == lease[n] = Held(Rival)

(* The operator never takes a Lease from a holder that is alive, although the
   Lease it decides on was read earlier and may have been renewed since. *)
LiveLeaseRespected ==
  [][\A n \in Nodes : RivalHolds(n) => \A l \in lease'[n] : l.live => l.holder = Rival]_vars

(* While somebody else holds the Lease, the pod of a validator whose reconcile
   gets that far is taken down again and again. *)
RivalKeepsValidatorDown ==
  \A n \in Nodes :
    <>[](RivalHolds(n) /\ SingletonEnforced(spec[n]) /\ ~Blocked(n)) => []<>(pod[n] = {})

(* FIX #4: the StatefulSet is replaced for a change of its volumeClaimTemplate or
   of its selector, that is, when storage or role of the node were edited. *)
ReplacedOnlyOnDrift ==
  [][\A n \in Nodes : \A w \in sts[n], x \in sts'[n] :
       x.deleting /\ ~w.deleting =>
         \/ w.vct.size # TheSpec(n).size
         \/ w.selector # LabelsForNode(n, TheSpec(n))]_vars

ValidatorPods(net) ==
  {n \in Nodes : \E p \in pod[n] : /\ p.template.args.validator
                                   /\ p.template.labels.network = "mainnet"
                                   /\ p.template.labels.subnet = net
                                   /\ p.key # NoKey}

(* Only one validator node runs per subnet on mainnet. *)
OneValidatorPerSubnet ==
  \A net \in {spec[n].subnetID : n \in Nodes} : Cardinality(ValidatorPods(net)) <= 1
============================================================================
