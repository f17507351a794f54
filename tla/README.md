# TaoNode Guardian: TLA+ verification

TaoNode Guardian is a Kubernetes operator that runs a fleet of Bittensor nodes
(`TaoNode` custom resources): it creates their workloads, probes their chain
state, recovers nodes that fall out of sync under a fleet-wide rate limit,
grows and snapshots their volumes, ships telemetry to ClickHouse, asks an AI
advisor for incident reports and backs its TaoNodes up for a restore.
This directory holds TLA+ models of its core, the TLC configurations that check
them, and TLAPS proofs of the properties that matter most.

Run a configuration with `tlc -config <file>.cfg <module>` and check the proofs
of a component with `tlapm <component>Proofs.tla`.
`PROJECT.json` lists every run, the source lines behind every definition, the
mutants that show each property can fail, the hazards and the findings.

## 1. Inventory

| Component | Source | State | Operations | Hard behaviour |
|---|---|---|---|---|
| Recovery rate limiter | `internal/controller/rate_limiter.go` | two maps of time stamps, a gauge | `TryAcquire`, `Release` | slots freed only by eviction; lost at a restart |
| Sync state machine | `internal/controller/sync_state_machine.go` | phase, restart count, time stamp in the status | `evaluateSyncState`, `executeRecovery`, three strategies | fallthrough, timeout, charge before action |
| Reconcile loop | `internal/controller/taonode_controller.go` | the TaoNode in API server, cache and memory | the ten steps of `Reconcile`, finalization, status update | stale cache, conflicts, crashes, AI goroutine |
| Chain probe | `internal/controller/chain_probe.go` | none | `Probe` | fails while a pod restarts |
| Circuit breaker | `internal/analytics/circuit_breaker.go` | state, permit, counters | `Allow`, `RecordSuccess`, `RecordFailure` | lock-minimised, ten workers |
| Anomaly detector | `internal/analytics/anomaly_detector.go` | none | `EvaluateNode` | hides query errors |
| Batch writer | `internal/analytics/batch_writer.go`, `flush.go` | five channels, five buffers | `Push*`, `flushLoop`, `Start` | full channel, failing flush, shutdown |
| Validator guard | `internal/controller/validator_guard.go` | a Lease per validator | acquire, renew, take over, cordon | decides on a copy read earlier; double signing |
| Workload manager | `internal/controller/workload_manager.go`, `statefulset_builder.go` | Service, StatefulSet, ... | ensure, orphan-delete-recreate | stale cache, crash between delete and create, key rotation |
| Snapshot manager | `internal/controller/snapshot_manager.go` | VolumeSnapshots | trigger, prune | partial failure, names of one second |
| Storage manager | `internal/controller/storage_manager.go` | PVC size | expand | rounding, wrapping, cap, stale cache |
| AI advisor, notifier | `internal/ai/` | a fixed-window counter | `Analyze`, notify | late result |
| Admission webhook | `api/v1alpha1/taonode_webhook.go` | none | validate create and update | cross-field rules the reconciler relies on |
| tao-dr | `tools/tao-dr/` | backups in a bucket | backup, restore, failover | same-second keys, merging apply, restore half done |
| DR runner | `internal/controller/dr_runner.go` | none: its store only logs | periodic backup | none |
| FinOps, correlation, schema, client | rest of `internal/analytics/` | none | SQL and estimates | none |

How they interact. A worker of controller-runtime runs `Reconcile` for one
TaoNode at a time; up to ten nodes are reconciled in parallel. A reconcile reads
the TaoNode from the informer cache, writes owned resources, calls the chain
probe over HTTP, asks the circuit breaker whether analytics may run (which pushes
rows to the batch writer and calls the anomaly detector), runs the state machine
(which asks the limiter for a slot and deletes a pod), may start an AI goroutine,
and ends by replacing the status in the API server. Limiter, breaker and writer
are process-wide singletons shared by all workers; the API server is shared with
users, the StatefulSet controller, the garbage collector and the AI goroutine.
The webhook stands in front of every write to a TaoNode, a restore's included. The
tao-dr command lists TaoNodes, uploads them to a bucket and applies them from there;
the operator's own DR runner is given a store that only logs.

What makes each correct: the limiter bounds the recoveries that really are in
progress and never wedges; the reconciler respects the restart budget, accounts
for each restart, cleans up before an object goes, and eventually handles every
degraded node it can probe; the breaker probes again and never leaks its permit;
the writer loses nothing uncounted, stores in order and at most once, and
stops when told to. The workload manager brings StatefulSet, Service and Lease
back into agreement with spec and key after any interference, and keeps the hotkey
where it belongs; the guard respects a live Lease; pruning keeps the newest
snapshots; an expansion stays within its limit and reaches it; a restore is
repeatable and takes back nothing that is immutable.

## 2. Modules

    RecoveryRateLimiter        the limiter's methods as operators and actions
      RecoveryCaller           ... driven by executeRecovery, with crashes
        RecoveryCallerProofs   ... proofs for every fleet and setting
    SyncStateMachine           decisions of evaluateSyncState, as operators
      TaoNodeReconciler        the reconcile loop; composes SyncStateMachine and
                               RecoveryCaller (L == INSTANCE RecoveryCaller)
        TaoNodeReconcilerProofs  ... proofs for every fleet; the loop implements
                               RecoveryCaller
    CircuitBreaker             the breaker and its callers
      CircuitBreakerProofs     ... proofs for any number of workers
    RowLog                     what the writer promises (abstract)
      RowLogProofs             ... what follows from the promise
      BatchWriter              flushLoop and Push*, implements RowLog
        BatchWriterProofs      ... the refinement, for every capacity
    Admission                  the webhook's rules, as predicates on a spec
      PodTemplate              the desired StatefulSet, as a function of the spec
        ValidatorGuard         the singleton Lease
          NodeWorkload         step 3 of Reconcile against users, secrets operator,
                               StatefulSet controller and garbage collector
            NodeWorkloadProofs ... proofs for every set of nodes, specs and keys
      DisasterRecovery         tao-dr backup, restore and failover
        DisasterRecoveryProofs ... proofs for every set of TaoNodes and specs
    ChainVolume                PVC expansion, snapshots and their pruning
      ChainVolumeProofs        ... proofs for every retention count, size and width
    MC*                        instances for TLC

`Mutant:` definitions are deliberate errors, placed before the definition they
replace; nothing in the specifications uses them.

### RecoveryRateLimiter and RecoveryCaller

The maps `activeRecoveries` and `lastRecoveryByNode` are partial functions from
nodes to the age `time.Since` would return; ages stop growing past the threshold
they are compared with. Each method holds the mutex for its whole body, so it is
one step. `Acquire` and `Throttle` are the two outcomes of `TryAcquire`, both with
the eviction of entries older than five minutes; `Throttle` leaves the gauge
alone, as the code does.

`RecoveryCaller` adds `executeRecovery`: the grant, then in a later step the end
of the action. A successful action keeps the slot, a failed one and
cordon-and-alert release it. `recoveryAge` is a history variable: the recoveries
that did restart a pod, aged from their grant as `started` in `TryAcquire` is,
whatever the maps say. `OperatorRestart` forgets the maps and the history: what the
limiter promises, it promises within one life of the process.

### SyncStateMachine and TaoNodeReconciler

`SyncStateMachine` gives the cases of the switch as disjoint predicates on a
status and a verdict. Block lag and anomaly scores are abstracted to the two
booleans the switch reads: `synced` and `critical`.

`TaoNodeReconciler` splits a reconcile at every call that leaves the process:
fetch (cache), ensure (API), probe (HTTP), evaluate (limiter), recover (pod
deletion), persist (API). `api` is the API server's copy, `cache` the informer's,
`watch` the versions on their way between them, `tn` the reconcile's local copy,
and `current` says whether `tn` still has the API server's resourceVersion.
`updateStatusAndRequeue` re-reads from the cache and replaces the whole status, so
`Persist` needs a fresh cache (otherwise it is a conflict, retried) but writes the
status computed from the earlier read. Finalization updates without a re-read and
so fails when `current` is lost.

`slips` is a history variable. It counts, per node, what may cost the ledger of
restarts a charge: reconciles begun from a stale copy, cut short by a crash, or
unable to write their status. `MaxSlips` bounds it by making a node's reads fresh
once it has so many. `PromptOperator` says that cache lag and a reconcile are
shorter than a tick. `FinalizeCleanup` attempts the snapshot and the deletion of the
Lease; both errors are only logged, so `cleaned` means attempted.

### CircuitBreaker

Each atomic load, store and compare-and-swap, and each critical section of `mu`,
is a step of its own. Worker program counters name the operation that comes next.
`Detecting` are the workers whose TaoNode has anomaly detection on; the others
record no outcome. The `EvaluateNode` of this commit never returns an error, which is
`ErrorsReported = FALSE`: `RecordFailure` is not reached and the circuit stays
closed. `ErrorsReported = TRUE` reaches the caller's error branch, by a detector
that returns its errors; the run uses it, because the breaker's races are in what
that branch calls.

### RowLog and BatchWriter

`BatchWriter` models one of the five row types, which share only the context and
the connection. `flushLoop`'s select is three actions; a flush is split into its
start and its outcome so that pushes and the cancellation interleave with it.
A flush can succeed, fail, or fail after the server took the batch. The refinement
mapping to `RowLog` is `pending <- batch \o buf \o ch`.

### Admission, PodTemplate, ValidatorGuard and NodeWorkload

`Admission` has one predicate per rule of the webhook. Optional fields are sets
with at most one element and sizes are in Gi. `PodTemplate` maps a spec to the
StatefulSet the builders would produce: labels (which are also the immutable
selector), image, the command-line options that depend on the spec, the volumes
and which container mounts which, the hotkey hash, the update strategy and the
volumeClaimTemplate.

`NodeWorkload` runs step 3 of a reconcile call by call: the Role and Secret gates,
`ensureNodeWorkload`, `ensureValidatorSingleton`. `sts` is the API server's
StatefulSet and `seen` the informer's; `tn` and `hash` are the spec and the key
hash this reconcile works with, read earlier. The check for structural changes and
the update that follows it read the cache separately; the API server refuses a
template that the selector does not match (`Acceptable`), and an update against an
outdated copy. A delete with orphan propagation
marks the StatefulSet; `CollectOrphans` lets it and its pod go, so that
the create that follows at once usually finds the name taken, as in the cluster.
`defaulting` says whether the API server fills in `volumeMode`; both cases are
explored. The key-injector copies the key of the moment the pod starts (`InjectKey`).

A Lease is its holder and whether it is live. `leaseRead` is what the check under
way has read, `current` whether a write under that resourceVersion would still
succeed. The foreign holder `Rival` stands for whoever else writes the Lease.

### ChainVolume

One claim and its snapshots. Sizes are computed with `Wrap`, which lets an integer
wrap around beyond `MaxInt` (2^63 - 1 in the code), and `Quotient`, which truncates
towards zero. A snapshot is its second and the role in its labels; a deleted one
stays listed until `CollectSnapshot`. The prune loop deletes one snapshot per step.
The two callers of `triggerSnapshot`, recovery and finalization, ignore its errors,
and so does `Finish`. `answering` says whether reconciles get to the disk step: one
whose probe fails returns before it.

### DisasterRecovery

`live` are the TaoNodes in the API server, each with the fields of its spec that
managers other than tao-dr own; `store` is the bucket by the second of the key.
Server-side apply merges (`Merged`): a field that the backup does not set stays if
somebody else owns it and is removed otherwise, and a field that somebody else owns
with another value is a conflict unless forced. The spec that results is what the
webhook validates, so it need not be one that ever was in a backup. A backup is
listed in one step (`pending`) and uploaded in another. The restore command goes
through its phases one API call at a time, and a TaoNode it has not applied yet is
in `todo`. Without an operator behind it the webhook refuses everything, and in a
cluster that failover has just built there is none yet. The order within `todo` is
any, which covers the order of the backup.

## 3. Runs

| Run | Result | Instance | Shows |
|---|---|---|---|
| `limiter` | holds | 3 nodes (1 cordon), 1 slot, cooldown 3 > eviction age 1, deletions fail, one process restart | `SlotsCapped`, `RecoveriesCapped`, `KeepsServing` |
| `limiter_release_leak` | violated | cooldown below eviction age, as shipped, no process restart | `RecoveriesCapped` fails |
| `reconcile_lifecycle` | holds | 1 node that always probes as failing, stale reads, 1 fault of any kind (a lost pod included), 1 crash, 2 slips, 1 AI goroutine, deletion | `CleanedBeforeGone`, `WorkStopsWithObject`, `RestartsCharged`, `DeletionCompletes` |
| `reconcile_fleet` | holds | 2 nodes (1 cordon), 1 slot, 2 restarts allowed, mixed verdicts, failing probes, fresh reads | `BudgetRespected`, `DegradedIsHandled` |
| `reconcile_stale` | violated | 1 node, stale reads, no fault | `BudgetRespected` fails |
| `breaker_races` | holds | 3 workers, 1 without detection, 2 failures, 2 probes, 1 outage, errors reported | `PermitNotLeaked`, `OpenIsLeft` |
| `writer_log` | holds | channel of 2, 5 rows, failing ClickHouse, shutdown | `CountersHonest`, `ImplementsRowLog`, `StartReturns`, `RowsDecided` |
| `node_workload` | holds | 1 node, 6 specs of all roles (2 of them refused), 2 keys, 2 events | `KeyMaterialConfined`, `LiveLeaseRespected`, `WorkloadConverges`, `RivalKeepsValidatorDown` |
| `validator_subnet` | violated | 2 mainnet validators of one subnet, no event | `OneValidatorPerSubnet` fails |
| `workload_churn` | violated | 1 node, defaulting, no event | `ReplacedOnlyOnDrift` fails |
| `chain_volume` | holds | 2 roles, retention 1 and 2, limits that do and do not fit integers up to 2047, 4 seconds, 2 faults, outages at will | `NewestKept`, `RetentionEnforced`, `ExpansionBounded`, `PressureAnswered`, `SnapshotsNeverBlockDeletion` |
| `disaster_recovery` | holds | 2 TaoNodes, 6 specs (2 networks, 2 sizes, with and without a maximum), 2 seconds, 4 events | `ImmutablesSurviveRestore`, `RestoreSucceeds` |

Why the bounds are enough. The limiter needs more nodes that can be restarted than
it has slots, and ages on both sides of each threshold; the order of cooldown and
eviction age decides which properties hold, and each order has a run (the code ships
2 and 5 minutes). The fleet run needs two nodes for one slot, so that one is
throttled while the other holds it, and a budget of two, so that one retries while
the other waits. The lifecycle run allows one fault, one crash, one goroutine and
one deletion, each at any moment, and so two slips of different kinds; its node
always has a critical anomaly, so that recoveries happen from every phase, and the
phases themselves are explored by the fleet run. The breaker run has two workers for
every pair of racing operations and a third that records nothing; two failures and
two probes make both counters take an intermediate value. The writer run has more
rows than channel, buffer and flush hold, so that rows are dropped while others are
being flushed. Nodes of `NodeWorkload` share nothing but the namespace Role and the
operator, so one node shows what edits, keys, Leases and faults do to each other;
two events allow every pair (an edit and its revocation, an edit and a crash between
delete and create, a rotation and a lost pod), and every one of them strikes at any
step. Four seconds let a volume have more snapshots than the retention count, with a
failed pass before; the two roles are two sets of labels. In the restore run four
events suffice for a backup, an edit that makes it old, or the deletion and creation
of a TaoNode on another network, and a failure in the restore, or for a disaster and
a failure of failover and restore each; two seconds let two backups collide or not.
The specs include one that only a merge produces and the webhook refuses (a size
above the maximum).

Symmetry is used only in runs without liveness properties, and only among nodes
or workers of one kind.

Deadlock is not checked where the modelled system may stop: a fleet whose TaoNodes
are all deleted, a volume whose TaoNode is gone, a writer that was shut down, and a
cluster that nobody backs up or restores. The other models never stop, and deadlock
is checked there.

### Fairness

- The clock: weakly fair in the limiter and the breaker; strongly fair in
  `TaoNodeReconciler`, where `PromptOperator` disables it during a reconcile.
- A reconcile: weakly fair per node. controller-runtime requeues it after an
  error, after a conflict and after each `RequeueAfter`, and ten workers serve
  the queue.
- The informer, the StatefulSet controller, the garbage collector: weakly fair,
  as Kubernetes promises. AI goroutines end because their context times out.
- `flushLoop`: weakly fair; flushes end by the driver's timeouts. `SeeCancel` is
  strongly fair because Go's `select` picks at random among ready cases and so
  cannot ignore a closed `Done` channel for ever. `MaxRows` also stands for
  producers that stop: `StartReturns` and `RowsDecided` are about a writer whose
  producers do not outrun the drain for ever.
- `NodeWorkload`: the reconcile, the garbage collector and the informer are weakly
  fair. Nothing is assumed of the StatefulSet controller: where the operator
  replaces the StatefulSet at every reconcile, and is woken by each replacement
  (`Owns`, `taonode_controller.go:788`), it need not get to act in between.
- `ChainVolume`: the steps of a reconcile and the informer are weakly fair; the disk
  step is enabled only while the node answers.
- `DisasterRecovery`: finalization, the operator's start and the establishing of a
  CRD are weakly fair, and so are the restore and failover commands: an
  administrator repeats a command that has failed.
- Nothing is assumed of users, rivals, crashes, faults, disasters and outages.

### Findings

1. **Release gives back the wrong slot** (`limiter_release_leak`). The cooldown
   (2 min) is shorter than the eviction age (5 min), so a node can be granted a
   second recovery while its first still counts as in progress. If the second
   action fails, `Release` removes the single map entry and another node is let
   in: more than `maxConcurrent` recoveries in progress.
2. **A stale read erases a charged restart** (`reconcile_stale`). A reconcile
   that starts before the informer has seen the last status write, and whose
   probe fails because the pod was just deleted, writes the old status back.
3. **Two validators of a subnet** (`validator_subnet`). The Lease is named after
   the TaoNode, so validators of one subnet do not contend for it. (The comment in
   the code calls the Lease `{tn.Name}-validator-lock`; its name ends in
   `-validator-singleton`.)
4. **A StatefulSet that is replaced for ever** (`workload_churn`). The stored
   volumeClaimTemplate has `volumeMode: Filesystem` filled in, the desired one has
   not, and the comparison covers the whole spec: every reconcile sees drift,
   orphan-deletes the StatefulSet and creates it anew. `WorkloadConverges` holds
   nonetheless: each of them agrees with the spec.

Further observations, made while modelling and not kept as runs:

- Recovery. An operator restart forgets the limiter, so `RecoveriesCapped` holds
  within one life of the process, and the next one may admit as many again. The
  cooldown counts from the grant, so two pod deletions of a node can be closer than
  that when the first was slow. A crash between the pod deletion and the status
  write loses the charge: a slip, which `RestartsCharged` allows for and
  `BudgetRespected` excludes. A failing probe returns before the state machine and
  the disk step (`taonode_controller.go:203`): a degraded node that is down is not
  recovered, and one that is down because its disk is full is not expanded. The
  phases do not follow the graph above `evaluateSyncState`
  (`sync_state_machine.go:39`): a critical anomaly takes Synced straight to
  Recovering, not to Degraded, and Recovering goes to Synced without Syncing. The
  status replacement can also overwrite the report an AI goroutine has just written.
  The recovery timeout (`sync_state_machine.go:142`) compares the age of
  `LastReconcileTime`, which every successful reconcile renews, so it does not fire
  while probes succeed, although `taonode_types.go:104` calls it "the maximum time
  to wait for re-sync before declaring failure".
- Breaker. Only the transition out of Open lets a call through, so with
  `halfOpenProbes` above one the circuit stays half-open (`circuit_breaker.go:111`;
  `main.go:343` says "close after 3 successful probes"); a probe of a node without
  anomaly detection records no outcome and has the same effect. `EvaluateNode`
  returns a nil error on all paths (`anomaly_detector.go:102`), so the circuit
  never opens, although `circuit_breaker.go` is there to open it in an outage. The
  blackout is checked before the permit is taken, so two probes can be in flight.
- Writer. The final flush uses the cancelled context (`flush.go:63`), so drained
  rows can be refused; they are then counted as lost (`CountersHonest`), although
  `batch_writer.go:112` says "no rows are dropped during operator shutdown".
- Workload. Validators use `OnDelete`, so a rotated hotkey reaches them only when
  their pod is restarted, although `workload_manager.go:186` promises an
  "automatic rolling update". Where the StatefulSet is replaced for ever, it may not
  reach other nodes either. After a role edit the orphaned pod of the old role is not
  adopted (its labels differ), keeps the pod's name, and the new role does not start
  until somebody deletes it. A rotation that is rolled back between two reconciles goes
  unnoticed. A larger `chainStorage.size` replaces the StatefulSet but does not
  grow the existing claim. The metrics sidecar and the node use the same port,
  9615. With `FallbackToCPU` the GPU is requested all the same
  (`gpu_advisor.go:120`).
- Volume. The increment wraps for claims above about 84 TiB (at 100 %); the API
  server then refuses the shrinking update and the claim stays as it is.
  `AvailableSnapshots` only grows. `SnapshotPolicy.Schedule` is not read. The
  pre-deletion snapshot is owned by the TaoNode and collected with it. After a
  role edit pruning no longer counts the older snapshots, although
  `snapshot_manager.go:138` speaks of the TaoNode's.
- Disaster recovery. The operator's object store only logs (`main.go:387`) and
  reports success, so the runner counts backups that do not exist. A restore merges,
  so even a forced one can leave a spec that neither the backup nor the cluster had,
  or be refused for it by the webhook. `main.go:242` says the runner does not use
  leader election, `dr_runner.go:137` that it does. The cluster ID defaults to the
  pod's host name and not to the prefix of tao-dr, so with a real store the
  operator's backups would scatter over prefixes. A TaoNode restored onto one that
  is being deleted vanishes with it. Failover passes `-var` together with a saved
  plan, which Terraform refuses.

## 4. Proofs

TLAPS proves the following for every value of the constants that satisfies the
assumption of the module that declares them (`LimiterAssumption`,
`CallerAssumption`, `ReconcilerAssumption`, `BreakerAssumption`, and those of the
writer, workload, volume and recovery modules). They fix the types of the
constants: finite fleets, positive limits, optional fields with at most one value,
submitted specs of the shape of a `TaoNodeSpec`. TLC evaluates each of them on
every run. The bounds on clocks, faults, rows and events are constants, too, so the
theorems hold for all of them. Where a theorem has a further hypothesis it is in
the table.

| Theorem | Statement |
|---|---|
| `RecoveryCallerProofs!TypeCorrect` | `Spec => []TypeOK` |
| `RecoveryCallerProofs!SlotsCappedAlways` | `Spec => [](SlotsCapped /\ GaugeNeverUnderReports)` |
| `RecoveryCallerProofs!RecoveriesCappedAlways` | under `SafeSettings`, `Spec => []RecoveriesCapped` |
| `TaoNodeReconcilerProofs!ImplementsRecoveryCaller` | `Spec => L!Spec` |
| `TaoNodeReconcilerProofs!SlotsCappedInOperator` | `Spec => []L!SlotsCapped` |
| `TaoNodeReconcilerProofs!TypeCorrect` | `Spec => []TypeOK` |
| `TaoNodeReconcilerProofs!WorkStopsAlways` | `Spec => []WorkStopsWithObject` |
| `TaoNodeReconcilerProofs!CleanedBeforeGoneAlways` | `Spec => []CleanedBeforeGone` |
| `TaoNodeReconcilerProofs!RestartsChargedAlways` | `Spec => []RestartsCharged` |
| `TaoNodeReconcilerProofs!BudgetOverrunBounded` | `Spec => [](restarts[n] <= MaxRestartAttempts + slips[n])`, for every node while it exists |
| `CircuitBreakerProofs!TypeCorrect` | `Spec => []TypeOK` |
| `CircuitBreakerProofs!PermitNotLeakedAlways` | `Spec => []PermitNotLeaked` |
| `RowLogProofs!StoredOnceInOrderAlways` | `Spec => []StoredOnceInOrder` |
| `RowLogProofs!GivenUpForGoodAlways` | `Spec => GivenUpForGood` |
| `BatchWriterProofs!TypeCorrect` | `Spec => []TypeOK` |
| `BatchWriterProofs!ImplementsRowLogAlways` | `Spec => ImplementsRowLog` |
| `BatchWriterProofs!StoredOnceInOrder`, `!GivenUpForGood` | the two promises of `RowLog`, of the writer |
| `BatchWriterProofs!CountersHonestAlways` | `Spec => []CountersHonest` |
| `NodeWorkloadProofs!TypeCorrect` | `Spec => []TypeOK` |
| `NodeWorkloadProofs!KeyMaterialConfinedAlways` | `Spec => []KeyMaterialConfined` |
| `NodeWorkloadProofs!LiveLeaseRespectedAlways` | `Spec => LiveLeaseRespected` |
| `ChainVolumeProofs!TypeCorrect` | `Spec => []TypeOK` |
| `ChainVolumeProofs!NewestKeptAlways` | `Spec => []NewestKept` |
| `ChainVolumeProofs!RetentionEnforcedAlways` | `Spec => RetentionEnforced` |
| `ChainVolumeProofs!ExpansionBoundedAlways` | `Spec => ExpansionBounded` |
| `DisasterRecoveryProofs!TypeCorrect` | `Spec => []TypeOK` |
| `DisasterRecoveryProofs!ImmutablesSurviveRestoreAlways` | `Spec => ImmutablesSurviveRestore` |

So every invariant and every action property that a passing run checks is also
proved, but for `BudgetRespected`: it does not hold of the program, and what holds
is `BudgetOverrunBounded`. The arguments, component by component:

**Limiter.** `SlotsCapped` is inductive with the type invariant: a grant comes only
below the cap and adds at most one key, everything else removes keys. The gauge is
set at each grant and release and lags only when an eviction shrinks the map.

`RecoveriesCapped` is not inductive, because it does not mention the maps. The
strengthening `HistoryInv` connects history and maps: every recovery under way
(`ActingInv`) or performed (`RestartInv`) that is not older than the eviction age
holds a slot that is at least as young, and is covered by the node's cooldown; and
with a cooldown longer than the eviction age, a node that acts has no earlier
restart still in progress (`SpacingInv`), so that a release cannot drop one. Then
the recoveries in progress are a subset of the slots, which are capped.
`SafeSettings` is: either actions do not fail or the cooldown is longer than the
eviction age. The first finding shows that the condition is needed; the shipped
settings do not meet it. A process restart clears maps and history together, so
the theorem speaks of one life of the process.

**Reconcile loop.** `ImplementsRecoveryCaller` goes action by action: evaluate and
recover of a node are the grant and the end of its action, a crash is a process
restart, a tick is a tick, and all the rest leaves the limiter's variables alone.
Through it the cap on slots holds of the whole operator; the theorem on recoveries in
progress is not restated there, because the shipped settings do not meet its
condition.

`WorkStopsWithObject` and `CleanedBeforeGone` need to know what a lagging cache may
still show. `LifeInv` says, of each node: whenever some version that the informer
has or will get is one a reconcile would go on with, the object in the API server
still exists under its finalizer; so does it for every reconcile past the fetch;
a reconcile whose copy is current has no version on its way to the informer; and a
workload exists only under a finalizer or after the cleaning. Stale reads, faults,
crashes and the AI goroutine are all allowed.

`RestartsCharged` compares restarts really performed with the count in the status.
`LedgerInv` says where the charge is at each step of a reconcile: in the local copy
from evaluate on, in the API server from persist on, and in each version that the
informer has or will get but for one restart at most, which is what a reconcile
begun from a stale copy can lose and why it counts as a slip. A crash or a failed
write loses the one charge not yet persisted. Nothing is assumed of the faults.
It rests on `CacheInv`: the last version on its way to the informer, or the
informer's own if there is none, is the stored one. `BudgetOverrunBounded` follows,
as the count never exceeds the limit. The actions are first reduced
to their effects (`StepEffects`: fetched, went on, evaluated, charged, recovered,
persisted, abandoned, gone or aside), and each invariant is shown once per effect.

**Breaker.** `PermitNotLeaked` is inductive with the type invariant. Each action
that sets the permit, leaves `half-open` or leaves a releasing step is treated on
its own; the others are covered by the lemma `UntouchedPermit`.

**Writer.** Of `RowLog`, `LogInv` says that the rows stored, then those pending, are
increasing and none is above the number pushed. `BatchWriter` maps `pending` to
batch, buffer and channel joined: moving a row from channel to buffer, or the
buffer into a batch, is then a stutter, by associativity, and the end of a flush
stores or gives up a prefix. Only `BatchInv` is needed (a batch is there exactly
while it is flushed). For `CountersHonest` the set of rows moves along.

**Workload.** `WorkloadInv` says that only specs the webhook admits are stored or
worked on, and that every StatefulSet, the informer's copy of it and every pod
consist of what the builders make of such a spec. `KeyMaterialConfined` is then a
fact about the builders and the webhook's rule that a subtensor node has no
validator section. For the Lease, `LeaseInv` says that a check whose
read is still current has read what is there.

**Volume.** `VolumeInv` adds to the types that snapshots are only taken under a policy
and not pruned once the TaoNode is gone (`PassShape`), that every snapshot being
deleted has `retentionCount` newer ones of its labels that stay (`Covered`), and
that a pass under way leaves exactly `retentionCount` of its labels, all newer than
the rest (`PassKeeps`). The core is `ListingKeeps`: the list also holds snapshots
that are being deleted, but by `Covered` they are among the oldest, so the newest
`retentionCount` are all ones that stay. That the `k` oldest of a list are `k`
(`OldestAreAsMany`) is a counting argument: the number of older snapshots maps those
to delete one to one into `0 .. k-1`, and the others into the rest.
`ExpansionBounded` follows from the cap, and from the API server's refusal of a
smaller size, which also covers the increments that have wrapped around.

**Disaster recovery.** `DRInv` is the types, with at most one TaoNode per name and
backup per key, and with what is left to apply part of what was downloaded. The set
of specs is closed under merging (`RecoveryAssumption`). `ImmutablesSurviveRestore`
follows from `ValidateUpdate`, applied to the merged spec, at the two places where a
spec is written.

TLC also finds the inductive invariants to hold on the instances of section 3, as far
as it can evaluate them (the sets of objects in `WorkloadInv` range over `Nat`).

Model-checked only: the liveness properties (`KeepsServing`, `DeletionCompletes`,
`DegradedIsHandled`, `OpenIsLeft`, `StartReturns`, `RowsDecided`,
`WorkloadConverges`, `RivalKeepsValidatorDown`, `PressureAnswered`,
`SnapshotsNeverBlockDeletion`, `RestoreSucceeds`): they depend on fairness, which is
out of reach of the prover. `BudgetRespected` is checked for fresh reads. The four
violated properties have counterexamples.

## 5. Not modelled

- Re-creation of a deleted TaoNode under the same name (a new UID).
- Pods are read live rather than through the informer cache, so a probe or a
  recovery of the model sees the pod as it is.
- Conditions, events, metrics other than the gauge and the writer's counters.
- ServiceAccount and ServiceMonitor (created, never read back), and of the pod
  template ports, probes, resources, GPU affinity and security contexts, which do
  not depend on the state of anything else.
- The WaitGroup that joins the five flush loops; the five concurrent queries of
  the anomaly detector, which share a buffered channel and a deadline only.
- Rows pushed after the drain stay in the channel and count as pending.
- The advisor's rate limiter: a fixed-window counter under one mutex, which admits
  up to twice its quota around the end of a window, as fixed windows do.
- The DR runner: the store it is given only logs.
- What the StatefulSet controller makes of the pod in the long run.
- The notifier, FinOps estimates, fleet correlation, the ClickHouse client, the
  status command of tao-dr, dry runs and namespace flags: text, SQL, HTTP and
  floating-point estimates without control state.
- Manifests, dashboards, Terraform and generated code.

## 6. Plan

Done: all components with control state of their own, and proofs of the safety
properties that passing runs check. What could be added:

1. Facts that the liveness properties rest on and that are safety: an expansion that
   does not overflow makes progress at every size; a pruning pass gets shorter with
   every deletion; the variants of `DeletionCompletes` and `RestoreSucceeds`.
2. The cause of the findings as theorems: with a cooldown above the eviction age a
   release never gives back a slot of another recovery; with the Lease named after
   the subnet two validators of it exclude each other.
