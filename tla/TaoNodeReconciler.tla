------------------------- MODULE TaoNodeReconciler -------------------------
(***************************************************************************)
(* The reconcile loop of the operator                                      *)
(* (internal/controller/taonode_controller.go) for a fleet of TaoNodes.    *)
(*                                                                         *)
(* A reconcile is split at the calls that leave the process: the read from *)
(* the informer cache, the writes to the API server, the probe, the        *)
(* limiter's mutex and the deletion of the pod.  Reconciles of different   *)
(* nodes interleave, two reconciles of one node never overlap              *)
(* (controller-runtime's work queue).  The AI goroutines, the informer,    *)
(* the StatefulSet controller, users and process restarts interleave with  *)
(* all of them.                                                            *)
(***************************************************************************)
EXTENDS SyncStateMachine, Sequences, FiniteSets

CONSTANTS
  Nodes, CordonNodes,                   \* the fleet, and its cordon-and-alert nodes
  MaxConcurrent, Cooldown, StaleAfter,  \* of the RecoveryRateLimiter
  Verdicts,        \* the verdicts a successful probe can give
  ProbesMayFail,   \* whether a probe of a running pod can fail
  MaxSlips,        \* bound on slips: with as many, the node's reads are fresh
  PromptOperator,  \* TRUE: cache lag and reconciles are shorter than a tick
  Faults,          \* what may go wrong: the calls "ensure", "delete" and "persist"
                   \* fail, a pod is lost ("evict")
  MaxFaults,       \* bound on faults
  MaxCrashes,      \* bound on operator restarts
  MaxAdvisories,   \* bound on AI goroutines in flight per node (0: no advisor)
  Deletable        \* nodes users may delete

ASSUME ReconcilerAssumption ==
  /\ IsFiniteSet(Nodes) /\ CordonNodes \subseteq Nodes
  /\ MaxConcurrent \in Nat \ {0} /\ Cooldown \in Nat \ {0} /\ StaleAfter \in Nat
  /\ Verdicts \subseteq Verdict
  /\ ProbesMayFail \in BOOLEAN
  /\ MaxSlips \in Nat
  /\ PromptOperator \in BOOLEAN
  /\ Faults \subseteq {"ensure", "delete", "persist", "evict"}
  /\ MaxFaults \in Nat /\ MaxCrashes \in Nat
  /\ MaxAdvisories \in Nat
  /\ Deletable \subseteq Nodes

VARIABLES
  api,        \* [Nodes -> Object]: the TaoNodes in the API server
  cache,      \* [Nodes -> Object]: the informer's copies, read by r.Get
  watch,      \* [Nodes -> Seq(Object)]: versions the informer has not seen yet
  workload,   \* [Nodes -> BOOLEAN]: the StatefulSet exists
  pod,        \* [Nodes -> BOOLEAN]: pod-0 exists
  pc,         \* [Nodes -> Step]: where the reconcile of the node is
  tn,         \* [Nodes -> Object]: the reconcile's local object
  current,    \* [Nodes -> BOOLEAN]: tn still has the API server's resourceVersion
  verdict,    \* [Nodes -> Verdict]: what the reconcile learnt in steps 4 and 5
  advisories, \* [Nodes -> Nat]: AI goroutines in flight
  faults,     \* failed calls so far
  restarts,   \* history: [Nodes -> Nat]: pod deletions by recoveries
  slips,      \* history: [Nodes -> Nat]: reconciles begun from a stale copy, cut
              \* short by a crash, or unable to write their status
  cleaned,    \* history: nodes whose finalization has attempted its cleanup
  \* the limiter and its caller's state, see RecoveryCaller
  activeRecoveries, lastRecoveryByNode, activeRecoveriesGauge,
  acting, recoveryAge, crashes

L == INSTANCE RecoveryCaller WITH ActionsMayFail <- "delete" \in Faults

clusterVars == <<api, cache, watch, workload, pod>>
workerVars  == <<pc, tn, current, verdict>>
historyVars == <<restarts, slips, cleaned>>
recoveryVars == <<activeRecoveries, lastRecoveryByNode, activeRecoveriesGauge,
                  acting, recoveryAge, crashes>>
vars == <<clusterVars, workerVars, advisories, faults, historyVars, recoveryVars>>

Steps == {"idle", "ensure", "probe", "evaluate", "recover", "persist",
          "finalize", "unfinalize"}

Object == [exists : BOOLEAN, deleting : BOOLEAN, finalizer : BOOLEAN,
           status : Status]

Absent  == [exists |-> FALSE, deleting |-> FALSE, finalizer |-> FALSE,
            status |-> NoStatus]
Created == [Absent EXCEPT !.exists = TRUE]

NoVerdict == [synced |-> FALSE, critical |-> FALSE]

TypeOK ==
  /\ api \in [Nodes -> Object]
  /\ cache \in [Nodes -> Object]
  /\ watch \in [Nodes -> Seq(Object)]
  /\ workload \in [Nodes -> BOOLEAN]
  /\ pod \in [Nodes -> BOOLEAN]
  /\ pc \in [Nodes -> Steps]
  /\ tn \in [Nodes -> Object]
  /\ current \in [Nodes -> BOOLEAN]
  /\ verdict \in [Nodes -> Verdict]
  /\ advisories \in [Nodes -> 0 .. MaxAdvisories]
  /\ faults \in 0 .. MaxFaults
  /\ restarts \in [Nodes -> Nat]
  /\ slips \in [Nodes -> Nat]
  /\ cleaned \subseteq Nodes
  /\ L!TypeOK

Init ==
  /\ api = [n \in Nodes |-> Created]
  /\ cache = api
  /\ watch = [n \in Nodes |-> <<>>]
  /\ workload = [n \in Nodes |-> FALSE]
  /\ pod = [n \in Nodes |-> FALSE]
  /\ pc = [n \in Nodes |-> "idle"]
  /\ tn = [n \in Nodes |-> Absent]
  /\ current = [n \in Nodes |-> FALSE]
  /\ verdict = [n \in Nodes |-> NoVerdict]
  /\ advisories = [n \in Nodes |-> 0]
  /\ faults = 0
  /\ restarts = [n \in Nodes |-> 0]
  /\ slips = [n \in Nodes |-> 0]
  /\ cleaned = {}
  /\ L!Init

----------------------------------------------------------------------------
(* Steps of a reconcile *)

Goto(n, step) == pc' = [pc EXCEPT ![n] = step]

(* The reconcile returns: its local state is gone. *)
Return(n) ==
  /\ Goto(n, "idle")
  /\ tn' = [tn EXCEPT ![n] = Absent]
  /\ current' = [current EXCEPT ![n] = FALSE]
  /\ verdict' = [verdict EXCEPT ![n] = NoVerdict]

SetStatus(n, st) == tn' = [tn EXCEPT ![n].status = st]

(* A call fails for a transient reason. *)
Fault(kind) ==
  /\ kind \in Faults
  /\ faults < MaxFaults
  /\ faults' = faults + 1

CacheFresh(n) == watch[n] = <<>>

(* Something befell the reconcile of n for which its ledger may owe a restart. *)
Slip(n) == slips' = [slips EXCEPT ![n] = @ + 1]

(* The API server stores a new version and will tell the informer.  A local
   object read before is outdated from now on. *)
Write(n, obj) ==
  /\ api' = [api EXCEPT ![n] = obj]
  /\ watch' = [watch EXCEPT ![n] = Append(@, obj)]
  /\ UNCHANGED <<cache, workload, pod>>

----------------------------------------------------------------------------
(* Steps 1 and 2: fetch *)

Fetchable(n) ==
  /\ pc[n] = "idle"
  /\ cache[n].exists
  /\ CacheFresh(n) \/ slips[n] < MaxSlips

(* Mutant: the reconcile goes on although the finalizer is not in place. *)
StartWithoutFinalizer(n) ==
  /\ Fetchable(n)
  /\ ~cache[n].deleting
  /\ Goto(n, "ensure")
  /\ tn' = [tn EXCEPT ![n] = [cache[n] EXCEPT !.status.phase =
                                IF @ = "" THEN "Pending" ELSE @]]
  /\ current' = [current EXCEPT ![n] = CacheFresh(n)]
  /\ UNCHANGED <<clusterVars, verdict, advisories, faults, historyVars, recoveryVars>>

(* The phase of a new TaoNode is set to Pending in the local object only. *)
StartReconcile(n) ==
  /\ Fetchable(n)
  /\ ~cache[n].deleting
  /\ cache[n].finalizer
  /\ Goto(n, "ensure")
  /\ tn' = [tn EXCEPT ![n] =
              IF cache[n].status.phase = ""
              THEN [cache[n] EXCEPT !.status.phase = "Pending"]
              ELSE cache[n]]
  /\ current' = [current EXCEPT ![n] = CacheFresh(n)]
  /\ IF CacheFresh(n) THEN UNCHANGED slips ELSE Slip(n)
  /\ UNCHANGED <<clusterVars, verdict, advisories, faults, restarts, cleaned,
                 recoveryVars>>

(* Update with the cached resourceVersion: a conflict when the cache is stale,
   which changes nothing and is retried. *)
AddFinalizer(n) ==
  /\ Fetchable(n)
  /\ ~cache[n].deleting
  /\ ~cache[n].finalizer
  /\ CacheFresh(n)
  /\ Write(n, [api[n] EXCEPT !.finalizer = TRUE])
  /\ UNCHANGED <<workerVars, advisories, faults, historyVars, recoveryVars>>

(* Mutants: the cleanup is skipped; finalization waits for the pod to go. *)
FinalizeWithoutCleanup(n) ==
  /\ Fetchable(n)
  /\ cache[n].deleting
  /\ cache[n].finalizer
  /\ Goto(n, "unfinalize")
  /\ tn' = [tn EXCEPT ![n] = cache[n]]
  /\ current' = [current EXCEPT ![n] = CacheFresh(n)]
  /\ UNCHANGED <<clusterVars, verdict, advisories, faults, historyVars, recoveryVars>>

FinalizeAfterPod(n) ==
  /\ Fetchable(n)
  /\ cache[n].deleting
  /\ cache[n].finalizer
  /\ ~pod[n]
  /\ Goto(n, "finalize")
  /\ tn' = [tn EXCEPT ![n] = cache[n]]
  /\ current' = [current EXCEPT ![n] = CacheFresh(n)]
  /\ UNCHANGED <<clusterVars, verdict, advisories, faults, historyVars, recoveryVars>>

StartFinalization(n) ==
  /\ Fetchable(n)
  /\ cache[n].deleting
  /\ cache[n].finalizer
  /\ Goto(n, "finalize")
  /\ tn' = [tn EXCEPT ![n] = cache[n]]
  /\ current' = [current EXCEPT ![n] = CacheFresh(n)]
  /\ UNCHANGED <<clusterVars, verdict, advisories, faults, historyVars, recoveryVars>>

----------------------------------------------------------------------------
(* Step 3: owned resources *)

EnsureResources(n) ==
  /\ pc[n] = "ensure"
  /\ workload' = [workload EXCEPT ![n] = TRUE]
  /\ Goto(n, "probe")
  /\ UNCHANGED <<api, cache, watch, pod, tn, current, verdict, advisories,
                 faults, historyVars, recoveryVars>>

(* The namespace Role or the hotkey Secret is missing: the status is persisted
   as it is and the reconcile comes back later. *)
EnsureBlocked(n) ==
  /\ pc[n] = "ensure"
  /\ Fault("ensure")
  /\ Goto(n, "persist")
  /\ UNCHANGED <<clusterVars, tn, current, verdict, advisories, historyVars,
                 recoveryVars>>

(* A call on an owned resource fails and the reconcile returns the error; the
   validator's Lease comes after the StatefulSet. *)
EnsureFails(n) ==
  /\ pc[n] = "ensure"
  /\ Fault("ensure")
  /\ \E made \in {workload[n], TRUE} : workload' = [workload EXCEPT ![n] = made]
  /\ Return(n)
  /\ UNCHANGED <<api, cache, watch, pod, advisories, historyVars, recoveryVars>>

----------------------------------------------------------------------------
(* Steps 4 and 5: chain probe and anomaly detection *)

ProbeFails(n) ==
  /\ pc[n] = "probe"
  /\ ProbesMayFail \/ ~pod[n]
  /\ Goto(n, "persist")
  /\ UNCHANGED <<clusterVars, tn, current, verdict, advisories, faults,
                 historyVars, recoveryVars>>

ProbeSucceeds(n) ==
  /\ pc[n] = "probe"
  /\ pod[n]
  /\ \E v \in Verdicts : verdict' = [verdict EXCEPT ![n] = v]
  /\ Goto(n, "evaluate")
  /\ UNCHANGED <<clusterVars, tn, current, advisories, faults, historyVars,
                 recoveryVars>>

----------------------------------------------------------------------------
(* Steps 7 to 9: state machine, recovery, launch of the AI advisory *)

(* The rest of a reconcile whose evaluation did not fail: an anomaly above
   minAnomalyScoreForAdvisory, which need not be a critical one, starts an AI
   goroutine, LastReconcileTime is stamped, and the status is to be persisted. *)
Conclude(n, st) ==
  /\ SetStatus(n, Stamp(st))
  /\ Goto(n, "persist")
  /\ \/ UNCHANGED advisories
     \/ /\ advisories[n] < MaxAdvisories
        /\ advisories' = [advisories EXCEPT ![n] = @ + 1]
  /\ UNCHANGED <<current, verdict>>

EvaluateSettled(n, st) ==
  /\ Conclude(n, st)
  /\ UNCHANGED <<clusterVars, faults, historyVars, recoveryVars>>

EvaluatePending(n) ==
  /\ pc[n] = "evaluate"
  /\ IsPending(tn[n].status)
  /\ EvaluateSettled(n, Settle(tn[n].status, "Syncing"))

EvaluateInSync(n) ==
  /\ pc[n] = "evaluate"
  /\ HappyPath(tn[n].status, verdict[n])
  /\ EvaluateSettled(n, Settle(tn[n].status, "Synced"))

EvaluateExhausted(n) ==
  /\ pc[n] = "evaluate"
  /\ NeedsRecovery(tn[n].status, verdict[n])
  /\ BudgetSpent(tn[n].status)
  /\ EvaluateSettled(n, Settle(tn[n].status, "Failed"))

EvaluateThrottled(n) ==
  /\ pc[n] = "evaluate"
  /\ NeedsRecovery(tn[n].status, verdict[n])
  /\ ~BudgetSpent(tn[n].status)
  /\ L!Refuse(n)
  /\ Conclude(n, Degrade(tn[n].status, verdict[n]))
  /\ UNCHANGED <<clusterVars, faults, historyVars>>

EvaluateGranted(n) ==
  /\ pc[n] = "evaluate"
  /\ NeedsRecovery(tn[n].status, verdict[n])
  /\ ~BudgetSpent(tn[n].status)
  /\ L!Grant(n)
  /\ SetStatus(n, Charge(Degrade(tn[n].status, verdict[n])))
  /\ Goto(n, "recover")
  /\ UNCHANGED <<clusterVars, current, verdict, advisories, faults, historyVars>>

EvaluateRecovering(n) ==
  /\ pc[n] = "evaluate"
  /\ StillRecovering(tn[n].status, verdict[n])
  /\ EvaluateSettled(n, CheckTimeout(tn[n].status))

EvaluateProgress(n) ==
  /\ pc[n] = "evaluate"
  /\ ReportsProgress(tn[n].status, verdict[n])
  /\ EvaluateSettled(n, tn[n].status)

(* recoveryRestart and recoverySnapshotRestore delete pod-0. *)
RecoverByRestart(n) ==
  /\ pc[n] = "recover"
  /\ pod[n]
  /\ L!ActionDone(n)
  /\ pod' = [pod EXCEPT ![n] = FALSE]
  /\ restarts' = [restarts EXCEPT ![n] = @ + 1]
  /\ Conclude(n, tn[n].status)
  /\ UNCHANGED <<api, cache, watch, workload, faults, slips, cleaned>>

RecoverPodMissing(n) ==
  /\ pc[n] = "recover"
  /\ ~pod[n]
  /\ L!PodMissing(n)
  /\ Conclude(n, tn[n].status)
  /\ UNCHANGED <<clusterVars, faults, historyVars>>

RecoverByCordon(n) ==
  /\ pc[n] = "recover"
  /\ L!Cordoned(n)
  /\ Conclude(n, Settle(tn[n].status, "Failed"))
  /\ UNCHANGED <<clusterVars, faults, historyVars>>

(* The deletion fails: the slot is released and the error returned, without
   the charged restart or the phase being persisted. *)
RecoverFails(n) ==
  /\ pc[n] = "recover"
  /\ pod[n]
  /\ Fault("delete")
  /\ L!ActionFailed(n)
  /\ Return(n)
  /\ UNCHANGED <<clusterVars, advisories, historyVars>>

----------------------------------------------------------------------------
(* Step 10: updateStatusAndRequeue.  The whole status computed by this
   reconcile replaces the one of the latest object. *)

Persist(n) ==
  /\ pc[n] = "persist"
  /\ CacheFresh(n)
  /\ cache[n].exists
  /\ Write(n, [api[n] EXCEPT !.status = tn[n].status])
  /\ Return(n)
  /\ UNCHANGED <<advisories, faults, historyVars, recoveryVars>>

(* The API server refuses, RetryOnConflict gives up on a stale cache, or the
   TaoNode is gone and there is nothing to persist. *)
PersistFails(n) ==
  /\ pc[n] = "persist"
  /\ IF api[n].exists THEN Fault("persist") /\ Slip(n) ELSE UNCHANGED <<faults, slips>>
  /\ Return(n)
  /\ UNCHANGED <<clusterVars, advisories, restarts, cleaned, recoveryVars>>

----------------------------------------------------------------------------
(* handleFinalization *)

(* Pre-deletion snapshot and deletion of the Lease, attempted: their errors are
   only logged, and finalization goes on whether or not they succeeded. *)
FinalizeCleanup(n) ==
  /\ pc[n] = "finalize"
  /\ cleaned' = cleaned \cup {n}
  /\ Goto(n, "unfinalize")
  /\ UNCHANGED <<clusterVars, tn, current, verdict, advisories, faults,
                 restarts, slips, recoveryVars>>

(* Without its last finalizer the API server drops a TaoNode being deleted. *)
RemoveFinalizer(n) ==
  /\ pc[n] = "unfinalize"
  /\ current[n]
  /\ api[n].exists
  /\ Write(n, Absent)
  /\ Return(n)
  /\ UNCHANGED <<advisories, faults, historyVars, recoveryVars>>

(* A conflict, NotFound or a refused call: the error is returned and the
   whole finalization is retried. *)
RemoveFinalizerFails(n) ==
  /\ pc[n] = "unfinalize"
  /\ IF current[n] THEN Fault("persist") ELSE UNCHANGED faults
  /\ Return(n)
  /\ UNCHANGED <<clusterVars, advisories, historyVars, recoveryVars>>

----------------------------------------------------------------------------
(* Around the reconcile loop *)

(* The goroutine of maybeRequestAIAdvisory re-reads the TaoNode and sets only
   the advisory. *)
AdvisoryWritten(n) ==
  /\ advisories[n] > 0
  /\ CacheFresh(n)
  /\ cache[n].exists
  /\ Write(n, [api[n] EXCEPT !.status.advisory = TRUE])
  /\ advisories' = [advisories EXCEPT ![n] = @ - 1]
  /\ current' = [current EXCEPT ![n] = FALSE]
  /\ UNCHANGED <<pc, tn, verdict, faults, historyVars, recoveryVars>>

(* No report, a timeout, or a TaoNode that is gone. *)
AdvisoryDropped(n) ==
  /\ advisories[n] > 0
  /\ advisories' = [advisories EXCEPT ![n] = @ - 1]
  /\ UNCHANGED <<clusterVars, workerVars, faults, historyVars, recoveryVars>>

(* The informer receives the next version, in order. *)
Deliver(n) ==
  /\ watch[n] # <<>>
  /\ cache' = [cache EXCEPT ![n] = Head(watch[n])]
  /\ watch' = [watch EXCEPT ![n] = Tail(@)]
  /\ UNCHANGED <<api, workload, pod, workerVars, advisories, faults,
                 historyVars, recoveryVars>>

(* kubectl delete: held back by the finalizer, if there is one. *)
UserDelete(n) ==
  /\ n \in Deletable
  /\ api[n].exists
  /\ ~api[n].deleting
  /\ Write(n, IF api[n].finalizer THEN [api[n] EXCEPT !.deleting = TRUE]
                                  ELSE Absent)
  /\ current' = [current EXCEPT ![n] = FALSE]
  /\ UNCHANGED <<pc, tn, verdict, advisories, faults, historyVars, recoveryVars>>

(* The StatefulSet controller brings pod-0 back. *)
RecreatePod(n) ==
  /\ workload[n]
  /\ ~pod[n]
  /\ pod' = [pod EXCEPT ![n] = TRUE]
  /\ UNCHANGED <<api, cache, watch, workload, workerVars, advisories, faults,
                 historyVars, recoveryVars>>

(* Somebody else deletes or evicts pod-0: its machine, its user. *)
EvictPod(n) ==
  /\ pod[n]
  /\ Fault("evict")
  /\ pod' = [pod EXCEPT ![n] = FALSE]
  /\ UNCHANGED <<api, cache, watch, workload, workerVars, advisories,
                 historyVars, recoveryVars>>

(* Owned resources of a TaoNode that is gone are garbage-collected. *)
GarbageCollect(n) ==
  /\ ~api[n].exists
  /\ workload[n]
  /\ workload' = [workload EXCEPT ![n] = FALSE]
  /\ pod' = [pod EXCEPT ![n] = FALSE]
  /\ UNCHANGED <<api, cache, watch, workerVars, advisories, faults,
                 historyVars, recoveryVars>>

(* The process restarts: reconciles, goroutines and limiter are lost, and the
   informer lists the TaoNodes anew. *)
OperatorRestart ==
  /\ L!OperatorRestart
  /\ pc' = [n \in Nodes |-> "idle"]
  /\ tn' = [n \in Nodes |-> Absent]
  /\ current' = [n \in Nodes |-> FALSE]
  /\ verdict' = [n \in Nodes |-> NoVerdict]
  /\ advisories' = [n \in Nodes |-> 0]
  /\ cache' = api
  /\ watch' = [n \in Nodes |-> <<>>]
  /\ slips' = [n \in Nodes |-> IF pc[n] = "idle" THEN slips[n] ELSE slips[n] + 1]
  /\ UNCHANGED <<api, workload, pod, faults, restarts, cleaned>>

AgedObject(obj) == [obj EXCEPT !.status = Aged(@)]

Tick ==
  /\ PromptOperator => \A n \in Nodes : CacheFresh(n) /\ pc[n] = "idle"
  /\ L!Tick
  /\ api' = [n \in Nodes |-> AgedObject(api[n])]
  /\ cache' = [n \in Nodes |-> AgedObject(cache[n])]
  /\ watch' = [n \in Nodes |-> [i \in DOMAIN watch[n] |-> AgedObject(watch[n][i])]]
  /\ tn' = [n \in Nodes |-> AgedObject(tn[n])]
  /\ UNCHANGED <<workload, pod, pc, current, verdict, advisories, faults,
                 historyVars>>

----------------------------------------------------------------------------
Fetch(n) == StartReconcile(n) \/ AddFinalizer(n) \/ StartFinalization(n)

Ensure(n) == EnsureResources(n) \/ EnsureBlocked(n) \/ EnsureFails(n)

Probe(n) == ProbeFails(n) \/ ProbeSucceeds(n)

Evaluate(n) ==
  \/ EvaluatePending(n) \/ EvaluateInSync(n) \/ EvaluateExhausted(n)
  \/ EvaluateThrottled(n) \/ EvaluateGranted(n)
  \/ EvaluateRecovering(n) \/ EvaluateProgress(n)

Recover(n) ==
  \/ RecoverByRestart(n) \/ RecoverPodMissing(n)
  \/ RecoverByCordon(n) \/ RecoverFails(n)

UpdateStatus(n) == Persist(n) \/ PersistFails(n)

Finalize(n) ==
  FinalizeCleanup(n) \/ RemoveFinalizer(n) \/ RemoveFinalizerFails(n)

Reconcile(n) ==
  \/ Fetch(n) \/ Ensure(n) \/ Probe(n) \/ Evaluate(n) \/ Recover(n)
  \/ UpdateStatus(n) \/ Finalize(n)

Advisor(n) == AdvisoryWritten(n) \/ AdvisoryDropped(n)

Cluster(n) == Deliver(n) \/ RecreatePod(n) \/ EvictPod(n) \/ GarbageCollect(n)

Next ==
  \/ \E n \in Nodes : Reconcile(n) \/ Advisor(n) \/ Cluster(n) \/ UserDelete(n)
  \/ OperatorRestart
  \/ Tick

Spec == Init /\ [][Next]_vars

(* A requeued or retried reconcile runs again, the informer delivers, the
   StatefulSet controller works, goroutines end (their contexts time out) and
   the clock runs (strongly fair, as a prompt operator disables it for a while).
   Users and crashes owe nothing. *)
Fairness ==
  /\ SF_vars(Tick)
  /\ \A n \in Nodes : /\ WF_vars(Reconcile(n))
                      /\ WF_vars(Advisor(n))
                      /\ WF_vars(Deliver(n))
                      /\ WF_vars(RecreatePod(n))
                      /\ WF_vars(GarbageCollect(n))

FairSpec == Spec /\ Fairness

----------------------------------------------------------------------------
(***************************************************************************)
(* Properties                                                              *)
(***************************************************************************)

Phase(n) == api[n].status.phase

(* The restart count a node is charged with: the local count of a reconcile that
   is going to persist it (a finalization is not), else the persisted count. *)
ChargedRestarts(n) ==
  IF pc[n] \in {"idle", "finalize", "unfinalize"}
  THEN api[n].status.restartCount
  ELSE tn[n].status.restartCount

(* RestartCount accounts for the pods the operator deleted in recoveries
   (executeRecovery charges in memory before it acts, step 10 persists): a restart
   escapes the ledger only with a slip of its own node, and each slip, be it a
   crash between the deletion and the write, a failed write, or a stale status
   written over a newer one, costs it one restart and never more. *)
RestartsCharged ==
  \A n \in Nodes : api[n].exists => restarts[n] <= ChargedRestarts(n) + slips[n]

(* maxRestartAttempts bounds the restarts really performed on a node. *)
BudgetRespected == \A n \in Nodes : restarts[n] <= MaxRestartAttempts

(* Nothing of a TaoNode outlives it uncleaned: the finalizer is in place before
   the first owned resource is created, so an object with a workload goes away
   only through handleFinalization. *)
CleanedBeforeGone ==
  \A n \in Nodes : workload[n] /\ ~api[n].exists => n \in cleaned

(* Once a TaoNode is gone no reconcile of it is past the fetch on the normal
   path, however far the cache lags: no workload is created and no pod deleted
   for an object that no longer exists. *)
WorkStopsWithObject ==
  \A n \in Nodes : ~api[n].exists => pc[n] \in {"idle", "finalize", "unfinalize"}

(* A TaoNode being deleted goes away: handleFinalization is retried through
   conflicts, failed calls, stale caches and operator restarts. *)
DeletionCompletes ==
  \A n \in Nodes : api[n].deleting ~> ~api[n].exists

(* A degraded node that can still be probed does not stay degraded: however long
   the limiter serves others first, it is eventually recovered, found healthy or
   given up.  (A reconcile whose probe fails returns before the state machine, so
   a node that cannot be probed stays as it is.) *)
DegradedIsHandled ==
  \A n \in Nodes :
    []<>(pc[n] = "evaluate") => (Phase(n) = "Degraded" ~> Phase(n) # "Degraded")
============================================================================
