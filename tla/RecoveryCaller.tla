--------------------------- MODULE RecoveryCaller --------------------------
(***************************************************************************)
(* The limiter driven by its only caller, executeRecovery                  *)
(* (internal/controller/sync_state_machine.go): the reconcile of a node    *)
(* asks for a slot, performs the recovery action, and gives the slot back  *)
(* only when the action failed or left the node in phase Failed.           *)
(* controller-runtime never runs two reconciles of one node at a time, so  *)
(* a node is either idle or inside one executeRecovery; different nodes    *)
(* interleave freely (MaxConcurrentReconciles: 10).                        *)
(***************************************************************************)
EXTENDS RecoveryRateLimiter

CONSTANTS
  CordonNodes,     \* nodes with recoveryStrategy cordon-and-alert
  ActionsMayFail,  \* whether the pod deletion of a recovery can fail
  MaxCrashes       \* bound on the operator restarts of a behaviour

ASSUME CallerAssumption ==
  /\ CordonNodes \subseteq Nodes
  /\ ActionsMayFail \in BOOLEAN
  /\ MaxCrashes \in Nat

VARIABLES
  acting,      \* node |-> age of its recovery, while the action is under way
  recoveryAge, \* history of this process: node |-> age of its last performed recovery
  crashes      \* number of operator restarts so far

callerVars == <<acting, recoveryAge, crashes>>
vars == <<limiterVars, callerVars>>

(* Ages of the history stop growing past both thresholds. *)
Horizon == StaleAfter + 1 + Cooldown

TypeOK ==
  /\ LimiterTypeOK
  /\ DOMAIN acting \subseteq Nodes
  /\ acting \in [DOMAIN acting -> 0 .. Horizon]
  /\ DOMAIN recoveryAge \subseteq Nodes
  /\ recoveryAge \in [DOMAIN recoveryAge -> 0 .. Horizon]
  /\ crashes \in 0 .. MaxCrashes

Init ==
  /\ NewRecoveryRateLimiter
  /\ acting = [n \in {} |-> 0]
  /\ recoveryAge = [n \in {} |-> 0]
  /\ crashes = 0

(* executeRecovery with TryAcquire = true, up to the recovery action. *)
Grant(n) ==
  /\ n \notin DOMAIN acting
  /\ Acquire(n)
  /\ acting' = Put(acting, n, 0)
  /\ UNCHANGED <<recoveryAge, crashes>>

(* executeRecovery with TryAcquire = false: requeue in 30 s. *)
Refuse(n) ==
  /\ n \notin DOMAIN acting
  /\ Throttle(n)
  /\ UNCHANGED callerVars

(* The action succeeds: the pod is restarted and the slot is kept.  Like the
   `started` of TryAcquire, the age of a recovery counts from its grant. *)
ActionDone(n) ==
  /\ n \in DOMAIN acting \ CordonNodes
  /\ acting' = Without(acting, {n})
  /\ recoveryAge' = Put(recoveryAge, n, acting[n])
  /\ UNCHANGED <<limiterVars, crashes>>

(* recoveryRestart finds no pod (NotFound is ignored), or the snapshot-restore
   strategy could not read it: success without a restart, the slot is kept. *)
PodMissing(n) ==
  /\ n \in DOMAIN acting \ CordonNodes
  /\ acting' = Without(acting, {n})
  /\ UNCHANGED <<limiterVars, recoveryAge, crashes>>

(* The action fails (err != nil): nothing was restarted, the slot is
   released. *)
ActionFailed(n) ==
  /\ ActionsMayFail
  /\ n \in DOMAIN acting \ CordonNodes
  /\ acting' = Without(acting, {n})
  /\ Release(n)
  /\ UNCHANGED <<recoveryAge, crashes>>

(* recoveryCordonAndAlert: the node is left in phase Failed without any
   restart, and the slot is released. *)
Cordoned(n) ==
  /\ n \in DOMAIN acting \cap CordonNodes
  /\ acting' = Without(acting, {n})
  /\ Release(n)
  /\ UNCHANGED <<recoveryAge, crashes>>

(* The operator process restarts: reconciles in progress are gone and the
   limiter is built anew by main.  The history starts anew too: what the limiter
   promises, it promises within one life of the process. *)
OperatorRestart ==
  /\ crashes < MaxCrashes
  /\ ResetLimiter
  /\ acting' = [n \in {} |-> 0]
  /\ recoveryAge' = [n \in {} |-> 0]
  /\ crashes' = crashes + 1

Tick ==
  /\ AgeLimiter
  /\ acting' = [n \in DOMAIN acting |-> Older(acting[n], Horizon)]
  /\ recoveryAge' = [n \in DOMAIN recoveryAge |-> Older(recoveryAge[n], Horizon)]
  /\ UNCHANGED crashes

Next ==
  \/ \E n \in Nodes : Grant(n)
  \/ \E n \in Nodes : Refuse(n)
  \/ \E n \in Nodes : ActionDone(n)
  \/ \E n \in Nodes : PodMissing(n)
  \/ \E n \in Nodes : ActionFailed(n)
  \/ \E n \in Nodes : Cordoned(n)
  \/ OperatorRestart
  \/ Tick

Spec == Init /\ [][Next]_vars

(* The clock runs, an action ends, and a reconcile that was refused asks
   again (executeRecovery requeues itself after 30 s). *)
Fairness ==
  /\ WF_vars(Tick)
  /\ \A n \in Nodes :
       /\ WF_vars(Grant(n) \/ Refuse(n))
       /\ WF_vars(ActionDone(n) \/ PodMissing(n) \/ ActionFailed(n) \/ Cordoned(n))

FairSpec == Spec /\ Fairness

----------------------------------------------------------------------------
(***************************************************************************)
(* Properties                                                              *)
(***************************************************************************)

(* The map of TryAcquire never holds more than maxConcurrent slots, over any
   interleaving of grants, evictions, releases and process restarts. *)
SlotsCapped == Cardinality(DOMAIN activeRecoveries) <= MaxConcurrent

(* The gauge taonode_recovery_active may lag behind an eviction that TryAcquire
   made before refusing, but it never shows fewer recoveries than the map
   holds: an alert on a saturated limiter cannot be missed. *)
GaugeNeverUnderReports ==
  activeRecoveriesGauge >= Cardinality(DOMAIN activeRecoveries)

(* Nodes whose last performed recovery the limiter does not yet assume to be
   complete (granted at most 5 minutes ago). *)
Recovering == {n \in DOMAIN recoveryAge : recoveryAge[n] <= StaleAfter}

(* What the limiter is for: at most maxConcurrent nodes have a recovery in
   progress, counting the restarts really performed and not the entries of the
   map.  Says that TryAcquire, Release and the eviction together never forget a
   restart of this process that is still in progress. *)
RecoveriesCapped == Cardinality(Recovering) <= MaxConcurrent

(* The limiter never wedges: although a successful recovery never releases its
   slot, the eviction in TryAcquire recycles it, so a fleet that keeps asking
   keeps being served. *)
KeepsServing == []<>(DOMAIN acting # {})
============================================================================
