---------------------- MODULE TaoNodeReconcilerProofs ----------------------
(***************************************************************************)
(* What the reconcile loop guarantees for every fleet and every setting.   *)
(***************************************************************************)
EXTENDS TaoNodeReconciler, SequenceTheorems, TLAPS

(* The theorems about the limiter and its caller. *)
LP == INSTANCE RecoveryCallerProofs WITH ActionsMayFail <- "delete" \in Faults

(* Whatever the reconcile loop does, its recoveries are behaviours of
   RecoveryCaller: the limiter is driven only as executeRecovery drives it. *)
THEOREM ImplementsRecoveryCaller == Spec => L!Spec
<1>1. Init => L!Init
  BY DEF Init
<1>2. [Next]_vars => [L!Next]_(L!vars)
  <2> SUFFICES ASSUME Next PROVE L!Next \/ UNCHANGED recoveryVars
    BY DEF vars, recoveryVars, L!vars, L!limiterVars, L!callerVars
  <2>1. ASSUME NEW n \in Nodes, Evaluate(n) \/ Recover(n)
        PROVE  L!Next \/ UNCHANGED recoveryVars
    BY <2>1 DEF Evaluate, EvaluatePending, EvaluateInSync, EvaluateExhausted,
       EvaluateThrottled, EvaluateGranted, EvaluateRecovering, EvaluateProgress,
       EvaluateSettled, Recover, RecoverByRestart, RecoverPodMissing,
       RecoverByCordon, RecoverFails, L!Next
  <2>2. ASSUME NEW n \in Nodes,
               Fetch(n) \/ Ensure(n) \/ Probe(n) \/ UpdateStatus(n) \/ Finalize(n)
        PROVE  UNCHANGED recoveryVars
    BY <2>2 DEF Fetch, StartReconcile, AddFinalizer, StartFinalization, Ensure,
       EnsureResources, EnsureBlocked, EnsureFails, Probe, ProbeFails, ProbeSucceeds,
       UpdateStatus, Persist, PersistFails, Finalize, FinalizeCleanup,
       RemoveFinalizer, RemoveFinalizerFails
  <2>3. ASSUME NEW n \in Nodes, Advisor(n) \/ Cluster(n) \/ UserDelete(n)
        PROVE  UNCHANGED recoveryVars
    BY <2>3 DEF Advisor, AdvisoryWritten, AdvisoryDropped, Cluster, Deliver,
       RecreatePod, EvictPod, GarbageCollect, UserDelete
  <2>4. CASE OperatorRestart \/ Tick
    BY <2>4 DEF OperatorRestart, Tick, L!Next
  <2> QED BY <2>1, <2>2, <2>3, <2>4 DEF Next, Reconcile
<1> QED BY <1>1, <1>2, PTL DEF Spec, L!Spec

(* The instances of RecoveryCaller in the two modules are the same. *)
LEMMA SameLimiter == L!Spec => LP!Spec
<1>1. ASSUME NEW S PROVE L!Cardinality(S) = LP!Cardinality(S)
  BY Zenon DEF L!Cardinality, LP!Cardinality
<1>2. L!Init => LP!Init
  BY DEF L!Init, LP!Init, L!NewRecoveryRateLimiter, LP!NewRecoveryRateLimiter
<1>3. L!Next => LP!Next
  <2> USE DEF L!Put, LP!Put, L!Without, LP!Without, L!Evicted, LP!Evicted, L!Stale,
      LP!Stale, L!AtCapacity, LP!AtCapacity, L!CoolingDown, LP!CoolingDown,
      L!Release, LP!Release, L!Acquire, LP!Acquire, L!Throttle, LP!Throttle,
      L!limiterVars, L!callerVars, LP!limiterVars, LP!callerVars
  <2>1. ASSUME NEW n \in Nodes, L!Grant(n) PROVE LP!Grant(n)
    BY <1>1, <2>1, Zenon DEF L!Grant, LP!Grant
  <2>2. ASSUME NEW n \in Nodes, L!Refuse(n) PROVE LP!Refuse(n)
    BY <1>1, <2>2, Zenon DEF L!Refuse, LP!Refuse
  <2>3. ASSUME NEW n \in Nodes, L!ActionDone(n) PROVE LP!ActionDone(n)
    BY <2>3, Zenon DEF L!ActionDone, LP!ActionDone
  <2>4. ASSUME NEW n \in Nodes, L!PodMissing(n) PROVE LP!PodMissing(n)
    BY <2>4, Zenon DEF L!PodMissing, LP!PodMissing
  <2>5. ASSUME NEW n \in Nodes, L!ActionFailed(n) PROVE LP!ActionFailed(n)
    BY <1>1, <2>5, Zenon DEF L!ActionFailed, LP!ActionFailed
  <2>6. ASSUME NEW n \in Nodes, L!Cordoned(n) PROVE LP!Cordoned(n)
    BY <1>1, <2>6, Zenon DEF L!Cordoned, LP!Cordoned
  <2>7. L!OperatorRestart => LP!OperatorRestart
    BY Zenon DEF L!OperatorRestart, LP!OperatorRestart, L!ResetLimiter, LP!ResetLimiter
  <2>8. L!Tick => LP!Tick
    BY Zenon DEF L!Tick, LP!Tick, L!AgeLimiter, LP!AgeLimiter, L!Older, LP!Older,
       L!Horizon, LP!Horizon
  <2> QED BY <2>1, <2>2, <2>3, <2>4, <2>5, <2>6, <2>7, <2>8 DEF L!Next, LP!Next
<1>4. [L!Next]_(L!vars) => [LP!Next]_(LP!vars)
  BY <1>3 DEF L!vars, L!limiterVars, L!callerVars, LP!vars, LP!limiterVars, LP!callerVars
<1> QED BY <1>2, <1>4, PTL DEF L!Spec, LP!Spec

(* The assumptions of the limiter's theorems hold of the operator's. *)
LEMMA LimiterAssumptions ==
  /\ LP!IsFiniteSet(Nodes)
  /\ ("delete" \in Faults) \in BOOLEAN
<1>1. LP!IsFiniteSet(Nodes)
  BY ReconcilerAssumption, Zenon DEF IsFiniteSet, LP!IsFiniteSet
<1> QED BY <1>1

(* The limiter's state keeps its types in the operator. *)
LEMMA LimiterTypes == Spec => []L!TypeOK
<1>1. LP!Spec => []LP!TypeOK
  BY LimiterAssumptions, LP!TypeCorrect, ReconcilerAssumption
<1>2. LP!TypeOK => L!TypeOK
  BY DEF LP!TypeOK, L!TypeOK, LP!LimiterTypeOK, L!LimiterTypeOK, LP!ActiveAge,
     L!ActiveAge, LP!LastAge, L!LastAge, LP!Horizon, L!Horizon
<1> QED BY <1>1, <1>2, ImplementsRecoveryCaller, SameLimiter, PTL

----------------------------------------------------------------------------
(* Type correctness *)

(* What evaluateSyncState leaves in a status is a status. *)
LEMMA StatusTypes ==
  ASSUME NEW st \in Status
  PROVE  /\ \A p \in Phases : Settle(st, p) \in Status
         /\ \A v : Degrade(st, v) \in Status
         /\ ~BudgetSpent(st) => Charge(st) \in Status
         /\ CheckTimeout(st) \in Status
         /\ Stamp(st) \in Status
         /\ Aged(st) \in Status
         /\ [st EXCEPT !.advisory = TRUE] \in Status
         /\ [st EXCEPT !.phase = "Pending"] \in Status
<1>1. /\ \A p \in Phases : Settle(st, p) \in Status
      /\ \A v : Degrade(st, v) \in Status
  BY DEF Settle, Degrade, Status, Phases
<1>2. ASSUME ~BudgetSpent(st) PROVE Charge(st) \in Status
  <2>1. st.restartCount + 1 \in 0 .. MaxRestartAttempts
    BY <1>2, SyncPolicyAssumption DEF Status, BudgetSpent
  <2> QED BY <2>1 DEF Charge, Status, Phases
<1>3. CheckTimeout(st) \in Status
  BY DEF CheckTimeout, Settle, Status, Phases
<1>4. Stamp(st) \in Status
  <2>1. 0 \in Never .. SyncTimeout + 1
    BY SyncPolicyAssumption DEF Never
  <2> QED BY <2>1 DEF Stamp, Status
<1>5. Aged(st) \in Status
  <2> DEFINE age == st.lastReconcile
             next == IF age = Never \/ age > SyncTimeout THEN age ELSE age + 1
  <2>1. next \in Never .. SyncTimeout + 1
    BY SyncPolicyAssumption DEF Never, Status
  <2>2. Aged(st) = [st EXCEPT !.lastReconcile = next]
    BY Zenon DEF Aged
  <2> HIDE DEF next
  <2> QED BY <2>1, <2>2 DEF Status
<1>6. /\ [st EXCEPT !.advisory = TRUE] \in Status
      /\ [st EXCEPT !.phase = "Pending"] \in Status
  BY DEF Status, Phases
<1> QED BY <1>1, <1>2, <1>3, <1>4, <1>5, <1>6

(* The versions of a TaoNode that the API server stores are TaoNodes. *)
LEMMA ObjectTypes ==
  ASSUME NEW o \in Object
  PROVE  /\ o.status \in Status
         /\ \A st \in Status : [o EXCEPT !.status = st] \in Object
         /\ [o EXCEPT !.finalizer = TRUE] \in Object
         /\ [o EXCEPT !.deleting = TRUE] \in Object
         /\ [o EXCEPT !.status.advisory = TRUE] \in Object
         /\ [o EXCEPT !.status.phase = "Pending"] \in Object
         /\ AgedObject(o) \in Object
<1>1. /\ o.status \in Status
      /\ \A st \in Status : [o EXCEPT !.status = st] \in Object
      /\ [o EXCEPT !.finalizer = TRUE] \in Object
      /\ [o EXCEPT !.deleting = TRUE] \in Object
  BY DEF Object
<1>2. /\ [o EXCEPT !.status.advisory = TRUE] = [o EXCEPT !.status = [o.status EXCEPT !.advisory = TRUE]]
      /\ [o EXCEPT !.status.phase = "Pending"] = [o EXCEPT !.status = [o.status EXCEPT !.phase = "Pending"]]
  BY Zenon
<1>3. AgedObject(o) \in Object
  BY <1>1, StatusTypes DEF AgedObject
<1> QED BY <1>1, <1>2, <1>3, StatusTypes

(* The objects and verdicts the model names are well typed. *)
LEMMA ConstantTypes == Absent \in Object /\ Created \in Object /\ NoVerdict \in Verdict
<1>1. NoStatus \in Status
  BY SyncPolicyAssumption DEF NoStatus, Status, Phases, Never
<1>2. Absent \in Object
  BY <1>1 DEF Absent, Object
<1>3. Created \in Object
  BY <1>2 DEF Created, Object
<1>4. NoVerdict \in Verdict
  BY DEF NoVerdict, Verdict
<1> QED BY <1>2, <1>3, <1>4

(* A write to the API server, and what the informer will see of it. *)
LEMMA WriteTypes ==
  ASSUME TypeOK, NEW n \in Nodes, NEW o \in Object, Write(n, o)
  PROVE  /\ api' \in [Nodes -> Object]
         /\ watch' \in [Nodes -> Seq(Object)]
         /\ UNCHANGED <<cache, workload, pod>>
<1>1. Append(watch[n], o) \in Seq(Object)
  BY DEF TypeOK
<1> QED BY <1>1 DEF Write, TypeOK

(* The reconcile's local state, where it returns. *)
LEMMA ReturnTypes ==
  ASSUME TypeOK, NEW n \in Nodes, Return(n)
  PROVE  /\ pc' \in [Nodes -> Steps]
         /\ tn' \in [Nodes -> Object]
         /\ current' \in [Nodes -> BOOLEAN]
         /\ verdict' \in [Nodes -> Verdict]
  BY ConstantTypes DEF Return, Goto, TypeOK, Steps

(* ... and where it goes on to persist the status it has computed. *)
LEMMA ConcludeTypes ==
  ASSUME TypeOK, NEW n \in Nodes, NEW st \in Status, Conclude(n, st)
  PROVE  /\ pc' \in [Nodes -> Steps]
         /\ tn' \in [Nodes -> Object]
         /\ current' \in [Nodes -> BOOLEAN]
         /\ verdict' \in [Nodes -> Verdict]
         /\ advisories' \in [Nodes -> 0 .. MaxAdvisories]
<1>1. [tn[n] EXCEPT !.status = Stamp(st)] \in Object
  BY StatusTypes, ObjectTypes DEF TypeOK
<1>2. tn' \in [Nodes -> Object]
  BY <1>1 DEF Conclude, SetStatus, TypeOK
<1>3. advisories' \in [Nodes -> 0 .. MaxAdvisories]
  <2>1. \/ advisories' = advisories
        \/ advisories[n] < MaxAdvisories /\ advisories' = [advisories EXCEPT ![n] = @ + 1]
    BY DEF Conclude
  <2> QED BY <2>1, ReconcilerAssumption DEF TypeOK
<1> QED BY <1>2, <1>3 DEF Conclude, Goto, TypeOK, Steps

(* One more slip, or none. *)
LEMMA SlipTypes ==
  ASSUME TypeOK, NEW n \in Nodes,
         slips' = slips \/ slips' = [slips EXCEPT ![n] = @ + 1]
  PROVE  slips' \in [Nodes -> Nat]
<1>1. slips \in [Nodes -> Nat]
  BY DEF TypeOK
<1>2. CASE slips' = slips
  BY <1>1, <1>2, Zenon
<1>3. CASE slips' = [slips EXCEPT ![n] = @ + 1]
  <2>1. slips[n] + 1 \in Nat
    BY <1>1
  <2> QED BY <1>1, <1>3, <2>1, Zenon
<1> QED BY <1>2, <1>3

(* Steps 1 and 2 of a reconcile keep the types. *)
LEMMA FetchTypes ==
  ASSUME TypeOK, L!TypeOK', NEW n \in Nodes, Fetch(n)
  PROVE  TypeOK'
<1> USE DEF historyVars, clusterVars, workerVars, recoveryVars
<1>1. CacheFresh(n) \in BOOLEAN
  BY DEF CacheFresh
<1>2. CASE StartReconcile(n)
  <2>1. (IF cache[n].status.phase = ""
         THEN [cache[n] EXCEPT !.status.phase = "Pending"] ELSE cache[n]) \in Object
    BY ObjectTypes DEF TypeOK
  <2>2. tn' \in [Nodes -> Object]
    BY <1>2, <2>1, Zenon DEF StartReconcile, TypeOK
  <2>3. pc' \in [Nodes -> Steps] /\ current' \in [Nodes -> BOOLEAN]
    BY <1>1, <1>2 DEF StartReconcile, Goto, TypeOK, Steps
  <2>4. slips' \in [Nodes -> Nat]
    <3>1. slips' = slips \/ slips' = [slips EXCEPT ![n] = @ + 1]
      BY <1>2 DEF StartReconcile, Slip
    <3> QED BY <3>1, SlipTypes
  <2> QED BY <1>2, <2>2, <2>3, <2>4 DEF StartReconcile, TypeOK
<1>3. CASE AddFinalizer(n)
  BY <1>3, ObjectTypes, WriteTypes DEF AddFinalizer, TypeOK
<1>4. CASE StartFinalization(n)
  BY <1>1, <1>4 DEF StartFinalization, Goto, TypeOK, Steps
<1> QED BY <1>2, <1>3, <1>4 DEF Fetch

(* Steps 3 to 5 keep the types. *)
LEMMA EnsureAndProbeTypes ==
  ASSUME TypeOK, L!TypeOK', NEW n \in Nodes, Ensure(n) \/ Probe(n)
  PROVE  TypeOK'
<1> USE DEF historyVars, clusterVars, workerVars, recoveryVars
<1>0. ASSUME NEW b \in BOOLEAN
      PROVE  [workload EXCEPT ![n] = b] \in [Nodes -> BOOLEAN]
  BY Zenon DEF TypeOK
<1>1. CASE EnsureResources(n)
  <2>1. workload' \in [Nodes -> BOOLEAN]
    BY <1>0, <1>1 DEF EnsureResources
  <2> QED BY <1>1, <2>1 DEF EnsureResources, Goto, TypeOK, Steps
<1>2. CASE EnsureBlocked(n)
  BY <1>2, ReconcilerAssumption DEF EnsureBlocked, Goto, Fault, TypeOK, Steps
<1>3. CASE EnsureFails(n)
  <2>1. workload' \in [Nodes -> BOOLEAN]
    BY <1>0, <1>3 DEF EnsureFails, TypeOK
  <2>2. faults' \in 0 .. MaxFaults
    BY <1>3, ReconcilerAssumption DEF EnsureFails, Fault, TypeOK
  <2> QED BY <1>3, <2>1, <2>2, ReturnTypes DEF EnsureFails, TypeOK
<1>4. CASE ProbeFails(n)
  BY <1>4 DEF ProbeFails, Goto, TypeOK, Steps
<1>5. CASE ProbeSucceeds(n)
  BY <1>5, ReconcilerAssumption DEF ProbeSucceeds, Goto, TypeOK, Steps
<1> QED BY <1>1, <1>2, <1>3, <1>4, <1>5 DEF Ensure, Probe

(* evaluateSyncState keeps the types. *)
LEMMA EvaluateTypes ==
  ASSUME TypeOK, L!TypeOK', NEW n \in Nodes, Evaluate(n)
  PROVE  TypeOK'
<1> USE DEF historyVars, clusterVars, workerVars, recoveryVars
<1>1. tn[n] \in Object /\ tn[n].status \in Status
  BY ObjectTypes DEF TypeOK
<1>2. ASSUME NEW st \in Status, EvaluateSettled(n, st) PROVE TypeOK'
  BY <1>2, ConcludeTypes DEF EvaluateSettled, TypeOK
<1>3. CASE EvaluatePending(n) \/ EvaluateInSync(n) \/ EvaluateExhausted(n)
  BY <1>1, <1>2, <1>3, StatusTypes
     DEF EvaluatePending, EvaluateInSync, EvaluateExhausted, Phases
<1>4. CASE EvaluateRecovering(n) \/ EvaluateProgress(n)
  BY <1>1, <1>2, <1>4, StatusTypes DEF EvaluateRecovering, EvaluateProgress
<1>5. CASE EvaluateThrottled(n)
  BY <1>1, <1>5, StatusTypes, ConcludeTypes DEF EvaluateThrottled, TypeOK
<1>6. CASE EvaluateGranted(n)
  <2> DEFINE st == Degrade(tn[n].status, verdict[n])
  <2>1. st \in Status /\ st.restartCount = tn[n].status.restartCount
    BY <1>1, StatusTypes DEF Degrade, Settle, Status
  <2>2. Charge(st) \in Status
    BY <1>6, <2>1, StatusTypes DEF EvaluateGranted, BudgetSpent
  <2>3. tn' \in [Nodes -> Object]
    BY <1>1, <1>6, <2>2, ObjectTypes DEF EvaluateGranted, SetStatus, TypeOK
  <2> QED BY <1>6, <2>3 DEF EvaluateGranted, Goto, TypeOK, Steps
<1> QED BY <1>3, <1>4, <1>5, <1>6 DEF Evaluate

(* The recovery actions keep the types. *)
LEMMA RecoverTypes ==
  ASSUME TypeOK, L!TypeOK', NEW n \in Nodes, Recover(n)
  PROVE  TypeOK'
<1> USE DEF historyVars, clusterVars, workerVars, recoveryVars
<1>1. tn[n].status \in Status /\ Settle(tn[n].status, "Failed") \in Status
  BY ObjectTypes, StatusTypes DEF TypeOK, Phases
<1>2. CASE RecoverByRestart(n)
  <2>1. restarts' \in [Nodes -> Nat]
    BY <1>2 DEF RecoverByRestart, TypeOK
  <2> QED BY <1>1, <1>2, <2>1, ConcludeTypes DEF RecoverByRestart, TypeOK
<1>3. CASE RecoverPodMissing(n) \/ RecoverByCordon(n)
  BY <1>1, <1>3, ConcludeTypes DEF RecoverPodMissing, RecoverByCordon, TypeOK
<1>4. CASE RecoverFails(n)
  BY <1>4, ReturnTypes, ReconcilerAssumption DEF RecoverFails, Fault, TypeOK
<1> QED BY <1>2, <1>3, <1>4 DEF Recover

(* Step 10 and handleFinalization keep the types. *)
LEMMA UpdateTypes ==
  ASSUME TypeOK, L!TypeOK', NEW n \in Nodes, UpdateStatus(n) \/ Finalize(n)
  PROVE  TypeOK'
<1> USE DEF historyVars, clusterVars, workerVars, recoveryVars
<1>1. CASE Persist(n)
  <2>1. [api[n] EXCEPT !.status = tn[n].status] \in Object
    BY ObjectTypes DEF TypeOK
  <2> QED BY <1>1, <2>1, WriteTypes, ReturnTypes DEF Persist, TypeOK
<1>2. CASE PersistFails(n)
  <2>1. faults' \in 0 .. MaxFaults
    BY <1>2, ReconcilerAssumption DEF PersistFails, Fault, TypeOK
  <2>2. slips' \in [Nodes -> Nat]
    <3>1. slips' = slips \/ slips' = [slips EXCEPT ![n] = @ + 1]
      BY <1>2 DEF PersistFails, Slip
    <3> QED BY <3>1, SlipTypes
  <2> QED BY <1>2, <2>1, <2>2, ReturnTypes DEF PersistFails, TypeOK
<1>3. CASE FinalizeCleanup(n)
  BY <1>3 DEF FinalizeCleanup, Goto, TypeOK, Steps
<1>4. CASE RemoveFinalizer(n)
  BY <1>4, ConstantTypes, WriteTypes, ReturnTypes DEF RemoveFinalizer, TypeOK
<1>5. CASE RemoveFinalizerFails(n)
  <2>1. faults' \in 0 .. MaxFaults
    BY <1>5, ReconcilerAssumption DEF RemoveFinalizerFails, Fault, TypeOK
  <2> QED BY <1>5, <2>1, ReturnTypes DEF RemoveFinalizerFails, TypeOK
<1> QED BY <1>1, <1>2, <1>3, <1>4, <1>5 DEF UpdateStatus, Finalize

(* What happens around the reconciles keeps the types. *)
LEMMA EnvironmentTypes ==
  ASSUME TypeOK, L!TypeOK', NEW n \in Nodes, Advisor(n) \/ Cluster(n) \/ UserDelete(n)
  PROVE  TypeOK'
<1> USE DEF historyVars, clusterVars, workerVars, recoveryVars
<1>1. CASE AdvisoryWritten(n)
  <2>1. [api[n] EXCEPT !.status.advisory = TRUE] \in Object
    BY ObjectTypes DEF TypeOK
  <2>2. /\ api' \in [Nodes -> Object]
        /\ watch' \in [Nodes -> Seq(Object)]
        /\ UNCHANGED <<cache, workload, pod>>
    BY <1>1, <2>1, WriteTypes, Zenon DEF AdvisoryWritten
  <2>3. /\ current' \in [Nodes -> BOOLEAN]
        /\ advisories' \in [Nodes -> 0 .. MaxAdvisories]
        /\ UNCHANGED <<pc, tn, verdict, faults, restarts, slips, cleaned>>
    <3>1. /\ current' = [current EXCEPT ![n] = FALSE]
          /\ advisories[n] > 0
          /\ advisories' = [advisories EXCEPT ![n] = @ - 1]
          /\ UNCHANGED <<pc, tn, verdict, faults, restarts, slips, cleaned>>
      BY <1>1, Zenon DEF AdvisoryWritten
    <3> QED BY <3>1, ReconcilerAssumption DEF TypeOK
  <2> QED BY <2>2, <2>3 DEF TypeOK
<1>2. CASE AdvisoryDropped(n)
  BY <1>2, ReconcilerAssumption DEF AdvisoryDropped, TypeOK
<1>3. CASE Deliver(n)
  <2>1. Head(watch[n]) \in Object /\ Tail(watch[n]) \in Seq(Object)
    BY <1>3, HeadTailProperties DEF Deliver, TypeOK
  <2> QED BY <1>3, <2>1 DEF Deliver, TypeOK
<1>4. CASE RecreatePod(n) \/ EvictPod(n) \/ GarbageCollect(n)
  <2>1. pod' \in [Nodes -> BOOLEAN] /\ workload' \in [Nodes -> BOOLEAN]
    BY <1>4, Zenon DEF RecreatePod, EvictPod, GarbageCollect, TypeOK
  <2>2. faults' \in 0 .. MaxFaults
    BY <1>4, ReconcilerAssumption DEF RecreatePod, EvictPod, GarbageCollect, Fault, TypeOK
  <2> QED BY <1>4, <2>1, <2>2 DEF RecreatePod, EvictPod, GarbageCollect, TypeOK
<1>5. CASE UserDelete(n)
  <2>1. (IF api[n].finalizer THEN [api[n] EXCEPT !.deleting = TRUE] ELSE Absent) \in Object
    BY ObjectTypes, ConstantTypes DEF TypeOK
  <2> QED BY <1>5, <2>1, WriteTypes DEF UserDelete, TypeOK
<1> QED BY <1>1, <1>2, <1>3, <1>4, <1>5 DEF Advisor, Cluster

(* Operator restarts and the clock keep the types. *)
LEMMA GlobalTypes ==
  ASSUME TypeOK, L!TypeOK', OperatorRestart \/ Tick
  PROVE  TypeOK'
<1> USE DEF historyVars, clusterVars, workerVars, recoveryVars
<1>1. CASE OperatorRestart
  <2>1. slips' \in [Nodes -> Nat]
    BY <1>1 DEF OperatorRestart, TypeOK
  <2> QED BY <1>1, <2>1, ConstantTypes, ReconcilerAssumption
          DEF OperatorRestart, TypeOK, Steps
<1>2. CASE Tick
  <2>1. ASSUME NEW n \in Nodes
        PROVE  [i \in DOMAIN watch[n] |-> AgedObject(watch[n][i])] \in Seq(Object)
    <3>1. watch[n] \in Seq(Object)
      BY DEF TypeOK
    <3>2. ASSUME NEW i \in DOMAIN watch[n] PROVE AgedObject(watch[n][i]) \in Object
      <4>1. watch[n][i] \in Object
        BY <3>1, <3>2
      <4> QED BY <4>1, ObjectTypes
    <3>3. DOMAIN watch[n] = 1 .. Len(watch[n]) /\ Len(watch[n]) \in Nat
      BY <3>1
    <3> QED BY <3>2, <3>3
  <2>2. watch' \in [Nodes -> Seq(Object)]
    BY <1>2, <2>1 DEF Tick
  <2>3. /\ api' \in [Nodes -> Object] /\ cache' \in [Nodes -> Object]
        /\ tn' \in [Nodes -> Object]
    BY <1>2, ObjectTypes DEF Tick, TypeOK
  <2> QED BY <1>2, <2>2, <2>3 DEF Tick, TypeOK
<1> QED BY <1>1, <1>2

(* Every piece of state the reconcile loop reads or writes keeps its type. *)
THEOREM TypeCorrect == Spec => []TypeOK
<1>1. Init /\ L!TypeOK => TypeOK
  BY ConstantTypes, ReconcilerAssumption, SyncPolicyAssumption DEF Init, TypeOK, Steps
<1>2. TypeOK /\ [Next]_vars /\ L!TypeOK' => TypeOK'
  <2> SUFFICES ASSUME TypeOK, [Next]_vars, L!TypeOK' PROVE TypeOK'
    OBVIOUS
  <2>1. CASE UNCHANGED vars
    BY <2>1 DEF vars, clusterVars, workerVars, historyVars, TypeOK
  <2> QED BY <2>1, FetchTypes, EnsureAndProbeTypes, EvaluateTypes, RecoverTypes,
          UpdateTypes, EnvironmentTypes, GlobalTypes DEF Next, Reconcile
<1> QED BY <1>1, <1>2, LimiterTypes, PTL DEF Spec

----------------------------------------------------------------------------
(***************************************************************************)
(* The life cycle of a TaoNode.  The two safety properties of the run      *)
(* reconcile_lifecycle rest on what the informer cache may still hold: an  *)
(* old version that a reconcile would work on proves that the object is    *)
(* still there and held by its finalizer.                                  *)
(***************************************************************************)

(* Nothing of the other nodes changes. *)
Untouched(m) ==
  /\ api'[m] = api[m] /\ cache'[m] = cache[m] /\ watch'[m] = watch[m]
  /\ workload'[m] = workload[m] /\ pod'[m] = pod[m]
  /\ pc'[m] = pc[m] /\ tn'[m] = tn[m] /\ current'[m] = current[m]
  /\ verdict'[m] = verdict[m]
  /\ restarts'[m] = restarts[m] /\ slips'[m] = slips[m]
  /\ m \in cleaned' <=> m \in cleaned

(* Reconciles, goroutines and users act on one node at a time. *)
LEMMA OtherNodesUntouched ==
  ASSUME TypeOK, NEW n \in Nodes,
         Reconcile(n) \/ Advisor(n) \/ Cluster(n) \/ UserDelete(n),
         NEW m \in Nodes, m # n
  PROVE  Untouched(m)
<1> USE DEF Untouched, TypeOK, clusterVars, workerVars, historyVars, Goto, Return,
        Write, Fault, Slip
<1>0. ASSUME StartReconcile(n) PROVE slips'[m] = slips[m]
  <2>1. slips' = slips \/ slips' = [slips EXCEPT ![n] = @ + 1]
    BY <1>0 DEF StartReconcile
  <2> QED BY <2>1
<1>1. CASE Fetch(n)
  <2>1. CASE StartReconcile(n)
    BY <1>0, <2>1 DEF StartReconcile
  <2> QED BY <1>1, <2>1 DEF Fetch, AddFinalizer, StartFinalization
<1>2. CASE Ensure(n)
  BY <1>2 DEF Ensure, EnsureResources, EnsureBlocked, EnsureFails
<1>3. CASE Probe(n)
  BY <1>3 DEF Probe, ProbeFails, ProbeSucceeds
<1>4. CASE Evaluate(n)
  BY <1>4 DEF Evaluate, EvaluatePending, EvaluateInSync, EvaluateExhausted,
     EvaluateThrottled, EvaluateGranted, EvaluateRecovering, EvaluateProgress,
     EvaluateSettled, Conclude, SetStatus
<1>5. CASE Recover(n)
  BY <1>5 DEF Recover, RecoverByRestart, RecoverPodMissing, RecoverByCordon,
     RecoverFails, Conclude, SetStatus
<1>6. CASE UpdateStatus(n)
  BY <1>6 DEF UpdateStatus, Persist, PersistFails
<1>7. CASE Finalize(n)
  BY <1>7 DEF Finalize, FinalizeCleanup, RemoveFinalizer, RemoveFinalizerFails
<1>8. CASE Advisor(n)
  BY <1>8 DEF Advisor, AdvisoryWritten, AdvisoryDropped
<1>9. CASE Cluster(n)
  BY <1>9 DEF Cluster, Deliver, RecreatePod, EvictPod, GarbageCollect
<1>10. CASE UserDelete(n)
  BY <1>10 DEF UserDelete
<1> QED BY <1>1, <1>2, <1>3, <1>4, <1>5, <1>6, <1>7, <1>8, <1>9, <1>10 DEF Reconcile

(* Every version of n that a reconcile may still read. *)
Versions(n) == {cache[n]} \cup {watch[n][i] : i \in 1 .. Len(watch[n])}

Working == {"ensure", "probe", "evaluate", "recover", "persist"}

(* The object is there and cannot go without handleFinalization. *)
Protected(o) == o.exists /\ o.finalizer

(* A reconcile that reads this version goes on to work for the node. *)
Live(o) == Protected(o) /\ ~o.deleting

(* The inductive invariant, for one node. *)
LifeInv(n) ==
  /\ \A v \in Versions(n) : Live(v) => Protected(api[n])
  /\ pc[n] \in Working => Protected(api[n])
  /\ pc[n] = "idle" => ~current[n]
  /\ current[n] => watch[n] = <<>>
  /\ pc[n] \in {"finalize", "unfinalize"} /\ current[n] => cache[n].deleting
  /\ pc[n] = "unfinalize" => n \in cleaned
  /\ workload[n] => Protected(api[n]) \/ n \in cleaned

(* The elements of a sequence that has grown. *)
LEMMA AppendRange ==
  ASSUME NEW S, NEW s \in Seq(S), NEW e \in S
  PROVE  {Append(s, e)[i] : i \in 1 .. Len(Append(s, e))}
           = {s[i] : i \in 1 .. Len(s)} \cup {e}
<1> DEFINE t == Append(s, e)
<1>1. /\ Len(t) = Len(s) + 1 /\ Len(s) \in Nat
      /\ \A i \in 1 .. Len(s) : t[i] = s[i]
      /\ t[Len(s) + 1] = e
  BY AppendProperties
<1> HIDE DEF t
<1>2. ASSUME NEW i \in 1 .. Len(t) PROVE t[i] \in {s[j] : j \in 1 .. Len(s)} \cup {e}
  <2>1. CASE i \in 1 .. Len(s)
    BY <1>1, <2>1
  <2>2. CASE i = Len(s) + 1
    BY <1>1, <2>2
  <2> QED BY <1>1, <2>1, <2>2
<1>3. ASSUME NEW i \in 1 .. Len(s) PROVE s[i] \in {t[j] : j \in 1 .. Len(t)}
  BY <1>1
<1>4. e \in {t[j] : j \in 1 .. Len(t)}
  BY <1>1
<1>5. {t[i] : i \in 1 .. Len(t)} = {s[i] : i \in 1 .. Len(s)} \cup {e}
  BY <1>2, <1>3, <1>4
<1> QED BY <1>5 DEF t

(* A write adds the new version to the ones that may be read. *)
LEMMA VersionsWritten ==
  ASSUME TypeOK, NEW n \in Nodes, NEW o \in Object, Write(n, o)
  PROVE  /\ Versions(n)' = Versions(n) \cup {o}
         /\ api'[n] = o
<1>1. watch[n] \in Seq(Object)
  BY DEF TypeOK
<1>2. /\ cache' = cache /\ api' = [api EXCEPT ![n] = o]
      /\ watch' = [watch EXCEPT ![n] = Append(watch[n], o)]
  BY DEF Write
<1>3. api'[n] = o /\ watch'[n] = Append(watch[n], o)
  BY <1>2 DEF TypeOK
<1>5. {watch'[n][i] : i \in 1 .. Len(watch'[n])}
        = {watch[n][i] : i \in 1 .. Len(watch[n])} \cup {o}
  BY <1>1, <1>3, AppendRange
<1> QED BY <1>2, <1>3, <1>5 DEF Versions

(* The life cycle survives every write to an object that stays protected if
   it was. *)
LEMMA WriteKeepsLife ==
  ASSUME TypeOK, NEW n \in Nodes, NEW o \in Object, Write(n, o), LifeInv(n),
         Protected(api[n]) => Protected(o),
         pc'[n] \in Working => pc[n] \in Working,
         pc'[n] = "unfinalize" => pc[n] = "unfinalize",
         ~current'[n],
         n \in cleaned' <=> n \in cleaned
  PROVE  LifeInv(n)'
<1>1. /\ Versions(n)' = Versions(n) \cup {o} /\ api'[n] = o
      /\ workload' = workload
  BY VersionsWritten DEF Write
<1> QED BY <1>1 DEF LifeInv, Live

(* Steps of a reconcile that touch neither the object nor the cache. *)
LEMMA LocalStepKeepsLife ==
  ASSUME TypeOK, NEW n \in Nodes, LifeInv(n),
         UNCHANGED <<api, cache, watch>>,
         workload'[n] => workload[n] \/ Protected(api[n]),
         pc'[n] \in Working => pc[n] \in Working,
         pc'[n] \in {"finalize", "unfinalize"} => pc[n] \in {"finalize", "unfinalize"},
         pc'[n] = "unfinalize" => n \in cleaned',
         n \in cleaned => n \in cleaned',
         current'[n] => current[n] /\ pc'[n] # "idle"
  PROVE  LifeInv(n)'
  BY DEF LifeInv, Live, Protected, Versions

(* The reconcile's own steps keep LifeInv. *)
LEMMA ReconcileKeepsLife ==
  ASSUME TypeOK, NEW n \in Nodes, LifeInv(n), Reconcile(n)
  PROVE  LifeInv(n)'
<1> USE DEF clusterVars, workerVars, historyVars, Working
<1>1. CASE StartReconcile(n)
  <2>1. /\ UNCHANGED <<api, cache, watch, workload, cleaned>>
        /\ pc'[n] = "ensure"
        /\ current'[n] = (watch[n] = <<>>)
        /\ Live(cache[n])
    BY <1>1 DEF StartReconcile, Fetchable, Goto, CacheFresh, TypeOK, Live, Protected
  <2>2. Protected(api[n])
    BY <2>1 DEF LifeInv, Versions
  <2> QED BY <2>1, <2>2 DEF LifeInv, Versions, Live, Protected
<1>2. CASE AddFinalizer(n)
  <2>1. [api[n] EXCEPT !.finalizer = TRUE] \in Object
    BY ObjectTypes DEF TypeOK
  <2>2. Protected(api[n]) => Protected([api[n] EXCEPT !.finalizer = TRUE])
    BY DEF Protected, TypeOK, Object
  <2>3. /\ Write(n, [api[n] EXCEPT !.finalizer = TRUE])
        /\ pc[n] = "idle" /\ ~current[n] /\ UNCHANGED <<pc, current, cleaned>>
    BY <1>2 DEF AddFinalizer, Fetchable, LifeInv
  <2> QED BY <2>1, <2>2, <2>3, WriteKeepsLife
<1>3. CASE StartFinalization(n)
  <2>1. /\ UNCHANGED <<api, cache, watch, workload, cleaned>>
        /\ pc'[n] = "finalize"
        /\ current'[n] = (watch[n] = <<>>)
        /\ cache[n].deleting
    BY <1>3 DEF StartFinalization, Fetchable, Goto, CacheFresh, TypeOK
  <2> QED BY <2>1 DEF LifeInv, Versions, Live, Protected
<1>4. CASE Ensure(n)
  <2>1. Protected(api[n]) /\ pc[n] = "ensure"
    BY <1>4 DEF Ensure, EnsureResources, EnsureBlocked, EnsureFails, LifeInv
  <2> QED BY <1>4, <2>1, LocalStepKeepsLife
       DEF Ensure, EnsureResources, EnsureBlocked, EnsureFails, Goto, Return, TypeOK
<1>5. CASE Probe(n)
  BY <1>5, LocalStepKeepsLife DEF Probe, ProbeFails, ProbeSucceeds, Goto, TypeOK
<1>6. CASE Evaluate(n)
  <2>1. /\ UNCHANGED <<api, cache, watch, workload, cleaned, current>>
        /\ pc[n] = "evaluate" /\ pc'[n] \in {"persist", "recover"}
    BY <1>6 DEF Evaluate, EvaluatePending, EvaluateInSync, EvaluateExhausted,
       EvaluateThrottled, EvaluateGranted, EvaluateRecovering, EvaluateProgress,
       EvaluateSettled, Conclude, Goto, TypeOK
  <2> QED BY <2>1, LocalStepKeepsLife
<1>7. CASE Recover(n)
  <2>1. /\ UNCHANGED <<api, cache, watch, workload, cleaned>>
        /\ current'[n] => current[n] /\ pc'[n] # "idle"
        /\ pc[n] = "recover" /\ pc'[n] \in {"persist", "idle"}
    BY <1>7 DEF Recover, RecoverByRestart, RecoverPodMissing, RecoverByCordon,
       RecoverFails, Conclude, Goto, Return, TypeOK
  <2> QED BY <2>1, LocalStepKeepsLife
<1>8. CASE Persist(n)
  <2> DEFINE o == [api[n] EXCEPT !.status = tn[n].status]
  <2>1. o \in Object
    BY ObjectTypes DEF TypeOK
  <2>2. Protected(api[n]) => Protected(o)
    BY DEF Protected, TypeOK, Object
  <2>3. Write(n, o) /\ pc'[n] = "idle" /\ ~current'[n] /\ cleaned' = cleaned
    BY <1>8 DEF Persist, Return, Goto, TypeOK
  <2> HIDE DEF o
  <2> QED BY <2>1, <2>2, <2>3, WriteKeepsLife
<1>9. CASE PersistFails(n) \/ RemoveFinalizerFails(n)
  BY <1>9, LocalStepKeepsLife
     DEF PersistFails, RemoveFinalizerFails, Return, Goto, TypeOK
<1>10. CASE FinalizeCleanup(n)
  BY <1>10, LocalStepKeepsLife DEF FinalizeCleanup, Goto, TypeOK
<1>11. CASE RemoveFinalizer(n)
  <2>1. /\ current[n] /\ watch[n] = <<>> /\ cache[n].deleting /\ n \in cleaned
        /\ UNCHANGED <<cleaned, cache>>
        /\ pc'[n] = "idle" /\ ~current'[n]
    BY <1>11 DEF RemoveFinalizer, LifeInv, Return, Goto, Write, TypeOK
  <2>2. Versions(n)' = Versions(n) \cup {Absent}
    BY <1>11, VersionsWritten, ConstantTypes DEF RemoveFinalizer
  <2>3. Versions(n) = {cache[n]}
    BY <2>1 DEF Versions
  <2> QED BY <2>1, <2>2, <2>3 DEF LifeInv, Live, Protected, Absent
<1> QED BY <1>1, <1>2, <1>3, <1>4, <1>5, <1>6, <1>7, <1>8, <1>9, <1>10, <1>11
        DEF Reconcile, Fetch, UpdateStatus, Finalize

(* The steps around the reconcile keep LifeInv. *)
LEMMA EnvironmentKeepsLife ==
  ASSUME TypeOK, NEW n \in Nodes, LifeInv(n), Advisor(n) \/ Cluster(n) \/ UserDelete(n)
  PROVE  LifeInv(n)'
<1> USE DEF clusterVars, workerVars, historyVars, Working
<1>1. CASE AdvisoryWritten(n)
  <2> DEFINE o == [api[n] EXCEPT !.status.advisory = TRUE]
  <2>1. o \in Object
    BY ObjectTypes DEF TypeOK
  <2>2. o.exists = api[n].exists /\ o.finalizer = api[n].finalizer
    BY DEF TypeOK, Object
  <2>3. Write(n, o) /\ pc' = pc /\ cleaned' = cleaned /\ ~current'[n]
    BY <1>1 DEF AdvisoryWritten, TypeOK
  <2> HIDE DEF o
  <2> QED BY <2>1, <2>2, <2>3, WriteKeepsLife DEF Protected
<1>2. CASE AdvisoryDropped(n) \/ RecreatePod(n) \/ EvictPod(n) \/ GarbageCollect(n)
  BY <1>2, LocalStepKeepsLife
     DEF AdvisoryDropped, RecreatePod, EvictPod, GarbageCollect, LifeInv, TypeOK
<1>3. CASE Deliver(n)
  <2>1. /\ watch[n] # <<>> /\ watch[n] \in Seq(Object)
        /\ cache'[n] = Head(watch[n]) /\ watch'[n] = Tail(watch[n])
        /\ UNCHANGED <<api, workload, pc, current, cleaned>>
    BY <1>3 DEF Deliver, TypeOK
  <2>2. Versions(n)' \subseteq Versions(n)
    BY <2>1, HeadTailProperties DEF Versions
  <2> QED BY <2>1, <2>2 DEF LifeInv
<1>4. CASE UserDelete(n)
  <2>1. /\ pc' = pc /\ cleaned' = cleaned /\ ~current'[n] /\ workload' = workload
        /\ api[n].exists
    BY <1>4 DEF UserDelete, Write, TypeOK
  <2>2. CASE api[n].finalizer
    <3> DEFINE o == [api[n] EXCEPT !.deleting = TRUE]
    <3>1. o \in Object
      BY ObjectTypes DEF TypeOK
    <3>3. Protected(api[n]) => Protected(o)
      BY DEF TypeOK, Object, Protected
    <3>2. Write(n, o)
      BY <1>4, <2>2 DEF UserDelete
    <3> HIDE DEF o
    <3> QED BY <2>1, <3>1, <3>2, <3>3, WriteKeepsLife
  <2>3. CASE ~api[n].finalizer
    <3>1. Versions(n)' = Versions(n) \cup {Absent}
      BY <1>4, <2>3, VersionsWritten, ConstantTypes DEF UserDelete
    <3> QED BY <2>1, <2>3, <3>1 DEF LifeInv, Live, Protected, Absent
  <2> QED BY <2>2, <2>3
<1> QED BY <1>1, <1>2, <1>3, <1>4 DEF Advisor, Cluster

(* Time changes nothing that the life cycle depends on, and a restarted
   operator lists the TaoNodes anew. *)
LEMMA GlobalStepKeepsLife ==
  ASSUME TypeOK, OperatorRestart \/ Tick, NEW n \in Nodes, LifeInv(n)
  PROVE  LifeInv(n)'
<1> USE DEF historyVars, Working
<1>1. CASE OperatorRestart
  <2>1. /\ UNCHANGED <<api, workload, cleaned>> /\ cache'[n] = api[n] /\ watch'[n] = <<>>
        /\ pc'[n] = "idle" /\ ~current'[n]
    BY <1>1 DEF OperatorRestart
  <2>2. Versions(n)' = {api[n]}
    BY <2>1 DEF Versions
  <2> QED BY <2>1, <2>2 DEF LifeInv, Live
<1>2. CASE Tick
  <2>1. /\ api'[n] = AgedObject(api[n]) /\ cache'[n] = AgedObject(cache[n])
        /\ watch'[n] = [i \in DOMAIN watch[n] |-> AgedObject(watch[n][i])]
        /\ UNCHANGED <<workload, pc, current, cleaned>>
    BY <1>2 DEF Tick
  <2>2. watch[n] \in Seq(Object) /\ cache[n] \in Object /\ api[n] \in Object
    BY DEF TypeOK
  <2>3. /\ DOMAIN watch[n] = 1 .. Len(watch[n]) /\ Len(watch[n]) \in Nat
        /\ Len(watch'[n]) = Len(watch[n])
        /\ watch[n] = <<>> => watch'[n] = <<>>
    BY <2>1, <2>2
  <2>4. ASSUME NEW o \in Object
        PROVE  /\ AgedObject(o).exists = o.exists
               /\ AgedObject(o).deleting = o.deleting
               /\ AgedObject(o).finalizer = o.finalizer
    BY DEF AgedObject, Object
  <2>5. ASSUME NEW v \in Versions(n)'
        PROVE  \E u \in Versions(n) : u \in Object /\ v = AgedObject(u)
    BY <2>1, <2>2, <2>3 DEF Versions
  <2>6. \A v \in Versions(n)' : Live(v) => Protected(api[n])
    BY <2>4, <2>5 DEF LifeInv, Live, Protected
  <2> QED BY <2>1, <2>2, <2>3, <2>4, <2>6 DEF LifeInv, Protected
<1> QED BY <1>1, <1>2

(* LifeInv is an invariant. *)
LEMMA LifeAlways == Spec => [](\A n \in Nodes : LifeInv(n))
<1>1. Init => \A n \in Nodes : LifeInv(n)
  BY DEF Init, LifeInv, Versions, Working, Live, Protected
<1>2. TypeOK /\ (\A n \in Nodes : LifeInv(n)) /\ [Next]_vars
        => (\A n \in Nodes : LifeInv(n))'
  <2> SUFFICES ASSUME TypeOK, \A n \in Nodes : LifeInv(n), [Next]_vars, NEW m \in Nodes
               PROVE  LifeInv(m)'
    OBVIOUS
  <2>1. ASSUME NEW n \in Nodes, Reconcile(n) \/ Advisor(n) \/ Cluster(n) \/ UserDelete(n)
        PROVE  LifeInv(m)'
    <3>1. CASE m = n
      BY <2>1, <3>1, ReconcileKeepsLife, EnvironmentKeepsLife
    <3>2. CASE m # n
      BY <2>1, <3>2, OtherNodesUntouched DEF Untouched, LifeInv, Versions
    <3> QED BY <3>1, <3>2
  <2>2. CASE OperatorRestart \/ Tick
    BY <2>2, GlobalStepKeepsLife
  <2>3. CASE UNCHANGED vars
    BY <2>3 DEF vars, clusterVars, workerVars, historyVars, LifeInv, Versions
  <2> QED BY <2>1, <2>2, <2>3 DEF Next
<1> QED BY <1>1, <1>2, TypeCorrect, PTL DEF Spec

(* No reconcile works for a TaoNode that is gone, however far the cache lags,
   for every fleet, every number of faults and restarts and every advisor. *)
THEOREM WorkStopsAlways == Spec => []WorkStopsWithObject
<1>1. TypeOK /\ (\A n \in Nodes : LifeInv(n)) => WorkStopsWithObject
  BY DEF TypeOK, LifeInv, Working, Protected, WorkStopsWithObject, Steps
<1> QED BY <1>1, TypeCorrect, LifeAlways, PTL

(* An object with a workload goes away only through the cleanup of
   handleFinalization, under the same faults. *)
THEOREM CleanedBeforeGoneAlways == Spec => []CleanedBeforeGone
<1>1. (\A n \in Nodes : LifeInv(n)) => CleanedBeforeGone
  BY DEF LifeInv, Protected, CleanedBeforeGone
<1> QED BY <1>1, LifeAlways, PTL

----------------------------------------------------------------------------
(***************************************************************************)
(* The restart ledger.  A charge is made in the local status before the    *)
(* pod is deleted, and persisted at the end of the reconcile.  It can be   *)
(* lost in three ways: the process stops in between, the write fails, or a *)
(* later reconcile that read an older version writes its count back.  The  *)
(* proof shows that each of these slips loses no more than one charge: the *)
(* status is written only through an up-to-date cache, so that what a      *)
(* stale cache holds is at most one charge behind.                         *)
(***************************************************************************)

(* The last version the informer has or will get is the one stored. *)
CacheInv(n) ==
  IF watch[n] = <<>> THEN cache[n] = api[n] ELSE watch[n][Len(watch[n])] = api[n]

(* A write is queued for the informer as its last version. *)
LEMMA WriteKeepsCache ==
  ASSUME TypeOK, NEW n \in Nodes, NEW o \in Object, Write(n, o)
  PROVE  CacheInv(n)'
<1>1. watch[n] \in Seq(Object)
  BY DEF TypeOK
<1>2. api'[n] = o /\ watch'[n] = Append(watch[n], o)
  BY DEF Write, TypeOK
<1>3. watch'[n] # <<>> /\ watch'[n][Len(watch'[n])] = o
  BY <1>1, <1>2, AppendProperties
<1> QED BY <1>2, <1>3 DEF CacheInv

(* Every write to the API server leaves a TaoNode, and is queued for the
   informer; all other steps of one node leave object and informer alone. *)
LEMMA ObjectSteps ==
  ASSUME TypeOK, NEW n \in Nodes, Reconcile(n) \/ Advisor(n) \/ UserDelete(n)
  PROVE  UNCHANGED <<api, cache, watch>> \/ \E o \in Object : Write(n, o)
<1> USE DEF clusterVars
<1>0. tn[n].status \in Status /\ api[n] \in Object
  BY ObjectTypes DEF TypeOK
<1>1. CASE Persist(n)
  BY <1>0, <1>1, ObjectTypes DEF Persist
<1>2. CASE RemoveFinalizer(n)
  BY <1>2, ConstantTypes DEF RemoveFinalizer
<1>3. CASE AddFinalizer(n)
  BY <1>0, <1>3, ObjectTypes DEF AddFinalizer
<1>4. CASE AdvisoryWritten(n)
  <2>1. [api[n] EXCEPT !.status.advisory = TRUE] \in Object
    BY <1>0, ObjectTypes
  <2> QED BY <1>4, <2>1, Zenon DEF AdvisoryWritten
<1>5. CASE UserDelete(n)
  <2>1. (IF api[n].finalizer THEN [api[n] EXCEPT !.deleting = TRUE] ELSE Absent) \in Object
    BY <1>0, ObjectTypes, ConstantTypes
  <2> QED BY <1>5, <2>1, Zenon DEF UserDelete
<1>6. CASE StartReconcile(n) \/ StartFinalization(n) \/ Ensure(n) \/ Probe(n)
  BY <1>6, Zenon DEF StartReconcile, StartFinalization, Ensure, EnsureResources,
     EnsureBlocked, EnsureFails, Probe, ProbeFails, ProbeSucceeds
<1>7. CASE Evaluate(n) \/ Recover(n)
  BY <1>7 DEF Evaluate, EvaluatePending, EvaluateInSync, EvaluateExhausted,
     EvaluateThrottled, EvaluateGranted, EvaluateRecovering, EvaluateProgress,
     EvaluateSettled, Recover, RecoverByRestart, RecoverPodMissing, RecoverByCordon,
     RecoverFails
<1>8. CASE PersistFails(n) \/ FinalizeCleanup(n) \/ RemoveFinalizerFails(n)
           \/ AdvisoryDropped(n)
  BY <1>8 DEF PersistFails, FinalizeCleanup, RemoveFinalizerFails, AdvisoryDropped
<1> QED BY <1>1, <1>2, <1>3, <1>4, <1>5, <1>6, <1>7, <1>8
        DEF Reconcile, Fetch, UpdateStatus, Finalize, Advisor

(* CacheInv is an invariant. *)
LEMMA CacheAlways == Spec => [](\A n \in Nodes : CacheInv(n))
<1>1. Init => \A n \in Nodes : CacheInv(n)
  BY DEF Init, CacheInv
<1>2. TypeOK /\ (\A n \in Nodes : CacheInv(n)) /\ [Next]_vars
        => (\A n \in Nodes : CacheInv(n))'
  <2> SUFFICES ASSUME TypeOK, \A n \in Nodes : CacheInv(n), [Next]_vars, NEW m \in Nodes
               PROVE  CacheInv(m)'
    OBVIOUS
  <2>1. ASSUME NEW n \in Nodes, Reconcile(n) \/ Advisor(n) \/ Cluster(n) \/ UserDelete(n),
               m # n
        PROVE  CacheInv(m)'
    BY <2>1, OtherNodesUntouched DEF Untouched, CacheInv
  <2>2. ASSUME Reconcile(m) \/ Advisor(m) \/ UserDelete(m)
        PROVE  CacheInv(m)'
    BY <2>2, ObjectSteps, WriteKeepsCache DEF CacheInv
  <2>3. CASE Deliver(m)
    <3>1. /\ watch[m] # <<>> /\ watch[m] \in Seq(Object) /\ api' = api
          /\ cache'[m] = Head(watch[m]) /\ watch'[m] = Tail(watch[m])
          /\ watch[m][Len(watch[m])] = api[m]
      BY <2>3 DEF Deliver, TypeOK, CacheInv
    <3>2. CASE Tail(watch[m]) = <<>>
      BY <3>1, <3>2 DEF CacheInv
    <3>3. CASE Tail(watch[m]) # <<>>
      BY <3>1, <3>3 DEF CacheInv
    <3> QED BY <3>2, <3>3
  <2>4. CASE RecreatePod(m) \/ EvictPod(m) \/ GarbageCollect(m)
    BY <2>4 DEF RecreatePod, EvictPod, GarbageCollect, CacheInv
  <2>5. CASE OperatorRestart
    BY <2>5 DEF OperatorRestart, CacheInv
  <2>6. CASE Tick
    <3>1. watch[m] \in Seq(Object)
      BY DEF TypeOK
    <3>2. /\ api'[m] = AgedObject(api[m]) /\ cache'[m] = AgedObject(cache[m])
          /\ watch'[m] = [i \in DOMAIN watch[m] |-> AgedObject(watch[m][i])]
      BY <2>6 DEF Tick
    <3> QED BY <3>1, <3>2 DEF CacheInv
  <2>7. CASE UNCHANGED vars
    BY <2>7 DEF vars, clusterVars, CacheInv
  <2> QED BY <2>1, <2>2, <2>3, <2>4, <2>5, <2>6, <2>7 DEF Next, Cluster
<1> QED BY <1>1, <1>2, TypeCorrect, PTL DEF Spec

Count(o) == o.status.restartCount

(* Counts can be compared. *)
LEMMA CountTypes ==
  ASSUME NEW o \in Object
  PROVE  Count(o) \in Int
<1>1. o.status \in Status
  BY ObjectTypes
<1>2. o.status.restartCount \in 0 .. MaxRestartAttempts
  BY <1>1 DEF Status
<1> QED BY <1>2, SyncPolicyAssumption DEF Count

(* What of an object the ledger depends on. *)
SameCore(o, p) == o.exists = p.exists /\ Count(o) = Count(p)

(* Finalizer, deletion, advisory, first phase and the clock leave it alone. *)
LEMMA CoreKept ==
  ASSUME NEW o \in Object
  PROVE  /\ SameCore([o EXCEPT !.finalizer = TRUE], o)
         /\ SameCore([o EXCEPT !.deleting = TRUE], o)
         /\ SameCore([o EXCEPT !.status.advisory = TRUE], o)
         /\ SameCore([o EXCEPT !.status.phase = "Pending"], o)
         /\ SameCore(AgedObject(o), o)
<1> USE DEF Count
<1>1. /\ SameCore([o EXCEPT !.finalizer = TRUE], o)
      /\ SameCore([o EXCEPT !.deleting = TRUE], o)
  BY DEF SameCore, Object
<1>2. ASSUME NEW st \in Status, st.restartCount = o.status.restartCount
      PROVE  SameCore([o EXCEPT !.status = st], o)
  BY <1>2 DEF SameCore, Object
<1>3. SameCore([o EXCEPT !.status.advisory = TRUE], o)
  <2> DEFINE st == [o.status EXCEPT !.advisory = TRUE]
  <2>1. [o EXCEPT !.status.advisory = TRUE] = [o EXCEPT !.status = st]
    BY Zenon
  <2>2. st \in Status /\ st.restartCount = o.status.restartCount
    BY DEF Object, Status
  <2> HIDE DEF st
  <2> QED BY <1>2, <2>1, <2>2
<1>4. SameCore([o EXCEPT !.status.phase = "Pending"], o)
  <2> DEFINE st == [o.status EXCEPT !.phase = "Pending"]
  <2>1. [o EXCEPT !.status.phase = "Pending"] = [o EXCEPT !.status = st]
    BY Zenon
  <2>2. st \in Status /\ st.restartCount = o.status.restartCount
    BY DEF Object, Status, Phases
  <2> HIDE DEF st
  <2> QED BY <1>2, <2>1, <2>2
<1>5. SameCore(AgedObject(o), o)
  <2> DEFINE st == Aged(o.status)
  <2>1. AgedObject(o) = [o EXCEPT !.status = st]
    BY Zenon DEF AgedObject
  <2>2. o.status \in Status
    BY DEF Object
  <2>3. st \in Status /\ st.restartCount = o.status.restartCount
    BY <2>2, StatusTypes DEF Aged, Status
  <2> HIDE DEF st
  <2> QED BY <1>2, <2>1, <2>3
<1> QED BY <1>1, <1>3, <1>4, <1>5

(* evaluateSyncState and step 10 change the count only where they charge. *)
LEMMA StatusCounts ==
  ASSUME NEW st \in Status
  PROVE  /\ \A p : Settle(st, p).restartCount = st.restartCount
         /\ \A v : Degrade(st, v).restartCount = st.restartCount
         /\ Charge(st).restartCount = st.restartCount + 1
         /\ CheckTimeout(st).restartCount = st.restartCount
         /\ Stamp(st).restartCount = st.restartCount
  BY DEF Settle, Degrade, Charge, CheckTimeout, Stamp, Status

(* What can be read of n are TaoNodes. *)
LEMMA VersionTypes ==
  ASSUME TypeOK, NEW n \in Nodes
  PROVE  /\ Versions(n) \subseteq Object /\ cache[n] \in Versions(n)
         /\ api[n] \in Object /\ tn[n] \in Object
  BY DEF TypeOK, Versions

(***************************************************************************)
(* The effect of a step on the ledger of node n: on the counts stored,     *)
(* read and held locally, on the restarts and on the slips.                *)
(***************************************************************************)
SameVersions(n) == api'[n] = api[n] /\ Versions(n)' = Versions(n)

Fetched(n) ==
  /\ pc[n] = "idle" /\ SameVersions(n)
  /\ restarts'[n] = restarts[n]
  /\ \/ pc'[n] = "finalize" /\ slips'[n] = slips[n]
     \/ pc'[n] = "ensure" /\ slips'[n] = slips[n] /\ Count(tn'[n]) = Count(api[n])
     \/ /\ pc'[n] = "ensure" /\ slips'[n] = slips[n] + 1
        /\ \E v \in Versions(n) : Count(tn'[n]) = Count(v)

WentOn(n) ==
  /\ \/ pc[n] \in {"ensure", "probe", "evaluate"} /\ pc'[n] \in {"probe", "evaluate", "persist"}
     \/ pc[n] = "finalize" /\ pc'[n] = "unfinalize"
  /\ SameVersions(n)
  /\ restarts'[n] = restarts[n] /\ slips'[n] = slips[n]
  /\ Count(tn'[n]) = Count(tn[n])

Charged(n) ==
  /\ pc[n] = "evaluate" /\ pc'[n] = "recover" /\ SameVersions(n)
  /\ restarts'[n] = restarts[n] /\ slips'[n] = slips[n]
  /\ Count(tn'[n]) = Count(tn[n]) + 1

Recovered(n) ==
  /\ pc[n] = "recover" /\ pc'[n] = "persist" /\ SameVersions(n)
  /\ restarts'[n] \in {restarts[n], restarts[n] + 1} /\ slips'[n] = slips[n]
  /\ Count(tn'[n]) = Count(tn[n])

Persisted(n) ==
  /\ pc[n] = "persist" /\ pc'[n] = "idle"
  /\ Versions(n)' = {api[n], api'[n]} /\ api'[n].exists = api[n].exists
  /\ restarts'[n] = restarts[n] /\ slips'[n] = slips[n]
  /\ Count(api'[n]) = Count(tn[n])

Abandoned(n) ==
  /\ pc'[n] = "idle"
  /\ api'[n] = api[n] /\ Versions(n)' \subseteq Versions(n) \cup {api[n]}
  /\ restarts'[n] = restarts[n]
  /\ slips'[n] \in {slips[n], slips[n] + 1}
  /\ api[n].exists /\ pc[n] = "persist" => slips'[n] = slips[n] + 1

Aside(n) ==
  /\ pc'[n] = pc[n] /\ restarts'[n] = restarts[n] /\ slips'[n] = slips[n]
  /\ Count(tn'[n]) = Count(tn[n]) /\ SameCore(api'[n], api[n])
  /\ \A v \in Versions(n)' : \E u \in Versions(n) \cup {api[n]} : Count(v) = Count(u)

Gone(n) == ~api'[n].exists

(* The steps of a reconcile that decide on a status. *)
LEMMA DecisionEffects ==
  ASSUME TypeOK, NEW n \in Nodes, Evaluate(n) \/ Recover(n)
  PROVE  WentOn(n) \/ Charged(n) \/ Recovered(n) \/ Abandoned(n)
<1> USE DEF clusterVars, historyVars
<1> DEFINE st == tn[n].status
<1>1. tn[n] \in Object /\ st \in Status
  BY ObjectTypes DEF TypeOK
<1>2. ASSUME NEW s \in Status, SetStatus(n, s) PROVE Count(tn'[n]) = s.restartCount
  BY <1>1, <1>2 DEF SetStatus, TypeOK, Object, Count
<1>3. ASSUME NEW s \in Status, Conclude(n, s)
      PROVE  pc'[n] = "persist" /\ Count(tn'[n]) = s.restartCount
  <2>1. Stamp(s) \in Status /\ Stamp(s).restartCount = s.restartCount
    BY StatusTypes, StatusCounts
  <2>2. SetStatus(n, Stamp(s)) /\ pc'[n] = "persist"
    BY <1>3 DEF Conclude, Goto, TypeOK
  <2> QED BY <1>2, <2>1, <2>2
<1>4. ASSUME UNCHANGED <<api, cache, watch>> PROVE SameVersions(n)
  BY <1>4 DEF SameVersions, Versions
<1>5. ASSUME NEW s \in Status, Conclude(n, s), pc[n] = "evaluate",
             s.restartCount = st.restartCount,
             UNCHANGED <<api, cache, watch, restarts, slips>>
      PROVE  WentOn(n)
  BY <1>3, <1>4, <1>5 DEF WentOn, Count
<1> HIDE DEF st
<1>6. ASSUME NEW p \in Phases
      PROVE  Settle(st, p) \in Status /\ Settle(st, p).restartCount = st.restartCount
  BY <1>1, StatusTypes, StatusCounts
<1>7. CASE EvaluatePending(n) \/ EvaluateInSync(n) \/ EvaluateExhausted(n)
  <2>1. \E p \in Phases : Conclude(n, Settle(st, p))
    BY <1>7 DEF EvaluatePending, EvaluateInSync, EvaluateExhausted, EvaluateSettled, Phases, st
  <2>2. pc[n] = "evaluate" /\ UNCHANGED <<api, cache, watch, restarts, slips>>
    BY <1>7 DEF EvaluatePending, EvaluateInSync, EvaluateExhausted, EvaluateSettled
  <2> QED BY <1>5, <1>6, <2>1, <2>2
<1>8. CASE EvaluateThrottled(n)
  <2>1. Degrade(st, verdict[n]) \in Status
        /\ Degrade(st, verdict[n]).restartCount = st.restartCount
    BY <1>1, StatusTypes, StatusCounts
  <2>2. Conclude(n, Degrade(st, verdict[n])) /\ pc[n] = "evaluate"
        /\ UNCHANGED <<api, cache, watch, restarts, slips>>
    BY <1>8 DEF EvaluateThrottled, st
  <2> QED BY <1>5, <2>1, <2>2
<1>9. CASE EvaluateRecovering(n) \/ EvaluateProgress(n)
  <2>1. CheckTimeout(st) \in Status /\ CheckTimeout(st).restartCount = st.restartCount
    BY <1>1, StatusTypes, StatusCounts
  <2>2. Conclude(n, CheckTimeout(st)) \/ Conclude(n, st)
    BY <1>9 DEF EvaluateRecovering, EvaluateProgress, EvaluateSettled, st
  <2>3. pc[n] = "evaluate" /\ UNCHANGED <<api, cache, watch, restarts, slips>>
    BY <1>9 DEF EvaluateRecovering, EvaluateProgress, EvaluateSettled
  <2> QED BY <1>1, <1>5, <2>1, <2>2, <2>3
<1>10. CASE EvaluateGranted(n)
  <2> DEFINE s == Degrade(st, verdict[n])
  <2>1. s \in Status /\ s.restartCount = st.restartCount
    BY <1>1, StatusTypes, StatusCounts
  <2>2. ~BudgetSpent(s)
    BY <1>10, <2>1 DEF EvaluateGranted, BudgetSpent, st
  <2>3. SetStatus(n, Charge(s)) /\ pc'[n] = "recover" /\ pc[n] = "evaluate"
        /\ UNCHANGED <<api, cache, watch, restarts, slips>>
    BY <1>10 DEF EvaluateGranted, Goto, TypeOK, st
  <2> HIDE DEF s
  <2>4. Charge(s) \in Status /\ Charge(s).restartCount = st.restartCount + 1
    BY <2>1, <2>2, StatusTypes, StatusCounts
  <2> QED BY <1>2, <1>4, <2>3, <2>4 DEF Charged, Count, st
<1>11. CASE RecoverByRestart(n) \/ RecoverPodMissing(n) \/ RecoverByCordon(n)
  <2>1. Conclude(n, st) \/ Conclude(n, Settle(st, "Failed"))
    BY <1>11 DEF RecoverByRestart, RecoverPodMissing, RecoverByCordon, st
  <2>2. pc[n] = "recover" /\ UNCHANGED <<api, cache, watch, slips>>
    BY <1>11 DEF RecoverByRestart, RecoverPodMissing, RecoverByCordon
  <2>3. restarts'[n] \in {restarts[n], restarts[n] + 1}
    BY <1>11 DEF RecoverByRestart, RecoverPodMissing, RecoverByCordon, TypeOK
  <2>4. "Failed" \in Phases
    BY DEF Phases
  <2>5. pc'[n] = "persist" /\ Count(tn'[n]) = st.restartCount
    BY <1>1, <1>3, <1>6, <2>1, <2>4
  <2> QED BY <1>4, <2>2, <2>3, <2>5 DEF Recovered, Count, st
<1>12. CASE RecoverFails(n)
  BY <1>12 DEF RecoverFails, Return, Goto, Abandoned, Versions, TypeOK
<1> QED BY <1>7, <1>8, <1>9, <1>10, <1>11, <1>12 DEF Evaluate, Recover

(* Every step of or around the reconcile of n has one of these effects. *)
LEMMA StepEffects ==
  ASSUME TypeOK, NEW n \in Nodes, LifeInv(n), CacheInv(n),
         Reconcile(n) \/ Advisor(n) \/ Cluster(n) \/ UserDelete(n)
  PROVE  \/ Fetched(n) \/ WentOn(n) \/ Charged(n) \/ Recovered(n)
         \/ Persisted(n) \/ Abandoned(n) \/ Gone(n) \/ Aside(n)
<1> USE DEF clusterVars, workerVars, historyVars
<1>1. api[n] \in Object /\ cache[n] \in Object /\ tn[n] \in Object
  BY DEF TypeOK
<1>2. SameCore(api[n], api[n])
  BY DEF SameCore
<1>3. CacheFresh(n) => cache[n] = api[n] /\ Versions(n) = {api[n]}
  BY DEF CacheFresh, CacheInv, Versions
<1>4. ASSUME UNCHANGED <<api, cache, watch>> PROVE SameVersions(n)
  BY <1>4 DEF SameVersions, Versions
<1>5. ASSUME NEW o \in Object, Write(n, o), SameCore(o, api[n]),
             pc'[n] = pc[n], tn'[n] = tn[n], UNCHANGED <<restarts, slips>>
      PROVE  Aside(n)
  BY <1>5, VersionsWritten DEF Aside, SameCore
<1>6. CASE StartReconcile(n)
  <2> DEFINE o == IF cache[n].status.phase = ""
                  THEN [cache[n] EXCEPT !.status.phase = "Pending"] ELSE cache[n]
  <2>1. tn'[n] = o /\ pc'[n] = "ensure" /\ pc[n] = "idle"
        /\ UNCHANGED <<api, cache, watch, restarts>>
    BY <1>6 DEF StartReconcile, Fetchable, Goto, TypeOK
  <2>2. Count(o) = Count(cache[n])
    BY <1>1, CoreKept DEF SameCore
  <2>3. CASE CacheFresh(n)
    <3>1. slips' = slips
      BY <1>6, <2>3 DEF StartReconcile
    <3> HIDE DEF o
    <3> QED BY <1>3, <1>4, <2>1, <2>2, <2>3, <3>1 DEF Fetched
  <2>4. CASE ~CacheFresh(n)
    <3>1. slips'[n] = slips[n] + 1
      BY <1>6, <2>4 DEF StartReconcile, Slip, TypeOK
    <3> HIDE DEF o
    <3> QED BY <1>4, <2>1, <2>2, <3>1, VersionTypes DEF Fetched
  <2> QED BY <2>3, <2>4
<1>7. CASE StartFinalization(n)
  BY <1>4, <1>7 DEF StartFinalization, Fetchable, Goto, TypeOK, Fetched
<1>8. CASE AddFinalizer(n)
  <2>1. /\ Write(n, [api[n] EXCEPT !.finalizer = TRUE]) /\ pc' = pc /\ tn' = tn
        /\ UNCHANGED <<restarts, slips>>
    BY <1>8 DEF AddFinalizer
  <2> QED BY <1>1, <1>5, <2>1, CoreKept, ObjectTypes
<1>9. CASE EnsureResources(n) \/ EnsureBlocked(n) \/ Probe(n) \/ FinalizeCleanup(n)
  <2>1. /\ UNCHANGED <<api, cache, watch, restarts, slips, tn>>
        /\ \/ pc[n] \in {"ensure", "probe"} /\ pc'[n] \in {"probe", "evaluate", "persist"}
           \/ pc[n] = "finalize" /\ pc'[n] = "unfinalize"
    BY <1>9 DEF EnsureResources, EnsureBlocked, Probe, ProbeFails, ProbeSucceeds,
       FinalizeCleanup, Goto, TypeOK
  <2> QED BY <1>4, <2>1 DEF WentOn
<1>10. CASE EnsureFails(n) \/ RemoveFinalizerFails(n)
  <2>1. /\ UNCHANGED <<api, cache, watch, restarts, slips>>
        /\ pc'[n] = "idle" /\ pc[n] # "persist"
    BY <1>10 DEF EnsureFails, RemoveFinalizerFails, Return, Goto, TypeOK
  <2> QED BY <1>4, <2>1 DEF Abandoned, SameVersions
<1>11. CASE PersistFails(n)
  <2>1. UNCHANGED <<api, cache, watch, restarts>> /\ pc'[n] = "idle"
    BY <1>11 DEF PersistFails, Return, Goto, TypeOK
  <2>2. CASE api[n].exists
    <3>1. slips'[n] = slips[n] + 1
      BY <1>11, <2>2 DEF PersistFails, Slip, TypeOK
    <3> QED BY <1>4, <2>1, <3>1 DEF Abandoned, SameVersions
  <2>3. CASE ~api[n].exists
    BY <2>1, <2>3 DEF Gone
  <2> QED BY <2>2, <2>3
<1>12. CASE Persist(n)
  <2> DEFINE o == [api[n] EXCEPT !.status = tn[n].status]
  <2>1. /\ CacheFresh(n) /\ Write(n, o) /\ UNCHANGED <<restarts, slips>>
        /\ pc[n] = "persist" /\ pc'[n] = "idle"
    BY <1>12 DEF Persist, Return, Goto, TypeOK
  <2>2. o \in Object /\ o.exists = api[n].exists /\ Count(o) = Count(tn[n])
    BY <1>1, ObjectTypes DEF Object, Count
  <2> HIDE DEF o
  <2> QED BY <1>3, <2>1, <2>2, VersionsWritten DEF Persisted
<1>13. CASE RemoveFinalizer(n)
  BY <1>13, VersionsWritten, ConstantTypes DEF RemoveFinalizer, Absent, Gone
<1>14. CASE AdvisoryWritten(n)
  <2> DEFINE o == [api[n] EXCEPT !.status.advisory = TRUE]
  <2>1. Write(n, o) /\ pc' = pc /\ tn' = tn /\ UNCHANGED <<restarts, slips>>
    BY <1>14, Zenon DEF AdvisoryWritten
  <2>2. o \in Object /\ SameCore(o, api[n])
    BY <1>1, CoreKept, ObjectTypes
  <2> HIDE DEF o
  <2> QED BY <1>5, <2>1, <2>2
<1>15. CASE UserDelete(n)
  <2>1. /\ Write(n, IF api[n].finalizer THEN [api[n] EXCEPT !.deleting = TRUE] ELSE Absent)
        /\ pc' = pc /\ tn' = tn /\ UNCHANGED <<restarts, slips>>
    BY <1>15 DEF UserDelete
  <2>2. CASE api[n].finalizer
    BY <1>1, <1>5, <2>1, <2>2, CoreKept, ObjectTypes
  <2>3. CASE ~api[n].finalizer
    BY <2>1, <2>3, VersionsWritten, ConstantTypes DEF Absent, Gone
  <2> QED BY <2>2, <2>3
<1>16. CASE Deliver(n)
  <2>1. /\ watch[n] # <<>> /\ watch[n] \in Seq(Object)
        /\ cache'[n] = Head(watch[n]) /\ watch'[n] = Tail(watch[n])
        /\ UNCHANGED <<api, pc, tn, restarts, slips>>
    BY <1>16 DEF Deliver, TypeOK
  <2>2. Versions(n)' \subseteq Versions(n)
    BY <2>1, HeadTailProperties DEF Versions
  <2> QED BY <1>2, <2>1, <2>2 DEF Aside
<1>17. CASE AdvisoryDropped(n) \/ RecreatePod(n) \/ EvictPod(n) \/ GarbageCollect(n)
  <2>1. UNCHANGED <<api, cache, watch, pc, tn, restarts, slips>>
    BY <1>17 DEF AdvisoryDropped, RecreatePod, EvictPod, GarbageCollect
  <2> QED BY <1>2, <1>4, <2>1 DEF Aside, SameVersions
<1> QED BY <1>6, <1>7, <1>8, <1>9, <1>10, <1>11, <1>12, <1>13, <1>14, <1>15, <1>16, <1>17,
           DecisionEffects
        DEF Reconcile, Fetch, Ensure, UpdateStatus, Finalize, Advisor, Cluster

(* ... and so have a restart of the operator and a tick of the clock. *)
LEMMA GlobalEffects ==
  ASSUME TypeOK, NEW n \in Nodes, OperatorRestart \/ Tick
  PROVE  Abandoned(n) \/ Aside(n)
<1>1. CASE OperatorRestart
  <2>1. /\ UNCHANGED <<api, restarts>> /\ pc'[n] = "idle"
        /\ cache'[n] = api[n] /\ watch'[n] = <<>>
        /\ slips'[n] = IF pc[n] = "idle" THEN slips[n] ELSE slips[n] + 1
    BY <1>1 DEF OperatorRestart
  <2>2. Versions(n)' = {api[n]}
    BY <2>1 DEF Versions
  <2> QED BY <2>1, <2>2 DEF Abandoned
<1>2. CASE Tick
  <2>1. /\ api'[n] = AgedObject(api[n]) /\ cache'[n] = AgedObject(cache[n])
        /\ tn'[n] = AgedObject(tn[n])
        /\ watch'[n] = [i \in DOMAIN watch[n] |-> AgedObject(watch[n][i])]
        /\ UNCHANGED <<pc, restarts, slips>>
    BY <1>2 DEF Tick, historyVars
  <2>2. /\ watch[n] \in Seq(Object) /\ cache[n] \in Object
        /\ api[n] \in Object /\ tn[n] \in Object
    BY DEF TypeOK
  <2>3. /\ DOMAIN watch[n] = 1 .. Len(watch[n]) /\ Len(watch[n]) \in Nat
        /\ Len(watch'[n]) = Len(watch[n])
    BY <2>1, <2>2
  <2>4. ASSUME NEW v \in Versions(n)'
        PROVE  \E u \in Versions(n) : u \in Object /\ v = AgedObject(u)
    BY <2>1, <2>2, <2>3 DEF Versions
  <2>5. \A v \in Versions(n)' : \E u \in Versions(n) : Count(v) = Count(u)
    <3> SUFFICES ASSUME NEW v \in Versions(n)'
                 PROVE  \E u \in Versions(n) : Count(v) = Count(u)
      OBVIOUS
    <3>1. PICK u \in Versions(n) : u \in Object /\ v = AgedObject(u)
      BY <2>4
    <3>2. SameCore(AgedObject(u), u)
      BY <3>1, CoreKept
    <3> QED BY <3>1, <3>2 DEF SameCore
  <2>6. SameCore(api'[n], api[n]) /\ Count(tn'[n]) = Count(tn[n])
    BY <2>1, <2>2, CoreKept DEF SameCore
  <2> QED BY <2>1, <2>5, <2>6 DEF Aside
<1> QED BY <1>1, <1>2

(* The inductive invariant.  r counts the restarts that no slip pays for: they
   are all on the stored count, but for the one of a reconcile that is about to
   persist; on the local count, and one more once it is charged; and any version
   that may be read is at most one charge behind the stored one. *)
LedgerInv(n) ==
  LET r == restarts[n] - slips[n]
      pending == IF pc[n] = "persist" THEN 1 ELSE 0
  IN  api[n].exists =>
        /\ r <= Count(api[n]) + pending
        /\ pc[n] \in Working => r <= Count(tn[n])
        /\ pc[n] = "recover" => r + 1 <= Count(tn[n])
        /\ \A v \in Versions(n) : r <= Count(v) + pending + 1

(* Every effect keeps the ledger. *)
LEMMA EffectsKeepLedger ==
  ASSUME TypeOK, TypeOK', NEW n \in Nodes, LedgerInv(n),
         \/ Fetched(n) \/ WentOn(n) \/ Charged(n) \/ Recovered(n)
         \/ Persisted(n) \/ Abandoned(n) \/ Gone(n) \/ Aside(n)
  PROVE  LedgerInv(n)'
<1>1. ASSUME NEW o \in Object PROVE Count(o) \in Int
  BY <1>1, CountTypes
<1>2. /\ Count(tn[n]) \in Int /\ Count(api[n]) \in Int
      /\ Count(tn'[n]) \in Int /\ Count(api'[n]) \in Int
      /\ \A v \in Versions(n) : Count(v) \in Int
      /\ \A v \in Versions(n)' : Count(v) \in Int
  <2>1. /\ tn'[n] \in Object /\ api'[n] \in Object /\ Versions(n)' \subseteq Object
    BY DEF TypeOK, Versions
  <2> QED BY <1>1, <2>1, VersionTypes
<1>3. restarts[n] \in Int /\ slips[n] \in Int /\ restarts'[n] \in Int /\ slips'[n] \in Int
  BY DEF TypeOK
<1> USE DEF LedgerInv, Working
<1>4. CASE Fetched(n)
  BY <1>2, <1>3, <1>4 DEF Fetched, SameVersions
<1>5. CASE WentOn(n)
  BY <1>2, <1>3, <1>5 DEF WentOn, SameVersions
<1>6. CASE Charged(n)
  BY <1>2, <1>3, <1>6 DEF Charged, SameVersions
<1>7. CASE Recovered(n)
  BY <1>2, <1>3, <1>7 DEF Recovered, SameVersions
<1>8. CASE Persisted(n)
  BY <1>2, <1>3, <1>8 DEF Persisted
<1>9. CASE Abandoned(n)
  BY <1>2, <1>3, <1>9 DEF Abandoned
<1>10. CASE Gone(n)
  BY <1>10 DEF Gone
<1>11. CASE Aside(n)
  BY <1>2, <1>3, <1>11 DEF Aside, SameCore
<1> QED BY <1>4, <1>5, <1>6, <1>7, <1>8, <1>9, <1>10, <1>11

(* The ledger of every node is kept. *)
LEMMA LedgerAlways == Spec => [](\A n \in Nodes : LedgerInv(n))
<1>1. Init => \A n \in Nodes : LedgerInv(n)
  <2> SUFFICES ASSUME Init, NEW n \in Nodes PROVE LedgerInv(n)
    OBVIOUS
  <2>1. /\ pc[n] = "idle" /\ restarts[n] = 0 /\ slips[n] = 0
        /\ api[n] = Created /\ Versions(n) = {Created}
    BY DEF Init, Versions
  <2>2. Count(Created) = 0
    BY DEF Created, Absent, NoStatus, Count
  <2> QED BY <2>1, <2>2 DEF LedgerInv, Working
<1>2. TypeOK /\ TypeOK' /\ (\A n \in Nodes : LifeInv(n)) /\ (\A n \in Nodes : CacheInv(n))
        /\ (\A n \in Nodes : LedgerInv(n)) /\ [Next]_vars
        => (\A n \in Nodes : LedgerInv(n))'
  <2> SUFFICES ASSUME TypeOK, TypeOK', \A n \in Nodes : LifeInv(n),
                      \A n \in Nodes : CacheInv(n), \A n \in Nodes : LedgerInv(n),
                      [Next]_vars, NEW m \in Nodes
               PROVE  LedgerInv(m)'
    OBVIOUS
  <2>1. ASSUME NEW n \in Nodes, Reconcile(n) \/ Advisor(n) \/ Cluster(n) \/ UserDelete(n),
               m # n
        PROVE  LedgerInv(m)'
    <3>1. Untouched(m)
      BY <2>1, OtherNodesUntouched
    <3>2. Versions(m)' = Versions(m)
      BY <3>1 DEF Untouched, Versions
    <3> QED BY <3>1, <3>2 DEF Untouched, LedgerInv
  <2>2. ASSUME Reconcile(m) \/ Advisor(m) \/ Cluster(m) \/ UserDelete(m)
        PROVE  LedgerInv(m)'
    BY <2>2, StepEffects, EffectsKeepLedger
  <2>3. CASE OperatorRestart \/ Tick
    BY <2>3, GlobalEffects, EffectsKeepLedger
  <2>4. CASE UNCHANGED vars
    <3>1. UNCHANGED <<api, cache, watch, pc, tn, restarts, slips>>
      BY <2>4 DEF vars, clusterVars, workerVars, historyVars
    <3>2. Versions(m)' = Versions(m)
      BY <3>1 DEF Versions
    <3> QED BY <3>1, <3>2 DEF LedgerInv
  <2> QED BY <2>1, <2>2, <2>3, <2>4 DEF Next
<1> QED BY <1>1, <1>2, TypeCorrect, LifeAlways, CacheAlways, PTL DEF Spec

(* Every pod deleted by a recovery is on the ledger, but for one restart per
   slip: whatever crashes, failing calls, stale reads, advisories, users and
   other nodes do, and in whatever order. *)
THEOREM RestartsChargedAlways == Spec => []RestartsCharged
<1>1. TypeOK /\ (\A n \in Nodes : LedgerInv(n)) => RestartsCharged
  <2> SUFFICES ASSUME TypeOK, NEW n \in Nodes, LedgerInv(n), api[n].exists
               PROVE  restarts[n] <= ChargedRestarts(n) + slips[n]
    BY DEF RestartsCharged
  <2>1. api[n] \in Object /\ tn[n] \in Object /\ pc[n] \in Steps
    BY DEF TypeOK
  <2>2. /\ Count(api[n]) \in Int /\ Count(tn[n]) \in Int
        /\ restarts[n] \in Int /\ slips[n] \in Int
    BY <2>1, CountTypes DEF TypeOK
  <2> QED BY <2>1, <2>2 DEF LedgerInv, ChargedRestarts, Count, Working, Steps
<1> QED BY <1>1, TypeCorrect, LedgerAlways, PTL

(* maxRestartAttempts is overrun by no more than the slips of the node: with
   none it is a hard bound on the pods deleted in recoveries. *)
THEOREM BudgetOverrunBounded ==
  Spec => [](\A n \in Nodes : api[n].exists => restarts[n] <= MaxRestartAttempts + slips[n])
<1>1. ASSUME TypeOK, RestartsCharged, NEW n \in Nodes, api[n].exists
      PROVE  restarts[n] <= MaxRestartAttempts + slips[n]
  <2>1. api[n] \in Object /\ tn[n] \in Object
    BY <1>1 DEF TypeOK
  <2>2. ChargedRestarts(n) \in 0 .. MaxRestartAttempts
    BY <2>1, ObjectTypes DEF Status, ChargedRestarts
  <2>3. restarts[n] <= ChargedRestarts(n) + slips[n] /\ restarts[n] \in Int /\ slips[n] \in Int
    BY <1>1 DEF RestartsCharged, TypeOK
  <2> QED BY <2>2, <2>3, SyncPolicyAssumption
<1>2. TypeOK /\ RestartsCharged
        => \A n \in Nodes : api[n].exists => restarts[n] <= MaxRestartAttempts + slips[n]
  BY <1>1
<1> QED BY <1>2, TypeCorrect, RestartsChargedAlways, PTL

----------------------------------------------------------------------------
(* What holds of the limiter holds of it inside the operator. *)

(* However many TaoNodes reconcile at once, no more than MaxConcurrent slots
   are taken. *)
THEOREM SlotsCappedInOperator == Spec => []L!SlotsCapped
<1>1. LP!Spec => [](LP!SlotsCapped /\ LP!GaugeNeverUnderReports)
  BY LimiterAssumptions, LP!SlotsCappedAlways, ReconcilerAssumption
<1>2. LP!SlotsCapped => L!SlotsCapped
  BY Zenon DEF LP!SlotsCapped, L!SlotsCapped, LP!Cardinality, L!Cardinality
<1> QED BY <1>1, <1>2, ImplementsRecoveryCaller, SameLimiter, PTL
============================================================================
