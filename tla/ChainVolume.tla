---------------------------- MODULE ChainVolume ----------------------------
(***************************************************************************)
(* The chain data of one TaoNode: its PersistentVolumeClaim, grown under   *)
(* disk pressure (internal/controller/storage_manager.go), and the         *)
(* VolumeSnapshots taken of it and pruned                                  *)
(* (internal/controller/snapshot_manager.go).                              *)
(*                                                                         *)
(* The claim is read through the informer cache; the snapshots, being      *)
(* unstructured, are listed from the API server.  A snapshot that was      *)
(* deleted stays listed until the snapshot controller has collected it.    *)
(* Names of snapshots and creation times have a resolution of one second,  *)
(* the unit of clock.  LastSnapshotTime, AvailableSnapshots, events and    *)
(* metrics, which this code writes and never reads, are left out.          *)
(***************************************************************************)
EXTENDS Integers, FiniteSets

CONSTANTS
  Roles,             \* the roles the node may have: part of the snapshot labels
  Settings,          \* snapshotPolicy and autoExpand of the spec: records of a
                     \* policy, a set with at most one [retention, onSyncLoss],
                     \* and a limit, a set with at most one maxSize
  IncrementPercent,  \* autoExpand.incrementPercent
  InitialSize,       \* the size of the claim when the StatefulSet creates it
  MaxInt,            \* the greatest of the integers the sizes are computed in (2^63 - 1)
  MaxClock,          \* bound on the time
  MaxFaults          \* bound on failing calls, restarts, edits and foreign changes

ASSUME VolumeAssumption ==
  /\ Settings \subseteq [policy : SUBSET [retention : Nat \ {0}, onSyncLoss : BOOLEAN],
                         limit  : SUBSET Nat]
  /\ \A s \in Settings : /\ \A p, q \in s.policy : p = q
                         /\ \A m, n \in s.limit : m = n
  /\ IncrementPercent \in 10 .. 100
  /\ InitialSize \in Nat \ {0} /\ MaxInt \in Nat \ {0}
  /\ MaxClock \in Nat /\ MaxFaults \in Nat

VARIABLES
  role, policy, limit,  \* the spec
  node,                 \* "live", "deleting" or "gone"
  clock,
  snaps,                \* the VolumeSnapshots
  pvc,                  \* optional size of the claim, as the API server has it
  pvcSeen,              \* ... and as the informer has it
  pressure,             \* usage is at or above autoExpand.thresholdPercent
  answering,            \* reconciles get to step 8: the node answers its probe and
                        \* nothing before that step fails
  pc, job,              \* where the reconcile is, and why it takes a snapshot
  copy,                 \* expansion: optional size of the claim that was read
  labels,               \* pruning: the role in the labels of the TaoNode read
  toDelete,             \* pruning: snapshots still to be deleted
  faults

spec  == <<role, policy, limit>>
local == <<pc, job, copy, labels, toDelete>>
world == <<node, clock, snaps, pvc, pvcSeen, pressure, answering>>
vars  == <<spec, local, world, faults>>

Snapshot == [at : 0 .. MaxClock, role : Roles, deleting : BOOLEAN]

TypeOK ==
  /\ role \in Roles /\ [policy |-> policy, limit |-> limit] \in Settings
  /\ node \in {"live", "deleting", "gone"}
  /\ clock \in 0 .. MaxClock
  /\ snaps \subseteq Snapshot
  /\ \A s, t \in snaps : s.at = t.at => s = t
  /\ \A f \in {pvc, pvcSeen, copy} : f \subseteq Nat /\ Cardinality(f) <= 1
  /\ pressure \in BOOLEAN /\ answering \in BOOLEAN
  /\ pc \in {"idle", "expand", "create", "list", "prune", "finish"}
  /\ job \in {"none", "disk", "restore", "finalize"}
  /\ labels \in Roles
  /\ toDelete \subseteq Snapshot
  /\ faults \in 0 .. MaxFaults

Init ==
  /\ role \in Roles
  /\ \E s \in Settings : policy = s.policy /\ limit = s.limit
  /\ node = "live" /\ clock = 0 /\ snaps = {} /\ pvc = {} /\ pvcSeen = {}
  /\ pressure = FALSE /\ answering = TRUE
  /\ pc = "idle" /\ job = "none" /\ copy = {} /\ labels = role /\ toDelete = {}
  /\ faults = 0

CountFault == faults < MaxFaults /\ faults' = faults + 1

Return ==
  /\ pc' = "idle" /\ job' = "none" /\ copy' = {} /\ toDelete' = {}
  /\ UNCHANGED labels

----------------------------------------------------------------------------
(* evaluateDiskPressure and expandPVCPreemptively *)

(* The value a signed integer holds: the excess over MaxInt wraps around. *)
Wrap(i) == ((i + MaxInt + 1) % (2 * (MaxInt + 1))) - (MaxInt + 1)

(* Division of integers truncates. *)
Quotient(i, d) == IF i >= 0 THEN i \div d ELSE -((-i) \div d)

Increment(size) == Quotient(Wrap(size * IncrementPercent), 100)

Capped(size, max) == IF size > max THEN max ELSE size

(* Mutant: the increment is not capped. *)
UncappedSize(size, max) == Wrap(size + Increment(size))

NewSize(size, max) == Capped(Wrap(size + Increment(size)), max)

(* Mutant: an expansion that would exceed the maximum is skipped. *)
NoFullStepLeft(size, max) == size + Increment(size) > max

AtMaximum(size, max) == size >= max

(* Step 8 of Reconcile.  A failing probe, and an error of the state machine, end
   the reconcile before it. *)
EvaluateDiskPressure ==
  /\ pc = "idle" /\ node = "live" /\ answering /\ pressure
  /\ \E size \in pvcSeen, max \in limit : ~AtMaximum(size, max)
  /\ pc' = "expand" /\ job' = "disk" /\ copy' = pvcSeen
  /\ UNCHANGED <<spec, world, labels, toDelete, faults>>

(* The update carries the resourceVersion of the copy.  The API server refuses a
   smaller request, and the error is logged. *)
ExpandPVC ==
  /\ pc = "expand"
  /\ \E size \in copy, max \in limit :
       pvc' = IF copy = pvc /\ NewSize(size, max) >= size THEN {NewSize(size, max)} ELSE pvc
  /\ Return
  /\ UNCHANGED <<spec, node, clock, snaps, pvcSeen, pressure, answering, faults>>

----------------------------------------------------------------------------
(* triggerSnapshot; without a policy it does nothing *)

Begin(reason, step) ==
  /\ pc' = step /\ job' = reason /\ labels' = role
  /\ UNCHANGED <<spec, world, copy, toDelete, faults>>

(* recoverySnapshotRestore; its deletion of the pod is in TaoNodeReconciler. *)
StartRestore ==
  /\ pc = "idle" /\ node = "live" /\ policy # {}
  /\ Begin("restore", "create")

(* Mutant: only nodes with a snapshot to take are finalized. *)
FinalizeWithSnapshot ==
  /\ pc = "idle" /\ node = "deleting" /\ \E p \in policy : p.onSyncLoss
  /\ Begin("finalize", "create")

(* handleFinalization *)
StartFinalization ==
  /\ pc = "idle" /\ node = "deleting"
  /\ Begin("finalize", IF \E p \in policy : p.onSyncLoss THEN "create" ELSE "finish")

(* Mutant: names end in random characters. *)
NameRandom == FALSE

NameTaken == \E s \in snaps : s.at = clock

(* An error ends the snapshot, not the recovery or the finalization. *)
CreateSnapshot ==
  /\ pc = "create"
  /\ IF NameTaken
     THEN pc' = "finish" /\ UNCHANGED snaps
     ELSE /\ pc' = "list"
          /\ snaps' = snaps \cup {[at |-> clock, role |-> labels, deleting |-> FALSE]}
  /\ UNCHANGED <<spec, node, clock, pvc, pvcSeen, pressure, answering, job, copy, labels,
                 toDelete, faults>>

----------------------------------------------------------------------------
(* pruneOldSnapshots *)

Retention == CHOOSE r \in {p.retention : p \in policy} : TRUE

Older(S, s)  == {t \in S : t.at < s.at}

Listed == {s \in snaps : s.role = labels}

(* Mutant: newest first. *)
NewestSnapshots(S, k) == {s \in S : Cardinality({t \in S : t.at > s.at}) < k}

(* sortSnapshotsByAge, and the first k. *)
OldestSnapshots(S, k) == {s \in S : Cardinality(Older(S, s)) < k}

(* Mutant: the snapshot just taken does not count. *)
ExcessWithoutNewest(S) == Cardinality(S) - 1 - Retention

Excess(S) == Cardinality(S) - Retention

ListSnapshots ==
  /\ pc = "list"
  /\ toDelete' = OldestSnapshots(Listed, Excess(Listed))
  /\ pc' = IF toDelete' = {} THEN "finish" ELSE "prune"
  /\ UNCHANGED <<spec, world, job, copy, labels, faults>>

AndThen(rest) ==
  /\ toDelete' = rest
  /\ pc' = IF rest = {} THEN "finish" ELSE "prune"

(* Deleting a snapshot that is being deleted succeeds; one that has been collected
   since it was listed is not found, which ends the loop. *)
DeleteNext ==
  /\ pc = "prune"
  /\ \E s \in OldestSnapshots(toDelete, 1) :
       LET found == {t \in snaps : t.at = s.at}
       IN  /\ snaps' = (snaps \ found) \cup {[t EXCEPT !.deleting = TRUE] : t \in found}
           /\ AndThen(IF found = {} THEN {} ELSE toDelete \ {s})
  /\ UNCHANGED <<spec, node, clock, pvc, pvcSeen, pressure, answering, job, copy, labels, faults>>

(* The recovery is over; or the finalizer goes, and with it the TaoNode. *)
Finish ==
  /\ pc = "finish"
  /\ node' = IF job = "finalize" THEN "gone" ELSE node
  /\ Return
  /\ UNCHANGED <<spec, clock, snaps, pvc, pvcSeen, pressure, answering, faults>>

Reconcile ==
  \/ EvaluateDiskPressure \/ ExpandPVC
  \/ StartRestore \/ StartFinalization
  \/ CreateSnapshot \/ ListSnapshots \/ DeleteNext \/ Finish

----------------------------------------------------------------------------
(* Faults *)

(* A call of the snapshot code fails. *)
SnapshotCallFails ==
  /\ CountFault
  /\ pc \in {"create", "list", "prune"}
  /\ pc' = "finish" /\ toDelete' = {}
  /\ UNCHANGED <<spec, world, job, copy, labels>>

(* The update of the claim or of the finalizer fails, or the operator dies. *)
ReconcileFails ==
  /\ CountFault
  /\ pc # "idle" /\ Return
  /\ UNCHANGED <<spec, world>>

----------------------------------------------------------------------------
(* The rest of the cluster *)

(* Only the names of snapshots depend on the time. *)
Tick ==
  /\ policy # {} /\ clock < MaxClock /\ clock' = clock + 1
  /\ UNCHANGED <<spec, local, node, snaps, pvc, pvcSeen, pressure, answering, faults>>

(* The StatefulSet controller creates the claim. *)
ClaimVolume ==
  /\ pvc = {} /\ pvc' = {InitialSize}
  /\ UNCHANGED <<spec, local, node, clock, snaps, pvcSeen, pressure, answering, faults>>

(* Somebody else grows the claim. *)
AdminGrows ==
  /\ CountFault
  /\ \E size \in pvc : pvc' = {size + 1}
  /\ UNCHANGED <<spec, local, node, clock, snaps, pvcSeen, pressure, answering>>

DeliverPvc ==
  /\ pvcSeen # pvc /\ pvcSeen' = pvc
  /\ UNCHANGED <<spec, local, node, clock, snaps, pvc, pressure, answering, faults>>

UsageChanges ==
  /\ limit # {} /\ pvc # {} /\ pressure' = ~pressure
  /\ UNCHANGED <<spec, local, node, clock, snaps, pvc, pvcSeen, answering, faults>>

(* The node goes down, or comes back. *)
NodeAnswers ==
  /\ limit # {} /\ answering' = ~answering
  /\ UNCHANGED <<spec, local, node, clock, snaps, pvc, pvcSeen, pressure, faults>>

RoleChanges ==
  /\ CountFault
  /\ node = "live" /\ role' \in Roles \ {role}
  /\ UNCHANGED <<policy, limit, local, world>>

DeleteNode ==
  /\ node = "live" /\ node' = "deleting"
  /\ UNCHANGED <<spec, local, clock, snaps, pvc, pvcSeen, pressure, answering, faults>>

(* The snapshot controller lets a deleted snapshot go. *)
CollectSnapshot ==
  /\ \E s \in snaps : s.deleting /\ snaps' = snaps \ {s}
  /\ UNCHANGED <<spec, local, node, clock, pvc, pvcSeen, pressure, answering, faults>>

(* The snapshots are owned by the TaoNode and go with it. *)
CollectOwned ==
  /\ node = "gone" /\ snaps # {} /\ snaps' = {}
  /\ UNCHANGED <<spec, local, node, clock, pvc, pvcSeen, pressure, answering, faults>>

Next ==
  \/ Reconcile
  \/ SnapshotCallFails \/ ReconcileFails
  \/ Tick \/ ClaimVolume \/ AdminGrows \/ DeliverPvc \/ UsageChanges \/ NodeAnswers
  \/ RoleChanges \/ DeleteNode \/ CollectSnapshot \/ CollectOwned

Spec == Init /\ [][Next]_vars

(* A TaoNode is reconciled again and again: whatever it has begun it goes on with,
   a deleted one is finalized, and disk pressure is evaluated once the node answers
   for good. *)
FairSpec ==
  /\ Spec
  /\ WF_vars(ExpandPVC \/ CreateSnapshot \/ ListSnapshots \/ DeleteNext \/ Finish)
  /\ WF_vars(EvaluateDiskPressure)
  /\ WF_vars(StartFinalization)
  /\ WF_vars(DeliverPvc)

----------------------------------------------------------------------------
(***************************************************************************)
(* Properties                                                              *)
(***************************************************************************)

(* Pruning never takes one of the newest: behind every snapshot that pruning has
   deleted there are retentionCount newer ones of the same labels, although the
   list holds snapshots that are being deleted, deletions fail and the loop
   starts anew after every failure. *)
NewestKept ==
  \A s \in snaps :
    s.deleting =>
      Cardinality({t \in snaps : t.role = s.role /\ t.at > s.at /\ ~t.deleting}) >= Retention

(* Pruning catches up: a pass whose deletions have all succeeded leaves at most
   retentionCount snapshots of the labels it listed, however many were left over
   by passes that failed. *)
RetentionEnforced ==
  [][\A s \in toDelete :
       /\ toDelete = {s} /\ toDelete' = {}
       /\ \E t \in snaps' : t.at = s.at /\ t.deleting
       => Cardinality({t \in snaps' : t.role = labels /\ ~t.deleting}) <= Retention]_vars

(* Growing under pressure ends at the limit: an update of the operator takes the
   claim above the size it has, and never above maxSize, although the size was
   read from a cache. *)
ExpansionBounded ==
  [][pc = "expand" /\ pc' = "idle" /\ pvc' # pvc =>
       \A old \in pvc, new \in pvc' : old < new /\ \A max \in limit : new <= max]_vars

(* The products that do not fit the integers of the code. *)
Overflows == \E max \in limit : max * IncrementPercent > MaxInt

(* Pressure is answered: as long as usage stays high on a node that answers its
   probes, the claim grows to maxSize, in spite of stale copies, failing updates
   and outages before that, for every maxSize whose product with incrementPercent
   fits.  Of a node that is down, disk full or not, nothing is said. *)
PressureAnswered ==
  <>[](pressure /\ answering /\ node = "live") =>
    <>[](Overflows \/ \A size \in pvc, max \in limit : size >= max)

(* Snapshots never keep a TaoNode from going: failing calls, names that are taken
   and lost updates of the finalizer included. *)
SnapshotsNeverBlockDeletion == node = "deleting" ~> node = "gone"
============================================================================
