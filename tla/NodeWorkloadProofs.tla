------------------------- MODULE NodeWorkloadProofs ------------------------
(***************************************************************************)
(* The workload of a TaoNode, for every fleet, every set of submitted      *)
(* specs, any number of hotkeys and any number of events.                  *)
(***************************************************************************)
EXTENDS NodeWorkload, FiniteSetTheorems, TLAPS

(* What the webhook lets through. *)
Admitted == {s \in Submissions : ValidateCreate(s)}

(* Every pod template the builders make of an admitted spec. *)
TemplatesOf(n, s) == {Template(n, s, h) : h \in Hotkeys \cup {""}}

TemplatesFor(n) == UNION {TemplatesOf(n, s) : s \in Admitted}

Built == UNION {TemplatesFor(n) : n \in Nodes}

LabelsFor(n) == {LabelsForNode(n, s) : s \in Admitted}

Labels == UNION {LabelsFor(n) : n \in Nodes}

StsObject == [selector : Labels,
              vct : [size : Nat, volumeMode : {"unset", "Filesystem"}],
              strategy : {"OnDelete", "RollingUpdate"},
              template : Built,
              deleting : BOOLEAN]

PodObject == [template : Built, owned : BOOLEAN, key : Hotkeys \cup {NoKey}]

(* The inductive invariant.  Only admitted specs are stored or worked on, a
   reconcile past the fetch has one; so StatefulSets, the informer's copies and
   pods consist of what the builders make of admitted specs. *)
ClusterOK ==
  /\ spec \in [Nodes -> Admitted]
  /\ secret \in [Nodes -> Hotkeys \cup {NoKey}]
  /\ rbac \in BOOLEAN
  /\ defaulting \in Defaulting
  /\ service \in [Nodes -> Optional(Labels)]
  /\ sts \in [Nodes -> Optional(StsObject)]
  /\ seen \in [Nodes -> Optional(StsObject)]
  /\ pod \in [Nodes -> Optional(PodObject)]

LocalOK ==
  /\ pc \in [Nodes -> Steps]
  /\ tn \in [Nodes -> Optional(Admitted)]
  /\ hash \in [Nodes -> Hotkeys \cup {""}]
  /\ \A n \in Nodes : pc[n] # "idle" => tn[n] # {}

WorkloadInv ==
  /\ GuardTypeOK
  /\ ClusterOK
  /\ LocalOK
  /\ events \in 0 .. MaxEvents

(* A check that has read the current version of the Lease has read its content. *)
LeaseInv == \A n \in Nodes : \A r \in leaseRead[n] : r.current => r.found = lease[n]

----------------------------------------------------------------------------
(* Optional values *)

(* An optional value is missing or is one value, and is no larger than that. *)
LEMMA OptionalCases ==
  ASSUME NEW S, NEW o \in Optional(S)
  PROVE  /\ o \subseteq S
         /\ o = {} \/ \E x \in S : o = {x}
         /\ Cardinality(o) <= 1
<1>1. o \subseteq S /\ (o = {} \/ \E x \in S : o = {x})
  BY DEF Optional
<1>2. Cardinality(o) <= 1
  <2>1. CASE o = {}
    BY <2>1, FS_EmptySet
  <2>2. ASSUME NEW x \in S, o = {x} PROVE Cardinality(o) <= 1
    BY <2>2, FS_Singleton
  <2> QED BY <1>1, <2>1, <2>2
<1> QED BY <1>1, <1>2

(* Nothing, or one value, is an optional value. *)
LEMMA OptionalIntro ==
  ASSUME NEW S
  PROVE  {} \in Optional(S) /\ \A x \in S : {x} \in Optional(S)
  BY DEF Optional

----------------------------------------------------------------------------
(* Builders *)

(* An admitted spec asks for key material exactly if the role has keys. *)
LEMMA KeysByRole ==
  ASSUME NEW s \in Admitted
  PROVE  /\ s.role \in Roles /\ s.network \in Networks /\ s.size \in Nat
         /\ RequiresHotkeyMaterial(s) <=> s.role # "subtensor"
<1>1. IsTaoNodeSpec(s) /\ ValidateKeys(s)
  BY WorkloadAssumption DEF Admitted, ValidateCreate
<1> QED BY <1>1 DEF IsTaoNodeSpec, ValidateKeys, ValidateValidatorSpec,
           RequiresHotkeyMaterial, Roles

(* What desiredStatefulSetForNode builds. *)
LEMMA DesiredType ==
  ASSUME NEW n \in Nodes, NEW s \in Admitted, NEW h \in Hotkeys \cup {""}
  PROVE  DesiredStatefulSet(n, s, h) \in StsObject
<1>1. Template(n, s, h) \in Built /\ LabelsForNode(n, s) \in Labels
  <2>1. Template(n, s, h) \in TemplatesOf(n, s)
    BY DEF TemplatesOf
  <2>2. Template(n, s, h) \in TemplatesFor(n)
    BY <2>1 DEF TemplatesFor
  <2>3. LabelsForNode(n, s) \in LabelsFor(n)
    BY DEF LabelsFor
  <2> QED BY <2>2, <2>3 DEF Built, Labels
<1>3. UpdateStrategy(s) \in {"OnDelete", "RollingUpdate"}
  BY DEF UpdateStrategy
<1>4. s.size \in Nat
  BY KeysByRole
<1>5. [size |-> s.size, volumeMode |-> "unset"] \in [size : Nat, volumeMode : {"unset", "Filesystem"}]
  BY <1>4
<1> QED BY <1>1, <1>3, <1>5 DEF DesiredStatefulSet, StsObject

(* A template confines the key material, as KeyMaterialConfined says of all. *)
Confined(t) ==
  /\ \A c \in DOMAIN t.mounts :
       /\ "hotkey-secret" \in t.mounts[c] => c = "key-injector"
       /\ t.mounts[c] \subseteq t.volumes \cup {"chain-data"}
  /\ (t.args.keystorePath # "") <=> ("keystore" \in t.mounts["node"])
  /\ ("keystore" \in t.volumes) <=> (t.labels.role # "subtensor")

(* The builders, which share requiresHotkeyMaterial, agree with each other. *)
LEMMA BuiltConfined ==
  ASSUME NEW t \in Built
  PROVE  Confined(t)
<1>1. PICK n \in Nodes, s \in Admitted, h \in Hotkeys \cup {""} : t = Template(n, s, h)
  <2>1. PICK n \in Nodes : t \in TemplatesFor(n)
    BY DEF Built
  <2>2. PICK s \in Admitted : t \in TemplatesOf(n, s)
    BY <2>1 DEF TemplatesFor
  <2> QED BY <2>2 DEF TemplatesOf
<1>2. RequiresHotkeyMaterial(s) <=> s.role # "subtensor"
  BY KeysByRole
<1>3. /\ t.mounts = ContainerMounts(s) /\ t.volumes = BuildVolumes(s)
      /\ t.labels.role = s.role
      /\ t.args.keystorePath = IF RequiresHotkeyMaterial(s) THEN "/keystore" ELSE ""
  BY <1>1 DEF Template, LabelsForNode, SubstrateArgs
<1>4. /\ ContainerMounts(s)["node"] = MainContainerMounts(s)
      /\ DOMAIN ContainerMounts(s) = Containers(s)
  BY DEF ContainerMounts, Containers
<1>5. "keystore" \in MainContainerMounts(s) <=> RequiresHotkeyMaterial(s)
  BY DEF MainContainerMounts, When
<1>6. "keystore" \in BuildVolumes(s) <=> RequiresHotkeyMaterial(s)
  BY DEF BuildVolumes, When
<1>7. ASSUME NEW c \in Containers(s)
      PROVE  /\ "hotkey-secret" \in ContainerMounts(s)[c] => c = "key-injector"
             /\ ContainerMounts(s)[c] \subseteq BuildVolumes(s) \cup {"chain-data"}
  <2>1. CASE c = "volume-permissions"
    BY <2>1 DEF ContainerMounts
  <2>2. CASE c = "key-injector"
    BY <2>2 DEF ContainerMounts, Containers, BuildVolumes, When
  <2>3. CASE c = "node"
    BY <2>3 DEF ContainerMounts, MainContainerMounts, BuildVolumes, When
  <2>4. CASE c \notin {"volume-permissions", "key-injector", "node"}
    <3>1. ContainerMounts(s)[c] = {}
      BY <2>4 DEF ContainerMounts
    <3> QED BY <3>1
  <2> QED BY <2>1, <2>2, <2>3, <2>4
<1> QED BY <1>2, <1>3, <1>4, <1>5, <1>6, <1>7 DEF Confined

----------------------------------------------------------------------------
(* Objects *)

(* What the API server, ensureNodeWorkload and the garbage collector make of a
   StatefulSet is one. *)
LEMMA StsObjectSteps ==
  ASSUME NEW w \in StsObject
  PROVE  /\ Stored(w) \in StsObject
         /\ [w EXCEPT !.deleting = TRUE] \in StsObject
         /\ \A d \in StsObject : CopyMutableFields(w, d) \in StsObject
<1>1. Stored(w) \in StsObject
  <2> DEFINE v == [w.vct EXCEPT !.volumeMode = "Filesystem"]
  <2>1. [w EXCEPT !.vct.volumeMode = "Filesystem"] = [w EXCEPT !.vct = v]
    BY Zenon
  <2>2. w.vct \in [size : Nat, volumeMode : {"unset", "Filesystem"}]
    BY DEF StsObject
  <2>3. v \in [size : Nat, volumeMode : {"unset", "Filesystem"}]
    BY <2>2
  <2> HIDE DEF v
  <2> QED BY <2>1, <2>3 DEF Stored, StsObject
<1>2. [w EXCEPT !.deleting = TRUE] \in StsObject
  BY DEF StsObject
<1>3. ASSUME NEW d \in StsObject PROVE CopyMutableFields(w, d) \in StsObject
  BY DEF CopyMutableFields, StsObject
<1> QED BY <1>1, <1>2, <1>3

(* What Kubernetes makes of a pod is one. *)
LEMMA PodObjectSteps ==
  /\ \A t \in Built : [template |-> t, owned |-> TRUE, key |-> NoKey] \in PodObject
  /\ \A p \in PodObject : \A b \in BOOLEAN : [p EXCEPT !.owned = b] \in PodObject
  /\ \A p \in PodObject : \A k \in Hotkeys : [p EXCEPT !.key = k] \in PodObject
<1>1. \A t \in Built : [template |-> t, owned |-> TRUE, key |-> NoKey] \in PodObject
  BY DEF PodObject
<1>2. \A p \in PodObject : \A b \in BOOLEAN : [p EXCEPT !.owned = b] \in PodObject
  BY DEF PodObject
<1>3. \A p \in PodObject : \A k \in Hotkeys : [p EXCEPT !.key = k] \in PodObject
  BY DEF PodObject
<1> QED BY <1>1, <1>2, <1>3

(* The reconcile's copy is of an admitted spec, and what it wants follows. *)
LEMMA LocalSpec ==
  ASSUME LocalOK, NEW n \in Nodes, pc[n] # "idle"
  PROVE  /\ TheSpec(n) \in Admitted
         /\ Desired(n) \in StsObject
<1>1. TheSpec(n) \in Admitted
  <2>1. tn[n] \in Optional(Admitted) /\ tn[n] # {}
    BY DEF LocalOK
  <2>2. tn[n] \subseteq Admitted
    BY <2>1, OptionalCases
  <2> QED BY <2>1, <2>2 DEF TheSpec
<1>2. hash[n] \in Hotkeys \cup {""}
  BY DEF LocalOK
<1> QED BY <1>1, <1>2, DesiredType DEF Desired

(* A reconcile that ends or goes on. *)
LEMMA LocalSteps ==
  ASSUME LocalOK, NEW n \in Nodes, NEW from \in Steps,
         Return(n, from) \/ \E to \in Steps : from # "idle" /\ Proceed(n, from, to)
  PROVE  LocalOK'
<1>1. CASE Return(n, from)
  <2>1. {} \in Optional(Admitted) /\ "idle" \in Steps
    BY OptionalIntro DEF Steps
  <2> QED BY <1>1, <2>1 DEF Return, Goto, LocalOK
<1>2. ASSUME NEW to \in Steps, from # "idle", Proceed(n, from, to) PROVE LocalOK'
  BY <1>2 DEF Proceed, Goto, LocalOK
<1> QED BY <1>1, <1>2

(* The steps on the Lease keep its types. *)
LEMMA GuardTypes ==
  ASSUME GuardTypeOK, NEW n \in Nodes,
         \/ ReadLease(n) \/ Claims(n) \/ ClaimRefused(n) \/ ForgetRead(n)
         \/ RivalClaims(n) \/ LeaseExpires(n) \/ ReadExpires(n)
  PROVE  GuardTypeOK'
<1>0. lease[n] \in Optional(LeaseObject) /\ leaseRead[n] \in Optional(LeaseCopy)
  BY DEF GuardTypeOK
<1>1. {} \in Optional(LeaseCopy)
  BY OptionalIntro
<1>2. ASSUME NEW h \in Nodes \cup {Rival} PROVE Held(h) \in Optional(LeaseObject)
  <2>1. [holder |-> h, live |-> TRUE] \in LeaseObject
    BY DEF LeaseObject
  <2> QED BY <2>1, OptionalIntro DEF Held
<1>3. ASSUME NEW o \in Optional(LeaseObject)
      PROVE  {Expired(l) : l \in o} \in Optional(LeaseObject)
  <2>1. CASE o = {}
    <3>1. {Expired(l) : l \in o} = {}
      BY <2>1
    <3> QED BY <3>1, OptionalIntro
  <2>2. ASSUME NEW x \in LeaseObject, o = {x}
        PROVE  {Expired(l) : l \in o} \in Optional(LeaseObject)
    <3>1. {Expired(l) : l \in o} = {Expired(x)} /\ Expired(x) \in LeaseObject
      BY <2>2 DEF Expired, LeaseObject
    <3> QED BY <3>1, OptionalIntro
  <2> QED BY <2>1, <2>2, OptionalCases
<1>4. CASE ReadLease(n)
  <2>1. [found |-> lease[n], current |-> TRUE] \in LeaseCopy
    BY <1>0 DEF LeaseCopy
  <2>2. {[found |-> lease[n], current |-> TRUE]} \in Optional(LeaseCopy)
    BY <2>1, OptionalIntro
  <2> QED BY <1>4, <2>2 DEF ReadLease, GuardTypeOK
<1>5. CASE Claims(n)
  BY <1>1, <1>2, <1>5 DEF Claims, WriteLease, GuardTypeOK
<1>6. CASE ClaimRefused(n) \/ ForgetRead(n)
  BY <1>1, <1>6 DEF ClaimRefused, ForgetRead, GuardTypeOK
<1>7. CASE RivalClaims(n)
  <2>1. {Outdated(r) : r \in leaseRead[n]} \in Optional(LeaseCopy)
    <3>1. CASE leaseRead[n] = {}
      <4>1. {Outdated(r) : r \in leaseRead[n]} = {}
        BY <3>1
      <4> QED BY <1>1, <4>1
    <3>2. ASSUME NEW x \in LeaseCopy, leaseRead[n] = {x}
          PROVE  {Outdated(r) : r \in leaseRead[n]} \in Optional(LeaseCopy)
      <4>1. {Outdated(r) : r \in leaseRead[n]} = {Outdated(x)} /\ Outdated(x) \in LeaseCopy
        BY <3>2 DEF Outdated, LeaseCopy
      <4> QED BY <4>1, OptionalIntro
    <3> QED BY <1>0, <3>1, <3>2, OptionalCases
  <2> QED BY <1>2, <1>7, <2>1 DEF RivalClaims, GuardTypeOK
<1> DEFINE Past(r) == [r EXCEPT !.found = {Expired(l) : l \in @}]
<1>8. {Past(r) : r \in leaseRead[n]} \in Optional(LeaseCopy)
  <2>1. CASE leaseRead[n] = {}
    <3>1. {Past(r) : r \in leaseRead[n]} = {}
      BY <2>1
    <3> QED BY <1>1, <3>1
  <2>2. ASSUME NEW x \in LeaseCopy, leaseRead[n] = {x}
        PROVE  {Past(r) : r \in leaseRead[n]} \in Optional(LeaseCopy)
    <3>1. Past(x) \in LeaseCopy
      <4>1. x.found \in Optional(LeaseObject)
        BY DEF LeaseCopy
      <4> DEFINE e == {Expired(l) : l \in x.found}
      <4>2. e \in Optional(LeaseObject)
        BY <1>3, <4>1
      <4>3. Past(x) = [x EXCEPT !.found = e]
        BY Zenon
      <4> HIDE DEF e, Past
      <4> QED BY <4>2, <4>3 DEF LeaseCopy
    <3> HIDE DEF Past
    <3>2. {Past(r) : r \in leaseRead[n]} = {Past(x)}
      BY <2>2
    <3> QED BY <3>1, <3>2, OptionalIntro
  <2> HIDE DEF Past
  <2> QED BY <1>0, <2>1, <2>2, OptionalCases
<1>9. CASE LeaseExpires(n)
  <2>1. /\ lease' = [lease EXCEPT ![n] = {Expired(l) : l \in lease[n]}]
        /\ leaseRead' = [leaseRead EXCEPT ![n] = {Past(r) : r \in leaseRead[n]}]
    BY <1>9, Zenon DEF LeaseExpires
  <2>2. {Expired(l) : l \in lease[n]} \in Optional(LeaseObject)
    BY <1>0, <1>3
  <2> HIDE DEF Past
  <2> QED BY <1>8, <2>1, <2>2 DEF GuardTypeOK
<1>10. CASE ReadExpires(n)
  <2>1. /\ lease' = lease
        /\ leaseRead' = [leaseRead EXCEPT ![n] = {Past(r) : r \in leaseRead[n]}]
    BY <1>10, Zenon DEF ReadExpires
  <2> HIDE DEF Past
  <2> QED BY <1>8, <2>1 DEF GuardTypeOK
<1> QED BY <1>4, <1>5, <1>6, <1>7, <1>9, <1>10

----------------------------------------------------------------------------
(* The invariant *)

(* Bounded events. *)
LEMMA EventTypes ==
  ASSUME events \in 0 .. MaxEvents, CountEvent \/ UNCHANGED events
  PROVE  events' \in 0 .. MaxEvents
<1>1. MaxEvents \in Nat
  BY WorkloadAssumption
<1> QED BY <1>1 DEF CountEvent

(* A write to the StatefulSet. *)
LEMMA StsTypes ==
  ASSUME ClusterOK, GuardTypeOK, NEW n \in Nodes, NEW new \in Optional(StsObject),
         StsStep(n, new)
  PROVE  ClusterOK' /\ GuardTypeOK' /\ UNCHANGED events
<1>1. sts' \in [Nodes -> Optional(StsObject)]
  BY DEF StsStep, ClusterOK
<1> QED BY <1>1 DEF StsStep, ClusterOK, GuardTypeOK, guardVars

(* The StatefulSets deleted in the foreground of a replacement. *)
LEMMA MarkedForDeletion ==
  ASSUME NEW o \in Optional(StsObject)
  PROVE  {[w EXCEPT !.deleting = TRUE] : w \in o} \in Optional(StsObject)
<1>1. CASE o = {}
  <2>1. {[w EXCEPT !.deleting = TRUE] : w \in o} = {}
    BY <1>1
  <2> QED BY <2>1, OptionalIntro
<1>2. ASSUME NEW x \in StsObject, o = {x}
      PROVE  {[w EXCEPT !.deleting = TRUE] : w \in o} \in Optional(StsObject)
  <2>1. {[w EXCEPT !.deleting = TRUE] : w \in o} = {[x EXCEPT !.deleting = TRUE]}
    BY <1>2
  <2>2. [x EXCEPT !.deleting = TRUE] \in StsObject
    BY StsObjectSteps
  <2> QED BY <2>1, <2>2, OptionalIntro
<1> QED BY <1>1, <1>2, OptionalCases

(* The writes of ensureNodeWorkload: nothing, a new StatefulSet as desired, the
   old one marked for deletion, or updated to what is desired. *)
EnsureWrites(n) ==
  \/ StsStep(n, sts[n])
  \/ StsStep(n, {Stored(Desired(n))})
  \/ StsStep(n, {[w EXCEPT !.deleting = TRUE] : w \in sts[n]})
  \/ \E w \in sts[n] : StsStep(n, {CopyMutableFields(w, Desired(n))})

(* ensureNodeWorkload writes nothing else, and then goes on or returns. *)
LEMMA EnsureSteps ==
  ASSUME WorkloadInv, NEW n \in Nodes,
         \/ EnsureCreates(n) \/ EnsureDeletes(n) \/ EnsureAwaitsDeletion(n)
         \/ Recreate(n) \/ EnsureKeeps(n)
         \/ UpdateNotNeeded(n) \/ UpdateSucceeds(n) \/ UpdateFails(n)
  PROVE  pc[n] # "idle" /\ LocalOK' /\ EnsureWrites(n)
<1>1. LocalOK /\ {"ensure", "recreate", "update", "readLease"} \subseteq Steps
  BY DEF WorkloadInv, Steps
<1>2. ASSUME NEW from \in {"ensure", "recreate", "update"}, Ensured(n, from)
      PROVE  LocalOK'
  <2>1. Proceed(n, from, "readLease") \/ Return(n, from)
    BY <1>2 DEF Ensured
  <2>2. from \in Steps /\ "readLease" \in Steps /\ from # "idle"
    BY <1>1
  <2> QED BY <1>1, <2>1, <2>2, LocalSteps
<1>3. ASSUME NEW from \in {"ensure", "recreate", "update"}, Return(n, from) PROVE LocalOK'
  BY <1>1, <1>3, LocalSteps
<1>4. ASSUME NEW from \in {"ensure", "recreate", "update"}, CreateSts(n, from)
      PROVE  LocalOK' /\ EnsureWrites(n)
  BY <1>2, <1>3, <1>4 DEF CreateSts, EnsureWrites
<1>5. CASE EnsureCreates(n) \/ Recreate(n)
  BY <1>4, <1>5 DEF EnsureCreates, Recreate
<1>6. CASE EnsureDeletes(n) \/ EnsureAwaitsDeletion(n)
  <2>1. Proceed(n, "ensure", "recreate")
        /\ (StsStep(n, sts[n]) \/ StsStep(n, {[w EXCEPT !.deleting = TRUE] : w \in sts[n]}))
    BY <1>6 DEF EnsureDeletes, EnsureAwaitsDeletion
  <2>2. LocalOK'
    BY <1>1, <2>1, LocalSteps
  <2>3. pc[n] = "ensure"
    BY <2>1 DEF Proceed, Goto
  <2> QED BY <2>1, <2>2, <2>3 DEF EnsureWrites
<1>7. CASE EnsureKeeps(n)
  <2>1. Proceed(n, "ensure", "update") /\ StsStep(n, sts[n])
    BY <1>7 DEF EnsureKeeps
  <2>2. LocalOK'
    BY <1>1, <2>1, LocalSteps
  <2>3. pc[n] = "ensure"
    BY <2>1 DEF Proceed, Goto
  <2> QED BY <2>1, <2>2, <2>3 DEF EnsureWrites
<1>8. CASE UpdateNotNeeded(n) \/ UpdateSucceeds(n)
  <2>1. pc[n] = "update" /\ Ensured(n, "update")
    BY <1>8 DEF UpdateNotNeeded, UpdateSucceeds
  <2>2. EnsureWrites(n)
    BY <1>8 DEF UpdateNotNeeded, UpdateSucceeds, EnsureWrites
  <2> QED BY <1>2, <2>1, <2>2
<1>9. CASE UpdateFails(n)
  <2>1. Return(n, "update") /\ StsStep(n, sts[n])
    BY <1>9 DEF UpdateFails
  <2>2. pc[n] = "update"
    BY <2>1 DEF Return, Goto
  <2> QED BY <1>3, <2>1, <2>2 DEF EnsureWrites
<1> QED BY <1>5, <1>6, <1>7, <1>8, <1>9

(* ... so that what is written is a StatefulSet. *)
LEMMA EnsureTypes ==
  ASSUME WorkloadInv, NEW n \in Nodes, pc[n] # "idle", EnsureWrites(n)
  PROVE  ClusterOK' /\ GuardTypeOK' /\ UNCHANGED events
<1>1. Desired(n) \in StsObject
  BY LocalSpec DEF WorkloadInv
<1>2. ClusterOK /\ GuardTypeOK /\ sts[n] \in Optional(StsObject)
  BY DEF WorkloadInv, ClusterOK
<1>3. sts[n] \subseteq StsObject
  BY <1>2, OptionalCases
<1>4. CASE StsStep(n, sts[n])
  BY <1>2, <1>4, StsTypes
<1>5. CASE StsStep(n, {Stored(Desired(n))})
  <2>1. {Stored(Desired(n))} \in Optional(StsObject)
    BY <1>1, StsObjectSteps, OptionalIntro
  <2> QED BY <1>2, <1>5, <2>1, StsTypes
<1>6. CASE StsStep(n, {[w EXCEPT !.deleting = TRUE] : w \in sts[n]})
  <2>1. {[w EXCEPT !.deleting = TRUE] : w \in sts[n]} \in Optional(StsObject)
    BY <1>2, MarkedForDeletion
  <2> QED BY <1>2, <1>6, <2>1, StsTypes
<1>7. ASSUME NEW w \in sts[n], StsStep(n, {CopyMutableFields(w, Desired(n))})
      PROVE  ClusterOK' /\ GuardTypeOK' /\ UNCHANGED events
  <2>1. {CopyMutableFields(w, Desired(n))} \in Optional(StsObject)
    BY <1>1, <1>3, <1>7, StsObjectSteps, OptionalIntro
  <2> QED BY <1>2, <1>7, <2>1, StsTypes
<1> QED BY <1>4, <1>5, <1>6, <1>7 DEF EnsureWrites

(* The steps of a reconcile keep the invariant. *)
LEMMA ReconcileKeeps ==
  ASSUME WorkloadInv, NEW n \in Nodes, Reconcile(n)
  PROVE  WorkloadInv'
<1> USE DEF guardVars, cluster, local
<1>1. CASE Fetch(n)
  <2>1. spec[n] \in Admitted
    BY DEF WorkloadInv, ClusterOK
  <2>2. {LabelsForNode(n, spec[n])} \in Optional(Labels)
    <3>1. LabelsForNode(n, spec[n]) \in LabelsFor(n)
      BY <2>1 DEF LabelsFor
    <3>2. LabelsForNode(n, spec[n]) \in Labels
      BY <3>1 DEF Labels
    <3> QED BY <3>2, OptionalIntro
  <2>3. (IF rbac THEN {spec[n]} ELSE {}) \in Optional(Admitted)
    BY <2>1, OptionalIntro
  <2>4. ClusterOK'
    BY <1>1, <2>2 DEF Fetch, ClusterOK, WorkloadInv
  <2>5. LocalOK'
    <3>1. "hotkey" \in Steps /\ "idle" \in Steps
      BY DEF Steps
    <3> QED BY <1>1, <2>3, <3>1 DEF Fetch, Goto, LocalOK, WorkloadInv
  <2> QED BY <1>1, <2>4, <2>5 DEF Fetch, WorkloadInv, GuardTypeOK
<1>2. CASE HotkeyValid(n)
  <2> DEFINE h == IF TheSpec(n).role = "subtensor" THEN "" ELSE secret[n]
  <2>1. h \in Hotkeys \cup {""}
    BY <1>2 DEF HotkeyValid, WorkloadInv, ClusterOK
  <2>2. "ensure" \in Steps /\ pc[n] = "hotkey" /\ pc' = [pc EXCEPT ![n] = "ensure"]
        /\ hash' = [hash EXCEPT ![n] = h] /\ tn' = tn
    BY <1>2 DEF HotkeyValid, Goto, Steps
  <2> HIDE DEF h
  <2>3. LocalOK'
    BY <2>1, <2>2 DEF LocalOK, WorkloadInv
  <2> QED BY <1>2, <2>3
          DEF HotkeyValid, WorkloadInv, ClusterOK, GuardTypeOK
<1>3. CASE HotkeyInvalid(n)
  <2>1. LocalOK'
    BY <1>3, LocalSteps DEF HotkeyInvalid, WorkloadInv, Steps
  <2> QED BY <1>3, <2>1
          DEF HotkeyInvalid, WorkloadInv, ClusterOK, GuardTypeOK
<1>4. CASE \/ EnsureCreates(n) \/ EnsureDeletes(n) \/ EnsureAwaitsDeletion(n)
           \/ Recreate(n) \/ EnsureKeeps(n)
           \/ UpdateNotNeeded(n) \/ UpdateSucceeds(n) \/ UpdateFails(n)
  BY <1>4, EnsureSteps, EnsureTypes DEF WorkloadInv
<1>5. CASE SingletonReads(n)
  <2>1. LocalOK'
    BY <1>5, LocalSteps DEF SingletonReads, WorkloadInv, Steps
  <2>2. GuardTypeOK'
    BY <1>5, GuardTypes DEF SingletonReads, WorkloadInv
  <2> QED BY <1>5, <2>1, <2>2
          DEF SingletonReads, WorkloadInv, ClusterOK
<1>6. CASE SingletonClaims(n)
  <2>1. LocalOK'
    BY <1>6, LocalSteps DEF SingletonClaims, WorkloadInv, Steps
  <2>2. GuardTypeOK'
    BY <1>6, GuardTypes DEF SingletonClaims, WorkloadInv
  <2> QED BY <1>6, <2>1, <2>2
          DEF SingletonClaims, WorkloadInv, ClusterOK
<1>7. CASE SingletonCordons(n)
  <2>1. LocalOK'
    BY <1>7, LocalSteps DEF SingletonCordons, WorkloadInv, Steps
  <2>2. GuardTypeOK'
    BY <1>7, GuardTypes DEF SingletonCordons, WorkloadInv
  <2>3. pod' \in [Nodes -> Optional(PodObject)]
    BY <1>7, OptionalIntro DEF SingletonCordons, WorkloadInv, ClusterOK
  <2> QED BY <1>7, <2>1, <2>2, <2>3
          DEF SingletonCordons, WorkloadInv, ClusterOK
<1> QED BY <1>1, <1>2, <1>3, <1>4, <1>5, <1>6, <1>7 DEF Reconcile

(* Users, faults and Kubernetes keep the invariant. *)
LEMMA EnvironmentKeeps ==
  ASSUME WorkloadInv, NEW n \in Nodes,
         \/ CallFails(n) \/ PodLost(n) \/ UserEdits(n) \/ SecretChanges(n)
         \/ CreatePod(n) \/ AdoptPod(n) \/ ReplacePod(n) \/ InjectKey(n)
         \/ CollectOrphans(n) \/ DeliverSts(n) \/ LeaseEnvironment(n)
  PROVE  WorkloadInv'
<1> USE DEF guardVars, cluster, local
<1>0. /\ GuardTypeOK /\ ClusterOK /\ LocalOK /\ events \in 0 .. MaxEvents
      /\ sts[n] \in Optional(StsObject) /\ pod[n] \in Optional(PodObject)
      /\ {} \in Optional(PodObject) /\ {} \in Optional(StsObject)
  BY OptionalIntro DEF WorkloadInv, ClusterOK
<1>1. sts[n] \subseteq StsObject /\ pod[n] \subseteq PodObject
  BY <1>0, OptionalCases
<1>2. CASE CallFails(n)
  <2>1. LocalOK'
    BY <1>0, <1>2, LocalSteps DEF CallFails, LocalOK
  <2>2. GuardTypeOK' /\ events' \in 0 .. MaxEvents
    BY <1>0, <1>2, GuardTypes, EventTypes DEF CallFails
  <2> QED BY <1>0, <1>2, <2>1, <2>2
          DEF CallFails, WorkloadInv, ClusterOK
<1>3. CASE PodLost(n)
  <2>1. events' \in 0 .. MaxEvents
    BY <1>0, <1>3, EventTypes DEF PodLost
  <2>2. ClusterOK'
    BY <1>0, <1>3 DEF PodLost, ClusterOK
  <2> QED BY <1>0, <1>3, <2>1, <2>2
          DEF PodLost, WorkloadInv, GuardTypeOK, LocalOK
<1>4. CASE UserEdits(n)
  <2>1. events' \in 0 .. MaxEvents
    BY <1>0, <1>4, EventTypes DEF UserEdits
  <2>2. PICK s \in Submissions : ValidateUpdate(spec[n], s) /\ spec' = [spec EXCEPT ![n] = s]
    BY <1>4 DEF UserEdits
  <2>3. s \in Admitted
    BY <2>2 DEF ValidateUpdate, Admitted
  <2>4. ClusterOK'
    BY <1>0, <1>4, <2>2, <2>3 DEF UserEdits, ClusterOK
  <2> QED BY <1>0, <1>4, <2>1, <2>4
          DEF UserEdits, WorkloadInv, GuardTypeOK, LocalOK
<1>5. CASE SecretChanges(n)
  <2>1. events' \in 0 .. MaxEvents
    BY <1>0, <1>5, EventTypes DEF SecretChanges
  <2>2. ClusterOK'
    BY <1>0, <1>5 DEF SecretChanges, ClusterOK
  <2> QED BY <1>0, <1>5, <2>1, <2>2
          DEF SecretChanges, WorkloadInv, GuardTypeOK, LocalOK
<1>6. ASSUME NEW new \in Optional(PodObject), PodStep(n, new)
      PROVE  WorkloadInv'
  <2>1. ClusterOK'
    BY <1>0, <1>6 DEF PodStep, ClusterOK
  <2> QED BY <1>0, <1>6, <2>1
          DEF PodStep, WorkloadInv, GuardTypeOK, LocalOK
<1>7. CASE CreatePod(n)
  <2>1. PICK w \in sts[n] :
          PodStep(n, {[template |-> w.template, owned |-> TRUE, key |-> NoKey]})
    BY <1>7 DEF CreatePod
  <2>2. w.template \in Built
    BY <1>1, <2>1 DEF StsObject
  <2>3. {[template |-> w.template, owned |-> TRUE, key |-> NoKey]} \in Optional(PodObject)
    BY <2>2, PodObjectSteps, OptionalIntro
  <2> QED BY <1>6, <2>1, <2>3
<1>8. CASE AdoptPod(n)
  <2>1. PICK p \in pod[n] : PodStep(n, {[p EXCEPT !.owned = TRUE]})
    BY <1>8 DEF AdoptPod
  <2>2. [p EXCEPT !.owned = TRUE] \in PodObject
    BY <1>1, <2>1, PodObjectSteps
  <2>3. {[p EXCEPT !.owned = TRUE]} \in Optional(PodObject)
    BY <2>2, OptionalIntro
  <2> QED BY <1>6, <2>1, <2>3
<1>9. CASE ReplacePod(n)
  BY <1>0, <1>6, <1>9 DEF ReplacePod
<1>10. CASE InjectKey(n)
  <2>1. PICK p \in pod[n] : secret[n] # NoKey /\ PodStep(n, {[p EXCEPT !.key = secret[n]]})
    BY <1>10 DEF InjectKey
  <2>2. secret[n] \in Hotkeys
    BY <1>0, <2>1 DEF ClusterOK
  <2>3. [p EXCEPT !.key = secret[n]] \in PodObject
    BY <1>1, <2>1, <2>2, PodObjectSteps
  <2>4. {[p EXCEPT !.key = secret[n]]} \in Optional(PodObject)
    BY <2>3, OptionalIntro
  <2> QED BY <1>6, <2>1, <2>4
<1>11. CASE CollectOrphans(n)
  <2> DEFINE orphans == {[p EXCEPT !.owned = FALSE] : p \in pod[n]}
  <2>1. sts' = [sts EXCEPT ![n] = {}] /\ pod' = [pod EXCEPT ![n] = orphans]
    BY <1>11 DEF CollectOrphans
  <2>2. orphans \in Optional(PodObject)
    <3>1. CASE pod[n] = {}
      <4>1. orphans = {}
        BY <3>1
      <4> QED BY <1>0, <4>1
    <3>2. ASSUME NEW x \in PodObject, pod[n] = {x} PROVE orphans \in Optional(PodObject)
      <4>1. orphans = {[x EXCEPT !.owned = FALSE]}
        BY <3>2
      <4>2. [x EXCEPT !.owned = FALSE] \in PodObject
        BY PodObjectSteps
      <4> QED BY <4>1, <4>2, OptionalIntro
    <3> QED BY <1>0, <3>1, <3>2, OptionalCases
  <2> HIDE DEF orphans
  <2>3. ClusterOK'
    BY <1>0, <1>11, <2>1, <2>2 DEF CollectOrphans, ClusterOK
  <2> QED BY <1>0, <1>11, <2>3
          DEF CollectOrphans, WorkloadInv, GuardTypeOK, LocalOK
<1>12. CASE DeliverSts(n)
  <2>1. ClusterOK'
    BY <1>0, <1>12 DEF DeliverSts, ClusterOK
  <2> QED BY <1>0, <1>12, <2>1
          DEF DeliverSts, WorkloadInv, GuardTypeOK, LocalOK
<1>13. CASE LeaseEnvironment(n)
  <2>1. GuardTypeOK' /\ events' \in 0 .. MaxEvents
    BY <1>0, <1>13, GuardTypes, EventTypes DEF LeaseEnvironment
  <2> QED BY <1>0, <1>13, <2>1
          DEF LeaseEnvironment, WorkloadInv, ClusterOK, LocalOK
<1> QED BY <1>2, <1>3, <1>4, <1>5, <1>7, <1>8, <1>9, <1>10, <1>11, <1>12, <1>13

(* WorkloadInv is inductive. *)
LEMMA WorkloadAlways == Spec => []WorkloadInv
<1>1. Init => WorkloadInv
  <2> SUFFICES ASSUME Init PROVE WorkloadInv
    OBVIOUS
  <2>1. GuardTypeOK
    BY OptionalIntro DEF Init, GuardInit, GuardTypeOK
  <2>2. ClusterOK
    <3>1. InitialKey \in Hotkeys \cup {NoKey}
      BY WorkloadAssumption
    <3> QED BY <3>1, OptionalIntro DEF Init, ClusterOK, Admitted
  <2>3. LocalOK
    BY OptionalIntro DEF Init, LocalOK, Steps
  <2>4. events \in 0 .. MaxEvents
    <3>1. MaxEvents \in Nat
      BY WorkloadAssumption
    <3>2. events = 0
      BY DEF Init
    <3> QED BY <3>1, <3>2
  <2> QED BY <2>1, <2>2, <2>3, <2>4 DEF WorkloadInv
<1>2. WorkloadInv /\ [Next]_vars => WorkloadInv'
  <2> SUFFICES ASSUME WorkloadInv, [Next]_vars PROVE WorkloadInv'
    OBVIOUS
  <2>1. CASE OperatorRestart
    <3>1. LocalOK'
      BY <2>1, OptionalIntro DEF OperatorRestart, LocalOK, Steps
    <3>2. GuardTypeOK'
      BY <2>1, OptionalIntro DEF OperatorRestart, GuardTypeOK, WorkloadInv
    <3>3. ClusterOK' /\ events' \in 0 .. MaxEvents
      BY <2>1, EventTypes DEF OperatorRestart, ClusterOK, WorkloadInv
    <3> QED BY <2>1, <3>1, <3>2, <3>3
            DEF OperatorRestart, WorkloadInv
  <2>2. CASE RoleApplied
    BY <2>2 DEF RoleApplied, WorkloadInv, ClusterOK, LocalOK, GuardTypeOK, guardVars,
       local
  <2>3. CASE UNCHANGED vars
    BY <2>3 DEF vars, cluster, local, guardVars, WorkloadInv, ClusterOK, LocalOK,
       GuardTypeOK
  <2> QED BY <2>1, <2>2, <2>3, ReconcileKeeps, EnvironmentKeeps DEF Next
<1> QED BY <1>1, <1>2, PTL DEF Spec

----------------------------------------------------------------------------
(* What follows *)

(* There is at most one of each: one Service, StatefulSet and pod per node. *)
THEOREM TypeCorrect == Spec => []TypeOK
<1>1. WorkloadInv => TypeOK
  <2> SUFFICES ASSUME WorkloadInv PROVE TypeOK
    OBVIOUS
  <2>1. ASSUME NEW n \in Nodes
        PROVE  \A f \in {service, sts, seen, pod} : Cardinality(f[n]) <= 1
    <3>1. /\ service[n] \in Optional(Labels) /\ sts[n] \in Optional(StsObject)
          /\ seen[n] \in Optional(StsObject) /\ pod[n] \in Optional(PodObject)
      BY DEF WorkloadInv, ClusterOK
    <3>2. /\ Cardinality(service[n]) <= 1 /\ Cardinality(sts[n]) <= 1
          /\ Cardinality(seen[n]) <= 1 /\ Cardinality(pod[n]) <= 1
      BY <3>1, OptionalCases
    <3> QED BY <3>2
  <2>2. spec \in [Nodes -> Submissions]
    BY DEF WorkloadInv, ClusterOK, Admitted
  <2>3. tn \in [Nodes -> Optional(Submissions)]
    <3>1. Optional(Admitted) \subseteq Optional(Submissions)
      BY DEF Optional, Admitted
    <3> QED BY <3>1 DEF WorkloadInv, LocalOK
  <2> QED BY <2>1, <2>2, <2>3 DEF WorkloadInv, ClusterOK, LocalOK, TypeOK
<1> QED BY <1>1, WorkloadAlways, PTL

(* In every StatefulSet and pod the cluster ever has, key material is confined:
   for every set of submissions, whatever role changes and rotations race. *)
THEOREM KeyMaterialConfinedAlways == Spec => []KeyMaterialConfined
<1>1. WorkloadInv => KeyMaterialConfined
  <2> SUFFICES ASSUME WorkloadInv, NEW t \in Templates PROVE Confined(t)
    BY DEF KeyMaterialConfined, Confined
  <2>1. PICK n \in Nodes :
          t \in {w.template : w \in sts[n]} \cup {p.template : p \in pod[n]}
    BY DEF Templates
  <2>2. sts[n] \subseteq StsObject /\ pod[n] \subseteq PodObject
    <3>1. sts[n] \in Optional(StsObject) /\ pod[n] \in Optional(PodObject)
      BY DEF WorkloadInv, ClusterOK
    <3> QED BY <3>1, OptionalCases
  <2>3. t \in Built
    BY <2>1, <2>2 DEF StsObject, PodObject
  <2> QED BY <2>3, BuiltConfined
<1> QED BY <1>1, WorkloadAlways, PTL

----------------------------------------------------------------------------
(* The Lease *)

(* What a step may do to the Leases, node by node. *)
LeaseStep(n) ==
  \/ ReadLease(n) \/ Claims(n) \/ ClaimRefused(n) \/ ForgetRead(n)
  \/ RivalClaims(n) \/ LeaseExpires(n) \/ ReadExpires(n)

(* Every other step leaves the Leases alone, but a restart forgets what was read. *)
LEMMA LeaseSteps ==
  ASSUME [Next]_vars
  PROVE  \/ \E n \in Nodes : LeaseStep(n)
         \/ UNCHANGED guardVars
         \/ UNCHANGED lease /\ leaseRead' = [n \in Nodes |-> {}]
<1>1. ASSUME NEW n \in Nodes, Reconcile(n) PROVE LeaseStep(n) \/ UNCHANGED guardVars
  <2>1. CASE SingletonReads(n) \/ SingletonClaims(n) \/ SingletonCordons(n)
    BY <2>1 DEF SingletonReads, SingletonClaims, SingletonCordons, LeaseStep
  <2>2. CASE Fetch(n) \/ HotkeyValid(n) \/ HotkeyInvalid(n)
    BY <2>2 DEF Fetch, HotkeyValid, HotkeyInvalid
  <2>3. CASE \/ EnsureCreates(n) \/ EnsureDeletes(n) \/ EnsureAwaitsDeletion(n)
             \/ Recreate(n) \/ EnsureKeeps(n)
             \/ UpdateNotNeeded(n) \/ UpdateSucceeds(n) \/ UpdateFails(n)
    BY <2>3 DEF EnsureCreates, EnsureDeletes, EnsureAwaitsDeletion, Recreate, CreateSts,
       EnsureKeeps, UpdateNotNeeded, UpdateSucceeds, UpdateFails, StsStep
  <2> QED BY <1>1, <2>1, <2>2, <2>3 DEF Reconcile
<1>2. ASSUME NEW n \in Nodes, CallFails(n) \/ LeaseEnvironment(n) PROVE LeaseStep(n)
  BY <1>2 DEF CallFails, LeaseEnvironment, LeaseStep
<1>3. ASSUME NEW n \in Nodes,
             \/ PodLost(n) \/ UserEdits(n) \/ SecretChanges(n)
             \/ CreatePod(n) \/ AdoptPod(n) \/ ReplacePod(n) \/ InjectKey(n)
             \/ CollectOrphans(n) \/ DeliverSts(n)
      PROVE  UNCHANGED guardVars
  BY <1>3 DEF PodLost, UserEdits, SecretChanges, CreatePod, AdoptPod, ReplacePod,
     InjectKey, CollectOrphans, DeliverSts, PodStep
<1>4. CASE OperatorRestart
  BY <1>4 DEF OperatorRestart
<1>5. CASE RoleApplied \/ UNCHANGED vars
  BY <1>5 DEF RoleApplied, vars
<1> QED BY <1>1, <1>2, <1>3, <1>4, <1>5 DEF Next

(* A step on the Lease of n keeps LeaseInv and takes nothing from a live rival. *)
LEMMA LeaseStepKeeps ==
  ASSUME GuardTypeOK, LeaseInv, NEW n \in Nodes, LeaseStep(n)
  PROVE  /\ LeaseInv'
         /\ \A m \in Nodes : RivalHolds(m) => \A l \in lease'[m] : l.live => l.holder = Rival
<1> DEFINE Kept(m) == RivalHolds(m) => \A l \in lease'[m] : l.live => l.holder = Rival
           Right(m) == \A r \in leaseRead[m] : r.current => r.found = lease[m]
<1>0. lease[n] \in Optional(LeaseObject) /\ leaseRead[n] \in Optional(LeaseCopy)
  BY DEF GuardTypeOK
<1>1. ASSUME NEW m \in Nodes, m # n PROVE lease'[m] = lease[m] /\ leaseRead'[m] = leaseRead[m]
  BY <1>1 DEF LeaseStep, ReadLease, Claims, ClaimRefused, ForgetRead, RivalClaims,
     LeaseExpires, ReadExpires, WriteLease, GuardTypeOK
<1>2. ASSUME NEW m \in Nodes, m # n
      PROVE  Kept(m) /\ \A r \in leaseRead'[m] : r.current => r.found = lease'[m]
  BY <1>1, <1>2 DEF RivalHolds, Held, LeaseInv
<1>3. leaseRead[n] \subseteq LeaseCopy /\ lease[n] \subseteq LeaseObject
      /\ (leaseRead[n] = {} \/ \E x \in LeaseCopy : leaseRead[n] = {x})
  BY <1>0, OptionalCases
<1>4. ASSUME lease' = lease PROVE Kept(n)
  BY <1>4 DEF RivalHolds, Held
<1>5. Kept(n) /\ \A r \in leaseRead'[n] : r.current => r.found = lease'[n]
  <2>1. CASE ReadLease(n)
    BY <1>4, <2>1 DEF ReadLease, GuardTypeOK
  <2>2. CASE ClaimRefused(n) \/ ForgetRead(n)
    BY <1>4, <2>2 DEF ClaimRefused, ForgetRead, GuardTypeOK
  <2>3. CASE Claims(n)
    <3>1. PICK r \in leaseRead[n] : /\ r.current
                                    /\ \A l \in r.found : l.holder = n \/ ~l.live
                                    /\ WriteLease(n, Held(n))
      BY <2>3 DEF Claims
    <3>2. r.found = lease[n]
      BY <3>1 DEF LeaseInv
    <3>3. ~RivalHolds(n)
      <4> SUFFICES ASSUME RivalHolds(n) PROVE FALSE
        OBVIOUS
      <4> DEFINE l == [holder |-> Rival, live |-> TRUE]
      <4>1. l \in r.found /\ l.holder = Rival /\ l.live
        BY <3>2 DEF RivalHolds, Held
      <4>2. l.holder = n \/ ~l.live
        BY <3>1, <4>1
      <4> QED BY <4>1, <4>2, GuardAssumption
    <3> QED BY <3>1, <3>3 DEF WriteLease, GuardTypeOK
  <2>4. CASE RivalClaims(n)
    <3>1. lease'[n] = Held(Rival) /\ leaseRead'[n] = {Outdated(r) : r \in leaseRead[n]}
      BY <2>4 DEF RivalClaims, GuardTypeOK
    <3>2. \A r \in leaseRead[n] : ~Outdated(r).current
      BY <1>3 DEF Outdated, LeaseCopy
    <3>3. \A l \in Held(Rival) : l.holder = Rival
      BY DEF Held
    <3> QED BY <3>1, <3>2, <3>3
  <2>5. CASE LeaseExpires(n)
    <3> DEFINE Past(r) == [r EXCEPT !.found = {Expired(l) : l \in r.found}]
    <3>1. lease'[n] = {Expired(l) : l \in lease[n]}
          /\ leaseRead'[n] = {Past(r) : r \in leaseRead[n]}
      <4>1. lease' = [lease EXCEPT ![n] = {Expired(l) : l \in lease[n]}]
            /\ leaseRead' = [leaseRead EXCEPT ![n] = {Past(r) : r \in leaseRead[n]}]
        BY <2>5, Zenon DEF LeaseExpires
      <4> HIDE DEF Past
      <4> QED BY <4>1 DEF GuardTypeOK
    <3>2. \A l \in lease[n] : ~Expired(l).live
      BY <1>3 DEF Expired, LeaseObject
    <3>3. ASSUME NEW r \in leaseRead[n]
          PROVE  Past(r).current = r.current /\ Past(r).found = {Expired(l) : l \in r.found}
      BY <1>3 DEF LeaseCopy
    <3> HIDE DEF Past
    <3>4. ASSUME NEW r \in leaseRead[n], Past(r).current PROVE Past(r).found = lease'[n]
      <4>1. r.found = lease[n]
        BY <3>3, <3>4 DEF LeaseInv
      <4> QED BY <3>1, <3>3, <4>1
    <3> QED BY <3>1, <3>2, <3>4
  <2>6. CASE ReadExpires(n)
    <3> DEFINE Past(r) == [r EXCEPT !.found = {Expired(l) : l \in r.found}]
    <3>1. lease' = lease /\ leaseRead'[n] = {Past(r) : r \in leaseRead[n]}
      <4>1. lease' = lease
            /\ leaseRead' = [leaseRead EXCEPT ![n] = {Past(r) : r \in leaseRead[n]}]
        BY <2>6, Zenon DEF ReadExpires
      <4> HIDE DEF Past
      <4> QED BY <4>1 DEF GuardTypeOK
    <3>2. \A r \in leaseRead[n] : ~r.current
      BY <1>3, <2>6 DEF ReadExpires
    <3>3. \A r \in leaseRead[n] : ~Past(r).current
      BY <1>3, <3>2 DEF LeaseCopy
    <3> HIDE DEF Past
    <3> QED BY <1>4, <3>1, <3>3
  <2> QED BY <2>1, <2>2, <2>3, <2>4, <2>5, <2>6 DEF LeaseStep
<1>6. ASSUME NEW m \in Nodes
      PROVE  Kept(m) /\ \A r \in leaseRead'[m] : r.current => r.found = lease'[m]
  BY <1>2, <1>5
<1> QED BY <1>6 DEF LeaseInv

(* The operator never takes a Lease from a holder that is alive, although it
   decides on a Lease read earlier: the resourceVersion it writes under is what
   LeaseInv says it is. *)
THEOREM LiveLeaseRespectedAlways == Spec => LiveLeaseRespected
<1> DEFINE Step == \A n \in Nodes : RivalHolds(n)
                     => \A l \in lease'[n] : l.live => l.holder = Rival
<1>1. Init => LeaseInv
  BY DEF Init, GuardInit, LeaseInv
<1>2. WorkloadInv /\ LeaseInv /\ [Next]_vars => LeaseInv' /\ Step
  <2> SUFFICES ASSUME WorkloadInv, LeaseInv, [Next]_vars PROVE LeaseInv' /\ Step
    OBVIOUS
  <2>1. ASSUME lease' = lease PROVE Step
    BY <2>1 DEF RivalHolds, Held
  <2>2. ASSUME NEW n \in Nodes, LeaseStep(n) PROVE LeaseInv' /\ Step
    BY <2>2, LeaseStepKeeps DEF WorkloadInv
  <2>3. CASE UNCHANGED guardVars
    BY <2>1, <2>3 DEF guardVars, LeaseInv
  <2>4. CASE UNCHANGED lease /\ leaseRead' = [n \in Nodes |-> {}]
    BY <2>1, <2>4 DEF LeaseInv
  <2> QED BY <2>2, <2>3, <2>4, LeaseSteps
<1> HIDE DEF Step
<1>3. WorkloadInv /\ LeaseInv /\ [Next]_vars => [Step]_vars
  BY <1>2
<1>4. Spec => [][Step]_vars
  BY <1>1, <1>2, <1>3, WorkloadAlways, PTL DEF Spec
<1> QED BY <1>4 DEF LiveLeaseRespected, Step
============================================================================
