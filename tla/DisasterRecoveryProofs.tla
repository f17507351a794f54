---------------------- MODULE DisasterRecoveryProofs ----------------------
(***************************************************************************)
(* Proofs about backup, failover and restore: a restore never takes back   *)
(* what the webhook declares immutable.                                    *)
(***************************************************************************)
EXTENDS DisasterRecovery, TLAPS

----------------------------------------------------------------------------
(***************************************************************************)
(* The inductive invariant                                                 *)
(***************************************************************************)

(* TypeOK, with the optional values in the form the steps preserve. *)
KubeType ==
  /\ cluster \in {"up", "lost"}
  /\ operator \in {"absent", "down", "up"}
  /\ crd \in {"absent", "applied", "established"}
  /\ live \in [Names -> Optional(TaoNode)]

StoreType ==
  /\ store \in [0 .. MaxClock -> Optional(Backup)]
  /\ clock \in 0 .. MaxClock
  /\ pending \in Optional(Backup)

ToolType ==
  /\ wanted \in Optional(Request)
  /\ restore \in {"idle", "crds", "wait", "nodes"}
  /\ manifest \in Optional(Backup)
  /\ \A e \in todo : \E b \in manifest : e \in b.nodes

FailoverType ==
  /\ failover \in {"idle", "plan", "apply"}
  /\ events \in 0 .. MaxEvents

DRInv == KubeType /\ StoreType /\ ToolType /\ FailoverType

----------------------------------------------------------------------------
(***************************************************************************)
(* Facts about optional values and backups                                 *)
(***************************************************************************)

(* What is in an optional value. *)
LEMMA OptionalValues ==
  ASSUME NEW S
  PROVE  /\ {} \in Optional(S)
         /\ \A x \in S : {x} \in Optional(S)
         /\ \A f \in Optional(S) : f \subseteq S /\ \A x, y \in f : x = y
         /\ \A f \in Optional(S) : \A x \in f : f = {x}
  BY DEF Optional

(* Listing TaoNodes makes a backup. *)
LEMMA ListingIsBackup ==
  ASSUME NEW nodes, NEW c \in BOOLEAN
  PROVE  {[crd |-> c, nodes |-> Entries(nodes)]} \in Optional(Backup)
<1>1. Entries(nodes) \in SUBSET Entry
  BY DEF Entries
<1>2. [crd |-> c, nodes |-> Entries(nodes)] \in Backup
  <2> DEFINE N == Entries(nodes)
  <2>1. N \in SUBSET Entry
    BY <1>1
  <2> HIDE DEF N
  <2>2. [crd |-> c, nodes |-> N] \in Backup
    BY <2>1 DEF Backup
  <2> QED
    BY <2>2 DEF N
<1> QED
  BY <1>2, OptionalValues

(* The bound on events. *)
LEMMA CountEventType ==
  ASSUME FailoverType, CountEvent
  PROVE  events' \in 0 .. MaxEvents
  BY RecoveryAssumption DEF FailoverType, CountEvent

----------------------------------------------------------------------------
(***************************************************************************)
(* The steps                                                               *)
(***************************************************************************)

(* Backups: what is stored was listed. *)
LEMMA BackupPreserves ==
  ASSUME DRInv, CliLists \/ Upload \/ UploadFails
  PROVE  DRInv'
<1> USE DEF DRInv
<1>0. /\ UNCHANGED <<kube, tool, clock, failover>>
      /\ events' \in 0 .. MaxEvents
  BY CountEventType DEF CliLists, Upload, UploadFails, FailoverType
<1>1. KubeType' /\ ToolType' /\ FailoverType'
  BY <1>0 DEF kube, tool, KubeType, ToolType, FailoverType
<1>2. {} \in Optional(Backup)
  BY OptionalValues
<1>3. StoreType'
  <2>1. CASE CliLists
    <3>1. PICK c \in BOOLEAN : pending' = {[crd |-> c, nodes |-> Entries(live)]}
      BY <2>1 DEF CliLists
    <3>2. {[crd |-> c, nodes |-> Entries(live)]} \in Optional(Backup)
      BY ListingIsBackup
    <3> QED
      BY <2>1, <3>1, <3>2 DEF StoreType, CliLists
  <2>2. CASE Upload \/ UploadFails
    BY <1>2, <2>2 DEF StoreType, Upload, UploadFails
  <2> QED
    BY <2>1, <2>2
<1> QED
  BY <1>1, <1>3

(* The restore command, up to its second phase. *)
LEMMA PreparationPreserves ==
  ASSUME DRInv, ChooseRestore \/ StartRestore \/ ApplyCRDs \/ WaitCRDEstablished
  PROVE  DRInv'
<1> USE DEF DRInv
<1>1. CASE ChooseRestore
  <2> USE <1>1 DEF ChooseRestore, kube
  <2>1. wanted' \in Optional(Request)
    BY OptionalValues
  <2>2. events' \in 0 .. MaxEvents
    BY DEF FailoverType
  <2>3. KubeType' /\ StoreType' /\ ToolType' /\ FailoverType'
    BY <2>1, <2>2 DEF KubeType, StoreType, ToolType, FailoverType
  <2> QED
    BY <2>3
<1>2. CASE StartRestore
  <2>0. PICK r \in wanted : \E b \in store[r.key] :
          /\ restore' = IF b.crd THEN "crds" ELSE "nodes"
          /\ manifest' = {b}
          /\ todo' = b.nodes
    BY <1>2 DEF StartRestore
  <2>1. PICK b \in store[r.key] :
          /\ restore' = IF b.crd THEN "crds" ELSE "nodes"
          /\ manifest' = {b}
          /\ todo' = b.nodes
    BY <2>0
  <2>2. UNCHANGED <<kube, wanted, store, clock, pending, failover, events>>
    BY <1>2 DEF StartRestore
  <2>3. r.key \in 0 .. MaxClock
    <3>1. r \in Request
      BY OptionalValues DEF ToolType
    <3> QED
      BY <3>1 DEF Request
  <2>4. {b} \in Optional(Backup)
    BY <2>3, OptionalValues DEF StoreType
  <2>5. KubeType' /\ StoreType' /\ FailoverType'
    BY <2>2 DEF kube, KubeType, StoreType, FailoverType
  <2>6. ToolType'
    BY <2>1, <2>2, <2>4 DEF ToolType
  <2> QED
    BY <2>5, <2>6
<1>3. CASE ApplyCRDs
  <2> USE <1>3 DEF ApplyCRDs, Proceed
  <2> QED
    BY DEF KubeType, StoreType, ToolType, FailoverType
<1>4. CASE WaitCRDEstablished
  <2> USE <1>4 DEF WaitCRDEstablished, Proceed, kube
  <2> QED
    BY DEF KubeType, StoreType, ToolType, FailoverType
<1> QED
  BY <1>1, <1>2, <1>3, <1>4

(* The end of the command, successful or not. *)
LEMMA EndPreserves ==
  ASSUME DRInv, ApplyFails \/ RestoreComplete \/ RestoreFails
  PROVE  DRInv'
<1> USE DEF DRInv
<1>0. /\ UNCHANGED <<kube, store, clock, pending, failover>>
      /\ restore' = "idle" /\ manifest' = {} /\ todo' = {}
      /\ wanted' \in {wanted, {}}
      /\ events' \in 0 .. MaxEvents
  BY CountEventType DEF ApplyFails, RestoreComplete, RestoreFails, Abort, FailoverType
<1>1. {} \in Optional(Request) /\ {} \in Optional(Backup)
  BY OptionalValues
<1> QED
  BY <1>0, <1>1 DEF kube, KubeType, StoreType, ToolType, FailoverType

(* Applying an entry leaves one TaoNode: the spec that is merged is one of those a
   TaoNode may be given. *)
LEMMA ResultType ==
  ASSUME KubeType, NEW e \in Entry
  PROVE  Result(e) \in Optional(TaoNode)
<1>1. e.name \in Names /\ e.spec \in Submissions
  BY DEF Entry
<1>2. live[e.name] \in Optional(TaoNode)
  BY <1>1 DEF KubeType
<1>3. CASE live[e.name] = {}
  <2>1. CreatedBy({}, e.spec) \in TaoNode
    BY <1>1 DEF CreatedBy, TaoNode
  <2> QED
    BY <1>3, <2>1, OptionalValues DEF Result
<1>4. CASE live[e.name] # {}
  <2>1. PICK x \in TaoNode : live[e.name] = {x}
    BY <1>2, <1>4 DEF Optional
  <2>2. /\ x.spec \in Submissions /\ x.users \in SUBSET Fields
        /\ x.deleting \in BOOLEAN
    BY DEF TaoNode
  <2> DEFINE m == Merged(x.spec, e.spec, x.users)
             u == x.users \ {f \in Differing(x.spec, e.spec) : IsSet(e.spec, f)}
  <2>3. m \in Submissions
    BY <1>1, <2>2, RecoveryAssumption
  <2>4. u \in SUBSET Fields
    BY <2>2
  <2>5. Applied(x, e) = [spec |-> m, deleting |-> x.deleting, users |-> u]
    BY DEF Applied
  <2> HIDE DEF m, u
  <2>6. Applied(x, e) \in TaoNode
    BY <2>2, <2>3, <2>4, <2>5 DEF TaoNode
  <2>7. Result(e) = {Applied(x, e)}
    BY <2>1 DEF Result
  <2> QED
    BY <2>6, <2>7, OptionalValues
<1> QED
  BY <1>3, <1>4

(* The second phase. *)
LEMMA ApplyNodePreserves ==
  ASSUME DRInv, ApplyNode
  PROVE  DRInv'
<1> USE DEF DRInv
<1>0. UNCHANGED <<cluster, operator, crd, wanted, restore, manifest, store, clock, pending,
                  failover, events>>
  BY DEF ApplyNode
<1>1. PICK e \in todo : live' = [live EXCEPT ![e.name] = Result(e)] /\ todo' = todo \ {e}
  BY DEF ApplyNode
<1>2. PICK b \in manifest : e \in b.nodes
  BY DEF ToolType
<1>3. b \in Backup
  BY OptionalValues DEF ToolType
<1>4. e \in Entry
  BY <1>2, <1>3 DEF Backup
<1>5. live' \in [Names -> Optional(TaoNode)]
  BY <1>1, <1>4, ResultType DEF KubeType
<1>6. KubeType' /\ StoreType' /\ FailoverType'
  BY <1>0, <1>5 DEF KubeType, StoreType, FailoverType
<1>7. ToolType'
  BY <1>0, <1>1 DEF ToolType
<1> QED
  BY <1>6, <1>7

(* Failover changes the cluster and its own place only. *)
LEMMA FailoverPreserves ==
  ASSUME DRInv, FailoverCommand \/ FailoverFails
  PROVE  DRInv'
<1> USE DEF DRInv
<1>0. /\ UNCHANGED <<operator, crd, live, tool, store, clock, pending>>
      /\ failover' \in {"idle", "plan", "apply"} /\ cluster' \in {"up", "lost"}
      /\ events' \in 0 .. MaxEvents
  BY CountEventType DEF FailoverCommand, FailoverInit, FailoverPlan, FailoverApply,
    FailoverStep, FailoverFails, kube, KubeType, FailoverType
<1> QED
  BY <1>0 DEF tool, KubeType, StoreType, ToolType, FailoverType

(* A TaoNode changes. *)
LEMMA ChangeLivePreserves ==
  ASSUME DRInv, NEW n \in Names, NEW new \in Optional(TaoNode), ChangeLive(n, new),
         events' \in 0 .. MaxEvents
  PROVE  DRInv'
<1>1. live' \in [Names -> Optional(TaoNode)]
  BY DEF ChangeLive, DRInv, KubeType
<1> QED
  BY <1>1 DEF ChangeLive, tool, DRInv, KubeType, StoreType, ToolType, FailoverType

(* What a user makes of a TaoNode. *)
LEMMA UserResultType ==
  ASSUME NEW old \in Optional(TaoNode), NEW s \in Submissions
  PROVE  (IF old = {} THEN {CreatedBy(Fields, s)}
          ELSE {CreatedBy(x.users \cup Differing(x.spec, s), s) : x \in old})
           \in Optional(TaoNode)
<1>1. ASSUME NEW F \in SUBSET Fields PROVE CreatedBy(F, s) \in TaoNode
  BY DEF CreatedBy, TaoNode
<1>2. CASE old = {}
  BY <1>1, <1>2, OptionalValues
<1>3. CASE old # {}
  <2>1. PICK x \in TaoNode : old = {x}
    BY <1>3 DEF Optional
  <2>2. x.users \cup Differing(x.spec, s) \in SUBSET Fields
    BY DEF TaoNode, Differing
  <2>3. CreatedBy(x.users \cup Differing(x.spec, s), s) \in TaoNode
    BY <1>1, <2>2
  <2>4. {CreatedBy(y.users \cup Differing(y.spec, s), s) : y \in old}
          = {CreatedBy(x.users \cup Differing(x.spec, s), s)}
    BY <2>1
  <2>5. (IF old = {} THEN {CreatedBy(Fields, s)}
         ELSE {CreatedBy(y.users \cup Differing(y.spec, s), s) : y \in old})
          = {CreatedBy(x.users \cup Differing(x.spec, s), s)}
    BY <1>3, <2>4, Zenon
  <2>6. {CreatedBy(x.users \cup Differing(x.spec, s), s)} \in Optional(TaoNode)
    BY <2>3, OptionalValues
  <2> QED
    BY <2>5, <2>6, Zenon
<1> QED
  BY <1>2, <1>3

(* Users and the finalizer. *)
LEMMA UsersPreserve ==
  ASSUME DRInv, NEW n \in Names, UserApplies(n) \/ UserDeletes(n) \/ Finalized(n)
  PROVE  DRInv'
<1>0. events' \in 0 .. MaxEvents /\ live[n] \in Optional(TaoNode)
  BY CountEventType DEF DRInv, KubeType, FailoverType, UserApplies, UserDeletes, Finalized
<1>1. CASE UserApplies(n)
  <2> DEFINE New(s) == IF live[n] = {} THEN {CreatedBy(Fields, s)}
                       ELSE {CreatedBy(x.users \cup Differing(x.spec, s), s) : x \in live[n]}
  <2>1. PICK s \in Submissions : ChangeLive(n, New(s))
    BY <1>1 DEF UserApplies
  <2>2. New(s) \in Optional(TaoNode)
    BY <1>0, UserResultType
  <2> HIDE DEF New
  <2> QED
    BY <1>0, <2>1, <2>2, ChangeLivePreserves
<1>2. CASE UserDeletes(n)
  <2>1. PICK x \in live[n] : ChangeLive(n, {[x EXCEPT !.deleting = TRUE]})
    BY <1>2 DEF UserDeletes
  <2>2. x \in TaoNode
    BY <1>0, OptionalValues
  <2>3. [x EXCEPT !.deleting = TRUE] \in TaoNode
    BY <2>2 DEF TaoNode
  <2> DEFINE new == {[x EXCEPT !.deleting = TRUE]}
  <2>4. new \in Optional(TaoNode) /\ ChangeLive(n, new)
    BY <2>1, <2>3, OptionalValues
  <2> HIDE DEF new
  <2> QED
    BY <1>0, <2>4, ChangeLivePreserves
<1>3. CASE Finalized(n)
  <2>1. {} \in Optional(TaoNode) /\ ChangeLive(n, {})
    BY <1>3, OptionalValues DEF Finalized
  <2> QED
    BY <1>0, <2>1, ChangeLivePreserves
<1> QED
  BY <1>1, <1>2, <1>3

(* Operator, CRD and clock. *)
LEMMA OperatorPreserves ==
  ASSUME DRInv, OperatorStarts \/ OperatorStops \/ Establish \/ Tick
  PROVE  DRInv'
<1>1. /\ UNCHANGED <<cluster, live, tool, store, pending, failover>>
      /\ operator' \in {"absent", "down", "up"} /\ crd' \in {"absent", "applied", "established"}
  BY DEF OperatorStarts, OperatorStops, Establish, Tick, kube, DRInv, KubeType
<1>2. events' \in 0 .. MaxEvents
  BY CountEventType DEF OperatorStarts, OperatorStops, Establish, Tick, DRInv, FailoverType
<1>3. clock' \in 0 .. MaxClock
  BY RecoveryAssumption DEF OperatorStarts, OperatorStops, Establish, Tick, DRInv, StoreType
<1> QED
  BY <1>1, <1>2, <1>3 DEF tool, DRInv, KubeType, StoreType, ToolType, FailoverType

(* A disaster ends the commands with everything else. *)
LEMMA DisasterPreserves ==
  ASSUME DRInv, Disaster
  PROVE  DRInv'
<1> USE DEF DRInv, Disaster, Abort
<1>0. events' \in 0 .. MaxEvents
  BY CountEventType
<1>1. {} \in Optional(TaoNode) /\ {} \in Optional(Backup)
  BY OptionalValues
<1> QED
  BY <1>0, <1>1 DEF NoNodes, KubeType, StoreType, ToolType, FailoverType

----------------------------------------------------------------------------
(***************************************************************************)
(* The theorems                                                            *)
(***************************************************************************)

(* The invariant holds before the first backup. *)
LEMMA DRInvInit == Init => DRInv
<1> SUFFICES ASSUME Init PROVE DRInv
  OBVIOUS
<1> USE DEF Init
<1>1. CreatedBy(Fields, InitialSpec) \in TaoNode
  BY RecoveryAssumption DEF CreatedBy, TaoNode
<1>2. {CreatedBy(Fields, InitialSpec)} \in Optional(TaoNode)
  BY <1>1, OptionalValues
<1>3. {} \in Optional(Backup) /\ {} \in Optional(Request)
  BY OptionalValues
<1>4. 0 \in 0 .. MaxClock /\ 0 \in 0 .. MaxEvents
  BY RecoveryAssumption
<1>5. KubeType
  BY <1>2 DEF KubeType
<1>6. StoreType /\ ToolType /\ FailoverType
  BY <1>3, <1>4 DEF StoreType, ToolType, FailoverType
<1> QED
  BY <1>5, <1>6 DEF DRInv

(* Every step preserves the invariant, one case per group of actions. *)
LEMMA DRInvStep == DRInv /\ [Next]_vars => DRInv'
<1> SUFFICES ASSUME DRInv, [Next]_vars PROVE DRInv'
  OBVIOUS
<1>1. CASE CliLists \/ Upload \/ UploadFails
  BY <1>1, BackupPreserves
<1>2. CASE ChooseRestore \/ StartRestore \/ ApplyCRDs \/ WaitCRDEstablished
  BY <1>2, PreparationPreserves
<1>3. CASE ApplyNode
  BY <1>3, ApplyNodePreserves
<1>4. CASE ApplyFails \/ RestoreComplete \/ RestoreFails
  BY <1>4, EndPreserves
<1>5. CASE FailoverCommand \/ FailoverFails
  BY <1>5, FailoverPreserves
<1>6. CASE \E n \in Names : UserApplies(n) \/ UserDeletes(n) \/ Finalized(n)
  BY <1>6, UsersPreserve
<1>7. CASE OperatorStarts \/ OperatorStops \/ Establish \/ Tick
  BY <1>7, OperatorPreserves
<1>8. CASE Disaster
  BY <1>8, DisasterPreserves
<1>9. CASE UNCHANGED vars
  BY <1>9 DEF vars, kube, tool, DRInv, KubeType, StoreType, ToolType, FailoverType
<1> QED
  BY <1>1, <1>2, <1>3, <1>4, <1>5, <1>6, <1>7, <1>8, <1>9 DEF Next, RestoreCommand

(* The invariant of tao-dr, cluster and users, in all their interleavings,
   failures and disasters. *)
LEMMA DRInvAlways == Spec => []DRInv
  BY DRInvInit, DRInvStep, PTL DEF Spec

(* Every variable keeps its type; what is left to apply is part of the backup that
   was downloaded. *)
THEOREM TypeCorrect == Spec => []TypeOK
<1>1. DRInv => TypeOK
  <2> SUFFICES ASSUME DRInv PROVE TypeOK
    OBVIOUS
  <2> USE DEF DRInv
  <2>1. ASSUME NEW S, NEW f \in Optional(S) PROVE f \subseteq S /\ AtMostOne(f)
    BY <2>1, OptionalValues DEF AtMostOne
  <2>2. /\ live \in [Names -> SUBSET TaoNode] /\ \A n \in Names : AtMostOne(live[n])
        /\ store \in [0 .. MaxClock -> SUBSET Backup]
        /\ \A t \in 0 .. MaxClock : AtMostOne(store[t])
    BY <2>1 DEF KubeType, StoreType
  <2>3. /\ pending \subseteq Backup /\ AtMostOne(pending)
        /\ manifest \subseteq Backup /\ AtMostOne(manifest)
        /\ wanted \subseteq Request /\ AtMostOne(wanted)
    BY <2>1 DEF StoreType, ToolType
  <2>4. todo \subseteq UNION {b.nodes : b \in manifest}
    BY DEF ToolType
  <2> QED
    BY <2>2, <2>3, <2>4 DEF TypeOK, KubeType, StoreType, ToolType, FailoverType
<1> QED
  BY <1>1, DRInvAlways, PTL

(* Every size in the cluster is a number. *)
LEMMA SizesAreNumbers ==
  ASSUME DRInv, NEW n \in Names, NEW x \in live[n]
  PROVE  x \in TaoNode /\ live[n] = {x} /\ x.spec.size \in Nat
<1>1. live[n] \in Optional(TaoNode)
  BY DEF DRInv, KubeType
<1>2. x \in TaoNode /\ live[n] = {x}
  BY <1>1, OptionalValues
<1>3. x.spec \in Submissions
  BY <1>2 DEF TaoNode
<1> QED
  BY <1>2, <1>3, RecoveryAssumption DEF IsTaoNodeSpec

(* What the webhook of an operator lets pass keeps the immutable fields. *)
LEMMA AdmittedKeepsImmutables ==
  ASSUME DRInv, operator # "absent", NEW n, NEW s, WebhookAdmits(n, s), NEW x \in live[n]
  PROVE  s.size >= x.spec.size /\ s.network = x.spec.network
<1>1. operator = "up"
  BY DEF WebhookAdmits, DRInv, KubeType
<1>2. ValidateUpdate(x.spec, s)
  BY <1>1 DEF WebhookAdmits
<1> QED
  BY <1>2 DEF ValidateUpdate, ValidateImmutableFields

(* In a cluster that has the operator, neither a restore, forced or not, nor a user
   shrinks a chain volume or moves a TaoNode to another network. *)
THEOREM ImmutablesSurviveRestoreAlways == Spec => ImmutablesSurviveRestore
<1>1. ASSUME DRInv, [Next]_vars, operator # "absent",
             NEW n \in Names, NEW x \in live[n], NEW y \in live'[n]
      PROVE  y.spec.size >= x.spec.size /\ y.spec.network = x.spec.network
  <2> USE <1>1
  <2>0. x \in TaoNode /\ live[n] = {x} /\ x.spec.size \in Nat
    BY SizesAreNumbers
  <2>1. CASE ApplyNode
    <3>1. PICK e \in todo : ~Refused(e) /\ live' = [live EXCEPT ![e.name] = Result(e)]
      BY <2>1 DEF ApplyNode
    <3>2. CASE e.name = n
      <4>1. y \in Result(e)
        BY <3>1, <3>2 DEF DRInv, KubeType
      <4>2. WebhookAdmits(n, y.spec)
        BY <3>1, <3>2, <4>1 DEF Refused
      <4> QED
        BY <4>2, AdmittedKeepsImmutables
    <3>3. CASE e.name # n
      <4>1. y = x
        BY <2>0, <3>1, <3>3 DEF DRInv, KubeType
      <4> QED
        BY <2>0, <4>1
    <3> QED
      BY <3>2, <3>3
  <2>2. ASSUME NEW m \in Names, UserApplies(m) \/ UserDeletes(m) \/ Finalized(m)
        PROVE  y.spec.size >= x.spec.size /\ y.spec.network = x.spec.network
    <3>1. CASE m # n
      <4>1. live'[n] = live[n]
        BY <2>2, <3>1 DEF UserApplies, UserDeletes, Finalized, ChangeLive, DRInv, KubeType
      <4> QED
        BY <2>0, <4>1
    <3>2. CASE m = n /\ UserApplies(m)
      <4>1. PICK s \in Submissions :
              /\ WebhookAdmits(n, s)
              /\ live' = [live EXCEPT ![n] =
                   {CreatedBy(z.users \cup Differing(z.spec, s), s) : z \in live[n]}]
        BY <2>0, <3>2 DEF UserApplies, ChangeLive
      <4>2. y.spec = s
        BY <4>1 DEF CreatedBy, DRInv, KubeType
      <4> QED
        BY <4>1, <4>2, AdmittedKeepsImmutables
    <3>3. CASE m = n /\ UserDeletes(m)
      <4>1. PICK z \in live[n] : ChangeLive(n, {[z EXCEPT !.deleting = TRUE]})
        BY <3>3 DEF UserDeletes
      <4>2. y = [x EXCEPT !.deleting = TRUE]
        BY <2>0, <4>1 DEF ChangeLive, DRInv, KubeType
      <4>3. y.spec = x.spec
        BY <2>0, <4>2 DEF TaoNode
      <4> QED
        BY <2>0, <4>3
    <3>4. CASE m = n /\ Finalized(m)
      BY <3>4 DEF Finalized, ChangeLive, DRInv, KubeType
    <3> QED
      BY <2>2, <3>1, <3>2, <3>3, <3>4
  <2>3. CASE Disaster
    BY <2>3 DEF Disaster, NoNodes
  <2>4. CASE live' = live
    BY <2>0, <2>4
  <2>5. \/ ApplyNode \/ Disaster \/ live' = live
        \/ \E m \in Names : UserApplies(m) \/ UserDeletes(m) \/ Finalized(m)
    BY DEF Next, CliLists, Upload, UploadFails, ChooseRestore,
      RestoreCommand, StartRestore, ApplyCRDs, WaitCRDEstablished, ApplyFails,
      RestoreComplete, RestoreFails, FailoverCommand, FailoverInit, FailoverPlan,
      FailoverApply, FailoverStep, FailoverFails, OperatorStarts, OperatorStops,
      Establish, Tick, vars, kube
  <2> QED
    BY <2>1, <2>2, <2>3, <2>4, <2>5
<1>2. ASSUME DRInv, [Next]_vars
      PROVE  [operator # "absent" =>
                \A n \in Names : \A x \in live[n], y \in live'[n] :
                  y.spec.size >= x.spec.size /\ y.spec.network = x.spec.network]_vars
  BY <1>1, <1>2
<1> QED
  BY <1>2, DRInvAlways, PTL DEF Spec, ImmutablesSurviveRestore
===========================================================================
