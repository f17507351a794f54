-------------------------- MODULE DisasterRecovery -------------------------
(***************************************************************************)
(* Backup, failover and restore of the TaoNodes of a cluster: the         *)
(* commands of tao-dr (tools/tao-dr).  Users go on editing and deleting    *)
(* TaoNodes meanwhile; the whole cluster may be lost.                      *)
(*                                                                         *)
(* A backup is the set of the TaoNodes listed, stripped to name and spec,  *)
(* with or without the CRD, stored under the second of its upload: two     *)
(* backups of the same second overwrite each other.  A dry run and the     *)
(* status command change nothing and are left out, as are the namespace    *)
(* flags.  So is the DR runner of the operator: the store that main.go     *)
(* gives it only logs, and no backup of it ever reaches a bucket.          *)
(***************************************************************************)
EXTENDS Admission

CONSTANTS
  Names,        \* names of TaoNodes
  Submissions,  \* the specs TaoNodes may be given, by users or by merging
  InitialSpec,  \* the spec all TaoNodes have at first
  MaxClock,     \* bound on the time
  MaxEvents     \* bound on backups, users' changes, failing calls and disasters,
                \* together

(* The fields of a spec, and the optional ones as they are when they are not set
   and so not in the JSON of a backup. *)
Unset  == [image |-> "", maxSize |-> {}, validator |-> {}, gpu |-> {},
           monitoring |-> FALSE, analytics |-> {}]
Fields == {"network", "subnetID", "role", "size"} \cup DOMAIN Unset

IsSet(s, f) == f \in DOMAIN Unset => s[f] # Unset[f]

Differing(s, t) == {f \in Fields : s[f] # t[f]}

(* External: what server-side apply makes of the old spec.  A field that is not in
   the applied one stays, if others own it, and is removed otherwise. *)
Merged(old, new, others) ==
  [f \in Fields |-> IF ~IsSet(new, f) /\ f \in others THEN old[f] ELSE new[f]]

ASSUME RecoveryAssumption ==
  /\ \A s \in Submissions : IsTaoNodeSpec(s)
  /\ \A s, t \in Submissions : \A F \in SUBSET Fields : Merged(s, t, F) \in Submissions
  /\ InitialSpec \in Submissions /\ ValidateCreate(InitialSpec)
  /\ MaxClock \in Nat /\ MaxEvents \in Nat

VARIABLES
  cluster,   \* "up" or "lost"
  operator,  \* "absent", "down" or "up"; its webhook is there unless absent
  crd,       \* the TaoNode CRD: "absent", "applied" or "established"
  live,      \* [Names -> optional TaoNode]
  store,     \* [seconds -> optional backup]: the bucket
  clock,
  pending,   \* optional backup: listed and not yet uploaded
  wanted,    \* the restore the administrator is after, until it succeeds
  restore,   \* where the restore command is
  manifest,  \* the backup it has downloaded
  todo,      \* the TaoNodes of the manifest it has not applied yet
  failover,  \* where the failover command is
  events

kube  == <<cluster, operator, crd, live>>
tool  == <<wanted, restore, manifest, todo>>
vars  == <<kube, tool, store, clock, pending, failover, events>>

(* users: the fields of the spec that field managers other than tao-dr own. *)
TaoNode == [spec : Submissions, users : SUBSET Fields, deleting : BOOLEAN]
Entry   == [name : Names, spec : Submissions]
Backup  == [crd : BOOLEAN, nodes : SUBSET Entry]
Request == [key : 0 .. MaxClock, force : BOOLEAN]

AtMostOne(S) == \A x, y \in S : x = y

TypeOK ==
  /\ cluster \in {"up", "lost"}
  /\ operator \in {"absent", "down", "up"}
  /\ crd \in {"absent", "applied", "established"}
  /\ live \in [Names -> SUBSET TaoNode]
  /\ store \in [0 .. MaxClock -> SUBSET Backup]
  /\ clock \in 0 .. MaxClock
  /\ pending \subseteq Backup
  /\ wanted \subseteq Request
  /\ restore \in {"idle", "crds", "wait", "nodes"}
  /\ manifest \subseteq Backup
  /\ \A n \in Names : AtMostOne(live[n])
  /\ \A t \in 0 .. MaxClock : AtMostOne(store[t])
  /\ AtMostOne(pending) /\ AtMostOne(wanted) /\ AtMostOne(manifest)
  /\ todo \subseteq UNION {b.nodes : b \in manifest}
  /\ failover \in {"idle", "plan", "apply"}
  /\ events \in 0 .. MaxEvents

NoNodes == [n \in Names |-> {}]

CreatedBy(users, s) == [spec |-> s, users |-> users, deleting |-> FALSE]

Init ==
  /\ cluster = "up" /\ operator = "up" /\ crd = "established"
  /\ live = [n \in Names |-> {CreatedBy(Fields, InitialSpec)}]
  /\ store = [t \in 0 .. MaxClock |-> {}]
  /\ clock = 0
  /\ pending = {}
  /\ wanted = {} /\ restore = "idle" /\ manifest = {} /\ todo = {}
  /\ failover = "idle"
  /\ events = 0

CountEvent == events < MaxEvents /\ events' = events + 1

----------------------------------------------------------------------------
(* Backups *)

(* A TaoNode in a backup has neither identity, finalizers nor deletion time. *)
Entries(nodes) == {e \in Entry : \E x \in nodes[e.name] : x.spec = e.spec}

(* tao-dr backup lists the cluster, and adds the CRD if it can get it. *)
CliLists ==
  /\ CountEvent
  /\ cluster = "up" /\ crd = "established" /\ pending = {}
  /\ \E c \in BOOLEAN : pending' = {[crd |-> c, nodes |-> Entries(live)]}
  /\ UNCHANGED <<kube, tool, store, clock, failover>>

Upload ==
  /\ pending # {}
  /\ store' = [store EXCEPT ![clock] = pending]
  /\ pending' = {}
  /\ UNCHANGED <<kube, tool, clock, failover, events>>

(* The command fails, and leaves the bucket as it is. *)
UploadFails ==
  /\ CountEvent
  /\ pending # {} /\ pending' = {}
  /\ UNCHANGED <<kube, tool, store, clock, failover>>

----------------------------------------------------------------------------
(* tao-dr restore *)

(* The administrator picks a backup and repeats the command until it succeeds. *)
ChooseRestore ==
  /\ wanted = {}
  /\ \E r \in Request : store[r.key] # {} /\ wanted' = {r}
  /\ UNCHANGED <<kube, store, clock, pending, restore, manifest, todo, failover, events>>

(* Download, decompress, validate and parse.  An empty backup is an error. *)
StartRestore ==
  /\ restore = "idle" /\ cluster = "up"
  /\ \E r \in wanted : \E b \in store[r.key] :
       /\ b.crd \/ b.nodes # {}
       /\ restore' = IF b.crd THEN "crds" ELSE "nodes"
       /\ manifest' = {b}
       /\ todo' = b.nodes
  /\ UNCHANGED <<kube, wanted, store, clock, pending, failover, events>>

(* Mutant: what was left to do is kept. *)
AbortKeepsTodo ==
  /\ restore' = "idle" /\ manifest' = {}
  /\ UNCHANGED <<wanted, todo>>

Abort ==
  /\ restore' = "idle" /\ manifest' = {} /\ todo' = {}
  /\ UNCHANGED wanted

Proceed(step) ==
  /\ restore' = step
  /\ UNCHANGED <<wanted, manifest, todo>>

(* Phase 1 *)
ApplyCRDs ==
  /\ restore = "crds"
  /\ crd' = IF crd = "absent" THEN "applied" ELSE crd
  /\ Proceed("wait")
  /\ UNCHANGED <<cluster, operator, live, store, clock, pending, failover, events>>

CRDEstablished == crd = "established"

WaitCRDEstablished ==
  /\ restore = "wait" /\ CRDEstablished
  /\ Proceed("nodes")
  /\ UNCHANGED <<kube, store, clock, pending, failover, events>>

(* Phase 2: applyResource.  External: server-side apply refuses to change a field
   that another manager owns, unless forced; the webhook validates the merged
   spec, and without the operator behind it refuses everything. *)
Applied(x, e) ==
  [spec |-> Merged(x.spec, e.spec, x.users), deleting |-> x.deleting,
   users |-> x.users \ {f \in Differing(x.spec, e.spec) : IsSet(e.spec, f)}]

Conflicts(e, force) ==
  ~force /\ \E x \in live[e.name] : Applied(x, e).users # x.users

WebhookAdmits(n, s) ==
  CASE operator = "absent" -> TRUE
    [] operator = "down"   -> FALSE
    [] OTHER -> IF live[n] = {} THEN ValidateCreate(s)
                ELSE \A x \in live[n] : ValidateUpdate(x.spec, s)

(* The TaoNode that an entry makes of the one there is, if any. *)
Result(e) ==
  IF live[e.name] = {} THEN {CreatedBy({}, e.spec)} ELSE {Applied(x, e) : x \in live[e.name]}

(* Mutant: TaoNodes are created, not applied. *)
RefusedIfExists(e) ==
  crd # "established" \/ live[e.name] # {} \/ ~WebhookAdmits(e.name, e.spec)

Refused(e) ==
  \/ crd # "established"
  \/ \E r \in wanted : Conflicts(e, r.force)
  \/ \E y \in Result(e) : ~WebhookAdmits(e.name, y.spec)

ApplyNode ==
  /\ restore = "nodes"
  /\ \E e \in todo :
       /\ ~Refused(e)
       /\ live' = [live EXCEPT ![e.name] = Result(e)]
       /\ todo' = todo \ {e}
  /\ UNCHANGED <<cluster, operator, crd, wanted, restore, manifest, store, clock, pending,
                 failover, events>>

(* The first error ends the command. *)
ApplyFails ==
  /\ restore = "nodes"
  /\ \E e \in todo : Refused(e)
  /\ Abort
  /\ UNCHANGED <<kube, store, clock, pending, failover, events>>

RestoreComplete ==
  /\ restore = "nodes" /\ todo = {}
  /\ restore' = "idle" /\ manifest' = {} /\ wanted' = {}
  /\ UNCHANGED <<kube, todo, store, clock, pending, failover, events>>

(* A call fails, or 90 s pass before the CRD is established. *)
RestoreFails ==
  /\ CountEvent
  /\ restore # "idle" /\ Abort
  /\ UNCHANGED <<kube, store, clock, pending, failover>>

RestoreCommand ==
  \/ StartRestore \/ ApplyCRDs \/ WaitCRDEstablished
  \/ ApplyNode \/ ApplyFails \/ RestoreComplete

----------------------------------------------------------------------------
(* tao-dr failover: init, plan, and apply of the plan that was saved.  A plan
   without changes, impossible when the cluster is lost, ends the command, as a
   dry run does. *)

FailoverStep(from, to) ==
  /\ failover = from /\ failover' = to
  /\ UNCHANGED <<operator, crd, live, tool, store, clock, pending, events>>

FailoverInit == cluster = "lost" /\ FailoverStep("idle", "plan") /\ UNCHANGED cluster
FailoverPlan == FailoverStep("plan", "apply") /\ UNCHANGED cluster
FailoverApply == FailoverStep("apply", "idle") /\ cluster' = "up"

FailoverFails ==
  /\ CountEvent
  /\ failover # "idle" /\ failover' = "idle"
  /\ UNCHANGED <<kube, tool, store, clock, pending>>

FailoverCommand == FailoverInit \/ FailoverPlan \/ FailoverApply

----------------------------------------------------------------------------
(* The cluster and its users *)

ChangeLive(n, new) ==
  /\ live' = [live EXCEPT ![n] = new]
  /\ UNCHANGED <<cluster, operator, crd, tool, store, clock, pending, failover>>

(* What a user changes the user owns. *)
UserApplies(n) ==
  /\ CountEvent
  /\ crd = "established"
  /\ \E s \in Submissions :
       /\ WebhookAdmits(n, s)
       /\ \A x \in live[n] : x.spec # s /\ ~x.deleting
       /\ ChangeLive(n, IF live[n] = {} THEN {CreatedBy(Fields, s)}
                        ELSE {CreatedBy(x.users \cup Differing(x.spec, s), s) : x \in live[n]})

UserDeletes(n) ==
  /\ CountEvent
  /\ \E x \in live[n] : ~x.deleting /\ ChangeLive(n, {[x EXCEPT !.deleting = TRUE]})

(* The operator removes its finalizer. *)
Finalized(n) ==
  /\ operator = "up"
  /\ \E x \in live[n] : x.deleting
  /\ ChangeLive(n, {})
  /\ UNCHANGED events

(* Helm installs CRD, webhook and operator, or the operator restarts. *)
OperatorStarts ==
  /\ cluster = "up" /\ operator # "up"
  /\ operator' = "up" /\ crd' = "established"
  /\ UNCHANGED <<cluster, live, tool, store, clock, pending, failover, events>>

OperatorStops ==
  /\ CountEvent
  /\ operator = "up" /\ operator' = "down"
  /\ UNCHANGED <<cluster, crd, live, tool, store, clock, pending, failover>>

Establish ==
  /\ crd = "applied" /\ crd' = "established"
  /\ UNCHANGED <<cluster, operator, live, tool, store, clock, pending, failover, events>>

(* The cluster is lost with everything in it; commands under way fail. *)
Disaster ==
  /\ CountEvent
  /\ cluster = "up" /\ cluster' = "lost"
  /\ operator' = "absent" /\ crd' = "absent" /\ live' = NoNodes
  /\ pending' = {}
  /\ Abort
  /\ UNCHANGED <<store, clock, failover>>

Tick ==
  /\ clock < MaxClock /\ clock' = clock + 1
  /\ UNCHANGED <<kube, tool, store, pending, failover, events>>

Next ==
  \/ CliLists \/ Upload \/ UploadFails
  \/ ChooseRestore \/ RestoreCommand \/ RestoreFails
  \/ FailoverCommand \/ FailoverFails
  \/ \E n \in Names : UserApplies(n) \/ UserDeletes(n) \/ Finalized(n)
  \/ OperatorStarts \/ OperatorStops \/ Establish \/ Disaster \/ Tick

Spec == Init /\ [][Next]_vars

(* Kubernetes establishes CRDs and restarts the operator, which finalizes what is
   deleted; the administrator repeats a command that has failed. *)
FairSpec ==
  /\ Spec
  /\ WF_vars(\E n \in Names : Finalized(n))
  /\ WF_vars(OperatorStarts) /\ WF_vars(Establish)
  /\ WF_vars(RestoreCommand) /\ WF_vars(FailoverCommand)

----------------------------------------------------------------------------
(***************************************************************************)
(* Properties                                                              *)
(***************************************************************************)

(* Restoring an older backup never takes back what the webhook declares
   immutable: no chain volume shrinks and no TaoNode changes its network, not even
   by force, in a cluster that has the operator. *)
ImmutablesSurviveRestore ==
  [][operator # "absent" =>
       \A n \in Names : \A x \in live[n], y \in live'[n] :
         y.spec.size >= x.spec.size /\ y.spec.network = x.spec.network]_vars

(* What the webhook of a running operator would say of an entry. *)
Inadmissible(e) ==
  IF live[e.name] = {} THEN ~ValidateCreate(e.spec)
  ELSE \E x \in live[e.name] : ~ValidateUpdate(x.spec, Applied(x, e).spec)

(* What a restore cannot overcome by repetition. *)
Hopeless ==
  \E r \in wanted : \E b \in store[r.key] :
    \/ ~b.crd /\ b.nodes = {}
    \/ \E e \in b.nodes : Conflicts(e, r.force) \/ Inadmissible(e)

(* A restore can be repeated: in a cluster that is there again it comes to an end,
   after any failure in any phase, unless a TaoNode is in its way. *)
RestoreSucceeds == wanted # {} ~> (wanted = {} \/ Hopeless)
============================================================================
