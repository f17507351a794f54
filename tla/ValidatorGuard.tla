--------------------------- MODULE ValidatorGuard --------------------------
(***************************************************************************)
(* The singleton Lease of a validator                                      *)
(* (internal/controller/validator_guard.go).  The Lease object is kept as  *)
(* its holder and whether it is live, that is, whether its renewTime is    *)
(* less than 30 s old.  The check reads the Lease in one call and writes   *)
(* it, under the resourceVersion it read, or deletes the pod in another.   *)
(* The Lease is read from the informer cache: a copy that lags behind is   *)
(* one that was read before the latest write of the other holder.          *)
(***************************************************************************)
EXTENDS PodTemplate

CONSTANTS
  Nodes,      \* the TaoNodes
  Rival       \* a foreign holder of a Lease

ASSUME GuardAssumption == Rival \notin Nodes

VARIABLES
  lease,      \* [Nodes -> optional Lease]: "{name}-validator-singleton"
  leaseRead   \* [Nodes -> optional Lease]: what the check under way has read

guardVars == <<lease, leaseRead>>

LeaseObject == [holder : Nodes \cup {Rival}, live : BOOLEAN]

(* current: the Lease still has the resourceVersion that was read. *)
LeaseCopy == [found : Optional(LeaseObject), current : BOOLEAN]

GuardTypeOK ==
  /\ lease \in [Nodes -> Optional(LeaseObject)]
  /\ leaseRead \in [Nodes -> Optional(LeaseCopy)]

GuardInit ==
  /\ lease = [n \in Nodes |-> {}]
  /\ leaseRead = [n \in Nodes |-> {}]

(* On mainnet the singleton is always enforced, elsewhere unless the spec
   allows more than one validator. *)
SingletonEnforced(s) ==
  /\ s.role = "validator"
  /\ s.network # "mainnet" => \A v \in s.validator : v.maxConcurrentValidators <= 1

Held(n) == {[holder |-> n, live |-> TRUE]}

(* The Lease of n is written, and no check under way has read this version. *)
WriteLease(n, l) ==
  /\ lease' = [lease EXCEPT ![n] = l]
  /\ leaseRead' = [leaseRead EXCEPT ![n] = {}]

ReadLease(n) ==
  /\ leaseRead' = [leaseRead EXCEPT ![n] = {[found |-> lease[n], current |-> TRUE]}]
  /\ UNCHANGED lease

ForgetRead(n) ==
  /\ leaseRead' = [leaseRead EXCEPT ![n] = {}]
  /\ UNCHANGED lease

(* Mutant: the takeover is written without the resourceVersion. *)
ClaimsBlindly(n) ==
  \E r \in leaseRead[n] :
    /\ \A l \in r.found : l.holder = n \/ ~l.live
    /\ WriteLease(n, Held(n))

(* Create, renewal and takeover succeed under the version that was read. *)
Claims(n) ==
  \E r \in leaseRead[n] :
    /\ r.current
    /\ \A l \in r.found : l.holder = n \/ ~l.live
    /\ WriteLease(n, Held(n))

(* ... and fail with AlreadyExists or a conflict otherwise. *)
ClaimRefused(n) ==
  \E r \in leaseRead[n] :
    /\ ~r.current
    /\ \A l \in r.found : l.holder = n \/ ~l.live
    /\ ForgetRead(n)

(* A live Lease of somebody else: the pod must go. *)
MustCordon(n) ==
  \E r \in leaseRead[n] : \E l \in r.found : l.holder # n /\ l.live

----------------------------------------------------------------------------
(* External: the rival claims or renews the Lease, and time passes. *)

Outdated(r) == [r EXCEPT !.current = FALSE]

RivalClaims(n) ==
  /\ lease' = [lease EXCEPT ![n] = Held(Rival)]
  /\ leaseRead' = [leaseRead EXCEPT ![n] = {Outdated(r) : r \in @}]

(* 30 s pass without a renewal.  A copy read earlier is then past, too. *)
Expired(l) == [l EXCEPT !.live = FALSE]

LeaseExpires(n) ==
  /\ \E l \in lease[n] : l.live
  /\ lease' = [lease EXCEPT ![n] = {Expired(l) : l \in @}]
  /\ leaseRead' = [leaseRead EXCEPT
                     ![n] = {[r EXCEPT !.found = {Expired(l) : l \in @}] : r \in @}]

(* The copy that was read is past, while the Lease has been renewed since. *)
ReadExpires(n) ==
  /\ \E r \in leaseRead[n] : ~r.current /\ \E l \in r.found : l.live
  /\ leaseRead' = [leaseRead EXCEPT
                     ![n] = {[r EXCEPT !.found = {Expired(l) : l \in @}] : r \in @}]
  /\ UNCHANGED lease
============================================================================
