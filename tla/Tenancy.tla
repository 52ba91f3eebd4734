-------------------------------- MODULE Tenancy --------------------------------
(***************************************************************************)
(* What a table of leases promises: an id has a tenant until the time it   *)
(* was granted for is over, and not a moment longer, or until somebody     *)
(* ends the lease; and every call answers from what is then so.  Nothing   *)
(* is kept of a lease that is over.                                        *)
(***************************************************************************)
EXTENDS Integers, FiniteSets

CONSTANTS Ids, Owners, Ttl, Times, None

VARIABLES
  tenants,      \* id -> owner and the time that is left, of every lease there is
  answer        \* the last call and what it returned

tenancy == <<tenants, answer>>

Let(id, lease) == [i \in DOMAIN tenants \union {id} |-> IF i = id THEN lease ELSE tenants[i]]
End(ids) == tenants' = [i \in DOMAIN tenants \ ids |-> tenants[i]]
Of(owner) == {i \in DOMAIN tenants : tenants[i].owner = owner}
Tenant(id) == IF id \in DOMAIN tenants THEN tenants[id].owner ELSE None

Init == tenants = [i \in {} |-> 0] /\ answer = <<"nothing", None>>

Grant(id, owner, time) ==
  tenants' = Let(id, [owner |-> owner, left |-> time]) /\ answer' = <<"Grant", owner>>

(* Whoever asks: a lease that is over is not renewed. *)
Renew(id) ==
  /\ answer' = <<"Renew", Tenant(id)>>
  /\ IF id \in DOMAIN tenants THEN tenants' = Let(id, [tenants[id] EXCEPT !.left = Ttl])
                              ELSE UNCHANGED tenants

(* A lease that has run out may count as one that has been released.       *)
Release(id) ==
  /\ End({id})
  /\ \/ answer' = <<"Release", id \in DOMAIN tenants>>
     \/ answer' = <<"Release", TRUE>>

ReleaseOwner(owner) ==
  /\ End(Of(owner))
  /\ \E n \in Cardinality(Of(owner))..Cardinality(Ids) : answer' = <<"ReleaseOwner", n>>

Ask ==
  /\ UNCHANGED tenants
  /\ \/ \E id \in Ids : answer' \in {<<"Get", Tenant(id)>>, <<"Expired", id \notin DOMAIN tenants>>}
     \/ answer' \in {<<"Len", Cardinality(DOMAIN tenants)>>, <<"Snapshot", tenants>>}

Tick ==
  /\ tenants' = [i \in {j \in DOMAIN tenants : tenants[j].left > 1} |->
                   [tenants[i] EXCEPT !.left = @ - 1]]
  /\ UNCHANGED answer

Next ==
  \/ \E id \in Ids : Renew(id) \/ Release(id)
  \/ \E id \in Ids, o \in Owners, t \in Times : Grant(id, o, t)
  \/ \E o \in Owners : ReleaseOwner(o)
  \/ Ask \/ Tick

Spec == Init /\ [][Next]_tenancy
=============================================================================
