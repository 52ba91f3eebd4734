--------------------------------- MODULE Lease ---------------------------------
(***************************************************************************)
(* The table of internal/lease.  Every call holds the mutex from beginning *)
(* to end, so a call is one step; time passes between the calls.  A record *)
(* whose time is over stays in the table until a call removes it, and each *)
(* call has its own way with such records: Grant, Len and Snapshot sweep   *)
(* them all, Get removes the one it meets, Renew and Expired leave it      *)
(* there, Release and ReleaseOwner take it for a lease.                    *)
(*                                                                         *)
(* A record is its owner and the time from now to its Until, which is all  *)
(* that the code looks at; 0 stands for every Until that has passed.       *)
(***************************************************************************)
EXTENDS Integers, FiniteSets

CONSTANTS
  Ids, Owners,
  Ttl,          \* the ttl of the table
  Times,        \* the ttl arguments of GrantTTL; 0 stands for the table's
  None          \* no record

(* New turns a ttl below 1 into thirty seconds. *)
ASSUME TtlAssumption == Ttl \in Nat \ {0} /\ Times \subseteq Nat
ASSUME IdsAssumption == IsFiniteSet(Ids)

VARIABLES
  items,        \* id -> record
  answer        \* the last call and what it returned

vars == <<items, answer>>

Live == {id \in DOMAIN items : items[id].left > 0}
Without(ids) == [i \in DOMAIN items \ ids |-> items[i]]
Of(owner) == {id \in DOMAIN items : items[id].owner = owner}
Current == [i \in Live |-> items[i]]
Found(id) == IF id \in Live THEN items[id].owner ELSE None
Time(ttl) == IF ttl = 0 THEN Ttl ELSE ttl

Init == items = [i \in {} |-> 0] /\ answer = <<"nothing", None>>

(* A mistake: Renew looks for the record and not at its time.              *)
RenewAny(id) ==
  /\ items' = IF id \in DOMAIN items THEN [items EXCEPT ![id].left = Ttl] ELSE items
  /\ answer' = <<"Renew", IF id \in DOMAIN items THEN items[id].owner ELSE None>>

-----------------------------------------------------------------------------
(* GrantTTL replaces whatever record there is, another owner's too.        *)
Grant(id, owner, ttl) ==
  /\ items' = [i \in Live \union {id} |->
                 IF i = id THEN [owner |-> owner, left |-> Time(ttl)] ELSE items[i]]
  /\ answer' = <<"Grant", owner>>

(* Renew gives the table's ttl, even to a lease that has more time left.   *)
Renew(id) ==
  /\ items' = IF id \in Live THEN [items EXCEPT ![id].left = Ttl] ELSE items
  /\ answer' = <<"Renew", Found(id)>>

Get(id) ==
  /\ items' = IF id \in Live THEN items ELSE Without({id})
  /\ answer' = <<"Get", Found(id)>>

Release(id) ==
  /\ items' = Without({id})
  /\ answer' = <<"Release", id \in DOMAIN items>>

ReleaseOwner(owner) ==
  /\ items' = Without(Of(owner))
  /\ answer' = <<"ReleaseOwner", Cardinality(Of(owner))>>

Expired(id) ==
  /\ answer' = <<"Expired", id \notin Live>>
  /\ UNCHANGED items

Len == items' = Current /\ answer' = <<"Len", Cardinality(Live)>>
Snapshot == items' = Current /\ answer' = <<"Snapshot", Current>>

Tick ==
  /\ items' = [i \in DOMAIN items |->
                 [items[i] EXCEPT !.left = IF @ > 0 THEN @ - 1 ELSE 0]]
  /\ UNCHANGED answer

Next ==
  \/ \E id \in Ids : Renew(id) \/ Get(id) \/ Release(id) \/ Expired(id)
  \/ \E id \in Ids, o \in Owners, t \in Times : Grant(id, o, t)
  \/ \E o \in Owners : ReleaseOwner(o)
  \/ Len \/ Snapshot \/ Tick

Spec == Init /\ [][Next]_vars

-----------------------------------------------------------------------------
(* The variables have their types.                                         *)
TypeOK ==
  /\ DOMAIN items \subseteq Ids
  /\ \A id \in DOMAIN items : items[id] \in [owner : Owners, left : Nat]

(* Though records outlive their leases by any length of time and every     *)
(* call treats them in a way of its own, the table is what Tenancy         *)
(* promises: no lease comes back to life, none is shortened or ended but   *)
(* by the call that says so, and Get, Expired, Len and Snapshot say the    *)
(* same of it (lease.go:47-146).                                           *)
Promise == INSTANCE Tenancy WITH
  tenants <- Current, Times <- {Time(t) : t \in Times}
KeepsTenancy == Promise!Spec
=============================================================================
