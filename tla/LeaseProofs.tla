------------------------------ MODULE LeaseProofs ------------------------------
(***************************************************************************)
(* The lazy table of leases is the eager one, for any ids, owners, and     *)
(* times.  The types are the whole invariant: what a record that has run   *)
(* out looks like never matters, so every call can be followed by itself.  *)
(***************************************************************************)
EXTENDS Lease, FiniteSetTheorems, TLAPS

Record == [owner : Owners, left : Nat]

(* The eager table has the live records and no others. *)
LEMMA CurrentIsLive ==
  /\ DOMAIN Current = Live
  /\ \A i \in Live : Current[i] = items[i]
  /\ Live \subseteq DOMAIN items
  BY DEF Current, Live

LEMMA TypeInit == Init => TypeOK
  BY DEF Init, TypeOK

LEMMA GrantKeepsType ==
  ASSUME TypeOK, NEW id \in Ids, NEW owner \in Owners, NEW t \in Times, Grant(id, owner, t)
  PROVE  TypeOK'
<1>1. Time(t) \in Nat
  BY TtlAssumption DEF Time
<1>2. DOMAIN items' = Live \union {id}
  BY DEF Grant
<1>3. \A i \in DOMAIN items' : items'[i] \in Record
  BY <1>1, <1>2 DEF Grant, TypeOK, Live, Record
<1>4. QED
  BY <1>2, <1>3 DEF TypeOK, Live, Record

(* Most calls leave some of the records and no other. *)
LEMMA FewerKeepType ==
  ASSUME TypeOK, DOMAIN items' \subseteq DOMAIN items, \A i \in DOMAIN items' : items'[i] = items[i]
  PROVE  TypeOK'
  BY DEF TypeOK

LEMMA StepKeepsType == TypeOK /\ [Next]_vars => TypeOK'
<1> SUFFICES ASSUME TypeOK, [Next]_vars PROVE TypeOK'
  OBVIOUS
<1>1. ASSUME NEW id \in Ids, Renew(id) PROVE TypeOK'
  <2>1. CASE id \in Live
    <3>1. items' = [items EXCEPT ![id].left = Ttl]
      BY <1>1, <2>1 DEF Renew
    <3>2. id \in DOMAIN items /\ items[id] \in [owner : Owners, left : Nat]
      BY <2>1 DEF Live, TypeOK
    <3>3. QED
      BY <3>1, <3>2, TtlAssumption DEF TypeOK
  <2>2. QED
    BY <1>1, <2>1 DEF Renew, TypeOK
<1>2. ASSUME NEW id \in Ids, Get(id) \/ Release(id) \/ Expired(id) PROVE TypeOK'
  BY <1>2, FewerKeepType DEF Get, Release, Expired, Without
<1>3. ASSUME NEW o \in Owners, ReleaseOwner(o) PROVE TypeOK'
  BY <1>3, FewerKeepType DEF ReleaseOwner, Without
<1>4. CASE Len \/ Snapshot
  BY <1>4, FewerKeepType, CurrentIsLive DEF Len, Snapshot
<1>5. CASE Tick
  <2>1. DOMAIN items' = DOMAIN items
    BY <1>5 DEF Tick
  <2>2. \A i \in DOMAIN items : items'[i] = [items[i] EXCEPT !.left = IF @ > 0 THEN @ - 1 ELSE 0]
    BY <1>5 DEF Tick
  <2>3. QED
    BY <2>1, <2>2 DEF TypeOK
<1>6. CASE UNCHANGED vars
  BY <1>6 DEF vars, TypeOK
<1>7. QED
  BY <1>1, <1>2, <1>3, <1>4, <1>5, <1>6, GrantKeepsType DEF Next

(* The variables of the table keep their types. *)
THEOREM TypeCorrect == Spec => []TypeOK
  BY TypeInit, StepKeepsType, PTL DEF Spec

-----------------------------------------------------------------------------
(* A table is known by its live records. *)
LEMMA SameTable ==
  ASSUME NEW S, NEW f, DOMAIN f = S, f = [i \in S |-> f[i]],
         Live' = S, \A i \in S : items'[i] = f[i]
  PROVE  Current' = f
  BY DEF Current

LEMMA GrantIsGrant ==
  ASSUME TypeOK, NEW id \in Ids, NEW owner \in Owners, NEW t \in Times, Grant(id, owner, t)
  PROVE  Promise!Grant(id, owner, Time(t))
<1> DEFINE rec == [owner |-> owner, left |-> Time(t)]
<1>1. Time(t) > 0
  BY TtlAssumption DEF Time
<1>2. DOMAIN items' = Live \union {id} /\ items'[id] = rec /\ \A i \in Live \ {id} : items'[i] = items[i]
  BY DEF Grant
<1>3. Live' = Live \union {id}
  BY <1>1, <1>2 DEF Live
<1>4. Current' = [i \in Live \union {id} |-> IF i = id THEN rec ELSE items[i]]
  BY <1>2, <1>3 DEF Current
<1>5. Promise!Let(id, rec) = [i \in Live \union {id} |-> IF i = id THEN rec ELSE items[i]]
  BY CurrentIsLive DEF Promise!Let
<1>6. QED
  BY <1>4, <1>5 DEF Promise!Grant, Grant

LEMMA RenewIsRenew ==
  ASSUME TypeOK, NEW id \in Ids, Renew(id)
  PROVE  Promise!Renew(id)
<1>1. Promise!Tenant(id) = Found(id)
  BY CurrentIsLive DEF Promise!Tenant, Found
<1>2. CASE id \in Live
  <2> DEFINE rec == [items[id] EXCEPT !.left = Ttl]
  <2>1. items' = [items EXCEPT ![id].left = Ttl] /\ id \in DOMAIN items
    BY <1>2 DEF Renew, Live
  <2>2. DOMAIN items' = DOMAIN items /\ items'[id] = rec
        /\ \A i \in DOMAIN items \ {id} : items'[i] = items[i]
    BY <2>1
  <2>3. rec.left > 0
    BY <2>1, TtlAssumption DEF TypeOK
  <2>4. Live' = Live
    BY <1>2, <2>2, <2>3 DEF Live
  <2>5. Current' = [i \in Live |-> IF i = id THEN rec ELSE items[i]]
    BY <2>2, <2>4 DEF Current, Live
  <2>6. Promise!Let(id, [Current[id] EXCEPT !.left = Ttl]) = [i \in Live |-> IF i = id THEN rec ELSE items[i]]
    BY <1>2, CurrentIsLive DEF Promise!Let
  <2>7. QED
    BY <1>1, <1>2, <2>5, <2>6, CurrentIsLive DEF Promise!Renew, Renew
<1>3. CASE id \notin Live
  BY <1>1, <1>3, CurrentIsLive DEF Promise!Renew, Renew, Current, Live
<1>4. QED
  BY <1>2, <1>3

(* What a call removes, live or not. *)
LEMMA RemovedIsEnded ==
  ASSUME NEW S, items' = Without(S)
  PROVE  Promise!End(S)
<1>1. DOMAIN items' = DOMAIN items \ S /\ \A i \in DOMAIN items' : items'[i] = items[i]
  BY DEF Without
<1>2. Live' = Live \ S
  BY <1>1 DEF Live
<1>3. Current' = [i \in Live \ S |-> items[i]]
  BY <1>1, <1>2 DEF Current, Live
<1>4. QED
  BY <1>3, CurrentIsLive DEF Promise!End

(* Sweeping records that have run out changes nothing. *)
LEMMA SweptIsSame ==
  ASSUME NEW S, S \intersect Live = {}, items' = Without(S)
  PROVE  Current' = Current
<1>1. DOMAIN items' = DOMAIN items \ S /\ \A i \in DOMAIN items' : items'[i] = items[i]
  BY DEF Without
<1>2. Live' = Live
  BY <1>1 DEF Live
<1>3. QED
  BY <1>1, <1>2 DEF Current, Live

LEMMA AskIsAsk ==
  ASSUME TypeOK, Len \/ Snapshot \/ \E id \in Ids : Get(id) \/ Expired(id)
  PROVE  Promise!Ask
<1>1. Current' = Current
  <2>1. CASE Len \/ Snapshot
    <3>1. items' = Current
      BY <2>1 DEF Len, Snapshot
    <3>2. Live' = Live /\ \A i \in Live : items'[i] = items[i]
      BY <3>1, CurrentIsLive DEF Live
    <3>3. QED
      BY <3>2 DEF Current
  <2>2. ASSUME NEW id \in Ids, Get(id) PROVE Current' = Current
    <3>1. CASE id \in Live
      BY <2>2, <3>1 DEF Get, Current, Live
    <3>2. CASE id \notin Live
      BY <2>2, <3>2, SweptIsSame DEF Get
    <3>3. QED
      BY <3>1, <3>2
  <2>3. ASSUME NEW id \in Ids, Expired(id) PROVE Current' = Current
    BY <2>3 DEF Expired, Current, Live
  <2>4. QED
    BY <2>1, <2>2, <2>3
<1>2. \A id \in Ids : Promise!Tenant(id) = Found(id)
  BY CurrentIsLive DEF Promise!Tenant, Found
<1>3. Promise!Cardinality(DOMAIN Current) = Cardinality(Live)
  BY CurrentIsLive DEF Promise!Cardinality, Cardinality
<1>4. ASSUME NEW id \in Ids, Get(id) \/ Expired(id) PROVE Promise!Ask
  BY <1>1, <1>2, <1>4, CurrentIsLive DEF Promise!Ask, Get, Expired
<1>5. CASE Len \/ Snapshot
  BY <1>1, <1>3, <1>5 DEF Promise!Ask, Len, Snapshot
<1>6. QED
  BY <1>4, <1>5

LEMMA ReleaseIsRelease ==
  ASSUME NEW id \in Ids, Release(id)
  PROVE  Promise!Release(id)
<1>1. Promise!End({id})
  BY RemovedIsEnded DEF Release
<1>2. \/ (id \in DOMAIN items) = (id \in DOMAIN Current)
      \/ (id \in DOMAIN items) = TRUE
  BY CurrentIsLive
<1>3. QED
  BY <1>1, <1>2 DEF Promise!Release, Release

LEMMA ReleaseOwnerIsReleaseOwner ==
  ASSUME TypeOK, NEW o \in Owners, ReleaseOwner(o)
  PROVE  Promise!ReleaseOwner(o)
<1>1. Promise!Of(o) = Of(o) \intersect Live
  BY CurrentIsLive DEF Promise!Of, Of
<1>2. Promise!End(Promise!Of(o))
  <2>1. DOMAIN items' = DOMAIN items \ Of(o) /\ \A i \in DOMAIN items' : items'[i] = items[i]
    BY DEF ReleaseOwner, Without
  <2>2. Live' = Live \ Promise!Of(o)
    BY <2>1, <1>1 DEF Live
  <2>3. Current' = [i \in Live \ Promise!Of(o) |-> items[i]]
    BY <2>1, <2>2 DEF Current, Live
  <2>4. QED
    BY <2>3, <1>1, CurrentIsLive DEF Promise!End
<1>3. Cardinality(Of(o)) \in Cardinality(Promise!Of(o))..Cardinality(Ids)
  <2>1. Of(o) \subseteq Ids /\ Promise!Of(o) \subseteq Of(o)
    BY <1>1 DEF Of, TypeOK
  <2>2. IsFiniteSet(Of(o)) /\ Cardinality(Of(o)) <= Cardinality(Ids)
    BY <2>1, IdsAssumption, FS_Subset
  <2>3. IsFiniteSet(Promise!Of(o)) /\ Cardinality(Promise!Of(o)) <= Cardinality(Of(o))
    BY <2>1, <2>2, FS_Subset
  <2>4. QED
    BY <2>2, <2>3, IdsAssumption, FS_CardinalityType
<1>4. QED
  BY <1>2, <1>3 DEF Promise!ReleaseOwner, ReleaseOwner, Promise!Cardinality, Cardinality

LEMMA TickIsTick ==
  ASSUME TypeOK, Tick
  PROVE  Promise!Tick
<1> DEFINE rest == {j \in Live : items[j].left > 1}
<1>1. \A i \in DOMAIN items : items[i].left \in Nat
  BY DEF TypeOK
<1>2. DOMAIN items' = DOMAIN items
      /\ \A i \in DOMAIN items : items'[i] = [items[i] EXCEPT !.left = IF @ > 0 THEN @ - 1 ELSE 0]
  BY DEF Tick
<1>3. \A i \in DOMAIN items : items'[i].left = IF items[i].left > 0 THEN items[i].left - 1 ELSE 0
  BY <1>2 DEF TypeOK
<1>4. Live' = rest
  BY <1>1, <1>2, <1>3 DEF Live
<1>5. \A i \in rest : items'[i] = [items[i] EXCEPT !.left = @ - 1]
  BY <1>2 DEF Live
<1>6. Current' = [i \in rest |-> [items[i] EXCEPT !.left = @ - 1]]
  BY <1>4, <1>5 DEF Current
<1>7. {j \in DOMAIN Current : Current[j].left > 1} = rest
  BY CurrentIsLive
<1>8. [i \in rest |-> [items[i] EXCEPT !.left = @ - 1]] = [i \in rest |-> [Current[i] EXCEPT !.left = @ - 1]]
  BY CurrentIsLive
<1>9. QED
  BY <1>6, <1>7, <1>8 DEF Promise!Tick, Tick

LEMMA StepKeepsPromise == TypeOK /\ [Next]_vars => [Promise!Next]_(Promise!tenancy)
<1> SUFFICES ASSUME TypeOK, [Next]_vars PROVE [Promise!Next]_(Promise!tenancy)
  OBVIOUS
<1>1. ASSUME NEW id \in Ids, Renew(id) PROVE Promise!Next
  BY <1>1, RenewIsRenew DEF Promise!Next
<1>2. ASSUME NEW id \in Ids, Release(id) PROVE Promise!Next
  BY <1>2, ReleaseIsRelease DEF Promise!Next
<1>3. ASSUME NEW id \in Ids, NEW o \in Owners, NEW t \in Times, Grant(id, o, t) PROVE Promise!Next
  BY <1>3, GrantIsGrant DEF Promise!Next
<1>4. ASSUME NEW o \in Owners, ReleaseOwner(o) PROVE Promise!Next
  BY <1>4, ReleaseOwnerIsReleaseOwner DEF Promise!Next
<1>5. CASE Len \/ Snapshot \/ \E id \in Ids : Get(id) \/ Expired(id)
  BY <1>5, AskIsAsk DEF Promise!Next
<1>6. CASE Tick
  BY <1>6, TickIsTick DEF Promise!Next
<1>7. CASE UNCHANGED vars
  BY <1>7 DEF vars, Promise!tenancy, Current, Live
<1>8. QED
  BY <1>1, <1>2, <1>3, <1>4, <1>5, <1>6, <1>7 DEF Next

(* KeepsTenancy: whatever records that have run out are still about, the   *)
(* calls do and answer what they would without them.                       *)
THEOREM TenancyKept == Spec => KeepsTenancy
<1>1. Init => Promise!Init
  BY DEF Init, Promise!Init, Current, Live
<1>2. QED
  BY <1>1, TypeCorrect, StepKeepsPromise, PTL DEF Spec, KeepsTenancy, Promise!Spec
=============================================================================
