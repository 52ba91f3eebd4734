----------------------------- MODULE NatMapProofs -----------------------------
(***************************************************************************)
(* The two maps of the table agree, for every set of endpoints and every   *)
(* time to live.                                                           *)
(***************************************************************************)
EXTENDS NatMap, TLAPS

Inv == TypeOK /\ RevPointsHome /\ InverseUnlessShared

(* A key is made of a protocol and an endpoint.                            *)
LEMMA KeyTypes ==
  /\ \A proto \in Proto, e \in Public : Key(proto, e) \in PublicKeys
  /\ \A proto \in Proto, e \in Private : Key(proto, e) \in PrivateKeys
BY DEF Key, PublicKeys, PrivateKeys, Protocols

(* The way back from a binding is that of a private endpoint.              *)
LEMMA HomeType == ASSUME TypeOK, NEW k \in DOMAIN fwd
                  PROVE  Home(fwd, k) \in PrivateKeys
<1>1. k \in PublicKeys /\ fwd[k].private \in Private
  BY DEF TypeOK
<1>2. QED BY <1>1 DEF Home, PublicKeys, PrivateKeys

(* Bindings of one private endpoint are one binding, unless it is shared.  *)
LEMMA HomesDiffer ==
  ASSUME InverseUnlessShared, ~shared, NEW j \in DOMAIN fwd, NEW k \in DOMAIN fwd,
         Home(fwd, j) = Home(fwd, k)
  PROVE  j = k
BY DEF InverseUnlessShared

(* Dropping bindings with their way back, by Unmap, by an expiry that a    *)
(* call meets or by the sweep of gcLocked, keeps the maps in agreement.    *)
LEMMA DropKeepsInv ==
  ASSUME Inv, NEW K \in SUBSET DOMAIN fwd, DropAll(K), UNCHANGED <<now, shared>>
  PROVE  Inv'
<1> DEFINE gone == {Home(fwd, k) : k \in K}
<1>1. /\ fwd' = [k \in DOMAIN fwd \ K |-> fwd[k]]
      /\ rev' = [rk \in DOMAIN rev \ gone |-> rev[rk]]
  BY DEF DropAll, Without
<1>2. \A k \in DOMAIN fwd \ K : Home(fwd', k) = Home(fwd, k)
  BY <1>1 DEF Home
<1>3. TypeOK'
  BY <1>1 DEF Inv, TypeOK
<1>4. RevPointsHome'
  <2> SUFFICES ASSUME NEW rk \in DOMAIN rev \ gone
               PROVE  rev[rk] \in DOMAIN fwd \ K /\ Home(fwd', rev[rk]) = rk
    BY <1>1 DEF RevPointsHome
  <2>1. rev[rk] \in DOMAIN fwd /\ Home(fwd, rev[rk]) = rk
    BY DEF Inv, RevPointsHome
  <2>2. rev[rk] \notin K
    BY <2>1
  <2>3. QED BY <1>2, <2>1, <2>2
<1>5. InverseUnlessShared'
  <2> SUFFICES ASSUME ~shared, NEW k \in DOMAIN fwd \ K
               PROVE  Home(fwd', k) \in DOMAIN rev' /\ rev'[Home(fwd', k)] = k
    BY <1>1 DEF InverseUnlessShared
  <2>1. Home(fwd, k) \in DOMAIN rev /\ rev[Home(fwd, k)] = k
    BY DEF Inv, InverseUnlessShared
  <2>2. Home(fwd, k) \notin gone
    BY HomesDiffer DEF Inv
  <2>3. QED BY <1>1, <1>2, <2>1, <2>2
<1>6. QED BY <1>3, <1>4, <1>5 DEF Inv

(* Map sweeps, takes the old way back away and adds the new one.           *)
LEMMA MapKeepsInv ==
  ASSUME Inv, NEW proto \in Proto, NEW public \in Public, NEW private \in Private,
         Map(public, private, proto)
  PROVE  Inv'
<1> DEFINE pk == Key(proto, public)
           rk == Key(proto, private)
           live == Without(fwd, Expired)
           replaced == {Home(live, k) : k \in DOMAIN live \intersect {pk}}
           gone == {Home(fwd, k) : k \in Expired} \union replaced
<1>1. pk \in PublicKeys /\ rk \in PrivateKeys
  BY KeyTypes
<1>2. DOMAIN live = DOMAIN fwd \ Expired /\ \A k \in DOMAIN live : live[k] = fwd[k]
  BY DEF Without
<1>3. \A k \in DOMAIN live : Home(live, k) = Home(fwd, k)
  BY <1>2 DEF Home
<1>4. /\ DOMAIN fwd' = DOMAIN live \union {pk}
      /\ fwd' = [k \in DOMAIN live \union {pk} |-> IF k = pk THEN Bind(private) ELSE live[k]]
  BY DEF Map, With
<1>5. rev' = [j \in (DOMAIN rev \ gone) \union {rk} |-> IF j = rk THEN pk ELSE rev[j]]
  <2>1. rev' = With(Without(rev, gone), rk, pk)
    BY DEF Map
  <2>2. QED BY <2>1 DEF With, Without
<1>6. Home(fwd', pk) = rk /\ \A k \in DOMAIN live \ {pk} : Home(fwd', k) = Home(fwd, k)
  <2>1. pk[1] = rk[1] /\ rk[2] = private /\ rk = <<rk[1], rk[2]>>
    BY DEF Key
  <2>2. fwd'[pk].private = private
    BY <1>4 DEF Bind
  <2>3. Home(fwd', pk) = rk
    BY <2>1, <2>2 DEF Home
  <2>4. \A k \in DOMAIN live \ {pk} : fwd'[k] = fwd[k]
    BY <1>2, <1>4
  <2>5. QED BY <2>3, <2>4 DEF Home
<1> HIDE DEF pk, rk, live
<1>7. TypeOK'
  <2>1. Bind(private) \in [private : Private, until : 0..now + Ttl]
    BY TtlAssumption DEF Bind, Inv, TypeOK
  <2>2. now' = now /\ shared' \in BOOLEAN
    BY DEF Map, Inv, TypeOK
  <2>3. fwd' \in [DOMAIN fwd' -> [private : Private, until : 0..now + Ttl]]
    BY <1>2, <1>4, <2>1 DEF Inv, TypeOK
  <2>4. rev' \in [DOMAIN rev' -> PublicKeys]
    BY <1>1, <1>5 DEF Inv, TypeOK
  <2>5. DOMAIN fwd' \subseteq PublicKeys /\ DOMAIN rev' \subseteq PrivateKeys
    BY <1>1, <1>2, <1>4, <1>5 DEF Inv, TypeOK
  <2>6. QED BY <2>2, <2>3, <2>4, <2>5 DEF Inv, TypeOK
<1>8. RevPointsHome'
  <2> SUFFICES ASSUME NEW j \in DOMAIN rev'
               PROVE  rev'[j] \in DOMAIN fwd' /\ Home(fwd', rev'[j]) = j
    BY DEF RevPointsHome
  <2>1. CASE j = rk
    BY <1>4, <1>5, <1>6, <2>1
  <2>2. CASE j # rk
    <3>1. j \in DOMAIN rev \ gone /\ rev'[j] = rev[j]
      BY <1>5, <2>2
    <3>2. rev[j] \in DOMAIN fwd /\ Home(fwd, rev[j]) = j
      BY <3>1 DEF Inv, RevPointsHome
    <3>3. rev[j] \notin Expired
      BY <3>1, <3>2
    <3>4. rev[j] # pk
      BY <1>2, <1>3, <3>1, <3>2, <3>3
    <3>5. QED BY <1>2, <1>4, <1>6, <3>1, <3>2, <3>3, <3>4
  <2>3. QED BY <2>1, <2>2
<1>9. InverseUnlessShared'
  <2> SUFFICES ASSUME ~shared', NEW k \in DOMAIN fwd'
               PROVE  Home(fwd', k) \in DOMAIN rev' /\ rev'[Home(fwd', k)] = k
    BY DEF InverseUnlessShared
  <2>1. ~shared /\ \A j \in DOMAIN live \ {pk} : Home(live, j) # rk
    BY DEF Map, pk, rk, live
  <2>2. CASE k = pk
    BY <1>5, <1>6, <2>2
  <2>3. CASE k # pk
    <3>1. k \in DOMAIN live \ {pk} /\ k \in DOMAIN fwd \ Expired
      BY <1>2, <1>4, <2>3
    <3>2. Home(fwd', k) = Home(fwd, k) /\ Home(fwd, k) # rk
      BY <1>3, <1>6, <2>1, <3>1
    <3>3. Home(fwd, k) \in DOMAIN rev /\ rev[Home(fwd, k)] = k
      BY <2>1, <3>1 DEF Inv, InverseUnlessShared
    <3>4. ASSUME NEW j \in DOMAIN fwd, Home(fwd, j) = Home(fwd, k) PROVE j = k
      BY <2>1, <3>1, <3>4, HomesDiffer DEF Inv
    <3>5. Home(fwd, k) \notin {Home(fwd, j) : j \in Expired}
      BY <3>1, <3>4 DEF Expired
    <3>6. Home(fwd, k) \notin replaced
      BY <1>2, <1>3, <3>1, <3>4
    <3>7. QED BY <1>5, <3>2, <3>3, <3>5, <3>6
  <2>4. QED BY <2>2, <2>3
<1>10. QED BY <1>7, <1>8, <1>9 DEF Inv

(* A lookup that finds a live binding changes only the end of its life.    *)
LEMMA RenewKeepsInv ==
  ASSUME Inv, NEW k \in DOMAIN fwd, fwd' = With(fwd, k, Bind(fwd[k].private)),
         UNCHANGED <<rev, now, shared>>
  PROVE  Inv'
<1>1. fwd' = [j \in DOMAIN fwd |-> IF j = k THEN Bind(fwd[k].private) ELSE fwd[j]]
  BY DEF With
<1>2. \A j \in DOMAIN fwd : Home(fwd', j) = Home(fwd, j)
  BY <1>1 DEF Home, Bind
<1>3. Bind(fwd[k].private) \in [private : Private, until : 0..now + Ttl]
  BY TtlAssumption DEF Bind, Inv, TypeOK
<1>4. TypeOK'
  BY <1>1, <1>3 DEF Inv, TypeOK
<1>5. RevPointsHome' /\ InverseUnlessShared'
  BY <1>1, <1>2 DEF Inv, RevPointsHome, InverseUnlessShared
<1>6. QED BY <1>4, <1>5 DEF Inv

(* A life that ends in time still does when time has passed.               *)
LEMMA LongerRange ==
  ASSUME NEW t \in Nat, NEW i \in Nat, NEW j \in Nat, i <= j
  PROVE  0..i + t \subseteq 0..j + t
OBVIOUS

(* Every call, and the passing of time, keeps the two maps in agreement.   *)
LEMMA StepKeepsInv == Inv /\ [Next]_vars => Inv'
<1> SUFFICES ASSUME Inv, [Next]_vars PROVE Inv'
  OBVIOUS
<1>0. ASSUME UNCHANGED <<fwd, rev, shared>>, now' = now \/ now' = now + 1, now' \in 0..MaxTime
      PROVE  Inv'
  <2>1. Ttl \in Nat /\ now \in Nat /\ now' \in Nat /\ now <= now'
    BY <1>0, TtlAssumption DEF Inv, TypeOK
  <2>2. 0..now + Ttl \subseteq 0..now' + Ttl
    BY <2>1, LongerRange
  <2>3. [private : Private, until : 0..now + Ttl] \subseteq [private : Private, until : 0..now' + Ttl]
    BY <2>2
  <2>4. TypeOK'
    BY <1>0, <2>3 DEF Inv, TypeOK
  <2>5. RevPointsHome' /\ InverseUnlessShared'
    BY <1>0 DEF Inv, RevPointsHome, InverseUnlessShared
  <2>6. QED BY <2>4, <2>5 DEF Inv
<1>00. ASSUME UNCHANGED vars PROVE Inv'
  BY <1>0, <1>00 DEF vars, Inv, TypeOK
<1>1. ASSUME NEW proto \in Proto, NEW public \in Public, Lookup(public, proto) PROVE Inv'
  <2> DEFINE pk == Key(proto, public)
  <2>1. CASE pk \notin DOMAIN fwd /\ UNCHANGED <<fwd, rev>>
    BY <1>1, <1>00, <2>1 DEF Lookup, vars
  <2>2. CASE pk \in Expired /\ DropAll({pk})
    BY <1>1, <2>2, DropKeepsInv DEF Lookup, Expired
  <2>3. CASE pk \in DOMAIN fwd \ Expired /\ fwd' = With(fwd, pk, Bind(fwd[pk].private)) /\ UNCHANGED rev
    BY <1>1, <2>3, RenewKeepsInv DEF Lookup
  <2>4. QED BY <1>1, <2>1, <2>2, <2>3 DEF Lookup
<1>2. ASSUME NEW proto \in Proto, NEW private \in Private, Reverse(private, proto) PROVE Inv'
  <2> DEFINE rk == Key(proto, private)
  <2>1. CASE rk \in DOMAIN rev /\ rev[rk] \in Expired
    <3>1. {rev[rk]} \subseteq DOMAIN fwd
      BY <2>1 DEF Expired
    <3>2. QED BY <1>2, <2>1, <3>1, DropKeepsInv DEF Reverse
  <2>2. CASE ~(rk \in DOMAIN rev /\ rev[rk] \in Expired)
    BY <1>2, <1>00, <2>2 DEF Reverse, vars
  <2>3. QED BY <2>1, <2>2
<1>3. ASSUME NEW proto \in Proto, NEW public \in Public, Unmap(public, proto) PROVE Inv'
  <2> DEFINE pk == Key(proto, public)
  <2>1. CASE pk \in DOMAIN fwd
    BY <1>3, <2>1, DropKeepsInv DEF Unmap
  <2>2. CASE pk \notin DOMAIN fwd
    BY <1>3, <1>00, <2>2 DEF Unmap, vars
  <2>3. QED BY <2>1, <2>2
<1>4. ASSUME Len PROVE Inv'
  BY <1>4, DropKeepsInv DEF Len, Expired
<1>5. ASSUME Tick PROVE Inv'
  BY <1>0, <1>5, TtlAssumption DEF Tick, Inv, TypeOK
<1>6. QED BY <1>00, <1>1, <1>2, <1>3, <1>4, <1>5, MapKeepsInv DEF Next

(* A table in use keeps its invariant.                                     *)
LEMMA TableKeepsInv == Spec => []Inv
<1>1. Init => Inv
  <2> SUFFICES ASSUME Init PROVE Inv
    OBVIOUS
  <2>1. DOMAIN fwd = {} /\ DOMAIN rev = {} /\ now = 0 /\ shared = FALSE
    BY DEF Init
  <2>2. fwd = [k \in {} |-> 0] /\ rev = [k \in {} |-> 0]
    BY DEF Init
  <2>3. /\ fwd \in [DOMAIN fwd -> [private : Private, until : 0..now + Ttl]]
        /\ rev \in [DOMAIN rev -> PublicKeys]
    BY <2>1, <2>2
  <2>4. now \in 0..MaxTime
    BY <2>1, TtlAssumption
  <2>5. QED BY <2>1, <2>3, <2>4 DEF Inv, TypeOK, RevPointsHome, InverseUnlessShared
<1>2. QED BY <1>1, StepKeepsInv, PTL DEF Spec

(* RevPointsHome: Reverse never answers with the binding of another        *)
(* private endpoint or with one that has gone.                             *)
THEOREM ReverseCorrect == Spec => []RevPointsHome
<1>1. Inv => RevPointsHome
  BY DEF Inv
<1>2. QED BY <1>1, TableKeepsInv, PTL

(* InverseUnlessShared: while no private endpoint is shared, the two maps  *)
(* are inverse to each other.                                              *)
THEOREM MapsAreInverse == Spec => []InverseUnlessShared
<1>1. Inv => InverseUnlessShared
  BY DEF Inv
<1>2. QED BY <1>1, TableKeepsInv, PTL

(* LivesOutItsTime: no call takes a live binding away but Unmap and Map of *)
(* its public endpoint, and none but Map brings an expired one back.       *)
THEOREM BindingsLiveOutTheirTime == Spec => LivesOutItsTime
<1> DEFINE mapped(k) == \E proto \in Proto, e \in Public, private \in Private :
                          k = Key(proto, e) /\ Map(e, private, proto)
           unmapped(k) == \E proto \in Proto, e \in Public : k = Key(proto, e) /\ Unmap(e, proto)
           kept(k) == k \in DOMAIN fwd' /\ fwd'[k].private = fwd[k].private
           good(k) == /\ k \notin Expired => kept(k) \/ mapped(k) \/ unmapped(k)
                      /\ k \in Expired /\ k \in DOMAIN fwd' => mapped(k) \/ fwd'[k] = fwd[k]
<1>1. ASSUME Next, NEW k \in DOMAIN fwd PROVE good(k)
  <2>1. ASSUME UNCHANGED fwd PROVE good(k)
    BY <2>1
  <2>2. ASSUME NEW K \in SUBSET Expired, DropAll(K) PROVE good(k)
    BY <2>2 DEF DropAll, Without
  <2>3. ASSUME NEW proto \in Proto, NEW e \in Public, Lookup(e, proto) PROVE good(k)
    <3> DEFINE pk == Key(proto, e)
    <3>1. CASE pk \notin DOMAIN fwd /\ UNCHANGED <<fwd, rev>>
      BY <2>1, <3>1
    <3>2. CASE pk \in Expired /\ DropAll({pk})
      BY <2>2, <3>2
    <3>3. CASE pk \in DOMAIN fwd \ Expired /\ fwd' = With(fwd, pk, Bind(fwd[pk].private))
      BY <3>3 DEF With, Bind
    <3>4. QED BY <2>3, <3>1, <3>2, <3>3 DEF Lookup
  <2>4. ASSUME NEW proto \in Proto, NEW e \in Public, Unmap(e, proto) PROVE good(k)
    <3>1. CASE k = Key(proto, e)
      BY <2>4, <3>1 DEF Unmap, DropAll, Without
    <3>2. CASE k # Key(proto, e)
      BY <2>4, <3>2 DEF Unmap, DropAll, Without
    <3>3. QED BY <3>1, <3>2
  <2>5. ASSUME NEW proto \in Proto, NEW e \in Public, NEW private \in Private, Map(e, private, proto)
        PROVE  good(k)
    <3>1. CASE k = Key(proto, e)
      BY <2>5, <3>1
    <3>2. CASE k # Key(proto, e)
      BY <2>5, <3>2 DEF Map, With, Without
    <3>3. QED BY <3>1, <3>2
  <2>6. ASSUME NEW proto \in Proto, NEW private \in Private, Reverse(private, proto) PROVE good(k)
    BY <2>1, <2>2, <2>6 DEF Reverse
  <2>7. ASSUME Len PROVE good(k)
    BY <2>2, <2>7 DEF Len
  <2>8. ASSUME Tick PROVE good(k)
    BY <2>1, <2>8 DEF Tick
  <2>9. QED BY <1>1, <2>3, <2>4, <2>5, <2>6, <2>7, <2>8 DEF Next
<1>2. Next => [\A k \in DOMAIN fwd : good(k)]_vars
  BY <1>1
<1>3. QED BY <1>2, PTL DEF Spec, LivesOutItsTime
=============================================================================
