-------------------------------- MODULE NatMap --------------------------------
(***************************************************************************)
(* The table of internal/natmap: bindings by public endpoint, an index     *)
(* from private endpoints back to public ones, and a time to live.  Every  *)
(* call holds the mutex from beginning to end, so a call is one step; time *)
(* passes between the calls, and a binding that has expired stays until a  *)
(* call meets it.                                                          *)
(***************************************************************************)
EXTENDS Integers

CONSTANTS
  Public, Private,   \* endpoints
  Proto,             \* protocols as callers name them; "" stands for "tcp"
  Ttl,
  MaxTime            \* bound on the clock

(* New turns a ttl below 1 into five minutes.                              *)
ASSUME TtlAssumption == Ttl \in Nat \ {0} /\ MaxTime \in Nat

VARIABLES
  fwd,      \* public key -> private endpoint and the end of its life
  rev,      \* private key -> public key
  now,
  shared    \* history: some private endpoint has had two public ones at once

vars == <<fwd, rev, now, shared>>

Protocol(proto) == IF proto = "" THEN "tcp" ELSE proto
Protocols == {Protocol(proto) : proto \in Proto}
Key(proto, e) == <<Protocol(proto), e>>
PublicKeys == Protocols \X Public
PrivateKeys == Protocols \X Private

(* The key of the private endpoint of the binding of k in the table f.     *)
Home(f, k) == <<k[1], f[k].private>>
Without(f, S) == [k \in DOMAIN f \ S |-> f[k]]
With(f, k, v) == [j \in DOMAIN f \union {k} |-> IF j = k THEN v ELSE f[j]]
Expired == {k \in DOMAIN fwd : fwd[k].until <= now}
Bind(private) == [private |-> private, until |-> now + Ttl]

Init ==
  /\ fwd = [k \in {} |-> 0] /\ rev = [k \in {} |-> 0]
  /\ now = 0 /\ shared = FALSE

(* dropLocked and gcLocked: the bindings of K go, with their way back.     *)
DropAll(K) ==
  /\ fwd' = Without(fwd, K)
  /\ rev' = Without(rev, {Home(fwd, k) : k \in K})

(* A mistake: a binding that is replaced leaves its way back behind.       *)
MapLeaving(public, private, proto) ==
  LET pk == Key(proto, public)
      live == Without(fwd, Expired)
  IN
  /\ fwd' = With(live, pk, Bind(private))
  /\ rev' = With(Without(rev, {Home(fwd, k) : k \in Expired}), Key(proto, private), pk)
  /\ shared' = (shared \/ \E k \in DOMAIN live \ {pk} : Home(live, k) = Key(proto, private))
  /\ UNCHANGED now

(* Another: the old way back is dropped after the new one has been set.    *)
MapSwapped(public, private, proto) ==
  LET pk == Key(proto, public)
      live == Without(fwd, Expired)
      replaced == {Home(live, k) : k \in DOMAIN live \intersect {pk}}
  IN
  /\ fwd' = With(live, pk, Bind(private))
  /\ rev' = Without(With(Without(rev, {Home(fwd, k) : k \in Expired}),
                         Key(proto, private), pk), replaced)
  /\ shared' = (shared \/ \E k \in DOMAIN live \ {pk} : Home(live, k) = Key(proto, private))
  /\ UNCHANGED now

Map(public, private, proto) ==
  LET pk == Key(proto, public)
      live == Without(fwd, Expired)
      replaced == {Home(live, k) : k \in DOMAIN live \intersect {pk}}
  IN
  /\ fwd' = With(live, pk, Bind(private))
  /\ rev' = With(Without(rev, {Home(fwd, k) : k \in Expired} \union replaced),
                 Key(proto, private), pk)
  /\ shared' = (shared \/ \E k \in DOMAIN live \ {pk} : Home(live, k) = Key(proto, private))
  /\ UNCHANGED now

(* A mistake: whatever is found gets a new life.                           *)
LookupReviving(public, proto) ==
  LET pk == Key(proto, public) IN
  /\ UNCHANGED <<rev, now, shared>>
  /\ fwd' = IF pk \in DOMAIN fwd THEN With(fwd, pk, Bind(fwd[pk].private)) ELSE fwd

(* Lookup gives a live binding a new life, and drops one that has expired. *)
Lookup(public, proto) ==
  LET pk == Key(proto, public) IN
  /\ UNCHANGED <<now, shared>>
  /\ \/ pk \notin DOMAIN fwd /\ UNCHANGED <<fwd, rev>>
     \/ pk \in Expired /\ DropAll({pk})
     \/ /\ pk \in DOMAIN fwd \ Expired
        /\ fwd' = With(fwd, pk, Bind(fwd[pk].private)) /\ UNCHANGED rev

(* Reverse does not prolong what it finds.                                 *)
Reverse(private, proto) ==
  LET rk == Key(proto, private) IN
  /\ UNCHANGED <<now, shared>>
  /\ IF rk \in DOMAIN rev /\ rev[rk] \in Expired THEN DropAll({rev[rk]})
                                                 ELSE UNCHANGED <<fwd, rev>>

Unmap(public, proto) ==
  LET pk == Key(proto, public) IN
  /\ UNCHANGED <<now, shared>>
  /\ IF pk \in DOMAIN fwd THEN DropAll({pk}) ELSE UNCHANGED <<fwd, rev>>

Len == DropAll(Expired) /\ UNCHANGED <<now, shared>>

Tick == now < MaxTime /\ now' = now + 1 /\ UNCHANGED <<fwd, rev, shared>>

Next ==
  \/ \E proto \in Proto :
       \/ \E public \in Public :
            \/ Lookup(public, proto) \/ Unmap(public, proto)
            \/ \E private \in Private : Map(public, private, proto)
       \/ \E private \in Private : Reverse(private, proto)
  \/ Len \/ Tick

Spec == Init /\ [][Next]_vars

-----------------------------------------------------------------------------
(* Keys name endpoints, and no life ends later than one Ttl from now.      *)
TypeOK ==
  /\ DOMAIN fwd \subseteq PublicKeys /\ DOMAIN rev \subseteq PrivateKeys
  /\ fwd \in [DOMAIN fwd -> [private : Private, until : 0..now + Ttl]]
  /\ rev \in [DOMAIN rev -> PublicKeys]
  /\ now \in 0..MaxTime /\ shared \in BOOLEAN

(* The way back leads home: Reverse never answers with the binding of      *)
(* another private endpoint, nor with one that Unmap, Map or time has      *)
(* removed, whatever was shared and in whatever order bindings went.       *)
RevPointsHome ==
  \A rk \in DOMAIN rev : rev[rk] \in DOMAIN fwd /\ Home(fwd, rev[rk]) = rk

(* As long as no private endpoint has been mapped to a second public one   *)
(* while the first was live, every binding can be found by Reverse.        *)
InverseUnlessShared ==
  ~shared => \A k \in DOMAIN fwd : Home(fwd, k) \in DOMAIN rev /\ rev[Home(fwd, k)] = k

(* A binding that lives goes only by Unmap or for another Map of the same  *)
(* public endpoint, and one that has expired never lives again without a   *)
(* Map, whichever calls have or have not met it.                           *)
LivesOutItsTime ==
  [][\A k \in DOMAIN fwd :
       LET kept == k \in DOMAIN fwd' /\ fwd'[k].private = fwd[k].private
           mapped == \E proto \in Proto, e \in Public, private \in Private :
                       k = Key(proto, e) /\ Map(e, private, proto)
           unmapped == \E proto \in Proto, e \in Public : k = Key(proto, e) /\ Unmap(e, proto)
       IN
       /\ k \notin Expired => kept \/ mapped \/ unmapped
       /\ k \in Expired /\ k \in DOMAIN fwd' => mapped \/ fwd'[k] = fwd[k]]_vars
=============================================================================
