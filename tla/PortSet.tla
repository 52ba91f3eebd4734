------------------------------- MODULE PortSet -------------------------------
(***************************************************************************)
(* The ports of internal/portset: a range, the ports in use with their     *)
(* owners, the ports kept back, and a place from which Alloc goes round.   *)
(* Every call holds the mutex from beginning to end.                       *)
(***************************************************************************)
EXTENDS Integers, FiniteSets

CONSTANTS
  min, max,   \* the range, after the defaults of New
  Owner

(* New makes an empty range of a lower end above 65535; of any other one   *)
(* it makes a range with at least one port.                                *)
ASSUME RangeAssumption == min \in Nat \ {0} /\ max \in Nat /\ min <= max

VARIABLES
  next,       \* where Alloc goes on
  used,       \* port -> owner
  reserved,
  answer,     \* what the last call returned if it was Alloc: a port, or Failed
  given       \* history: the port Alloc gave last

vars == <<next, used, reserved, answer, given>>

Ports == min..max
Failed == 0
Nothing == -1
Unused == Ports \ (DOMAIN used \union reserved)
Available == max - min + 1 - Cardinality(DOMAIN used) - Cardinality(reserved)

Init ==
  /\ next = min /\ used = [p \in {} |-> 0] /\ reserved = {}
  /\ answer = Nothing /\ given = Nothing

(* The i-th port of the loop of Alloc, and the one after p.                *)
Candidate(i) == IF next + i <= max THEN next + i ELSE next + i - (max - min + 1)
After(p) == IF p + 1 > max THEN min ELSE p + 1
Use(p, owner) == used' = [q \in DOMAIN used \union {p} |-> IF q = p THEN owner ELSE used[q]]
Release(ports) == used' = [q \in DOMAIN used \ ports |-> used[q]]
Returns(result) == answer' = result

(* A mistake: a port in use is kept back as well.                          *)
ReserveAny(port) ==
  /\ reserved' = IF port \in Ports THEN reserved \union {port} ELSE reserved
  /\ UNCHANGED <<next, used, given>> /\ Returns(Nothing)

(* Out of range or in use is an error.                                     *)
Reserve(port) ==
  /\ reserved' = IF port \in Ports \ DOMAIN used THEN reserved \union {port} ELSE reserved
  /\ UNCHANGED <<next, used, given>> /\ Returns(Nothing)

(* A mistake: the place stays at the port that is given.                   *)
AllocAgain(owner) ==
  /\ UNCHANGED reserved
  /\ \/ \E i \in 0..max - min :
          LET p == Candidate(i) IN
          /\ p \in Unused /\ \A j \in 0..i-1 : Candidate(j) \notin Unused
          /\ Use(p, owner) /\ next' = p
          /\ given' = p /\ Returns(p)
     \/ /\ \A i \in 0..max - min : Candidate(i) \notin Unused
        /\ UNCHANGED <<next, used, given>> /\ Returns(Failed)

(* Alloc takes the first port it meets that is neither used nor reserved;  *)
(* when it has gone all the way round it is where it began, and fails.     *)
Alloc(owner) ==
  /\ UNCHANGED reserved
  /\ \/ \E i \in 0..max - min :
          LET p == Candidate(i) IN
          /\ p \in Unused /\ \A j \in 0..i-1 : Candidate(j) \notin Unused
          /\ Use(p, owner) /\ next' = After(p)
          /\ given' = p /\ Returns(p)
     \/ /\ \A i \in 0..max - min : Candidate(i) \notin Unused
        /\ UNCHANGED <<next, used, given>> /\ Returns(Failed)

(* AllocExact does not move the place; out of range, reserved or in use is *)
(* an error.                                                               *)
AllocExact(port, owner) ==
  /\ IF port \in Unused THEN Use(port, owner) ELSE UNCHANGED used
  /\ UNCHANGED <<next, reserved, given>> /\ Returns(Nothing)

Free(port) ==
  /\ Release({port})
  /\ UNCHANGED <<next, reserved, given>> /\ Returns(Nothing)

FreeOwner(owner) ==
  /\ Release({p \in DOMAIN used : used[p] = owner})
  /\ UNCHANGED <<next, reserved, given>> /\ Returns(Nothing)

(* Callers ask for ports on both sides of the range, too.                  *)
Next ==
  \/ \E port \in min - 1..max + 1 :
       \/ Reserve(port) \/ Free(port)
       \/ \E owner \in Owner : AllocExact(port, owner)
  \/ \E owner \in Owner : Alloc(owner) \/ FreeOwner(owner)

Spec == Init /\ [][Next]_vars

-----------------------------------------------------------------------------
(* Available, which only subtracts counts, is the number of ports Alloc    *)
(* can still give: none is counted twice or lies outside of the range.     *)
AvailableIsExact ==
  /\ DOMAIN used \subseteq Ports /\ reserved \subseteq Ports /\ next \in Ports
  /\ Available = Cardinality(Unused)

(* Alloc goes round: it fails only when no port is left, wherever the last *)
(* one lies and whatever AllocExact, Reserve and Free have done around its *)
(* place, and it does not give the port it gave last, which has come back  *)
(* since, as long as there is another one.                                 *)
AllocGoesRound ==
  [][/\ answer' = Failed => Unused = {}
     /\ answer' \in Ports /\ answer' = given => Unused = {given}]_vars
=============================================================================
