---------------------------- MODULE PortSetProofs ----------------------------
(***************************************************************************)
(* The books of the port set are right for every range and every owner.    *)
(***************************************************************************)
EXTENDS PortSet, FiniteSetTheorems, TLAPS

(* Used and reserved ports are ports of the range, and different ones.     *)
Books ==
  /\ DOMAIN used \subseteq Ports /\ reserved \subseteq Ports /\ next \in Ports
  /\ DOMAIN used \intersect reserved = {}

(* Subtracting two counts from the length of the range counts the rest.    *)
LEMMA BooksAreExact == Books => AvailableIsExact
<1> SUFFICES ASSUME Books PROVE AvailableIsExact
  OBVIOUS
<1>1. IsFiniteSet(Ports) /\ Cardinality(Ports) = max - min + 1
  BY FS_Interval, RangeAssumption DEF Ports
<1>2. IsFiniteSet(DOMAIN used) /\ IsFiniteSet(reserved)
  BY <1>1, FS_Subset DEF Books
<1>3. /\ IsFiniteSet(DOMAIN used \union reserved)
      /\ Cardinality(DOMAIN used \union reserved)
           = Cardinality(DOMAIN used) + Cardinality(reserved) - Cardinality(DOMAIN used \intersect reserved)
  BY <1>2, FS_Union
<1>4. Cardinality(DOMAIN used \intersect reserved) = 0
  BY FS_EmptySet DEF Books
<1>5. Cardinality(Unused)
        = Cardinality(Ports) - Cardinality(Ports \intersect (DOMAIN used \union reserved))
  BY <1>1, FS_Difference DEF Unused
<1>6. Ports \intersect (DOMAIN used \union reserved) = DOMAIN used \union reserved
  BY DEF Books
<1>7. Cardinality(DOMAIN used) \in Nat /\ Cardinality(reserved) \in Nat
  BY <1>2, FS_CardinalityType
<1>8. QED
  BY <1>1, <1>3, <1>4, <1>5, <1>6, <1>7, RangeAssumption DEF AvailableIsExact, Available, Books

(* No call books a port twice or outside of the range.                     *)
LEMMA StepKeepsBooks == Books /\ [Next]_vars => Books'
<1> SUFFICES ASSUME Books, [Next]_vars PROVE Books'
  OBVIOUS
<1>1. ASSUME NEW port \in min - 1..max + 1, Reserve(port) PROVE Books'
  BY <1>1 DEF Reserve, Books, Ports
<1>2. ASSUME NEW ports, Release(ports), UNCHANGED <<next, reserved>> PROVE Books'
  BY <1>2 DEF Release, Books, Ports
<1>3. ASSUME NEW port \in Unused, NEW owner \in Owner, Use(port, owner), UNCHANGED reserved,
             next' \in Ports
      PROVE  Books'
  BY <1>3 DEF Use, Unused, Books, Ports
<1>4. ASSUME NEW port \in min - 1..max + 1, NEW owner \in Owner, AllocExact(port, owner)
      PROVE  Books'
  <2>1. CASE port \in Unused
    BY <1>3, <1>4, <2>1 DEF AllocExact, Books
  <2>2. CASE port \notin Unused
    BY <1>4, <2>2 DEF AllocExact, Books, Ports
  <2>3. QED BY <2>1, <2>2
<1>5. ASSUME NEW owner \in Owner, Alloc(owner) PROVE Books'
  <2>1. ASSUME NEW p \in Unused, Use(p, owner), next' = After(p) PROVE Books'
    <3>1. After(p) \in Ports
      BY RangeAssumption DEF After, Unused, Ports
    <3>2. QED BY <1>3, <1>5, <2>1, <3>1 DEF Alloc
  <2>2. ASSUME UNCHANGED <<next, used>> PROVE Books'
    BY <1>5, <2>2 DEF Alloc, Books, Ports
  <2>3. QED BY <1>5, <2>1, <2>2 DEF Alloc
<1>6. ASSUME UNCHANGED vars PROVE Books'
  BY <1>6 DEF vars, Books, Ports
<1>7. QED BY <1>1, <1>2, <1>4, <1>5, <1>6 DEF Next, Free, FreeOwner

(* AvailableIsExact: the number Available returns is the number of ports   *)
(* that can still be given, for every range, owner and order of calls.     *)
THEOREM AvailableCorrect == Spec => []AvailableIsExact
<1>1. Init => Books
  BY RangeAssumption DEF Init, Books, Ports
<1>2. QED BY <1>1, StepKeepsBooks, BooksAreExact, PTL DEF Spec

(* The loop of Alloc meets every port, each of them once.                  *)
LEMMA EveryPortIsMet ==
  ASSUME next \in Ports
  PROVE  /\ \A i \in 0..max - min : Candidate(i) \in Ports
         /\ \A p \in Ports : \E i \in 0..max - min : Candidate(i) = p
         /\ \A i, j \in 0..max - min : Candidate(i) = Candidate(j) => i = j
<1>1. \A i \in 0..max - min : Candidate(i) \in Ports
  BY RangeAssumption DEF Candidate, Ports
<1>2. ASSUME NEW p \in Ports PROVE \E i \in 0..max - min : Candidate(i) = p
  <2>1. CASE p >= next
    <3>1. p - next \in 0..max - min /\ Candidate(p - next) = p
      BY <2>1, RangeAssumption DEF Candidate, Ports
    <3>2. QED BY <3>1
  <2>2. CASE p < next
    <3> DEFINE i == p - next + (max - min + 1)
    <3>1. i \in 0..max - min /\ Candidate(i) = p
      BY <2>2, RangeAssumption DEF Candidate, Ports
    <3>2. QED BY <3>1
  <2>3. QED BY <2>1, <2>2, RangeAssumption DEF Ports
<1>3. ASSUME NEW i \in 0..max - min, NEW j \in 0..max - min, Candidate(i) = Candidate(j) PROVE i = j
  BY <1>3, RangeAssumption DEF Candidate, Ports
<1>4. QED BY <1>1, <1>2, <1>3

(* The port given last is the last one on the way round.                   *)
Behind == Books /\ given \in Ports \union {Nothing} /\ (given # Nothing => next = After(given))

LEMMA GivenIsLast == ASSUME Behind, given # Nothing
                     PROVE  given \in Ports /\ Candidate(max - min) = given
BY RangeAssumption DEF Behind, Books, Candidate, After, Ports, Nothing

(* Only Alloc moves the place, and with it the port given last.            *)
LEMMA StepKeepsBehind == Behind /\ [Next]_vars => Behind'
<1> SUFFICES ASSUME Behind, [Next]_vars PROVE Behind'
  OBVIOUS
<1>1. Books'
  BY StepKeepsBooks DEF Behind
<1>2. ASSUME UNCHANGED <<next, given>> PROVE Behind'
  BY <1>1, <1>2 DEF Behind, After, Ports, Nothing
<1>3. ASSUME NEW owner \in Owner, Alloc(owner) PROVE Behind'
  <2>1. ASSUME NEW p \in Unused, next' = After(p), given' = p PROVE Behind'
    BY <1>1, <2>1 DEF Behind, Unused, After, Ports
  <2>2. QED BY <1>2, <1>3, <2>1 DEF Alloc
<1>4. QED BY <1>2, <1>3 DEF Next, Reserve, AllocExact, Free, FreeOwner, vars

(* AllocGoesRound: Alloc finds the last port left, and gives the one it    *)
(* gave last only when that is the last one left.                          *)
THEOREM AllocCorrect == Spec => AllocGoesRound
<1> DEFINE round == /\ answer' = Failed => Unused = {}
                    /\ answer' \in Ports /\ answer' = given => Unused = {given}
<1>1. Init => Behind
  BY RangeAssumption DEF Init, Behind, Books, Ports
<1>2. Failed \notin Ports /\ Nothing \notin Ports /\ Nothing # Failed
  BY RangeAssumption DEF Failed, Nothing, Ports
<1>3. ASSUME Behind, Next PROVE round
  <2>1. ASSUME answer' = Nothing PROVE round
    BY <1>2, <2>1
  <2>2. ASSUME NEW owner \in Owner, Alloc(owner) PROVE round
    <3>1. next \in Ports /\ Unused \subseteq Ports
      BY <1>3 DEF Behind, Books, Unused
    <3>2. ASSUME \A i \in 0..max - min : Candidate(i) \notin Unused, answer' = Failed PROVE round
      <4>1. Unused = {}
        BY <3>1, <3>2, EveryPortIsMet
      <4>2. QED BY <1>2, <3>2, <4>1
    <3>3. ASSUME NEW i \in 0..max - min, Candidate(i) \in Unused,
                 \A j \in 0..i-1 : Candidate(j) \notin Unused, answer' = Candidate(i)
          PROVE  round
      <4>1. answer' \in Ports
        BY <3>1, <3>3
      <4>2. ASSUME answer' = given PROVE Unused = {given}
        <5>1. Candidate(max - min) = given
          BY <1>2, <1>3, <4>1, <4>2, GivenIsLast
        <5>2. i = max - min
          <6>1. max - min \in 0..max - min
            BY RangeAssumption
          <6>2. QED BY <3>1, <3>3, <4>2, <5>1, <6>1, EveryPortIsMet
        <5>3. ASSUME NEW p \in Unused PROVE p = given
          <6>1. PICK j \in 0..max - min : Candidate(j) = p
            BY <3>1, EveryPortIsMet
          <6>2. j \notin 0..i-1
            BY <3>3, <6>1
          <6>3. j = max - min
            BY <5>2, <6>2, RangeAssumption
          <6>4. QED BY <5>1, <6>1, <6>3
        <5>4. QED BY <3>3, <4>2, <5>3
      <4>3. QED BY <1>2, <4>1, <4>2
    <3>4. QED BY <2>2, <3>2, <3>3 DEF Alloc, Returns
  <2>3. QED BY <1>3, <2>1, <2>2 DEF Next, Reserve, AllocExact, Free, FreeOwner, Returns
<1>4. Behind /\ [Next]_vars => [round]_vars
  BY <1>3
<1>5. QED BY <1>1, <1>4, StepKeepsBehind, PTL DEF Spec, AllocGoesRound
=============================================================================
