----------------------------- MODULE PoolBudget -----------------------------
(***************************************************************************)
(* What the connection pool promises, without goroutines, mutex, waiting   *)
(* or time: a budget of MaxActive slots that callers lease and return, and *)
(* a store of at most MaxIdle connections.  Close shuts it for good: the   *)
(* store is emptied and refused, slots are only returned.                  *)
(***************************************************************************)
EXTENDS Integers, FiniteSets

CONSTANTS Callers, MaxActive, MaxIdle

VARIABLES
  leased,   \* the callers that have a slot
  parked,   \* how many connections are in store
  closed

budget == <<leased, parked, closed>>

Init == leased = {} /\ parked = 0 /\ closed = FALSE

(* A slot is leased; connections may leave the store on the way. *)
Lease(g) ==
  /\ ~closed
  /\ g \notin leased /\ Cardinality(leased) < MaxActive
  /\ leased' = leased \cup {g}
  /\ parked' \in 0..parked
  /\ UNCHANGED closed

(* A slot is returned, and the connection may be stored. *)
Return(g) ==
  /\ g \in leased
  /\ leased' = leased \ {g}
  /\ \/ UNCHANGED parked
     \/ ~closed /\ parked < MaxIdle /\ parked' = parked + 1
  /\ UNCHANGED closed

Store ==
  /\ ~closed /\ parked < MaxIdle
  /\ parked' = parked + 1
  /\ UNCHANGED <<leased, closed>>

Remove ==
  /\ parked' \in 0..parked
  /\ UNCHANGED <<leased, closed>>

Shut ==
  /\ closed' = TRUE /\ parked' = 0
  /\ UNCHANGED leased

Next ==
  \/ \E g \in Callers : Lease(g) \/ Return(g)
  \/ Store \/ Remove \/ Shut

Spec == Init /\ [][Next]_budget

=============================================================================
