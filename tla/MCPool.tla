------------------------------- MODULE MCPool -------------------------------
(* Small instances of Pool.  One slot for three callers lets two of them   *)
(* sleep at a time; there is one connection more than the socket budget,   *)
(* so that a leak would show.                                              *)
EXTENDS Pool, TLC

Interchangeable == Permutations(Conns) \union Permutations(Callers \ Cancellable)

=============================================================================
