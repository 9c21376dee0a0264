--------------------------- MODULE MCRateLimiter ---------------------------
(***************************************************************************)
(* Quotas for TLC, of a minute of three ticks: none, one that does not     *)
(* divide the minute, and one that is larger than the minute.              *)
(***************************************************************************)
EXTENDS RateLimiter, TLC

MCQuotas == {-1, 2, 4}

Symmetry == Permutations(Callers) \cup Permutations(Goroutines)
=============================================================================
