------------------------------ MODULE MCRateLimit ------------------------------
(***************************************************************************)
(* Two callers and a bucket of three units, one unit every second tick.    *)
(* The window is not a multiple of the capacity, so interval rounds down.  *)
(***************************************************************************)
EXTENDS RateLimit, TLC

CallerSymmetry == Permutations(Callers)

=============================================================================
