-------------------------------- MODULE Sums --------------------------------
(***************************************************************************)
(* The sum of the values of a function: what a loop over a map or a list   *)
(* of the program adds up, in whatever order it walks it.                  *)
(***************************************************************************)
EXTENDS Integers, FiniteSets, FiniteSetsExt

Sum(f) == MapThenSumSet(LAMBDA x : f[x], DOMAIN f)
=============================================================================
