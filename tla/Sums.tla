-------------------------------- MODULE Sums --------------------------------
(***************************************************************************)
(* Sums of the values of a function.                                       *)
(***************************************************************************)
EXTENDS Integers, FiniteSetsExt

(* The sum of f[x] over the elements x of S, a finite part of f's domain. *)
SumOver(f, S) == MapThenSumSet(LAMBDA x : f[x], S)
=============================================================================
