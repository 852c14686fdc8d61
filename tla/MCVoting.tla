------------------------------ MODULE MCVoting ------------------------------
(***************************************************************************)
(* Voting on a small instance.                                             *)
(***************************************************************************)
EXTENDS Voting, TLC

ValidatorSymmetry == Permutations(Validators)
=============================================================================
