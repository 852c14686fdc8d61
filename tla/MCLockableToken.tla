-------------------------- MODULE MCLockableToken ---------------------------
(***************************************************************************)
(* LockableToken on small instances.                                       *)
(***************************************************************************)
EXTENDS LockableToken, TLC

AccountSymmetry == Permutations(Accounts)
=============================================================================
