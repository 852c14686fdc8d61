------------------------------ MODULE MCLaunch -------------------------------
(***************************************************************************)
(* Launch on a small instance.                                             *)
(***************************************************************************)
EXTENDS Launch, TLC

AllContracts == {PoolFactoryId, LockupFactoryId, MultisigFactoryId, AirdropId}
AnyFee == {[numerator |-> 1, denominator |-> 2], [numerator |-> 1, denominator |-> 0]}
Same == Permutations(Users) \cup Permutations(Names)
=============================================================================
