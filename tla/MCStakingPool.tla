--------------------------- MODULE MCStakingPool ---------------------------
(***************************************************************************)
(* StakingPool on small instances.                                         *)
(***************************************************************************)
EXTENDS StakingPool

HalfFee == {[numerator |-> 1, denominator |-> 2]}
AnyFee == {[numerator |-> n, denominator |-> 2] : n \in {0, 1, 2}}
=============================================================================
