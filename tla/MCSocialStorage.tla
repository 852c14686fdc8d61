--------------------------- MODULE MCSocialStorage ---------------------------
(***************************************************************************)
(* SocialStorage on a small instance.                                      *)
(***************************************************************************)
EXTENDS SocialStorage

(* The ids of the two pools differ in length. *)
IdBytes == [p \in PoolOwners |-> IF p = "short" THEN 1 ELSE 2]
SomeWrites == {-2, -1, 0, 1, 2}
=============================================================================
