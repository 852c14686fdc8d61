--------------------------- MODULE MultisigFactory ---------------------------
(***************************************************************************)
(* The multisig factory (src/multisig-factory/src/lib.rs): one method, no  *)
(* state and no callback.  A failed creation's deposit stays with it.      *)
(***************************************************************************)
EXTENDS Promises

CONSTANT MultisigFactoryId

create(caller, name, deposit) ==
    /\ Called
    /\ tokens' = [tokens EXCEPT ![caller] = @ - deposit]
    /\ Sent(PromiseRecord("create_only", MultisigFactoryId, <<MultisigFactoryId, name>>,
                          deposit, caller, NoKey))
    /\ UNCHANGED existing

Next == \E caller \in Users, name \in Names, deposit \in Deposits : create(caller, name, deposit)
=============================================================================
