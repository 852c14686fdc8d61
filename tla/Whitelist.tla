------------------------------ MODULE Whitelist ------------------------------
(***************************************************************************)
(* The staking pool whitelist (src/whitelist/src/lib.rs).  Account ids are *)
(* valid by their type.                                                    *)
(***************************************************************************)
CONSTANTS
    Callers,     \* accounts that call
    Pools,       \* staking pools
    Foundation   \* foundation_account_id

VARIABLES whitelist, factory_whitelist

vars == <<whitelist, factory_whitelist>>

Init == whitelist = {} /\ factory_whitelist = {}

is_whitelisted(pool) == pool \in whitelist

is_factory_whitelisted(factory) == factory \in factory_whitelist

CalledByFoundation(caller) == caller = Foundation

add_staking_pool(caller, pool) ==
    /\ is_factory_whitelisted(caller) \/ CalledByFoundation(caller)
    /\ whitelist' = whitelist \cup {pool}
    /\ UNCHANGED factory_whitelist

remove_staking_pool(caller, pool) ==
    /\ CalledByFoundation(caller)
    /\ whitelist' = whitelist \ {pool}
    /\ UNCHANGED factory_whitelist

add_factory(caller, factory) ==
    /\ CalledByFoundation(caller)
    /\ factory_whitelist' = factory_whitelist \cup {factory}
    /\ UNCHANGED whitelist

remove_factory(caller, factory) ==
    /\ CalledByFoundation(caller)
    /\ factory_whitelist' = factory_whitelist \ {factory}
    /\ UNCHANGED whitelist

Next ==
    \E caller \in Callers :
        \/ \E pool \in Pools : add_staking_pool(caller, pool) \/ remove_staking_pool(caller, pool)
        \/ \E factory \in Callers : add_factory(caller, factory) \/ remove_factory(caller, factory)
=============================================================================
