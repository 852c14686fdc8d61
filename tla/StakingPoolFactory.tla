------------------------- MODULE StakingPoolFactory --------------------------
(***************************************************************************)
(* The staking pool factory (src/staking-pool-factory/src).  It creates an *)
(* account, deploys a staking pool to it and keeps the ids of its pools.   *)
(***************************************************************************)
EXTENDS Promises

CONSTANTS
    PoolFactoryId,
    MinPoolBalance,  \* MIN_ATTACHED_BALANCE
    Fees             \* reward fees that callers may give

VARIABLE staking_pool_account_ids

vars == <<staking_pool_account_ids, runtime>>

(* RewardFeeFraction::assert_valid *)
assert_valid(fee) == fee.denominator # 0 /\ fee.numerator <= fee.denominator

is_promise_success(p) == p.status = "successful"

Init == staking_pool_account_ids = {}

CreatePromise(caller, account, deposit) ==
    PromiseRecord("create", PoolFactoryId, account, deposit, caller, NoKey)

(* Mutant: an id may be inserted again. *)
create_staking_pool_Mutant(caller, name, fee, deposit) ==
    LET account == <<PoolFactoryId, name>>
    IN  /\ Called
        /\ deposit >= MinPoolBalance
        /\ assert_valid(fee)
        /\ staking_pool_account_ids' = staking_pool_account_ids \cup {account}
        /\ tokens' = [tokens EXCEPT ![caller] = @ - deposit]
        /\ Sent(CreatePromise(caller, account, deposit))
        /\ UNCHANGED existing

(* The deposit goes through the factory into the promise.  *)
create_staking_pool(caller, name, fee, deposit) ==
    LET account == <<PoolFactoryId, name>>
    IN  /\ Called
        /\ deposit >= MinPoolBalance
        /\ assert_valid(fee)
        /\ account \notin staking_pool_account_ids
        /\ staking_pool_account_ids' = staking_pool_account_ids \cup {account}
        /\ tokens' = [tokens EXCEPT ![caller] = @ - deposit]
        /\ Sent(CreatePromise(caller, account, deposit))
        /\ UNCHANGED existing

(* After a success add_staking_pool is called on the factory's own account, *)
(* which has no such method: the call fails, nobody reads its result and    *)
(* the whitelist does not change.                                           *)
on_staking_pool_create(p) ==
    /\ p.by = PoolFactoryId /\ p.status # "sent"
    /\ promises' = promises \ {p}
    /\ IF is_promise_success(p)
       THEN UNCHANGED <<tokens, staking_pool_account_ids>>
       ELSE /\ staking_pool_account_ids' = staking_pool_account_ids \ {p.account}
            /\ tokens' = Paid(PoolFactoryId, p.caller, p.amount)
    /\ UNCHANGED <<existing, calls>>

Next ==
    \/ \E caller \in Users, name \in Names, fee \in Fees, deposit \in Deposits :
            create_staking_pool(caller, name, fee, deposit)
    \/ \E p \in promises : on_staking_pool_create(p)
=============================================================================
