------------------------------- MODULE Launch --------------------------------
(***************************************************************************)
(* The contracts that create the accounts of the system, on one runtime,   *)
(* with the whitelist of staking pools.                                    *)
(***************************************************************************)
EXTENDS Promises

CONSTANTS
    PoolFactoryId, LockupFactoryId, MultisigFactoryId, AirdropId, Foundation,
    MinPoolBalance, MinLockupBalance, Fees, Keys, Allowance

ASSUME ContractsAssumption ==
    /\ {PoolFactoryId, LockupFactoryId, MultisigFactoryId, AirdropId} \subseteq Contracts
    /\ PoolFactoryId \notin {LockupFactoryId, MultisigFactoryId, AirdropId}
    /\ LockupFactoryId \notin {MultisigFactoryId, AirdropId}
    /\ MultisigFactoryId # AirdropId
ASSUME KeysAssumption == IsFiniteSet(Keys) /\ NoKey \notin Keys /\ Allowance \in Nat

VARIABLES staking_pool_account_ids, accounts, keys, whitelist, factory_whitelist

vars == <<runtime, staking_pool_account_ids, accounts, keys, whitelist, factory_whitelist>>

PoolFactory == INSTANCE StakingPoolFactory
LockupCreator == INSTANCE LockupFactory
MultisigCreator == INSTANCE MultisigFactory
Drop == INSTANCE Airdrop
List == INSTANCE Whitelist
            WITH Callers <- {Foundation, PoolFactoryId}, Pools <- {PoolFactoryId} \X Names

Init ==
    /\ RuntimeInit
    /\ PoolFactory!Init
    /\ Drop!Init
    /\ List!Init

Next ==
    \/ RuntimeNext /\ UNCHANGED <<staking_pool_account_ids, accounts, keys, whitelist, factory_whitelist>>
    \/ PoolFactory!Next /\ UNCHANGED <<accounts, keys, whitelist, factory_whitelist>>
    \/ (LockupCreator!Next \/ MultisigCreator!Next)
            /\ UNCHANGED <<staking_pool_account_ids, accounts, keys, whitelist, factory_whitelist>>
    \/ Drop!Next /\ UNCHANGED <<staking_pool_account_ids, whitelist, factory_whitelist>>
    \/ List!Next /\ Called
            /\ UNCHANGED <<tokens, existing, promises, staking_pool_account_ids, accounts, keys>>

Spec == Init /\ [][Next]_vars

----------------------------------------------------------------------------
(* Properties. *)

(* The listed ids are exactly the pools that exist or are being created,    *)
(* however creations of the same id fail and are repeated                   *)
(* (create_staking_pool, on_staking_pool_create).                           *)
ListedPoolsExist ==
    staking_pool_account_ids =
        {a \in existing : a[1] = PoolFactoryId}
            \cup {p.account : p \in {q \in promises : q.by = PoolFactoryId}}

(* The two factories keep no deposit: each holds only what came back from   *)
(* failed creations until the callback refunds it, once                     *)
(* (on_staking_pool_create, on_lockup_create).                              *)
FactoriesKeepNoDeposit ==
    \A f \in {PoolFactoryId, LockupFactoryId} : tokens[f] = AwaitingRefund(f)

(* The airdrop can pay every amount it owes: what the keys may claim, what  *)
(* comes back to a key and what it must refund (send, claim,                *)
(* create_account_and_claim and the callbacks).                             *)
AirdropIsSolvent ==
    tokens[AirdropId] >=
        SumOver([k \in Keys |-> Drop!get_key_balance(k)], Keys) + AwaitingRefund(AirdropId)

(* A key's amount shrinks only when all of it leaves the airdrop by a call  *)
(* signed with the key; the exception is an amount sent while the key's     *)
(* claim was in flight (send, on_account_created_and_claimed).              *)
OnlyClaimsTake ==
    [][\A k \in Keys :
        accounts'[k] < accounts[k] =>
            \/ /\ k \in keys /\ accounts'[k] = 0
               /\ tokens'[AirdropId] = tokens[AirdropId] - accounts[k]
            \/ \E p \in promises : p.key = k /\ p.kind = "create"]_vars
=============================================================================
