---------------------------- MODULE SocialStorage ----------------------------
(***************************************************************************)
(* Storage accounting of the social contract (src/social-web3/contract/src *)
(* account.rs, shared_storage.rs, storage_tracker.rs, legacy.rs, lib.rs).  *)
(* Every account pays for the bytes its data takes, with its own balance   *)
(* or with bytes of a shared pool.  What a call writes is a number of      *)
(* bytes here; the module Social adds the tree of nodes.  A call that      *)
(* panics changes nothing, so its checks are guards.                       *)
(***************************************************************************)
EXTENDS Sums

CONSTANTS
    AccountIds,
    PoolOwners,       \* accounts that may own a shared storage pool
    NoPool,           \* shared_storage is None
    Legacy,           \* accounts stored as AccountV0 by an earlier version
    AccountBytes,     \* bytes of a new account: its node, root entry and record
    ShareBytes,       \* pool owner -> bytes of Some(shared_storage)
    PoolBytes,        \* bytes of a pool's entry
    ByteCost,         \* env::storage_byte_cost
    MinStorageBytes,  \* MIN_STORAGE_BYTES
    MinPoolBalance,   \* MINIMUM_SHARED_STORAGE_BALANCE
    Deposits,         \* deposits that callers may attach
    MaxBytesChoices,  \* max_bytes that share_storage may be given
    Writes,           \* bytes that a write may add or release
    MaxTokens,        \* bound on an account's storage balance
    MaxPoolTokens     \* bound on a pool's storage balance

ASSUME AccountIdsAssumption == IsFiniteSet(AccountIds)
ASSUME ByteCostAssumption == ByteCost \in Nat \ {0}
ASSUME BytesAssumption ==
    /\ AccountBytes \in Nat \ {0} /\ PoolBytes \in Nat /\ MinStorageBytes \in Nat
    /\ ShareBytes \in [PoolOwners -> Nat]
ASSUME LegacyAssumption == Legacy \subseteq AccountIds
ASSUME NoPoolAssumption == NoPool \notin PoolOwners
ASSUME InputsAssumption ==
    /\ Deposits \subseteq Nat /\ MaxBytesChoices \subseteq Nat /\ Writes \subseteq Int
    /\ MinPoolBalance \in Nat /\ MaxTokens \in Nat /\ MaxPoolTokens \in Nat
(* The least deposit pays for the pool's own entry, and the least share for *)
(* a new account (100 UNC and 2000 bytes do).                               *)
ASSUME MinimaAssumption ==
    /\ PoolBytes * ByteCost <= MinPoolBalance
    /\ \A p \in PoolOwners : AccountBytes + ShareBytes[p] <= MinStorageBytes

VARIABLES
    status,    \* ContractStatus
    accounts,  \* AccountId -> Account
    pools,     \* owner -> SharedStoragePool
    stored     \* AccountId -> bytes of the account in the contract's state (external)

vars == <<status, accounts, pools, stored>>

NoShare == [pool_id |-> NoPool, max_bytes |-> 0, used_bytes |-> 0]

NoAccount == [version |-> "None", storage_balance |-> 0, used_bytes |-> 0, shared_storage |-> NoShare]

(* Account::new *)
NewAccount == [NoAccount EXCEPT !.version = "Current"]

NoSharedPool == [exists |-> FALSE, storage_balance |-> 0, used_bytes |-> 0, shared_bytes |-> 0]

Registered(a) == accounts[a].version # "None"

(* Mutant: the new field is forgotten. *)
internal_get_account_Mutant(a) ==
    IF accounts[a].version = "V0" THEN [accounts[a] EXCEPT !.version = "Current"] ELSE accounts[a]

(* internal_get_account; an AccountV0 gets the byte of the new field. *)
internal_get_account(a) ==
    IF accounts[a].version = "V0"
    THEN [accounts[a] EXCEPT !.version = "Current", !.used_bytes = @ + 1]
    ELSE accounts[a]

(* The byte that storing an AccountV0 as the current version adds. *)
MigratedBytes(a) == IF accounts[a].version = "V0" THEN 1 ELSE 0

IsShared(account) == account.shared_storage.pool_id # NoPool

(* SharedStoragePool::available_bytes *)
pool_available_bytes(pool) == pool.storage_balance \div ByteCost - pool.used_bytes

Least(m, n) == IF m <= n THEN m ELSE n

(* AccountSharedStorage::available_bytes *)
available_bytes(shared_storage, pool) ==
    Least(shared_storage.max_bytes - shared_storage.used_bytes, pool_available_bytes(pool))

NeededBalance(account) == (account.used_bytes - account.shared_storage.used_bytes) * ByteCost

(* assert_storage_covered *)
StorageCovered(account) == NeededBalance(account) <= account.storage_balance

(* Mutant: the pool's own limit is not looked at. *)
PoolPart_Mutant(account, ps, bytes) ==
    LET shared == account.shared_storage
    IN  IF shared.pool_id = NoPool \/ bytes = 0 THEN 0
        ELSE IF bytes > 0 THEN Least(shared.max_bytes - shared.used_bytes, bytes)
        ELSE -Least(shared.used_bytes, -bytes)

(* The part of `bytes` more (or less) that a shared pool pays (or gets back). *)
PoolPart(account, ps, bytes) ==
    LET shared == account.shared_storage
    IN  IF shared.pool_id = NoPool \/ bytes = 0 THEN 0
        ELSE IF bytes > 0 THEN Least(available_bytes(shared, ps[shared.pool_id]), bytes)
        ELSE -Least(shared.used_bytes, -bytes)

(* internal_set_account: the account as it is stored when its tracker holds *)
(* `bytes`, and its pool.                                                   *)
Charged(account, ps, bytes) ==
    [account EXCEPT !.used_bytes = @ + bytes,
                    !.shared_storage.used_bytes = @ + PoolPart(account, ps, bytes)]

ChargedPools(account, ps, bytes) ==
    IF IsShared(account)
    THEN [ps EXCEPT ![account.shared_storage.pool_id].used_bytes = @ + PoolPart(account, ps, bytes)]
    ELSE ps

(* Only an account that grows must be covered. *)
internal_set_account(a, account, ps, bytes) ==
    /\ bytes > 0 => StorageCovered(Charged(account, ps, bytes))
    /\ accounts' = [accounts EXCEPT ![a] = Charged(account, ps, bytes)]
    /\ pools' = ChargedPools(account, ps, bytes)

(* internal_storage_balance_of: the subtraction saturates. *)
AvailableBalance(account) ==
    IF StorageCovered(account) THEN account.storage_balance - NeededBalance(account) ELSE 0

(* internal_create_account: the account that is stored, if it is covered.  *)
CreatedAccount(deposit, registration_only) ==
    [NewAccount EXCEPT !.storage_balance = IF registration_only THEN 0 ELSE deposit,
                       !.used_bytes = AccountBytes]

(* internal_unwrap_account_or_create *)
AccountOrCreated(a, deposit) ==
    IF Registered(a)
    THEN [internal_get_account(a) EXCEPT !.storage_balance = @ + deposit]
    ELSE CreatedAccount(deposit, FALSE)

CanCreate(a, deposit) == Registered(a) \/ StorageCovered(CreatedAccount(deposit, FALSE))

(* The bytes in the state when AccountOrCreated is stored. *)
StoredBytes(a) == IF Registered(a) THEN stored[a] + MigratedBytes(a) ELSE AccountBytes

(* The bytes of account a that are not data. *)
RecordBytes(account) ==
    AccountBytes + IF IsShared(account) THEN ShareBytes[account.shared_storage.pool_id] ELSE 0

assert_live == status = "Live"

set_status(new_status) ==
    /\ new_status # "Genesis"
    /\ status' = new_status
    /\ UNCHANGED <<accounts, pools, stored>>

(* Account a pays for a write to its data: it is created if need be,        *)
(* charged, and with refund_unused_deposit the unused part of the deposit   *)
(* goes back.                                                               *)
Pay(a, bytes, deposit, refund) ==
    LET account == AccountOrCreated(a, deposit)
        charged == Charged(account, pools, bytes)
        returned == IF refund THEN Least(AvailableBalance(charged), deposit) ELSE 0
    IN  /\ CanCreate(a, deposit)
        /\ account.storage_balance <= MaxTokens
        /\ bytes > 0 => StorageCovered(charged)
        /\ accounts' = [accounts EXCEPT ![a] = [charged EXCEPT !.storage_balance = @ - returned]]
        /\ pools' = ChargedPools(account, pools, bytes)
        /\ UNCHANGED status

(* No more data is released than there is. *)
Write(a, bytes, deposit, refund) ==
    /\ assert_live
    /\ StoredBytes(a) + bytes >= RecordBytes(AccountOrCreated(a, deposit))
    /\ Pay(a, bytes, deposit, refund)
    /\ stored' = [stored EXCEPT ![a] = StoredBytes(a) + bytes]

(* `set` for one account.  Data for several accounts is written as by       *)
(* several calls, of which the first carries the deposit.                   *)
WriteData(a, bytes, deposit, refund) == Write(a, bytes, deposit, refund)

WritePermission(a, bytes, deposit) ==
    /\ deposit > 0
    /\ Write(a, bytes, deposit, FALSE)

(* With registration_only the deposit of a known account is refunded and    *)
(* nothing changes; a new account is not covered.                           *)
PayDeposit(a, registration_only, deposit) ==
    /\ assert_live
    /\ accounts[a].storage_balance + deposit <= MaxTokens
    /\ IF Registered(a)
       THEN /\ ~(registration_only /\ deposit > 0)
            /\ internal_set_account(a, AccountOrCreated(a, deposit), pools, 0)
       ELSE /\ StorageCovered(CreatedAccount(deposit, registration_only))
            /\ accounts' = [accounts EXCEPT ![a] = CreatedAccount(deposit, registration_only)]
            /\ UNCHANGED pools
    /\ UNCHANGED status

storage_deposit(a, registration_only, deposit) ==
    /\ PayDeposit(a, registration_only, deposit)
    /\ stored' = [stored EXCEPT ![a] = StoredBytes(a)]

(* Mutant: the whole balance may be withdrawn. *)
storage_withdraw_Mutant(a, amount) ==
    /\ assert_live
    /\ Registered(a)
    /\ amount > 0 /\ amount <= accounts[a].storage_balance
    /\ internal_set_account(a, [internal_get_account(a) EXCEPT !.storage_balance = @ - amount],
                            pools, 0)
    /\ stored' = [stored EXCEPT ![a] = StoredBytes(a)]
    /\ UNCHANGED status

storage_withdraw(a, amount) ==
    LET account == internal_get_account(a)
    IN  /\ assert_live
        /\ Registered(a)
        /\ amount > 0 /\ amount <= AvailableBalance(account)
        /\ internal_set_account(a, [account EXCEPT !.storage_balance = @ - amount], pools, 0)
        /\ stored' = [stored EXCEPT ![a] = StoredBytes(a)]
        /\ UNCHANGED status

(* This and share_storage do not ask for the status. *)
shared_storage_pool_deposit(owner, deposit) ==
    LET pool == pools[owner]
    IN  /\ deposit >= MinPoolBalance
        /\ pool.storage_balance + deposit <= MaxPoolTokens
        /\ pools' = [pools EXCEPT ![owner] =
                [pool EXCEPT !.exists = TRUE,
                             !.storage_balance = @ + deposit,
                             !.used_bytes = IF pool.exists THEN @ ELSE PoolBytes]]
        /\ UNCHANGED <<status, accounts, stored>>

CanShare(pool_id, max_bytes) ==
    /\ max_bytes >= MinStorageBytes
    /\ pools[pool_id].exists
    /\ pool_available_bytes(pools[pool_id]) >= max_bytes

Share(pool_id, max_bytes, used_bytes) ==
    [pool_id |-> pool_id, max_bytes |-> max_bytes, used_bytes |-> used_bytes]

(* share_storage for an account that does not exist: *)
(* internal_create_account_from_shared_storage.      *)
share_storage_new(pool_id, a, max_bytes) ==
    LET share == Share(pool_id, max_bytes, 0)
        bytes == AccountBytes + ShareBytes[pool_id]
    IN  /\ CanShare(pool_id, max_bytes) /\ ~Registered(a)
        /\ available_bytes(share, pools[pool_id]) >= MinStorageBytes
        /\ internal_set_account(a, [NewAccount EXCEPT !.shared_storage = share],
                [pools EXCEPT ![pool_id].shared_bytes = @ + max_bytes], bytes)
        /\ stored' = [stored EXCEPT ![a] = bytes]
        /\ UNCHANGED status

(* share_storage for an account that uses no shared storage.  The tracker   *)
(* counts the byte of a migrated AccountV0 once more.                       *)
share_storage_first(pool_id, a, max_bytes) ==
    LET bytes == ShareBytes[pool_id] + MigratedBytes(a)
    IN  /\ CanShare(pool_id, max_bytes) /\ Registered(a) /\ ~IsShared(accounts[a])
        /\ internal_set_account(a,
                [internal_get_account(a) EXCEPT !.shared_storage = Share(pool_id, max_bytes, 0)],
                [pools EXCEPT ![pool_id].shared_bytes = @ + max_bytes], bytes)
        /\ stored' = [stored EXCEPT ![a] = @ + bytes]
        /\ UNCHANGED status

(* share_storage by the pool the account uses already. *)
share_storage_more(pool_id, a, max_bytes) ==
    LET current == accounts[a].shared_storage
    IN  /\ CanShare(pool_id, max_bytes) /\ current.pool_id = pool_id
        /\ max_bytes >= current.used_bytes
        /\ max_bytes > current.max_bytes
        /\ internal_set_account(a,
                [accounts[a] EXCEPT !.shared_storage.max_bytes = max_bytes],
                [pools EXCEPT ![pool_id].shared_bytes = @ + max_bytes - current.max_bytes], 0)
        /\ UNCHANGED <<status, stored>>

(* Mutant: the bytes in use stay with the earlier pool. *)
MovedPools_Mutant(pool_id, current, max_bytes) ==
    [pools EXCEPT
        ![current.pool_id].shared_bytes = @ - current.max_bytes,
        ![pool_id].used_bytes = @ + current.used_bytes,
        ![pool_id].shared_bytes = @ + max_bytes]

MovedPools(pool_id, current, max_bytes) ==
    [pools EXCEPT
        ![current.pool_id].used_bytes = @ - current.used_bytes,
        ![current.pool_id].shared_bytes = @ - current.max_bytes,
        ![pool_id].used_bytes = @ + current.used_bytes,
        ![pool_id].shared_bytes = @ + max_bytes]

(* share_storage by another pool than the one the account uses. *)
share_storage_other(pool_id, a, max_bytes) ==
    LET current == accounts[a].shared_storage
        bytes == ShareBytes[pool_id] - ShareBytes[current.pool_id]
    IN  /\ CanShare(pool_id, max_bytes) /\ current.pool_id \notin {pool_id, NoPool}
        /\ max_bytes >= current.used_bytes
        /\ available_bytes(Share(pool_id, max_bytes, 0), pools[pool_id]) >=
                current.used_bytes + available_bytes(current, pools[current.pool_id])
                    + MinStorageBytes
        /\ internal_set_account(a,
                [accounts[a] EXCEPT
                    !.shared_storage = Share(pool_id, max_bytes, current.used_bytes)],
                MovedPools(pool_id, current, max_bytes), bytes)
        /\ stored' = [stored EXCEPT ![a] = @ + bytes]
        /\ UNCHANGED status

share_storage(pool_id, a, max_bytes) ==
    \/ share_storage_new(pool_id, a, max_bytes)
    \/ share_storage_first(pool_id, a, max_bytes)
    \/ share_storage_more(pool_id, a, max_bytes)
    \/ share_storage_other(pool_id, a, max_bytes)

(* The contract is new, or follows a version without shared storage whose   *)
(* accounts are covered (migrate_state).                                    *)
Init ==
    /\ status \in {"Genesis", "Live"}
    /\ accounts = [a \in AccountIds |->
            IF a \in Legacy /\ status = "Live"
            THEN [NoAccount EXCEPT !.version = "V0",
                                   !.storage_balance = (AccountBytes - 1) * ByteCost,
                                   !.used_bytes = AccountBytes - 1]
            ELSE NoAccount]
    /\ pools = [p \in PoolOwners |-> NoSharedPool]
    /\ stored = [a \in AccountIds |-> accounts[a].used_bytes]

StorageNext ==
    \/ \E new_status \in {"Genesis", "Live", "ReadOnly"} : set_status(new_status)
    \/ \E a \in AccountIds, deposit \in Deposits :
        \/ \E registration_only \in BOOLEAN : storage_deposit(a, registration_only, deposit)
        \/ \E bytes \in Writes :
            \/ \E refund \in BOOLEAN : WriteData(a, bytes, deposit, refund)
            \/ WritePermission(a, bytes, deposit)
    \/ \E a \in AccountIds :
        \E amount \in Deposits \cup {AvailableBalance(internal_get_account(a))} :
            storage_withdraw(a, amount)
    \/ \E p \in PoolOwners, deposit \in Deposits : shared_storage_pool_deposit(p, deposit)
    \/ \E p \in PoolOwners, a \in AccountIds, max_bytes \in MaxBytesChoices :
            share_storage(p, a, max_bytes)

Spec == Init /\ [][StorageNext]_vars

----------------------------------------------------------------------------
(* Properties. *)

(* What is used of a pool is paid for, and an account takes from its pool   *)
(* no more than its share and no more than its data.  So no unsigned        *)
(* subtraction underflows (SharedStoragePool::available_bytes,              *)
(* AccountSharedStorage::available_bytes, assert_storage_covered) and the   *)
(* accounts of a pool cannot lock each other out.                           *)
PoolsCoverShares ==
    /\ \A p \in PoolOwners : pools[p].used_bytes * ByteCost <= pools[p].storage_balance
    /\ \A a \in AccountIds :
        /\ accounts[a].shared_storage.used_bytes \in 0 .. accounts[a].shared_storage.max_bytes
        /\ accounts[a].shared_storage.used_bytes <= accounts[a].used_bytes
        /\ ~IsShared(accounts[a]) => accounts[a].shared_storage = NoShare
        /\ IsShared(accounts[a]) => pools[accounts[a].shared_storage.pool_id].exists

(* The bytes of every account are paid for by its balance and its pool,     *)
(* whatever is written, released, shared and withdrawn; an AccountV0 may    *)
(* lack the byte of its migration (assert_storage_covered,                  *)
(* storage_withdraw, legacy.rs).                                            *)
AccountsAreCovered ==
    \A a \in AccountIds :
        NeededBalance(accounts[a]) <=
            accounts[a].storage_balance + (IF a \in Legacy THEN ByteCost ELSE 0)

(* used_bytes is what the account really takes in the state (an AccountV0   *)
(* that was shared storage counts a byte twice), so releasing data never    *)
(* meets "Internal storage accounting bug" (internal_set_account).          *)
UsedBytesAreStored ==
    \A a \in AccountIds :
        accounts[a].used_bytes - stored[a] \in (IF a \in Legacy THEN {0, 1} ELSE {0})

(* What an account uses, and may use, of pool p. *)
UsedOf(account, p) ==
    IF account.shared_storage.pool_id = p THEN account.shared_storage.used_bytes ELSE 0
ShareOf(account, p) ==
    IF account.shared_storage.pool_id = p THEN account.shared_storage.max_bytes ELSE 0

(* A pool counts exactly what its accounts use and may use, also when       *)
(* accounts move between pools, so its second release never meets "Internal *)
(* storage accounting bug" (internal_set_account, share_storage).           *)
PoolsCountTheirAccounts ==
    \A p \in PoolOwners :
        /\ pools[p].used_bytes = (IF pools[p].exists THEN PoolBytes ELSE 0)
                + SumOver([a \in AccountIds |-> UsedOf(accounts[a], p)], AccountIds)
        /\ pools[p].shared_bytes =
                SumOver([a \in AccountIds |-> ShareOf(accounts[a], p)], AccountIds)
=============================================================================
