------------------------------- MODULE Lockup -------------------------------
(***************************************************************************)
(* The lockup contract (src/lockup/src): tokens that are locked until      *)
(* transfers are voted in and a lockup and a release period have passed,   *)
(* that vest by a schedule the foundation may terminate, and that the      *)
(* owner may meanwhile delegate to a whitelisted staking pool.             *)
(*                                                                         *)
(* A method runs atomically; a failed assertion rolls it back, so it is    *)
(* part of the action's guard.  A call to another contract is a promise:   *)
(* it is executed later (stage "call"), and its callback later again       *)
(* (stage "callback").  Any other call may run in between.  Tokens that a  *)
(* pool pays out, and refunds of failed calls, travel in receipts of their *)
(* own (`incoming`) and may arrive before or after the callback.           *)
(*                                                                         *)
(* The staking pools, the whitelist and the poll are external to this      *)
(* module; a call to them may also fail.  Amounts in the model are small   *)
(* naturals, and Option arguments of `new` whose absence behaves as zero   *)
(* (lockup_timestamp, release_duration) are zero.                          *)
(***************************************************************************)
EXTENDS Integers, FiniteSetsExt

CONSTANTS
    Pools,            \* staking pools
    NoPool,           \* no staking pool
    LockupAmount,     \* lockup_amount: the account's balance at `new`
    MinBalance,       \* MIN_BALANCE_FOR_STORAGE
    LockupDuration, LockupTimestamp, ReleaseDuration,
    InitialVestings,  \* vesting information that `new` may be given
    InitialTransfers, \* transfers information that `new` may be given
    ViewOutcomes,     \* whether a view call to a pool or to the poll succeeds
    Amounts,          \* amounts used as arguments
    MaxTime,          \* bound: block timestamps
    MaxPromises,      \* bound: promises in flight
    MaxTokens         \* bound: rewards are paid while there are fewer tokens

Statuses == {"Idle", "Busy"}
TerminationStatuses ==
    {"VestingTerminatedWithDeficit", "UnstakingInProgress", "EverythingUnstaked",
     "WithdrawingFromStakingPoolInProgress", "ReadyToWithdraw",
     "WithdrawingFromAccountInProgress"}
ScheduleType == [start : Nat, cliff : Nat, end : Nat]
TransfersType == [enabled : BOOLEAN, timestamp : Nat]
NoSchedule == [start |-> 0, cliff |-> 0, end |-> 0]
VestingType ==
    [kind : {"None", "VestingHash", "VestingSchedule", "Terminating"},
     schedule : ScheduleType, unvested : Nat,
     status : TerminationStatuses \cup {"none"}]
Vesting(kind, schedule) ==
    [kind |-> kind, schedule |-> schedule, unvested |-> 0, status |-> "none"]

DepositOps == {"deposit", "deposit_and_stake"}
WithdrawOps == {"withdraw", "withdraw_for_termination"}
OtherOps == {"stake", "unstake", "unstake_all", "unstake_for_termination"}
ViewOps == {"total", "unstaked_by_owner", "staked_to_unstake", "unstaked_to_withdraw"}
PoolOps == DepositOps \cup WithdrawOps \cup OtherOps \cup ViewOps
Ops == PoolOps \cup {"is_whitelisted", "withdraw_unvested", "poll"}

Ids == 1 .. MaxPromises
NoPromise == [op |-> "none", pool |-> NoPool, amount |-> 0, stage |-> "none", ok |-> FALSE]
Call(op, p, m) == [op |-> op, pool |-> p, amount |-> m, stage |-> "call", ok |-> FALSE]
PromiseType ==
    [op : Ops \cup {"none"}, pool : Pools \cup {NoPool}, amount : Nat,
     stage : {"call", "callback", "none"}, ok : BOOLEAN]

ASSUME PoolsAssumption == NoPool \notin Pools
ASSUME AmountsAssumption ==
    /\ LockupAmount \in Nat /\ MinBalance \in Nat
    /\ LockupDuration \in Nat /\ LockupTimestamp \in Nat /\ ReleaseDuration \in Nat
    /\ Amounts \subseteq Nat
ASSUME InitialAssumption ==
    /\ InitialVestings \subseteq {v \in VestingType : v.kind # "Terminating"}
    /\ InitialTransfers \subseteq TransfersType
    /\ ViewOutcomes \subseteq BOOLEAN
ASSUME BoundsAssumption ==
    MaxTime \in Nat /\ MaxPromises \in Nat /\ MaxTokens \in Nat

VARIABLES
    staking,    \* staking_information; pool is NoPool for None
    vesting,    \* vesting_information
    transfers,  \* transfers_information
    withdrawn,  \* termination_withdrawn_tokens
    foundation, \* whether foundation_account_id is set
    balance,    \* env::account_balance()
    promises,   \* promises in flight, by slot
    incoming,   \* tokens on their way to the account
    pools,      \* external: the account's balances on each pool
    poll,       \* external: the result of the transfer poll
    now,        \* env::block_timestamp()
    fullKey     \* whether a full access key was added

contract == <<staking, vesting, transfers, withdrawn, foundation>>
world == <<pools, poll, now>>
vars == <<contract, balance, promises, incoming, world, fullKey>>

SatSub(a, b) == IF a >= b THEN a - b ELSE 0
Larger(a, b) == IF a >= b THEN a ELSE b
Smaller(a, b) == IF a <= b THEN a ELSE b

----------------------------------------------------------------------------
(* Getters. *)

get_account_balance == SatSub(balance, MinBalance)

NoStaking == [pool |-> NoPool, status |-> "Idle", deposit_amount |-> 0]

Selected == staking.pool # NoPool

get_known_deposited_balance == IF Selected THEN staking.deposit_amount ELSE 0

Terminating == vesting.kind = "Terminating"

(* The unvested part of the lockup amount under a schedule. *)
Unvested(s) ==
    CASE now < s.cliff -> LockupAmount
      [] now >= s.cliff /\ now >= s.end -> 0
      [] OTHER -> (LockupAmount * (s.end - now)) \div (s.end - s.start)

get_unvested_amount(s) ==
    CASE Terminating -> vesting.unvested
      [] vesting.kind = "None" -> 0
      [] OTHER -> Unvested(s)

unlock_timestamp == Larger(transfers.timestamp + LockupDuration, LockupTimestamp)

unreleased_amount ==
    LET end == unlock_timestamp + ReleaseDuration
    IN  IF now >= end THEN 0
        ELSE (LockupAmount * (end - now)) \div ReleaseDuration

(* Mutant: a terminated schedule no longer locks. *)
get_locked_amount_Mutant ==
    IF transfers.enabled /\ unlock_timestamp <= now
    THEN Larger(SatSub(unreleased_amount, withdrawn),
                IF vesting.kind = "VestingSchedule"
                THEN get_unvested_amount(vesting.schedule) ELSE 0)
    ELSE LockupAmount - withdrawn

get_locked_amount ==
    IF transfers.enabled /\ unlock_timestamp <= now
    THEN Larger(SatSub(unreleased_amount, withdrawn),
                IF vesting.kind \in {"VestingSchedule", "Terminating"}
                THEN get_unvested_amount(vesting.schedule) ELSE 0)
    ELSE LockupAmount - withdrawn

get_owners_balance ==
    SatSub(balance + get_known_deposited_balance, get_locked_amount)

get_liquid_owners_balance == Smaller(get_owners_balance, get_account_balance)

----------------------------------------------------------------------------
(* Assertions and setters. *)

assert_no_termination == ~Terminating
assert_staking_pool_is_idle == Selected /\ staking.status = "Idle"
assert_no_staking_or_idle == Selected => staking.status = "Idle"
assert_staking_pool_is_not_selected == ~Selected

set_staking_pool_status(status) ==
    Selected /\ staking' = [staking EXCEPT !.status = status]

set_termination_status(status) ==
    Terminating /\ vesting' = [vesting EXCEPT !.status = status]

(* The promise is put into the first free slot. *)
Issue(op, p, m) ==
    \E i \in Ids :
        /\ promises[i] = NoPromise
        /\ \A j \in 1 .. (i - 1) : promises[j] # NoPromise
        /\ promises' = [promises EXCEPT ![i] = Call(op, p, m)]

----------------------------------------------------------------------------
(* The owner's methods. *)

select_staking_pool(p) ==
    /\ assert_staking_pool_is_not_selected
    /\ assert_no_termination
    /\ Issue("is_whitelisted", p, 0)
    /\ UNCHANGED <<contract, balance, incoming, world, fullKey>>

unselect_staking_pool ==
    /\ assert_staking_pool_is_idle
    /\ assert_no_termination
    /\ staking.deposit_amount = 0
    /\ staking' = NoStaking
    /\ UNCHANGED <<vesting, transfers, withdrawn, foundation, balance, promises,
                   incoming, world, fullKey>>

(* What every owner's operation on the selected pool does: it takes the     *)
(* Busy lock and calls the pool.                                            *)
PoolOperation(op, m) ==
    /\ assert_staking_pool_is_idle
    /\ assert_no_termination
    /\ set_staking_pool_status("Busy")
    /\ Issue(op, staking.pool, m)
    /\ UNCHANGED <<vesting, transfers, withdrawn, foundation, incoming, world, fullKey>>

(* Mutant: the balance is not checked. *)
Deposit_Mutant(op, m) ==
    /\ m > 0
    /\ PoolOperation(op, m)
    /\ balance' = balance - m

Deposit(op, m) ==
    /\ m > 0
    /\ get_account_balance >= m
    /\ PoolOperation(op, m)
    /\ balance' = balance - m

deposit_to_staking_pool(m) == Deposit("deposit", m)
deposit_and_stake(m) == Deposit("deposit_and_stake", m)
refresh_staking_pool_balance == PoolOperation("total", 0) /\ UNCHANGED balance
withdraw_from_staking_pool(m) ==
    m > 0 /\ PoolOperation("withdraw", m) /\ UNCHANGED balance
withdraw_all_from_staking_pool ==
    PoolOperation("unstaked_by_owner", 0) /\ UNCHANGED balance
stake(m) == m > 0 /\ PoolOperation("stake", m) /\ UNCHANGED balance
unstake(m) == m > 0 /\ PoolOperation("unstake", m) /\ UNCHANGED balance
unstake_all == PoolOperation("unstake_all", 0) /\ UNCHANGED balance

check_transfers_vote ==
    /\ ~transfers.enabled
    /\ assert_no_termination
    /\ Issue("poll", NoPool, 0)
    /\ UNCHANGED <<contract, balance, incoming, world, fullKey>>

(* A transfer to an account that does not exist comes back as a refund. *)
transfer(m) ==
    /\ m > 0
    /\ transfers.enabled
    /\ assert_no_staking_or_idle
    /\ assert_no_termination
    /\ get_liquid_owners_balance >= m
    /\ balance' = balance - m
    /\ incoming' \in {incoming, incoming + m}
    /\ UNCHANGED <<contract, promises, world, fullKey>>

add_full_access_key ==
    /\ transfers.enabled
    /\ assert_no_staking_or_idle
    /\ assert_no_termination
    /\ get_locked_amount = 0
    /\ fullKey' = TRUE
    /\ UNCHANGED <<contract, balance, promises, incoming, world>>

----------------------------------------------------------------------------
(* The foundation's methods. *)

(* Mutant: a schedule that has vested completely can be terminated. *)
terminate_vesting_Mutant ==
    LET unvested == get_unvested_amount(vesting.schedule)
    IN  /\ foundation
        /\ vesting.kind \in {"VestingHash", "VestingSchedule"}
        /\ vesting' = [vesting EXCEPT !.kind = "Terminating", !.unvested = unvested,
                                      !.status = "ReadyToWithdraw"]
        /\ UNCHANGED <<staking, transfers, withdrawn, foundation, balance, promises,
                       incoming, world, fullKey>>

(* A private schedule is revealed by the foundation and checked against its *)
(* hash, so the schedule used is the one the hash was made of.              *)
terminate_vesting ==
    LET unvested == get_unvested_amount(vesting.schedule)
        deficit  == SatSub(unvested, get_account_balance)
    IN  /\ foundation
        /\ vesting.kind \in {"VestingHash", "VestingSchedule"}
        /\ unvested > 0
        /\ vesting' = [vesting EXCEPT
                !.kind = "Terminating",
                !.unvested = unvested,
                !.status = IF deficit > 0 /\ Selected
                           THEN "VestingTerminatedWithDeficit"
                           ELSE "ReadyToWithdraw"]
        /\ UNCHANGED <<staking, transfers, withdrawn, foundation, balance, promises,
                       incoming, world, fullKey>>

PrepareStep(from, to, op) ==
    /\ vesting.status = from
    /\ set_termination_status(to)
    /\ set_staking_pool_status("Busy")
    /\ Issue(op, staking.pool, 0)

termination_prepare_to_withdraw ==
    /\ foundation
    /\ assert_staking_pool_is_idle
    /\ Terminating
    /\ \/ PrepareStep("VestingTerminatedWithDeficit", "UnstakingInProgress",
                      "staked_to_unstake")
       \/ PrepareStep("EverythingUnstaked", "WithdrawingFromStakingPoolInProgress",
                      "unstaked_to_withdraw")
    /\ UNCHANGED <<transfers, withdrawn, foundation, balance, incoming, world, fullKey>>

(* Mutant: the status is left as it is while the transfer is in flight. *)
termination_withdraw_Mutant ==
    LET amount == Smaller(vesting.unvested, get_account_balance)
    IN  /\ foundation
        /\ Terminating
        /\ vesting.status = "ReadyToWithdraw"
        /\ amount > 0
        /\ balance' = balance - amount
        /\ Issue("withdraw_unvested", NoPool, amount)
        /\ UNCHANGED <<contract, incoming, world, fullKey>>

termination_withdraw ==
    LET amount == Smaller(vesting.unvested, get_account_balance)
    IN  /\ foundation
        /\ Terminating
        /\ vesting.status = "ReadyToWithdraw"
        /\ amount > 0
        /\ set_termination_status("WithdrawingFromAccountInProgress")
        /\ balance' = balance - amount
        /\ Issue("withdraw_unvested", NoPool, amount)
        /\ UNCHANGED <<staking, transfers, withdrawn, foundation, incoming, world, fullKey>>

----------------------------------------------------------------------------
(* Callbacks.  A callback that takes its result as an argument panics when  *)
(* the promise failed, and changes nothing.                                 *)

Callback(i, op) == promises[i].op = op /\ promises[i].stage = "callback"
Done(i) == promises' = [promises EXCEPT ![i] = NoPromise]
Then(i, op, m) == promises' = [promises EXCEPT ![i] = Call(op, staking.pool, m)]
CallbackUnchanged == UNCHANGED <<transfers, foundation, incoming, world, fullKey>>

(* Mutant: only a pool in use is not replaced. *)
on_whitelist_is_whitelisted_Mutant(i) ==
    /\ Callback(i, "is_whitelisted")
    /\ Done(i)
    /\ IF promises[i].ok /\ staking.status = "Idle"
       THEN staking' = [pool |-> promises[i].pool, status |-> "Idle", deposit_amount |-> 0]
       ELSE UNCHANGED staking
    /\ UNCHANGED <<vesting, withdrawn, balance>> /\ CallbackUnchanged

on_whitelist_is_whitelisted(i) ==
    /\ Callback(i, "is_whitelisted")
    /\ Done(i)
    /\ IF promises[i].ok /\ assert_staking_pool_is_not_selected /\ assert_no_termination
       THEN staking' = [pool |-> promises[i].pool, status |-> "Idle", deposit_amount |-> 0]
       ELSE UNCHANGED staking
    /\ UNCHANGED <<vesting, withdrawn, balance>> /\ CallbackUnchanged

(* Mutant: the amount is also counted when the deposit failed. *)
DepositCallback_Mutant(i, op) ==
    /\ Callback(i, op)
    /\ Done(i)
    /\ staking' = [staking EXCEPT !.status = "Idle",
                                  !.deposit_amount = @ + promises[i].amount]
    /\ UNCHANGED <<vesting, withdrawn, balance>> /\ CallbackUnchanged

DepositCallback(i, op) ==
    /\ Callback(i, op)
    /\ Done(i)
    /\ staking' = [staking EXCEPT !.status = "Idle",
            !.deposit_amount = IF promises[i].ok THEN @ + promises[i].amount ELSE @]
    /\ UNCHANGED <<vesting, withdrawn, balance>> /\ CallbackUnchanged

on_staking_pool_deposit(i) == DepositCallback(i, "deposit")
on_staking_pool_deposit_and_stake(i) == DepositCallback(i, "deposit_and_stake")

(* The pool's status and, after a success, the known deposit. *)
StakingAfterWithdraw(i) ==
    [staking EXCEPT !.status = "Idle",
        !.deposit_amount = IF promises[i].ok THEN SatSub(@, promises[i].amount) ELSE @]

on_staking_pool_withdraw(i) ==
    /\ Callback(i, "withdraw")
    /\ Done(i)
    /\ staking' = StakingAfterWithdraw(i)
    /\ UNCHANGED <<vesting, withdrawn, balance>> /\ CallbackUnchanged

(* Mutant: a failed call leaves the lock taken. *)
ReleaseLock_Mutant(i, op) ==
    /\ Callback(i, op)
    /\ Done(i)
    /\ set_staking_pool_status(IF promises[i].ok THEN "Idle" ELSE "Busy")
    /\ UNCHANGED <<vesting, withdrawn, balance>> /\ CallbackUnchanged

ReleaseLock(i, op) ==
    /\ Callback(i, op)
    /\ Done(i)
    /\ set_staking_pool_status("Idle")
    /\ UNCHANGED <<vesting, withdrawn, balance>> /\ CallbackUnchanged

on_staking_pool_stake(i) == ReleaseLock(i, "stake")
on_staking_pool_unstake(i) == ReleaseLock(i, "unstake")
on_staking_pool_unstake_all(i) == ReleaseLock(i, "unstake_all")

on_get_result_from_transfer_poll(i) ==
    /\ Callback(i, "poll")
    /\ Done(i)
    /\ transfers' = IF promises[i].ok /\ ~transfers.enabled /\ promises[i].amount > 0
                    THEN [enabled |-> TRUE, timestamp |-> promises[i].amount - 1]
                    ELSE transfers
    /\ UNCHANGED <<staking, vesting, withdrawn, foundation, balance, incoming, world, fullKey>>

(* The callbacks of a view call: nothing happens when it failed. *)
ViewFailed(i) ==
    /\ promises[i].op \in ViewOps
    /\ promises[i].stage = "callback"
    /\ ~promises[i].ok
    /\ Done(i)
    /\ UNCHANGED <<staking, vesting, withdrawn, balance>> /\ CallbackUnchanged

on_get_account_total_balance(i) ==
    /\ Callback(i, "total") /\ promises[i].ok
    /\ Done(i)
    /\ staking' = [staking EXCEPT !.status = "Idle", !.deposit_amount = promises[i].amount]
    /\ UNCHANGED <<vesting, withdrawn, balance>> /\ CallbackUnchanged

(* Mutant: the lock is released before the withdrawal that follows. *)
on_get_unstaked_by_owner_Mutant(i) ==
    /\ Callback(i, "unstaked_by_owner") /\ promises[i].ok
    /\ IF promises[i].amount > 0 THEN Then(i, "withdraw", promises[i].amount) ELSE Done(i)
    /\ set_staking_pool_status("Idle")
    /\ UNCHANGED <<vesting, withdrawn, balance>> /\ CallbackUnchanged

on_get_account_unstaked_balance_to_withdraw_by_owner(i) ==
    /\ Callback(i, "unstaked_by_owner") /\ promises[i].ok
    /\ IF promises[i].amount > 0
       THEN Then(i, "withdraw", promises[i].amount) /\ UNCHANGED staking
       ELSE Done(i) /\ set_staking_pool_status("Idle")
    /\ UNCHANGED <<vesting, withdrawn, balance>> /\ CallbackUnchanged

on_get_account_staked_balance_to_unstake(i) ==
    /\ Callback(i, "staked_to_unstake") /\ promises[i].ok
    /\ IF promises[i].amount > 0
       THEN /\ Then(i, "unstake_for_termination", promises[i].amount)
            /\ UNCHANGED <<staking, vesting>>
       ELSE /\ Done(i)
            /\ set_staking_pool_status("Idle")
            /\ set_termination_status("EverythingUnstaked")
    /\ UNCHANGED <<withdrawn, balance>> /\ CallbackUnchanged

on_staking_pool_unstake_for_termination(i) ==
    /\ Callback(i, "unstake_for_termination")
    /\ Done(i)
    /\ set_staking_pool_status("Idle")
    /\ set_termination_status(IF promises[i].ok THEN "EverythingUnstaked"
                              ELSE "VestingTerminatedWithDeficit")
    /\ UNCHANGED <<withdrawn, balance>> /\ CallbackUnchanged

on_get_account_unstaked_balance_to_withdraw(i) ==
    /\ Callback(i, "unstaked_to_withdraw") /\ promises[i].ok
    /\ IF promises[i].amount > 0
       THEN /\ Then(i, "withdraw_for_termination", promises[i].amount)
            /\ UNCHANGED <<staking, vesting>>
       ELSE /\ Done(i)
            /\ set_staking_pool_status("Idle")
            /\ set_termination_status("ReadyToWithdraw")
    /\ UNCHANGED <<withdrawn, balance>> /\ CallbackUnchanged

on_staking_pool_withdraw_for_termination(i) ==
    /\ Callback(i, "withdraw_for_termination")
    /\ Done(i)
    /\ staking' = StakingAfterWithdraw(i)
    /\ set_termination_status(IF promises[i].ok THEN "ReadyToWithdraw"
                              ELSE "EverythingUnstaked")
    /\ UNCHANGED <<withdrawn, balance>> /\ CallbackUnchanged

(* Mutant: a later withdrawal overwrites the count of the earlier ones. *)
on_withdraw_unvested_amount_Mutant(i) ==
    LET amount == promises[i].amount
    IN  /\ Callback(i, "withdraw_unvested")
        /\ Done(i)
        /\ withdrawn' = IF promises[i].ok THEN amount ELSE withdrawn
        /\ IF promises[i].ok /\ vesting.unvested <= amount
           THEN /\ foundation' = FALSE
                /\ vesting' = Vesting("None", NoSchedule)
           ELSE /\ UNCHANGED foundation
                /\ vesting' = [vesting EXCEPT
                        !.unvested = IF promises[i].ok THEN @ - amount ELSE @,
                        !.status = "ReadyToWithdraw"]
        /\ UNCHANGED <<staking, transfers, balance, incoming, world, fullKey>>

(* Mutant: a failed transfer is not answered. *)
on_withdraw_unvested_failure_Mutant(i) ==
    LET amount == promises[i].amount
    IN  /\ Callback(i, "withdraw_unvested")
        /\ Done(i)
        /\ IF promises[i].ok
           THEN /\ withdrawn' = withdrawn + amount
                /\ foundation' = (vesting.unvested > amount)
                /\ vesting' = IF vesting.unvested <= amount
                              THEN Vesting("None", NoSchedule)
                              ELSE [vesting EXCEPT !.unvested = @ - amount,
                                                   !.status = "ReadyToWithdraw"]
           ELSE UNCHANGED <<withdrawn, foundation, vesting>>
        /\ UNCHANGED <<staking, transfers, balance, incoming, world, fullKey>>

(* After a success the rest stays terminated, or the foundation is dropped  *)
(* with the last of it.                                                     *)
on_withdraw_unvested_amount(i) ==
    LET amount == promises[i].amount
    IN  /\ Callback(i, "withdraw_unvested")
        /\ Done(i)
        /\ withdrawn' = IF promises[i].ok THEN withdrawn + amount ELSE withdrawn
        /\ IF promises[i].ok /\ vesting.unvested <= amount
           THEN /\ foundation' = FALSE
                /\ vesting' = Vesting("None", NoSchedule)
           ELSE /\ UNCHANGED foundation
                /\ vesting' = [vesting EXCEPT
                        !.unvested = IF promises[i].ok THEN @ - amount ELSE @,
                        !.status = "ReadyToWithdraw"]
        /\ UNCHANGED <<staking, transfers, balance, incoming, world, fullKey>>

----------------------------------------------------------------------------
(* The other contracts (external). *)

Resolve(i, ok, amount) ==
    promises' = [promises EXCEPT ![i] =
                    [@ EXCEPT !.stage = "callback", !.ok = ok, !.amount = amount]]

PoolAccepts(op, b, m) ==
    CASE op \in {"stake"} \cup WithdrawOps -> b.unstaked >= m
      [] op \in {"unstake", "unstake_for_termination"} -> b.staked >= m
      [] OTHER -> TRUE

PoolEffect(op, b, m) ==
    CASE op = "deposit" -> [b EXCEPT !.unstaked = @ + m]
      [] op = "deposit_and_stake" -> [b EXCEPT !.staked = @ + m]
      [] op \in WithdrawOps -> [b EXCEPT !.unstaked = @ - m]
      [] op = "stake" -> [staked |-> b.staked + m, unstaked |-> b.unstaked - m]
      [] op \in {"unstake", "unstake_for_termination"} ->
            [staked |-> b.staked - m, unstaked |-> b.unstaked + m]
      [] op = "unstake_all" -> [staked |-> 0, unstaked |-> b.unstaked + b.staked]

(* A pool carries out the call; the tokens of a withdrawal are sent.        *)
PoolExecutes(i) ==
    LET c == promises[i]
    IN  /\ c.op \in PoolOps \ ViewOps /\ c.stage = "call"
        /\ PoolAccepts(c.op, pools[c.pool], c.amount)
        /\ pools' = [pools EXCEPT ![c.pool] = PoolEffect(c.op, @, c.amount)]
        /\ incoming' = IF c.op \in WithdrawOps THEN incoming + c.amount ELSE incoming
        /\ Resolve(i, TRUE, c.amount)
        /\ UNCHANGED <<contract, balance, poll, now, fullKey>>

(* A pool's call fails; an attached deposit is refunded.                    *)
PoolFails(i) ==
    LET c == promises[i]
    IN  /\ c.op \in PoolOps \ ViewOps /\ c.stage = "call"
        /\ incoming' = IF c.op \in DepositOps THEN incoming + c.amount ELSE incoming
        /\ Resolve(i, FALSE, c.amount)
        /\ UNCHANGED <<contract, balance, world, fullKey>>

ViewResult(op, b) ==
    CASE op = "total" -> b.staked + b.unstaked
      [] op = "staked_to_unstake" -> b.staked
      [] OTHER -> b.unstaked

(* The code sends its view calls on pools and on the poll to its own        *)
(* account, where they can only fail (ViewOutcomes = {FALSE}).  A larger    *)
(* ViewOutcomes also lets them reach the contract they name.                *)
ViewExecutes(i, ok) ==
    LET c == promises[i]
    IN  /\ c.op \in ViewOps /\ c.stage = "call"
        /\ Resolve(i, ok, IF ok THEN ViewResult(c.op, pools[c.pool]) ELSE 0)
        /\ UNCHANGED <<contract, balance, incoming, world, fullKey>>

(* The poll answers None (0) or the timestamp of its decision (plus one).   *)
PollExecutes(i, ok) ==
    /\ promises[i].op = "poll" /\ promises[i].stage = "call"
    /\ Resolve(i, ok, IF ok /\ poll.enabled THEN poll.timestamp + 1 ELSE 0)
    /\ UNCHANGED <<contract, balance, incoming, world, fullKey>>

WhitelistExecutes(i, ok) ==
    /\ promises[i].op = "is_whitelisted" /\ promises[i].stage = "call"
    /\ Resolve(i, ok, 0)
    /\ UNCHANGED <<contract, balance, incoming, world, fullKey>>

TransferExecutes(i, ok) ==
    LET c == promises[i]
    IN  /\ c.op = "withdraw_unvested" /\ c.stage = "call"
        /\ incoming' = IF ok THEN incoming ELSE incoming + c.amount
        /\ Resolve(i, ok, c.amount)
        /\ UNCHANGED <<contract, balance, world, fullKey>>

Arrive(m) ==
    /\ m <= incoming
    /\ incoming' = incoming - m
    /\ balance' = balance + m
    /\ UNCHANGED <<contract, promises, world, fullKey>>

PoolReward(p) ==
    /\ pools[p].staked > 0
    /\ balance + incoming + pools[p].staked + pools[p].unstaked < MaxTokens
    /\ pools' = [pools EXCEPT ![p].staked = @ + 1]
    /\ UNCHANGED <<contract, balance, promises, incoming, poll, now, fullKey>>

VoteTransfers ==
    /\ ~poll.enabled
    /\ poll' = [enabled |-> TRUE, timestamp |-> now]
    /\ UNCHANGED <<contract, balance, promises, incoming, pools, now, fullKey>>

Tick ==
    /\ now < MaxTime
    /\ now' = now + 1
    /\ UNCHANGED <<contract, balance, promises, incoming, pools, poll, fullKey>>

----------------------------------------------------------------------------
Init ==
    /\ staking = NoStaking
    /\ vesting \in InitialVestings
    /\ transfers \in InitialTransfers
    /\ withdrawn = 0
    /\ foundation = (vesting.kind # "None")
    /\ balance = LockupAmount
    /\ promises = [i \in Ids |-> NoPromise]
    /\ incoming = 0
    /\ pools = [p \in Pools |-> [staked |-> 0, unstaked |-> 0]]
    /\ poll = [enabled |-> FALSE, timestamp |-> 0]
    /\ now = 0
    /\ fullKey = FALSE

OwnerMethods ==
    \/ \E p \in Pools : select_staking_pool(p)
    \/ unselect_staking_pool
    \/ \E m \in Amounts : \/ deposit_to_staking_pool(m)
                          \/ deposit_and_stake(m)
                          \/ withdraw_from_staking_pool(m)
                          \/ stake(m)
                          \/ unstake(m)
                          \/ transfer(m)
    \/ refresh_staking_pool_balance
    \/ withdraw_all_from_staking_pool
    \/ unstake_all
    \/ check_transfers_vote
    \/ add_full_access_key

FoundationMethods ==
    \/ terminate_vesting
    \/ termination_prepare_to_withdraw
    \/ termination_withdraw

Callbacks(i) ==
    \/ on_whitelist_is_whitelisted(i)
    \/ on_staking_pool_deposit(i)
    \/ on_staking_pool_deposit_and_stake(i)
    \/ on_staking_pool_withdraw(i)
    \/ on_staking_pool_stake(i)
    \/ on_staking_pool_unstake(i)
    \/ on_staking_pool_unstake_all(i)
    \/ on_get_result_from_transfer_poll(i)
    \/ ViewFailed(i)
    \/ on_get_account_total_balance(i)
    \/ on_get_account_unstaked_balance_to_withdraw_by_owner(i)
    \/ on_get_account_staked_balance_to_unstake(i)
    \/ on_staking_pool_unstake_for_termination(i)
    \/ on_get_account_unstaked_balance_to_withdraw(i)
    \/ on_staking_pool_withdraw_for_termination(i)
    \/ on_withdraw_unvested_amount(i)

Executions(i) ==
    \/ PoolExecutes(i)
    \/ PoolFails(i)
    \/ \E ok \in ViewOutcomes : ViewExecutes(i, ok) \/ PollExecutes(i, ok)
    \/ \E ok \in BOOLEAN : WhitelistExecutes(i, ok) \/ TransferExecutes(i, ok)

Next ==
    \/ OwnerMethods
    \/ FoundationMethods
    \/ \E i \in Ids : Callbacks(i) \/ Executions(i)
    \/ \E m \in 1 .. incoming : Arrive(m)
    \/ \E p \in Pools : PoolReward(p)
    \/ VoteTransfers
    \/ Tick

Spec == Init /\ [][Next]_vars

(* The runtime executes every receipt: promises and callbacks are carried   *)
(* out and transfers arrive.  No user is obliged to call anything.          *)
Fairness ==
    /\ \A i \in Ids : WF_vars(Executions(i)) /\ WF_vars(Callbacks(i))
    /\ WF_vars(\E m \in 1 .. incoming : Arrive(m))

FairSpec == Spec /\ Fairness

----------------------------------------------------------------------------
(* Properties. *)

StakingType ==
    [pool : Pools \cup {NoPool}, status : Statuses, deposit_amount : Nat]

(* Every field has the type of the source's struct; in particular no        *)
(* subtraction of balances or of termination amounts underflows.            *)
TypeOK ==
    /\ staking \in StakingType
    /\ vesting \in VestingType
    /\ transfers \in TransfersType
    /\ withdrawn \in Nat
    /\ foundation \in BOOLEAN
    /\ balance \in Nat
    /\ promises \in [Ids -> PromiseType]
    /\ incoming \in Nat
    /\ pools \in [Pools -> [staked : Nat, unstaked : Nat]]
    /\ poll \in TransfersType
    /\ now \in Nat
    /\ fullKey \in BOOLEAN

InFlight(ops) == {i \in Ids : promises[i].op \in ops}

(* The Busy status is a lock on the staking pool: at most one operation on  *)
(* a pool is in flight, it is on the selected pool, and the lock is held    *)
(* until its last callback.  The callbacks' unwraps of staking_information  *)
(* therefore cannot panic, and no two operations interleave on the known    *)
(* deposit.                                                                 *)
OnePoolOperation ==
    \A i \in InFlight(PoolOps) :
        /\ InFlight(PoolOps) = {i}
        /\ Selected /\ staking.pool = promises[i].pool
        /\ staking.status = "Busy"

StatusOfOp(op) ==
    CASE op \in {"staked_to_unstake", "unstake_for_termination"} -> "UnstakingInProgress"
      [] op \in {"unstaked_to_withdraw", "withdraw_for_termination"} ->
            "WithdrawingFromStakingPoolInProgress"
      [] op = "withdraw_unvested" -> "WithdrawingFromAccountInProgress"

TerminationOps ==
    {"staked_to_unstake", "unstake_for_termination", "unstaked_to_withdraw",
     "withdraw_for_termination", "withdraw_unvested"}

(* A promise issued by the foundation finds the termination in the status   *)
(* that it was left in, whatever ran in between: set_termination_status     *)
(* never reaches its unreachable!(), and no two termination transactions    *)
(* are in flight ("to avoid withdrawing the funds twice").                  *)
OneTerminationTransaction ==
    \A i \in InFlight(TerminationOps) :
        /\ InFlight(TerminationOps) = {i}
        /\ Terminating
        /\ vesting.status = StatusOfOp(promises[i].op)

(* What the foundation has taken and may still take. *)
Claim == withdrawn + (IF Terminating THEN vesting.unvested ELSE 0)

(* Once vesting is terminated, the foundation's claim is fixed: failed or   *)
(* partial withdrawals neither lose a part of it nor pay it twice.          *)
ClaimIsFixed == [][Terminating => Claim' = Claim]_vars

(* What is not vested is locked, so the owner cannot transfer it, and the   *)
(* subtraction in get_locked_vested_amount cannot underflow: "the amount of *)
(* tokens available to transfer is subject to the minimum between vested    *)
(* tokens and released tokens" (lib.rs, new).                               *)
LockedCoversUnvested == get_locked_amount >= get_unvested_amount(vesting.schedule)

(* "The unvested amount can't be larger than lockup_amount because the      *)
(* time_left is smaller than total_time." (getters.rs, get_unvested_amount) *)
UnvestedWithinLockup == get_unvested_amount(vesting.schedule) <= LockupAmount

(* Tokens still locked are never given out: whenever no transaction is in   *)
(* progress, the account, the transfers that are on their way to it and the *)
(* known deposit cover the locked amount.                                   *)
LockedFundsAreKept ==
    (InFlight(PoolOps \cup TerminationOps) = {} /\ ~fullKey) =>
        balance + incoming + get_known_deposited_balance >= get_locked_amount

(* Neither time, nor the vote, nor a termination, nor any operation locks   *)
(* tokens again that were released.                                         *)
LockedNeverGrows == [][get_locked_amount' <= get_locked_amount]_vars

(* A known deposit is never forgotten: the selected pool changes only when  *)
(* nothing is known to be deposited on it, even if several select_staking_pool *)
(* calls wait for the whitelist at the same time.                           *)
KnownDepositStaysKnown ==
    [][Selected /\ staking.deposit_amount > 0 => staking'.pool = staking.pool]_vars

(* After the full access key was added nothing is or becomes locked, and no *)
(* termination can take tokens that are the owner's.                        *)
FullKeyOnlyWhenFree == fullKey => get_locked_amount = 0 /\ ~Terminating

(* A deposit, withdrawal, stake or unstake in flight ends with the lock     *)
(* released, whether the pool carries it out or fails.                      *)
PoolOperationEnds ==
    InFlight(PoolOps \ ViewOps) # {} ~> (Selected => staking.status = "Idle")

(* A transfer of the unvested tokens ends with the termination finished or  *)
(* ready for the next withdrawal, also if the transfer fails.               *)
TerminationTransferEnds ==
    InFlight({"withdraw_unvested"}) # {} ~>
        (Terminating => vesting.status # "WithdrawingFromAccountInProgress")

(* "Busy: There is a transaction in progress." (types.rs,                   *)
(* TransactionStatus)                                                       *)
BusyMeansInProgress ==
    Selected /\ staking.status = "Busy" => InFlight(PoolOps) # {}
=============================================================================
