---------------------------- MODULE StakingPool ----------------------------
(***************************************************************************)
(* The staking pool contract (src/staking-pool/src/lib.rs, internal.rs).   *)
(* Delegators deposit tokens; the pool stakes them with the protocol and   *)
(* keeps, for every delegator, an unstaked balance and a number of "stake" *)
(* shares.  A contract method runs atomically, and a failed assertion      *)
(* rolls the whole call back, so a method is an action whose guard is the  *)
(* conjunction of its assertions.  The stake actions that the methods      *)
(* issue, and their callback on_stake_action, are receipts that the        *)
(* runtime executes later, in the order in which they were created.        *)
(*                                                                         *)
(* The protocol's side (what a stake action does, when locked tokens are   *)
(* released, rewards) is external to the repository; it is modelled from   *)
(* what the contract's comments and callbacks rely on.                     *)
(***************************************************************************)
EXTENDS Integers, Sequences, Sums

CONSTANTS
    Accounts,        \* accounts that may hold a balance in the pool
    Owner,           \* owner_id
    Fees,            \* the reward fee fractions that may be chosen
    InitialStake,    \* balance at `new`, less the guarantee fund
    GuaranteeFund,   \* STAKE_SHARE_PRICE_GUARANTEE_FUND
    NumEpochsToUnlock, \* NUM_EPOCHS_TO_UNLOCK
    Amounts,         \* amounts used as arguments and attached deposits
    Rewards,         \* rewards that one epoch may pay
    Thresholds,      \* values of the protocol's minimum stake
    MaxEpoch,        \* bound: epochs
    MaxBalance,      \* bound: total tokens held by the pool account
    MaxRoundings,    \* bound: share conversions (stake and unstake calls)
    MaxReceipts      \* bound: receipts in flight

ASSUME AccountsAssumption == IsFiniteSet(Accounts) /\ Owner \in Accounts
ASSUME FeesAssumption ==
    \A f \in Fees : /\ f \in [numerator : Nat, denominator : Nat]
                    /\ f.denominator # 0
                    /\ f.numerator <= f.denominator
ASSUME AmountsAssumption ==
    /\ InitialStake \in Nat
    /\ GuaranteeFund \in Nat
    /\ Amounts \subseteq Nat
    /\ Rewards \subseteq Nat
    /\ Thresholds \subseteq Nat
(* A lock is held for three epochs after the one in which it was reduced. *)
ASSUME EpochsAssumption == NumEpochsToUnlock \in Nat /\ NumEpochsToUnlock >= 4
ASSUME BoundsAssumption ==
    /\ MaxEpoch \in Nat
    /\ MaxBalance \in Nat
    /\ MaxRoundings \in Nat
    /\ MaxReceipts \in Nat

VARIABLES
    pool,      \* the contract's state (struct StakingContract)
    epoch,     \* env::epoch_height()
    liquid,    \* env::account_balance(), outside of a call
    locked,    \* env::account_locked_balance()
    desired,   \* the stake the protocol last accepted from the pool
    hist,      \* the stake at the end of each of the two previous epochs
    receipts,  \* stake actions and callbacks in flight
    owned,     \* history: shares an account bought less shares it paid
    roundings  \* history: stake and unstake calls so far

vars == <<pool, epoch, liquid, locked, desired, hist, receipts, owned, roundings>>
protocol == <<epoch, locked, desired, hist>>

DefaultAccount ==
    [unstaked |-> 0, stake_shares |-> 0, unstaked_available_epoch_height |-> 0]

SatSub(a, b) == IF a >= b THEN a - b ELSE 0

----------------------------------------------------------------------------
(* Conversions between amounts and shares. *)

num_shares_from_staked_amount_rounded_down(p, amount) ==
    (p.total_stake_shares * amount) \div p.total_staked_balance

num_shares_from_staked_amount_rounded_up(p, amount) ==
    (p.total_stake_shares * amount + (p.total_staked_balance - 1))
        \div p.total_staked_balance

staked_amount_from_num_shares_rounded_down(p, num_shares) ==
    (p.total_staked_balance * num_shares) \div p.total_stake_shares

(* Mutant: the rounding up is lost. *)
staked_amount_rounded_up_Mutant(p, num_shares) ==
    (p.total_staked_balance * num_shares) \div p.total_stake_shares

staked_amount_from_num_shares_rounded_up(p, num_shares) ==
    (p.total_staked_balance * num_shares + (p.total_stake_shares - 1))
        \div p.total_stake_shares

multiply(fee, value) == (fee.numerator * value) \div fee.denominator

(* An account without any balance is removed, so its lock is forgotten. *)
internal_save_account(p, a, account) ==
    [p EXCEPT !.accounts[a] =
        IF account.unstaked > 0 \/ account.stake_shares > 0
        THEN account ELSE DefaultAccount]

----------------------------------------------------------------------------
(* Reward distribution, called at the start of every method. *)

NeedsPing(p) == p.last_epoch_height # epoch

(* Mutant: the attached deposit is taken for a reward. *)
total_balance_Mutant(attached) == locked + (liquid + attached)

total_balance(attached) == SatSub(locked + (liquid + attached), attached)

(* The pool after the delegators' part of a reward, at the price of which   *)
(* the owner's fee buys shares.                                             *)
WithDelegatorsReward(p, reward) ==
    [p EXCEPT !.total_staked_balance = @ + (reward - multiply(p.fee, reward))]

OwnerShares(p, reward) ==
    num_shares_from_staked_amount_rounded_down(
        WithDelegatorsReward(p, reward), multiply(p.fee, reward))

DistributeReward(p, reward) ==
    LET n   == OwnerShares(p, reward)
        acc == p.accounts[Owner]
        q   == IF n > 0
               THEN internal_save_account(p, Owner, [acc EXCEPT !.stake_shares = @ + n])
               ELSE p
    IN  [q EXCEPT !.total_stake_shares = @ + n,
                  !.total_staked_balance = @ + reward]

RewardOf(p, attached) == total_balance(attached) - p.last_total_balance

(* The assertions of internal_ping: the total never shrinks, and shares can *)
(* only be bought when there is a staked balance.                           *)
PingSucceeds(p, attached) ==
    NeedsPing(p) =>
        /\ total_balance(attached) >= p.last_total_balance
        /\ RewardOf(p, attached) > 0 =>
              WithDelegatorsReward(p, RewardOf(p, attached)).total_staked_balance > 0

(* Mutant: the distributed reward is not recorded. *)
internal_ping_Mutant(p, attached) ==
    IF ~NeedsPing(p) THEN p
    ELSE LET r == RewardOf(p, attached)
             q == IF r > 0 THEN DistributeReward(p, r) ELSE p
         IN  [q EXCEPT !.last_epoch_height = epoch]

internal_ping(p, attached) ==
    IF ~NeedsPing(p) THEN p
    ELSE LET r == RewardOf(p, attached)
             q == IF r > 0 THEN DistributeReward(p, r) ELSE p
         IN  [q EXCEPT !.last_epoch_height = epoch,
                       !.last_total_balance = total_balance(attached)]

(* The history variable follows the owner's fee shares. *)
OwnedAfterPing(p, attached) ==
    IF NeedsPing(p) /\ RewardOf(p, attached) > 0
    THEN [owned EXCEPT ![Owner] = @ + OwnerShares(p, RewardOf(p, attached))]
    ELSE owned

----------------------------------------------------------------------------
(* Receipts. *)

StakeReceipt(amount, callback) ==
    [kind |-> "stake", amount |-> amount, callback |-> callback,
     ok |-> FALSE, origin |-> epoch]

internal_restake(p) ==
    receipts' = IF p.paused THEN receipts
                ELSE Append(receipts, StakeReceipt(p.total_staked_balance, TRUE))

RestakeIf(need, p) ==
    IF need THEN internal_restake(p) ELSE UNCHANGED receipts

Room == Len(receipts) < MaxReceipts

----------------------------------------------------------------------------
(* Internal operations on the (already pinged) contract state. *)

internal_deposit(p, a, amount) ==
    LET acc == p.accounts[a]
        q   == internal_save_account(p, a, [acc EXCEPT !.unstaked = @ + amount])
    IN  [q EXCEPT !.last_total_balance = @ + amount]

WithdrawAllowed(p, a, amount) ==
    /\ amount > 0
    /\ p.accounts[a].unstaked >= amount
    /\ p.accounts[a].unstaked_available_epoch_height <= epoch

internal_withdraw(p, a, amount) ==
    LET acc == p.accounts[a]
        q   == internal_save_account(p, a, [acc EXCEPT !.unstaked = @ - amount])
    IN  [q EXCEPT !.last_total_balance = SatSub(@, amount)]

(* Mutant: the charge is not compared with the unstaked balance. *)
StakeAllowed_Mutant(p, a, amount) ==
    /\ amount > 0
    /\ p.total_staked_balance > 0
    /\ p.total_stake_shares > 0
    /\ num_shares_from_staked_amount_rounded_down(p, amount) > 0

StakeAllowed(p, a, amount) ==
    LET n == num_shares_from_staked_amount_rounded_down(p, amount)
    IN  /\ amount > 0
        /\ p.total_staked_balance > 0
        /\ n > 0
        /\ p.total_stake_shares > 0
        /\ staked_amount_from_num_shares_rounded_down(p, n) > 0
        /\ p.accounts[a].unstaked >= staked_amount_from_num_shares_rounded_down(p, n)

internal_stake(p, a, amount) ==
    LET n      == num_shares_from_staked_amount_rounded_down(p, amount)
        charge == staked_amount_from_num_shares_rounded_down(p, n)
        acc    == p.accounts[a]
        q      == internal_save_account(p, a,
                    [acc EXCEPT !.unstaked = @ - charge, !.stake_shares = @ + n])
    IN  [q EXCEPT !.total_staked_balance =
                        @ + staked_amount_from_num_shares_rounded_up(p, n),
                  !.total_stake_shares = @ + n]

UnstakeAllowed(p, a, amount) ==
    LET n == num_shares_from_staked_amount_rounded_up(p, amount)
    IN  /\ amount > 0
        /\ p.total_staked_balance > 0
        /\ n > 0
        /\ p.accounts[a].stake_shares >= n
        /\ p.total_stake_shares > 0
        /\ staked_amount_from_num_shares_rounded_up(p, n) > 0

(* Mutant: the unlocking delay is one epoch short. *)
inner_unstake_Mutant(p, a, amount) ==
    LET n       == num_shares_from_staked_amount_rounded_up(p, amount)
        receive == staked_amount_from_num_shares_rounded_up(p, n)
    IN  [p EXCEPT !.accounts[a] =
                    [stake_shares |-> @.stake_shares + n,
                     unstaked |-> @.unstaked + receive,
                     unstaked_available_epoch_height |-> epoch + NumEpochsToUnlock - 1],
                  !.total_staked_balance =
                        SatSub(@, staked_amount_from_num_shares_rounded_down(p, n)),
                  !.total_stake_shares = SatSub(@, n)]

(* The account's shares are increased by the shares it pays, as in the      *)
(* code: `account.stake_shares.saturating_add(num_shares)`.                 *)
inner_unstake(p, a, amount) ==
    LET n       == num_shares_from_staked_amount_rounded_up(p, amount)
        receive == staked_amount_from_num_shares_rounded_up(p, n)
        acc     == p.accounts[a]
        q       == internal_save_account(p, a,
                     [acc EXCEPT !.stake_shares = @ + n,
                                 !.unstaked = @ + receive,
                                 !.unstaked_available_epoch_height =
                                        epoch + NumEpochsToUnlock])
    IN  [q EXCEPT !.total_staked_balance =
                        SatSub(@, staked_amount_from_num_shares_rounded_down(p, n)),
                  !.total_stake_shares = SatSub(@, n)]

----------------------------------------------------------------------------
(* Public methods.  A method pings first; `pinged` is the state it goes on  *)
(* with.                                                                    *)

pinged(attached) == internal_ping(pool, attached)

ping ==
    /\ Room
    /\ PingSucceeds(pool, 0)
    /\ pool' = pinged(0)
    /\ owned' = OwnedAfterPing(pool, 0)
    /\ RestakeIf(NeedsPing(pool), pool')
    /\ UNCHANGED <<protocol, liquid, roundings>>

deposit(a, amount) ==
    /\ Room /\ locked + liquid + amount <= MaxBalance
    /\ PingSucceeds(pool, amount)
    /\ pool' = internal_deposit(pinged(amount), a, amount)
    /\ owned' = OwnedAfterPing(pool, amount)
    /\ liquid' = liquid + amount
    /\ RestakeIf(NeedsPing(pool), pool')
    /\ UNCHANGED <<protocol, roundings>>

deposit_and_stake(a, amount) ==
    LET p == internal_deposit(pinged(amount), a, amount)
        n == num_shares_from_staked_amount_rounded_down(p, amount)
    IN  /\ Room /\ roundings < MaxRoundings /\ locked + liquid + amount <= MaxBalance
        /\ PingSucceeds(pool, amount)
        /\ StakeAllowed(p, a, amount)
        /\ pool' = internal_stake(p, a, amount)
        /\ owned' = [OwnedAfterPing(pool, amount) EXCEPT ![a] = @ + n]
        /\ liquid' = liquid + amount
        /\ roundings' = roundings + 1
        /\ internal_restake(pool')
        /\ UNCHANGED protocol

(* The transfer is debited when the call ends; without enough liquid        *)
(* balance the runtime fails, and rolls back, the call.                     *)
withdraw(a, amount) ==
    LET p == pinged(0)
    IN  /\ Room
        /\ PingSucceeds(pool, 0)
        /\ WithdrawAllowed(p, a, amount)
        /\ amount <= liquid
        /\ pool' = internal_withdraw(p, a, amount)
        /\ owned' = OwnedAfterPing(pool, 0)
        /\ liquid' = liquid - amount
        /\ RestakeIf(NeedsPing(pool), pool')
        /\ UNCHANGED <<protocol, roundings>>

withdraw_all(a) == withdraw(a, pool.accounts[a].unstaked)

stake(a, amount) ==
    LET p == pinged(0)
        n == num_shares_from_staked_amount_rounded_down(p, amount)
    IN  /\ Room /\ roundings < MaxRoundings
        /\ PingSucceeds(pool, 0)
        /\ StakeAllowed(p, a, amount)
        /\ pool' = internal_stake(p, a, amount)
        /\ owned' = [OwnedAfterPing(pool, 0) EXCEPT ![a] = @ + n]
        /\ roundings' = roundings + 1
        /\ internal_restake(pool')
        /\ UNCHANGED <<protocol, liquid>>

stake_all(a) == stake(a, pool.accounts[a].unstaked)

unstake(a, amount) ==
    LET p == pinged(0)
        n == num_shares_from_staked_amount_rounded_up(p, amount)
    IN  /\ Room /\ roundings < MaxRoundings
        /\ PingSucceeds(pool, 0)
        /\ UnstakeAllowed(p, a, amount)
        /\ pool' = inner_unstake(p, a, amount)
        /\ owned' = [OwnedAfterPing(pool, 0) EXCEPT ![a] = @ - n]
        /\ roundings' = roundings + 1
        /\ internal_restake(pool')
        /\ UNCHANGED <<protocol, liquid>>

unstake_all(a) ==
    LET p == pinged(0)
    IN  /\ PingSucceeds(pool, 0)
        /\ p.total_stake_shares > 0
        /\ unstake(a, staked_amount_from_num_shares_rounded_down(
                            p, p.accounts[a].stake_shares))

(* Owner's methods.  The staking key itself is not modelled. *)
update_staking_key ==
    /\ Room
    /\ PingSucceeds(pool, 0)
    /\ pool' = pinged(0)
    /\ owned' = OwnedAfterPing(pool, 0)
    /\ internal_restake(pool')
    /\ UNCHANGED <<protocol, liquid, roundings>>

update_reward_fee_fraction(f) ==
    /\ Room
    /\ PingSucceeds(pool, 0)
    /\ pool' = [pinged(0) EXCEPT !.fee = f]
    /\ owned' = OwnedAfterPing(pool, 0)
    /\ RestakeIf(NeedsPing(pool), pool')
    /\ UNCHANGED <<protocol, liquid, roundings>>

pause_staking ==
    /\ Room
    /\ ~pool.paused
    /\ PingSucceeds(pool, 0)
    /\ pool' = [pinged(0) EXCEPT !.paused = TRUE]
    /\ owned' = OwnedAfterPing(pool, 0)
    /\ receipts' = Append(receipts, StakeReceipt(0, FALSE))
    /\ UNCHANGED <<protocol, liquid, roundings>>

resume_staking ==
    /\ Room
    /\ pool.paused
    /\ PingSucceeds(pool, 0)
    /\ pool' = [pinged(0) EXCEPT !.paused = FALSE]
    /\ owned' = OwnedAfterPing(pool, 0)
    /\ internal_restake(pool')
    /\ UNCHANGED <<protocol, liquid, roundings>>

----------------------------------------------------------------------------
(* The runtime: receipts and epochs (external). *)

(* A stake action fails below the protocol's threshold or above the         *)
(* account's balance; a raise is locked at once, a reduction later.         *)
ExecuteStake(threshold) ==
    LET r  == Head(receipts)
        ok == \/ r.amount = 0
              \/ r.amount >= threshold /\ r.amount <= liquid + locked
        raise == IF ok THEN SatSub(r.amount, locked) ELSE 0
    IN  /\ receipts # <<>>
        /\ r.kind = "stake"
        /\ desired' = IF ok THEN r.amount ELSE desired
        /\ locked' = locked + raise
        /\ liquid' = liquid - raise
        /\ receipts' = IF r.callback
                       THEN Append(Tail(receipts),
                                   [r EXCEPT !.kind = "on_stake_action", !.ok = ok])
                       ELSE Tail(receipts)
        /\ UNCHANGED <<pool, epoch, hist, owned, roundings>>

(* Mutant: a failed stake action is not followed by an unstake. *)
on_stake_action_Mutant ==
    /\ receipts # <<>>
    /\ Head(receipts).kind = "on_stake_action"
    /\ receipts' = Tail(receipts)
    /\ UNCHANGED <<pool, protocol, liquid, owned, roundings>>

on_stake_action ==
    LET r == Head(receipts)
    IN  /\ receipts # <<>>
        /\ r.kind = "on_stake_action"
        /\ receipts' =
              IF ~r.ok /\ locked > 0
              THEN Append(Tail(receipts),
                          [StakeReceipt(0, FALSE) EXCEPT !.origin = r.origin])
              ELSE Tail(receipts)
        /\ UNCHANGED <<pool, protocol, liquid, owned, roundings>>

(* At an epoch's end the lock falls to the largest stake of three epochs;   *)
(* rewards are paid into it and, while the pool has a stake, restaked.  A   *)
(* chain of receipts takes a few blocks, so it meets at most one boundary.  *)
AdvanceEpoch(reward) ==
    LET needed == Max({desired, hist[1], hist[2]})
    IN  /\ epoch < MaxEpoch
        /\ \A i \in DOMAIN receipts : receipts[i].origin = epoch
        /\ reward > 0 => locked > 0 /\ locked + liquid + reward <= MaxBalance
        /\ epoch' = epoch + 1
        /\ hist' = <<desired, hist[1]>>
        /\ locked' = needed + reward
        /\ liquid' = liquid + (locked - needed)
        /\ desired' = IF desired > 0 THEN desired + reward ELSE 0
        /\ UNCHANGED <<pool, receipts, owned, roundings>>

----------------------------------------------------------------------------
new(fee) ==
    [last_epoch_height |-> 0,
     last_total_balance |-> InitialStake + GuaranteeFund,
     total_stake_shares |-> InitialStake,
     total_staked_balance |-> InitialStake,
     fee |-> fee,
     accounts |-> [a \in Accounts |-> DefaultAccount],
     paused |-> FALSE]

Init ==
    /\ \E f \in Fees : pool = new(f)
    /\ epoch = 0
    /\ liquid = InitialStake + GuaranteeFund
    /\ locked = 0
    /\ desired = 0
    /\ hist = <<0, 0>>
    /\ receipts = <<StakeReceipt(InitialStake, TRUE)>>
    /\ owned = [a \in Accounts |-> 0]
    /\ roundings = 0

Next ==
    \/ ping
    \/ \E a \in Accounts :
          \/ \E m \in Amounts : \/ deposit(a, m)
                                \/ deposit_and_stake(a, m)
                                \/ withdraw(a, m)
                                \/ stake(a, m)
                                \/ unstake(a, m)
          \/ withdraw_all(a)
          \/ stake_all(a)
          \/ unstake_all(a)
    \/ update_staking_key
    \/ \E f \in Fees : update_reward_fee_fraction(f)
    \/ pause_staking
    \/ resume_staking
    \/ \E t \in Thresholds : ExecuteStake(t)
    \/ on_stake_action
    \/ \E r \in Rewards : AdvanceEpoch(r)

Spec == Init /\ [][Next]_vars

----------------------------------------------------------------------------
(* Properties. *)

AccountType ==
    [unstaked : Nat, stake_shares : Nat, unstaked_available_epoch_height : Nat]

FeeType == {f \in [numerator : Nat, denominator : Nat] :
                f.denominator # 0 /\ f.numerator <= f.denominator}

PoolType ==
    [last_epoch_height : Nat, last_total_balance : Nat,
     total_stake_shares : Nat, total_staked_balance : Nat,
     fee : FeeType, accounts : [Accounts -> AccountType], paused : BOOLEAN]

ReceiptType ==
    [kind : {"stake", "on_stake_action"}, amount : Nat, callback : BOOLEAN,
     ok : BOOLEAN, origin : Nat]

(* Every balance, share count and epoch of the contract and of its account  *)
(* on the ledger is a natural number: no step drives one below zero.        *)
TypeOK ==
    /\ pool \in PoolType
    /\ epoch \in Nat
    /\ liquid \in Nat
    /\ locked \in Nat
    /\ desired \in Nat
    /\ hist \in Nat \X Nat
    /\ receipts \in Seq(ReceiptType)
    /\ owned \in [Accounts -> Int]
    /\ roundings \in Nat

(* "The price of stake share should always be at least 1" (lib.rs, Account): *)
(* there are never more shares than staked tokens, whatever the order of     *)
(* stakes, unstakes, rewards and fee changes and whatever is rounded away.   *)
PriceAtLeastOne == pool.total_stake_shares <= pool.total_staked_balance

(* The contract stakes tokens out of the guarantee fund to "guarantee that   *)
(* the share price never decreases" (internal_stake, inner_unstake): no step *)
(* lowers total_staked_balance / total_stake_shares.                         *)
PriceNeverDecreases ==
    [][pool'.total_staked_balance * pool.total_stake_shares
        >= pool.total_staked_balance * pool'.total_stake_shares]_vars

(* The assertion of internal_ping, "The new total balance should not be less *)
(* than the old total balance", can fail in no reachable state.  If it could, *)
(* every method of the pool would panic from then on.                        *)
RecordedBalanceIsHeld == pool.last_total_balance <= locked + liquid

Unstaked(accs) == SumOver([a \in Accounts |-> pool.accounts[a].unstaked], accs)

(* No account has paid shares that it had not bought.  The code does not     *)
(* ensure this (see AccountSharesWithinTotal); the solvency properties are   *)
(* stated for the behaviours in which it holds.                              *)
NoPhantomShares == \A a \in Accounts : owned[a] >= 0

(* What the pool owes its delegators (the staked total and every unstaked    *)
(* balance) is covered by the balance it recorded; each conversion between   *)
(* shares and tokens takes at most one atto from the guarantee fund.         *)
GuaranteeFundCoversRounding ==
    NoPhantomShares =>
        pool.total_staked_balance + Unstaked(Accounts) + GuaranteeFund
            <= pool.last_total_balance + roundings

(* When the four epochs of NUM_EPOCHS_TO_UNLOCK have passed, the tokens an   *)
(* account unstaked are liquid: a withdrawal that the contract allows never  *)
(* meets an account balance that is still locked, even if the stake action   *)
(* arrived one epoch late, failed, or was repeated as an unstake.            *)
WithdrawableIsLiquid ==
    NoPhantomShares /\ roundings <= GuaranteeFund =>
        Unstaked({a \in Accounts :
                    pool.accounts[a].unstaked_available_epoch_height <= epoch})
            <= liquid

(* Once no receipt is in flight and the epoch's reward is distributed, the   *)
(* protocol's stake is the one the contract asked for, or nothing: a failed  *)
(* stake action never leaves an older stake locked (on_stake_action), and a  *)
(* paused pool stakes nothing.                                               *)
SettledStake ==
    receipts = <<>> /\ pool.last_epoch_height = epoch =>
        \/ desired = 0
        \/ ~pool.paused /\ desired = pool.total_staked_balance

(* "The total amount of shares. It should be equal to the total amount of    *)
(* shares across all accounts" (lib.rs, total_stake_shares).  The initial    *)
(* shares belong to no account, so the sum may be smaller; it must not be    *)
(* larger.  inner_unstake adds the paid shares to the account.               *)
AccountSharesWithinTotal ==
    SumOver([a \in Accounts |-> pool.accounts[a].stake_shares], Accounts)
        <= pool.total_stake_shares

=============================================================================
