------------------------- MODULE StakingPoolProofs -------------------------
(***************************************************************************)
(* Proofs about the staking pool, for any accounts, amounts, fees and      *)
(* bounds: types, the price of a stake share and the recorded balance; and *)
(* then that the pool can pay its delegators, what it owes being covered   *)
(* by its tokens and what may be withdrawn not being locked.               *)
(***************************************************************************)
EXTENDS StakingPool, SumTheorems

(* A pool whose shares are worth at least one atto each. *)
PriceOK(p) == p.total_stake_shares <= p.total_staked_balance

(* Shares of q are worth at least as much as shares of p. *)
NotCheaper(p, q) ==
    q.total_staked_balance * p.total_stake_shares
        >= p.total_staked_balance * q.total_stake_shares

(* What a step on the contract's state must keep. *)
GoodStep(p, q) == q \in PoolType /\ PriceOK(q) /\ NotCheaper(p, q)

(* The protocol never locks less than the stakes of the last three epochs;  *)
(* needed for the type of `liquid` when an epoch ends.                      *)
LockCoversStakes == desired <= locked /\ hist[1] <= locked /\ hist[2] <= locked

(* The inductive invariant. *)
IInv ==
    /\ TypeOK
    /\ PriceAtLeastOne
    /\ RecordedBalanceIsHeld
    /\ LockCoversStakes

----------------------------------------------------------------------------
(* Arithmetic. *)

(* Division with a positive divisor rounds down. *)
LEMMA DivRoundsDown ==
    ASSUME NEW a \in Nat, NEW b \in Nat, b > 0
    PROVE  /\ a \div b \in Nat
           /\ b * (a \div b) <= a
           /\ a < b * (a \div b) + b
OBVIOUS

(* (a + b - 1) / b, the code's rounding up, is an upper bound of a / b. *)
LEMMA DivRoundsUp ==
    ASSUME NEW a \in Nat, NEW b \in Nat, b > 0
    PROVE  /\ (a + (b - 1)) \div b \in Nat
           /\ b * ((a + (b - 1)) \div b) >= a
<1>1. a + (b - 1) \in Nat OBVIOUS
<1> QED BY <1>1, DivRoundsDown

(* A product of naturals is a natural. *)
LEMMA NatTimes ==
    ASSUME NEW a \in Nat, NEW b \in Nat
    PROVE  a * b \in Nat
OBVIOUS

(* A positive factor can be cancelled. *)
LEMMA Cancel ==
    ASSUME NEW a \in Nat, NEW b \in Nat, NEW c \in Nat, c > 0, c * a <= c * b
    PROVE  a <= b
OBVIOUS

(* "Not cheaper than" is transitive through a pool that has shares. *)
LEMMA PriceTransitive ==
    ASSUME NEW S0 \in Nat, NEW T0 \in Nat, NEW S1 \in Nat, NEW T1 \in Nat,
           NEW S2 \in Nat, NEW T2 \in Nat,
           S1 * T0 >= S0 * T1, S2 * T1 >= S1 * T2, T1 > 0
    PROVE  S2 * T0 >= S0 * T2
<1>1. (S2 * T1) * T0 >= (S1 * T2) * T0 OBVIOUS
<1>2. (S1 * T0) * T2 >= (S0 * T1) * T2 OBVIOUS
<1>3. T1 * (S2 * T0) >= T1 * (S0 * T2) BY <1>1, <1>2
<1> QED BY <1>3, Cancel, NatTimes

(* Buying n shares for at least their value, when a share is worth one or   *)
(* more, keeps both facts about the price.                                  *)
LEMMA BuyShares ==
    ASSUME NEW S \in Nat, NEW T \in Nat, NEW n \in Nat, NEW up \in Nat,
           T > 0, T <= S, T * up >= S * n
    PROVE  /\ T + n <= S + up
           /\ (S + up) * T >= S * (T + n)
<1>1. S * n >= T * n OBVIOUS
<1>2. T * n <= T * up BY <1>1
<1>3. n <= up BY <1>2, Cancel
<1>4. (S + up) * T = S * T + T * up /\ S * (T + n) = S * T + S * n OBVIOUS
<1> QED BY <1>3, <1>4

(* Selling n shares for at most their value does too; the sale may exceed   *)
(* the total, in which case both totals saturate at zero.                   *)
LEMMA SellShares ==
    ASSUME NEW S \in Nat, NEW T \in Nat, NEW n \in Nat, NEW d \in Nat,
           T > 0, T <= S, T * d <= S * n
    PROVE  /\ SatSub(T, n) <= SatSub(S, d)
           /\ SatSub(S, d) * T >= S * SatSub(T, n)
           /\ SatSub(T, n) \in Nat /\ SatSub(S, d) \in Nat
<1>0. SatSub(T, n) \in Nat /\ SatSub(S, d) \in Nat BY DEF SatSub
<1>1. CASE n > T
  <2>1. SatSub(T, n) = 0 BY <1>1 DEF SatSub
  <2> QED BY <2>1, <1>0
<1>2. CASE n <= T
  <2>1. S * n <= T * S BY <1>2
  <2>2. d <= S BY <2>1, Cancel
  <2> DEFINE u == S - d
             v == T - n
  <2>3. u \in Nat /\ v \in Nat BY <2>2, <1>2
  <2>4. SatSub(S, d) = u /\ SatSub(T, n) = v BY <2>2, <1>2 DEF SatSub
  <2>5. u * T = S * T - T * d /\ S * v = S * T - S * n OBVIOUS
  <2>6. u * T >= S * v BY <2>5, <2>3
  <2>7. S * v >= T * v BY <2>3
  <2>8. T * v <= T * u BY <2>6, <2>7, <2>3
  <2>9. v <= u BY <2>8, <2>3, Cancel
  <2> QED BY <1>0, <2>4, <2>6, <2>9
<1> QED BY <1>1, <1>2

(* A reward r of which the fee f buys n shares at the price after the       *)
(* delegators' part keeps both facts about the price.                       *)
LEMMA RewardKeepsPrice ==
    ASSUME NEW S \in Nat, NEW T \in Nat, NEW r \in Nat, NEW f \in Nat, NEW n \in Nat,
           T <= S, f <= r, S + (r - f) > 0, (S + (r - f)) * n <= T * f
    PROVE  /\ T + n <= S + r
           /\ (S + r) * T >= S * (T + n)
<1> DEFINE m == r - f
<1>0. m \in Nat /\ r = m + f OBVIOUS
<1> HIDE DEF m
<1>1. S * n + m * n <= T * f BY <1>0
<1>2. m * n >= 0 /\ m * T >= 0 BY <1>0
<1>3. S * n <= T * f BY <1>1, <1>2, <1>0
<1>4. T * f <= T * r BY <1>0
<1>5. (S + r) * T = S * T + T * r /\ S * (T + n) = S * T + S * n OBVIOUS
<1>6. T * f <= (S + m) * f BY <1>0
<1>7. (S + m) * n <= (S + m) * f BY <1>6, <1>0
<1>8. n <= f BY <1>7, <1>0, Cancel
<1> QED BY <1>3, <1>4, <1>5, <1>8, <1>0

(* The fee of a valid fraction is a part of the reward. *)
LEMMA FeeIsAPart ==
    ASSUME NEW fee \in FeeType, NEW r \in Nat
    PROVE  multiply(fee, r) \in Nat /\ multiply(fee, r) <= r
<1> DEFINE n == fee.numerator
           d == fee.denominator
           q == (n * r) \div d
<1>1. n \in Nat /\ d \in Nat /\ d > 0 /\ n <= d BY DEF FeeType
<1> HIDE DEF n, d
<1>2. q \in Nat /\ d * q <= n * r BY <1>1, NatTimes, DivRoundsDown
<1>3. n * r <= d * r BY <1>1
<1> HIDE DEF q
<1>4. d * q <= d * r BY <1>1, <1>2, <1>3
<1>5. q <= r BY <1>1, <1>2, <1>4, Cancel
<1> QED BY <1>2, <1>5 DEF multiply, q, n, d

(* The largest of three naturals. *)
LEMMA MaxOfThree ==
    ASSUME NEW a \in Nat, NEW b \in Nat, NEW c \in Nat
    PROVE  /\ Max({a, b, c}) \in {a, b, c}
           /\ a <= Max({a, b, c}) /\ b <= Max({a, b, c}) /\ c <= Max({a, b, c})
<1>1. \E x \in {a, b, c} : \A y \in {a, b, c} : x >= y
  <2>1. CASE a >= b /\ a >= c BY <2>1
  <2>2. CASE b >= a /\ b >= c BY <2>2
  <2>3. CASE c >= a /\ c >= b BY <2>3
  <2> QED BY <2>1, <2>2, <2>3
<1>2. /\ Max({a, b, c}) \in {a, b, c}
      /\ \A y \in {a, b, c} : Max({a, b, c}) >= y
  BY <1>1, Zenon DEF Max
<1> QED BY <1>2

----------------------------------------------------------------------------
(* The contract's operations. *)

(* Saving a well-formed account changes only that account. *)
LEMMA SaveAccount ==
    ASSUME NEW p \in PoolType, NEW a \in Accounts, NEW account \in AccountType
    PROVE  LET q == internal_save_account(p, a, account)
           IN  /\ q \in PoolType
               /\ q.total_stake_shares = p.total_stake_shares
               /\ q.total_staked_balance = p.total_staked_balance
               /\ q.last_total_balance = p.last_total_balance
               /\ q.fee = p.fee
               /\ q.last_epoch_height = p.last_epoch_height
               /\ q.paused = p.paused
<1>1. DefaultAccount \in AccountType BY DEF DefaultAccount, AccountType
<1> QED BY <1>1 DEF internal_save_account, PoolType

(* The two totals replaced, as staking, unstaking and rewards do. *)
WithTotals(p, S, T) ==
    [p EXCEPT !.total_staked_balance = S, !.total_stake_shares = T]

(* The epoch and the balance replaced that a ping records. *)
WithRecorded(p, e, t) ==
    [p EXCEPT !.last_epoch_height = e, !.last_total_balance = t]

(* Replacing the totals changes nothing else. *)
LEMMA UpdateTotals ==
    ASSUME NEW p \in PoolType, NEW S \in Nat, NEW T \in Nat
    PROVE  /\ WithTotals(p, S, T) \in PoolType
           /\ WithTotals(p, S, T).total_staked_balance = S
           /\ WithTotals(p, S, T).total_stake_shares = T
           /\ WithTotals(p, S, T).last_total_balance = p.last_total_balance
BY DEF PoolType, WithTotals

(* Replacing the record of a ping changes nothing else. *)
LEMMA UpdateRecorded ==
    ASSUME NEW p \in PoolType, NEW e \in Nat, NEW t \in Nat
    PROVE  /\ WithRecorded(p, e, t) \in PoolType
           /\ WithRecorded(p, e, t).total_staked_balance = p.total_staked_balance
           /\ WithRecorded(p, e, t).total_stake_shares = p.total_stake_shares
           /\ WithRecorded(p, e, t).last_total_balance = t
BY DEF PoolType, WithRecorded

(* Distributing a reward keeps the price. *)
LEMMA RewardStep ==
    ASSUME NEW p \in PoolType, PriceOK(p), NEW r \in Nat,
           WithDelegatorsReward(p, r).total_staked_balance > 0
    PROVE  /\ GoodStep(p, DistributeReward(p, r))
           /\ OwnerShares(p, r) \in Nat
<1> DEFINE S == p.total_staked_balance
           T == p.total_stake_shares
           f == multiply(p.fee, r)
           n == OwnerShares(p, r)
           acc == p.accounts[Owner]
           acc2 == [acc EXCEPT !.stake_shares = @ + n]
           q == IF n > 0 THEN internal_save_account(p, Owner, acc2) ELSE p
<1>1. S \in Nat /\ T \in Nat /\ T <= S /\ p.fee \in FeeType /\ acc \in AccountType
  BY AccountsAssumption DEF PoolType, PriceOK
<1>2. f \in Nat /\ f <= r BY <1>1, FeeIsAPart
<1>3. WithDelegatorsReward(p, r).total_staked_balance = S + (r - f)
   /\ WithDelegatorsReward(p, r).total_stake_shares = T
  BY DEF WithDelegatorsReward, PoolType
<1>4. n = (T * f) \div (S + (r - f))
  BY <1>3 DEF OwnerShares, num_shares_from_staked_amount_rounded_down
<1>5. S + (r - f) \in Nat /\ S + (r - f) > 0 BY <1>1, <1>2, <1>3
<1>6. n \in Nat /\ (S + (r - f)) * n <= T * f
  BY <1>1, <1>2, <1>4, <1>5, NatTimes, DivRoundsDown
<1>7. T + n <= S + r /\ (S + r) * T >= S * (T + n)
  <2> HIDE DEF S, T, f, n
  <2> QED BY <1>1, <1>2, <1>5, <1>6, RewardKeepsPrice
<1>8. acc2 \in AccountType BY <1>1, <1>6 DEF AccountType
<1>9. q \in PoolType /\ q.total_stake_shares = T /\ q.total_staked_balance = S
  BY <1>8, SaveAccount, AccountsAssumption DEF internal_save_account
<1>10. DistributeReward(p, r) = WithTotals(q, S + r, T + n)
  BY <1>9 DEF DistributeReward, PoolType, WithTotals
<1> HIDE DEF q, n, f, S, T
<1>12. S + r \in Nat /\ T + n \in Nat BY <1>1, <1>6
<1>11. /\ DistributeReward(p, r) \in PoolType
       /\ DistributeReward(p, r).total_stake_shares = T + n
       /\ DistributeReward(p, r).total_staked_balance = S + r
  <2>1. \A x, y \in Nat :
            /\ WithTotals(q, x, y) \in PoolType
            /\ WithTotals(q, x, y).total_staked_balance = x
            /\ WithTotals(q, x, y).total_stake_shares = y
            /\ WithTotals(q, x, y).last_total_balance = q.last_total_balance
    BY <1>9, UpdateTotals
  <2>2. /\ WithTotals(q, S + r, T + n) \in PoolType
        /\ WithTotals(q, S + r, T + n).total_staked_balance = S + r
        /\ WithTotals(q, S + r, T + n).total_stake_shares = T + n
        /\ WithTotals(q, S + r, T + n).last_total_balance = q.last_total_balance
    BY <2>1, <1>12
  <2> QED BY <2>2, <1>10
<1> QED BY <1>6, <1>7, <1>11 DEF GoodStep, PriceOK, NotCheaper, n, S, T

(* Pinging keeps the types and the price, and records no more than the      *)
(* account holds.                                                           *)
LEMMA PingStep ==
    ASSUME IInv, NEW m \in Nat, PingSucceeds(pool, m)
    PROVE  /\ GoodStep(pool, pinged(m))
           /\ pinged(m).last_total_balance <= locked + liquid
           /\ OwnedAfterPing(pool, m) \in [Accounts -> Int]
<1> DEFINE r == RewardOf(pool, m)
           t == total_balance(m)
<1>1. pool \in PoolType /\ PriceOK(pool) BY DEF IInv, TypeOK, PriceAtLeastOne, PriceOK
<1>2. t = locked + liquid /\ t \in Nat BY DEF IInv, TypeOK, total_balance, SatSub
<1>3. CASE ~NeedsPing(pool)
  BY <1>1, <1>3 DEF IInv, TypeOK, RecordedBalanceIsHeld, pinged, internal_ping,
       OwnedAfterPing, GoodStep, NotCheaper, PoolType
<1>4. CASE NeedsPing(pool)
  <2> DEFINE q == IF r > 0 THEN DistributeReward(pool, r) ELSE pool
  <2>1. r \in Nat
    BY <1>1, <1>2, <1>4 DEF PingSucceeds, RewardOf, PoolType
  <2>2. GoodStep(pool, q) /\ (r > 0 => OwnerShares(pool, r) \in Nat)
    <3>1. CASE r > 0
      BY <1>1, <1>4, <2>1, <3>1, RewardStep DEF PingSucceeds
    <3>2. CASE ~(r > 0)
      BY <1>1, <3>2 DEF GoodStep, NotCheaper, PoolType
    <3> QED BY <3>1, <3>2
  <2>3. pinged(m) = WithRecorded(q, epoch, t)
    BY <1>4 DEF pinged, internal_ping, WithRecorded
  <2>4. OwnedAfterPing(pool, m) \in [Accounts -> Int]
    <3>1. owned \in [Accounts -> Int] BY DEF IInv, TypeOK
    <3>2. \A n \in Nat : [owned EXCEPT ![Owner] = @ + n] \in [Accounts -> Int]
      BY <3>1, AccountsAssumption
    <3> QED BY <1>4, <2>2, <3>1, <3>2 DEF OwnedAfterPing
  <2>5. epoch \in Nat BY DEF IInv, TypeOK
  <2>6. q \in PoolType BY <2>2 DEF GoodStep
  <2> HIDE DEF q, t
  <2>7. /\ pinged(m) \in PoolType
        /\ pinged(m).total_staked_balance = q.total_staked_balance
        /\ pinged(m).total_stake_shares = q.total_stake_shares
        /\ pinged(m).last_total_balance = t
    <3>1. /\ WithRecorded(q, epoch, t) \in PoolType
          /\ WithRecorded(q, epoch, t).total_staked_balance = q.total_staked_balance
          /\ WithRecorded(q, epoch, t).total_stake_shares = q.total_stake_shares
          /\ WithRecorded(q, epoch, t).last_total_balance = t
      BY <1>2, <2>5, <2>6, UpdateRecorded, Zenon
    <3> QED BY <2>3, <3>1
  <2>8. t <= locked + liquid BY <1>2
  <2> QED BY <2>2, <2>4, <2>7, <2>8 DEF GoodStep, PriceOK, NotCheaper
<1> QED BY <1>3, <1>4

(* A deposit leaves the shares alone and records the amount. *)
LEMMA DepositStep ==
    ASSUME NEW p \in PoolType, NEW a \in Accounts, NEW m \in Nat
    PROVE  LET q == internal_deposit(p, a, m)
           IN  /\ q \in PoolType
               /\ q.total_stake_shares = p.total_stake_shares
               /\ q.total_staked_balance = p.total_staked_balance
               /\ q.last_total_balance = p.last_total_balance + m
<1> DEFINE acc2 == [p.accounts[a] EXCEPT !.unstaked = @ + m]
           q == internal_save_account(p, a, acc2)
<1>1. acc2 \in AccountType BY DEF PoolType, AccountType
<1>2. q \in PoolType /\ q.total_stake_shares = p.total_stake_shares
        /\ q.total_staked_balance = p.total_staked_balance
        /\ q.last_total_balance = p.last_total_balance
  BY <1>1, SaveAccount
<1>3. internal_deposit(p, a, m) = [q EXCEPT !.last_total_balance = @ + m]
  BY DEF internal_deposit
<1> HIDE DEF q
<1> QED BY <1>2, <1>3 DEF PoolType

(* A withdrawal leaves the shares alone and records the transfer. *)
LEMMA WithdrawStep ==
    ASSUME NEW p \in PoolType, NEW a \in Accounts, NEW m \in Nat,
           WithdrawAllowed(p, a, m)
    PROVE  LET q == internal_withdraw(p, a, m)
           IN  /\ q \in PoolType
               /\ q.total_stake_shares = p.total_stake_shares
               /\ q.total_staked_balance = p.total_staked_balance
               /\ q.last_total_balance = SatSub(p.last_total_balance, m)
<1> DEFINE acc2 == [p.accounts[a] EXCEPT !.unstaked = @ - m]
           q == internal_save_account(p, a, acc2)
<1>1. acc2 \in AccountType BY DEF PoolType, AccountType, WithdrawAllowed
<1>2. q \in PoolType /\ q.total_stake_shares = p.total_stake_shares
        /\ q.total_staked_balance = p.total_staked_balance
        /\ q.last_total_balance = p.last_total_balance
  BY <1>1, SaveAccount
<1>3. internal_withdraw(p, a, m) = [q EXCEPT !.last_total_balance = SatSub(@, m)]
  BY DEF internal_withdraw
<1>4. SatSub(p.last_total_balance, m) \in Nat BY DEF SatSub, PoolType
<1> HIDE DEF q
<1> QED BY <1>2, <1>3, <1>4 DEF PoolType

(* Staking adds at least the value of the new shares to the total. *)
LEMMA StakeStep ==
    ASSUME NEW p \in PoolType, PriceOK(p), NEW a \in Accounts, NEW m \in Nat,
           StakeAllowed(p, a, m)
    PROVE  /\ GoodStep(p, internal_stake(p, a, m))
           /\ internal_stake(p, a, m).last_total_balance = p.last_total_balance
           /\ p.total_stake_shares > 0
           /\ num_shares_from_staked_amount_rounded_down(p, m) \in Nat
<1> DEFINE S == p.total_staked_balance
           T == p.total_stake_shares
           n == num_shares_from_staked_amount_rounded_down(p, m)
           charge == staked_amount_from_num_shares_rounded_down(p, n)
           up == staked_amount_from_num_shares_rounded_up(p, n)
           acc2 == [p.accounts[a] EXCEPT !.unstaked = @ - charge, !.stake_shares = @ + n]
           q == internal_save_account(p, a, acc2)
<1>1. S \in Nat /\ T \in Nat /\ T <= S /\ T > 0 /\ S > 0
  BY DEF PoolType, PriceOK, StakeAllowed
<1>2. n \in Nat
  BY <1>1, NatTimes, DivRoundsDown DEF num_shares_from_staked_amount_rounded_down
<1>3. charge \in Nat
  BY <1>1, <1>2, NatTimes, DivRoundsDown DEF staked_amount_from_num_shares_rounded_down
<1>4. up \in Nat /\ T * up >= S * n
  BY <1>1, <1>2, NatTimes, DivRoundsUp DEF staked_amount_from_num_shares_rounded_up
<1>5. p.accounts[a].unstaked >= charge BY DEF StakeAllowed
<1>7. acc2 \in AccountType
  <2> HIDE DEF n, charge
  <2>1. p.accounts[a] \in AccountType BY DEF PoolType
  <2>2. p.accounts[a].unstaked - charge \in Nat BY <1>3, <1>5, <2>1 DEF AccountType
  <2>3. p.accounts[a].stake_shares + n \in Nat BY <1>2, <2>1 DEF AccountType
  <2> QED BY <2>1, <2>2, <2>3 DEF AccountType
<1>8. q \in PoolType /\ q.total_stake_shares = T /\ q.total_staked_balance = S
        /\ q.last_total_balance = p.last_total_balance
  BY <1>7, SaveAccount
<1>6. internal_stake(p, a, m) = WithTotals(q, S + up, T + n)
  BY <1>8 DEF internal_stake, PoolType, WithTotals
<1> HIDE DEF q, n, up, S, T
<1>11. S + up \in Nat /\ T + n \in Nat BY <1>1, <1>2, <1>4
<1>9. /\ internal_stake(p, a, m) \in PoolType
      /\ internal_stake(p, a, m).total_stake_shares = T + n
      /\ internal_stake(p, a, m).total_staked_balance = S + up
      /\ internal_stake(p, a, m).last_total_balance = p.last_total_balance
  <2>1. \A x, y \in Nat :
            /\ WithTotals(q, x, y) \in PoolType
            /\ WithTotals(q, x, y).total_staked_balance = x
            /\ WithTotals(q, x, y).total_stake_shares = y
            /\ WithTotals(q, x, y).last_total_balance = q.last_total_balance
    BY <1>8, UpdateTotals
  <2>2. /\ WithTotals(q, S + up, T + n) \in PoolType
        /\ WithTotals(q, S + up, T + n).total_staked_balance = S + up
        /\ WithTotals(q, S + up, T + n).total_stake_shares = T + n
        /\ WithTotals(q, S + up, T + n).last_total_balance = q.last_total_balance
    BY <2>1, <1>11
  <2> QED BY <2>2, <1>6, <1>8
<1>10. T + n <= S + up /\ (S + up) * T >= S * (T + n)
  BY <1>1, <1>2, <1>4, BuyShares
<1> QED BY <1>1, <1>2, <1>9, <1>10 DEF GoodStep, PriceOK, NotCheaper, n, S, T

(* Unstaking takes at most the value of the paid shares from the total. *)
LEMMA UnstakeStep ==
    ASSUME NEW p \in PoolType, PriceOK(p), NEW a \in Accounts, NEW m \in Nat,
           UnstakeAllowed(p, a, m), epoch \in Nat
    PROVE  /\ GoodStep(p, inner_unstake(p, a, m))
           /\ inner_unstake(p, a, m).last_total_balance = p.last_total_balance
           /\ p.total_stake_shares > 0
           /\ num_shares_from_staked_amount_rounded_up(p, m) \in Nat
<1> DEFINE S == p.total_staked_balance
           T == p.total_stake_shares
           n == num_shares_from_staked_amount_rounded_up(p, m)
           receive == staked_amount_from_num_shares_rounded_up(p, n)
           d == staked_amount_from_num_shares_rounded_down(p, n)
           acc2 == [p.accounts[a] EXCEPT !.stake_shares = @ + n,
                                         !.unstaked = @ + receive,
                                         !.unstaked_available_epoch_height =
                                             epoch + NumEpochsToUnlock]
           q == internal_save_account(p, a, acc2)
<1>1. S \in Nat /\ T \in Nat /\ T <= S /\ T > 0 /\ S > 0
  BY DEF PoolType, PriceOK, UnstakeAllowed
<1>2. n \in Nat
  BY <1>1, NatTimes, DivRoundsUp DEF num_shares_from_staked_amount_rounded_up
<1>3. receive \in Nat
  BY <1>1, <1>2, NatTimes, DivRoundsUp DEF staked_amount_from_num_shares_rounded_up
<1>4. d \in Nat /\ T * d <= S * n
  BY <1>1, <1>2, NatTimes, DivRoundsDown DEF staked_amount_from_num_shares_rounded_down
<1>7. acc2 \in AccountType
  <2> HIDE DEF n, receive
  <2>1. p.accounts[a] \in AccountType BY DEF PoolType
  <2>2. p.accounts[a].unstaked + receive \in Nat BY <1>3, <2>1 DEF AccountType
  <2>3. p.accounts[a].stake_shares + n \in Nat BY <1>2, <2>1 DEF AccountType
  <2>4. epoch + NumEpochsToUnlock \in Nat BY EpochsAssumption
  <2> QED BY <2>1, <2>2, <2>3, <2>4 DEF AccountType
<1>8. q \in PoolType /\ q.total_stake_shares = T /\ q.total_staked_balance = S
        /\ q.last_total_balance = p.last_total_balance
  BY <1>7, SaveAccount
<1>6. inner_unstake(p, a, m) = WithTotals(q, SatSub(S, d), SatSub(T, n))
  BY <1>8 DEF inner_unstake, PoolType, WithTotals
<1> HIDE DEF q, n, d, S, T
<1>10. /\ SatSub(T, n) <= SatSub(S, d)
       /\ SatSub(S, d) * T >= S * SatSub(T, n)
       /\ SatSub(T, n) \in Nat /\ SatSub(S, d) \in Nat
  BY <1>1, <1>2, <1>4, SellShares
<1>9. /\ inner_unstake(p, a, m) \in PoolType
      /\ inner_unstake(p, a, m).total_stake_shares = SatSub(T, n)
      /\ inner_unstake(p, a, m).total_staked_balance = SatSub(S, d)
      /\ inner_unstake(p, a, m).last_total_balance = p.last_total_balance
  <2>1. \A x, y \in Nat :
            /\ WithTotals(q, x, y) \in PoolType
            /\ WithTotals(q, x, y).total_staked_balance = x
            /\ WithTotals(q, x, y).total_stake_shares = y
            /\ WithTotals(q, x, y).last_total_balance = q.last_total_balance
    BY <1>8, UpdateTotals
  <2>2. /\ WithTotals(q, SatSub(S, d), SatSub(T, n)) \in PoolType
        /\ WithTotals(q, SatSub(S, d), SatSub(T, n)).total_staked_balance = SatSub(S, d)
        /\ WithTotals(q, SatSub(S, d), SatSub(T, n)).total_stake_shares = SatSub(T, n)
        /\ WithTotals(q, SatSub(S, d), SatSub(T, n)).last_total_balance = q.last_total_balance
    BY <2>1, <1>10
  <2> QED BY <2>2, <1>6, <1>8
<1> QED BY <1>1, <1>2, <1>9, <1>10 DEF GoodStep, PriceOK, NotCheaper, n, S, T

----------------------------------------------------------------------------
(* Steps of the specification. *)

(* The part of the invariant that a call of the contract must establish.    *)
CallKeeps(p, q) == GoodStep(p, q) /\ q.last_total_balance <= locked + liquid

(* A ping followed by a sale or purchase of shares keeps the price. *)
LEMMA PingThen ==
    ASSUME NEW p \in PoolType, NEW q \in PoolType, NEW s,
           GoodStep(p, q), GoodStep(q, s), q.total_stake_shares > 0
    PROVE  GoodStep(p, s)
<1>1. s \in PoolType /\ PriceOK(s) BY DEF GoodStep
<1>2. /\ p.total_staked_balance \in Nat /\ p.total_stake_shares \in Nat
      /\ q.total_staked_balance \in Nat /\ q.total_stake_shares \in Nat
      /\ s.total_staked_balance \in Nat /\ s.total_stake_shares \in Nat
  BY <1>1 DEF PoolType
<1>3. NotCheaper(p, s)
  BY <1>2, PriceTransitive DEF GoodStep, NotCheaper
<1> QED BY <1>1, <1>3 DEF GoodStep

(* Restaking appends a well-formed receipt. *)
LEMMA RestakeType ==
    ASSUME TypeOK, NEW p \in PoolType
    PROVE  /\ internal_restake(p) => receipts' \in Seq(ReceiptType)
           /\ \A need : RestakeIf(need, p) => receipts' \in Seq(ReceiptType)
<1> DEFINE e == StakeReceipt(p.total_staked_balance, TRUE)
<1>1. e \in ReceiptType
  BY DEF TypeOK, StakeReceipt, ReceiptType, PoolType
<1>2. receipts \in Seq(ReceiptType) BY DEF TypeOK
<1> HIDE DEF e
<1>3. Append(receipts, e) \in Seq(ReceiptType)
  BY <1>1, <1>2
<1> QED BY <1>2, <1>3 DEF internal_restake, RestakeIf, e

(* A call that leaves the protocol's state alone keeps the invariant when    *)
(* it keeps the contract's part and the types of what it changes.            *)
LEMMA CallStep ==
    ASSUME IInv, UNCHANGED protocol,
           GoodStep(pool, pool'),
           liquid' \in Nat, pool'.last_total_balance <= locked + liquid',
           receipts' \in Seq(ReceiptType),
           owned' \in [Accounts -> Int], roundings' \in Nat
    PROVE  IInv' /\ NotCheaper(pool, pool')
BY DEF IInv, protocol, GoodStep, PriceOK, TypeOK, PriceAtLeastOne,
       RecordedBalanceIsHeld, LockCoversStakes

(* Adding an amount to one entry of the history variable keeps its type. *)
LEMMA OwnedUpdate ==
    ASSUME NEW o \in [Accounts -> Int], NEW a \in Accounts, NEW n \in Nat
    PROVE  /\ [o EXCEPT ![a] = @ + n] \in [Accounts -> Int]
           /\ [o EXCEPT ![a] = @ - n] \in [Accounts -> Int]
OBVIOUS

(* A ping keeps the invariant and the price. *)
LEMMA PingAction == ASSUME IInv, ping PROVE IInv' /\ NotCheaper(pool, pool')
<1>1. /\ GoodStep(pool, pinged(0)) /\ pinged(0).last_total_balance <= locked + liquid
      /\ OwnedAfterPing(pool, 0) \in [Accounts -> Int]
  BY PingStep DEF ping
<1>2. pool' = pinged(0) /\ pool' \in PoolType BY <1>1 DEF ping, GoodStep
<1>3. receipts' \in Seq(ReceiptType) BY <1>2, RestakeType DEF ping, IInv
<1> QED BY <1>1, <1>2, <1>3, CallStep DEF ping, IInv, TypeOK

(* A deposit keeps the invariant and the price. *)
LEMMA DepositAction ==
    ASSUME IInv, NEW a \in Accounts, NEW m \in Nat, deposit(a, m)
    PROVE  IInv' /\ NotCheaper(pool, pool')
<1>1. /\ GoodStep(pool, pinged(m)) /\ pinged(m).last_total_balance <= locked + liquid
      /\ OwnedAfterPing(pool, m) \in [Accounts -> Int]
  BY PingStep DEF deposit
<1>2. pinged(m) \in PoolType BY <1>1 DEF GoodStep
<1>3. /\ pool' \in PoolType
      /\ pool'.total_stake_shares = pinged(m).total_stake_shares
      /\ pool'.total_staked_balance = pinged(m).total_staked_balance
      /\ pool'.last_total_balance = pinged(m).last_total_balance + m
  BY <1>2, DepositStep DEF deposit
<1>4. GoodStep(pool, pool') BY <1>1, <1>3 DEF GoodStep, PriceOK, NotCheaper
<1>5. receipts' \in Seq(ReceiptType) BY <1>3, RestakeType DEF deposit, IInv
<1>6. liquid' \in Nat /\ liquid' = liquid + m BY DEF deposit, IInv, TypeOK
<1>7. pinged(m).last_total_balance \in Nat /\ locked \in Nat /\ liquid \in Nat
  BY <1>2 DEF PoolType, IInv, TypeOK
<1>8. pool'.last_total_balance <= locked + liquid' BY <1>1, <1>3, <1>6, <1>7
<1> QED BY <1>1, <1>4, <1>5, <1>6, <1>8, CallStep DEF deposit, IInv, TypeOK

(* A deposit staked at once keeps the invariant and the price. *)
LEMMA DepositAndStakeAction ==
    ASSUME IInv, NEW a \in Accounts, NEW m \in Nat, deposit_and_stake(a, m)
    PROVE  IInv' /\ NotCheaper(pool, pool')
<1> DEFINE p == internal_deposit(pinged(m), a, m)
<1>1. /\ GoodStep(pool, pinged(m)) /\ pinged(m).last_total_balance <= locked + liquid
      /\ OwnedAfterPing(pool, m) \in [Accounts -> Int]
  BY PingStep DEF deposit_and_stake
<1>2. pinged(m) \in PoolType BY <1>1 DEF GoodStep
<1>3. /\ p \in PoolType
      /\ p.total_stake_shares = pinged(m).total_stake_shares
      /\ p.total_staked_balance = pinged(m).total_staked_balance
      /\ p.last_total_balance = pinged(m).last_total_balance + m
  BY <1>2, DepositStep
<1>4. GoodStep(pool, p) BY <1>1, <1>3 DEF GoodStep, PriceOK, NotCheaper
<1>5. /\ StakeAllowed(p, a, m) /\ pool' = internal_stake(p, a, m)
      /\ owned' = [OwnedAfterPing(pool, m) EXCEPT ![a] =
                        @ + num_shares_from_staked_amount_rounded_down(p, m)]
      /\ internal_restake(pool') /\ liquid' = liquid + m /\ roundings' = roundings + 1
      /\ UNCHANGED protocol
  BY DEF deposit_and_stake
<1> HIDE DEF p
<1>6. /\ GoodStep(p, pool') /\ pool'.last_total_balance = p.last_total_balance
      /\ p.total_stake_shares > 0
      /\ num_shares_from_staked_amount_rounded_down(p, m) \in Nat
  BY <1>3, <1>4, <1>5, StakeStep DEF GoodStep
<1>7. GoodStep(pool, pool')
  BY <1>3, <1>4, <1>6, PingThen DEF IInv, TypeOK
<1>8. owned' \in [Accounts -> Int] BY <1>1, <1>5, <1>6, OwnedUpdate
<1>9. receipts' \in Seq(ReceiptType) BY <1>5, <1>6, RestakeType DEF IInv, GoodStep
<1>10. liquid' \in Nat /\ roundings' \in Nat BY <1>5 DEF IInv, TypeOK
<1>11. pinged(m).last_total_balance \in Nat /\ locked \in Nat /\ liquid \in Nat
  BY <1>2 DEF PoolType, IInv, TypeOK
<1>12. pool'.last_total_balance <= locked + liquid'
  BY <1>1, <1>3, <1>5, <1>6, <1>11
<1> QED BY <1>5, <1>7, <1>8, <1>9, <1>10, <1>12, CallStep

(* A withdrawal keeps the invariant and the price. *)
LEMMA WithdrawAction ==
    ASSUME IInv, NEW a \in Accounts, NEW m \in Nat, withdraw(a, m)
    PROVE  IInv' /\ NotCheaper(pool, pool')
<1>1. /\ GoodStep(pool, pinged(0)) /\ pinged(0).last_total_balance <= locked + liquid
      /\ OwnedAfterPing(pool, 0) \in [Accounts -> Int]
  BY PingStep DEF withdraw
<1>2. pinged(0) \in PoolType BY <1>1 DEF GoodStep
<1>3. /\ pool' \in PoolType
      /\ pool'.total_stake_shares = pinged(0).total_stake_shares
      /\ pool'.total_staked_balance = pinged(0).total_staked_balance
      /\ pool'.last_total_balance = SatSub(pinged(0).last_total_balance, m)
  BY <1>2, WithdrawStep DEF withdraw
<1>4. GoodStep(pool, pool') BY <1>1, <1>3 DEF GoodStep, PriceOK, NotCheaper
<1>5. receipts' \in Seq(ReceiptType) BY <1>3, RestakeType DEF withdraw, IInv
<1>6. liquid' \in Nat /\ liquid' = liquid - m BY DEF withdraw, IInv, TypeOK
<1>7. pinged(0).last_total_balance \in Nat /\ locked \in Nat /\ liquid \in Nat
  BY <1>2 DEF PoolType, IInv, TypeOK
<1>8. pool'.last_total_balance <= locked + liquid'
  BY <1>1, <1>3, <1>6, <1>7 DEF SatSub
<1> QED BY <1>1, <1>4, <1>5, <1>6, <1>8, CallStep DEF withdraw, IInv, TypeOK

(* Staking keeps the invariant and the price. *)
LEMMA StakeAction ==
    ASSUME IInv, NEW a \in Accounts, NEW m \in Nat, stake(a, m)
    PROVE  IInv' /\ NotCheaper(pool, pool')
<1> DEFINE p == pinged(0)
<1>1. /\ GoodStep(pool, p) /\ p.last_total_balance <= locked + liquid
      /\ OwnedAfterPing(pool, 0) \in [Accounts -> Int]
  BY PingStep DEF stake
<1>5. /\ StakeAllowed(p, a, m) /\ pool' = internal_stake(p, a, m)
      /\ owned' = [OwnedAfterPing(pool, 0) EXCEPT ![a] =
                        @ + num_shares_from_staked_amount_rounded_down(p, m)]
      /\ internal_restake(pool') /\ liquid' = liquid /\ roundings' = roundings + 1
      /\ UNCHANGED protocol
  BY DEF stake
<1> HIDE DEF p
<1>6. /\ GoodStep(p, pool') /\ pool'.last_total_balance = p.last_total_balance
      /\ p.total_stake_shares > 0
      /\ num_shares_from_staked_amount_rounded_down(p, m) \in Nat
  BY <1>1, <1>5, StakeStep DEF GoodStep
<1>7. GoodStep(pool, pool')
  BY <1>1, <1>6, PingThen DEF IInv, TypeOK, GoodStep
<1>8. owned' \in [Accounts -> Int] BY <1>1, <1>5, <1>6, OwnedUpdate
<1>9. receipts' \in Seq(ReceiptType) BY <1>5, <1>6, RestakeType DEF IInv, GoodStep
<1>10. liquid' \in Nat /\ roundings' \in Nat BY <1>5 DEF IInv, TypeOK
<1>12. pool'.last_total_balance <= locked + liquid' BY <1>1, <1>5, <1>6
<1> QED BY <1>5, <1>7, <1>8, <1>9, <1>10, <1>12, CallStep

(* Unstaking keeps the invariant and the price. *)
LEMMA UnstakeAction ==
    ASSUME IInv, NEW a \in Accounts, NEW m \in Nat, unstake(a, m)
    PROVE  IInv' /\ NotCheaper(pool, pool')
<1> DEFINE p == pinged(0)
<1>1. /\ GoodStep(pool, p) /\ p.last_total_balance <= locked + liquid
      /\ OwnedAfterPing(pool, 0) \in [Accounts -> Int]
  BY PingStep DEF unstake
<1>5. /\ UnstakeAllowed(p, a, m) /\ pool' = inner_unstake(p, a, m)
      /\ owned' = [OwnedAfterPing(pool, 0) EXCEPT ![a] =
                        @ - num_shares_from_staked_amount_rounded_up(p, m)]
      /\ internal_restake(pool') /\ liquid' = liquid /\ roundings' = roundings + 1
      /\ UNCHANGED protocol
  BY DEF unstake
<1> HIDE DEF p
<1>6. /\ GoodStep(p, pool') /\ pool'.last_total_balance = p.last_total_balance
      /\ p.total_stake_shares > 0
      /\ num_shares_from_staked_amount_rounded_up(p, m) \in Nat
  BY <1>1, <1>5, UnstakeStep DEF GoodStep, IInv, TypeOK
<1>7. GoodStep(pool, pool')
  BY <1>1, <1>6, PingThen DEF IInv, TypeOK, GoodStep
<1>8. owned' \in [Accounts -> Int] BY <1>1, <1>5, <1>6, OwnedUpdate
<1>9. receipts' \in Seq(ReceiptType) BY <1>5, <1>6, RestakeType DEF IInv, GoodStep
<1>10. liquid' \in Nat /\ roundings' \in Nat BY <1>5 DEF IInv, TypeOK
<1>12. pool'.last_total_balance <= locked + liquid' BY <1>1, <1>5, <1>6
<1> QED BY <1>5, <1>7, <1>8, <1>9, <1>10, <1>12, CallStep

(* The owner's methods keep the invariant and the price. *)
LEMMA OwnerAction ==
    ASSUME IInv,
           \/ update_staking_key
           \/ \E f \in Fees : update_reward_fee_fraction(f)
           \/ pause_staking
           \/ resume_staking
    PROVE  IInv' /\ NotCheaper(pool, pool')
<1> DEFINE p == pinged(0)
<1>0. PingSucceeds(pool, 0)
  BY DEF update_staking_key, update_reward_fee_fraction, pause_staking, resume_staking
<1>1. /\ GoodStep(pool, p) /\ p.last_total_balance <= locked + liquid
      /\ OwnedAfterPing(pool, 0) \in [Accounts -> Int]
  BY <1>0, PingStep
<1>2. \/ pool' = p
      \/ \E f \in Fees : pool' = [p EXCEPT !.fee = f]
      \/ \E b \in BOOLEAN : pool' = [p EXCEPT !.paused = b]
  BY DEF update_staking_key, update_reward_fee_fraction, pause_staking, resume_staking
<1>3. /\ owned' = OwnedAfterPing(pool, 0) /\ liquid' = liquid
      /\ roundings' = roundings /\ UNCHANGED protocol
      /\ \/ internal_restake(pool')
         \/ RestakeIf(NeedsPing(pool), pool')
         \/ receipts' = Append(receipts, StakeReceipt(0, FALSE))
  BY DEF update_staking_key, update_reward_fee_fraction, pause_staking, resume_staking
<1> HIDE DEF p
<1>4. Fees \subseteq FeeType BY FeesAssumption DEF FeeType
<1>5. /\ pool' \in PoolType
      /\ pool'.total_stake_shares = p.total_stake_shares
      /\ pool'.total_staked_balance = p.total_staked_balance
      /\ pool'.last_total_balance = p.last_total_balance
  BY <1>1, <1>2, <1>4 DEF GoodStep, PoolType
<1>6. GoodStep(pool, pool') BY <1>1, <1>5 DEF GoodStep, PriceOK, NotCheaper
<1>7. StakeReceipt(0, FALSE) \in ReceiptType
  BY DEF IInv, TypeOK, StakeReceipt, ReceiptType
<1>8. Append(receipts, StakeReceipt(0, FALSE)) \in Seq(ReceiptType)
  <2> DEFINE e == StakeReceipt(0, FALSE)
  <2>1. e \in ReceiptType /\ receipts \in Seq(ReceiptType) BY <1>7 DEF IInv, TypeOK
  <2> HIDE DEF e
  <2>2. Append(receipts, e) \in Seq(ReceiptType) BY <2>1
  <2> QED BY <2>2 DEF e
<1>9. receipts' \in Seq(ReceiptType) BY <1>3, <1>5, <1>8, RestakeType DEF IInv
<1>10. liquid' \in Nat /\ roundings' \in Nat BY <1>3 DEF IInv, TypeOK
<1>11. pool'.last_total_balance <= locked + liquid' BY <1>1, <1>3, <1>5
<1> QED BY <1>1, <1>3, <1>6, <1>9, <1>10, <1>11, CallStep

(* The recorded balance stays held while the ledger loses no tokens. *)
LEMMA LedgerStep ==
    ASSUME IInv, pool' = pool, liquid' \in Nat, locked' \in Nat,
           locked + liquid <= locked' + liquid'
    PROVE  RecordedBalanceIsHeld'
<1>1. pool.last_total_balance \in Nat /\ locked \in Nat /\ liquid \in Nat
  BY DEF IInv, TypeOK, PoolType
<1>2. pool.last_total_balance <= locked + liquid BY DEF IInv, RecordedBalanceIsHeld
<1>3. \A a, b, c, d, e \in Nat : e <= a + b /\ a + b <= c + d => e <= c + d
  OBVIOUS
<1>4. pool.last_total_balance <= locked' + liquid' BY <1>1, <1>2, <1>3
<1> QED BY <1>4 DEF RecordedBalanceIsHeld

(* A step that leaves the contract's state alone keeps the price, and the   *)
(* invariant when the ledger does not lose tokens.                          *)
LEMMA RuntimeStep ==
    ASSUME IInv, UNCHANGED <<pool, owned, roundings>>,
           epoch' \in Nat, liquid' \in Nat, locked' \in Nat, desired' \in Nat,
           hist' \in Nat \X Nat, receipts' \in Seq(ReceiptType),
           locked + liquid <= locked' + liquid', LockCoversStakes'
    PROVE  IInv' /\ NotCheaper(pool, pool')
<1>1. RecordedBalanceIsHeld' BY LedgerStep
<1>2. NotCheaper(pool, pool') BY DEF IInv, TypeOK, PoolType, NotCheaper
<1> QED BY <1>1, <1>2 DEF IInv, TypeOK, PriceAtLeastOne

(* A stake action moves tokens from liquid to locked and loses none. *)
LEMMA ExecuteStakeAction ==
    ASSUME IInv, NEW t \in Nat, ExecuteStake(t)
    PROVE  IInv' /\ NotCheaper(pool, pool')
<1> DEFINE r == Head(receipts)
           ok == r.amount = 0 \/ (r.amount >= t /\ r.amount <= liquid + locked)
           raise == IF ok THEN SatSub(r.amount, locked) ELSE 0
           cb == [r EXCEPT !.kind = "on_stake_action", !.ok = ok]
<1>1. /\ receipts \in Seq(ReceiptType) /\ receipts # <<>>
      /\ locked \in Nat /\ liquid \in Nat /\ desired \in Nat /\ epoch \in Nat
      /\ hist \in Nat \X Nat
  BY DEF IInv, TypeOK, ExecuteStake
<1>2. r \in ReceiptType /\ Tail(receipts) \in Seq(ReceiptType) BY <1>1
<1>3. r.amount \in Nat /\ ok \in BOOLEAN BY <1>2 DEF ReceiptType
<1>4. cb \in ReceiptType BY <1>2, <1>3 DEF ReceiptType
<1>5. raise \in Nat /\ raise <= liquid BY <1>1, <1>3 DEF SatSub
<1>6. /\ desired' = (IF ok THEN r.amount ELSE desired)
      /\ locked' = locked + raise /\ liquid' = liquid - raise
      /\ receipts' = (IF r.callback THEN Append(Tail(receipts), cb) ELSE Tail(receipts))
      /\ UNCHANGED <<pool, epoch, hist, owned, roundings>>
  BY DEF ExecuteStake
<1>7. ok => r.amount <= locked + raise BY <1>1, <1>3 DEF SatSub
<1> HIDE DEF r, ok, raise, cb
<1>8. receipts' \in Seq(ReceiptType) BY <1>2, <1>4, <1>6
<1>9. LockCoversStakes'
  <2>1. desired' <= locked'
    BY <1>1, <1>3, <1>5, <1>6, <1>7 DEF IInv, LockCoversStakes
  <2>2. hist'[1] <= locked' /\ hist'[2] <= locked'
    BY <1>1, <1>5, <1>6 DEF IInv, LockCoversStakes
  <2> QED BY <2>1, <2>2 DEF LockCoversStakes
<1>10. /\ liquid' \in Nat /\ locked' \in Nat /\ desired' \in Nat /\ epoch' \in Nat
       /\ hist' \in Nat \X Nat /\ locked + liquid <= locked' + liquid'
  BY <1>1, <1>3, <1>5, <1>6
<1> QED BY <1>6, <1>8, <1>9, <1>10, RuntimeStep

(* The callback only changes the receipts. *)
LEMMA CallbackAction ==
    ASSUME IInv, on_stake_action
    PROVE  IInv' /\ NotCheaper(pool, pool')
<1> DEFINE r == Head(receipts)
           e == [StakeReceipt(0, FALSE) EXCEPT !.origin = r.origin]
<1>1. receipts \in Seq(ReceiptType) /\ receipts # <<>> /\ epoch \in Nat
  BY DEF IInv, TypeOK, on_stake_action
<1>2. r \in ReceiptType /\ Tail(receipts) \in Seq(ReceiptType) BY <1>1
<1>3. e \in ReceiptType BY <1>1, <1>2 DEF ReceiptType, StakeReceipt
<1>4. receipts' = Tail(receipts) \/ receipts' = Append(Tail(receipts), e)
  BY DEF on_stake_action
<1> HIDE DEF e, r
<1>5. receipts' \in Seq(ReceiptType) BY <1>2, <1>3, <1>4
<1>6. UNCHANGED <<pool, protocol, liquid, owned, roundings>> BY DEF on_stake_action
<1>7. /\ liquid' \in Nat /\ locked' \in Nat /\ desired' \in Nat /\ epoch' \in Nat
      /\ hist' \in Nat \X Nat /\ locked + liquid <= locked' + liquid'
      /\ LockCoversStakes'
  BY <1>6 DEF IInv, TypeOK, protocol, LockCoversStakes
<1> QED BY <1>5, <1>6, <1>7, RuntimeStep DEF protocol

(* The end of an epoch releases tokens and pays a reward, and loses none. *)
LEMMA EpochAction ==
    ASSUME IInv, NEW w \in Nat, AdvanceEpoch(w)
    PROVE  IInv' /\ NotCheaper(pool, pool')
<1> DEFINE needed == Max({desired, hist[1], hist[2]})
<1>1. /\ receipts \in Seq(ReceiptType) /\ epoch \in Nat
      /\ locked \in Nat /\ liquid \in Nat /\ desired \in Nat
      /\ hist[1] \in Nat /\ hist[2] \in Nat
      /\ desired <= locked /\ hist[1] <= locked /\ hist[2] <= locked
  BY DEF IInv, TypeOK, LockCoversStakes
<1>2. /\ needed \in {desired, hist[1], hist[2]}
      /\ desired <= needed /\ hist[1] <= needed /\ hist[2] <= needed
  BY <1>1, MaxOfThree
<1>3. /\ epoch' = epoch + 1 /\ hist' = <<desired, hist[1]>>
      /\ locked' = needed + w /\ liquid' = liquid + (locked - needed)
      /\ desired' = (IF desired > 0 THEN desired + w ELSE 0)
      /\ UNCHANGED <<pool, receipts, owned, roundings>>
  BY DEF AdvanceEpoch
<1> HIDE DEF needed
<1>4. needed \in Nat /\ needed <= locked BY <1>1, <1>2
<1>5. LockCoversStakes'
  <2>1. desired' <= locked' BY <1>1, <1>2, <1>3, <1>4
  <2>2. hist'[1] = desired /\ hist'[2] = hist[1] BY <1>3
  <2>3. hist'[1] <= locked' /\ hist'[2] <= locked' BY <1>1, <1>2, <1>3, <1>4, <2>2
  <2> QED BY <2>1, <2>3 DEF LockCoversStakes
<1>6. /\ liquid' \in Nat /\ locked' \in Nat /\ desired' \in Nat /\ epoch' \in Nat
      /\ locked + liquid <= locked' + liquid'
  BY <1>1, <1>3, <1>4
<1>7. hist' \in Nat \X Nat BY <1>1, <1>3
<1>8. receipts' \in Seq(ReceiptType) BY <1>1, <1>3
<1> QED BY <1>3, <1>5, <1>6, <1>7, <1>8, RuntimeStep

----------------------------------------------------------------------------
(* Theorems. *)

(* The contract as `new` leaves it satisfies the invariant. *)
LEMMA InitInv == Init => IInv
<1> SUFFICES ASSUME Init PROVE IInv OBVIOUS
<1>1. PICK f \in Fees : pool = new(f) BY DEF Init
<1>2. f \in FeeType BY FeesAssumption DEF FeeType
<1>3. DefaultAccount \in AccountType BY DEF DefaultAccount, AccountType
<1>4. pool \in PoolType BY <1>1, <1>2, <1>3, AmountsAssumption DEF new, PoolType
<1>5. StakeReceipt(InitialStake, TRUE) \in ReceiptType
  BY AmountsAssumption DEF Init, StakeReceipt, ReceiptType
<1>6. TypeOK
  <2> DEFINE e == StakeReceipt(InitialStake, TRUE)
  <2>1. e \in ReceiptType /\ receipts = <<e>> BY <1>5 DEF Init
  <2> HIDE DEF e
  <2>2. receipts \in Seq(ReceiptType) BY <2>1
  <2>3. owned \in [Accounts -> Int] BY DEF Init
  <2>4. hist \in Nat \X Nat BY DEF Init
  <2>5. epoch \in Nat /\ liquid \in Nat /\ locked \in Nat /\ desired \in Nat
          /\ roundings \in Nat
    BY AmountsAssumption DEF Init
  <2> QED BY <1>4, <2>2, <2>3, <2>4, <2>5 DEF TypeOK
<1>7. PriceAtLeastOne BY <1>1, AmountsAssumption DEF new, PriceAtLeastOne
<1>8. RecordedBalanceIsHeld /\ LockCoversStakes
  BY <1>1, AmountsAssumption DEF Init, new, RecordedBalanceIsHeld, LockCoversStakes
<1> QED BY <1>6, <1>7, <1>8 DEF IInv

(* Every step keeps the invariant and never makes a share cheaper. *)
LEMMA NextInv ==
    ASSUME IInv, [Next]_vars
    PROVE  IInv' /\ NotCheaper(pool, pool')
<1>a. Amounts \subseteq Nat /\ Rewards \subseteq Nat /\ Thresholds \subseteq Nat
  BY AmountsAssumption
<1>1. CASE ping BY <1>1, PingAction
<1>2. CASE \E a \in Accounts, m \in Amounts :
               deposit(a, m) \/ deposit_and_stake(a, m) \/ withdraw(a, m)
                 \/ stake(a, m) \/ unstake(a, m)
  BY <1>2, <1>a, DepositAction, DepositAndStakeAction, WithdrawAction, StakeAction,
     UnstakeAction
<1>3. CASE \E a \in Accounts : withdraw_all(a) \/ stake_all(a)
  <2>1. PICK a \in Accounts : withdraw_all(a) \/ stake_all(a) BY <1>3
  <2>2. pool.accounts[a].unstaked \in Nat BY DEF IInv, TypeOK, PoolType, AccountType
  <2> QED BY <2>1, <2>2, WithdrawAction, StakeAction DEF withdraw_all, stake_all
<1>4. CASE \E a \in Accounts : unstake_all(a)
  <2>1. PICK a \in Accounts : unstake_all(a) BY <1>4
  <2> DEFINE p == pinged(0)
             n == p.accounts[a].stake_shares
  <2>2. p \in PoolType /\ p.total_stake_shares > 0
    BY <2>1, PingStep DEF unstake_all, GoodStep
  <2>3. n \in Nat /\ p.total_staked_balance \in Nat /\ p.total_stake_shares \in Nat
    BY <2>2 DEF PoolType, AccountType
  <2>4. staked_amount_from_num_shares_rounded_down(p, n) \in Nat
    BY <2>2, <2>3, NatTimes, DivRoundsDown DEF staked_amount_from_num_shares_rounded_down
  <2>5. unstake(a, staked_amount_from_num_shares_rounded_down(p, n))
    BY <2>1 DEF unstake_all
  <2> QED BY <2>4, <2>5, UnstakeAction
<1>5. CASE update_staking_key \/ (\E f \in Fees : update_reward_fee_fraction(f))
             \/ pause_staking \/ resume_staking
  BY <1>5, OwnerAction
<1>6. CASE \E t \in Thresholds : ExecuteStake(t) BY <1>6, <1>a, ExecuteStakeAction
<1>7. CASE on_stake_action BY <1>7, CallbackAction
<1>8. CASE \E r \in Rewards : AdvanceEpoch(r) BY <1>8, <1>a, EpochAction
<1>9. CASE UNCHANGED vars
  BY <1>9 DEF vars, IInv, TypeOK, PriceAtLeastOne, RecordedBalanceIsHeld,
              LockCoversStakes, NotCheaper, PoolType
<1> QED BY <1>1, <1>2, <1>3, <1>4, <1>5, <1>6, <1>7, <1>8, <1>9 DEF Next

(* The inductive invariant holds in every reachable state. *)
THEOREM Invariant == Spec => []IInv
<1>1. Init => IInv BY InitInv
<1>2. IInv /\ [Next]_vars => IInv' BY NextInv
<1> QED BY <1>1, <1>2, PTL DEF Spec

(* No balance, share count or epoch of the pool leaves the naturals: the    *)
(* plain subtractions of the code never underflow.                          *)
THEOREM TypeCorrect == Spec => []TypeOK
<1>1. IInv => TypeOK BY DEF IInv
<1> QED BY <1>1, Invariant, PTL

(* A share is always worth at least one atto: internal_stake's and          *)
(* inner_unstake's "Invariant violation" assertions cannot fail.            *)
THEOREM SharePriceAtLeastOne == Spec => []PriceAtLeastOne
<1>1. IInv => PriceAtLeastOne BY DEF IInv
<1> QED BY <1>1, Invariant, PTL

(* No step of the pool, its callbacks or the protocol lowers the price.     *)
THEOREM SharePriceMonotone == Spec => PriceNeverDecreases
<1>1. IInv /\ [Next]_vars =>
        [pool'.total_staked_balance * pool.total_stake_shares
          >= pool.total_staked_balance * pool'.total_stake_shares]_vars
  BY NextInv DEF NotCheaper
<1> QED BY <1>1, Invariant, PTL DEF Spec, PriceNeverDecreases

(* internal_ping's assertion on the total balance never fails.              *)
THEOREM PingBalanceNeverShrinks == Spec => []RecordedBalanceIsHeld
<1>1. IInv => RecordedBalanceIsHeld BY DEF IInv
<1> QED BY <1>1, Invariant, PTL

----------------------------------------------------------------------------
(* Unstaked balances. *)

(* The part of an account's unstaked balance that is not available before   *)
(* epoch e.                                                                 *)
Part(account, e) ==
    IF account.unstaked_available_epoch_height >= e THEN account.unstaked ELSE 0

(* The same of all accounts. *)
Held(p, e) == SumOver([a \in Accounts |-> Part(p.accounts[a], e)], Accounts)

(* A part of an account's unstaked balance is a natural number.             *)
LEMMA PartType ==
    ASSUME NEW account \in AccountType, NEW e \in Int
    PROVE  Part(account, e) \in Nat /\ Part(account, 0) = account.unstaked
BY DEF Part, AccountType

(* So is the sum of the parts.                                              *)
LEMMA HeldType ==
    ASSUME NEW p \in PoolType, NEW e \in Int
    PROVE  Held(p, e) \in Nat
<1> DEFINE f == [a \in Accounts |-> Part(p.accounts[a], e)]
<1>1. \A a \in Accounts : p.accounts[a] \in AccountType
    BY DEF PoolType
<1>2. \A a \in Accounts : f[a] \in Nat
    BY <1>1, PartType
<1> HIDE DEF f
<1>3. SumOver(f, Accounts) \in Nat
    BY <1>2, AccountsAssumption, SumIsNat
<1> QED BY <1>3 DEF Held, f

(* It depends on the accounts only.                                         *)
LEMMA HeldOfAccounts ==
    ASSUME NEW p, NEW q, q.accounts = p.accounts, NEW e
    PROVE  Held(q, e) = Held(p, e)
BY DEF Held

(* Only account a changes. *)
LEMMA HeldChanged ==
    ASSUME NEW p \in PoolType, NEW q \in PoolType, NEW a \in Accounts,
           \A b \in Accounts \ {a} : q.accounts[b] = p.accounts[b], NEW e \in Int
    PROVE  Held(q, e) = Held(p, e) - Part(p.accounts[a], e) + Part(q.accounts[a], e)
<1> DEFINE f == [b \in Accounts |-> Part(p.accounts[b], e)]
           h == [b \in Accounts |-> Part(q.accounts[b], e)]
<1>1. \A b \in Accounts : p.accounts[b] \in AccountType /\ q.accounts[b] \in AccountType
    BY DEF PoolType
<1>2. \A b \in Accounts : f[b] \in Int /\ h[b] \in Int
    BY <1>1, PartType
<1>3. \A b \in Accounts \ {a} : h[b] = f[b]
    OBVIOUS
<1>4. f[a] = Part(p.accounts[a], e) /\ h[a] = Part(q.accounts[a], e)
    OBVIOUS
<1> HIDE DEF f, h
<1>5. SumOver(h, Accounts) = SumOver(f, Accounts) - f[a] + h[a]
    BY <1>2, <1>3, AccountsAssumption, SumChanged
<1> QED BY <1>4, <1>5 DEF Held, f, h

(* Saving an account, or removing one that holds nothing. *)
LEMMA HeldAfterSave ==
    ASSUME NEW p \in PoolType, NEW a \in Accounts, NEW account \in AccountType, NEW e \in Int
    PROVE  Held(internal_save_account(p, a, account), e)
                = Held(p, e) - Part(p.accounts[a], e) + Part(account, e)
<1> DEFINE q == internal_save_account(p, a, account)
<1>1. q \in PoolType
    BY SaveAccount
<1>2. \A b \in Accounts \ {a} : q.accounts[b] = p.accounts[b]
    BY DEF internal_save_account, PoolType
<1>3. Part(q.accounts[a], e) = Part(account, e)
  <2>1. q.accounts[a] = IF account.unstaked > 0 \/ account.stake_shares > 0
                        THEN account ELSE DefaultAccount
    BY DEF internal_save_account, PoolType
  <2>2. account.unstaked \in Nat
    BY DEF AccountType
  <2>3. CASE account.unstaked = 0
    BY <2>1, <2>3 DEF Part, DefaultAccount
  <2>4. CASE account.unstaked > 0
    BY <2>1, <2>4
  <2> QED BY <2>2, <2>3, <2>4
<1> HIDE DEF q
<1>4. Held(q, e) = Held(p, e) - Part(p.accounts[a], e) + Part(q.accounts[a], e)
    BY <1>1, <1>2, HeldChanged
<1> QED BY <1>3, <1>4 DEF q

----------------------------------------------------------------------------
(* The books: all shares but the initial ones were bought, and what is owed *)
(* is covered, until shares were paid that no account had bought; then the  *)
(* pool is without shares for ever.                                         *)

Bought(o) == SumOver(o, Accounts)

BooksOK(p, o, k) ==
    \/ /\ p.total_stake_shares = InitialStake + Bought(o)
       /\ p.total_staked_balance + Held(p, 0) + GuaranteeFund <= p.last_total_balance + k
    \/ /\ p.total_stake_shares = 0
       /\ InitialStake + Bought(o) < 0

(* Shares bought and paid add up to an integer.                             *)
LEMMA BoughtType == ASSUME NEW o \in [Accounts -> Int] PROVE Bought(o) \in Int
BY AccountsAssumption, SumIsInt DEF Bought

(* One account buys or pays n shares.                                       *)
LEMMA BoughtChanged ==
    ASSUME NEW o \in [Accounts -> Int], NEW a \in Accounts, NEW n \in Int
    PROVE  Bought([o EXCEPT ![a] = @ + n]) = Bought(o) + n
<1> DEFINE h == [o EXCEPT ![a] = @ + n]
<1>1. /\ \A b \in Accounts : o[b] \in Int /\ h[b] \in Int
      /\ \A b \in Accounts \ {a} : h[b] = o[b]
      /\ h[a] = o[a] + n
    OBVIOUS
<1> HIDE DEF h
<1>2. SumOver(h, Accounts) = SumOver(o, Accounts) - o[a] + h[a]
    BY <1>1, AccountsAssumption, SumChanged
<1>3. SumOver(o, Accounts) \in Int
    BY <1>1, AccountsAssumption, SumIsInt
<1>4. SumOver(h, Accounts) = SumOver(o, Accounts) + n
    BY <1>1, <1>2, <1>3
<1> QED BY <1>4 DEF Bought, h

(* What is staked or not available before any of the coming epochs does not *)
(* shrink.                                                                  *)
NoLoss(p, q) ==
    \A e \in Int :
        epoch < e /\ e <= epoch + NumEpochsToUnlock =>
            q.total_staked_balance + Held(q, e) >= p.total_staked_balance + Held(p, e)

(* No balance is locked for longer than the unlocking delay. *)
Timely(p) ==
    \A a \in Accounts :
        p.accounts[a].unstaked_available_epoch_height <= epoch + NumEpochsToUnlock

SameRecord(p, q) == q.last_epoch_height = p.last_epoch_height /\ q.paused = p.paused

(* Rounding up adds at most one. *)
LEMMA RoundingGap ==
    ASSUME NEW x \in Nat, NEW b \in Nat, b > 0
    PROVE  /\ x \div b \in Nat /\ (x + (b - 1)) \div b \in Nat
           /\ x \div b <= (x + (b - 1)) \div b
           /\ (x + (b - 1)) \div b <= x \div b + 1
<1> DEFINE d == x \div b
           u == (x + (b - 1)) \div b
           y == x + (b - 1)
<1>0. y \in Nat
    OBVIOUS
<1>1. d \in Nat /\ b * d <= x /\ x < b * d + b
    BY DivRoundsDown
<1>2. u \in Nat /\ b * u <= y /\ b * u >= x
    BY <1>0, DivRoundsDown, DivRoundsUp
<1> HIDE DEF d, u
<1>3. d <= u
  <2>1. b * d <= b * u
    BY <1>1, <1>2
  <2> QED BY <1>1, <1>2, <2>1, Cancel
<1>4. u <= d + 1
  <2>1. b * u < b * d + b + b
    BY <1>1, <1>2
  <2>2. CASE u >= d + 2
    <3>1. b * u >= b * (d + 2)
      BY <1>1, <1>2, <2>2
    <3>2. b * (d + 2) = b * d + b + b
      BY <1>1
    <3> QED BY <1>1, <1>2, <2>1, <3>1, <3>2
  <2> QED BY <1>1, <1>2, <2>2
<1> QED BY <1>1, <1>2, <1>3, <1>4 DEF d, u

----------------------------------------------------------------------------
(* What the contract's operations do to the books. *)

(* Saving an account, or removing one. *)
LEMMA TimelyAfterSave ==
    ASSUME NEW p \in PoolType, Timely(p), NEW a \in Accounts, NEW account \in AccountType,
           account.unstaked_available_epoch_height <= epoch + NumEpochsToUnlock,
           epoch \in Nat
    PROVE  Timely(internal_save_account(p, a, account))
<1>1. DefaultAccount.unstaked_available_epoch_height <= epoch + NumEpochsToUnlock
    BY EpochsAssumption DEF DefaultAccount
<1>2. \A b \in Accounts :
            internal_save_account(p, a, account).accounts[b] \in
                {p.accounts[b], account, DefaultAccount}
    BY DEF internal_save_account, PoolType
<1> QED BY <1>1, <1>2 DEF Timely

(* Only unstaking locks a balance, for the unlocking delay. *)
LEMMA OperationsAreTimely ==
    ASSUME NEW p \in PoolType, PriceOK(p), Timely(p), epoch \in Nat,
           NEW a \in Accounts, NEW m \in Nat
    PROVE  /\ Timely(internal_deposit(p, a, m))
           /\ WithdrawAllowed(p, a, m) => Timely(internal_withdraw(p, a, m))
           /\ StakeAllowed(p, a, m) => Timely(internal_stake(p, a, m))
           /\ UnstakeAllowed(p, a, m) => Timely(inner_unstake(p, a, m))
<1> DEFINE acc == p.accounts[a]
<1>1. acc \in AccountType /\ acc.unstaked_available_epoch_height <= epoch + NumEpochsToUnlock
    BY DEF PoolType, Timely
<1>2. Timely(internal_deposit(p, a, m))
  <2> DEFINE acc2 == [acc EXCEPT !.unstaked = @ + m]
             s == internal_save_account(p, a, acc2)
  <2>1. acc2 \in AccountType
        /\ acc2.unstaked_available_epoch_height <= epoch + NumEpochsToUnlock
    BY <1>1 DEF AccountType
  <2>2. s \in PoolType /\ Timely(s)
    BY <2>1, SaveAccount, TimelyAfterSave
  <2>3. internal_deposit(p, a, m) = [s EXCEPT !.last_total_balance = @ + m]
    BY DEF internal_deposit
  <2> HIDE DEF s
  <2> QED BY <2>2, <2>3 DEF Timely, PoolType
<1>3. ASSUME WithdrawAllowed(p, a, m) PROVE Timely(internal_withdraw(p, a, m))
  <2> DEFINE acc2 == [acc EXCEPT !.unstaked = @ - m]
             s == internal_save_account(p, a, acc2)
  <2>1. acc2 \in AccountType
        /\ acc2.unstaked_available_epoch_height <= epoch + NumEpochsToUnlock
    BY <1>1, <1>3 DEF AccountType, WithdrawAllowed
  <2>2. s \in PoolType /\ Timely(s)
    BY <2>1, SaveAccount, TimelyAfterSave
  <2>3. internal_withdraw(p, a, m) = [s EXCEPT !.last_total_balance = SatSub(@, m)]
    BY DEF internal_withdraw
  <2> HIDE DEF s
  <2> QED BY <2>2, <2>3 DEF Timely, PoolType
<1>4. ASSUME StakeAllowed(p, a, m) PROVE Timely(internal_stake(p, a, m))
  <2> DEFINE n == num_shares_from_staked_amount_rounded_down(p, m)
             charge == staked_amount_from_num_shares_rounded_down(p, n)
             up == staked_amount_from_num_shares_rounded_up(p, n)
             acc2 == [acc EXCEPT !.unstaked = @ - charge, !.stake_shares = @ + n]
             s == internal_save_account(p, a, acc2)
  <2>1. n \in Nat /\ p.total_staked_balance * n \in Nat /\ p.total_stake_shares > 0
        /\ p.total_stake_shares \in Nat
    <3>1. n \in Nat /\ p.total_staked_balance \in Nat
      BY <1>4, StakeStep DEF PoolType
    <3> QED BY <1>4, <3>1, NatTimes, StakeStep DEF PoolType
  <2>2. charge \in Nat /\ acc.unstaked >= charge
    BY <1>4, <2>1, DivRoundsDown DEF StakeAllowed, staked_amount_from_num_shares_rounded_down
  <2>3. internal_stake(p, a, m) =
            [s EXCEPT !.total_staked_balance = @ + up, !.total_stake_shares = @ + n]
    BY DEF internal_stake
  <2> HIDE DEF n, charge, up
  <2>4. acc.unstaked - charge \in Nat /\ acc.stake_shares + n \in Nat
    BY <1>1, <2>1, <2>2 DEF AccountType
  <2>5. acc2 \in AccountType
        /\ acc2.unstaked_available_epoch_height <= epoch + NumEpochsToUnlock
    <3> HIDE DEF acc
    <3> QED BY <1>1, <2>4 DEF AccountType
  <2>6. s \in PoolType /\ Timely(s)
    BY <2>5, SaveAccount, TimelyAfterSave
  <2> HIDE DEF s
  <2> QED BY <2>3, <2>6 DEF Timely, PoolType
<1>5. ASSUME UnstakeAllowed(p, a, m) PROVE Timely(inner_unstake(p, a, m))
  <2> DEFINE n == num_shares_from_staked_amount_rounded_up(p, m)
             receive == staked_amount_from_num_shares_rounded_up(p, n)
             d == staked_amount_from_num_shares_rounded_down(p, n)
             h == epoch + NumEpochsToUnlock
             acc2 == [acc EXCEPT !.stake_shares = @ + n, !.unstaked = @ + receive,
                                 !.unstaked_available_epoch_height = h]
             s == internal_save_account(p, a, acc2)
  <2>1. n \in Nat /\ p.total_staked_balance * n \in Nat /\ p.total_stake_shares > 0
        /\ p.total_stake_shares \in Nat
    <3>1. n \in Nat /\ p.total_staked_balance \in Nat
      BY <1>5, UnstakeStep DEF PoolType
    <3> QED BY <1>5, <3>1, NatTimes, UnstakeStep DEF PoolType
  <2>2. receive \in Nat
    BY <2>1, DivRoundsUp DEF staked_amount_from_num_shares_rounded_up
  <2>3. inner_unstake(p, a, m) =
            [s EXCEPT !.total_staked_balance = SatSub(@, d), !.total_stake_shares = SatSub(@, n)]
    BY DEF inner_unstake
  <2> HIDE DEF n, receive, d
  <2>4. acc.unstaked + receive \in Nat /\ acc.stake_shares + n \in Nat /\ h \in Nat
    BY <1>1, <2>1, <2>2, EpochsAssumption DEF AccountType
  <2>5. acc2 \in AccountType
        /\ acc2.unstaked_available_epoch_height <= epoch + NumEpochsToUnlock
    <3>1. h <= epoch + NumEpochsToUnlock
      BY EpochsAssumption
    <3> HIDE DEF acc, h
    <3>2. acc2 \in AccountType /\ acc2.unstaked_available_epoch_height = h
      BY <1>1, <2>4 DEF AccountType
    <3> QED BY <3>1, <3>2
  <2>6. s \in PoolType /\ Timely(s)
    BY <2>5, SaveAccount, TimelyAfterSave
  <2> HIDE DEF s
  <2> QED BY <2>3, <2>6 DEF Timely, PoolType
<1> QED BY <1>2, <1>3, <1>4, <1>5

(* A deposit is owed, and recorded. *)
LEMMA DepositBooks ==
    ASSUME NEW p \in PoolType, NEW a \in Accounts, NEW m \in Nat
    PROVE  LET q == internal_deposit(p, a, m)
           IN  /\ q \in PoolType /\ SameRecord(p, q) /\ NoLoss(p, q)
               /\ q.total_staked_balance = p.total_staked_balance
               /\ q.last_total_balance = p.last_total_balance + m
               /\ \A o : \A k \in Nat : BooksOK(p, o, k) => BooksOK(q, o, k)
<1> DEFINE acc == p.accounts[a]
           acc2 == [acc EXCEPT !.unstaked = @ + m]
           s == internal_save_account(p, a, acc2)
           q == internal_deposit(p, a, m)
<1>1. acc \in AccountType /\ acc2 \in AccountType
    BY DEF PoolType, AccountType
<1>2. /\ s \in PoolType /\ SameRecord(p, s) /\ s.last_total_balance = p.last_total_balance
      /\ s.total_staked_balance = p.total_staked_balance
    BY <1>1, SaveAccount DEF SameRecord
<1>3. q = [s EXCEPT !.last_total_balance = @ + m]
    BY DEF internal_deposit
<1>4. ASSUME NEW e \in Int
      PROVE  /\ Held(p, e) \in Nat /\ Held(s, e) >= Held(p, e) /\ Held(s, e) \in Nat
             /\ Held(s, 0) = Held(p, 0) + m
  <2>1. Held(s, e) = Held(p, e) - Part(acc, e) + Part(acc2, e)
    BY <1>1, HeldAfterSave
  <2>2. Held(s, 0) = Held(p, 0) - Part(acc, 0) + Part(acc2, 0)
    BY <1>1, HeldAfterSave
  <2>3. Part(acc, e) \in Nat /\ Part(acc2, e) \in Nat /\ Part(acc2, e) >= Part(acc, e)
    BY <1>1 DEF Part, AccountType
  <2>4. Part(acc, 0) \in Nat /\ Part(acc2, 0) = Part(acc, 0) + m
    BY <1>1 DEF Part, AccountType
  <2>5. Held(p, e) \in Nat /\ Held(p, 0) \in Nat /\ Held(s, e) \in Nat
    BY <1>2, HeldType
  <2> HIDE DEF acc, acc2, s
  <2> QED BY <2>1, <2>2, <2>3, <2>4, <2>5
<1> HIDE DEF s
<1>5. /\ q \in PoolType /\ SameRecord(p, q) /\ q.accounts = s.accounts
      /\ q.total_stake_shares = s.total_stake_shares
      /\ q.total_staked_balance = p.total_staked_balance
      /\ q.last_total_balance = p.last_total_balance + m
    BY <1>2, <1>3 DEF PoolType, SameRecord
<1>6. q.total_stake_shares = p.total_stake_shares
    BY DepositStep
<1> HIDE DEF q
<1>7. \A e \in Int : Held(q, e) = Held(s, e)
    BY <1>5, HeldOfAccounts
<1>8. p.total_staked_balance \in Nat /\ p.last_total_balance \in Nat
    BY DEF PoolType
<1>9. NoLoss(p, q)
    BY <1>4, <1>5, <1>7, <1>8 DEF NoLoss
<1>10. ASSUME NEW o, NEW k \in Nat, BooksOK(p, o, k) PROVE BooksOK(q, o, k)
  <2>1. Held(q, 0) = Held(p, 0) + m /\ Held(p, 0) \in Nat
    BY <1>4, <1>7
  <2>2. GuaranteeFund \in Nat
    BY AmountsAssumption
  <2> QED BY <1>5, <1>6, <1>8, <1>10, <2>1, <2>2 DEF BooksOK
<1> QED BY <1>5, <1>9, <1>10 DEF q

(* A withdrawal pays what was owed and could be withdrawn. *)
LEMMA WithdrawBooks ==
    ASSUME NEW p \in PoolType, NEW a \in Accounts, NEW m \in Nat,
           WithdrawAllowed(p, a, m), m <= p.last_total_balance, epoch \in Nat
    PROVE  LET q == internal_withdraw(p, a, m)
           IN  /\ q \in PoolType /\ SameRecord(p, q) /\ NoLoss(p, q)
               /\ q.total_staked_balance = p.total_staked_balance
               /\ q.last_total_balance = p.last_total_balance - m
               /\ \A o : \A k \in Nat : BooksOK(p, o, k) => BooksOK(q, o, k)
<1> DEFINE acc == p.accounts[a]
           acc2 == [acc EXCEPT !.unstaked = @ - m]
           s == internal_save_account(p, a, acc2)
           q == internal_withdraw(p, a, m)
<1>1. /\ acc \in AccountType /\ acc2 \in AccountType /\ m <= acc.unstaked
      /\ acc.unstaked_available_epoch_height <= epoch
    BY DEF PoolType, AccountType, WithdrawAllowed
<1>2. /\ s \in PoolType /\ SameRecord(p, s) /\ s.last_total_balance = p.last_total_balance
      /\ s.total_staked_balance = p.total_staked_balance
    BY <1>1, SaveAccount DEF SameRecord
<1>3. q = [s EXCEPT !.last_total_balance = SatSub(@, m)]
    BY DEF internal_withdraw
<1>4. ASSUME NEW e \in Int
      PROVE  /\ Held(p, e) \in Nat /\ Held(p, 0) \in Nat
             /\ e > epoch => Held(s, e) = Held(p, e)
             /\ Held(s, 0) = Held(p, 0) - m
  <2>1. Held(s, e) = Held(p, e) - Part(acc, e) + Part(acc2, e)
    BY <1>1, HeldAfterSave
  <2>2. Held(s, 0) = Held(p, 0) - Part(acc, 0) + Part(acc2, 0)
    BY <1>1, HeldAfterSave
  <2>3. e > epoch => Part(acc, e) = 0 /\ Part(acc2, e) = 0
    BY <1>1 DEF Part, AccountType
  <2>4. Part(acc, 0) \in Nat /\ Part(acc2, 0) = Part(acc, 0) - m
    BY <1>1 DEF Part, AccountType
  <2>5. Held(p, e) \in Nat /\ Held(p, 0) \in Nat /\ Held(s, e) \in Nat
    BY <1>2, HeldType
  <2> HIDE DEF acc, acc2, s
  <2> QED BY <2>1, <2>2, <2>3, <2>4, <2>5
<1> HIDE DEF s
<1>5. /\ q \in PoolType /\ SameRecord(p, q) /\ q.accounts = s.accounts
      /\ q.total_stake_shares = s.total_stake_shares
      /\ q.total_staked_balance = p.total_staked_balance
      /\ q.last_total_balance = p.last_total_balance - m
    BY <1>2, <1>3 DEF PoolType, SameRecord, SatSub
<1>6. q.total_stake_shares = p.total_stake_shares
    BY WithdrawStep
<1> HIDE DEF q
<1>7. \A e \in Int : Held(q, e) = Held(s, e)
    BY <1>5, HeldOfAccounts
<1>8. p.total_staked_balance \in Nat /\ p.last_total_balance \in Nat
    BY DEF PoolType
<1>9. NoLoss(p, q)
    BY <1>4, <1>5, <1>7, <1>8 DEF NoLoss
<1>10. ASSUME NEW o, NEW k \in Nat, BooksOK(p, o, k) PROVE BooksOK(q, o, k)
  <2>1. Held(q, 0) = Held(p, 0) - m /\ Held(p, 0) \in Nat
    BY <1>4, <1>7
  <2>2. GuaranteeFund \in Nat
    BY AmountsAssumption
  <2> QED BY <1>5, <1>6, <1>8, <1>10, <2>1, <2>2 DEF BooksOK
<1> QED BY <1>5, <1>9, <1>10 DEF q

(* A stake turns what was owed into stake; the rounding is paid out of the  *)
(* guarantee fund.                                                          *)
LEMMA StakeBooks ==
    ASSUME NEW p \in PoolType, PriceOK(p), NEW a \in Accounts, NEW m \in Nat,
           StakeAllowed(p, a, m)
    PROVE  LET q == internal_stake(p, a, m)
               n == num_shares_from_staked_amount_rounded_down(p, m)
           IN  /\ SameRecord(p, q) /\ NoLoss(p, q)
               /\ \A o \in [Accounts -> Int] : \A k \in Nat :
                    BooksOK(p, o, k) => BooksOK(q, [o EXCEPT ![a] = @ + n], k + 1)
<1> DEFINE S == p.total_staked_balance
           T == p.total_stake_shares
           n == num_shares_from_staked_amount_rounded_down(p, m)
           charge == staked_amount_from_num_shares_rounded_down(p, n)
           up == staked_amount_from_num_shares_rounded_up(p, n)
           acc == p.accounts[a]
           acc2 == [acc EXCEPT !.unstaked = @ - charge, !.stake_shares = @ + n]
           s == internal_save_account(p, a, acc2)
           q == internal_stake(p, a, m)
<1>1. S \in Nat /\ T \in Nat /\ T > 0 /\ S > 0 /\ p.last_total_balance \in Nat /\ n \in Nat
    BY StakeStep DEF PoolType, StakeAllowed
<1>2. charge \in Nat /\ up \in Nat /\ charge <= up /\ up <= charge + 1
  <2> DEFINE x == S * n
  <2>1. charge = x \div T /\ up = (x + (T - 1)) \div T
    BY DEF staked_amount_from_num_shares_rounded_down, staked_amount_from_num_shares_rounded_up
  <2>2. x \in Nat
    BY <1>1, NatTimes
  <2> HIDE DEF x, S, T, n, charge, up
  <2> QED BY <1>1, <2>1, <2>2, RoundingGap
<1>3. acc \in AccountType /\ acc.unstaked >= charge
    BY DEF PoolType, StakeAllowed
<1>4. acc2 \in AccountType
  <2> HIDE DEF n, charge, acc
  <2>1. acc.unstaked - charge \in Nat /\ acc.stake_shares + n \in Nat
    BY <1>1, <1>2, <1>3 DEF AccountType
  <2> QED BY <1>3, <2>1 DEF AccountType
<1>5. /\ s \in PoolType /\ SameRecord(p, s) /\ s.last_total_balance = p.last_total_balance
      /\ s.total_stake_shares = T /\ s.total_staked_balance = S
    BY <1>4, SaveAccount DEF SameRecord
<1>6. q = [s EXCEPT !.total_staked_balance = @ + up, !.total_stake_shares = @ + n]
    BY DEF internal_stake
<1> HIDE DEF s
<1>7. /\ SameRecord(p, q) /\ q.accounts = s.accounts
      /\ q.total_stake_shares = T + n /\ q.total_staked_balance = S + up
      /\ q.last_total_balance = p.last_total_balance
    BY <1>5, <1>6 DEF PoolType, SameRecord
<1> USE DEF s
<1>8. ASSUME NEW e \in Int
      PROVE  /\ Held(p, e) \in Nat /\ Held(q, e) \in Int /\ Held(q, e) >= Held(p, e) - charge
             /\ Held(p, 0) \in Nat /\ Held(q, 0) = Held(p, 0) - charge
  <2>1. Held(s, e) = Held(p, e) - Part(acc, e) + Part(acc2, e)
    BY <1>4, HeldAfterSave
  <2>2. Held(s, 0) = Held(p, 0) - Part(acc, 0) + Part(acc2, 0)
    BY <1>4, HeldAfterSave
  <2>3. Part(acc, e) \in Nat /\ Part(acc2, e) \in Nat /\ Part(acc2, e) >= Part(acc, e) - charge
    <3> HIDE DEF charge, n, acc
    <3> QED BY <1>1, <1>2, <1>3 DEF Part, AccountType
  <2>4. Part(acc, 0) \in Nat /\ Part(acc2, 0) = Part(acc, 0) - charge
    <3> HIDE DEF charge, n, acc
    <3> QED BY <1>1, <1>2, <1>3 DEF Part, AccountType
  <2>5. Held(p, e) \in Nat /\ Held(p, 0) \in Nat
    BY HeldType
  <2>6. Held(q, e) = Held(s, e) /\ Held(q, 0) = Held(s, 0)
    BY <1>7, HeldOfAccounts
  <2> HIDE DEF acc, acc2, s, charge, q
  <2> QED BY <1>2, <2>1, <2>2, <2>3, <2>4, <2>5, <2>6
<1> HIDE DEF s, q, S, T, charge, up, n, acc, acc2
<1>9. NoLoss(p, q)
  <2> SUFFICES ASSUME NEW e \in Int PROVE S + up + Held(q, e) >= S + Held(p, e)
    BY <1>7 DEF NoLoss, S
  <2> QED BY <1>1, <1>2, <1>8
<1>10. ASSUME NEW o \in [Accounts -> Int], NEW k \in Nat, BooksOK(p, o, k)
       PROVE  BooksOK(q, [o EXCEPT ![a] = @ + n], k + 1)
  <2> DEFINE o2 == [o EXCEPT ![a] = @ + n]
  <2>0. n \in Int
    BY <1>1
  <2>1. Bought(o2) = Bought(o) + n /\ Bought(o) \in Int
    BY <2>0, BoughtChanged, BoughtType
  <2> HIDE DEF o2
  <2>2. GuaranteeFund \in Nat /\ InitialStake \in Nat
    BY AmountsAssumption
  <2>3. /\ T = InitialStake + Bought(o)
        /\ S + Held(p, 0) + GuaranteeFund <= p.last_total_balance + k
    BY <1>1, <1>10 DEF BooksOK, T, S
  <2>4. q.total_stake_shares = InitialStake + Bought(o2)
    BY <1>1, <1>7, <2>1, <2>2, <2>3
  <2>5. q.total_staked_balance + Held(q, 0) + GuaranteeFund <= q.last_total_balance + (k + 1)
    <3>1. Held(q, 0) = Held(p, 0) - charge /\ Held(p, 0) \in Nat
      BY <1>8
    <3> QED BY <1>1, <1>2, <1>7, <2>2, <2>3, <3>1
  <2>6. BooksOK(q, o2, k + 1)
    BY <2>4, <2>5 DEF BooksOK
  <2> QED BY <2>6 DEF o2
<1> QED BY <1>7, <1>9, <1>10 DEF n, q

(* An unstake turns stake into what is owed after the unlocking delay.      *)
LEMMA UnstakeBooks ==
    ASSUME NEW p \in PoolType, PriceOK(p), NEW a \in Accounts, NEW m \in Nat,
           UnstakeAllowed(p, a, m), epoch \in Nat,
           p.accounts[a].unstaked_available_epoch_height <= epoch + NumEpochsToUnlock
    PROVE  LET q == inner_unstake(p, a, m)
               n == num_shares_from_staked_amount_rounded_up(p, m)
           IN  /\ SameRecord(p, q) /\ NoLoss(p, q)
               /\ \A o \in [Accounts -> Int] : \A k \in Nat :
                    BooksOK(p, o, k) => BooksOK(q, [o EXCEPT ![a] = @ - n], k + 1)
<1> DEFINE S == p.total_staked_balance
           T == p.total_stake_shares
           n == num_shares_from_staked_amount_rounded_up(p, m)
           receive == staked_amount_from_num_shares_rounded_up(p, n)
           d == staked_amount_from_num_shares_rounded_down(p, n)
           acc == p.accounts[a]
           h == epoch + NumEpochsToUnlock
           acc2 == [acc EXCEPT !.stake_shares = @ + n, !.unstaked = @ + receive,
                               !.unstaked_available_epoch_height = h]
           s == internal_save_account(p, a, acc2)
           q == inner_unstake(p, a, m)
<1>1. S \in Nat /\ T \in Nat /\ T > 0 /\ S > 0 /\ p.last_total_balance \in Nat /\ n \in Nat
      /\ h \in Nat
    BY UnstakeStep, EpochsAssumption DEF PoolType, UnstakeAllowed
<1>2. d \in Nat /\ receive \in Nat /\ d <= receive /\ receive <= d + 1 /\ (n <= T => d <= S)
  <2> DEFINE x == S * n
  <2>1. d = x \div T /\ receive = (x + (T - 1)) \div T
    BY DEF staked_amount_from_num_shares_rounded_down, staked_amount_from_num_shares_rounded_up
  <2>2. x \in Nat
    BY <1>1, NatTimes
  <2>3. n <= T => x <= T * S
    BY <1>1
  <2> HIDE DEF x, S, T, n, d, receive
  <2>4. d \in Nat /\ receive \in Nat /\ d <= receive /\ receive <= d + 1
    BY <1>1, <2>1, <2>2, RoundingGap
  <2>5. T * d <= x
    BY <1>1, <2>1, <2>2, DivRoundsDown
  <2>6. ASSUME n <= T PROVE d <= S
    <3>1. T * d <= T * S
      BY <1>1, <2>2, <2>3, <2>4, <2>5, <2>6
    <3> QED BY <1>1, <2>4, <3>1, Cancel
  <2> QED BY <2>4, <2>6
<1>3. acc \in AccountType /\ acc.unstaked_available_epoch_height <= h
    BY DEF PoolType
<1>4. acc2 \in AccountType
  <2> HIDE DEF n, receive, acc, h
  <2>1. acc.unstaked + receive \in Nat /\ acc.stake_shares + n \in Nat
    BY <1>1, <1>2, <1>3 DEF AccountType
  <2> QED BY <1>1, <1>3, <2>1 DEF AccountType
<1>5. /\ s \in PoolType /\ SameRecord(p, s) /\ s.last_total_balance = p.last_total_balance
      /\ s.total_stake_shares = T /\ s.total_staked_balance = S
    BY <1>4, SaveAccount DEF SameRecord
<1>6. q = [s EXCEPT !.total_staked_balance = SatSub(@, d), !.total_stake_shares = SatSub(@, n)]
    BY DEF inner_unstake
<1> HIDE DEF s
<1>7. /\ SameRecord(p, q) /\ q.accounts = s.accounts
      /\ q.total_stake_shares = SatSub(T, n) /\ q.total_staked_balance = SatSub(S, d)
      /\ q.last_total_balance = p.last_total_balance
    BY <1>5, <1>6 DEF PoolType, SameRecord
<1> USE DEF s
<1>8. ASSUME NEW e \in Int
      PROVE  /\ Held(p, e) \in Nat /\ Held(q, e) \in Int
             /\ e <= h => Held(q, e) >= Held(p, e) + receive
             /\ Held(p, 0) \in Nat /\ Held(q, 0) = Held(p, 0) + receive
  <2>1. Held(s, e) = Held(p, e) - Part(acc, e) + Part(acc2, e)
    BY <1>4, HeldAfterSave
  <2>2. Held(s, 0) = Held(p, 0) - Part(acc, 0) + Part(acc2, 0)
    BY <1>4, HeldAfterSave
  <2>3. /\ Part(acc, e) \in Nat /\ Part(acc2, e) \in Nat
        /\ e <= h => Part(acc2, e) >= Part(acc, e) + receive
    <3> HIDE DEF receive, n, acc, h
    <3> QED BY <1>1, <1>2, <1>3 DEF Part, AccountType
  <2>4. Part(acc, 0) \in Nat /\ Part(acc2, 0) = Part(acc, 0) + receive
    <3> HIDE DEF receive, n, acc, h
    <3> QED BY <1>1, <1>2, <1>3 DEF Part, AccountType
  <2>5. Held(p, e) \in Nat /\ Held(p, 0) \in Nat
    BY HeldType
  <2>6. Held(q, e) = Held(s, e) /\ Held(q, 0) = Held(s, 0)
    BY <1>7, HeldOfAccounts
  <2> HIDE DEF acc, acc2, s, receive, q, h
  <2> QED BY <1>2, <2>1, <2>2, <2>3, <2>4, <2>5, <2>6
<1> HIDE DEF s, q, S, T, receive, d, n, acc, acc2
<1>9. NoLoss(p, q)
  <2> SUFFICES ASSUME NEW e \in Int, e <= h PROVE SatSub(S, d) + Held(q, e) >= S + Held(p, e)
    BY <1>7 DEF NoLoss, S
  <2>1. SatSub(S, d) \in Nat /\ SatSub(S, d) >= S - d
    BY <1>1, <1>2 DEF SatSub
  <2> HIDE DEF h
  <2> QED BY <1>1, <1>2, <1>8, <2>1
<1> HIDE DEF h
<1>10. ASSUME NEW o \in [Accounts -> Int], NEW k \in Nat, BooksOK(p, o, k)
       PROVE  BooksOK(q, [o EXCEPT ![a] = @ - n], k + 1)
  <2> DEFINE o2 == [o EXCEPT ![a] = @ - n]
  <2>0. -n \in Int /\ o2 = [o EXCEPT ![a] = @ + (-n)]
    <3>1. o[a] - n = o[a] + (-n) /\ -n \in Int
      BY <1>1
    <3> QED BY <3>1
  <2>1. Bought(o2) = Bought(o) + (-n) /\ Bought(o) \in Int
    <3> HIDE DEF o2
    <3> QED BY <2>0, BoughtChanged, BoughtType
  <2> HIDE DEF o2
  <2>2. GuaranteeFund \in Nat /\ InitialStake \in Nat
    BY AmountsAssumption
  <2>3. /\ T = InitialStake + Bought(o)
        /\ S + Held(p, 0) + GuaranteeFund <= p.last_total_balance + k
    BY <1>1, <1>10 DEF BooksOK, T, S
  <2>4. CASE n <= T
    <3>1. q.total_stake_shares = InitialStake + Bought(o2)
      BY <1>1, <1>7, <2>1, <2>2, <2>3, <2>4 DEF SatSub
    <3>2. q.total_staked_balance + Held(q, 0) + GuaranteeFund <= q.last_total_balance + (k + 1)
      <4>1. Held(q, 0) = Held(p, 0) + receive /\ Held(p, 0) \in Nat
        BY <1>8
      <4>2. q.total_staked_balance = S - d
        BY <1>1, <1>2, <1>7, <2>4 DEF SatSub
      <4> QED BY <1>1, <1>2, <1>7, <2>2, <2>3, <4>1, <4>2
    <3> QED BY <3>1, <3>2 DEF BooksOK, o2
  <2>5. CASE n > T
    <3>1. q.total_stake_shares = 0
      BY <1>1, <1>7, <2>5 DEF SatSub
    <3>2. InitialStake + Bought(o2) < 0
      BY <1>1, <2>1, <2>2, <2>3, <2>5
    <3> QED BY <3>1, <3>2 DEF BooksOK, o2
  <2> QED BY <1>1, <2>4, <2>5
<1> QED BY <1>7, <1>9, <1>10 DEF n, q

(* A reward is shared out and recorded; only the owner's fee buys shares.   *)
LEMMA RewardBooks ==
    ASSUME NEW p \in PoolType, PriceOK(p), NEW r \in Nat,
           WithDelegatorsReward(p, r).total_staked_balance > 0
    PROVE  LET q == DistributeReward(p, r)
               n == OwnerShares(p, r)
           IN  /\ q \in PoolType /\ SameRecord(p, q)
               /\ n \in Nat /\ (p.total_stake_shares = 0 => n = 0)
               /\ q.total_stake_shares = p.total_stake_shares + n
               /\ q.total_staked_balance = p.total_staked_balance + r
               /\ \A e \in Int : Held(q, e) = Held(p, e)
<1> DEFINE n == OwnerShares(p, r)
           acc == p.accounts[Owner]
           acc2 == [acc EXCEPT !.stake_shares = @ + n]
           s == IF n > 0 THEN internal_save_account(p, Owner, acc2) ELSE p
           q == DistributeReward(p, r)
<1>1. n \in Nat /\ q \in PoolType /\ Owner \in Accounts
    BY RewardStep, AccountsAssumption DEF GoodStep
<1>2. p.total_stake_shares = 0 => n = 0
  <2> DEFINE t == WithDelegatorsReward(p, r).total_staked_balance
             f == multiply(p.fee, r)
  <2>1. WithDelegatorsReward(p, r).total_stake_shares = p.total_stake_shares
    BY DEF WithDelegatorsReward, PoolType
  <2>2. f \in Nat /\ f <= r
    BY FeeIsAPart DEF PoolType
  <2>3. n = (p.total_stake_shares * f) \div t
    BY <2>1 DEF OwnerShares, num_shares_from_staked_amount_rounded_down
  <2>4. t \in Nat /\ t > 0
    BY <2>2 DEF WithDelegatorsReward, PoolType
  <2> HIDE DEF t, f, n
  <2>5. p.total_stake_shares = 0 => n = 0 \div t
    BY <2>2, <2>3
  <2> QED BY <2>4, <2>5
<1>3. acc \in AccountType
    BY <1>1 DEF PoolType
<1>4. acc2 \in AccountType
  <2> HIDE DEF n, acc
  <2> QED BY <1>1, <1>3 DEF AccountType
<1>5. /\ s \in PoolType /\ SameRecord(p, s)
      /\ s.total_stake_shares = p.total_stake_shares
      /\ s.total_staked_balance = p.total_staked_balance
    BY <1>1, <1>4, SaveAccount DEF SameRecord
<1>6. ASSUME NEW e \in Int PROVE Held(s, e) = Held(p, e)
  <2>1. CASE n > 0
    <3>1. Held(s, e) = Held(p, e) - Part(acc, e) + Part(acc2, e)
      BY <1>1, <1>4, <2>1, HeldAfterSave
    <3>2. Part(acc, e) = Part(acc2, e) /\ Part(acc, e) \in Nat
      BY <1>3, PartType DEF Part, AccountType
    <3>3. Held(p, e) \in Nat
      BY HeldType
    <3> HIDE DEF acc, acc2, s
    <3> QED BY <3>1, <3>2, <3>3
  <2>2. CASE ~(n > 0)
    BY <2>2
  <2> QED BY <2>1, <2>2
<1>7. q = [s EXCEPT !.total_stake_shares = @ + n, !.total_staked_balance = @ + r]
    BY DEF DistributeReward
<1> HIDE DEF s
<1>8. /\ SameRecord(p, q) /\ q.accounts = s.accounts
      /\ q.total_stake_shares = p.total_stake_shares + n
      /\ q.total_staked_balance = p.total_staked_balance + r
    BY <1>5, <1>7 DEF PoolType, SameRecord
<1> HIDE DEF q, n
<1>9. \A e \in Int : Held(q, e) = Held(p, e)
    BY <1>6, <1>8, HeldOfAccounts
<1> QED BY <1>1, <1>2, <1>8, <1>9 DEF q, n

----------------------------------------------------------------------------
(* The protocol's stake. *)

(* What was not yet distributed. *)
Undistributed == (locked + liquid) - pool.last_total_balance

(* What the contract recorded in this epoch is all it holds, and no balance *)
(* is locked for longer than the unlocking delay.                           *)
RecordOK ==
    /\ pool.last_epoch_height <= epoch
    /\ pool.last_epoch_height = epoch => pool.last_total_balance = locked + liquid
    /\ Timely(pool)

(* The first thing that a call of the contract does. *)
LEMMA PingBooks ==
    ASSUME IInv, RecordOK, NEW m \in Nat, PingSucceeds(pool, m)
    PROVE  LET p == pinged(m)
           IN  /\ p \in PoolType /\ PriceOK(p)
               /\ p.last_epoch_height = epoch /\ p.paused = pool.paused
               /\ p.last_total_balance = locked + liquid
               /\ p.total_staked_balance = pool.total_staked_balance + Undistributed
               /\ \A e \in Int : Held(p, e) = Held(pool, e)
               /\ OwnedAfterPing(pool, m) \in [Accounts -> Int]
               /\ \A k \in Nat : BooksOK(pool, owned, k) => BooksOK(p, OwnedAfterPing(pool, m), k)
               /\ ~NeedsPing(pool) => p = pool
               /\ Timely(p)
<1> DEFINE p == pinged(m)
           r == RewardOf(pool, m)
           t == total_balance(m)
           o == OwnedAfterPing(pool, m)
<1>1. pool \in PoolType /\ PriceOK(pool) /\ owned \in [Accounts -> Int] /\ epoch \in Nat
    BY DEF IInv, TypeOK, PriceAtLeastOne, PriceOK
<1>2. /\ t = locked + liquid /\ t \in Nat /\ pool.last_total_balance \in Nat
      /\ pool.total_staked_balance \in Nat /\ pool.total_stake_shares \in Nat
      /\ locked \in Nat /\ liquid \in Nat
    BY DEF IInv, TypeOK, PoolType, total_balance, SatSub
<1>3. p \in PoolType /\ PriceOK(p) /\ o \in [Accounts -> Int]
    BY PingStep DEF GoodStep
<1>4. CASE ~NeedsPing(pool)
  <2>1. p = pool /\ o = owned /\ pool.last_epoch_height = epoch
    BY <1>4 DEF pinged, internal_ping, OwnedAfterPing, NeedsPing
  <2>2. Undistributed = 0 /\ pool.last_total_balance = locked + liquid
    BY <1>2, <2>1 DEF RecordOK, Undistributed
  <2> QED BY <1>1, <1>2, <2>1, <2>2 DEF RecordOK
<1>5. CASE NeedsPing(pool)
  <2>1. r \in Nat /\ r = t - pool.last_total_balance /\ r = Undistributed
    BY <1>2, <1>5 DEF PingSucceeds, RewardOf, Undistributed
  <2> DEFINE q == IF r > 0 THEN DistributeReward(pool, r) ELSE pool
             n == IF r > 0 THEN OwnerShares(pool, r) ELSE 0
  <2>2. /\ q \in PoolType /\ SameRecord(pool, q)
        /\ n \in Nat /\ (pool.total_stake_shares = 0 => n = 0)
        /\ q.total_stake_shares = pool.total_stake_shares + n
        /\ q.total_staked_balance = pool.total_staked_balance + r
        /\ \A e \in Int : Held(q, e) = Held(pool, e)
    <3>1. CASE r > 0
      <4>1. WithDelegatorsReward(pool, r).total_staked_balance > 0
        BY <1>5, <3>1 DEF PingSucceeds
      <4> QED BY <1>1, <2>1, <3>1, <4>1, RewardBooks
    <3>2. CASE ~(r > 0)
      <4>1. r = 0
        BY <2>1, <3>2
      <4> HIDE DEF r
      <4> QED BY <1>1, <1>2, <4>1 DEF SameRecord
    <3> QED BY <3>1, <3>2
  <2>3. p = [q EXCEPT !.last_epoch_height = epoch, !.last_total_balance = t]
    BY <1>5 DEF pinged, internal_ping
  <2>4. o = IF r > 0 THEN [owned EXCEPT ![Owner] = @ + n] ELSE owned
    BY <1>5 DEF OwnedAfterPing
  <2>9. Timely(q)
    <3>1. CASE r > 0
      <4> DEFINE acc2 == [pool.accounts[Owner] EXCEPT !.stake_shares = @ + OwnerShares(pool, r)]
                 s == IF OwnerShares(pool, r) > 0
                      THEN internal_save_account(pool, Owner, acc2) ELSE pool
      <4>1. q.accounts = s.accounts
        <5>1. q = [s EXCEPT !.total_stake_shares = @ + OwnerShares(pool, r),
                            !.total_staked_balance = @ + r]
          BY <3>1 DEF DistributeReward
        <5>2. s = [pool EXCEPT !.accounts = s.accounts]
          BY <1>1 DEF internal_save_account, PoolType
        <5> HIDE DEF s, q
        <5> QED BY <1>1, <5>1, <5>2 DEF PoolType
      <4>2. \A a \in Accounts : pool.accounts[a] \in AccountType
        BY <1>1 DEF PoolType
      <4>3. \A a \in Accounts :
                \/ s.accounts[a] = pool.accounts[a]
                \/ s.accounts[a] = acc2 /\ a = Owner
                \/ s.accounts[a] = DefaultAccount
        BY <1>1, AccountsAssumption DEF internal_save_account, PoolType
      <4>4. acc2.unstaked_available_epoch_height
                = pool.accounts[Owner].unstaked_available_epoch_height
        BY <4>2, AccountsAssumption DEF AccountType
      <4>5. DefaultAccount.unstaked_available_epoch_height = 0 /\ 0 <= epoch + NumEpochsToUnlock
        BY <1>1, EpochsAssumption DEF DefaultAccount
      <4> HIDE DEF s, acc2, q
      <4> QED BY <4>1, <4>3, <4>4, <4>5, AccountsAssumption DEF RecordOK, Timely
    <3>2. CASE ~(r > 0)
      BY <3>2 DEF RecordOK
    <3> QED BY <3>1, <3>2
  <2> HIDE DEF q, n, t, r
  <2>5. /\ p.last_epoch_height = epoch /\ p.last_total_balance = t /\ p.paused = q.paused
        /\ p.accounts = q.accounts /\ p.total_stake_shares = q.total_stake_shares
        /\ p.total_staked_balance = q.total_staked_balance
    BY <2>2, <2>3 DEF PoolType
  <2> HIDE DEF p, o
  <2>6. \A e \in Int : Held(p, e) = Held(pool, e)
    BY <2>2, <2>5, HeldOfAccounts
  <2>7. ASSUME NEW k \in Nat, BooksOK(pool, owned, k) PROVE BooksOK(p, o, k)
    <3>1. Bought(o) = Bought(owned) + n /\ Bought(owned) \in Int
      <4>1. CASE r > 0
        <5>1. Owner \in Accounts /\ n \in Int /\ o = [owned EXCEPT ![Owner] = @ + n]
          BY <2>2, <2>4, <4>1, AccountsAssumption
        <5> QED BY <1>1, <5>1, BoughtChanged, BoughtType
      <4>2. CASE ~(r > 0)
        <5>1. n = 0 /\ o = owned /\ Bought(owned) \in Int
          BY <1>1, <2>4, <4>2, BoughtType DEF n
        <5> QED BY <5>1
      <4> QED BY <4>1, <4>2
    <3>2. GuaranteeFund \in Nat /\ InitialStake \in Nat /\ Held(pool, 0) \in Nat
          /\ Held(p, 0) = Held(pool, 0)
      BY <1>1, <2>6, HeldType, AmountsAssumption
    <3>3. CASE /\ pool.total_stake_shares = InitialStake + Bought(owned)
               /\ pool.total_staked_balance + Held(pool, 0) + GuaranteeFund
                        <= pool.last_total_balance + k
      <4>1. p.total_stake_shares = InitialStake + Bought(o)
        BY <1>2, <2>2, <2>5, <3>1, <3>2, <3>3
      <4>2. p.total_staked_balance + Held(p, 0) + GuaranteeFund <= p.last_total_balance + k
        BY <1>2, <2>1, <2>2, <2>5, <3>2, <3>3
      <4> QED BY <4>1, <4>2 DEF BooksOK
    <3>4. CASE pool.total_stake_shares = 0 /\ InitialStake + Bought(owned) < 0
      <4>1. p.total_stake_shares = 0 /\ Bought(o) = Bought(owned)
        BY <2>2, <2>5, <3>1, <3>4
      <4> QED BY <3>4, <4>1 DEF BooksOK
    <3> QED BY <2>7, <3>3, <3>4 DEF BooksOK
  <2>8. p.paused = pool.paused /\ p.total_staked_balance = pool.total_staked_balance + Undistributed
        /\ p.last_total_balance = locked + liquid
    BY <1>2, <2>1, <2>2, <2>5 DEF SameRecord
  <2>10. Timely(p)
    BY <2>5, <2>9 DEF Timely
  <2> QED BY <1>3, <1>5, <2>5, <2>6, <2>7, <2>8, <2>10 DEF p, o
<1> QED BY <1>4, <1>5

----------------------------------------------------------------------------
(* What the protocol's stake settles to.  The receipts of the epochs O end  *)
(* with a stake in G, or leave the stake d, which is then in G or is undone *)
(* by the callback of a failed stake.                                       *)

IsStake(r, O) == r.kind = "stake" /\ r.origin \in O

IsFailure(r, O) == r.kind = "on_stake_action" /\ ~r.ok /\ r.origin \in O

Settles(rs, d, O, G) ==
    /\ \A i \in 1..Len(rs) :
            /\ IsStake(rs[i], O)
            /\ \A j \in 1..Len(rs) : j > i => ~IsStake(rs[j], O)
            => rs[i].amount \in G
    /\ (\A i \in 1..Len(rs) : ~IsStake(rs[i], O))
            => d \in G \/ \E i \in 1..Len(rs) : IsFailure(rs[i], O)

(* A stake is requested. *)
LEMMA SettlesWithStake ==
    ASSUME NEW rs \in Seq(ReceiptType), NEW r \in ReceiptType, NEW d, NEW O, NEW G,
           r.kind = "stake",
           IF r.origin \in O THEN r.amount \in G ELSE Settles(rs, d, O, G)
    PROVE  Settles(Append(rs, r), d, O, G)
<1> DEFINE s == Append(rs, r)
           n == Len(rs)
<1>1. /\ n \in Nat /\ Len(s) = n + 1 /\ s[n + 1] = r /\ \A i \in 1..n : s[i] = rs[i]
    OBVIOUS
<1> HIDE DEF s, n
<1>2. \A i \in 1..(n + 1) : i \in 1..n \/ i = n + 1
    BY <1>1
<1>3. CASE r.origin \in O
  <2>1. IsStake(r, O) /\ n + 1 \in 1..Len(s) /\ \A i \in 1..n : n + 1 > i
    BY <1>1, <1>3 DEF IsStake
  <2>2. \A i \in 1..Len(s) : (\A j \in 1..Len(s) : j > i => ~IsStake(s[j], O)) => i = n + 1
    BY <1>1, <1>2, <2>1
  <2>3. ~ \A i \in 1..Len(s) : ~IsStake(s[i], O)
    BY <1>1, <2>1
  <2> QED BY <1>1, <1>3, <2>2, <2>3 DEF Settles, s
<1>4. CASE r.origin \notin O
  <2>1. ~IsStake(r, O) /\ Settles(rs, d, O, G)
    BY <1>4 DEF IsStake
  <2>2. \A i \in 1..Len(s) : IsStake(s[i], O) => i \in 1..n /\ IsStake(rs[i], O)
    BY <1>1, <1>2, <2>1
  <2>3. \A i \in 1..n : i \in 1..Len(s)
    BY <1>1
  <2>4. ASSUME NEW i \in 1..Len(s), IsStake(s[i], O),
               \A j \in 1..Len(s) : j > i => ~IsStake(s[j], O)
        PROVE  s[i].amount \in G
    <3>1. i \in 1..n /\ IsStake(rs[i], O) /\ s[i] = rs[i]
      BY <1>1, <2>2, <2>4
    <3>2. \A j \in 1..n : j > i => ~IsStake(rs[j], O)
      BY <1>1, <2>3, <2>4
    <3> QED BY <2>1, <3>1, <3>2 DEF Settles, n
  <2>5. ASSUME \A i \in 1..Len(s) : ~IsStake(s[i], O)
        PROVE  d \in G \/ \E i \in 1..Len(s) : IsFailure(s[i], O)
    <3>1. \A i \in 1..n : ~IsStake(rs[i], O)
      BY <1>1, <2>3, <2>5
    <3>2. d \in G \/ \E i \in 1..n : IsFailure(rs[i], O)
      BY <2>1, <3>1 DEF Settles, n
    <3> QED BY <1>1, <2>3, <3>2
  <2> QED BY <2>4, <2>5 DEF Settles, s
<1> QED BY <1>3, <1>4

(* A queue settles within any larger set of amounts.                        *)
LEMMA SettlesMore ==
    ASSUME NEW rs, NEW d, NEW O, NEW G, NEW H, Settles(rs, d, O, G), G \subseteq H
    PROVE  Settles(rs, d, O, H)
BY DEF Settles

(* A stake action is executed. *)
LEMMA SettlesExecuted ==
    ASSUME NEW rs \in Seq(ReceiptType), rs # <<>>, NEW d, NEW O, NEW G, Settles(rs, d, O, G),
           NEW r, r = Head(rs), r.kind = "stake", NEW ok \in BOOLEAN,
           r.callback \/ ok, r.origin \in O \/ r.amount \in G,
           NEW c, c = [r EXCEPT !.kind = "on_stake_action", !.ok = ok]
    PROVE  Settles(IF r.callback THEN Append(Tail(rs), c) ELSE Tail(rs),
                   IF ok THEN r.amount ELSE d, O, G)
<1> DEFINE t == Tail(rs)
           n == Len(t)
           s == IF r.callback THEN Append(t, c) ELSE t
           d2 == IF ok THEN r.amount ELSE d
<1>1. /\ n \in Nat /\ Len(rs) = n + 1 /\ rs[1] = r /\ \A i \in 1..n : t[i] = rs[i + 1]
      /\ r \in ReceiptType /\ t \in Seq(ReceiptType)
    OBVIOUS
<1>2. c.kind = "on_stake_action" /\ c.ok = ok /\ c.origin = r.origin
    BY <1>1 DEF ReceiptType
<1>3. /\ Len(s) \in {n, n + 1} /\ (r.callback => Len(s) = n + 1 /\ s[n + 1] = c)
      /\ Len(s) = n + 1 => r.callback
      /\ \A i \in 1..n : s[i] = rs[i + 1]
  <2> DEFINE a == Append(t, c)
  <2>0. n = Len(t)
    OBVIOUS
  <2> HIDE DEF t, n
  <2>1. Len(a) = n + 1 /\ a[n + 1] = c /\ \A i \in 1..n : a[i] = t[i]
    <3>1. c \in ReceiptType
      BY <1>1 DEF ReceiptType
    <3> QED BY <1>1, <2>0, <3>1
  <2> HIDE DEF a
  <2>2. CASE r.callback
    <3>1. s = a
      BY <2>2 DEF a
    <3> QED BY <1>1, <2>1, <2>2, <3>1
  <2>3. CASE ~r.callback
    <3>1. s = t
      BY <2>3
    <3> HIDE DEF s
    <3> QED BY <1>1, <2>0, <2>3, <3>1
  <2> QED BY <2>2, <2>3
<1> HIDE DEF s, n, t
<1>4. \A i \in 1..Len(s) : IsStake(s[i], O) => i \in 1..n /\ IsStake(rs[i + 1], O)
  <2>1. \A i \in 1..Len(s) : i \in 1..n \/ (i = n + 1 /\ r.callback)
    BY <1>1, <1>3
  <2> QED BY <1>2, <1>3, <2>1 DEF IsStake
<1>5. \A j \in 1..Len(rs) : j > 1 => \E i \in 1..n : j = i + 1
  <2> SUFFICES ASSUME NEW j \in 1..Len(rs), j > 1 PROVE \E i \in 1..n : j = i + 1
    OBVIOUS
  <2>1. j - 1 \in 1..n /\ j = (j - 1) + 1
    BY <1>1
  <2> QED BY <2>1
<1>6. \A i \in 1..n : i \in 1..Len(s) /\ i + 1 \in 1..Len(rs) /\ i + 1 > 1
    BY <1>1, <1>3
<1>7. ASSUME NEW i \in 1..Len(s), IsStake(s[i], O),
             \A j \in 1..Len(s) : j > i => ~IsStake(s[j], O)
      PROVE  s[i].amount \in G
  <2>1. i \in 1..n /\ IsStake(rs[i + 1], O) /\ s[i] = rs[i + 1]
    BY <1>3, <1>4, <1>7
  <2>2. ASSUME NEW j \in 1..Len(rs), j > i + 1 PROVE ~IsStake(rs[j], O)
    <3>1. j > 1
      BY <2>1, <2>2
    <3>2. PICK k \in 1..n : j = k + 1
      BY <1>5, <3>1
    <3>3. k > i
      BY <2>1, <2>2, <3>2
    <3> QED BY <1>3, <1>6, <1>7, <3>2, <3>3
  <2> QED BY <1>6, <2>1, <2>2 DEF Settles
<1>8. ASSUME \A i \in 1..Len(s) : ~IsStake(s[i], O)
      PROVE  d2 \in G \/ \E i \in 1..Len(s) : IsFailure(s[i], O)
  <2>1. \A i \in 1..n : ~IsStake(rs[i + 1], O)
    BY <1>3, <1>6, <1>8
  <2>2. \A j \in 1..Len(rs) : j > 1 => ~IsStake(rs[j], O)
    BY <1>5, <2>1
  <2>3. 1 \in 1..Len(rs)
    BY <1>1
  <2>4. CASE r.origin \in O
    <3>1. IsStake(rs[1], O)
      BY <1>1, <2>4 DEF IsStake
    <3>2. r.amount \in G
      BY <1>1, <2>2, <2>3, <3>1 DEF Settles
    <3>3. CASE ok
      BY <3>2, <3>3
    <3>4. CASE ~ok
      <4>1. r.callback /\ Len(s) = n + 1 /\ s[n + 1] = c /\ n + 1 \in 1..Len(s)
        BY <1>1, <1>3, <3>4
      <4>2. IsFailure(c, O)
        BY <1>2, <2>4, <3>4 DEF IsFailure
      <4> QED BY <4>1, <4>2
    <3> QED BY <3>3, <3>4
  <2>5. CASE r.origin \notin O
    <3>1. ~IsStake(rs[1], O) /\ ~IsFailure(rs[1], O)
      BY <1>1, <2>5 DEF IsStake, IsFailure
    <3>2. \A j \in 1..Len(rs) : ~IsStake(rs[j], O)
      <4>1. \A j \in 1..Len(rs) : j = 1 \/ j > 1
        BY <1>1
      <4> QED BY <2>2, <3>1, <4>1
    <3>3. d \in G \/ \E j \in 1..Len(rs) : IsFailure(rs[j], O)
      BY <3>2 DEF Settles
    <3>4. CASE \E j \in 1..Len(rs) : IsFailure(rs[j], O)
      <4>1. PICK j \in 1..Len(rs) : IsFailure(rs[j], O)
        BY <3>4
      <4>2. j > 1
        BY <1>1, <3>1, <4>1
      <4>3. PICK i \in 1..n : j = i + 1
        BY <1>5, <4>2
      <4> QED BY <1>3, <1>6, <4>1, <4>3
    <3>5. CASE d \in G
      BY <2>5, <3>5
    <3> QED BY <3>3, <3>4, <3>5
  <2> QED BY <2>4, <2>5
<1>9. Settles(s, d2, O, G)
    BY <1>7, <1>8 DEF Settles
<1> QED BY <1>9 DEF s, t

(* The callback of a stake action; u undoes a stake that failed.            *)
LEMMA SettlesCalledBack ==
    ASSUME NEW rs \in Seq(ReceiptType), rs # <<>>, NEW d, NEW O, NEW G, Settles(rs, d, O, G),
           NEW r, r = Head(rs), r.kind = "on_stake_action", NEW undone \in BOOLEAN,
           NEW u \in ReceiptType, u.kind = "stake", u.amount \in G, u.origin = r.origin,
           r.ok \/ undone \/ d \in G
    PROVE  Settles(IF undone THEN Append(Tail(rs), u) ELSE Tail(rs), d, O, G)
<1> DEFINE t == Tail(rs)
           n == Len(t)
<1>1. /\ n \in Nat /\ Len(rs) = n + 1 /\ rs[1] = r /\ \A i \in 1..n : t[i] = rs[i + 1]
      /\ t \in Seq(ReceiptType)
    OBVIOUS
<1> HIDE DEF t, n
<1>2. \A j \in 1..Len(rs) : j > 1 => \E i \in 1..n : j = i + 1
  <2> SUFFICES ASSUME NEW j \in 1..Len(rs), j > 1 PROVE \E i \in 1..n : j = i + 1
    OBVIOUS
  <2>1. j - 1 \in 1..n /\ j = (j - 1) + 1
    BY <1>1
  <2> QED BY <2>1
<1>3. \A i \in 1..n : i + 1 \in 1..Len(rs)
    BY <1>1
<1>4. \A j \in 1..Len(rs) : j = 1 \/ j > 1
    BY <1>1
<1>5. ASSUME NEW i \in 1..n, IsStake(t[i], O), \A j \in 1..n : j > i => ~IsStake(t[j], O)
      PROVE  t[i].amount \in G
  <2>1. ASSUME NEW j \in 1..Len(rs), j > i + 1 PROVE ~IsStake(rs[j], O)
    <3>1. j > 1
      BY <1>1, <2>1
    <3>2. PICK k \in 1..n : j = k + 1
      BY <1>2, <3>1
    <3>3. k > i
      BY <1>1, <2>1, <3>2
    <3> QED BY <1>1, <1>5, <3>2, <3>3
  <2> QED BY <1>1, <1>3, <1>5, <2>1 DEF Settles
<1>6. ASSUME \A i \in 1..n : ~IsStake(t[i], O)
      PROVE  \/ d \in G \/ \E i \in 1..n : IsFailure(t[i], O)
             \/ IsFailure(r, O)
  <2>1. ~IsStake(rs[1], O)
    BY <1>1 DEF IsStake
  <2>2. \A j \in 1..Len(rs) : ~IsStake(rs[j], O)
    BY <1>1, <1>2, <1>4, <1>6, <2>1
  <2>3. d \in G \/ \E j \in 1..Len(rs) : IsFailure(rs[j], O)
    BY <2>2 DEF Settles
  <2> QED BY <1>1, <1>2, <1>4, <2>3
<1>7. CASE IsFailure(r, O) /\ undone
  <2>1. u.origin \in O
    BY <1>7 DEF IsFailure
  <2>2. Settles(Append(t, u), d, O, G)
    BY <1>1, <2>1, SettlesWithStake
  <2> QED BY <1>7, <2>2 DEF t
<1>8. CASE ~(IsFailure(r, O) /\ undone)
  <2>1. IsFailure(r, O) => d \in G
    BY <1>8 DEF IsFailure
  <2>2. Settles(t, d, O, G)
    BY <1>5, <1>6, <2>1 DEF Settles, n
  <2>3. Settles(Append(t, u), d, O, G)
    BY <1>1, <2>2, SettlesWithStake
  <2> QED BY <2>2, <2>3 DEF t
<1> QED BY <1>7, <1>8

(* An epoch ends: the stakes grow by the reward.                            *)
LEMMA SettlesLater ==
    ASSUME NEW rs, NEW d, NEW O, NEW G, Settles(rs, d, O, G), NEW d2, NEW O2, NEW G2,
           G \subseteq G2, d \in G => d2 \in G2,
           \A i \in 1..Len(rs) : rs[i].origin \in O <=> rs[i].origin \in O2
    PROVE  Settles(rs, d2, O2, G2)
<1>1. \A i \in 1..Len(rs) :
            /\ IsStake(rs[i], O) <=> IsStake(rs[i], O2)
            /\ IsFailure(rs[i], O) <=> IsFailure(rs[i], O2)
    BY DEF IsStake, IsFailure
<1> QED BY <1>1 DEF Settles

----------------------------------------------------------------------------
(* The stakes that are on their way, accepted and locked.  The operators    *)
(* take the contract's state p, what it has not distributed yet, u, and the *)
(* epoch ep.                                                                *)

(* What is staked, will be staked, or was unstaked in epoch e or later.     *)
Covered(p, u, e) == p.total_staked_balance + u + Held(p, e + NumEpochsToUnlock)

(* The stake that the contract's last request leads to: none, or all that   *)
(* is staked.                                                               *)
FinalStakes(p, u, ep) ==
    {x \in Nat :
        \/ x = 0
        \/ /\ ~p.paused
           /\ x <= p.total_staked_balance + u
           /\ p.last_epoch_height = ep => x = p.total_staked_balance}

Past(ep) == {e \in Int : e < ep}

UpTo(n) == {x \in Nat : x <= n}

(* A request never asks for more than was covered when it was made, and the *)
(* requests without a callback ask for nothing.                             *)
ReceiptOK(r, p, u, ep) ==
    /\ r.origin \in {ep - 1, ep}
    /\ r.kind = "stake" => r.amount <= Covered(p, u, r.origin)
    /\ ~r.callback => r.amount = 0

(* The receipts rs, and the stake d the protocol has, settle to the stake   *)
(* the contract wants; those of earlier epochs to one that is covered.      *)
QueueFits(rs, d, p, u, ep) ==
    /\ \A i \in 1..Len(rs) : ReceiptOK(rs[i], p, u, ep)
    /\ Settles(rs, d, Int, FinalStakes(p, u, ep))
    /\ Settles(rs, d, Past(ep), UpTo(Covered(p, u, ep)))

(* A lock is released three epochs after the last stake that needed it.     *)
LockFits(h, l, p, u, ep) ==
    /\ h[1] <= Covered(p, u, ep - 1)
    /\ h[2] <= Covered(p, u, ep - 2)
    /\ l <= Covered(p, u, ep - 3)

QueueOK == QueueFits(receipts, desired, pool, Undistributed, epoch)

LockOK == LockFits(hist, locked, pool, Undistributed, epoch)

(* The inductive invariant. *)
SInv ==
    /\ IInv
    /\ RecordOK
    /\ BooksOK(pool, owned, roundings)
    /\ QueueOK
    /\ LockOK

(* What the lock must cover is at least the staked total.                   *)
LEMMA CoveredType ==
    ASSUME NEW p \in PoolType, NEW u \in Nat, NEW e \in Int
    PROVE  /\ Covered(p, u, e) \in Nat
           /\ p.total_staked_balance \in Nat
           /\ p.total_staked_balance + u <= Covered(p, u, e)
<1>1. e + NumEpochsToUnlock \in Int
    BY EpochsAssumption
<1>2. Held(p, e + NumEpochsToUnlock) \in Nat
    BY <1>1, HeldType
<1>3. p.total_staked_balance \in Nat
    BY DEF PoolType
<1> QED BY <1>2, <1>3 DEF Covered

(* What a call that turns p into q may do with the receipts: ask for the    *)
(* stake, ask for none, or leave them when there is no stake, or no other   *)
(* stake, to ask for.                                                       *)
Requests(p, q, rs, rs2) ==
    \/ ~q.paused /\ rs2 = Append(rs, StakeReceipt(q.total_staked_balance, TRUE))
    \/ q.paused /\ rs2 = Append(rs, StakeReceipt(0, FALSE))
    \/ q.paused /\ p.paused /\ rs2 = rs
    \/ /\ p.last_epoch_height = epoch /\ q.paused = p.paused
       /\ q.total_staked_balance = p.total_staked_balance
       /\ rs2 = rs

(* A call distributes u and does not shrink what is covered.                *)
LEMMA CoveredGrows ==
    ASSUME NEW p \in PoolType, NEW q \in PoolType, NEW u \in Nat, epoch \in Nat,
           \A e \in Int : epoch < e /\ e <= epoch + NumEpochsToUnlock =>
                q.total_staked_balance + Held(q, e)
                    >= p.total_staked_balance + u + Held(p, e),
           NEW e \in {epoch, epoch - 1, epoch - 2, epoch - 3}
    PROVE  Covered(p, u, e) \in Nat /\ Covered(q, 0, e) \in Nat
           /\ Covered(p, u, e) <= Covered(q, 0, e)
<1> DEFINE f == e + NumEpochsToUnlock
<1>1. e \in Int /\ f \in Int /\ epoch < f /\ f <= epoch + NumEpochsToUnlock
    BY EpochsAssumption
<1> HIDE DEF f
<1>2. q.total_staked_balance + Held(q, f) >= p.total_staked_balance + u + Held(p, f)
    BY <1>1
<1>3. /\ Held(p, f) \in Nat /\ Held(q, f) \in Nat
      /\ p.total_staked_balance \in Nat /\ q.total_staked_balance \in Nat
    BY <1>1, HeldType DEF PoolType
<1>4. Covered(p, u, e) <= Covered(q, 0, e)
    BY <1>2, <1>3 DEF Covered, f
<1> QED BY <1>1, <1>4, CoveredType

(* A call after which the pool accounts for no less keeps the lock.         *)
LEMMA CallKeepsLock ==
    ASSUME NEW p \in PoolType, NEW q \in PoolType, NEW u \in Nat, epoch \in Nat,
           \A e \in Int : epoch < e /\ e <= epoch + NumEpochsToUnlock =>
                q.total_staked_balance + Held(q, e)
                    >= p.total_staked_balance + u + Held(p, e),
           NEW h \in Nat \X Nat, NEW l \in Nat, LockFits(h, l, p, u, epoch)
    PROVE  LockFits(h, l, q, 0, epoch)
<1>1. /\ Covered(p, u, epoch - 1) \in Nat /\ Covered(q, 0, epoch - 1) \in Nat
      /\ Covered(p, u, epoch - 1) <= Covered(q, 0, epoch - 1)
    BY CoveredGrows
<1>2. /\ Covered(p, u, epoch - 2) \in Nat /\ Covered(q, 0, epoch - 2) \in Nat
      /\ Covered(p, u, epoch - 2) <= Covered(q, 0, epoch - 2)
    BY CoveredGrows
<1>3. /\ Covered(p, u, epoch - 3) \in Nat /\ Covered(q, 0, epoch - 3) \in Nat
      /\ Covered(p, u, epoch - 3) <= Covered(q, 0, epoch - 3)
    BY CoveredGrows
<1>4. h[1] \in Nat /\ h[2] \in Nat
    OBVIOUS
<1> QED BY <1>1, <1>2, <1>3, <1>4 DEF LockFits

(* The same for the queue of stake actions, with the call's own request.    *)
LEMMA CallKeepsQueue ==
    ASSUME NEW p \in PoolType, NEW q \in PoolType, NEW u \in Nat, epoch \in Nat,
           \A e \in Int : epoch < e /\ e <= epoch + NumEpochsToUnlock =>
                q.total_staked_balance + Held(q, e)
                    >= p.total_staked_balance + u + Held(p, e),
           NEW rs \in Seq(ReceiptType), NEW d, NEW rs2,
           QueueFits(rs, d, p, u, epoch),
           q.last_epoch_height = epoch, Requests(p, q, rs, rs2)
    PROVE  QueueFits(rs2, d, q, 0, epoch)
<1> DEFINE S == q.total_staked_balance
           F == FinalStakes(q, 0, epoch)
           G == UpTo(Covered(q, 0, epoch))
<1>1. S \in Nat /\ Covered(q, 0, epoch) \in Nat /\ S <= Covered(q, 0, epoch)
  <2>1. epoch \in Int
    OBVIOUS
  <2>2. /\ Covered(q, 0, epoch) \in Nat /\ q.total_staked_balance \in Nat
        /\ q.total_staked_balance + 0 <= Covered(q, 0, epoch)
    BY <2>1, CoveredType
  <2> QED BY <2>2
<1>2. 0 \in F /\ (~q.paused => S \in F)
    BY <1>1 DEF FinalStakes
<1>3. UpTo(Covered(p, u, epoch)) \subseteq G
  <2>1. /\ Covered(p, u, epoch) \in Nat /\ Covered(q, 0, epoch) \in Nat
        /\ Covered(p, u, epoch) <= Covered(q, 0, epoch)
    BY CoveredGrows
  <2> QED BY <2>1 DEF UpTo
<1>4. Settles(rs, d, Past(epoch), G)
    BY <1>3, SettlesMore DEF QueueFits
<1>5. ASSUME NEW r \in ReceiptType, ReceiptOK(r, p, u, epoch)
      PROVE  ReceiptOK(r, q, 0, epoch)
  <2>1. r.origin \in {epoch, epoch - 1} /\ r.amount \in Nat
    BY <1>5 DEF ReceiptOK, ReceiptType
  <2>2. /\ Covered(p, u, r.origin) \in Nat /\ Covered(q, 0, r.origin) \in Nat
        /\ Covered(p, u, r.origin) <= Covered(q, 0, r.origin)
    BY <2>1, CoveredGrows
  <2> QED BY <1>5, <2>1, <2>2 DEF ReceiptOK
<1>6. \A i \in 1..Len(rs) : rs[i] \in ReceiptType /\ ReceiptOK(rs[i], q, 0, epoch)
  <2>1. \A i \in 1..Len(rs) : rs[i] \in ReceiptType /\ ReceiptOK(rs[i], p, u, epoch)
    BY DEF QueueFits
  <2> QED BY <1>5, <2>1
<1> HIDE DEF F, G, S
<1>7. ASSUME rs2 = rs, FinalStakes(p, u, epoch) \subseteq F
      PROVE  QueueFits(rs2, d, q, 0, epoch)
  <2>1. Settles(rs, d, Int, F)
    BY <1>7, SettlesMore DEF QueueFits
  <2> QED BY <1>4, <1>6, <1>7, <2>1 DEF QueueFits, F, G
<1>8. ASSUME NEW r \in ReceiptType, rs2 = Append(rs, r), r.kind = "stake",
             r.origin = epoch, r.amount \in F, r.amount <= S,
             ~r.callback => r.amount = 0
      PROVE  QueueFits(rs2, d, q, 0, epoch)
  <2>1. Settles(rs2, d, Int, F)
    BY <1>8, SettlesWithStake
  <2>2. Settles(rs2, d, Past(epoch), G)
    <3>1. r.origin \notin Past(epoch)
      BY <1>8 DEF Past
    <3> QED BY <1>4, <1>8, <3>1, SettlesWithStake
  <2>3. ReceiptOK(r, q, 0, epoch)
    <3>1. r.amount \in Nat
      BY DEF ReceiptType
    <3>2. r.amount <= Covered(q, 0, epoch)
      BY <1>1, <1>8, <3>1
    <3> QED BY <1>8, <3>2 DEF ReceiptOK
  <2>4. \A i \in 1..Len(rs2) : ReceiptOK(rs2[i], q, 0, epoch)
    <3>1. \A i \in 1..Len(rs2) : rs2[i] = r \/ (i \in 1..Len(rs) /\ rs2[i] = rs[i])
      BY <1>8
    <3> QED BY <1>6, <2>3, <3>1
  <2> QED BY <2>1, <2>2, <2>4 DEF QueueFits, F, G
<1>9. CASE ~q.paused /\ rs2 = Append(rs, StakeReceipt(S, TRUE))
  <2> DEFINE r == StakeReceipt(S, TRUE)
  <2>1. /\ r \in ReceiptType /\ r.kind = "stake" /\ r.origin = epoch /\ r.amount = S
        /\ r.callback
    BY <1>1 DEF StakeReceipt, ReceiptType
  <2> HIDE DEF r
  <2>2. rs2 = Append(rs, r)
    BY <1>9 DEF r
  <2>3. r.amount \in F /\ r.amount <= S
    BY <1>1, <1>2, <1>9, <2>1
  <2> QED BY <1>8, <2>1, <2>2, <2>3
<1>10. CASE q.paused /\ rs2 = Append(rs, StakeReceipt(0, FALSE))
  <2> DEFINE r == StakeReceipt(0, FALSE)
  <2>1. r \in ReceiptType /\ r.kind = "stake" /\ r.origin = epoch /\ r.amount = 0
    BY <1>1 DEF StakeReceipt, ReceiptType
  <2> HIDE DEF r
  <2>2. rs2 = Append(rs, r)
    BY <1>10 DEF r
  <2>3. r.amount \in F /\ r.amount <= S
    BY <1>1, <1>2, <2>1
  <2> QED BY <1>8, <2>1, <2>2, <2>3
<1>11. CASE q.paused /\ p.paused /\ rs2 = rs
  <2>1. FinalStakes(p, u, epoch) \subseteq F
    BY <1>2, <1>11 DEF FinalStakes
  <2> QED BY <1>7, <1>11, <2>1
<1>12. CASE /\ p.last_epoch_height = epoch /\ q.paused = p.paused
            /\ S = p.total_staked_balance /\ rs2 = rs
  <2>1. FinalStakes(p, u, epoch) \subseteq F
    BY <1>2, <1>12 DEF FinalStakes
  <2> QED BY <1>7, <1>12, <2>1
<1> QED BY <1>9, <1>10, <1>11, <1>12 DEF Requests, S

----------------------------------------------------------------------------
(* The contract's methods keep the invariant. *)

(* Every method starts with a ping, then changes the contract's state       *)
(* without shrinking what is covered, and may request a stake.              *)
LEMMA CallSolvency ==
    ASSUME SInv, IInv', UNCHANGED protocol, NEW m \in Nat, PingSucceeds(pool, m),
           pool'.last_epoch_height = epoch, Timely(pool'), NoLoss(pinged(m), pool'),
           pool'.last_total_balance = locked + liquid',
           Requests(pool, pool', receipts, receipts'),
           BooksOK(pool', owned', roundings')
    PROVE  SInv'
<1> DEFINE p == pinged(m)
           u == Undistributed
           q == pool'
<1>1. /\ pool \in PoolType /\ q \in PoolType /\ epoch \in Nat /\ u \in Nat
      /\ receipts \in Seq(ReceiptType) /\ hist \in Nat \X Nat /\ locked \in Nat
      /\ liquid' \in Nat
  <2>1. /\ pool \in PoolType /\ q \in PoolType /\ epoch \in Nat
        /\ receipts \in Seq(ReceiptType) /\ hist \in Nat \X Nat /\ locked \in Nat
        /\ liquid \in Nat /\ liquid' \in Nat /\ pool.last_total_balance <= locked + liquid
    BY DEF SInv, IInv, TypeOK, RecordedBalanceIsHeld
  <2>2. pool.last_total_balance \in Nat
    BY <2>1 DEF PoolType
  <2>3. u \in Nat
    BY <2>1, <2>2 DEF Undistributed
  <2> QED BY <2>1, <2>3
<1>2. /\ epoch' = epoch /\ locked' = locked /\ desired' = desired /\ hist' = hist
    BY DEF protocol
<1>3. RecordOK'
  <2>1. Timely(pool)'
    BY <1>2 DEF Timely
  <2> QED BY <1>1, <1>2, <2>1 DEF RecordOK
<1>4. Undistributed' = 0
  <2>1. Undistributed' = (locked + liquid') - q.last_total_balance
    BY <1>2 DEF Undistributed
  <2>2. q.last_total_balance = locked + liquid'
    BY Zenon
  <2>3. locked \in Nat /\ liquid' \in Nat
    BY <1>1
  <2>4. \A x, y \in Nat : \A z : z = x + y => (x + y) - z = 0
    OBVIOUS
  <2>5. (locked + liquid') - q.last_total_balance = 0
    BY <2>2, <2>3, <2>4
  <2> QED BY <2>1, <2>5
<1>5. ASSUME NEW e \in Int, epoch < e, e <= epoch + NumEpochsToUnlock
      PROVE  q.total_staked_balance + Held(q, e) >= pool.total_staked_balance + u + Held(pool, e)
  <2>1. q.total_staked_balance + Held(q, e) >= p.total_staked_balance + Held(p, e)
    BY <1>5 DEF NoLoss
  <2>2. p.total_staked_balance = pool.total_staked_balance + u /\ Held(p, e) = Held(pool, e)
    BY PingBooks DEF SInv
  <2> QED BY <2>1, <2>2
<1> HIDE DEF u, p
<1>6. QueueFits(receipts, desired, pool, u, epoch) /\ LockFits(hist, locked, pool, u, epoch)
    BY DEF SInv, QueueOK, LockOK, u
<1> HIDE DEF q
<1>7. QueueFits(receipts', desired, q, 0, epoch)
    BY <1>1, <1>5, <1>6, CallKeepsQueue DEF q
<1>8. LockFits(hist, locked, q, 0, epoch)
    BY <1>1, <1>5, <1>6, CallKeepsLock
<1>9. QueueOK' /\ LockOK'
    BY <1>2, <1>4, <1>7, <1>8 DEF QueueOK, LockOK, q
<1> QED BY <1>3, <1>9 DEF SInv

(* A stake is requested unless the pool is paused; or only when the ping    *)
(* may have changed what is staked.                                         *)
LEMMA RestakeRequests ==
    ASSUME NEW q, q.paused => pool.paused, internal_restake(q)
    PROVE  Requests(pool, q, receipts, receipts')
BY DEF internal_restake, Requests

(* A call that only pings requests the stake if the ping did something.     *)
LEMMA RestakeIfRequests ==
    ASSUME NEW q, q.paused = pool.paused, RestakeIf(NeedsPing(pool), q),
           ~NeedsPing(pool) => q.total_staked_balance = pool.total_staked_balance
    PROVE  Requests(pool, q, receipts, receipts')
<1>1. CASE NeedsPing(pool)
    BY <1>1, RestakeRequests DEF RestakeIf
<1>2. CASE ~NeedsPing(pool)
    BY <1>2 DEF RestakeIf, Requests, NeedsPing
<1> QED BY <1>1, <1>2

(* A call that leaves accounts and staked total alone loses nothing.        *)
LEMMA NoLossOfSame ==
    ASSUME NEW p \in PoolType, NEW q, q.accounts = p.accounts,
           q.total_staked_balance = p.total_staked_balance
    PROVE  NoLoss(p, q)
<1> SUFFICES ASSUME NEW e \in Int
             PROVE  q.total_staked_balance + Held(q, e) >= p.total_staked_balance + Held(p, e)
    BY DEF NoLoss
<1>1. Held(q, e) = Held(p, e) /\ Held(p, e) \in Nat /\ p.total_staked_balance \in Nat
    BY HeldOfAccounts, HeldType DEF PoolType
<1> QED BY <1>1

(* Nor does it disturb the books.                                           *)
LEMMA BooksOfSame ==
    ASSUME NEW p, NEW q, q.accounts = p.accounts,
           q.total_staked_balance = p.total_staked_balance,
           q.total_stake_shares = p.total_stake_shares,
           q.last_total_balance = p.last_total_balance,
           NEW o, NEW k, BooksOK(p, o, k)
    PROVE  BooksOK(q, o, k)
BY HeldOfAccounts DEF BooksOK

(* ping.                                                                    *)
LEMMA PingSolvency == ASSUME SInv, ping PROVE SInv'
<1> DEFINE p == pinged(0)
<1>1. IInv' /\ pool' = p /\ PingSucceeds(pool, 0) /\ UNCHANGED protocol /\ liquid' = liquid
      /\ roundings' = roundings /\ owned' = OwnedAfterPing(pool, 0)
      /\ RestakeIf(NeedsPing(pool), pool')
    BY PingAction DEF ping, SInv
<1>2. roundings \in Nat
    BY DEF SInv, IInv, TypeOK
<1>3. /\ p \in PoolType /\ p.last_epoch_height = epoch /\ p.paused = pool.paused
      /\ p.last_total_balance = locked + liquid /\ (~NeedsPing(pool) => p = pool) /\ Timely(p)
      /\ BooksOK(p, OwnedAfterPing(pool, 0), roundings)
    BY <1>1, <1>2, PingBooks DEF SInv
<1>4. NoLoss(p, p)
    BY <1>3, NoLossOfSame
<1> HIDE DEF p
<1>5. Requests(pool, pool', receipts, receipts')
    BY <1>1, <1>3, RestakeIfRequests
<1> QED BY <1>1, <1>3, <1>4, <1>5, CallSolvency DEF p

(* deposit.                                                                 *)
LEMMA DepositSolvency ==
    ASSUME SInv, NEW a \in Accounts, NEW m \in Nat, deposit(a, m) PROVE SInv'
<1> DEFINE p == pinged(m)
           q == internal_deposit(p, a, m)
<1>1. IInv' /\ pool' = q /\ PingSucceeds(pool, m) /\ UNCHANGED protocol /\ liquid' = liquid + m
      /\ roundings' = roundings /\ owned' = OwnedAfterPing(pool, m)
      /\ RestakeIf(NeedsPing(pool), pool')
    BY DepositAction DEF deposit, SInv
<1>2. roundings \in Nat /\ locked \in Nat /\ liquid \in Nat /\ epoch \in Nat
    BY DEF SInv, IInv, TypeOK
<1>3. /\ p \in PoolType /\ p.last_epoch_height = epoch /\ p.paused = pool.paused /\ PriceOK(p)
      /\ p.last_total_balance = locked + liquid /\ (~NeedsPing(pool) => p = pool) /\ Timely(p)
      /\ BooksOK(p, OwnedAfterPing(pool, m), roundings)
    BY <1>1, <1>2, PingBooks DEF SInv
<1> HIDE DEF p
<1>4. /\ q \in PoolType /\ SameRecord(p, q) /\ NoLoss(p, q)
      /\ q.total_staked_balance = p.total_staked_balance
      /\ q.last_total_balance = p.last_total_balance + m
      /\ BooksOK(q, OwnedAfterPing(pool, m), roundings)
    BY <1>2, <1>3, DepositBooks
<1>5. Timely(q)
    BY <1>2, <1>3, OperationsAreTimely
<1> HIDE DEF q
<1>6. Requests(pool, pool', receipts, receipts')
    BY <1>1, <1>3, <1>4, RestakeIfRequests DEF SameRecord
<1>7. pool'.last_total_balance = locked + liquid'
    BY <1>1, <1>2, <1>3, <1>4
<1> QED BY <1>1, <1>3, <1>4, <1>5, <1>6, <1>7, CallSolvency DEF p, SameRecord

(* withdraw and withdraw_all.                                               *)
LEMMA WithdrawSolvency ==
    ASSUME SInv, NEW a \in Accounts, NEW m \in Nat, withdraw(a, m) PROVE SInv'
<1> DEFINE p == pinged(0)
           q == internal_withdraw(p, a, m)
<1>1. IInv' /\ pool' = q /\ PingSucceeds(pool, 0) /\ UNCHANGED protocol /\ liquid' = liquid - m
      /\ roundings' = roundings /\ owned' = OwnedAfterPing(pool, 0)
      /\ RestakeIf(NeedsPing(pool), pool') /\ WithdrawAllowed(p, a, m) /\ m <= liquid
    BY WithdrawAction DEF withdraw, SInv
<1>2. roundings \in Nat /\ locked \in Nat /\ liquid \in Nat /\ epoch \in Nat
    BY DEF SInv, IInv, TypeOK
<1>3. /\ p \in PoolType /\ p.last_epoch_height = epoch /\ p.paused = pool.paused /\ PriceOK(p)
      /\ p.last_total_balance = locked + liquid /\ (~NeedsPing(pool) => p = pool) /\ Timely(p)
      /\ BooksOK(p, OwnedAfterPing(pool, 0), roundings)
    BY <1>1, <1>2, PingBooks DEF SInv
<1> HIDE DEF p
<1>4. m <= p.last_total_balance
    BY <1>1, <1>2, <1>3
<1>5. /\ q \in PoolType /\ SameRecord(p, q) /\ NoLoss(p, q)
      /\ q.total_staked_balance = p.total_staked_balance
      /\ q.last_total_balance = p.last_total_balance - m
      /\ BooksOK(q, OwnedAfterPing(pool, 0), roundings)
    BY <1>1, <1>2, <1>3, <1>4, WithdrawBooks
<1>6. Timely(q)
    BY <1>1, <1>2, <1>3, OperationsAreTimely
<1> HIDE DEF q
<1>7. Requests(pool, pool', receipts, receipts')
    BY <1>1, <1>3, <1>5, RestakeIfRequests DEF SameRecord
<1>8. pool'.last_total_balance = locked + liquid'
    BY <1>1, <1>2, <1>3, <1>5
<1> QED BY <1>1, <1>3, <1>5, <1>6, <1>7, <1>8, CallSolvency DEF p, SameRecord

(* stake and stake_all.                                                     *)
LEMMA StakeSolvency ==
    ASSUME SInv, NEW a \in Accounts, NEW m \in Nat, stake(a, m) PROVE SInv'
<1> DEFINE p == pinged(0)
           q == internal_stake(p, a, m)
           n == num_shares_from_staked_amount_rounded_down(p, m)
           o == OwnedAfterPing(pool, 0)
<1>1. IInv' /\ pool' = q /\ PingSucceeds(pool, 0) /\ UNCHANGED protocol /\ liquid' = liquid
      /\ roundings' = roundings + 1 /\ owned' = [o EXCEPT ![a] = @ + n]
      /\ internal_restake(pool') /\ StakeAllowed(p, a, m)
    BY StakeAction DEF stake, SInv
<1>2. roundings \in Nat /\ locked \in Nat /\ liquid \in Nat /\ epoch \in Nat
    BY DEF SInv, IInv, TypeOK
<1>3. /\ p \in PoolType /\ p.last_epoch_height = epoch /\ p.paused = pool.paused /\ PriceOK(p)
      /\ p.last_total_balance = locked + liquid /\ Timely(p)
      /\ o \in [Accounts -> Int] /\ BooksOK(p, o, roundings)
    BY <1>1, <1>2, PingBooks DEF SInv
<1> HIDE DEF p, o
<1>4. /\ SameRecord(p, q) /\ NoLoss(p, q)
      /\ BooksOK(q, [o EXCEPT ![a] = @ + n], roundings + 1)
    BY <1>1, <1>2, <1>3, StakeBooks
<1>5. Timely(q) /\ q.last_total_balance = p.last_total_balance
    BY <1>1, <1>2, <1>3, OperationsAreTimely, StakeStep
<1> HIDE DEF q, n
<1>6. Requests(pool, pool', receipts, receipts')
    BY <1>1, <1>3, <1>4, RestakeRequests DEF SameRecord
<1> QED BY <1>1, <1>3, <1>4, <1>5, <1>6, CallSolvency DEF p, SameRecord

(* unstake and unstake_all.                                                 *)
LEMMA UnstakeSolvency ==
    ASSUME SInv, NEW a \in Accounts, NEW m \in Nat, unstake(a, m) PROVE SInv'
<1> DEFINE p == pinged(0)
           q == inner_unstake(p, a, m)
           n == num_shares_from_staked_amount_rounded_up(p, m)
           o == OwnedAfterPing(pool, 0)
<1>1. IInv' /\ pool' = q /\ PingSucceeds(pool, 0) /\ UNCHANGED protocol /\ liquid' = liquid
      /\ roundings' = roundings + 1 /\ owned' = [o EXCEPT ![a] = @ - n]
      /\ internal_restake(pool') /\ UnstakeAllowed(p, a, m)
    BY UnstakeAction DEF unstake, SInv
<1>2. roundings \in Nat /\ locked \in Nat /\ liquid \in Nat /\ epoch \in Nat
    BY DEF SInv, IInv, TypeOK
<1>3. /\ p \in PoolType /\ p.last_epoch_height = epoch /\ p.paused = pool.paused /\ PriceOK(p)
      /\ p.last_total_balance = locked + liquid /\ Timely(p)
      /\ o \in [Accounts -> Int] /\ BooksOK(p, o, roundings)
    BY <1>1, <1>2, PingBooks DEF SInv
<1> HIDE DEF p, o
<1>4. p.accounts[a].unstaked_available_epoch_height <= epoch + NumEpochsToUnlock
    BY <1>3 DEF Timely
<1>5. /\ SameRecord(p, q) /\ NoLoss(p, q)
      /\ BooksOK(q, [o EXCEPT ![a] = @ - n], roundings + 1)
    BY <1>1, <1>2, <1>3, <1>4, UnstakeBooks
<1>6. Timely(q) /\ q.last_total_balance = p.last_total_balance
    BY <1>1, <1>2, <1>3, OperationsAreTimely, UnstakeStep
<1> HIDE DEF q, n
<1>7. Requests(pool, pool', receipts, receipts')
    BY <1>1, <1>3, <1>5, RestakeRequests DEF SameRecord
<1> QED BY <1>1, <1>3, <1>5, <1>6, <1>7, CallSolvency DEF p, SameRecord

(* deposit_and_stake.                                                       *)
LEMMA DepositAndStakeSolvency ==
    ASSUME SInv, NEW a \in Accounts, NEW m \in Nat, deposit_and_stake(a, m) PROVE SInv'
<1> DEFINE p == pinged(m)
           s == internal_deposit(p, a, m)
           q == internal_stake(s, a, m)
           n == num_shares_from_staked_amount_rounded_down(s, m)
           o == OwnedAfterPing(pool, m)
<1>1. IInv' /\ pool' = q /\ PingSucceeds(pool, m) /\ UNCHANGED protocol /\ liquid' = liquid + m
      /\ roundings' = roundings + 1 /\ owned' = [o EXCEPT ![a] = @ + n]
      /\ internal_restake(pool') /\ StakeAllowed(s, a, m)
    BY DepositAndStakeAction DEF deposit_and_stake, SInv
<1>2. roundings \in Nat /\ locked \in Nat /\ liquid \in Nat /\ epoch \in Nat
    BY DEF SInv, IInv, TypeOK
<1>3. /\ p \in PoolType /\ p.last_epoch_height = epoch /\ p.paused = pool.paused /\ PriceOK(p)
      /\ p.last_total_balance = locked + liquid /\ Timely(p)
      /\ o \in [Accounts -> Int] /\ BooksOK(p, o, roundings)
    BY <1>1, <1>2, PingBooks DEF SInv
<1> HIDE DEF p, o
<1>4. /\ s \in PoolType /\ SameRecord(p, s) /\ NoLoss(p, s)
      /\ s.total_staked_balance = p.total_staked_balance
      /\ s.last_total_balance = p.last_total_balance + m
      /\ BooksOK(s, o, roundings)
    BY <1>2, <1>3, DepositBooks
<1>5. s.total_stake_shares = p.total_stake_shares /\ PriceOK(s)
    BY <1>3, <1>4, DepositStep DEF PriceOK
<1>6. Timely(s)
    BY <1>2, <1>3, OperationsAreTimely
<1> HIDE DEF s
<1>7. /\ SameRecord(s, q) /\ NoLoss(s, q)
      /\ BooksOK(q, [o EXCEPT ![a] = @ + n], roundings + 1)
    BY <1>1, <1>2, <1>3, <1>4, <1>5, StakeBooks
<1>8. Timely(q) /\ q.last_total_balance = s.last_total_balance /\ q \in PoolType
    BY <1>1, <1>2, <1>4, <1>5, <1>6, OperationsAreTimely, StakeStep DEF GoodStep
<1> HIDE DEF q, n
<1>9. NoLoss(p, q)
  <2> SUFFICES ASSUME NEW e \in Int, epoch < e, e <= epoch + NumEpochsToUnlock
               PROVE  q.total_staked_balance + Held(q, e) >= p.total_staked_balance + Held(p, e)
    BY DEF NoLoss
  <2>1. /\ q.total_staked_balance + Held(q, e) >= s.total_staked_balance + Held(s, e)
        /\ s.total_staked_balance + Held(s, e) >= p.total_staked_balance + Held(p, e)
    BY <1>4, <1>7 DEF NoLoss
  <2>2. /\ Held(q, e) \in Nat /\ Held(s, e) \in Nat /\ Held(p, e) \in Nat
        /\ q.total_staked_balance \in Nat /\ s.total_staked_balance \in Nat
        /\ p.total_staked_balance \in Nat
    BY <1>3, <1>4, <1>8, HeldType DEF PoolType
  <2> QED BY <2>1, <2>2
<1>10. pool'.last_total_balance = locked + liquid'
    BY <1>1, <1>2, <1>3, <1>4, <1>8
<1>11. Requests(pool, pool', receipts, receipts')
    BY <1>1, <1>3, <1>4, <1>7, RestakeRequests DEF SameRecord
<1> QED BY <1>1, <1>3, <1>4, <1>7, <1>8, <1>9, <1>10, <1>11, CallSolvency DEF p, SameRecord

(* The owner's methods.                                                     *)
LEMMA OwnerSolvency ==
    ASSUME SInv,
           \/ update_staking_key
           \/ \E f \in Fees : update_reward_fee_fraction(f)
           \/ pause_staking
           \/ resume_staking
    PROVE  SInv'
<1> DEFINE p == pinged(0)
<1>1. /\ IInv' /\ PingSucceeds(pool, 0) /\ UNCHANGED protocol /\ liquid' = liquid
      /\ roundings' = roundings /\ owned' = OwnedAfterPing(pool, 0)
    BY OwnerAction DEF update_staking_key, update_reward_fee_fraction, pause_staking,
                       resume_staking, SInv
<1>2. \/ pool' = p /\ internal_restake(pool')
      \/ \E f \in Fees : pool' = [p EXCEPT !.fee = f] /\ RestakeIf(NeedsPing(pool), pool')
      \/ pool' = [p EXCEPT !.paused = TRUE] /\ receipts' = Append(receipts, StakeReceipt(0, FALSE))
      \/ pool' = [p EXCEPT !.paused = FALSE] /\ internal_restake(pool')
    BY DEF update_staking_key, update_reward_fee_fraction, pause_staking, resume_staking
<1>3. roundings \in Nat
    BY DEF SInv, IInv, TypeOK
<1>4. /\ p \in PoolType /\ p.last_epoch_height = epoch /\ p.paused = pool.paused
      /\ p.last_total_balance = locked + liquid /\ (~NeedsPing(pool) => p = pool) /\ Timely(p)
      /\ BooksOK(p, OwnedAfterPing(pool, 0), roundings)
    BY <1>1, <1>3, PingBooks DEF SInv
<1> HIDE DEF p
<1>5. /\ pool'.accounts = p.accounts
      /\ pool'.last_epoch_height = p.last_epoch_height
      /\ pool'.last_total_balance = p.last_total_balance
      /\ pool'.total_stake_shares = p.total_stake_shares
      /\ pool'.total_staked_balance = p.total_staked_balance
    BY <1>2, <1>4 DEF PoolType
<1>6. Requests(pool, pool', receipts, receipts')
  <2>1. CASE pool' = p /\ internal_restake(pool')
    BY <1>4, <2>1, RestakeRequests
  <2>2. CASE \E f \in Fees : pool' = [p EXCEPT !.fee = f] /\ RestakeIf(NeedsPing(pool), pool')
    <3>1. pool'.paused = p.paused
      BY <1>4, <2>2 DEF PoolType
    <3> QED BY <1>4, <1>5, <2>2, <3>1, RestakeIfRequests
  <2>3. CASE pool' = [p EXCEPT !.paused = TRUE] /\ receipts' = Append(receipts, StakeReceipt(0, FALSE))
    <3>1. pool'.paused
      BY <1>4, <2>3 DEF PoolType
    <3> QED BY <2>3, <3>1 DEF Requests
  <2>4. CASE pool' = [p EXCEPT !.paused = FALSE] /\ internal_restake(pool')
    <3>1. ~pool'.paused
      BY <1>4, <2>4 DEF PoolType
    <3> QED BY <2>4, <3>1, RestakeRequests
  <2> QED BY <1>2, <2>1, <2>2, <2>3, <2>4
<1>7. NoLoss(p, pool') /\ BooksOK(pool', owned', roundings')
    BY <1>1, <1>4, <1>5, NoLossOfSame, BooksOfSame
<1>8. Timely(pool')
    BY <1>4, <1>5 DEF Timely
<1> QED BY <1>1, <1>4, <1>5, <1>6, <1>7, <1>8, CallSolvency DEF p

----------------------------------------------------------------------------
(* The runtime's steps keep the invariant. *)

(* Less must be covered as unstaked balances become available.              *)
LEMMA CoveredAntitone ==
    ASSUME NEW p \in PoolType, NEW u \in Nat, NEW e \in Int, NEW f \in Int, e <= f
    PROVE  Covered(p, u, f) <= Covered(p, u, e)
<1> DEFINE e2 == e + NumEpochsToUnlock
           f2 == f + NumEpochsToUnlock
           g == [a \in Accounts |-> Part(p.accounts[a], f2)]
           h == [a \in Accounts |-> Part(p.accounts[a], e2)]
<1>1. e2 \in Int /\ f2 \in Int /\ e2 <= f2
    BY EpochsAssumption
<1> HIDE DEF e2, f2
<1>2. \A a \in Accounts : g[a] \in Int /\ h[a] \in Int /\ g[a] <= h[a]
    BY <1>1 DEF Part, PoolType, AccountType
<1> HIDE DEF g, h
<1>3. SumOver(g, Accounts) <= SumOver(h, Accounts)
    BY <1>2, AccountsAssumption, SumMonotone
<1>4. Held(p, f2) <= Held(p, e2)
    BY <1>3 DEF Held, g, h
<1>5. Held(p, f2) \in Nat /\ Held(p, e2) \in Nat /\ p.total_staked_balance \in Nat
    BY <1>1, HeldType DEF PoolType
<1> QED BY <1>4, <1>5 DEF Covered, e2, f2

(* A step that does not change the contract's state, its epoch or the       *)
(* tokens it holds.                                                         *)
LEMMA RuntimeSolvency ==
    ASSUME SInv, IInv', UNCHANGED <<pool, epoch, hist, owned, roundings>>,
           locked' + liquid' = locked + liquid,
           QueueFits(receipts', desired', pool, Undistributed, epoch),
           LockFits(hist, locked', pool, Undistributed, epoch)
    PROVE  SInv'
<1>1. Undistributed' = Undistributed
  <2>1. Undistributed' = (locked' + liquid') - pool'.last_total_balance
    BY Zenon DEF Undistributed
  <2>2. Undistributed = (locked + liquid) - pool.last_total_balance
    BY Zenon DEF Undistributed
  <2>3. pool' = pool
    OBVIOUS
  <2> QED BY <2>1, <2>2, <2>3, Zenon
<1>2. RecordOK'
  <2>1. Timely(pool)'
    BY DEF SInv, RecordOK, Timely
  <2> QED BY <2>1 DEF SInv, RecordOK
<1>3. QueueOK' /\ LockOK'
    BY <1>1 DEF QueueOK, LockOK
<1> QED BY <1>2, <1>3 DEF SInv

(* The protocol executes a stake action, or refuses it.                     *)
LEMMA ExecuteStakeSolvency ==
    ASSUME SInv, NEW t \in Nat, ExecuteStake(t) PROVE SInv'
<1> DEFINE r == Head(receipts)
           ok == r.amount = 0 \/ (r.amount >= t /\ r.amount <= liquid + locked)
           raise == IF ok THEN SatSub(r.amount, locked) ELSE 0
           c == [r EXCEPT !.kind = "on_stake_action", !.ok = ok]
           rs == IF r.callback THEN Append(Tail(receipts), c) ELSE Tail(receipts)
           d == IF ok THEN r.amount ELSE desired
           u == Undistributed
           F == FinalStakes(pool, u, epoch)
           G == UpTo(Covered(pool, u, epoch))
<1>1. /\ receipts # <<>> /\ r.kind = "stake" /\ receipts' = rs /\ desired' = d
      /\ locked' = locked + raise /\ liquid' = liquid - raise
      /\ UNCHANGED <<pool, epoch, hist, owned, roundings>>
    BY DEF ExecuteStake
<1>2. IInv'
    BY ExecuteStakeAction DEF SInv
<1>3. /\ pool \in PoolType /\ epoch \in Nat /\ u \in Nat /\ receipts \in Seq(ReceiptType)
      /\ locked \in Nat /\ liquid \in Nat
  <2>1. /\ pool \in PoolType /\ epoch \in Nat /\ receipts \in Seq(ReceiptType)
        /\ locked \in Nat /\ liquid \in Nat /\ pool.last_total_balance <= locked + liquid
    BY DEF SInv, IInv, TypeOK, RecordedBalanceIsHeld
  <2>2. pool.last_total_balance \in Nat
    BY <2>1 DEF PoolType
  <2>3. u \in Nat
    BY <2>1, <2>2 DEF Undistributed
  <2> QED BY <2>1, <2>3
<1>4. r \in ReceiptType /\ r.amount \in Nat /\ ok \in BOOLEAN
  <2>1. r \in ReceiptType
    BY <1>1, <1>3
  <2> QED BY <2>1 DEF ReceiptType
<1>5. /\ \A i \in 1..Len(receipts) : ReceiptOK(receipts[i], pool, u, epoch)
      /\ Settles(receipts, desired, Int, F)
      /\ Settles(receipts, desired, Past(epoch), G)
      /\ LockFits(hist, locked, pool, u, epoch)
    BY DEF SInv, QueueOK, LockOK, QueueFits
<1>6. ReceiptOK(r, pool, u, epoch)
  <2>1. r = receipts[1] /\ 1 \in 1..Len(receipts)
    BY <1>1, <1>3
  <2> QED BY <1>5, <2>1
<1>7. /\ r.origin \in Int /\ r.origin \in {epoch, epoch - 1} /\ r.amount <= Covered(pool, u, r.origin)
      /\ r.callback \/ ok
    BY <1>1, <1>4, <1>6 DEF ReceiptOK, ReceiptType
<1>8. r.origin \in Past(epoch) \/ r.amount \in G
    BY <1>3, <1>4, <1>7 DEF Past, UpTo
<1>9. c.kind = "on_stake_action" /\ c.origin = r.origin /\ c.callback = r.callback /\ c \in ReceiptType
    BY <1>4 DEF ReceiptType
<1>10. raise \in Nat /\ (locked + raise = locked \/ locked + raise = r.amount)
    BY <1>3, <1>4 DEF SatSub
<1> HIDE DEF ok, u, F, G, raise
<1>11. Settles(rs, d, Int, F)
    BY <1>1, <1>3, <1>4, <1>5, <1>7, SettlesExecuted
<1>12. Settles(rs, d, Past(epoch), G)
    BY <1>1, <1>3, <1>4, <1>5, <1>7, <1>8, SettlesExecuted
<1>13. \A i \in 1..Len(rs) : ReceiptOK(rs[i], pool, u, epoch)
  <2> DEFINE s == Tail(receipts)
  <2>1. s \in Seq(ReceiptType)
        /\ \A i \in 1..Len(s) : i + 1 \in 1..Len(receipts) /\ s[i] = receipts[i + 1]
    BY <1>1, <1>3
  <2>2. \A i \in 1..Len(s) : ReceiptOK(s[i], pool, u, epoch)
    BY <1>5, <2>1
  <2> HIDE DEF s, c
  <2>3. CASE r.callback
    <3>1. rs = Append(s, c)
      BY <2>3 DEF s
    <3>2. ReceiptOK(c, pool, u, epoch)
      BY <1>6, <1>9, <2>3 DEF ReceiptOK
    <3>3. \A i \in 1..Len(Append(s, c)) :
                Append(s, c)[i] = c \/ (i \in 1..Len(s) /\ Append(s, c)[i] = s[i])
      BY <1>9, <2>1
    <3> HIDE DEF rs
    <3> QED BY <2>2, <3>1, <3>2, <3>3
  <2>4. CASE ~r.callback
    BY <2>2, <2>4 DEF s
  <2> QED BY <2>3, <2>4
<1> HIDE DEF rs, d, c, r
<1>14. QueueFits(rs, d, pool, u, epoch)
    BY <1>11, <1>12, <1>13 DEF QueueFits, F, G
<1>15. LockFits(hist, locked + raise, pool, u, epoch)
  <2>1. locked <= Covered(pool, u, epoch - 3)
    BY <1>5 DEF LockFits
  <2>2. r.amount <= Covered(pool, u, epoch - 3)
    <3>1. r.origin \in Int /\ epoch - 3 \in Int /\ epoch - 3 <= r.origin
      BY <1>3, <1>7
    <3>2. Covered(pool, u, r.origin) <= Covered(pool, u, epoch - 3)
      BY <1>3, <3>1, CoveredAntitone
    <3>3. Covered(pool, u, r.origin) \in Nat /\ Covered(pool, u, epoch - 3) \in Nat
      BY <1>3, <3>1, CoveredType
    <3> QED BY <1>4, <1>7, <3>2, <3>3
  <2> QED BY <1>5, <1>10, <2>1, <2>2 DEF LockFits
<1>16. locked' + liquid' = locked + liquid
    BY <1>1, <1>3, <1>10
<1> QED BY <1>1, <1>2, <1>14, <1>15, <1>16, RuntimeSolvency DEF u

(* A stake that failed is undone, unless nothing is locked.                 *)
LEMMA CallbackSolvency ==
    ASSUME SInv, on_stake_action PROVE SInv'
<1> DEFINE r == Head(receipts)
           e == [StakeReceipt(0, FALSE) EXCEPT !.origin = r.origin]
           undone == ~r.ok /\ locked > 0
           rs == IF undone THEN Append(Tail(receipts), e) ELSE Tail(receipts)
           u == Undistributed
           F == FinalStakes(pool, u, epoch)
           G == UpTo(Covered(pool, u, epoch))
<1>1. /\ receipts # <<>> /\ r.kind = "on_stake_action" /\ receipts' = rs
      /\ UNCHANGED <<pool, epoch, hist, owned, roundings>>
      /\ desired' = desired /\ locked' = locked /\ liquid' = liquid
    BY DEF on_stake_action, protocol
<1>2. IInv'
    BY CallbackAction DEF SInv
<1>3. /\ pool \in PoolType /\ epoch \in Nat /\ u \in Nat /\ receipts \in Seq(ReceiptType)
      /\ locked \in Nat /\ liquid \in Nat /\ desired \in Nat /\ desired <= locked
  <2>1. /\ pool \in PoolType /\ epoch \in Nat /\ receipts \in Seq(ReceiptType)
        /\ locked \in Nat /\ liquid \in Nat /\ pool.last_total_balance <= locked + liquid
        /\ desired \in Nat /\ desired <= locked
    BY DEF SInv, IInv, TypeOK, RecordedBalanceIsHeld, LockCoversStakes
  <2>2. pool.last_total_balance \in Nat
    BY <2>1 DEF PoolType
  <2>3. u \in Nat
    BY <2>1, <2>2 DEF Undistributed
  <2> QED BY <2>1, <2>3
<1>4. /\ \A i \in 1..Len(receipts) : ReceiptOK(receipts[i], pool, u, epoch)
      /\ Settles(receipts, desired, Int, F)
      /\ Settles(receipts, desired, Past(epoch), G)
      /\ LockFits(hist, locked, pool, u, epoch)
    BY DEF SInv, QueueOK, LockOK, QueueFits
<1>5. ReceiptOK(r, pool, u, epoch) /\ r \in ReceiptType /\ r.ok \in BOOLEAN /\ r.origin \in Nat
      /\ r.origin \in {epoch, epoch - 1}
  <2>1. r = receipts[1] /\ 1 \in 1..Len(receipts) /\ r \in ReceiptType
    BY <1>1, <1>3
  <2> QED BY <1>4, <2>1 DEF ReceiptType, ReceiptOK
<1>6. e \in ReceiptType /\ e.kind = "stake" /\ e.amount = 0 /\ e.origin = r.origin /\ undone \in BOOLEAN
    BY <1>3, <1>5 DEF StakeReceipt, ReceiptType
<1>7. Covered(pool, u, epoch) \in Nat /\ Covered(pool, u, r.origin) \in Nat
  <2> HIDE DEF u, r
  <2>1. epoch \in Int /\ r.origin \in Int
    BY <1>3, <1>5
  <2> QED BY <1>3, <2>1, CoveredType
<1>8. 0 \in F /\ 0 \in G
    BY <1>7 DEF FinalStakes, UpTo
<1>9. r.ok \/ undone \/ desired = 0
    BY <1>3
<1> HIDE DEF u, F, G, e, undone
<1>10. ReceiptOK(e, pool, u, epoch)
  <2> HIDE DEF r
  <2> QED BY <1>5, <1>6, <1>7 DEF ReceiptOK
<1>11. Settles(rs, desired, Int, F)
    BY <1>1, <1>3, <1>4, <1>5, <1>6, <1>8, <1>9, SettlesCalledBack
<1>12. Settles(rs, desired, Past(epoch), G)
    BY <1>1, <1>3, <1>4, <1>5, <1>6, <1>8, <1>9, SettlesCalledBack
<1>13. \A i \in 1..Len(rs) : ReceiptOK(rs[i], pool, u, epoch)
  <2> DEFINE s == Tail(receipts)
  <2>1. s \in Seq(ReceiptType)
        /\ \A i \in 1..Len(s) : i + 1 \in 1..Len(receipts) /\ s[i] = receipts[i + 1]
    BY <1>1, <1>3
  <2>2. \A i \in 1..Len(s) : ReceiptOK(s[i], pool, u, epoch)
    BY <1>4, <2>1
  <2> HIDE DEF s
  <2>3. CASE undone
    <3>1. rs = Append(s, e)
      BY <2>3 DEF s
    <3>3. \A i \in 1..Len(Append(s, e)) :
                Append(s, e)[i] = e \/ (i \in 1..Len(s) /\ Append(s, e)[i] = s[i])
      BY <1>6, <2>1
    <3> HIDE DEF rs
    <3> QED BY <1>10, <2>2, <3>1, <3>3
  <2>4. CASE ~undone
    BY <2>2, <2>4 DEF s
  <2> QED BY <2>3, <2>4
<1> HIDE DEF rs, r
<1>14. QueueFits(rs, desired, pool, u, epoch)
    BY <1>11, <1>12, <1>13 DEF QueueFits, F, G
<1> QED BY <1>1, <1>2, <1>4, <1>14, RuntimeSolvency DEF u

(* An epoch ends: the protocol pays a reward that is not distributed yet.   *)
LEMMA EpochSolvency ==
    ASSUME SInv, NEW w \in Nat, AdvanceEpoch(w) PROVE SInv'
<1> DEFINE needed == Max({desired, hist[1], hist[2]})
           u == Undistributed
           v == Undistributed + w
           ep == epoch + 1
           d == IF desired > 0 THEN desired + w ELSE 0
           n == Len(receipts)
<1>1. /\ epoch' = ep /\ hist' = <<desired, hist[1]>>
      /\ locked' = needed + w /\ liquid' = liquid + (locked - needed) /\ desired' = d
      /\ \A i \in DOMAIN receipts : receipts[i].origin = epoch
      /\ UNCHANGED <<pool, receipts, owned, roundings>>
    BY DEF AdvanceEpoch
<1>2. IInv'
    BY EpochAction DEF SInv
<1>3. /\ pool \in PoolType /\ epoch \in Nat /\ u \in Nat /\ v \in Nat
      /\ receipts \in Seq(ReceiptType)
      /\ locked \in Nat /\ liquid \in Nat /\ desired \in Nat
      /\ hist \in Nat \X Nat /\ hist[1] \in Nat /\ hist[2] \in Nat
      /\ pool.last_total_balance \in Nat /\ pool.last_total_balance <= locked + liquid
      /\ pool.total_staked_balance \in Nat
  <2>1. /\ pool \in PoolType /\ epoch \in Nat /\ receipts \in Seq(ReceiptType)
        /\ locked \in Nat /\ liquid \in Nat /\ pool.last_total_balance <= locked + liquid
        /\ desired \in Nat /\ hist \in Nat \X Nat
    BY DEF SInv, IInv, TypeOK, RecordedBalanceIsHeld
  <2>2. pool.last_total_balance \in Nat /\ pool.total_staked_balance \in Nat
    BY <2>1 DEF PoolType
  <2>3. u \in Nat /\ v \in Nat
    BY <2>1, <2>2 DEF Undistributed
  <2> QED BY <2>1, <2>2, <2>3
<1>4. needed \in {desired, hist[1], hist[2]}
    BY <1>3, MaxOfThree
<1>5. /\ \A i \in 1..n : ReceiptOK(receipts[i], pool, u, epoch)
      /\ Settles(receipts, desired, Int, FinalStakes(pool, u, epoch))
      /\ Settles(receipts, desired, Past(epoch), UpTo(Covered(pool, u, epoch)))
      /\ LockFits(hist, locked, pool, u, epoch)
    BY DEF SInv, QueueOK, LockOK, QueueFits
<1>6. \A i \in 1..n : receipts[i].origin = epoch /\ receipts[i] \in ReceiptType
    BY <1>1, <1>3
<1>7. Undistributed' = v
  <2> HIDE DEF needed
  <2>1. Undistributed' = ((needed + w) + (liquid + (locked - needed))) - pool.last_total_balance
    BY <1>1 DEF Undistributed
  <2>2. needed \in Nat
    BY <1>3, <1>4
  <2>3. v = ((locked + liquid) - pool.last_total_balance) + w
    BY DEF Undistributed
  <2> QED BY <1>3, <2>1, <2>2, <2>3
<1>8. v = u + w /\ v >= u
    BY <1>3
<1> HIDE DEF u, v, needed, n
<1>9. ASSUME NEW e \in Int
      PROVE  /\ Covered(pool, u, e) \in Nat /\ Covered(pool, v, e) = Covered(pool, u, e) + w
             /\ pool.total_staked_balance + u <= Covered(pool, u, e)
  <2>1. /\ Covered(pool, u, e) \in Nat
        /\ pool.total_staked_balance + u <= Covered(pool, u, e)
    BY <1>3, CoveredType
  <2>2. e + NumEpochsToUnlock \in Int
    BY EpochsAssumption
  <2>3. Held(pool, e + NumEpochsToUnlock) \in Nat
    BY <1>3, <2>2, HeldType
  <2> QED BY <1>3, <1>8, <2>1, <2>3 DEF Covered
<1>10. desired \in UpTo(Covered(pool, u, epoch))
  <2>1. \A i \in 1..n : receipts[i].origin \notin Past(epoch)
    BY <1>3, <1>6 DEF Past
  <2>2. \A i \in 1..n : ~IsStake(receipts[i], Past(epoch)) /\ ~IsFailure(receipts[i], Past(epoch))
    BY <2>1 DEF IsStake, IsFailure
  <2> QED BY <1>5, <2>2 DEF Settles, n
<1>11. d \in Nat /\ d <= desired + w
    BY <1>3
<1>12. FinalStakes(pool, u, epoch) \subseteq FinalStakes(pool, v, ep)
  <2>1. (pool.last_epoch_height = ep) = FALSE
    BY <1>3 DEF SInv, RecordOK, PoolType
  <2>2. \A x \in Nat : x <= pool.total_staked_balance + u => x <= pool.total_staked_balance + v
    BY <1>3, <1>8
  <2> HIDE DEF ep
  <2> QED BY <2>1, <2>2 DEF FinalStakes
<1>13. desired \in FinalStakes(pool, u, epoch) => d \in FinalStakes(pool, v, ep)
  <2>1. (pool.last_epoch_height = ep) = FALSE
    BY <1>3 DEF SInv, RecordOK, PoolType
  <2>2. CASE desired = 0
    BY <2>2 DEF FinalStakes
  <2>3. CASE desired > 0
    <3>1. d = desired + w
      BY <2>3
    <3>2. desired <= pool.total_staked_balance + u => d <= pool.total_staked_balance + v
      BY <1>3, <1>8, <3>1
    <3> HIDE DEF d, ep
    <3> QED BY <1>3, <1>11, <2>1, <2>3, <3>2 DEF FinalStakes
  <2> QED BY <1>3, <2>2, <2>3
<1>14. Settles(receipts, d, Int, FinalStakes(pool, v, ep))
    BY <1>5, <1>12, <1>13, SettlesLater
<1>15. FinalStakes(pool, v, ep) \subseteq UpTo(Covered(pool, v, ep))
  <2>1. ep \in Int
    BY <1>3
  <2>2. /\ Covered(pool, v, ep) \in Nat
        /\ pool.total_staked_balance + v <= Covered(pool, v, ep)
    BY <1>3, <2>1, CoveredType
  <2> HIDE DEF ep
  <2> QED BY <1>3, <2>2 DEF FinalStakes, UpTo
<1>16. Settles(receipts, d, Past(ep), UpTo(Covered(pool, v, ep)))
  <2>1. \A i \in 1..n : receipts[i].origin \in Int <=> receipts[i].origin \in Past(ep)
    BY <1>3, <1>6 DEF Past
  <2> QED BY <1>14, <1>15, <2>1, SettlesLater DEF n
<1>17. \A i \in 1..n : ReceiptOK(receipts[i], pool, v, ep)
  <2> SUFFICES ASSUME NEW i \in 1..n PROVE ReceiptOK(receipts[i], pool, v, ep)
    OBVIOUS
  <2> DEFINE r == receipts[i]
  <2>1. r.origin = epoch /\ r.amount \in Nat /\ ReceiptOK(r, pool, u, epoch)
    BY <1>5, <1>6 DEF ReceiptType
  <2>2. Covered(pool, u, epoch) \in Nat /\ Covered(pool, v, epoch) = Covered(pool, u, epoch) + w
    <3>1. epoch \in Int
      BY <1>3
    <3> QED BY <1>9, <3>1
  <2>3. epoch = ep - 1
    BY <1>3
  <2> HIDE DEF r, ep
  <2> QED BY <2>1, <2>2, <2>3 DEF ReceiptOK, r
<1>18. LockFits(<<desired, hist[1]>>, needed + w, pool, v, ep)
  <2> DEFINE c0 == Covered(pool, u, epoch)
             c1 == Covered(pool, u, epoch - 1)
             c2 == Covered(pool, u, epoch - 2)
             v0 == Covered(pool, v, epoch)
             v1 == Covered(pool, v, epoch - 1)
             v2 == Covered(pool, v, epoch - 2)
  <2>1. ep - 1 = epoch /\ ep - 2 = epoch - 1 /\ ep - 3 = epoch - 2
        /\ epoch \in Int /\ epoch - 1 \in Int /\ epoch - 2 \in Int
        /\ epoch - 2 <= epoch - 1 /\ epoch - 2 <= epoch
    BY <1>3
  <2>2. c0 <= c2 /\ c1 <= c2
    BY <1>3, <2>1, CoveredAntitone
  <2>3. c0 \in Nat /\ c1 \in Nat /\ c2 \in Nat /\ v0 = c0 + w /\ v1 = c1 + w /\ v2 = c2 + w
    BY <1>9, <2>1
  <2>4. desired <= c0 /\ hist[1] <= c1 /\ hist[2] <= c2
    BY <1>5, <1>10 DEF LockFits, UpTo
  <2> DEFINE h1 == hist[1]
             h2 == hist[2]
  <2> HIDE DEF c0, c1, c2, v0, v1, v2, ep, h1, h2
  <2>5. desired \in Nat /\ h1 \in Nat /\ h2 \in Nat /\ needed \in {desired, h1, h2}
    BY <1>3, <1>4 DEF h1, h2
  <2>6. desired <= c0 /\ h1 <= c1 /\ h2 <= c2
    BY <2>4 DEF h1, h2
  <2>7. needed + w <= v2 /\ desired <= v0 /\ h1 <= v1
    BY <2>2, <2>3, <2>5, <2>6
  <2>8. desired <= Covered(pool, v, ep - 1) /\ h1 <= Covered(pool, v, ep - 2)
        /\ needed + w <= Covered(pool, v, ep - 3)
    BY <2>1, <2>7 DEF v0, v1, v2
  <2> QED BY <2>8 DEF LockFits, h1
<1>19. RecordOK'
  <2>1. pool.last_epoch_height \in Nat /\ pool.last_epoch_height <= epoch
    BY <1>3 DEF SInv, RecordOK, PoolType
  <2>2. pool.last_epoch_height <= ep /\ pool.last_epoch_height # ep
    BY <1>3, <2>1
  <2>3. \A a \in Accounts :
            pool.accounts[a].unstaked_available_epoch_height <= ep + NumEpochsToUnlock
    BY <1>3, EpochsAssumption DEF SInv, RecordOK, Timely, PoolType, AccountType
  <2>4. Timely(pool)'
    BY <1>1, <2>3 DEF Timely
  <2> HIDE DEF ep
  <2> QED BY <1>1, <2>2, <2>4 DEF RecordOK
<1> HIDE DEF ep, d
<1>20. QueueFits(receipts, d, pool, v, ep)
    BY <1>14, <1>16, <1>17 DEF QueueFits, n
<1>21. QueueOK' /\ LockOK'
    BY <1>1, <1>7, <1>18, <1>20 DEF QueueOK, LockOK
<1>22. BooksOK(pool, owned, roundings)'
    BY <1>1 DEF SInv
<1> QED BY <1>2, <1>19, <1>21, <1>22 DEF SInv

----------------------------------------------------------------------------
(* Theorems. *)

(* The contract as `new` leaves it satisfies the invariant. *)
LEMMA InitSolvency == Init => SInv
<1> SUFFICES ASSUME Init PROVE SInv
    OBVIOUS
<1> DEFINE r == StakeReceipt(InitialStake, TRUE)
           F == FinalStakes(pool, 0, 0)
           G == UpTo(Covered(pool, 0, 0))
<1>1. IInv
    BY InitInv
<1>2. PICK f \in Fees : pool = new(f)
    BY DEF Init
<1>3. /\ epoch = 0 /\ liquid = InitialStake + GuaranteeFund /\ locked = 0 /\ desired = 0
      /\ hist = <<0, 0>> /\ receipts = <<r>> /\ owned = [a \in Accounts |-> 0] /\ roundings = 0
    BY DEF Init
<1>4. InitialStake \in Nat /\ GuaranteeFund \in Nat /\ pool \in PoolType
    BY <1>1, AmountsAssumption DEF IInv, TypeOK
<1>5. /\ pool.last_epoch_height = 0 /\ pool.last_total_balance = InitialStake + GuaranteeFund
      /\ pool.total_stake_shares = InitialStake /\ pool.total_staked_balance = InitialStake
      /\ pool.paused = FALSE /\ \A a \in Accounts : pool.accounts[a] = DefaultAccount
    BY <1>2 DEF new
<1>6. Undistributed = 0
    BY <1>3, <1>4, <1>5 DEF Undistributed
<1>7. RecordOK
    BY <1>3, <1>4, <1>5, EpochsAssumption DEF RecordOK, Timely, DefaultAccount
<1>8. \A e \in Int : Held(pool, e) = 0
  <2> SUFFICES ASSUME NEW e \in Int PROVE Held(pool, e) = 0
    OBVIOUS
  <2> DEFINE g == [a \in Accounts |-> Part(pool.accounts[a], e)]
  <2>1. \A a \in Accounts : g[a] = 0
    BY <1>5 DEF Part, DefaultAccount
  <2> HIDE DEF g
  <2>2. SumOver(g, Accounts) = 0
    BY <2>1, AccountsAssumption, SumOfZeros
  <2> QED BY <2>2 DEF Held, g
<1>9. BooksOK(pool, owned, roundings)
  <2>1. Bought(owned) = 0
    BY <1>3, AccountsAssumption, SumOfZeros DEF Bought
  <2>2. Held(pool, 0) = 0
    BY <1>8
  <2> QED BY <1>3, <1>4, <1>5, <2>1, <2>2 DEF BooksOK
<1>10. \A e \in Int : Covered(pool, 0, e) = InitialStake
  <2> SUFFICES ASSUME NEW e \in Int PROVE Covered(pool, 0, e) = InitialStake
    OBVIOUS
  <2>1. e + NumEpochsToUnlock \in Int
    BY EpochsAssumption
  <2>2. Held(pool, e + NumEpochsToUnlock) = 0
    BY <1>8, <2>1
  <2> QED BY <1>4, <1>5, <2>2 DEF Covered
<1>11. /\ r \in ReceiptType /\ r.kind = "stake" /\ r.origin = 0 /\ r.amount = InitialStake
       /\ r.callback
    BY <1>3, <1>4 DEF StakeReceipt, ReceiptType
<1>12. Covered(pool, 0, 0) = InitialStake
    BY <1>10
<1>13. InitialStake \in F /\ 0 \in G
    BY <1>4, <1>5, <1>12 DEF FinalStakes, UpTo
<1> HIDE DEF r, F, G
<1>14. QueueFits(receipts, 0, pool, 0, 0)
  <2> DEFINE s == <<>>
  <2>1. s \in Seq(ReceiptType) /\ Len(s) = 0 /\ receipts = Append(s, r)
    BY <1>3
  <2>2. Settles(s, 0, Past(0), G)
    BY <1>13, <2>1 DEF Settles
  <2> HIDE DEF s
  <2>3. Settles(receipts, 0, Int, F)
    <3>1. r.origin \in Int /\ r.amount \in F
      BY <1>11, <1>13
    <3> QED BY <1>11, <2>1, <3>1, SettlesWithStake
  <2>4. r.origin \notin Past(0)
    BY <1>11 DEF Past
  <2>5. Settles(receipts, 0, Past(0), G)
    BY <1>11, <2>1, <2>2, <2>4, SettlesWithStake
  <2>6. ReceiptOK(r, pool, 0, 0)
    BY <1>4, <1>11, <1>12 DEF ReceiptOK
  <2>7. \A i \in 1..Len(receipts) : receipts[i] = r
    BY <1>3
  <2> QED BY <2>3, <2>5, <2>6, <2>7 DEF QueueFits, F, G
<1>15. LockFits(<<0, 0>>, 0, pool, 0, 0)
  <2>1. 0 - 1 \in Int /\ 0 - 2 \in Int /\ 0 - 3 \in Int
    OBVIOUS
  <2>2. /\ Covered(pool, 0, 0 - 1) = InitialStake /\ Covered(pool, 0, 0 - 2) = InitialStake
        /\ Covered(pool, 0, 0 - 3) = InitialStake
    BY <1>10, <2>1
  <2> QED BY <1>4, <2>2 DEF LockFits
<1>16. QueueOK /\ LockOK
    BY <1>3, <1>6, <1>14, <1>15 DEF QueueOK, LockOK
<1> QED BY <1>1, <1>7, <1>9, <1>16 DEF SInv

(* Every step keeps the invariant. *)
LEMMA NextSolvency == SInv /\ [Next]_vars => SInv'
<1> SUFFICES ASSUME SInv, [Next]_vars PROVE SInv'
    OBVIOUS
<1>a. Amounts \subseteq Nat /\ Rewards \subseteq Nat /\ Thresholds \subseteq Nat
    BY AmountsAssumption
<1>1. CASE ping
    BY <1>1, PingSolvency
<1>2. CASE \E a \in Accounts, m \in Amounts :
               deposit(a, m) \/ deposit_and_stake(a, m) \/ withdraw(a, m)
                 \/ stake(a, m) \/ unstake(a, m)
    BY <1>2, <1>a, DepositSolvency, DepositAndStakeSolvency, WithdrawSolvency, StakeSolvency,
       UnstakeSolvency
<1>3. CASE \E a \in Accounts : withdraw_all(a) \/ stake_all(a)
  <2>1. PICK a \in Accounts : withdraw_all(a) \/ stake_all(a)
    BY <1>3
  <2>2. pool.accounts[a].unstaked \in Nat
    BY DEF SInv, IInv, TypeOK, PoolType, AccountType
  <2> QED BY <2>1, <2>2, WithdrawSolvency, StakeSolvency DEF withdraw_all, stake_all
<1>4. CASE \E a \in Accounts : unstake_all(a)
  <2>1. PICK a \in Accounts : unstake_all(a)
    BY <1>4
  <2> DEFINE p == pinged(0)
             n == p.accounts[a].stake_shares
  <2>2. p \in PoolType /\ p.total_stake_shares > 0
    BY <2>1, PingStep DEF unstake_all, GoodStep, SInv
  <2>3. n \in Nat /\ p.total_staked_balance \in Nat /\ p.total_stake_shares \in Nat
    BY <2>2 DEF PoolType, AccountType
  <2>4. staked_amount_from_num_shares_rounded_down(p, n) \in Nat
    BY <2>2, <2>3, NatTimes, DivRoundsDown DEF staked_amount_from_num_shares_rounded_down
  <2>5. unstake(a, staked_amount_from_num_shares_rounded_down(p, n))
    BY <2>1 DEF unstake_all
  <2> QED BY <2>4, <2>5, UnstakeSolvency
<1>5. CASE update_staking_key \/ (\E f \in Fees : update_reward_fee_fraction(f))
             \/ pause_staking \/ resume_staking
    BY <1>5, OwnerSolvency
<1>6. CASE \E t \in Thresholds : ExecuteStake(t)
    BY <1>6, <1>a, ExecuteStakeSolvency
<1>7. CASE on_stake_action
    BY <1>7, CallbackSolvency
<1>8. CASE \E w \in Rewards : AdvanceEpoch(w)
    BY <1>8, <1>a, EpochSolvency
<1>9. CASE UNCHANGED vars
  <2>1. UNCHANGED <<pool, epoch, hist, owned, roundings, receipts, desired, locked, liquid>>
    BY <1>9 DEF vars
  <2>2. IInv'
    BY NextInv DEF SInv
  <2>3. QueueFits(receipts, desired, pool, Undistributed, epoch)
        /\ LockFits(hist, locked, pool, Undistributed, epoch)
    BY DEF SInv, QueueOK, LockOK
  <2> QED BY <2>1, <2>2, <2>3, RuntimeSolvency
<1> QED BY <1>1, <1>2, <1>3, <1>4, <1>5, <1>6, <1>7, <1>8, <1>9 DEF Next

(* The books, the queue of stake actions and the lock agree in every        *)
(* reachable state (internal_ping, internal_stake, inner_unstake,           *)
(* on_stake_action).                                                        *)
THEOREM SolvencyInvariant == Spec => []SInv
<1> QED BY InitSolvency, NextSolvency, PTL DEF Spec

(* All that is unstaked is held from epoch 0 on. *)
LEMMA UnstakedIsHeld == ASSUME pool \in PoolType PROVE Unstaked(Accounts) = Held(pool, 0)
<1> DEFINE f == [a \in Accounts |-> pool.accounts[a].unstaked]
           g == [a \in Accounts |-> Part(pool.accounts[a], 0)]
<1>1. \A a \in Accounts : f[a] \in Int /\ g[a] = f[a]
    BY DEF PoolType, AccountType, Part
<1> HIDE DEF f, g
<1>2. SumOver(g, Accounts) = SumOver(f, Accounts)
    BY <1>1, AccountsAssumption, SumCongruence
<1> QED BY <1>2 DEF Unstaked, Held, f, g

(* While no account paid more shares than it bought, the first of the two   *)
(* cases of the books holds.                                                *)
LEMMA BooksWithoutPhantoms ==
    ASSUME SInv, NoPhantomShares
    PROVE  pool.total_staked_balance + Held(pool, 0) + GuaranteeFund
                <= pool.last_total_balance + roundings
<1>1. \A a \in Accounts : owned[a] \in Nat
    BY DEF SInv, IInv, TypeOK, NoPhantomShares
<1>2. Bought(owned) \in Nat
    BY <1>1, AccountsAssumption, SumIsNat DEF Bought
<1>3. ~(InitialStake + Bought(owned) < 0)
    BY <1>2, AmountsAssumption
<1> QED BY <1>3 DEF SInv, BooksOK

(* What the pool owes is covered by what it recorded; one atto is lost with *)
(* every conversion between shares and tokens, whatever the order of calls. *)
THEOREM GuaranteeFundAlwaysCoversRounding == Spec => []GuaranteeFundCoversRounding
<1>1. SInv => GuaranteeFundCoversRounding
  <2> SUFFICES ASSUME SInv, NoPhantomShares
               PROVE  pool.total_staked_balance + Unstaked(Accounts) + GuaranteeFund
                            <= pool.last_total_balance + roundings
    BY DEF GuaranteeFundCoversRounding
  <2>1. pool \in PoolType
    BY DEF SInv, IInv, TypeOK
  <2> QED BY <2>1, BooksWithoutPhantoms, UnstakedIsHeld
<1> QED BY <1>1, SolvencyInvariant, PTL

(* A withdrawal that the contract allows finds its tokens unlocked.         *)
THEOREM WithdrawableIsAlwaysLiquid == Spec => []WithdrawableIsLiquid
<1>1. SInv => WithdrawableIsLiquid
  <2> DEFINE A == {a \in Accounts : pool.accounts[a].unstaked_available_epoch_height <= epoch}
             f == [a \in Accounts |-> pool.accounts[a].unstaked]
             g == [a \in Accounts |-> IF a \in A THEN f[a] ELSE 0]
             h == [a \in Accounts |-> Part(pool.accounts[a], epoch + 1)]
  <2> SUFFICES ASSUME SInv, NoPhantomShares, roundings <= GuaranteeFund
               PROVE  Unstaked(A) <= liquid
    BY DEF WithdrawableIsLiquid
  <2>1. /\ pool \in PoolType /\ epoch \in Nat /\ locked \in Nat /\ liquid \in Nat
        /\ roundings \in Nat /\ pool.last_total_balance <= locked + liquid
    BY DEF SInv, IInv, TypeOK, RecordedBalanceIsHeld
  <2>2. pool.total_staked_balance \in Nat /\ pool.last_total_balance \in Nat
    BY <2>1 DEF PoolType
  <2>3. /\ A \in SUBSET Accounts
        /\ \A a \in Accounts : /\ f[a] \in Int /\ g[a] \in Int /\ h[a] \in Int
                               /\ f[a] = g[a] + h[a]
                               /\ g[a] = IF a \in A THEN f[a] ELSE 0
    BY <2>1 DEF PoolType, AccountType, Part
  <2> HIDE DEF f, g, h, A
  <2>4. SumOver(f, Accounts) = SumOver(g, Accounts) + SumOver(h, Accounts)
    BY <2>3, AccountsAssumption, SumOfSums
  <2>5. SumOver(f, A) = SumOver(g, Accounts)
    BY <2>3, AccountsAssumption, SumOfPart
  <2>6. Held(pool, 0) = Unstaked(A) + Held(pool, epoch + 1)
    BY <2>1, <2>4, <2>5, UnstakedIsHeld DEF Unstaked, Held, f, h
  <2>7. Unstaked(A) \in Int /\ Held(pool, epoch + 1) \in Nat
    <3>1. SumOver(g, Accounts) \in Int
      BY <2>3, AccountsAssumption, SumIsInt
    <3>2. epoch + 1 \in Int
      BY <2>1
    <3> QED BY <2>1, <2>5, <3>1, <3>2, HeldType DEF Unstaked, f
  <2>8. /\ Undistributed \in Nat
        /\ Undistributed + pool.last_total_balance = locked + liquid
    BY <2>1, <2>2 DEF Undistributed
  <2>9. locked <= pool.total_staked_balance + Undistributed + Held(pool, epoch + 1)
    <3> DEFINE e == epoch - 3 + NumEpochsToUnlock
               n == NumEpochsToUnlock
    <3>1. e \in Int /\ epoch + 1 = (epoch + 1 - n) + n /\ epoch + 1 - n \in Int
          /\ epoch - 3 \in Int /\ epoch + 1 - n <= epoch - 3
      BY <2>1, EpochsAssumption
    <3>2. locked <= Covered(pool, Undistributed, epoch - 3)
      BY DEF SInv, LockOK, LockFits
    <3>3. Covered(pool, Undistributed, epoch - 3) <= Covered(pool, Undistributed, epoch + 1 - n)
      BY <2>1, <2>8, <3>1, CoveredAntitone
    <3>4. /\ Covered(pool, Undistributed, epoch - 3) \in Nat
          /\ Covered(pool, Undistributed, epoch + 1 - n) \in Nat
      BY <2>1, <2>8, <3>1, CoveredType
    <3>5. Covered(pool, Undistributed, epoch + 1 - n)
            = pool.total_staked_balance + Undistributed + Held(pool, epoch + 1)
      BY <3>1 DEF Covered
    <3> QED BY <2>1, <3>2, <3>3, <3>4, <3>5
  <2>10. pool.total_staked_balance + Held(pool, 0) + GuaranteeFund
                <= pool.last_total_balance + roundings
    BY BooksWithoutPhantoms
  <2>11. GuaranteeFund \in Nat
    BY AmountsAssumption
  <2> QED BY <2>1, <2>2, <2>6, <2>7, <2>8, <2>9, <2>10, <2>11
<1> QED BY <1>1, SolvencyInvariant, PTL

(* Once its receipts are executed, the contract's last request holds, or    *)
(* there is no stake at all.                                                *)
THEOREM StakeAlwaysSettles == Spec => []SettledStake
<1>1. SInv => SettledStake
  <2> SUFFICES ASSUME SInv, receipts = <<>>, pool.last_epoch_height = epoch
               PROVE  desired = 0 \/ (~pool.paused /\ desired = pool.total_staked_balance)
    BY DEF SettledStake
  <2>1. Settles(receipts, desired, Int, FinalStakes(pool, Undistributed, epoch))
    BY DEF SInv, QueueOK, QueueFits
  <2>2. Len(receipts) = 0
    OBVIOUS
  <2>3. desired \in FinalStakes(pool, Undistributed, epoch)
    BY <2>1, <2>2 DEF Settles
  <2> QED BY <2>3 DEF FinalStakes
<1> QED BY <1>1, SolvencyInvariant, PTL
=============================================================================
