---------------------------- MODULE LockupProofs ----------------------------
(***************************************************************************)
(* Proofs about the lockup, for any pools, amounts, times and number of    *)
(* promises in flight: types, the two locks, the foundation's claim and    *)
(* the known deposit; what is locked, which only falls, and the tokens     *)
(* that cover it.  They hold for vesting schedules that satisfy            *)
(* VestingSchedule::assert_valid, which the code does not call; the last   *)
(* four also for private schedules that the lockup shadows, which the code *)
(* cannot check and its README asks for.                                   *)
(***************************************************************************)
EXTENDS Lockup, TLAPS

(* VestingSchedule::assert_valid (types.rs). *)
Valid(s) == s.start <= s.cliff /\ s.cliff <= s.end /\ s.start < s.end

ValidSchedules == \A v \in InitialVestings : v.kind # "None" => Valid(v.schedule)

(* OnePoolOperation, slot by slot. *)
PoolLock ==
    \A i \in Ids : promises[i].op \in PoolOps =>
        /\ staking.pool # NoPool /\ staking.pool = promises[i].pool
        /\ staking.status = "Busy"
        /\ \A j \in Ids : promises[j].op \in PoolOps => j = i

(* OneTerminationTransaction, slot by slot; a payment in flight is part of  *)
(* the claim.                                                               *)
TerminationLock ==
    \A i \in Ids : promises[i].op \in TerminationOps =>
        /\ vesting.kind = "Terminating"
        /\ vesting.status = StatusOfOp(promises[i].op)
        /\ \A j \in Ids : promises[j].op \in TerminationOps => j = i
        /\ promises[i].op = "withdraw_unvested" => promises[i].amount <= vesting.unvested

(* A schedule in force is valid and nothing was withdrawn yet; afterwards   *)
(* what was withdrawn and what remains stay within the lockup amount.       *)
ClaimBound ==
    /\ vesting.kind \in {"VestingHash", "VestingSchedule"} =>
            Valid(vesting.schedule) /\ withdrawn = 0
    /\ vesting.kind = "Terminating" => withdrawn + vesting.unvested <= LockupAmount
    /\ withdrawn <= LockupAmount

(* The inductive invariant. *)
IInv == TypeOK /\ PoolLock /\ TerminationLock /\ ClaimBound

(* What a step may not do to the claim and to the known deposit. *)
GoodStep ==
    /\ vesting.kind = "Terminating" => Claim' = Claim
    /\ Selected /\ staking.deposit_amount > 0 => staking'.pool = staking.pool

----------------------------------------------------------------------------
(* Operations and promises. *)

(* Which operations hold which lock. *)
LEMMA OpFacts ==
    /\ PoolOps \subseteq Ops /\ TerminationOps \subseteq Ops
    /\ "none" \notin PoolOps /\ "none" \notin TerminationOps
    /\ "is_whitelisted" \in Ops \ (PoolOps \cup TerminationOps)
    /\ "poll" \in Ops \ (PoolOps \cup TerminationOps)
    /\ "withdraw_unvested" \in TerminationOps \ PoolOps
    /\ {"deposit", "deposit_and_stake", "withdraw", "stake", "unstake", "unstake_all",
        "total", "unstaked_by_owner"} \subseteq PoolOps \ TerminationOps
    /\ {"staked_to_unstake", "unstake_for_termination", "unstaked_to_withdraw",
        "withdraw_for_termination"} \subseteq PoolOps \cap TerminationOps
    /\ ViewOps \subseteq PoolOps
BY DEF PoolOps, TerminationOps, Ops, DepositOps, WithdrawOps, OtherOps, ViewOps

(* The status that belongs to each operation of a termination. *)
LEMMA StatusFacts ==
    /\ StatusOfOp("staked_to_unstake") = "UnstakingInProgress"
    /\ StatusOfOp("unstake_for_termination") = "UnstakingInProgress"
    /\ StatusOfOp("unstaked_to_withdraw") = "WithdrawingFromStakingPoolInProgress"
    /\ StatusOfOp("withdraw_for_termination") = "WithdrawingFromStakingPoolInProgress"
    /\ StatusOfOp("withdraw_unvested") = "WithdrawingFromAccountInProgress"
    /\ \A op \in TerminationOps :
            StatusOfOp(op) \in {"UnstakingInProgress",
                                "WithdrawingFromStakingPoolInProgress",
                                "WithdrawingFromAccountInProgress"}
BY DEF StatusOfOp, TerminationOps

(* An empty slot and a new call are promises. *)
LEMMA PromiseFacts ==
    /\ NoPromise \in PromiseType /\ NoPromise.op = "none"
    /\ \A op \in Ops, p \in Pools \cup {NoPool}, m \in Nat :
            /\ Call(op, p, m) \in PromiseType
            /\ Call(op, p, m).op = op /\ Call(op, p, m).pool = p
            /\ Call(op, p, m).amount = m
BY DEF PromiseType, NoPromise, Call

(* Changing one slot of the promises. *)
LEMMA SlotChange ==
    ASSUME promises \in [Ids -> PromiseType], NEW k \in Ids, NEW q \in PromiseType,
           promises' = [promises EXCEPT ![k] = q]
    PROVE  /\ promises' \in [Ids -> PromiseType]
           /\ promises'[k] = q
           /\ \A j \in Ids : j # k => promises'[j] = promises[j]
OBVIOUS

(* The pool lock after a step that writes one slot.                         *)
LEMMA PoolLockStep ==
    ASSUME PoolLock, promises \in [Ids -> PromiseType],
           NEW k \in Ids, NEW q \in PromiseType,
           promises' = [promises EXCEPT ![k] = q],
           q.op \in PoolOps =>
                /\ staking'.pool # NoPool /\ staking'.pool = q.pool
                /\ staking'.status = "Busy"
                /\ \A j \in Ids : j # k => promises[j].op \notin PoolOps,
           (\E j \in Ids : j # k /\ promises[j].op \in PoolOps) =>
                staking'.pool = staking.pool /\ staking'.status = staking.status
    PROVE  PoolLock'
<1>1. /\ promises'[k] = q
      /\ \A j \in Ids : j # k => promises'[j] = promises[j]
  BY SlotChange
<1>2. Ids' = Ids /\ PoolOps' = PoolOps
  BY DEF Ids, PoolOps, DepositOps, WithdrawOps, OtherOps, ViewOps
<1> HIDE DEF Ids, PoolOps
<1> SUFFICES ASSUME NEW i \in Ids, promises'[i].op \in PoolOps
             PROVE  /\ staking'.pool # NoPool /\ staking'.pool = promises'[i].pool
                    /\ staking'.status = "Busy"
                    /\ \A j \in Ids : promises'[j].op \in PoolOps => j = i
  BY <1>2 DEF PoolLock
<1>3. CASE i = k BY <1>1, <1>3
<1>4. CASE i # k
  <2>1. promises'[i] = promises[i] /\ promises[i].op \in PoolOps BY <1>1, <1>4
  <2>2. q.op \notin PoolOps BY <2>1, <1>4
  <2>3. staking'.pool = staking.pool /\ staking'.status = staking.status BY <2>1, <1>4
  <2> QED BY <1>1, <2>1, <2>2, <2>3 DEF PoolLock
<1> QED BY <1>3, <1>4

(* The same for the termination's lock. *)
LEMMA TerminationLockStep ==
    ASSUME TerminationLock, promises \in [Ids -> PromiseType],
           NEW k \in Ids, NEW q \in PromiseType,
           promises' = [promises EXCEPT ![k] = q],
           q.op \in TerminationOps =>
                /\ vesting'.kind = "Terminating"
                /\ vesting'.status = StatusOfOp(q.op)
                /\ \A j \in Ids : j # k => promises[j].op \notin TerminationOps
                /\ q.op = "withdraw_unvested" => q.amount <= vesting'.unvested,
           (\E j \in Ids : j # k /\ promises[j].op \in TerminationOps) =>
                vesting' = vesting
    PROVE  TerminationLock'
<1>1. /\ promises'[k] = q
      /\ \A j \in Ids : j # k => promises'[j] = promises[j]
  BY SlotChange
<1> SUFFICES ASSUME NEW i \in Ids, promises'[i].op \in TerminationOps
             PROVE  /\ vesting'.kind = "Terminating"
                    /\ vesting'.status = StatusOfOp(promises'[i].op)
                    /\ \A j \in Ids : promises'[j].op \in TerminationOps => j = i
                    /\ promises'[i].op = "withdraw_unvested" =>
                            promises'[i].amount <= vesting'.unvested
  BY DEF TerminationLock, StatusOfOp
<1>3. CASE i = k BY <1>1, <1>3
<1>4. CASE i # k
  <2>1. promises'[i] = promises[i] /\ promises[i].op \in TerminationOps BY <1>1, <1>4
  <2>2. q.op \notin TerminationOps BY <2>1, <1>4
  <2>3. vesting' = vesting BY <2>1, <1>4
  <2> QED BY <1>1, <2>1, <2>2, <2>3 DEF TerminationLock
<1> QED BY <1>3, <1>4

----------------------------------------------------------------------------
(* Steps that only touch balances, time and the outside world.              *)

(* A step that changes neither the contract's record of pools and vesting   *)
(* nor the promises keeps everything.                                       *)
LEMMA OutsideStep ==
    ASSUME IInv, UNCHANGED <<staking, vesting, withdrawn, promises>>, TypeOK'
    PROVE  IInv' /\ GoodStep
<1>1. PoolLock' BY DEF IInv, PoolLock
<1>2. TerminationLock' BY DEF IInv, TerminationLock, StatusOfOp
<1>3. ClaimBound' BY DEF IInv, ClaimBound, Valid
<1>4. GoodStep BY DEF GoodStep, Claim, Terminating
<1> QED BY <1>1, <1>2, <1>3, <1>4 DEF IInv

(* Amounts that are passed on are natural numbers. *)
LEMMA SmallArithmetic ==
    ASSUME NEW a \in Nat, NEW b \in Nat
    PROVE  /\ SatSub(a, b) \in Nat /\ SatSub(a, b) <= a
           /\ Smaller(a, b) \in Nat /\ Smaller(a, b) <= a /\ Smaller(a, b) <= b
           /\ Larger(a, b) \in Nat
BY DEF SatSub, Smaller, Larger

(* A part of an amount, as the time curves compute it, is at most the       *)
(* amount.                                                                  *)
LEMMA PartOf ==
    ASSUME NEW a \in Nat, NEW left \in Nat, NEW total \in Nat, total > 0, left <= total
    PROVE  (a * left) \div total \in Nat /\ (a * left) \div total <= a
<1> DEFINE x == (a * left) \div total
<1>1. a * left \in Nat /\ a * left <= a * total OBVIOUS
<1>2. x \in Nat /\ total * x <= a * left BY <1>1
<1> HIDE DEF x
<1>3. total * x <= total * a BY <1>1, <1>2
<1>4. x <= a BY <1>2, <1>3
<1> QED BY <1>2, <1>4 DEF x

(* Under a valid schedule at most the lockup amount is unvested. *)
LEMMA UnvestedBound ==
    ASSUME IInv
    PROVE  /\ get_unvested_amount(vesting.schedule) \in Nat
           /\ get_unvested_amount(vesting.schedule) <= LockupAmount
<1> DEFINE s == vesting.schedule
<1>1. /\ now \in Nat /\ LockupAmount \in Nat /\ withdrawn \in Nat
      /\ vesting.unvested \in Nat
      /\ s.start \in Nat /\ s.cliff \in Nat /\ s.end \in Nat
      /\ vesting.kind \in {"None", "VestingHash", "VestingSchedule", "Terminating"}
  BY AmountsAssumption DEF IInv, TypeOK, VestingType, ScheduleType
<1>2. CASE vesting.kind = "Terminating"
  <2>1. vesting.unvested <= LockupAmount BY <1>1, <1>2 DEF IInv, ClaimBound
  <2> QED BY <1>1, <1>2, <2>1 DEF get_unvested_amount, Terminating
<1>3. CASE vesting.kind = "None"
  BY <1>1, <1>3 DEF get_unvested_amount, Terminating
<1>4. CASE vesting.kind \in {"VestingHash", "VestingSchedule"}
  <2>1. s.start <= s.cliff /\ s.cliff <= s.end /\ s.start < s.end
    BY <1>4 DEF IInv, ClaimBound, Valid
  <2>2. get_unvested_amount(s) = Unvested(s)
    BY <1>4 DEF get_unvested_amount, Terminating
  <2> HIDE DEF s
  <2>3. ASSUME now < s.cliff \/ now >= s.end
        PROVE  Unvested(s) \in Nat /\ Unvested(s) <= LockupAmount
    BY <1>1, <2>1, <2>3 DEF Unvested
  <2>4. ASSUME ~(now < s.cliff), ~(now >= s.end)
        PROVE  Unvested(s) \in Nat /\ Unvested(s) <= LockupAmount
    <3> DEFINE left == s.end - now
               total == s.end - s.start
    <3>1. left \in Nat /\ total \in Nat /\ total > 0 /\ left <= total
      BY <1>1, <2>1, <2>4
    <3>2. Unvested(s) = (LockupAmount * left) \div total
      BY <1>1, <2>4 DEF Unvested
    <3> HIDE DEF left, total
    <3> QED BY <1>1, <3>1, <3>2, PartOf
  <2>5. Unvested(s) \in Nat /\ Unvested(s) <= LockupAmount BY <2>3, <2>4
  <2> QED BY <2>2, <2>5 DEF s
<1> QED BY <1>1, <1>2, <1>3, <1>4

(* The locked amount is a natural number: the plain subtraction of what was *)
(* withdrawn cannot underflow.                                              *)
LEMMA LockedIsNat ==
    ASSUME IInv
    PROVE  get_locked_amount \in Nat
<1> DEFINE unvested == IF vesting.kind \in {"VestingSchedule", "Terminating"}
                       THEN get_unvested_amount(vesting.schedule) ELSE 0
<1>1. /\ now \in Nat /\ LockupAmount \in Nat /\ withdrawn \in Nat
      /\ ReleaseDuration \in Nat /\ LockupDuration \in Nat /\ LockupTimestamp \in Nat
      /\ transfers.timestamp \in Nat /\ withdrawn <= LockupAmount
  BY AmountsAssumption DEF IInv, TypeOK, TransfersType, ClaimBound
<1>2. unvested \in Nat BY UnvestedBound
<1>3. unlock_timestamp \in Nat BY <1>1 DEF unlock_timestamp, Larger
<1>4. CASE transfers.enabled /\ unlock_timestamp <= now
  <2>1. unreleased_amount \in Nat
    <3> DEFINE end == unlock_timestamp + ReleaseDuration
               left == end - now
    <3>1. CASE now >= end BY <3>1 DEF unreleased_amount
    <3>2. CASE ~(now >= end)
      <4>1. left \in Nat /\ left <= ReleaseDuration /\ ReleaseDuration > 0
        BY <1>1, <1>3, <1>4, <3>2
      <4>2. unreleased_amount = (LockupAmount * left) \div ReleaseDuration
        BY <3>2 DEF unreleased_amount
      <4> HIDE DEF left
      <4> QED BY <1>1, <4>1, <4>2, PartOf
    <3> QED BY <3>1, <3>2
  <2>2. get_locked_amount = Larger(SatSub(unreleased_amount, withdrawn), unvested)
    BY <1>4 DEF get_locked_amount
  <2> HIDE DEF unvested
  <2> QED BY <1>1, <1>2, <2>1, <2>2 DEF SatSub, Larger
<1>5. CASE ~(transfers.enabled /\ unlock_timestamp <= now)
  BY <1>1, <1>5 DEF get_locked_amount
<1> QED BY <1>4, <1>5

(* A transfer stays within the account's balance. *)
LEMMA TransferStep ==
    ASSUME IInv, NEW m \in Nat, transfer(m)
    PROVE  IInv' /\ GoodStep
<1>1. balance \in Nat /\ get_account_balance \in Nat /\ get_account_balance <= balance
  BY SmallArithmetic, AmountsAssumption DEF IInv, TypeOK, get_account_balance
<1>0. get_owners_balance \in Nat
  <2>1. get_known_deposited_balance \in Nat
    BY DEF get_known_deposited_balance, IInv, TypeOK, StakingType
  <2> QED BY <1>1, <2>1, LockedIsNat DEF get_owners_balance, SatSub
<1>2. m <= get_account_balance
  BY <1>0, <1>1 DEF transfer, get_liquid_owners_balance, Smaller
<1>3. balance' \in Nat BY <1>1, <1>2 DEF transfer
<1>4. incoming' \in Nat BY DEF IInv, TypeOK, transfer
<1>5. UNCHANGED <<contract, promises, world, fullKey>> BY DEF transfer
<1>6. TypeOK' BY <1>3, <1>4, <1>5 DEF IInv, TypeOK, contract, world
<1> QED BY <1>5, <1>6, OutsideStep DEF contract

(* The full access key, arriving tokens, rewards, the vote and time.        *)
LEMMA WorldStep ==
    ASSUME IInv,
           \/ add_full_access_key
           \/ \E m \in 1 .. incoming : Arrive(m)
           \/ \E p \in Pools : PoolReward(p)
           \/ VoteTransfers
           \/ Tick
    PROVE  IInv' /\ GoodStep
<1>1. CASE add_full_access_key
  BY <1>1, OutsideStep DEF add_full_access_key, IInv, TypeOK, contract, world
<1>2. ASSUME NEW m \in 1 .. incoming, Arrive(m)
      PROVE  IInv' /\ GoodStep
  <2>1. balance' \in Nat /\ incoming' \in Nat BY <1>2 DEF Arrive, IInv, TypeOK
  <2> QED BY <1>2, <2>1, OutsideStep DEF Arrive, IInv, TypeOK, contract, world
<1>3. ASSUME NEW p \in Pools, PoolReward(p)
      PROVE  IInv' /\ GoodStep
  <2>1. pools' \in [Pools -> [staked : Nat, unstaked : Nat]]
    BY <1>3 DEF PoolReward, IInv, TypeOK
  <2> QED BY <1>3, <2>1, OutsideStep DEF PoolReward, IInv, TypeOK, contract
<1>4. CASE VoteTransfers
  <2>1. poll' \in TransfersType BY <1>4 DEF VoteTransfers, IInv, TypeOK, TransfersType
  <2> QED BY <1>4, <2>1, OutsideStep DEF VoteTransfers, IInv, TypeOK, contract
<1>5. CASE Tick
  <2>1. now' \in Nat BY <1>5 DEF Tick, IInv, TypeOK
  <2> QED BY <1>5, <2>1, OutsideStep DEF Tick, IInv, TypeOK, contract
<1> QED BY <1>1, <1>2, <1>3, <1>4, <1>5

----------------------------------------------------------------------------
(* The owner's methods. *)

(* A new promise goes into an empty slot. *)
LEMMA IssueSlot ==
    ASSUME NEW op, NEW p, NEW m, Issue(op, p, m)
    PROVE  \E k \in Ids : /\ promises[k] = NoPromise
                          /\ promises' = [promises EXCEPT ![k] = Call(op, p, m)]
BY DEF Issue

(* A question to the whitelist or to the poll takes no lock. *)
LEMMA QuestionStep ==
    ASSUME IInv, NEW op \in {"is_whitelisted", "poll"}, NEW p \in Pools \cup {NoPool},
           Issue(op, p, 0), UNCHANGED <<contract, balance, incoming, world, fullKey>>
    PROVE  IInv' /\ GoodStep
<1>1. PICK k \in Ids : promises' = [promises EXCEPT ![k] = Call(op, p, 0)]
  BY IssueSlot
<1> DEFINE q == Call(op, p, 0)
<1>2. q \in PromiseType /\ q.op \notin PoolOps /\ q.op \notin TerminationOps
  BY PromiseFacts, OpFacts
<1>3. promises \in [Ids -> PromiseType] BY DEF IInv, TypeOK
<1>4. UNCHANGED <<staking, vesting, withdrawn>> BY DEF contract
<1> HIDE DEF q
<1>5. promises' \in [Ids -> PromiseType] BY <1>1, <1>2, <1>3, SlotChange DEF q
<1>6. TypeOK' BY <1>5 DEF IInv, TypeOK, contract, world
<1>7. PoolLock' BY <1>1, <1>2, <1>3, <1>4, PoolLockStep DEF IInv, q
<1>8. TerminationLock' BY <1>1, <1>2, <1>3, <1>4, TerminationLockStep DEF IInv, q
<1>9. ClaimBound' BY <1>4 DEF IInv, ClaimBound, Valid
<1>10. GoodStep BY <1>4 DEF GoodStep, Claim, Terminating
<1> QED BY <1>6, <1>7, <1>8, <1>9, <1>10 DEF IInv

(* Only a pool without a known deposit is unselected, and only when idle.   *)
LEMMA UnselectStep ==
    ASSUME IInv, unselect_staking_pool
    PROVE  IInv' /\ GoodStep
<1>1. staking' = NoStaking /\ staking.status = "Idle" /\ staking.deposit_amount = 0
  BY DEF unselect_staking_pool, assert_staking_pool_is_idle
<1>2. UNCHANGED <<vesting, withdrawn, promises>> BY DEF unselect_staking_pool
<1>3. TypeOK'
  BY <1>1 DEF unselect_staking_pool, IInv, TypeOK, StakingType, NoStaking, Statuses, world
<1>4. \A i \in Ids : promises[i].op \notin PoolOps BY <1>1 DEF IInv, PoolLock
<1>5. PoolLock' BY <1>2, <1>4 DEF PoolLock
<1>6. TerminationLock' BY <1>2 DEF IInv, TerminationLock, StatusOfOp
<1>7. ClaimBound' BY <1>2 DEF IInv, ClaimBound, Valid
<1>8. GoodStep BY <1>1, <1>2 DEF GoodStep, Claim, Terminating
<1> QED BY <1>3, <1>5, <1>6, <1>7, <1>8 DEF IInv

(* An operation on the pool takes the lock when no other holds it.          *)
LEMMA PoolOperationStep ==
    ASSUME IInv, NEW op \in PoolOps \ TerminationOps, NEW m \in Nat,
           PoolOperation(op, m), balance' \in Nat
    PROVE  IInv' /\ GoodStep
<1>1. PICK k \in Ids : promises' = [promises EXCEPT ![k] = Call(op, staking.pool, m)]
  BY IssueSlot DEF PoolOperation
<1> DEFINE q == Call(op, staking.pool, m)
<1>2. staking \in StakingType /\ promises \in [Ids -> PromiseType] BY DEF IInv, TypeOK
<1>3. /\ q \in PromiseType /\ q.op = op /\ q.pool = staking.pool
      /\ op \in PoolOps /\ op \notin TerminationOps
  BY <1>2, PromiseFacts, OpFacts DEF StakingType
<1> HIDE DEF q
<1>4. /\ staking.pool # NoPool /\ staking.status = "Idle"
      /\ staking' = [staking EXCEPT !.status = "Busy"]
  BY DEF PoolOperation, assert_staking_pool_is_idle, Selected, set_staking_pool_status
<1>5. /\ staking' \in StakingType /\ staking'.pool = staking.pool
      /\ staking'.status = "Busy"
  BY <1>2, <1>4 DEF StakingType, Statuses
<1>6. UNCHANGED <<vesting, withdrawn>> BY DEF PoolOperation
<1>7. promises' \in [Ids -> PromiseType] BY <1>1, <1>2, <1>3, SlotChange DEF q
<1>8. TypeOK' BY <1>5, <1>7 DEF PoolOperation, IInv, TypeOK, world
<1>9. \A i \in Ids : promises[i].op \notin PoolOps BY <1>4 DEF IInv, PoolLock
<1>10. PoolLock' BY <1>1, <1>2, <1>3, <1>4, <1>5, <1>9, PoolLockStep DEF IInv, q
<1>11. TerminationLock' BY <1>1, <1>2, <1>3, <1>6, TerminationLockStep DEF IInv, q
<1>12. ClaimBound' BY <1>6 DEF IInv, ClaimBound, Valid
<1>13. GoodStep BY <1>5, <1>6 DEF GoodStep, Claim, Terminating
<1> QED BY <1>8, <1>10, <1>11, <1>12, <1>13 DEF IInv

(* A deposit stays within the account's balance. *)
LEMMA DepositStep ==
    ASSUME IInv, NEW op \in PoolOps \ TerminationOps, NEW m \in Nat, Deposit(op, m)
    PROVE  IInv' /\ GoodStep
<1>1. balance \in Nat /\ get_account_balance \in Nat /\ get_account_balance <= balance
  BY SmallArithmetic, AmountsAssumption DEF IInv, TypeOK, get_account_balance
<1>2. balance' \in Nat BY <1>1 DEF Deposit
<1> QED BY <1>2, PoolOperationStep DEF Deposit

(* All of the owner's methods. *)
LEMMA OwnerStep ==
    ASSUME IInv, OwnerMethods
    PROVE  IInv' /\ GoodStep
<1>0. balance \in Nat BY DEF IInv, TypeOK
<1>1. ASSUME NEW p \in Pools, select_staking_pool(p)
      PROVE  IInv' /\ GoodStep
  BY <1>1, QuestionStep DEF select_staking_pool
<1>2. CASE unselect_staking_pool BY <1>2, UnselectStep
<1>3. ASSUME NEW m \in Amounts,
             \/ deposit_to_staking_pool(m)
             \/ deposit_and_stake(m)
             \/ withdraw_from_staking_pool(m)
             \/ stake(m)
             \/ unstake(m)
             \/ transfer(m)
      PROVE  IInv' /\ GoodStep
  <2>0. m \in Nat BY AmountsAssumption
  <2>1. CASE deposit_to_staking_pool(m)
    BY <2>0, <2>1, DepositStep, OpFacts DEF deposit_to_staking_pool
  <2>2. CASE deposit_and_stake(m) BY <2>0, <2>2, DepositStep, OpFacts DEF deposit_and_stake
  <2>3. CASE withdraw_from_staking_pool(m)
    BY <1>0, <2>0, <2>3, PoolOperationStep, OpFacts DEF withdraw_from_staking_pool
  <2>4. CASE stake(m) BY <1>0, <2>0, <2>4, PoolOperationStep, OpFacts DEF stake
  <2>5. CASE unstake(m) BY <1>0, <2>0, <2>5, PoolOperationStep, OpFacts DEF unstake
  <2>6. CASE transfer(m) BY <2>0, <2>6, TransferStep
  <2> QED BY <1>3, <2>1, <2>2, <2>3, <2>4, <2>5, <2>6
<1>4. CASE refresh_staking_pool_balance
  BY <1>0, <1>4, PoolOperationStep, OpFacts DEF refresh_staking_pool_balance
<1>5. CASE withdraw_all_from_staking_pool
  BY <1>0, <1>5, PoolOperationStep, OpFacts DEF withdraw_all_from_staking_pool
<1>6. CASE unstake_all BY <1>0, <1>6, PoolOperationStep, OpFacts DEF unstake_all
<1>7. CASE check_transfers_vote BY <1>7, QuestionStep DEF check_transfers_vote
<1>8. CASE add_full_access_key BY <1>8, WorldStep
<1> QED BY <1>1, <1>2, <1>3, <1>4, <1>5, <1>6, <1>7, <1>8 DEF OwnerMethods

----------------------------------------------------------------------------
(* The foundation's methods. *)

(* A termination fixes a claim of at most the lockup amount. *)
LEMMA TerminateStep ==
    ASSUME IInv, terminate_vesting
    PROVE  IInv' /\ GoodStep
<1> DEFINE u == get_unvested_amount(vesting.schedule)
<1>1. u \in Nat /\ u <= LockupAmount BY UnvestedBound
<1>2. vesting \in VestingType /\ withdrawn \in Nat BY DEF IInv, TypeOK
<1>3. PICK status \in TerminationStatuses :
        vesting' = [vesting EXCEPT !.kind = "Terminating", !.unvested = u, !.status = status]
  BY DEF terminate_vesting, TerminationStatuses
<1>4. /\ vesting.kind \in {"VestingHash", "VestingSchedule"}
      /\ UNCHANGED <<staking, transfers, withdrawn, foundation, balance, promises,
                     incoming, world, fullKey>>
  BY DEF terminate_vesting
<1> HIDE DEF u
<1>5. vesting' \in VestingType /\ vesting'.kind = "Terminating" /\ vesting'.unvested = u
  BY <1>1, <1>2, <1>3 DEF VestingType
<1>6. TypeOK' BY <1>4, <1>5 DEF IInv, TypeOK, world
<1>7. PoolLock' BY <1>4 DEF IInv, PoolLock
<1>8. TerminationLock' BY <1>4 DEF IInv, TerminationLock
<1>9. withdrawn = 0 BY <1>4 DEF IInv, ClaimBound
<1>10. ClaimBound' BY <1>1, <1>4, <1>5, <1>9 DEF IInv, ClaimBound
<1>11. GoodStep BY <1>4 DEF GoodStep
<1> QED BY <1>6, <1>7, <1>8, <1>10, <1>11 DEF IInv

(* Preparing a withdrawal takes both locks. *)
LEMMA PrepareStepStep ==
    ASSUME IInv, NEW op \in {"staked_to_unstake", "unstaked_to_withdraw"},
           NEW from \in {"VestingTerminatedWithDeficit", "EverythingUnstaked"},
           staking.status = "Idle", staking.pool # NoPool,
           PrepareStep(from, StatusOfOp(op), op),
           UNCHANGED <<transfers, withdrawn, foundation, balance, incoming, world, fullKey>>
    PROVE  IInv' /\ GoodStep
<1>1. PICK k \in Ids : promises' = [promises EXCEPT ![k] = Call(op, staking.pool, 0)]
  BY IssueSlot DEF PrepareStep
<1> DEFINE q == Call(op, staking.pool, 0)
<1>2. /\ staking \in StakingType /\ vesting \in VestingType
      /\ promises \in [Ids -> PromiseType]
  BY DEF IInv, TypeOK
<1>3. /\ q \in PromiseType /\ q.op = op /\ q.pool = staking.pool
      /\ op \in PoolOps /\ op \in TerminationOps /\ op # "withdraw_unvested"
  BY <1>2, PromiseFacts, OpFacts DEF StakingType
<1> HIDE DEF q
<1>4. /\ staking' = [staking EXCEPT !.status = "Busy"]
      /\ vesting' = [vesting EXCEPT !.status = StatusOfOp(op)]
      /\ vesting.kind = "Terminating" /\ vesting.status = from
  BY DEF PrepareStep, set_staking_pool_status, set_termination_status, Terminating
<1>5. staking' \in StakingType /\ staking'.pool = staking.pool /\ staking'.status = "Busy"
  BY <1>2, <1>4 DEF StakingType, Statuses
<1>6. StatusOfOp(op) \in TerminationStatuses
  BY <1>3, StatusFacts DEF TerminationStatuses
<1>7. /\ vesting' \in VestingType /\ vesting'.kind = "Terminating"
      /\ vesting'.unvested = vesting.unvested /\ vesting'.status = StatusOfOp(op)
  BY <1>2, <1>4, <1>6 DEF VestingType
<1>8. promises' \in [Ids -> PromiseType] BY <1>1, <1>2, <1>3, SlotChange DEF q
<1>9. TypeOK' BY <1>5, <1>7, <1>8 DEF IInv, TypeOK, world
<1>10. \A i \in Ids : promises[i].op \notin PoolOps BY DEF IInv, PoolLock
<1>11. \A i \in Ids : promises[i].op \notin TerminationOps
  BY <1>4, StatusFacts DEF IInv, TerminationLock
<1>12. PoolLock' BY <1>1, <1>2, <1>3, <1>5, <1>10, PoolLockStep DEF IInv, q
<1>13. TerminationLock' BY <1>1, <1>2, <1>3, <1>7, <1>11, TerminationLockStep DEF IInv, q
<1>14. ClaimBound' BY <1>4, <1>7 DEF IInv, ClaimBound
<1>15. GoodStep BY <1>4, <1>5, <1>7 DEF GoodStep, Claim, Terminating
<1> QED BY <1>9, <1>12, <1>13, <1>14, <1>15 DEF IInv

(* Paying out takes the termination's lock for at most the claim. *)
LEMMA PayOutStep ==
    ASSUME IInv, termination_withdraw
    PROVE  IInv' /\ GoodStep
<1> DEFINE amount == Smaller(vesting.unvested, get_account_balance)
           q == Call("withdraw_unvested", NoPool, amount)
<1>1. /\ vesting \in VestingType /\ promises \in [Ids -> PromiseType]
      /\ balance \in Nat /\ vesting.unvested \in Nat
  BY DEF IInv, TypeOK, VestingType
<1>2. get_account_balance \in Nat /\ get_account_balance <= balance
  BY <1>1, SmallArithmetic, AmountsAssumption DEF get_account_balance
<1>3. amount \in Nat /\ amount <= vesting.unvested /\ amount <= balance
  BY <1>1, <1>2 DEF Smaller
<1>4. PICK k \in Ids : promises' = [promises EXCEPT ![k] = q]
  BY IssueSlot DEF termination_withdraw
<1>5. /\ vesting' = [vesting EXCEPT !.status = "WithdrawingFromAccountInProgress"]
      /\ vesting.kind = "Terminating" /\ vesting.status = "ReadyToWithdraw"
      /\ balance' = balance - amount
      /\ UNCHANGED <<staking, transfers, withdrawn, foundation, incoming, world, fullKey>>
  BY DEF termination_withdraw, set_termination_status, Terminating
<1> HIDE DEF amount
<1>6. /\ q \in PromiseType /\ q.op = "withdraw_unvested" /\ q.amount = amount
      /\ q.op \in TerminationOps /\ q.op \notin PoolOps
  BY <1>3, PromiseFacts, OpFacts
<1> HIDE DEF q
<1>7. /\ vesting' \in VestingType /\ vesting'.kind = "Terminating"
      /\ vesting'.unvested = vesting.unvested
      /\ vesting'.status = "WithdrawingFromAccountInProgress"
  BY <1>1, <1>5 DEF VestingType, TerminationStatuses
<1>8. promises' \in [Ids -> PromiseType] BY <1>1, <1>4, <1>6, SlotChange
<1>9. balance' \in Nat BY <1>1, <1>3, <1>5
<1>10. TypeOK' BY <1>5, <1>7, <1>8, <1>9 DEF IInv, TypeOK, world
<1>11. \A i \in Ids : promises[i].op \notin TerminationOps
  BY <1>5, StatusFacts DEF IInv, TerminationLock
<1>12. PoolLock' BY <1>1, <1>4, <1>5, <1>6, PoolLockStep DEF IInv
<1>13. TerminationLock'
  BY <1>1, <1>3, <1>4, <1>6, <1>7, <1>11, StatusFacts, TerminationLockStep DEF IInv
<1>14. ClaimBound' BY <1>5, <1>7 DEF IInv, ClaimBound
<1>15. GoodStep BY <1>5, <1>7 DEF GoodStep, Claim, Terminating
<1> QED BY <1>10, <1>12, <1>13, <1>14, <1>15 DEF IInv

(* All of the foundation's methods. *)
LEMMA FoundationStep ==
    ASSUME IInv, FoundationMethods
    PROVE  IInv' /\ GoodStep
<1>1. CASE terminate_vesting BY <1>1, TerminateStep
<1>2. CASE termination_withdraw BY <1>2, PayOutStep
<1>3. CASE termination_prepare_to_withdraw
  <2>1. /\ staking.status = "Idle" /\ staking.pool # NoPool
        /\ UNCHANGED <<transfers, withdrawn, foundation, balance, incoming, world, fullKey>>
    BY <1>3 DEF termination_prepare_to_withdraw, assert_staking_pool_is_idle, Selected
  <2>2. CASE PrepareStep("VestingTerminatedWithDeficit", "UnstakingInProgress",
                         "staked_to_unstake")
    BY <2>1, <2>2, StatusFacts, PrepareStepStep
  <2>3. CASE PrepareStep("EverythingUnstaked", "WithdrawingFromStakingPoolInProgress",
                         "unstaked_to_withdraw")
    BY <2>1, <2>3, StatusFacts, PrepareStepStep
  <2> QED BY <1>3, <2>2, <2>3 DEF termination_prepare_to_withdraw
<1> QED BY <1>1, <1>2, <1>3 DEF FoundationMethods

----------------------------------------------------------------------------
(* Callbacks. *)

(* A callback that ends an operation may write what its locks protect.      *)
LEMMA DoneStep ==
    ASSUME IInv, NEW k \in Ids, Done(k),
           staking' \in StakingType, vesting' \in VestingType,
           \/ staking' = staking
           \/ promises[k].op \in PoolOps /\ staking'.pool = staking.pool,
           \/ vesting' = vesting
           \/ /\ promises[k].op \in TerminationOps
              /\ vesting'.kind = "Terminating" /\ vesting'.unvested = vesting.unvested,
           UNCHANGED <<withdrawn, balance>>, CallbackUnchanged
    PROVE  IInv' /\ GoodStep
<1>1. promises \in [Ids -> PromiseType] BY DEF IInv, TypeOK
<1>2. /\ NoPromise \in PromiseType
      /\ NoPromise.op \notin PoolOps /\ NoPromise.op \notin TerminationOps
      /\ promises' = [promises EXCEPT ![k] = NoPromise]
  BY PromiseFacts, OpFacts DEF Done
<1>3. promises' \in [Ids -> PromiseType] BY <1>1, <1>2, SlotChange
<1>4. TypeOK' BY <1>3 DEF IInv, TypeOK, CallbackUnchanged, world
<1>5. (\E j \in Ids : j # k /\ promises[j].op \in PoolOps) => staking' = staking
  BY DEF IInv, PoolLock
<1>6. (\E j \in Ids : j # k /\ promises[j].op \in TerminationOps) => vesting' = vesting
  BY DEF IInv, TerminationLock
<1>7. PoolLock' BY <1>1, <1>2, <1>5, PoolLockStep DEF IInv
<1>8. TerminationLock' BY <1>1, <1>2, <1>6, TerminationLockStep DEF IInv
<1>9. promises[k].op \in TerminationOps => vesting.kind = "Terminating"
  BY DEF IInv, TerminationLock
<1>10. ClaimBound' BY <1>9 DEF IInv, ClaimBound, Valid
<1>11. GoodStep BY <1>9 DEF GoodStep, Claim, Terminating
<1> QED BY <1>4, <1>7, <1>8, <1>10, <1>11 DEF IInv

(* A callback that goes on with a second call keeps the locks.              *)
LEMMA ThenStep ==
    ASSUME IInv, NEW k \in Ids, NEW op \in PoolOps, Then(k, op, promises[k].amount),
           promises[k].op \in PoolOps,
           op \in TerminationOps =>
                /\ promises[k].op \in TerminationOps
                /\ StatusOfOp(op) = StatusOfOp(promises[k].op),
           UNCHANGED <<staking, vesting, withdrawn, balance>>, CallbackUnchanged
    PROVE  IInv' /\ GoodStep
<1> DEFINE q == Call(op, staking.pool, promises[k].amount)
<1>1. promises \in [Ids -> PromiseType] /\ staking \in StakingType BY DEF IInv, TypeOK
<1>2. /\ promises[k].amount \in Nat /\ staking.pool \in Pools \cup {NoPool}
      /\ op \in Ops
  BY <1>1, OpFacts DEF PromiseType, StakingType
<1>3. q \in PromiseType /\ q.op = op /\ q.pool = staking.pool
  BY <1>2, PromiseFacts
<1>4. promises' = [promises EXCEPT ![k] = q] BY DEF Then
<1> HIDE DEF q
<1>5. promises' \in [Ids -> PromiseType] BY <1>1, <1>3, <1>4, SlotChange
<1>6. TypeOK' BY <1>5 DEF IInv, TypeOK, CallbackUnchanged, world
<1>7. /\ staking.pool # NoPool /\ staking.status = "Busy"
      /\ \A j \in Ids : j # k => promises[j].op \notin PoolOps
  BY DEF IInv, PoolLock
<1>8. op # "withdraw_unvested" BY OpFacts
<1>9. op \in TerminationOps =>
            /\ vesting.kind = "Terminating"
            /\ vesting.status = StatusOfOp(op)
            /\ \A j \in Ids : j # k => promises[j].op \notin TerminationOps
  BY DEF IInv, TerminationLock
<1>10. PoolLock' BY <1>1, <1>3, <1>4, <1>7, PoolLockStep DEF IInv
<1>11. TerminationLock' BY <1>1, <1>3, <1>4, <1>8, <1>9, TerminationLockStep DEF IInv
<1>12. ClaimBound' BY DEF IInv, ClaimBound, Valid
<1>13. GoodStep BY DEF GoodStep, Claim, Terminating
<1> QED BY <1>6, <1>10, <1>11, <1>12, <1>13 DEF IInv

(* An answer to a call stays with the call's locks.                         *)
LEMMA ResolveStep ==
    ASSUME IInv, NEW k \in Ids, NEW ok \in BOOLEAN, NEW m \in Nat, Resolve(k, ok, m),
           promises[k].op = "withdraw_unvested" => m = promises[k].amount,
           pools' \in [Pools -> [staked : Nat, unstaked : Nat]], incoming' \in Nat,
           UNCHANGED <<contract, balance, poll, now, fullKey>>
    PROVE  IInv' /\ GoodStep
<1> DEFINE q == [promises[k] EXCEPT !.stage = "callback", !.ok = ok, !.amount = m]
<1>1. promises \in [Ids -> PromiseType] BY DEF IInv, TypeOK
<1>2. /\ q \in PromiseType /\ q.op = promises[k].op /\ q.pool = promises[k].pool
      /\ q.amount = m
  BY <1>1 DEF PromiseType
<1>3. promises' = [promises EXCEPT ![k] = q] BY <1>1 DEF Resolve
<1> HIDE DEF q
<1>4. promises' \in [Ids -> PromiseType] BY <1>1, <1>2, <1>3, SlotChange
<1>5. UNCHANGED <<staking, vesting, withdrawn, transfers, foundation>> BY DEF contract
<1>6. TypeOK' BY <1>4, <1>5 DEF IInv, TypeOK
<1>7. q.op \in PoolOps =>
            /\ staking.pool # NoPool /\ staking.pool = q.pool
            /\ staking.status = "Busy"
            /\ \A j \in Ids : j # k => promises[j].op \notin PoolOps
  BY <1>2 DEF IInv, PoolLock
<1>8. q.op \in TerminationOps =>
            /\ vesting.kind = "Terminating"
            /\ vesting.status = StatusOfOp(q.op)
            /\ \A j \in Ids : j # k => promises[j].op \notin TerminationOps
            /\ q.op = "withdraw_unvested" => q.amount <= vesting.unvested
  BY <1>2 DEF IInv, TerminationLock
<1>9. PoolLock' BY <1>1, <1>2, <1>3, <1>5, <1>7, PoolLockStep DEF IInv
<1>10. TerminationLock' BY <1>1, <1>2, <1>3, <1>5, <1>8, TerminationLockStep DEF IInv
<1>11. ClaimBound' BY <1>5 DEF IInv, ClaimBound, Valid
<1>12. GoodStep BY <1>5 DEF GoodStep, Claim, Terminating
<1> QED BY <1>6, <1>9, <1>10, <1>11, <1>12 DEF IInv

(* The callbacks that end an owner's operation.                             *)
LEMMA OwnerCallbackStep ==
    ASSUME IInv, NEW i \in Ids,
           \/ on_staking_pool_deposit(i)
           \/ on_staking_pool_deposit_and_stake(i)
           \/ on_staking_pool_withdraw(i)
           \/ on_staking_pool_stake(i)
           \/ on_staking_pool_unstake(i)
           \/ on_staking_pool_unstake_all(i)
           \/ on_get_account_total_balance(i)
    PROVE  IInv' /\ GoodStep
<1>1. /\ staking \in StakingType /\ vesting \in VestingType
      /\ promises[i].amount \in Nat /\ staking.deposit_amount \in Nat
  BY DEF IInv, TypeOK, PromiseType, StakingType
<1>2. promises[i].op \in PoolOps /\ Done(i)
  BY OpFacts DEF on_staking_pool_deposit, on_staking_pool_deposit_and_stake,
     on_staking_pool_withdraw, on_staking_pool_stake, on_staking_pool_unstake,
     on_staking_pool_unstake_all, on_get_account_total_balance, DepositCallback,
     ReleaseLock, Callback
<1>3. UNCHANGED <<vesting, withdrawn, balance>> /\ CallbackUnchanged
  BY DEF on_staking_pool_deposit, on_staking_pool_deposit_and_stake,
     on_staking_pool_withdraw, on_staking_pool_stake, on_staking_pool_unstake,
     on_staking_pool_unstake_all, on_get_account_total_balance, DepositCallback,
     ReleaseLock
<1>4. \E d \in Nat : staking' = [staking EXCEPT !.status = "Idle", !.deposit_amount = d]
  <2>1. ASSUME NEW op, DepositCallback(i, op)
        PROVE  \E d \in Nat : staking' = [staking EXCEPT !.status = "Idle",
                                                         !.deposit_amount = d]
    <3> DEFINE d == IF promises[i].ok THEN staking.deposit_amount + promises[i].amount
                    ELSE staking.deposit_amount
    <3>1. d \in Nat BY <1>1
    <3>2. staking' = [staking EXCEPT !.status = "Idle", !.deposit_amount = d]
      BY <2>1, <1>1 DEF DepositCallback, StakingType
    <3> QED BY <3>1, <3>2
  <2>2. CASE on_staking_pool_withdraw(i)
    <3> DEFINE d == IF promises[i].ok
                    THEN SatSub(staking.deposit_amount, promises[i].amount)
                    ELSE staking.deposit_amount
    <3>1. d \in Nat BY <1>1, SmallArithmetic
    <3>2. staking' = [staking EXCEPT !.status = "Idle", !.deposit_amount = d]
      BY <2>2, <1>1 DEF on_staking_pool_withdraw, StakingAfterWithdraw, StakingType
    <3> QED BY <3>1, <3>2
  <2>3. ASSUME NEW op, ReleaseLock(i, op)
        PROVE  \E d \in Nat : staking' = [staking EXCEPT !.status = "Idle",
                                                         !.deposit_amount = d]
    <3>1. staking' = [staking EXCEPT !.status = "Idle",
                                     !.deposit_amount = staking.deposit_amount]
      BY <2>3, <1>1 DEF ReleaseLock, set_staking_pool_status, StakingType
    <3> QED BY <3>1, <1>1
  <2>4. CASE on_get_account_total_balance(i)
    BY <2>4, <1>1 DEF on_get_account_total_balance
  <2> QED
    BY <2>1, <2>2, <2>3, <2>4 DEF on_staking_pool_deposit, on_staking_pool_deposit_and_stake,
       on_staking_pool_stake, on_staking_pool_unstake, on_staking_pool_unstake_all
<1>5. staking' \in StakingType /\ staking'.pool = staking.pool
  BY <1>1, <1>4 DEF StakingType, Statuses
<1> QED BY <1>1, <1>2, <1>3, <1>5, DoneStep

(* The answers of the whitelist and of the poll. *)
LEMMA AnswerStep ==
    ASSUME IInv, NEW i \in Ids,
           on_whitelist_is_whitelisted(i) \/ on_get_result_from_transfer_poll(i)
    PROVE  IInv' /\ GoodStep
<1>0. /\ promises \in [Ids -> PromiseType] /\ promises[i] \in PromiseType
      /\ NoPromise \in PromiseType
      /\ NoPromise.op \notin PoolOps /\ NoPromise.op \notin TerminationOps
  BY PromiseFacts, OpFacts DEF IInv, TypeOK
<1>1. /\ promises' = [promises EXCEPT ![i] = NoPromise]
      /\ UNCHANGED <<vesting, withdrawn, foundation, balance, incoming, world, fullKey>>
  BY DEF on_whitelist_is_whitelisted, on_get_result_from_transfer_poll, Done,
         CallbackUnchanged
<1>2. /\ staking' \in StakingType
      /\ staking.pool # NoPool => staking' = staking
  <2>1. CASE on_whitelist_is_whitelisted(i)
    BY <1>0, <2>1 DEF on_whitelist_is_whitelisted, assert_staking_pool_is_not_selected,
       Selected, IInv, TypeOK, StakingType, PromiseType, Statuses
  <2>2. CASE on_get_result_from_transfer_poll(i)
    BY <2>2 DEF on_get_result_from_transfer_poll, IInv, TypeOK
  <2> QED BY <2>1, <2>2
<1>3. transfers' \in TransfersType
  <2>1. CASE on_whitelist_is_whitelisted(i)
    BY <2>1 DEF on_whitelist_is_whitelisted, CallbackUnchanged, IInv, TypeOK
  <2>2. CASE on_get_result_from_transfer_poll(i)
    <3>1. promises[i].amount \in Nat /\ transfers \in TransfersType
      BY <1>0 DEF PromiseType, IInv, TypeOK
    <3> QED BY <2>2, <3>1 DEF on_get_result_from_transfer_poll, TransfersType
  <2> QED BY <2>1, <2>2
<1>4. promises' \in [Ids -> PromiseType] BY <1>0, <1>1, SlotChange
<1>5. TypeOK' BY <1>1, <1>2, <1>3, <1>4 DEF IInv, TypeOK, world
<1>6. (\E j \in Ids : j # i /\ promises[j].op \in PoolOps) => staking.pool # NoPool
  BY DEF IInv, PoolLock
<1>7. PoolLock' BY <1>0, <1>1, <1>2, <1>6, PoolLockStep DEF IInv
<1>8. TerminationLock' BY <1>0, <1>1, TerminationLockStep DEF IInv
<1>9. ClaimBound' BY <1>1 DEF IInv, ClaimBound, Valid
<1>10. GoodStep BY <1>1, <1>2 DEF GoodStep, Claim, Terminating, Selected
<1> QED BY <1>5, <1>7, <1>8, <1>9, <1>10 DEF IInv

(* Giving a lock back, or leaving it, keeps the record's type.             *)
LEMMA SetStatusFacts ==
    ASSUME IInv
    PROVE  /\ set_staking_pool_status("Idle") =>
                staking' \in StakingType /\ staking'.pool = staking.pool
           /\ \A status \in TerminationStatuses :
                set_termination_status(status) =>
                    /\ vesting' \in VestingType
                    /\ vesting'.kind = "Terminating"
                    /\ vesting'.unvested = vesting.unvested
<1>1. staking \in StakingType /\ vesting \in VestingType BY DEF IInv, TypeOK
<1>2. set_staking_pool_status("Idle") =>
            staking' \in StakingType /\ staking'.pool = staking.pool
  BY <1>1 DEF set_staking_pool_status, StakingType, Statuses
<1>3. ASSUME NEW status \in TerminationStatuses, set_termination_status(status)
      PROVE  /\ vesting' \in VestingType
             /\ vesting'.kind = "Terminating"
             /\ vesting'.unvested = vesting.unvested
  BY <1>1, <1>3 DEF set_termination_status, VestingType, Terminating
<1> QED BY <1>2, <1>3

(* The callbacks of the view calls. *)
LEMMA ViewCallbackStep ==
    ASSUME IInv, NEW i \in Ids,
           \/ ViewFailed(i)
           \/ on_get_account_unstaked_balance_to_withdraw_by_owner(i)
           \/ on_get_account_staked_balance_to_unstake(i)
           \/ on_get_account_unstaked_balance_to_withdraw(i)
    PROVE  IInv' /\ GoodStep
<1>1. staking \in StakingType /\ vesting \in VestingType BY DEF IInv, TypeOK
<1>2. CASE ViewFailed(i) BY <1>1, <1>2, DoneStep DEF ViewFailed
<1>3. CASE on_get_account_unstaked_balance_to_withdraw_by_owner(i)
  <2>1. /\ promises[i].op = "unstaked_by_owner" /\ promises[i].op \in PoolOps
        /\ UNCHANGED <<vesting, withdrawn, balance>> /\ CallbackUnchanged
    BY <1>3, OpFacts DEF on_get_account_unstaked_balance_to_withdraw_by_owner, Callback
  <2>2. CASE promises[i].amount > 0
    BY <1>3, <2>1, <2>2, OpFacts, ThenStep
       DEF on_get_account_unstaked_balance_to_withdraw_by_owner
  <2>3. CASE ~(promises[i].amount > 0)
    <3>1. Done(i) /\ set_staking_pool_status("Idle")
      BY <1>3, <2>3 DEF on_get_account_unstaked_balance_to_withdraw_by_owner
    <3> QED BY <1>1, <2>1, <3>1, SetStatusFacts, DoneStep
  <2> QED BY <2>2, <2>3
<1>4. CASE on_get_account_staked_balance_to_unstake(i)
  <2>1. /\ promises[i].op = "staked_to_unstake"
        /\ promises[i].op \in PoolOps /\ promises[i].op \in TerminationOps
        /\ UNCHANGED <<withdrawn, balance>> /\ CallbackUnchanged
    BY <1>4, OpFacts DEF on_get_account_staked_balance_to_unstake, Callback
  <2>2. CASE promises[i].amount > 0
    <3>1. /\ Then(i, "unstake_for_termination", promises[i].amount)
          /\ UNCHANGED <<staking, vesting>>
      BY <1>4, <2>2 DEF on_get_account_staked_balance_to_unstake
    <3>2. /\ "unstake_for_termination" \in PoolOps
          /\ StatusOfOp("unstake_for_termination") = StatusOfOp(promises[i].op)
      BY <2>1, OpFacts, StatusFacts
    <3> QED BY <2>1, <3>1, <3>2, ThenStep
  <2>3. CASE ~(promises[i].amount > 0)
    <3>1. /\ Done(i) /\ set_staking_pool_status("Idle")
          /\ set_termination_status("EverythingUnstaked")
      BY <1>4, <2>3 DEF on_get_account_staked_balance_to_unstake
    <3>2. "EverythingUnstaked" \in TerminationStatuses BY DEF TerminationStatuses
    <3> QED BY <2>1, <3>1, <3>2, SetStatusFacts, DoneStep
  <2> QED BY <2>2, <2>3
<1>5. CASE on_get_account_unstaked_balance_to_withdraw(i)
  <2>1. /\ promises[i].op = "unstaked_to_withdraw"
        /\ promises[i].op \in PoolOps /\ promises[i].op \in TerminationOps
        /\ UNCHANGED <<withdrawn, balance>> /\ CallbackUnchanged
    BY <1>5, OpFacts DEF on_get_account_unstaked_balance_to_withdraw, Callback
  <2>2. CASE promises[i].amount > 0
    <3>1. /\ Then(i, "withdraw_for_termination", promises[i].amount)
          /\ UNCHANGED <<staking, vesting>>
      BY <1>5, <2>2 DEF on_get_account_unstaked_balance_to_withdraw
    <3>2. /\ "withdraw_for_termination" \in PoolOps
          /\ StatusOfOp("withdraw_for_termination") = StatusOfOp(promises[i].op)
      BY <2>1, OpFacts, StatusFacts
    <3> QED BY <2>1, <3>1, <3>2, ThenStep
  <2>3. CASE ~(promises[i].amount > 0)
    <3>1. /\ Done(i) /\ set_staking_pool_status("Idle")
          /\ set_termination_status("ReadyToWithdraw")
      BY <1>5, <2>3 DEF on_get_account_unstaked_balance_to_withdraw
    <3>2. "ReadyToWithdraw" \in TerminationStatuses BY DEF TerminationStatuses
    <3> QED BY <2>1, <3>1, <3>2, SetStatusFacts, DoneStep
  <2> QED BY <2>2, <2>3
<1> QED BY <1>2, <1>3, <1>4, <1>5

(* The callbacks of the termination's operations on the pool.               *)
LEMMA TerminationCallbackStep ==
    ASSUME IInv, NEW i \in Ids,
           \/ on_staking_pool_unstake_for_termination(i)
           \/ on_staking_pool_withdraw_for_termination(i)
    PROVE  IInv' /\ GoodStep
<1>1. CASE on_staking_pool_unstake_for_termination(i)
  <2>1. /\ promises[i].op \in PoolOps /\ promises[i].op \in TerminationOps
        /\ Done(i) /\ set_staking_pool_status("Idle")
        /\ UNCHANGED <<withdrawn, balance>> /\ CallbackUnchanged
    BY <1>1, OpFacts DEF on_staking_pool_unstake_for_termination, Callback
  <2>2. \E status \in TerminationStatuses : set_termination_status(status)
    BY <1>1 DEF on_staking_pool_unstake_for_termination, TerminationStatuses
  <2> QED BY <2>1, <2>2, SetStatusFacts, DoneStep
<1>2. CASE on_staking_pool_withdraw_for_termination(i)
  <2>1. /\ promises[i].op \in PoolOps /\ promises[i].op \in TerminationOps
        /\ Done(i) /\ staking' = StakingAfterWithdraw(i)
        /\ UNCHANGED <<withdrawn, balance>> /\ CallbackUnchanged
    BY <1>2, OpFacts DEF on_staking_pool_withdraw_for_termination, Callback
  <2>2. \E status \in TerminationStatuses : set_termination_status(status)
    BY <1>2 DEF on_staking_pool_withdraw_for_termination, TerminationStatuses
  <2>3. /\ staking \in StakingType /\ promises[i].amount \in Nat
        /\ staking.deposit_amount \in Nat
    BY DEF IInv, TypeOK, StakingType, PromiseType
  <2>4. SatSub(staking.deposit_amount, promises[i].amount) \in Nat
    BY <2>3, SmallArithmetic
  <2>5. staking' \in StakingType /\ staking'.pool = staking.pool
    BY <2>1, <2>3, <2>4 DEF StakingAfterWithdraw, StakingType, Statuses
  <2> QED BY <2>1, <2>2, <2>5, SetStatusFacts, DoneStep
<1> QED BY <1>1, <1>2

(* The end of a payment to the foundation: paid and owed are moved          *)
(* together, or not at all.                                                 *)
LEMMA PaidStep ==
    ASSUME IInv, NEW i \in Ids, on_withdraw_unvested_amount(i)
    PROVE  IInv' /\ GoodStep
<1> DEFINE amount == promises[i].amount
<1>0. /\ promises \in [Ids -> PromiseType] /\ promises[i] \in PromiseType
      /\ vesting \in VestingType
      /\ amount \in Nat /\ withdrawn \in Nat /\ vesting.unvested \in Nat
      /\ LockupAmount \in Nat
      /\ NoPromise \in PromiseType
      /\ NoPromise.op \notin PoolOps /\ NoPromise.op \notin TerminationOps
  BY PromiseFacts, OpFacts, AmountsAssumption DEF IInv, TypeOK, PromiseType, VestingType
<1>1. /\ promises[i].op = "withdraw_unvested" /\ promises[i].op \in TerminationOps
      /\ promises' = [promises EXCEPT ![i] = NoPromise]
      /\ UNCHANGED <<staking, transfers, balance, incoming, world, fullKey>>
  BY OpFacts DEF on_withdraw_unvested_amount, Callback, Done
<1>2. /\ vesting.kind = "Terminating" /\ amount <= vesting.unvested
      /\ withdrawn + vesting.unvested <= LockupAmount
      /\ \A j \in Ids : j # i => promises[j].op \notin TerminationOps
  BY <1>1 DEF IInv, TerminationLock, ClaimBound
<1>3. /\ vesting' \in VestingType /\ foundation' \in BOOLEAN /\ withdrawn' \in Nat
      /\ \/ vesting'.kind = "None" /\ withdrawn' = withdrawn + vesting.unvested
         \/ /\ vesting'.kind = "Terminating"
            /\ withdrawn' + vesting'.unvested = withdrawn + vesting.unvested
  <2>1. CASE promises[i].ok /\ vesting.unvested <= amount
    <3>1. /\ vesting' = Vesting("None", NoSchedule) /\ foundation' = FALSE
          /\ withdrawn' = withdrawn + amount
      BY <2>1 DEF on_withdraw_unvested_amount
    <3>2. amount = vesting.unvested BY <1>0, <1>2, <2>1
    <3>3. vesting' \in VestingType /\ vesting'.kind = "None"
      BY <3>1 DEF Vesting, NoSchedule, VestingType, ScheduleType
    <3>4. foundation' \in BOOLEAN BY <3>1
    <3>5. withdrawn' \in Nat /\ withdrawn' = withdrawn + vesting.unvested
      BY <1>0, <3>1, <3>2
    <3> QED BY <3>3, <3>4, <3>5
  <2>2. CASE promises[i].ok /\ ~(vesting.unvested <= amount)
    <3>1. /\ vesting' = [vesting EXCEPT !.unvested = @ - amount,
                                        !.status = "ReadyToWithdraw"]
          /\ foundation' = foundation /\ withdrawn' = withdrawn + amount
      BY <2>2 DEF on_withdraw_unvested_amount
    <3>2. vesting.unvested - amount \in Nat BY <1>0, <1>2
    <3>3. /\ vesting' \in VestingType /\ vesting'.kind = "Terminating"
          /\ vesting'.unvested = vesting.unvested - amount
      BY <1>0, <1>2, <3>1, <3>2 DEF VestingType, TerminationStatuses
    <3> QED BY <1>0, <3>1, <3>3 DEF IInv, TypeOK
  <2>3. CASE ~promises[i].ok
    <3>1. /\ vesting' = [vesting EXCEPT !.unvested = @, !.status = "ReadyToWithdraw"]
          /\ foundation' = foundation /\ withdrawn' = withdrawn
      BY <2>3 DEF on_withdraw_unvested_amount
    <3>2. /\ vesting' \in VestingType /\ vesting'.kind = "Terminating"
          /\ vesting'.unvested = vesting.unvested
      BY <1>0, <1>2, <3>1 DEF VestingType, TerminationStatuses
    <3> QED BY <1>0, <3>1, <3>2 DEF IInv, TypeOK
  <2> QED BY <2>1, <2>2, <2>3
<1> HIDE DEF amount
<1>4. promises' \in [Ids -> PromiseType] BY <1>0, <1>1, SlotChange
<1>5. TypeOK' BY <1>1, <1>3, <1>4 DEF IInv, TypeOK, world
<1>6. PoolLock' BY <1>0, <1>1, PoolLockStep DEF IInv
<1>7. TerminationLock' BY <1>0, <1>1, <1>2, TerminationLockStep DEF IInv
<1>8. vesting'.unvested \in Nat BY <1>3 DEF VestingType
<1>9. ClaimBound' BY <1>0, <1>2, <1>3, <1>8 DEF IInv, ClaimBound
<1>10. GoodStep BY <1>0, <1>1, <1>2, <1>3 DEF GoodStep, Claim, Terminating
<1> QED BY <1>5, <1>6, <1>7, <1>9, <1>10 DEF IInv

(* All callbacks. *)
LEMMA CallbackStep ==
    ASSUME IInv, NEW i \in Ids, Callbacks(i)
    PROVE  IInv' /\ GoodStep
BY OwnerCallbackStep, AnswerStep, ViewCallbackStep, TerminationCallbackStep, PaidStep
   DEF Callbacks

----------------------------------------------------------------------------
(* The other contracts. *)

(* A pool carries out only what its balances cover. *)
LEMMA PoolEffectType ==
    ASSUME NEW b \in [staked : Nat, unstaked : Nat], NEW m \in Nat,
           NEW op \in PoolOps \ ViewOps, PoolAccepts(op, b, m)
    PROVE  PoolEffect(op, b, m) \in [staked : Nat, unstaked : Nat]
<1>1. CASE op \in WithdrawOps
  BY <1>1 DEF PoolAccepts, PoolEffect, WithdrawOps
<1>2. CASE op \in {"deposit", "deposit_and_stake", "unstake_all"}
  BY <1>2 DEF PoolEffect, WithdrawOps
<1>3. CASE op = "stake" BY <1>3 DEF PoolAccepts, PoolEffect, WithdrawOps
<1>4. CASE op \in {"unstake", "unstake_for_termination"}
  BY <1>4 DEF PoolAccepts, PoolEffect, WithdrawOps
<1> QED
  BY <1>1, <1>2, <1>3, <1>4 DEF PoolOps, DepositOps, WithdrawOps, OtherOps, ViewOps

(* All executions of calls. *)
LEMMA ExecutionStep ==
    ASSUME IInv, NEW i \in Ids, Executions(i)
    PROVE  IInv' /\ GoodStep
<1> DEFINE c == promises[i]
<1>1. /\ c \in PromiseType /\ c.amount \in Nat /\ incoming \in Nat
      /\ pools \in [Pools -> [staked : Nat, unstaked : Nat]] /\ poll.timestamp \in Nat
  BY DEF IInv, TypeOK, PromiseType, TransfersType
<1>2. c.op \in PoolOps => c.pool \in Pools /\ c.op # "withdraw_unvested"
  BY <1>1, OpFacts DEF IInv, PoolLock, PromiseType
<1>3. CASE PoolExecutes(i)
  <2>1. /\ c.op \in PoolOps \ ViewOps /\ Resolve(i, TRUE, c.amount)
        /\ PoolAccepts(c.op, pools[c.pool], c.amount)
        /\ pools' = [pools EXCEPT ![c.pool] = PoolEffect(c.op, pools[c.pool], c.amount)]
        /\ UNCHANGED <<contract, balance, poll, now, fullKey>>
    BY <1>3 DEF PoolExecutes
  <2>2. incoming' \in Nat BY <1>1, <1>3 DEF PoolExecutes
  <2>3. pools[c.pool] \in [staked : Nat, unstaked : Nat] BY <1>1, <1>2, <2>1
  <2>4. PoolEffect(c.op, pools[c.pool], c.amount) \in [staked : Nat, unstaked : Nat]
    BY <1>1, <2>1, <2>3, PoolEffectType
  <2>5. pools' \in [Pools -> [staked : Nat, unstaked : Nat]]
    BY <1>1, <1>2, <2>1, <2>4
  <2> QED BY <1>1, <1>2, <2>1, <2>2, <2>5, ResolveStep
<1>4. CASE PoolFails(i)
  <2>1. incoming' \in Nat BY <1>1, <1>4 DEF PoolFails
  <2>2. /\ Resolve(i, FALSE, c.amount)
        /\ UNCHANGED <<contract, balance, pools, poll, now, fullKey>>
    BY <1>4 DEF PoolFails, world
  <2> QED BY <1>1, <2>1, <2>2, ResolveStep
<1>5. ASSUME NEW ok \in ViewOutcomes, ViewExecutes(i, ok)
      PROVE  IInv' /\ GoodStep
  <2> DEFINE m == IF ok THEN ViewResult(c.op, pools[c.pool]) ELSE 0
  <2>1. /\ c.op \in PoolOps /\ Resolve(i, ok, m)
        /\ UNCHANGED <<contract, balance, incoming, pools, poll, now, fullKey>>
    BY <1>5, OpFacts DEF ViewExecutes, world
  <2>2. pools[c.pool] \in [staked : Nat, unstaked : Nat] BY <1>1, <1>2, <2>1
  <2>3. m \in Nat BY <2>2 DEF ViewResult
  <2>4. ok \in BOOLEAN BY InitialAssumption
  <2> HIDE DEF m
  <2> QED BY <1>1, <1>2, <2>1, <2>3, <2>4, ResolveStep
<1>6. ASSUME NEW ok \in ViewOutcomes, PollExecutes(i, ok)
      PROVE  IInv' /\ GoodStep
  <2> DEFINE m == IF ok /\ poll.enabled THEN poll.timestamp + 1 ELSE 0
  <2>1. /\ c.op = "poll" /\ Resolve(i, ok, m)
        /\ UNCHANGED <<contract, balance, incoming, pools, poll, now, fullKey>>
    BY <1>6 DEF PollExecutes, world
  <2>2. m \in Nat BY <1>1
  <2>3. ok \in BOOLEAN BY InitialAssumption
  <2> HIDE DEF m
  <2> QED BY <1>1, <2>1, <2>2, <2>3, ResolveStep
<1>7. ASSUME NEW ok \in BOOLEAN, WhitelistExecutes(i, ok)
      PROVE  IInv' /\ GoodStep
  <2>1. /\ c.op = "is_whitelisted" /\ Resolve(i, ok, 0)
        /\ UNCHANGED <<contract, balance, incoming, pools, poll, now, fullKey>>
    BY <1>7 DEF WhitelistExecutes, world
  <2> QED BY <1>1, <2>1, ResolveStep
<1>8. ASSUME NEW ok \in BOOLEAN, TransferExecutes(i, ok)
      PROVE  IInv' /\ GoodStep
  <2>1. incoming' \in Nat BY <1>1, <1>8 DEF TransferExecutes
  <2>2. /\ Resolve(i, ok, c.amount)
        /\ UNCHANGED <<contract, balance, pools, poll, now, fullKey>>
    BY <1>8 DEF TransferExecutes, world
  <2> QED BY <1>1, <2>1, <2>2, ResolveStep
<1> QED BY <1>3, <1>4, <1>5, <1>6, <1>7, <1>8 DEF Executions

----------------------------------------------------------------------------
(* The theorems. *)

(* Every step keeps the inductive invariant. *)
LEMMA NextStep ==
    ASSUME IInv, [Next]_vars
    PROVE  IInv' /\ [GoodStep]_vars
<1>1. CASE OwnerMethods BY <1>1, OwnerStep
<1>2. CASE FoundationMethods BY <1>2, FoundationStep
<1>3. ASSUME NEW i \in Ids, Callbacks(i) \/ Executions(i)
      PROVE  IInv' /\ [GoodStep]_vars
  BY <1>3, CallbackStep, ExecutionStep
<1>4. CASE \/ \E m \in 1 .. incoming : Arrive(m)
           \/ \E p \in Pools : PoolReward(p)
           \/ VoteTransfers
           \/ Tick
  BY <1>4, WorldStep
<1>5. CASE UNCHANGED vars
  <2>1. TypeOK' BY <1>5 DEF IInv, TypeOK, vars, contract, world
  <2>2. UNCHANGED <<staking, vesting, withdrawn, promises>> BY <1>5 DEF vars, contract
  <2> QED BY <1>5, <2>1, <2>2, OutsideStep
<1> QED BY <1>1, <1>2, <1>3, <1>4, <1>5 DEF Next

(* `new` establishes the inductive invariant. *)
LEMMA InitStep ==
    ASSUME ValidSchedules, Init
    PROVE  IInv
<1>1. vesting \in InitialVestings /\ vesting \in VestingType /\ vesting.kind # "Terminating"
  BY InitialAssumption DEF Init
<1>2. \A i \in Ids : promises[i] = NoPromise BY DEF Init
<1>3. promises \in [Ids -> PromiseType] BY PromiseFacts DEF Init
<1>4. staking \in StakingType BY DEF Init, NoStaking, StakingType, Statuses
<1>5. transfers \in TransfersType /\ poll \in TransfersType
  BY InitialAssumption DEF Init, TransfersType
<1>6. pools \in [Pools -> [staked : Nat, unstaked : Nat]] BY DEF Init
<1>7. foundation \in BOOLEAN /\ fullKey \in BOOLEAN BY DEF Init
<1>8. withdrawn = 0 /\ balance \in Nat /\ incoming \in Nat /\ now \in Nat
  BY AmountsAssumption DEF Init
<1>9. TypeOK BY <1>1, <1>3, <1>4, <1>5, <1>6, <1>7, <1>8 DEF TypeOK
<1>10. PoolLock BY <1>2, PromiseFacts, OpFacts DEF PoolLock
<1>11. TerminationLock BY <1>2, PromiseFacts, OpFacts DEF TerminationLock
<1>12. ClaimBound BY <1>1, <1>8, AmountsAssumption DEF ClaimBound, ValidSchedules
<1> QED BY <1>9, <1>10, <1>11, <1>12 DEF IInv

(* With valid schedules, the inductive invariant holds in every reachable   *)
(* state, and every step is good.                                           *)
LEMMA Inductive ==
    ASSUME ValidSchedules
    PROVE  Spec => []IInv /\ [][GoodStep]_vars
<1>1. Init => IInv BY InitStep
<1>2. IInv /\ [Next]_vars => IInv' /\ [GoodStep]_vars BY NextStep
<1> QED BY <1>1, <1>2, PTL DEF Spec

(* Types: no subtraction of a balance, of the amounts of a termination or   *)
(* of a pool's balances underflows, whatever the order of calls, executions *)
(* and callbacks.                                                           *)
THEOREM LockupTypeCorrect ==
    ASSUME ValidSchedules
    PROVE  Spec => []TypeOK
<1>1. IInv => TypeOK BY DEF IInv
<1> QED BY <1>1, Inductive, PTL

(* The Busy status of the staking pool is a lock: at most one operation on  *)
(* the pool is in flight, it is on the selected pool and holds the lock     *)
(* until its last callback.                                                 *)
THEOREM OneOperationAtATime ==
    ASSUME ValidSchedules
    PROVE  Spec => []OnePoolOperation
<1>1. IInv => OnePoolOperation
  BY DEF IInv, PoolLock, OnePoolOperation, InFlight, Selected
<1> QED BY <1>1, Inductive, PTL

(* A termination's callbacks find the status that the foundation's call     *)
(* left, and no two termination transactions are in flight.                 *)
THEOREM TerminationIsExclusive ==
    ASSUME ValidSchedules
    PROVE  Spec => []OneTerminationTransaction
<1>1. IInv => OneTerminationTransaction
  BY DEF IInv, TerminationLock, OneTerminationTransaction, InFlight, Terminating
<1> QED BY <1>1, Inductive, PTL

(* What is not vested never exceeds the lockup amount, as the comment in    *)
(* get_unvested_amount says; this is where valid schedules are needed.      *)
THEOREM UnvestedBounded ==
    ASSUME ValidSchedules
    PROVE  Spec => []UnvestedWithinLockup
<1>1. IInv => UnvestedWithinLockup BY UnvestedBound DEF UnvestedWithinLockup
<1> QED BY <1>1, Inductive, PTL

(* From terminate_vesting on, what the foundation has received and may      *)
(* still receive is fixed: withdrawals that fail, or that pay a part, do    *)
(* not change the sum.                                                      *)
THEOREM ClaimNeverChanges ==
    ASSUME ValidSchedules
    PROVE  Spec => ClaimIsFixed
<1>1. [GoodStep]_vars => [Terminating => Claim' = Claim]_vars
  BY DEF GoodStep, Terminating
<1> QED BY <1>1, Inductive, PTL DEF ClaimIsFixed

(* A pool with a known deposit stays selected, however many                 *)
(* select_staking_pool calls wait for the whitelist.                        *)
THEOREM DepositNeverForgotten ==
    ASSUME ValidSchedules
    PROVE  Spec => KnownDepositStaysKnown
<1>1. [GoodStep]_vars =>
        [Selected /\ staking.deposit_amount > 0 => staking'.pool = staking.pool]_vars
  BY DEF GoodStep
<1> QED BY <1>1, Inductive, PTL DEF KnownDepositStaysKnown

----------------------------------------------------------------------------
(* What is locked, of any terms: what is unvested and what is not released. *)

(* The getters, of the terms given as parameters: transfers information,    *)
(* withdrawn tokens, vesting information and time.                          *)
UnvestedAt(s, t) ==
    CASE t < s.cliff -> LockupAmount
      [] t >= s.cliff /\ t >= s.end -> 0
      [] OTHER -> (LockupAmount * (s.end - t)) \div (s.end - s.start)
UnvestedOf(v, t) ==
    CASE v.kind = "Terminating" -> v.unvested
      [] v.kind = "None" -> 0
      [] OTHER -> UnvestedAt(v.schedule, t)
Unlock(tr) == Larger(tr.timestamp + LockupDuration, LockupTimestamp)
UnreleasedAt(tr, t) ==
    IF t >= Unlock(tr) + ReleaseDuration THEN 0
    ELSE (LockupAmount * ((Unlock(tr) + ReleaseDuration) - t)) \div ReleaseDuration
(* Before it is revealed, a private schedule is not counted. *)
Visible(v, t) == IF v.kind \in {"VestingSchedule", "Terminating"} THEN UnvestedOf(v, t) ELSE 0
LockedAt(tr, w, v, t) ==
    IF tr.enabled /\ Unlock(tr) <= t
    THEN Larger(SatSub(UnreleasedAt(tr, t), w), Visible(v, t))
    ELSE LockupAmount - w

(* They are the getters. *)
LEMMA Getters ==
    /\ get_locked_amount = LockedAt(transfers, withdrawn, vesting, now)
    /\ get_locked_amount' = LockedAt(transfers', withdrawn', vesting', now')
    /\ get_unvested_amount(vesting.schedule) = UnvestedOf(vesting, now)
    /\ get_unvested_amount(vesting.schedule)' = UnvestedOf(vesting', now')
<1>1. get_unvested_amount(vesting.schedule) = UnvestedOf(vesting, now)
  BY DEF get_unvested_amount, Unvested, Terminating, UnvestedOf, UnvestedAt
<1>2. get_unvested_amount(vesting.schedule)' = UnvestedOf(vesting', now')
  BY DEF get_unvested_amount, Unvested, Terminating, UnvestedOf, UnvestedAt
<1>3. /\ unlock_timestamp = Unlock(transfers)
      /\ unreleased_amount = UnreleasedAt(transfers, now)
  BY DEF unlock_timestamp, unreleased_amount, Unlock, UnreleasedAt, Larger
<1>4. /\ unlock_timestamp' = Unlock(transfers')
      /\ unreleased_amount' = UnreleasedAt(transfers', now')
  BY DEF unlock_timestamp, unreleased_amount, Unlock, UnreleasedAt, Larger
<1>5. get_locked_amount = LockedAt(transfers, withdrawn, vesting, now)
  BY <1>1, <1>3 DEF get_locked_amount, LockedAt, Visible
<1>6. get_locked_amount' = LockedAt(transfers', withdrawn', vesting', now')
  BY <1>2, <1>4 DEF get_locked_amount, LockedAt, Visible, Larger, SatSub
<1> QED BY <1>1, <1>2, <1>5, <1>6

(* The condition under which a private schedule may be used: the lockup and *)
(* release periods shadow it (lockup/README.md, Private vesting schedule).  *)
FirstUnlock == Larger(LockupDuration, LockupTimestamp)
Shadowed(s) == s.cliff <= FirstUnlock /\ s.end <= FirstUnlock + ReleaseDuration

(* Terms that the contract can be in. *)
Terms(tr, w, v, t) ==
    /\ tr \in TransfersType /\ w \in Nat /\ v \in VestingType /\ t \in Nat
    /\ v.kind \in {"VestingHash", "VestingSchedule"} => Valid(v.schedule) /\ w = 0
    /\ v.kind = "VestingHash" => Shadowed(v.schedule)
    /\ v.kind = "Terminating" => w + v.unvested <= LockupAmount
    /\ w <= LockupAmount

(* A smaller part of an amount is a smaller amount. *)
LEMMA PartGrows ==
    ASSUME NEW a \in Nat, NEW l1 \in Nat, NEW l2 \in Nat, NEW t1 \in Nat, NEW t2 \in Nat,
           t1 > 0, t2 > 0, l1 * t2 <= l2 * t1
    PROVE  (a * l1) \div t1 <= (a * l2) \div t2
<1> DEFINE x == (a * l1) \div t1
           y == (a * l2) \div t2
           m1 == a * l1
           m2 == a * l2
<1>1. m1 \in Nat /\ m2 \in Nat OBVIOUS
<1>2. m1 * t2 <= m2 * t1
  <2>1. m1 * t2 = a * (l1 * t2) /\ m2 * t1 = a * (l2 * t1) OBVIOUS
  <2>2. l1 * t2 \in Nat /\ l2 * t1 \in Nat OBVIOUS
  <2> QED BY <2>1, <2>2
<1> HIDE DEF m1, m2
<1>3. x \in Nat /\ t1 * x <= m1 BY <1>1 DEF m1
<1>4. y \in Nat /\ m2 < t2 * y + t2 BY <1>1 DEF m2
<1> HIDE DEF x, y
<1>5. (t1 * x) * t2 <= m1 * t2 BY <1>1, <1>3
<1>6. m2 * t1 < (t2 * y + t2) * t1
  <2>1. t2 * y + t2 \in Nat BY <1>4
  <2> QED BY <1>1, <1>4, <2>1
<1>7. (t1 * x) * t2 = (t1 * t2) * x /\ (t2 * y + t2) * t1 = (t1 * t2) * (y + 1)
  BY <1>3, <1>4
<1>8. t1 * t2 \in Nat /\ t1 * t2 > 0 OBVIOUS
<1> DEFINE tt == t1 * t2
<1>9. tt * x < tt * (y + 1)
  <2>1. /\ (t1 * x) * t2 \in Nat /\ m1 * t2 \in Nat /\ m2 * t1 \in Nat
        /\ (t2 * y + t2) * t1 \in Nat
    BY <1>1, <1>3, <1>4
  <2> QED BY <1>2, <1>5, <1>6, <1>7, <2>1
<1> HIDE DEF tt
<1>10. tt \in Nat /\ tt > 0 BY <1>8 DEF tt
<1>11. x < y + 1 BY <1>3, <1>4, <1>9, <1>10
<1>12. x <= y BY <1>3, <1>4, <1>11
<1> QED BY <1>12 DEF x, y, m1, m2

(* A schedule's curve stays within the lockup amount, falls with time and,  *)
(* when the release shadows it, lies below the release curve.               *)
LEMMA UnvestedCurve ==
    ASSUME NEW s \in ScheduleType, Valid(s), NEW t \in Nat
    PROVE  /\ UnvestedAt(s, t) \in Nat /\ UnvestedAt(s, t) <= LockupAmount
           /\ UnvestedAt(s, t + 1) <= UnvestedAt(s, t)
<1>1. /\ s.start \in Nat /\ s.cliff \in Nat /\ s.end \in Nat /\ LockupAmount \in Nat
      /\ s.start <= s.cliff /\ s.cliff <= s.end /\ s.start < s.end
  BY AmountsAssumption DEF ScheduleType, Valid
<1>2. ASSUME NEW u \in Nat
      PROVE  UnvestedAt(s, u) \in Nat /\ UnvestedAt(s, u) <= LockupAmount
  <2>1. CASE u < s.cliff \/ u >= s.end BY <1>1, <2>1 DEF UnvestedAt
  <2>2. CASE ~(u < s.cliff \/ u >= s.end)
    <3> DEFINE left == s.end - u
               total == s.end - s.start
    <3>1. left \in Nat /\ total \in Nat /\ total > 0 /\ left <= total
      BY <1>1, <2>2
    <3>2. UnvestedAt(s, u) = (LockupAmount * left) \div total
      BY <1>1, <2>2 DEF UnvestedAt
    <3> HIDE DEF left, total
    <3> QED BY <1>1, <3>1, <3>2, PartOf
  <2> QED BY <2>1, <2>2
<1>3. UnvestedAt(s, t + 1) <= UnvestedAt(s, t)
  <2>1. CASE t < s.cliff
    <3>1. UnvestedAt(s, t) = LockupAmount BY <1>1, <2>1 DEF UnvestedAt
    <3> QED BY <1>2, <3>1
  <2>2. CASE t + 1 >= s.end /\ ~(t < s.cliff)
    <3>1. UnvestedAt(s, t + 1) = 0 BY <1>1, <2>2 DEF UnvestedAt
    <3>2. UnvestedAt(s, t) \in Nat BY <1>2
    <3> QED BY <3>1, <3>2
  <2>3. CASE ~(t < s.cliff) /\ ~(t + 1 >= s.end)
    <3> DEFINE l1 == s.end - (t + 1)
               l2 == s.end - t
               total == s.end - s.start
    <3>1. l1 \in Nat /\ l2 \in Nat /\ total \in Nat /\ total > 0 /\ l1 <= l2
      BY <1>1, <2>3
    <3>2. /\ UnvestedAt(s, t) = (LockupAmount * l2) \div total
          /\ UnvestedAt(s, t + 1) = (LockupAmount * l1) \div total
      BY <1>1, <2>3 DEF UnvestedAt
    <3> HIDE DEF l1, l2, total
    <3>3. l1 * total <= l2 * total BY <3>1
    <3> QED BY <1>1, <3>1, <3>2, <3>3, PartGrows
  <2> QED BY <2>1, <2>2, <2>3
<1> QED BY <1>2, <1>3

(* The same of the release curve, once the lockup has ended. *)
LEMMA ReleaseCurve ==
    ASSUME NEW tr \in TransfersType, NEW t \in Nat, Unlock(tr) <= t
    PROVE  /\ UnreleasedAt(tr, t) \in Nat /\ UnreleasedAt(tr, t) <= LockupAmount
           /\ UnreleasedAt(tr, t + 1) <= UnreleasedAt(tr, t)
           /\ Unlock(tr) \in Nat /\ FirstUnlock \in Nat /\ FirstUnlock <= Unlock(tr)
<1> DEFINE U == Unlock(tr)
           E == U + ReleaseDuration
<1>1. /\ LockupAmount \in Nat /\ ReleaseDuration \in Nat
      /\ LockupDuration \in Nat /\ LockupTimestamp \in Nat /\ tr.timestamp \in Nat
  BY AmountsAssumption DEF TransfersType
<1>2. U \in Nat /\ FirstUnlock \in Nat /\ FirstUnlock <= U
  BY <1>1 DEF Unlock, FirstUnlock, Larger
<1>3. U <= t OBVIOUS
<1>4. ASSUME NEW u \in Nat
      PROVE  UnreleasedAt(tr, u) = IF u >= E THEN 0
                                   ELSE (LockupAmount * (E - u)) \div ReleaseDuration
  BY DEF UnreleasedAt
<1> HIDE DEF U
<1>5. ASSUME NEW u \in Nat, U <= u
      PROVE  UnreleasedAt(tr, u) \in Nat /\ UnreleasedAt(tr, u) <= LockupAmount
  <2>1. CASE u >= E BY <1>1, <1>4, <2>1
  <2>2. CASE ~(u >= E)
    <3> DEFINE left == E - u
    <3>1. left \in Nat /\ ReleaseDuration > 0 /\ left <= ReleaseDuration
      BY <1>1, <1>2, <1>5, <2>2
    <3>2. UnreleasedAt(tr, u) = (LockupAmount * left) \div ReleaseDuration
      BY <1>4, <2>2
    <3> HIDE DEF left
    <3> QED BY <1>1, <3>1, <3>2, PartOf
  <2> QED BY <2>1, <2>2
<1>6. UnreleasedAt(tr, t + 1) <= UnreleasedAt(tr, t)
  <2>0. t + 1 \in Nat OBVIOUS
  <2>1. CASE t + 1 >= E
    <3>1. UnreleasedAt(tr, t + 1) = 0 BY <1>4, <2>0, <2>1
    <3>2. UnreleasedAt(tr, t) \in Nat BY <1>3, <1>5
    <3> QED BY <3>1, <3>2
  <2>2. CASE ~(t + 1 >= E)
    <3> DEFINE l1 == E - (t + 1)
               l2 == E - t
               total == ReleaseDuration
    <3>1. l1 \in Nat /\ l2 \in Nat /\ total \in Nat /\ total > 0 /\ l1 <= l2
      BY <1>1, <1>2, <1>3, <2>2
    <3>2. ~(t >= E) BY <1>1, <1>2, <2>2
    <3>3. /\ UnreleasedAt(tr, t) = (LockupAmount * l2) \div total
          /\ UnreleasedAt(tr, t + 1) = (LockupAmount * l1) \div total
      BY <1>4, <2>0, <2>2, <3>2
    <3> HIDE DEF l1, l2, total
    <3>4. l1 * total <= l2 * total BY <3>1
    <3> QED BY <1>1, <3>1, <3>3, <3>4, PartGrows
  <2> QED BY <2>1, <2>2
<1> QED BY <1>2, <1>3, <1>5, <1>6 DEF U

(* A shadowed schedule unlocks no later than the release. *)
LEMMA ShadowedCurve ==
    ASSUME NEW s \in ScheduleType, Valid(s), Shadowed(s),
           NEW tr \in TransfersType, NEW t \in Nat, Unlock(tr) <= t
    PROVE  UnvestedAt(s, t) <= UnreleasedAt(tr, t)
<1> DEFINE U == Unlock(tr)
           E == U + ReleaseDuration
<1>1. /\ LockupAmount \in Nat /\ ReleaseDuration \in Nat
      /\ s.start \in Nat /\ s.cliff \in Nat /\ s.end \in Nat
      /\ s.start <= s.cliff /\ s.cliff <= s.end /\ s.start < s.end
  BY AmountsAssumption DEF ScheduleType, Valid
<1>2. U \in Nat /\ FirstUnlock \in Nat /\ FirstUnlock <= U /\ U <= t
  BY ReleaseCurve
<1>3. s.cliff <= U /\ s.end <= E
  BY <1>1, <1>2 DEF Shadowed
<1>4. UnreleasedAt(tr, t) \in Nat BY ReleaseCurve
<1>5. UnreleasedAt(tr, t) = IF t >= E THEN 0
                            ELSE (LockupAmount * (E - t)) \div ReleaseDuration
  BY DEF UnreleasedAt
<1> HIDE DEF U
<1>6. CASE t >= s.end
  <2>1. UnvestedAt(s, t) = 0 BY <1>1, <1>6 DEF UnvestedAt
  <2> QED BY <1>4, <2>1
<1>7. CASE ~(t >= s.end)
  <2> DEFINE a == s.end - t
             b == U - s.start
             c == t - U
             d == E - s.end
             l2 == E - t
             t1 == s.end - s.start
  <2>1. /\ a \in Nat /\ b \in Nat /\ c \in Nat /\ d \in Nat /\ a > 0
        /\ l2 = a + d /\ t1 = (a + c) + b /\ ReleaseDuration = (a + c) + d
    BY <1>1, <1>2, <1>3, <1>7
  <2>2. UnvestedAt(s, t) = (LockupAmount * a) \div t1
    BY <1>1, <1>2, <1>3, <1>7 DEF UnvestedAt
  <2>3. UnreleasedAt(tr, t) = (LockupAmount * l2) \div ReleaseDuration
    BY <1>1, <1>2, <1>3, <1>5, <1>7
  <2> HIDE DEF a, b, c, d, l2, t1
  <2>4. a * ((a + c) + d) <= (a + d) * ((a + c) + b)
    <3>1. a * ((a + c) + d) = (a * a + a * c) + a * d BY <2>1
    <3>2. (a + d) * ((a + c) + b) = ((a * a + a * c) + a * b) + ((d * a + d * c) + d * b)
      BY <2>1
    <3>3. /\ a * a \in Nat /\ a * c \in Nat /\ a * d \in Nat /\ a * b \in Nat
          /\ d * a \in Nat /\ d * c \in Nat /\ d * b \in Nat /\ d * a = a * d
      BY <2>1
    <3> QED BY <3>1, <3>2, <3>3
  <2>5. /\ l2 \in Nat /\ t1 \in Nat /\ t1 > 0 /\ ReleaseDuration > 0
        /\ a * ReleaseDuration <= l2 * t1
    BY <2>1, <2>4
  <2> QED BY <1>1, <2>1, <2>2, <2>3, <2>5, PartGrows
<1> QED BY <1>6, <1>7

(* The arithmetic of what is locked. *)
LEMMA HigherOf ==
    ASSUME NEW u \in Nat, NEW w \in Nat, NEW y \in Nat
    PROVE  /\ Larger(SatSub(u, w), y) \in Nat
           /\ y <= Larger(SatSub(u, w), y)
           /\ \A a \in Nat : w <= a /\ u <= a /\ y <= a - w =>
                    Larger(SatSub(u, w), y) <= a - w
           /\ w = 0 => u <= Larger(SatSub(u, w), y)
           /\ \A u2 \in Nat, y2 \in Nat :
                    u2 <= u /\ y2 <= y => Larger(SatSub(u2, w), y2) <= Larger(SatSub(u, w), y)
           /\ \A x \in Nat : x <= Larger(SatSub(u, w), y) =>
                    Larger(SatSub(u, w), x) <= Larger(SatSub(u, w), y)
           /\ \A m \in Nat : m <= y =>
                    Larger(SatSub(u, w + m), y - m) <= Larger(SatSub(u, w), y) - m
BY DEF Larger, SatSub

(* What is locked, of terms the contract can be in: at least what is        *)
(* unvested, at most what was not withdrawn.                                *)
LEMMA LockedBounds ==
    ASSUME NEW tr \in TransfersType, NEW w \in Nat, NEW v \in VestingType, NEW t \in Nat,
           Terms(tr, w, v, t)
    PROVE  /\ LockedAt(tr, w, v, t) \in Nat
           /\ LockedAt(tr, w, v, t) <= LockupAmount - w
           /\ UnvestedOf(v, t) \in Nat
           /\ UnvestedOf(v, t) <= LockedAt(tr, w, v, t)
<1>1. /\ tr \in TransfersType /\ w \in Nat /\ v \in VestingType /\ t \in Nat
      /\ w <= LockupAmount /\ LockupAmount \in Nat
      /\ v.schedule \in ScheduleType /\ v.unvested \in Nat
      /\ v.kind \in {"None", "VestingHash", "VestingSchedule", "Terminating"}
  BY AmountsAssumption DEF Terms, VestingType
<1>2. UnvestedOf(v, t) \in Nat /\ UnvestedOf(v, t) <= LockupAmount - w
  <2>1. CASE v.kind = "Terminating"
    BY <1>1, <2>1 DEF Terms, UnvestedOf
  <2>2. CASE v.kind = "None"
    BY <1>1, <2>2 DEF UnvestedOf
  <2>3. CASE v.kind \in {"VestingHash", "VestingSchedule"}
    <3>1. Valid(v.schedule) /\ w = 0 BY <2>3 DEF Terms
    <3>2. UnvestedOf(v, t) = UnvestedAt(v.schedule, t) BY <2>3 DEF UnvestedOf
    <3>3. UnvestedAt(v.schedule, t) \in Nat /\ UnvestedAt(v.schedule, t) <= LockupAmount
      BY <1>1, <3>1, UnvestedCurve
    <3> QED BY <1>1, <3>1, <3>2, <3>3
  <2> QED BY <1>1, <2>1, <2>2, <2>3
<1>3. CASE ~(tr.enabled /\ Unlock(tr) <= t)
  <2> DEFINE L == LockedAt(tr, w, v, t)
             x == UnvestedOf(v, t)
  <2>1. L = LockupAmount - w BY <1>3 DEF LockedAt
  <2>2. LockupAmount - w \in Nat /\ LockupAmount - w <= LockupAmount - w BY <1>1
  <2>3. x \in Nat /\ x <= LockupAmount - w BY <1>2
  <2> HIDE DEF L, x
  <2>4. L \in Nat /\ L <= LockupAmount - w /\ x \in Nat /\ x <= L BY <2>1, <2>2, <2>3
  <2> QED BY <2>4 DEF L, x
<1>4. CASE tr.enabled /\ Unlock(tr) <= t
  <2> DEFINE u == UnreleasedAt(tr, t)
             x == UnvestedOf(v, t)
             y == Visible(v, t)
  <2>1. LockedAt(tr, w, v, t) = Larger(SatSub(u, w), y) BY <1>4 DEF LockedAt
  <2>2. u \in Nat /\ u <= LockupAmount BY <1>1, <1>4, ReleaseCurve
  <2>3. y = x \/ (y = 0 /\ (x = 0 \/ (x <= u /\ w = 0)))
    <3>1. CASE v.kind \in {"VestingSchedule", "Terminating"} BY <3>1 DEF Visible
    <3>2. CASE v.kind = "None" BY <3>2 DEF Visible, UnvestedOf
    <3>3. CASE v.kind = "VestingHash"
      <4>1. Valid(v.schedule) /\ Shadowed(v.schedule) /\ w = 0 BY <3>3 DEF Terms
      <4>2. y = 0 /\ x = UnvestedAt(v.schedule, t) BY <3>3 DEF Visible, UnvestedOf
      <4> HIDE DEF x, y
      <4> QED BY <1>1, <1>4, <4>1, <4>2, ShadowedCurve
    <3> QED BY <1>1, <3>1, <3>2, <3>3
  <2>4. x \in Nat /\ x <= LockupAmount - w BY <1>2
  <2> DEFINE L == LockedAt(tr, w, v, t)
  <2>5. L = Larger(SatSub(u, w), y) BY <2>1
  <2> HIDE DEF u, x, y, L
  <2>6. L \in Nat /\ L <= LockupAmount - w /\ x <= L
    <3>1. y \in Nat /\ y <= LockupAmount - w BY <1>1, <2>3, <2>4
    <3>2. u <= LockupAmount /\ w <= LockupAmount /\ LockupAmount \in Nat BY <1>1, <2>2
    <3>3. L \in Nat /\ L <= LockupAmount - w /\ y <= L
      BY <2>2, <2>5, <3>1, <3>2, HigherOf
    <3>4. w = 0 => u <= L BY <2>2, <2>5, <3>1, HigherOf
    <3>5. CASE y = x BY <3>3, <3>5
    <3>6. CASE x = 0 BY <3>3, <3>6
    <3>7. CASE x <= u /\ w = 0 BY <2>2, <2>4, <3>3, <3>4, <3>7
    <3> QED BY <2>3, <3>3, <3>5, <3>6, <3>7
  <2> QED BY <2>4, <2>6 DEF x, L
<1> QED BY <1>3, <1>4

(* Time only unlocks. *)
LEMMA LockedByTime ==
    ASSUME NEW tr \in TransfersType, NEW w \in Nat, NEW v \in VestingType, NEW t \in Nat,
           Terms(tr, w, v, t)
    PROVE  Terms(tr, w, v, t + 1) /\ LockedAt(tr, w, v, t + 1) <= LockedAt(tr, w, v, t)
<1>1. /\ tr \in TransfersType /\ w \in Nat /\ v \in VestingType /\ t \in Nat /\ t + 1 \in Nat
      /\ w <= LockupAmount /\ LockupAmount \in Nat
      /\ v.schedule \in ScheduleType /\ v.unvested \in Nat
      /\ v.kind \in {"None", "VestingHash", "VestingSchedule", "Terminating"}
  BY AmountsAssumption DEF Terms, VestingType
<1>2. Terms(tr, w, v, t + 1) BY <1>1 DEF Terms
<1>3. /\ LockedAt(tr, w, v, t) \in Nat /\ LockedAt(tr, w, v, t + 1) \in Nat
      /\ LockedAt(tr, w, v, t + 1) <= LockupAmount - w
      /\ UnvestedOf(v, t) \in Nat /\ UnvestedOf(v, t + 1) \in Nat
  BY <1>2, LockedBounds
<1>4. CASE ~(tr.enabled /\ Unlock(tr) <= t)
  <2>1. LockedAt(tr, w, v, t) = LockupAmount - w BY <1>4 DEF LockedAt
  <2>2. LockedAt(tr, w, v, t + 1) <= LockupAmount - w BY <1>3
  <2> QED BY <1>2, <2>1, <2>2
<1>5. CASE tr.enabled /\ Unlock(tr) <= t
  <2> DEFINE u == UnreleasedAt(tr, t)
             u2 == UnreleasedAt(tr, t + 1)
             y == Visible(v, t)
             y2 == Visible(v, t + 1)
  <2>0. Unlock(tr) \in Nat /\ Unlock(tr) <= t + 1
    <3>1. Unlock(tr) \in Nat BY <1>1, <1>5, ReleaseCurve
    <3> QED BY <1>1, <1>5, <3>1
  <2>1. /\ LockedAt(tr, w, v, t) = Larger(SatSub(u, w), y)
        /\ LockedAt(tr, w, v, t + 1) = Larger(SatSub(u2, w), y2)
    BY <1>5, <2>0 DEF LockedAt
  <2>2. u \in Nat /\ u2 \in Nat /\ u2 <= u BY <1>1, <1>5, <2>0, ReleaseCurve
  <2>3. y \in Nat /\ y2 \in Nat /\ y2 <= y
    <3>1. y \in Nat /\ y2 \in Nat BY <1>3 DEF Visible
    <3>2. CASE v.kind \in {"VestingHash", "None"} BY <3>2 DEF Visible
    <3>3. CASE v.kind = "Terminating" BY <3>1, <3>3 DEF Visible, UnvestedOf
    <3>4. CASE v.kind = "VestingSchedule"
      <4>1. Valid(v.schedule) BY <3>4 DEF Terms
      <4>2. y = UnvestedAt(v.schedule, t) /\ y2 = UnvestedAt(v.schedule, t + 1)
        BY <3>4 DEF Visible, UnvestedOf
      <4> HIDE DEF y, y2
      <4> QED BY <1>1, <3>1, <4>1, <4>2, UnvestedCurve
    <3> QED BY <1>1, <3>1, <3>2, <3>3, <3>4
  <2> HIDE DEF u, u2, y, y2
  <2>4. Larger(SatSub(u2, w), y2) <= Larger(SatSub(u, w), y)
    BY <1>1, <2>2, <2>3, HigherOf
  <2> QED BY <1>2, <2>1, <2>4
<1> QED BY <1>2, <1>4, <1>5

(* The vote only unlocks: before it everything is locked. *)
LEMMA LockedByVote ==
    ASSUME NEW tr \in TransfersType, NEW w \in Nat, NEW v \in VestingType, NEW t \in Nat,
           Terms(tr, w, v, t), ~tr.enabled,
           NEW tr2 \in TransfersType
    PROVE  Terms(tr2, w, v, t) /\ LockedAt(tr2, w, v, t) <= LockedAt(tr, w, v, t)
<1>1. Terms(tr2, w, v, t) BY DEF Terms
<1>2. LockedAt(tr, w, v, t) = LockupAmount - w BY DEF LockedAt
<1> QED BY <1>1, <1>2, LockedBounds

(* The termination of a schedule locks what it finds locked. *)
LEMMA LockedByTermination ==
    ASSUME NEW tr \in TransfersType, NEW w \in Nat, NEW v \in VestingType, NEW t \in Nat,
           Terms(tr, w, v, t),
           v.kind \in {"VestingHash", "VestingSchedule"},
           NEW v2 \in VestingType, v2.kind = "Terminating", v2.unvested = UnvestedOf(v, t)
    PROVE  Terms(tr, w, v2, t) /\ LockedAt(tr, w, v2, t) <= LockedAt(tr, w, v, t)
<1>1. /\ LockedAt(tr, w, v, t) \in Nat /\ LockedAt(tr, w, v, t) <= LockupAmount - w
      /\ UnvestedOf(v, t) \in Nat /\ UnvestedOf(v, t) <= LockedAt(tr, w, v, t)
  BY LockedBounds
<1>2. /\ tr \in TransfersType /\ w \in Nat /\ t \in Nat /\ w <= LockupAmount
      /\ LockupAmount \in Nat
  BY AmountsAssumption DEF Terms
<1>3. w + v2.unvested <= LockupAmount
  <2>1. UnvestedOf(v, t) <= LockupAmount - w BY <1>1, <1>2
  <2> QED BY <1>1, <1>2, <2>1
<1>4. Terms(tr, w, v2, t) BY <1>2, <1>3 DEF Terms
<1>5. CASE ~(tr.enabled /\ Unlock(tr) <= t)
  <2>1. LockedAt(tr, w, v2, t) = LockedAt(tr, w, v, t) BY <1>5 DEF LockedAt
  <2>2. LockedAt(tr, w, v, t) \in Nat BY <1>1
  <2> QED BY <1>4, <2>1, <2>2
<1>6. CASE tr.enabled /\ Unlock(tr) <= t
  <2> DEFINE u == UnreleasedAt(tr, t)
             x == UnvestedOf(v, t)
             y == Visible(v, t)
  <2>1. /\ LockedAt(tr, w, v, t) = Larger(SatSub(u, w), y)
        /\ LockedAt(tr, w, v2, t) = Larger(SatSub(u, w), x)
    BY <1>6 DEF LockedAt, Visible, UnvestedOf
  <2>2. u \in Nat /\ y \in Nat BY <1>1, <1>2, <1>6, ReleaseCurve DEF Visible
  <2>3. x \in Nat /\ x <= Larger(SatSub(u, w), y) BY <1>1, <2>1
  <2> HIDE DEF u, x, y
  <2>4. Larger(SatSub(u, w), x) <= Larger(SatSub(u, w), y)
    BY <1>2, <2>2, <2>3, HigherOf
  <2> QED BY <1>4, <2>1, <2>4
<1> QED BY <1>4, <1>5, <1>6

(* Paying m of the unvested tokens unlocks m. *)
LEMMA LockedByPayment ==
    ASSUME NEW tr \in TransfersType, NEW w \in Nat, NEW v \in VestingType, NEW t \in Nat,
           Terms(tr, w, v, t), v.kind = "Terminating",
           NEW m \in Nat, m <= v.unvested, NEW v2 \in VestingType,
           \/ v2.kind = "Terminating" /\ v2.unvested = v.unvested - m
           \/ v2.kind = "None" /\ m = v.unvested
    PROVE  /\ Terms(tr, w + m, v2, t)
           /\ LockedAt(tr, w + m, v2, t) <= LockedAt(tr, w, v, t) - m
<1>1. /\ tr \in TransfersType /\ w \in Nat /\ t \in Nat /\ w <= LockupAmount
      /\ LockupAmount \in Nat /\ v.unvested \in Nat /\ v2.unvested \in Nat
      /\ w + v.unvested <= LockupAmount
  BY AmountsAssumption DEF Terms, VestingType
<1>2. Terms(tr, w + m, v2, t) BY <1>1 DEF Terms
<1>3. CASE ~(tr.enabled /\ Unlock(tr) <= t)
  <2>1. /\ LockedAt(tr, w, v, t) = LockupAmount - w
        /\ LockedAt(tr, w + m, v2, t) = LockupAmount - (w + m)
    BY <1>3 DEF LockedAt
  <2>2. LockupAmount - (w + m) <= (LockupAmount - w) - m BY <1>1
  <2> QED BY <1>2, <2>1, <2>2
<1>4. CASE tr.enabled /\ Unlock(tr) <= t
  <2> DEFINE u == UnreleasedAt(tr, t)
             n == v.unvested
             y2 == Visible(v2, t)
  <2>1. /\ LockedAt(tr, w, v, t) = Larger(SatSub(u, w), n)
        /\ LockedAt(tr, w + m, v2, t) = Larger(SatSub(u, w + m), y2)
    BY <1>4 DEF LockedAt, Visible, UnvestedOf
  <2>2. u \in Nat BY <1>1, <1>4, ReleaseCurve
  <2>3. n \in Nat /\ m <= n /\ y2 = n - m
    BY <1>1 DEF Visible, UnvestedOf
  <2> HIDE DEF u, n, y2
  <2>4. Larger(SatSub(u, w + m), y2) <= Larger(SatSub(u, w), n) - m
    BY <1>1, <2>2, <2>3, HigherOf
  <2> QED BY <1>2, <2>1, <2>4
<1> QED BY <1>2, <1>3, <1>4

(* A change of the status changes nothing that is locked. *)
LEMMA LockedByStatus ==
    ASSUME NEW tr \in TransfersType, NEW w \in Nat, NEW v \in VestingType, NEW t \in Nat,
           Terms(tr, w, v, t), v.kind = "Terminating",
           NEW v2 \in VestingType, v2.kind = "Terminating", v2.unvested = v.unvested
    PROVE  Terms(tr, w, v2, t) /\ LockedAt(tr, w, v2, t) = LockedAt(tr, w, v, t)
BY DEF Terms, LockedAt, Visible, UnvestedOf

----------------------------------------------------------------------------
(* What is locked only falls. *)

(* A private schedule in force is shadowed. *)
ShadowedNow == vesting.kind = "VestingHash" => Shadowed(vesting.schedule)

(* The end of a payment of m tokens to the foundation, as the terms see it. *)
PaidMove(m) ==
    /\ vesting.kind = "Terminating" /\ m <= vesting.unvested /\ withdrawn' = withdrawn + m
    /\ \/ vesting'.kind = "Terminating" /\ vesting'.unvested = vesting.unvested - m
       \/ vesting'.kind = "None" /\ m = vesting.unvested
    /\ UNCHANGED <<transfers, now>>

(* How a step may change the terms. *)
TermsMove ==
    \/ UNCHANGED <<transfers, withdrawn, vesting, now>>
    \/ now' = now + 1 /\ UNCHANGED <<transfers, withdrawn, vesting>>
    \/ ~transfers.enabled /\ UNCHANGED <<withdrawn, vesting, now>>
    \/ /\ vesting.kind \in {"VestingHash", "VestingSchedule"}
       /\ vesting'.kind = "Terminating"
       /\ vesting'.unvested = get_unvested_amount(vesting.schedule)
       /\ get_unvested_amount(vesting.schedule) > 0
       /\ UNCHANGED <<transfers, withdrawn, now>>
    \/ /\ vesting.kind = "Terminating" /\ vesting'.kind = "Terminating"
       /\ vesting'.unvested = vesting.unvested
       /\ UNCHANGED <<transfers, withdrawn, now>>
    \/ \E m \in Nat : PaidMove(m)

(* The end of a payment. *)
LEMMA PaidTerms ==
    ASSUME IInv, NEW i \in Ids, on_withdraw_unvested_amount(i)
    PROVE  PaidMove(IF promises[i].ok THEN promises[i].amount ELSE 0)
<1> DEFINE amount == promises[i].amount
<1>1. /\ vesting \in VestingType /\ amount \in Nat /\ withdrawn \in Nat
      /\ vesting.unvested \in Nat
  BY DEF IInv, TypeOK, PromiseType, VestingType
<1>2. promises[i].op \in TerminationOps /\ promises[i].op = "withdraw_unvested"
  BY OpFacts DEF on_withdraw_unvested_amount, Callback
<1>3. vesting.kind = "Terminating" /\ amount <= vesting.unvested
  BY <1>2 DEF IInv, TerminationLock
<1>4. UNCHANGED <<transfers, now>> BY DEF on_withdraw_unvested_amount, world
<1>5. CASE promises[i].ok /\ vesting.unvested <= amount
  <2>1. vesting' = Vesting("None", NoSchedule) /\ withdrawn' = withdrawn + amount
    BY <1>5 DEF on_withdraw_unvested_amount
  <2>2. vesting'.kind = "None" BY <2>1 DEF Vesting
  <2>3. amount = vesting.unvested BY <1>1, <1>3, <1>5
  <2> QED BY <1>3, <1>4, <1>5, <2>1, <2>2, <2>3 DEF PaidMove
<1>6. CASE promises[i].ok /\ ~(vesting.unvested <= amount)
  <2>1. /\ vesting' = [vesting EXCEPT !.unvested = vesting.unvested - amount,
                                      !.status = "ReadyToWithdraw"]
        /\ withdrawn' = withdrawn + amount
    BY <1>1, <1>6 DEF on_withdraw_unvested_amount, VestingType
  <2>2. vesting'.kind = "Terminating" /\ vesting'.unvested = vesting.unvested - amount
    BY <1>1, <1>3, <2>1 DEF VestingType
  <2> QED BY <1>3, <1>4, <1>6, <2>1, <2>2 DEF PaidMove
<1>7. CASE ~promises[i].ok
  <2>1. /\ vesting' = [vesting EXCEPT !.unvested = vesting.unvested,
                                      !.status = "ReadyToWithdraw"]
        /\ withdrawn' = withdrawn
    BY <1>1, <1>7 DEF on_withdraw_unvested_amount, VestingType
  <2>2. vesting'.kind = "Terminating" /\ vesting'.unvested = vesting.unvested
    BY <1>1, <1>3, <2>1 DEF VestingType
  <2>3. /\ 0 <= vesting.unvested /\ vesting.unvested = vesting.unvested - 0
        /\ withdrawn' = withdrawn + 0
    BY <1>1, <2>1
  <2> QED BY <1>3, <1>4, <1>7, <2>2, <2>3 DEF PaidMove
<1> QED BY <1>5, <1>6, <1>7

(* The status of a termination is all that its operations write.            *)
LEMMA StatusMove ==
    ASSUME IInv, NEW status, set_termination_status(status),
           UNCHANGED <<transfers, withdrawn, now>>
    PROVE  TermsMove
<1>1. vesting \in VestingType BY DEF IInv, TypeOK
<1>2. vesting.kind = "Terminating" /\ vesting' = [vesting EXCEPT !.status = status]
  BY DEF set_termination_status, Terminating
<1>3. vesting'.kind = "Terminating" /\ vesting'.unvested = vesting.unvested
  BY <1>1, <1>2 DEF VestingType
<1> QED BY <1>2, <1>3 DEF TermsMove

(* How each of the callbacks changes the terms. *)
LEMMA TermsCallback ==
    ASSUME IInv, NEW i \in Ids, Callbacks(i)
    PROVE  TermsMove
<1>1. CASE on_withdraw_unvested_amount(i)
  <2>1. (IF promises[i].ok THEN promises[i].amount ELSE 0) \in Nat
    BY DEF IInv, TypeOK, PromiseType
  <2> QED BY <1>1, <2>1, PaidTerms DEF TermsMove
<1>2. CASE on_get_result_from_transfer_poll(i)
  BY <1>2 DEF on_get_result_from_transfer_poll, TermsMove, world
<1>3. CASE \/ on_whitelist_is_whitelisted(i)
           \/ on_staking_pool_deposit(i)
           \/ on_staking_pool_deposit_and_stake(i)
           \/ on_staking_pool_withdraw(i)
           \/ on_staking_pool_stake(i)
           \/ on_staking_pool_unstake(i)
           \/ on_staking_pool_unstake_all(i)
           \/ ViewFailed(i)
           \/ on_get_account_total_balance(i)
           \/ on_get_account_unstaked_balance_to_withdraw_by_owner(i)
  BY <1>3 DEF on_whitelist_is_whitelisted, on_staking_pool_deposit,
     on_staking_pool_deposit_and_stake, on_staking_pool_withdraw, on_staking_pool_stake,
     on_staking_pool_unstake, on_staking_pool_unstake_all, ViewFailed,
     on_get_account_total_balance, on_get_account_unstaked_balance_to_withdraw_by_owner,
     DepositCallback, ReleaseLock, CallbackUnchanged, world, TermsMove
<1>4. CASE \/ on_get_account_staked_balance_to_unstake(i)
           \/ on_staking_pool_unstake_for_termination(i)
           \/ on_get_account_unstaked_balance_to_withdraw(i)
           \/ on_staking_pool_withdraw_for_termination(i)
  <2>1. UNCHANGED <<transfers, withdrawn, now>>
    BY <1>4 DEF on_get_account_staked_balance_to_unstake,
       on_staking_pool_unstake_for_termination, on_get_account_unstaked_balance_to_withdraw,
       on_staking_pool_withdraw_for_termination, CallbackUnchanged, world
  <2>2. UNCHANGED vesting \/ \E status : set_termination_status(status)
    BY <1>4 DEF on_get_account_staked_balance_to_unstake,
       on_staking_pool_unstake_for_termination, on_get_account_unstaked_balance_to_withdraw,
       on_staking_pool_withdraw_for_termination
  <2> QED BY <2>1, <2>2, StatusMove DEF TermsMove
<1> QED BY <1>1, <1>2, <1>3, <1>4 DEF Callbacks

(* How the foundation's methods change the terms. *)
LEMMA TermsFoundation ==
    ASSUME IInv, FoundationMethods
    PROVE  TermsMove
<1>1. CASE terminate_vesting
  <2> DEFINE u == get_unvested_amount(vesting.schedule)
  <2>1. vesting \in VestingType BY DEF IInv, TypeOK
  <2>2. /\ vesting.kind \in {"VestingHash", "VestingSchedule"} /\ u > 0
        /\ UNCHANGED <<transfers, withdrawn, now>>
    BY <1>1 DEF terminate_vesting, world
  <2>3. PICK status : vesting' = [vesting EXCEPT !.kind = "Terminating", !.unvested = u,
                                                 !.status = status]
    BY <1>1 DEF terminate_vesting
  <2> HIDE DEF u
  <2>4. vesting'.kind = "Terminating" /\ vesting'.unvested = u
    BY <2>1, <2>3 DEF VestingType
  <2> QED BY <2>2, <2>4 DEF TermsMove, u
<1>2. CASE termination_prepare_to_withdraw
  BY <1>2, StatusMove DEF termination_prepare_to_withdraw, PrepareStep, world
<1>3. CASE termination_withdraw
  BY <1>3, StatusMove DEF termination_withdraw, world
<1> QED BY <1>1, <1>2, <1>3 DEF FoundationMethods

(* Every other step leaves the terms alone, but for time. *)
LEMMA TermsStep ==
    ASSUME IInv, [Next]_vars
    PROVE  TermsMove
<1>1. CASE OwnerMethods
  BY <1>1 DEF OwnerMethods, select_staking_pool, unselect_staking_pool,
     deposit_to_staking_pool, deposit_and_stake, withdraw_from_staking_pool, stake, unstake,
     transfer, refresh_staking_pool_balance, withdraw_all_from_staking_pool, unstake_all,
     check_transfers_vote, add_full_access_key, Deposit, PoolOperation, contract, world,
     TermsMove
<1>2. CASE FoundationMethods BY <1>2, TermsFoundation
<1>3. ASSUME NEW i \in Ids, Callbacks(i) \/ Executions(i)
      PROVE  TermsMove
  <2>1. CASE Callbacks(i) BY <2>1, TermsCallback
  <2>2. CASE Executions(i)
    BY <2>2 DEF Executions, PoolExecutes, PoolFails, ViewExecutes, PollExecutes,
       WhitelistExecutes, TransferExecutes, contract, world, TermsMove
  <2> QED BY <1>3, <2>1, <2>2
<1>4. CASE \/ \E m \in 1 .. incoming : Arrive(m)
           \/ \E p \in Pools : PoolReward(p)
           \/ VoteTransfers
           \/ Tick
  BY <1>4 DEF Arrive, PoolReward, VoteTransfers, Tick, contract, world, TermsMove
<1>5. CASE UNCHANGED vars BY <1>5 DEF vars, contract, world, TermsMove
<1> QED BY <1>1, <1>2, <1>3, <1>4, <1>5 DEF Next

(* The terms of a reachable state. *)
LEMMA TermsNow ==
    ASSUME IInv, ShadowedNow
    PROVE  /\ transfers \in TransfersType /\ withdrawn \in Nat /\ vesting \in VestingType
           /\ now \in Nat
           /\ Terms(transfers, withdrawn, vesting, now)
BY DEF IInv, TypeOK, ClaimBound, ShadowedNow, Terms

(* The locked amount of the next state is a natural number too. *)
LEMMA LockedIsNatNext ==
    ASSUME IInv', ShadowedNow'
    PROVE  get_locked_amount' \in Nat
<1>1. /\ transfers' \in TransfersType /\ withdrawn' \in Nat /\ vesting' \in VestingType
      /\ now' \in Nat
      /\ Terms(transfers', withdrawn', vesting', now')
  BY DEF IInv, TypeOK, ClaimBound, Valid, ShadowedNow, Terms, Shadowed, FirstUnlock
<1>2. LockedAt(transfers', withdrawn', vesting', now') \in Nat BY <1>1, LockedBounds
<1> QED BY <1>2, Getters

(* A payment unlocks what it pays. *)
LEMMA LockedByPaid ==
    ASSUME IInv, IInv', ShadowedNow, NEW m \in Nat, PaidMove(m)
    PROVE  get_locked_amount' <= get_locked_amount - m
<1>1. vesting' \in VestingType BY DEF IInv, TypeOK
<1>2. LockedAt(transfers, withdrawn + m, vesting', now) <=
        LockedAt(transfers, withdrawn, vesting, now) - m
  BY <1>1, TermsNow, LockedByPayment DEF PaidMove
<1> QED BY <1>2, Getters DEF PaidMove

(* No step locks tokens again, and none brings a private schedule that is   *)
(* not shadowed.                                                            *)
LEMMA LockedFalls ==
    ASSUME IInv, IInv', ShadowedNow, TermsMove
    PROVE  ShadowedNow' /\ get_locked_amount' <= get_locked_amount
<1>1. /\ transfers' \in TransfersType /\ vesting' \in VestingType
      /\ get_locked_amount \in Nat
  BY LockedIsNat DEF IInv, TypeOK
<1>2. CASE UNCHANGED <<transfers, withdrawn, vesting, now>>
  <2>1. get_locked_amount' = get_locked_amount BY <1>2, Getters
  <2> QED BY <1>1, <1>2, <2>1 DEF ShadowedNow, Shadowed, FirstUnlock
<1>3. CASE now' = now + 1 /\ UNCHANGED <<transfers, withdrawn, vesting>>
  <2>1. get_locked_amount' <= get_locked_amount
    BY <1>3, TermsNow, LockedByTime, Getters
  <2> QED BY <1>3, <2>1 DEF ShadowedNow, Shadowed, FirstUnlock
<1>4. CASE ~transfers.enabled /\ UNCHANGED <<withdrawn, vesting, now>>
  <2>1. get_locked_amount' <= get_locked_amount
    BY <1>1, <1>4, TermsNow, LockedByVote, Getters
  <2> QED BY <1>4, <2>1 DEF ShadowedNow, Shadowed, FirstUnlock
<1>5. CASE /\ vesting.kind \in {"VestingHash", "VestingSchedule"}
           /\ vesting'.kind = "Terminating"
           /\ vesting'.unvested = get_unvested_amount(vesting.schedule)
           /\ UNCHANGED <<transfers, withdrawn, now>>
  <2>1. get_locked_amount' <= get_locked_amount
    BY <1>1, <1>5, TermsNow, LockedByTermination, Getters
  <2> QED BY <1>5, <2>1 DEF ShadowedNow
<1>6. CASE /\ vesting.kind = "Terminating" /\ vesting'.kind = "Terminating"
           /\ vesting'.unvested = vesting.unvested
           /\ UNCHANGED <<transfers, withdrawn, now>>
  <2>1. get_locked_amount' = get_locked_amount
    BY <1>1, <1>6, TermsNow, LockedByStatus, Getters
  <2> QED BY <1>1, <1>6, <2>1 DEF ShadowedNow
<1>7. ASSUME NEW m \in Nat, PaidMove(m)
      PROVE  ShadowedNow' /\ get_locked_amount' <= get_locked_amount
  <2>1. get_locked_amount' <= get_locked_amount - m BY <1>7, LockedByPaid
  <2>0. ShadowedNow' BY <1>7 DEF ShadowedNow, PaidMove
  <2>2. get_locked_amount' \in Nat BY <2>0, LockedIsNatNext
  <2>3. get_locked_amount' <= get_locked_amount BY <1>1, <2>1, <2>2
  <2> QED BY <1>7, <2>3 DEF ShadowedNow, PaidMove
<1> QED BY <1>2, <1>3, <1>4, <1>5, <1>6, <1>7 DEF TermsMove

(* A full access key is added only when nothing is locked; then nothing is  *)
(* left to terminate.                                                       *)
LEMMA KeyStep ==
    ASSUME IInv, IInv', ShadowedNow, ShadowedNow', TermsMove,
           get_locked_amount' <= get_locked_amount, FullKeyOnlyWhenFree, [Next]_vars
    PROVE  FullKeyOnlyWhenFree'
<1> SUFFICES ASSUME fullKey'
             PROVE  get_locked_amount' = 0 /\ ~Terminating'
  BY DEF FullKeyOnlyWhenFree
<1>1. get_locked_amount = 0 /\ ~Terminating
  <2>1. fullKey \/ add_full_access_key
    BY DEF Next, OwnerMethods, FoundationMethods, Callbacks, Executions,
       select_staking_pool, unselect_staking_pool,
       deposit_to_staking_pool, deposit_and_stake, withdraw_from_staking_pool, stake,
       unstake, transfer, refresh_staking_pool_balance, withdraw_all_from_staking_pool,
       unstake_all, check_transfers_vote, Deposit, PoolOperation,
       terminate_vesting, termination_prepare_to_withdraw, termination_withdraw,
       on_whitelist_is_whitelisted, on_staking_pool_deposit,
       on_staking_pool_deposit_and_stake, on_staking_pool_withdraw, on_staking_pool_stake,
       on_staking_pool_unstake, on_staking_pool_unstake_all,
       on_get_result_from_transfer_poll, ViewFailed, on_get_account_total_balance,
       on_get_account_unstaked_balance_to_withdraw_by_owner,
       on_get_account_staked_balance_to_unstake, on_staking_pool_unstake_for_termination,
       on_get_account_unstaked_balance_to_withdraw,
       on_staking_pool_withdraw_for_termination, on_withdraw_unvested_amount,
       DepositCallback, ReleaseLock, CallbackUnchanged,
       PoolExecutes, PoolFails, ViewExecutes, PollExecutes, WhitelistExecutes,
       TransferExecutes, Arrive, PoolReward, VoteTransfers, Tick, vars
  <2> QED BY <2>1 DEF FullKeyOnlyWhenFree, add_full_access_key, assert_no_termination
<1>2. get_locked_amount' = 0
  <2>1. get_locked_amount' \in Nat BY LockedIsNatNext
  <2> QED BY <1>1, <2>1
<1>3. ~(get_unvested_amount(vesting.schedule) > 0)
  <2>1. /\ UnvestedOf(vesting, now) \in Nat
        /\ UnvestedOf(vesting, now) <= LockedAt(transfers, withdrawn, vesting, now)
    BY TermsNow, LockedBounds
  <2> QED BY <1>1, <2>1, Getters
<1>4. ~Terminating'
  BY <1>1, <1>3 DEF TermsMove, PaidMove, Terminating
<1> QED BY <1>2, <1>4

----------------------------------------------------------------------------
(* The tokens of the account and of its pool cover what is locked. *)

(* What a pool holds of the lockup contract's tokens. *)
Held(b) == b.staked + b.unstaked

(* The known deposit once the operation in flight is answered, as the pool  *)
(* already has it; and a deposit that the pool has not seen yet.            *)
AtPool(q, d) ==
    CASE ~(q.stage = "callback" /\ q.ok) -> d
      [] q.stage = "callback" /\ q.ok /\ q.op \in DepositOps -> d + q.amount
      [] q.stage = "callback" /\ q.ok /\ q.op \in WithdrawOps -> SatSub(d, q.amount)
      [] q.stage = "callback" /\ q.ok /\ q.op = "total" -> q.amount
      [] OTHER -> d
OnTheWay(q) == IF q.op \in DepositOps /\ q.stage = "call" THEN q.amount ELSE 0

(* What a payment in flight still takes from the locked amount. *)
Owed(q) == IF q.stage = "call" \/ q.ok THEN q.amount ELSE 0

(* The same of all promises. *)
Known(ps, d, e, x) ==
    /\ \A i \in Ids : ps[i].op \in PoolOps => e = AtPool(ps[i], d) /\ x = OnTheWay(ps[i])
    /\ (\A i \in Ids : ps[i].op \notin PoolOps) => e = d /\ x = 0
Paying(ps, u) ==
    /\ \A i \in Ids : ps[i].op = "withdraw_unvested" => u = Owed(ps[i])
    /\ (\A i \in Ids : ps[i].op # "withdraw_unvested") => u = 0

(* The pool holds the known deposit; the account, what is on its way to it, *)
(* the deposit and a payment in flight cover the locked amount.             *)
Covered(e, x, u) ==
    /\ Known(promises, staking.deposit_amount, e, x)
    /\ Paying(promises, u)
    /\ staking.pool # NoPool => e <= Held(pools[staking.pool])
    /\ staking.pool = NoPool => staking.deposit_amount = 0
    /\ ~fullKey => (balance + incoming) + ((e + x) + u) >= get_locked_amount

(* For some deposit, tokens on their way and payment. *)
MoneyOK == \E e \in Nat, x \in Nat, u \in Nat : Covered(e, x, u)

(* When an operation on the pool is written into a slot, the slot alone     *)
(* says what the pool has of the deposit.                                   *)
LEMMA KnownTaken ==
    ASSUME NEW ps \in [Ids -> PromiseType], NEW k \in Ids, NEW q \in PromiseType,
           NEW d, q.op \in PoolOps, \A j \in Ids : j # k => ps[j].op \notin PoolOps
    PROVE  Known([ps EXCEPT ![k] = q], d, AtPool(q, d), OnTheWay(q))
<1> DEFINE ps2 == [ps EXCEPT ![k] = q]
<1>1. ps2[k] = q /\ \A j \in Ids : j # k => ps2[j] = ps[j] OBVIOUS
<1> HIDE DEF ps2
<1>2. Known(ps2, d, AtPool(q, d), OnTheWay(q)) BY <1>1 DEF Known
<1> QED BY <1>2 DEF ps2

(* When the slot is emptied, the deposit is what the contract knows. *)
LEMMA KnownFreed ==
    ASSUME NEW ps \in [Ids -> PromiseType], NEW k \in Ids, NEW q \in PromiseType,
           NEW d, q.op \notin PoolOps, \A j \in Ids : j # k => ps[j].op \notin PoolOps
    PROVE  Known([ps EXCEPT ![k] = q], d, d, 0)
<1> DEFINE ps2 == [ps EXCEPT ![k] = q]
<1>1. ps2[k] = q /\ \A j \in Ids : j # k => ps2[j] = ps[j] OBVIOUS
<1> HIDE DEF ps2
<1>2. Known(ps2, d, d, 0) BY <1>1 DEF Known
<1> QED BY <1>2 DEF ps2

(* It is as before when neither the old nor the new promise is on the pool. *)
LEMMA KnownKept ==
    ASSUME NEW ps \in [Ids -> PromiseType], NEW k \in Ids, NEW q \in PromiseType,
           NEW d, NEW e, NEW x, Known(ps, d, e, x),
           q.op \notin PoolOps, ps[k].op \notin PoolOps
    PROVE  Known([ps EXCEPT ![k] = q], d, e, x)
<1> DEFINE ps2 == [ps EXCEPT ![k] = q]
<1>1. ps2[k] = q /\ \A j \in Ids : j # k => ps2[j] = ps[j] OBVIOUS
<1> HIDE DEF ps2
<1>2. Known(ps2, d, e, x) BY <1>1 DEF Known
<1> QED BY <1>2 DEF ps2

(* When a payment to the foundation is written into a slot, it is the one in *)
(* flight.                                                                   *)
LEMMA PayingTaken ==
    ASSUME NEW ps \in [Ids -> PromiseType], NEW k \in Ids, NEW q \in PromiseType,
           q.op = "withdraw_unvested",
           \A j \in Ids : j # k => ps[j].op # "withdraw_unvested"
    PROVE  Paying([ps EXCEPT ![k] = q], Owed(q))
<1> DEFINE ps2 == [ps EXCEPT ![k] = q]
<1>1. ps2[k] = q /\ \A j \in Ids : j # k => ps2[j] = ps[j] OBVIOUS
<1> HIDE DEF ps2
<1>2. Paying(ps2, Owed(q)) BY <1>1 DEF Paying
<1> QED BY <1>2 DEF ps2

(* An emptied slot leaves no payment in flight. *)
LEMMA PayingFreed ==
    ASSUME NEW ps \in [Ids -> PromiseType], NEW k \in Ids, NEW q \in PromiseType,
           q.op # "withdraw_unvested",
           \A j \in Ids : j # k => ps[j].op # "withdraw_unvested"
    PROVE  Paying([ps EXCEPT ![k] = q], 0)
<1> DEFINE ps2 == [ps EXCEPT ![k] = q]
<1>1. ps2[k] = q /\ \A j \in Ids : j # k => ps2[j] = ps[j] OBVIOUS
<1> HIDE DEF ps2
<1>2. Paying(ps2, 0) BY <1>1 DEF Paying
<1> QED BY <1>2 DEF ps2

(* A slot without a payment, before and after, leaves the payment in flight. *)
LEMMA PayingKept ==
    ASSUME NEW ps \in [Ids -> PromiseType], NEW k \in Ids, NEW q \in PromiseType,
           NEW u, Paying(ps, u),
           q.op # "withdraw_unvested", ps[k].op # "withdraw_unvested"
    PROVE  Paying([ps EXCEPT ![k] = q], u)
<1> DEFINE ps2 == [ps EXCEPT ![k] = q]
<1>1. ps2[k] = q /\ \A j \in Ids : j # k => ps2[j] = ps[j] OBVIOUS
<1> HIDE DEF ps2
<1>2. Paying(ps2, u) BY <1>1 DEF Paying
<1> QED BY <1>2 DEF ps2

(* The numbers of the next state. *)
LEMMA CoveredNext ==
    ASSUME NEW e \in Nat, NEW x \in Nat, NEW u \in Nat,
           Known(promises', staking'.deposit_amount, e, x),
           Paying(promises', u),
           staking'.pool # NoPool => e <= Held(pools'[staking'.pool]),
           staking'.pool = NoPool => staking'.deposit_amount = 0,
           ~fullKey' => (balance' + incoming') + ((e + x) + u) >= get_locked_amount'
    PROVE  MoneyOK'
BY DEF MoneyOK, Covered

(* Types of the numbers. *)
LEMMA Numbers ==
    ASSUME IInv
    PROVE  /\ balance \in Nat /\ incoming \in Nat /\ staking.deposit_amount \in Nat
           /\ get_locked_amount \in Nat
           /\ promises \in [Ids -> PromiseType]
           /\ staking \in StakingType /\ pools \in [Pools -> [staked : Nat, unstaked : Nat]]
           /\ \A p \in Pools : Held(pools[p]) \in Nat
           /\ \A i \in Ids : promises[i].amount \in Nat
           /\ staking.pool # NoPool => staking.pool \in Pools
BY LockedIsNat DEF IInv, TypeOK, StakingType, PromiseType, Held

(* Sums of token amounts. *)
LEMMA TwoTokens ==
    ASSUME NEW a \in Nat, NEW b \in Nat
    PROVE  a + b \in Nat
OBVIOUS
(* The sum that Covered compares with the locked amount. *)
LEMMA FiveTokens ==
    ASSUME NEW a \in Nat, NEW b \in Nat, NEW c \in Nat, NEW d \in Nat, NEW f \in Nat
    PROVE  (a + b) + ((c + d) + f) \in Nat
OBVIOUS

(* A step that writes neither the promises nor the known deposit. *)
LEMMA QuietMoney ==
    ASSUME IInv, IInv', ShadowedNow', MoneyOK, get_locked_amount' <= get_locked_amount,
           promises' = promises, staking'.deposit_amount = staking.deposit_amount,
           \/ staking'.pool = staking.pool
           \/ staking'.pool = NoPool /\ staking.deposit_amount = 0,
           \A p \in Pools : Held(pools[p]) <= Held(pools'[p]),
           balance + incoming <= balance' + incoming',
           fullKey => fullKey'
    PROVE  MoneyOK'
<1>1. PICK e \in Nat, x \in Nat, u \in Nat : Covered(e, x, u) BY DEF MoneyOK
<1>2. /\ balance \in Nat /\ incoming \in Nat /\ balance' \in Nat /\ incoming' \in Nat
      /\ get_locked_amount \in Nat /\ get_locked_amount' \in Nat
  BY Numbers, LockedIsNatNext DEF IInv, TypeOK
<1>3. Known(promises', staking'.deposit_amount, e, x) /\ Paying(promises', u)
  BY <1>1 DEF Covered
<1>4. ASSUME staking'.pool # NoPool
      PROVE  e <= Held(pools'[staking'.pool])
  <2>1. /\ staking'.pool = staking.pool /\ staking.pool \in Pools
        /\ pools' \in [Pools -> [staked : Nat, unstaked : Nat]]
    BY <1>4, Numbers DEF IInv, TypeOK
  <2>2. e <= Held(pools[staking.pool]) BY <1>1, <1>4, <2>1 DEF Covered
  <2>3. Held(pools[staking.pool]) \in Nat /\ Held(pools'[staking.pool]) \in Nat
    BY <2>1, Numbers DEF Held
  <2>4. Held(pools[staking.pool]) <= Held(pools'[staking.pool]) BY <2>1
  <2> QED BY <2>1, <2>2, <2>3, <2>4
<1>5. staking'.pool = NoPool => staking'.deposit_amount = 0
  BY <1>1 DEF Covered
<1>6. ASSUME ~fullKey'
      PROVE  (balance' + incoming') + ((e + x) + u) >= get_locked_amount'
  <2>0. ~fullKey BY <1>6
  <2>1. (balance + incoming) + ((e + x) + u) >= get_locked_amount
    BY <1>1, <2>0 DEF Covered
  <2> DEFINE b == balance + incoming
             b2 == balance' + incoming'
             c == (e + x) + u
             L == get_locked_amount
             L2 == get_locked_amount'
  <2>2. b \in Nat /\ b2 \in Nat /\ c \in Nat /\ L \in Nat /\ L2 \in Nat
    BY <1>1, <1>2, TwoTokens
  <2>3. b + c >= L /\ b <= b2 /\ L2 <= L BY <2>1
  <2> HIDE DEF b, b2, c, L, L2
  <2>4. b2 + c >= L2 BY <2>2, <2>3
  <2> QED BY <2>4 DEF b2, c, L2
<1> QED BY <1>3, <1>4, <1>5, <1>6, CoveredNext

(* In particular a step that moves no tokens. *)
LEMMA StillMoney ==
    ASSUME IInv, IInv', ShadowedNow', MoneyOK, get_locked_amount' <= get_locked_amount,
           UNCHANGED <<staking, balance, promises, incoming, pools>>, fullKey => fullKey'
    PROVE  MoneyOK'
<1>1. balance \in Nat /\ incoming \in Nat BY Numbers
<1>2. balance + incoming <= balance' + incoming' BY <1>1
<1>3. \A p \in Pools : Held(pools[p]) <= Held(pools'[p]) BY Numbers
<1> QED BY <1>2, <1>3, QuietMoney

(* Tokens that move between the account, its pool and what is on its way.  *)
LEMMA TokensMove ==
    ASSUME NEW b \in Nat, NEW i \in Nat, NEW i2 \in Nat, NEW e \in Nat, NEW x \in Nat,
           NEW e2 \in Nat, NEW u \in Nat, i2 + e2 >= i + (e + x)
    PROVE  (b + i2) + ((e2 + 0) + u) >= (b + i) + ((e + x) + u)
OBVIOUS

(* A step that writes one slot and leaves the tokens together. *)
LEMMA SlotMoney ==
    ASSUME IInv, IInv', ShadowedNow', get_locked_amount' <= get_locked_amount,
           NEW e \in Nat, NEW x \in Nat, NEW u \in Nat, Covered(e, x, u),
           NEW e2 \in Nat, NEW x2 \in Nat, NEW u2 \in Nat,
           Known(promises', staking'.deposit_amount, e2, x2),
           Paying(promises', u2),
           staking'.pool # NoPool => e2 <= Held(pools'[staking'.pool]),
           staking'.pool = NoPool => staking'.deposit_amount = 0,
           UNCHANGED fullKey,
           (balance' + incoming') + ((e2 + x2) + u2) >= (balance + incoming) + ((e + x) + u)
    PROVE  MoneyOK'
<1>1. /\ balance \in Nat /\ incoming \in Nat /\ balance' \in Nat /\ incoming' \in Nat
      /\ get_locked_amount \in Nat /\ get_locked_amount' \in Nat
  BY Numbers, LockedIsNatNext DEF IInv, TypeOK
<1>2. ASSUME ~fullKey'
      PROVE  (balance' + incoming') + ((e2 + x2) + u2) >= get_locked_amount'
  <2> DEFINE F == (balance + incoming) + ((e + x) + u)
             F2 == (balance' + incoming') + ((e2 + x2) + u2)
             L2 == get_locked_amount'
  <2>0. ~fullKey BY <1>2
  <2>1. F >= get_locked_amount
    <3>1. Covered(e, x, u) OBVIOUS
    <3> QED BY <2>0, <3>1 DEF Covered
  <2>2. F \in Nat /\ F2 \in Nat /\ L2 \in Nat BY <1>1, FiveTokens
  <2>3. F2 >= F /\ L2 <= get_locked_amount OBVIOUS
  <2> HIDE DEF F, F2, L2
  <2>4. F2 >= L2 BY <1>1, <2>1, <2>2, <2>3
  <2> QED BY <2>4 DEF F2, L2
<1> QED BY <1>2, CoveredNext

(* Known deposits are natural numbers. *)
LEMMA AtPoolIsNat ==
    ASSUME NEW q \in PromiseType, NEW d \in Nat
    PROVE  AtPool(q, d) \in Nat /\ OnTheWay(q) \in Nat /\ Owed(q) \in Nat
BY DEF AtPool, OnTheWay, Owed, PromiseType, SatSub

(* An empty slot belongs to no operation, an operation on the pool is no    *)
(* payment, and the locks leave no second one in flight.                    *)
LEMMA AloneInFlight ==
    ASSUME IInv
    PROVE  /\ NoPromise \in PromiseType /\ NoPromise.op \notin PoolOps
           /\ NoPromise.op # "withdraw_unvested" /\ "withdraw_unvested" \notin PoolOps
           /\ \A k \in Ids : promises[k].op \in PoolOps =>
                \A j \in Ids : j # k => promises[j].op \notin PoolOps
           /\ \A k \in Ids : promises[k].op = "withdraw_unvested" =>
                \A j \in Ids : j # k => promises[j].op # "withdraw_unvested"
           /\ (staking.pool = NoPool \/ staking.status = "Idle") =>
                \A j \in Ids : promises[j].op \notin PoolOps
<1>1. "withdraw_unvested" \in TerminationOps BY OpFacts
<1> QED BY <1>1, PromiseFacts, OpFacts DEF IInv, PoolLock, TerminationLock

(* The end of an operation on the pool. *)
LEMMA EndMoney ==
    ASSUME IInv, IInv', ShadowedNow', MoneyOK, get_locked_amount' <= get_locked_amount,
           NEW k \in Ids, Done(k), promises[k].op \in PoolOps,
           promises[k].stage = "callback", staking'.pool = staking.pool,
           staking'.deposit_amount = AtPool(promises[k], staking.deposit_amount),
           UNCHANGED balance, CallbackUnchanged
    PROVE  MoneyOK'
<1>1. PICK e \in Nat, x \in Nat, u \in Nat : Covered(e, x, u) BY DEF MoneyOK
<1>2. /\ promises \in [Ids -> PromiseType] /\ promises' = [promises EXCEPT ![k] = NoPromise]
      /\ UNCHANGED <<balance, incoming, pools, fullKey>>
  BY Numbers DEF Done, CallbackUnchanged, world
<1>3. e = staking'.deposit_amount /\ x = 0
  BY <1>1 DEF Covered, Known, OnTheWay
<1>4. Known(promises', staking'.deposit_amount, e, x)
  <2>2. \A j \in Ids : j # k => promises[j].op \notin PoolOps BY AloneInFlight
  <2>3. NoPromise \in PromiseType /\ NoPromise.op \notin PoolOps BY AloneInFlight
  <2> QED BY <1>2, <1>3, <2>2, <2>3, KnownFreed
<1>5. Paying(promises', u)
  <2>1. Paying(promises, u) BY <1>1 DEF Covered
  <2> QED BY <1>2, <2>1, AloneInFlight, PayingKept
<1>6. staking'.pool # NoPool /\ e <= Held(pools'[staking'.pool])
  BY <1>1, <1>2 DEF Covered, IInv, PoolLock
<1>7. (balance' + incoming') + ((e + x) + u) >= (balance + incoming) + ((e + x) + u)
  <2>1. balance \in Nat /\ incoming \in Nat BY Numbers
  <2>2. (balance + incoming) + ((e + x) + u) \in Nat BY <2>1, FiveTokens
  <2> QED BY <1>2, <2>2
<1> QED BY <1>1, <1>2, <1>4, <1>5, <1>6, <1>7, SlotMoney

(* An operation that goes on with a second call. *)
LEMMA FollowMoney ==
    ASSUME IInv, IInv', ShadowedNow', MoneyOK, get_locked_amount' <= get_locked_amount,
           NEW k \in Ids, NEW op \in PoolOps \ DepositOps, Then(k, op, promises[k].amount),
           promises[k].op \in ViewOps \ {"total"}, promises[k].stage = "callback",
           UNCHANGED <<staking, balance>>, CallbackUnchanged
    PROVE  MoneyOK'
<1> DEFINE q == Call(op, staking.pool, promises[k].amount)
<1>1. PICK e \in Nat, x \in Nat, u \in Nat : Covered(e, x, u) BY DEF MoneyOK
<1>2. /\ promises \in [Ids -> PromiseType] /\ promises' = [promises EXCEPT ![k] = q]
      /\ UNCHANGED <<balance, incoming, pools, fullKey>>
  BY Numbers DEF Then, CallbackUnchanged, world
<1>3. /\ promises[k].op \in PoolOps /\ promises[k].op # "withdraw_unvested"
      /\ op # "withdraw_unvested" /\ op \in Ops
      /\ promises[k].op \notin DepositOps \cup WithdrawOps
  BY OpFacts DEF ViewOps, DepositOps, WithdrawOps
<1>4. q \in PromiseType /\ q.op = op /\ q.stage = "call"
  <2>1. promises[k].amount \in Nat /\ staking.pool \in Pools \cup {NoPool}
    BY Numbers DEF StakingType
  <2> QED BY <1>3, <2>1, PromiseFacts DEF Call
<1> HIDE DEF q
<1>5. e = staking.deposit_amount /\ x = 0
  BY <1>1, <1>3 DEF Covered, Known, OnTheWay, AtPool
<1>6. AtPool(q, staking'.deposit_amount) = e /\ OnTheWay(q) = x
  BY <1>4, <1>5 DEF OnTheWay, AtPool
<1>7. Known(promises', staking'.deposit_amount, e, x)
  <2>2. \A j \in Ids : j # k => promises[j].op \notin PoolOps BY <1>3, AloneInFlight
  <2> QED BY <1>2, <1>4, <1>6, <2>2, KnownTaken
<1>8. Paying(promises', u)
  <2>1. Paying(promises, u) BY <1>1 DEF Covered
  <2> QED BY <1>2, <1>3, <1>4, <2>1, PayingKept
<1>9. (balance' + incoming') + ((e + x) + u) >= (balance + incoming) + ((e + x) + u)
  <2>1. balance \in Nat /\ incoming \in Nat BY Numbers
  <2>2. (balance + incoming) + ((e + x) + u) \in Nat BY <2>1, FiveTokens
  <2> QED BY <1>2, <2>2
<1>10. /\ staking'.pool # NoPool => e <= Held(pools'[staking'.pool])
       /\ staking'.pool = NoPool => staking'.deposit_amount = 0
  BY <1>1, <1>2 DEF Covered
<1> QED BY <1>1, <1>2, <1>7, <1>8, <1>9, <1>10, SlotMoney

(* A call to the selected pool, with or without a deposit. *)
LEMMA TakeMoney ==
    ASSUME IInv, IInv', ShadowedNow', MoneyOK, get_locked_amount' <= get_locked_amount,
           NEW op \in PoolOps, NEW m \in Nat, Issue(op, staking.pool, m),
           staking.pool # NoPool, staking.status = "Idle",
           staking' = [staking EXCEPT !.status = "Busy"],
           UNCHANGED <<incoming, pools, fullKey>>,
           IF op \in DepositOps THEN balance' + m = balance ELSE balance' = balance
    PROVE  MoneyOK'
<1> DEFINE q == Call(op, staking.pool, m)
           x2 == IF op \in DepositOps THEN m ELSE 0
<1>1. PICK e \in Nat, x \in Nat, u \in Nat : Covered(e, x, u) BY DEF MoneyOK
<1>2. PICK k \in Ids : /\ promises[k] = NoPromise
                       /\ promises' = [promises EXCEPT ![k] = q]
  BY IssueSlot
<1>3. promises \in [Ids -> PromiseType] /\ op # "withdraw_unvested" /\ op \in Ops
  BY Numbers, OpFacts
<1>4. q \in PromiseType /\ q.op = op /\ q.stage = "call" /\ q.amount = m
  <2>1. staking.pool \in Pools \cup {NoPool} BY Numbers DEF StakingType
  <2> QED BY <1>3, <2>1, PromiseFacts DEF Call
<1> HIDE DEF q
<1>5. e = staking.deposit_amount /\ x = 0
  BY <1>1, AloneInFlight DEF Covered, Known
<1>6. staking'.pool = staking.pool /\ staking'.deposit_amount = staking.deposit_amount
  BY Numbers DEF StakingType
<1>7. AtPool(q, staking'.deposit_amount) = e /\ OnTheWay(q) = x2
  BY <1>4, <1>5, <1>6 DEF OnTheWay, AtPool
<1>8. Known(promises', staking'.deposit_amount, e, x2)
  <2>2. \A j \in Ids : j # k => promises[j].op \notin PoolOps BY AloneInFlight
  <2> QED BY <1>2, <1>3, <1>4, <1>7, <2>2, KnownTaken
<1>9. Paying(promises', u)
  <2>1. Paying(promises, u) BY <1>1 DEF Covered
  <2> QED BY <1>2, <1>3, <1>4, <2>1, AloneInFlight, PayingKept
<1>10. x2 \in Nat OBVIOUS
<1>11. balance' + x2 = balance
  <2>1. balance \in Nat BY Numbers
  <2> QED BY <2>1
<1> HIDE DEF x2
<1>12. (balance' + incoming') + ((e + x2) + u) >= (balance + incoming) + ((e + x) + u)
  <2>1. balance \in Nat /\ balance' \in Nat /\ incoming \in Nat
    BY Numbers DEF IInv, TypeOK
  <2> QED BY <1>5, <1>10, <1>11, <2>1
<1>13. e <= Held(pools'[staking'.pool]) BY <1>1, <1>6 DEF Covered
<1> QED BY <1>1, <1>6, <1>8, <1>9, <1>10, <1>12, <1>13, SlotMoney

(* A question, its answer and its callback; the answer of the whitelist may *)
(* select a pool.                                                           *)
LEMMA QuestionMoney ==
    ASSUME IInv, IInv', ShadowedNow', MoneyOK, get_locked_amount' <= get_locked_amount,
           NEW k \in Ids, NEW q \in PromiseType, promises' = [promises EXCEPT ![k] = q],
           q.op \notin PoolOps, q.op # "withdraw_unvested",
           promises[k].op \notin PoolOps, promises[k].op # "withdraw_unvested",
           UNCHANGED <<balance, incoming, pools, fullKey>>,
           \/ staking' = staking
           \/ /\ staking.pool = NoPool /\ staking'.pool \in Pools \cup {NoPool}
              /\ staking'.deposit_amount = 0
    PROVE  MoneyOK'
<1>1. PICK e \in Nat, x \in Nat, u \in Nat : Covered(e, x, u) BY DEF MoneyOK
<1>2. promises \in [Ids -> PromiseType] BY Numbers
<1>3. staking'.deposit_amount = staking.deposit_amount BY <1>1 DEF Covered
<1>4. Known(promises', staking'.deposit_amount, e, x)
  <2>1. Known(promises, staking.deposit_amount, e, x) BY <1>1 DEF Covered
  <2> QED BY <1>2, <1>3, <2>1, KnownKept
<1>5. Paying(promises', u)
  <2>1. Paying(promises, u) BY <1>1 DEF Covered
  <2> QED BY <1>2, <2>1, PayingKept
<1>6. (balance' + incoming') + ((e + x) + u) >= (balance + incoming) + ((e + x) + u)
  <2>1. balance \in Nat /\ incoming \in Nat BY Numbers
  <2>2. (balance + incoming) + ((e + x) + u) \in Nat BY <2>1, FiveTokens
  <2> QED BY <2>2
<1>7. /\ staking'.pool # NoPool => e <= Held(pools'[staking'.pool])
      /\ staking'.pool = NoPool => staking'.deposit_amount = 0
  <2>1. CASE staking' = staking BY <1>1, <2>1 DEF Covered
  <2>2. CASE /\ staking.pool = NoPool /\ staking'.pool \in Pools \cup {NoPool}
             /\ staking'.deposit_amount = 0
    <3>1. e = 0 BY <1>1, <1>3, <2>2, AloneInFlight DEF Covered, Known
    <3>2. staking'.pool # NoPool => Held(pools[staking'.pool]) \in Nat BY <2>2, Numbers
    <3> QED BY <2>2, <3>1, <3>2
  <2> QED BY <2>1, <2>2
<1> QED BY <1>1, <1>4, <1>5, <1>6, <1>7, SlotMoney

(* The answer of the pool to an operation: what it does to the deposit and  *)
(* sends back leaves the account and the pool with as much.                 *)
LEMMA ResolveMoney ==
    ASSUME IInv, IInv', ShadowedNow', MoneyOK, get_locked_amount' <= get_locked_amount,
           NEW k \in Ids, NEW ok \in BOOLEAN, NEW m \in Nat, Resolve(k, ok, m),
           promises[k].op \in PoolOps, promises[k].stage = "call",
           UNCHANGED <<contract, balance, fullKey>>,
           NEW d, d = staking.deposit_amount, NEW e2 \in Nat,
           ~ok => e2 = d,
           ok /\ promises[k].op \in DepositOps => e2 = d + m,
           ok /\ promises[k].op \in WithdrawOps => e2 = SatSub(d, m),
           ok /\ promises[k].op = "total" => e2 = m,
           ok /\ promises[k].op \notin DepositOps \cup WithdrawOps \cup {"total"} => e2 = d,
           d <= Held(pools[staking.pool]) => e2 <= Held(pools'[staking.pool]),
           d <= Held(pools[staking.pool]) =>
                incoming' + e2 >= incoming + (d + OnTheWay(promises[k]))
    PROVE  MoneyOK'
<1> DEFINE q == [promises[k] EXCEPT !.stage = "callback", !.ok = ok, !.amount = m]
<1>1. PICK e \in Nat, x \in Nat, u \in Nat : Covered(e, x, u) BY DEF MoneyOK
<1>2. promises \in [Ids -> PromiseType] /\ promises' = [promises EXCEPT ![k] = q]
  BY Numbers DEF Resolve
<1>3. /\ q \in PromiseType /\ q.op = promises[k].op /\ q.stage = "callback"
      /\ q.ok = ok /\ q.amount = m
  BY <1>2 DEF PromiseType
<1> HIDE DEF q
<1>4. staking' = staking /\ UNCHANGED <<balance, fullKey>> BY DEF contract
<1>5. e = d /\ x = OnTheWay(promises[k])
  BY <1>1 DEF Covered, Known, AtPool
<1>6. AtPool(q, d) = e2 /\ OnTheWay(q) = 0
  BY <1>3 DEF AtPool, OnTheWay
<1>7. Known(promises', staking'.deposit_amount, e2, 0)
  <2>1. \A j \in Ids : j # k => promises[j].op \notin PoolOps BY AloneInFlight
  <2> QED BY <1>2, <1>3, <1>4, <1>6, <2>1, KnownTaken
<1>8. Paying(promises', u)
  <2>1. promises[k].op # "withdraw_unvested" BY AloneInFlight
  <2>2. Paying(promises, u) BY <1>1 DEF Covered
  <2> QED BY <1>2, <1>3, <2>1, <2>2, PayingKept
<1>9. staking.pool # NoPool BY DEF IInv, PoolLock
<1>10. d <= Held(pools[staking.pool]) BY <1>1, <1>5, <1>9 DEF Covered
<1>11. (balance' + incoming') + ((e2 + 0) + u) >= (balance + incoming) + ((e + x) + u)
  <2>1. balance \in Nat /\ incoming \in Nat /\ incoming' \in Nat
    BY Numbers DEF IInv, TypeOK
  <2>2. incoming' + e2 >= incoming + (e + x) BY <1>5, <1>10
  <2>3. balance' = balance BY <1>4
  <2>4. OnTheWay(promises[k]) \in Nat BY <1>5
  <2> QED BY <2>1, <2>2, <2>3, TokensMove
<1> QED BY <1>1, <1>4, <1>7, <1>8, <1>9, <1>10, <1>11, SlotMoney

(* A transfer is at most what is not locked. *)
LEMMA TransferMoney ==
    ASSUME IInv, IInv', ShadowedNow', MoneyOK, get_locked_amount' <= get_locked_amount,
           NEW m \in Nat, transfer(m)
    PROVE  MoneyOK'
<1> DEFINE d == staking.deposit_amount
           L == get_locked_amount
           L2 == get_locked_amount'
<1>1. PICK e \in Nat, x \in Nat, u \in Nat : Covered(e, x, u) BY DEF MoneyOK
<1>2. /\ m > 0 /\ balance' = balance - m /\ incoming' \in {incoming, incoming + m}
      /\ UNCHANGED <<staking, promises, pools, fullKey>>
      /\ ~Terminating /\ (staking.pool # NoPool => staking.status = "Idle")
      /\ m <= get_liquid_owners_balance
  BY DEF transfer, contract, world, assert_no_termination, assert_no_staking_or_idle, Selected
<1>3. \A j \in Ids : promises[j].op \notin PoolOps BY <1>2, AloneInFlight
<1>4. e = d /\ x = 0 BY <1>1, <1>3 DEF Covered, Known
<1>5. balance \in Nat /\ incoming \in Nat /\ d \in Nat /\ L \in Nat /\ L2 \in Nat
  BY Numbers, LockedIsNatNext
<1>6. get_known_deposited_balance = d
  BY <1>1 DEF Covered, get_known_deposited_balance, Selected
<1>7. m <= SatSub(balance + d, L)
  <2>1. get_owners_balance = SatSub(balance + d, L) BY <1>6 DEF get_owners_balance
  <2>2. SatSub(balance + d, L) \in Nat /\ get_account_balance \in Nat
    <3>1. balance + d \in Nat BY <1>5
    <3> HIDE DEF d, L
    <3> QED BY <1>5, <3>1, SmallArithmetic, AmountsAssumption DEF get_account_balance
  <2> HIDE DEF d, L
  <2> QED BY <1>2, <2>1, <2>2, SmallArithmetic DEF get_liquid_owners_balance, Smaller
<1>8. L2 <= L OBVIOUS
<1> HIDE DEF L, L2
<1>9. (balance - m) + d >= L BY <1>2, <1>5, <1>7 DEF SatSub
<1>10. (balance' + incoming') + ((e + x) + u) >= L2
  <2>1. incoming' \in Nat BY DEF IInv, TypeOK
  <2>2. balance - m \in Int BY <1>5
  <2>3. balance' = balance - m BY <1>2
  <2> DEFINE b2 == balance'
             i2 == incoming'
  <2>4. b2 \in Int /\ i2 \in Nat /\ b2 + d >= L BY <1>9, <2>1, <2>2, <2>3
  <2> HIDE DEF d, b2, i2
  <2>5. (b2 + i2) + ((d + 0) + u) >= L2 BY <1>5, <1>8, <2>4
  <2> QED BY <1>4, <2>5 DEF b2, i2
<1>11. Known(promises', staking'.deposit_amount, e, x) /\ Paying(promises', u)
  BY <1>1, <1>2 DEF Covered
<1>12. /\ staking'.pool # NoPool => e <= Held(pools'[staking'.pool])
       /\ staking'.pool = NoPool => staking'.deposit_amount = 0
  BY <1>1, <1>2 DEF Covered
<1> QED BY <1>10, <1>11, <1>12, CoveredNext DEF L2

(* A payment to the foundation leaves the account, and stays in the sum. *)
LEMMA PayOutMoney ==
    ASSUME IInv, IInv', ShadowedNow', MoneyOK, get_locked_amount' <= get_locked_amount,
           termination_withdraw
    PROVE  MoneyOK'
<1> DEFINE m == Smaller(vesting.unvested, get_account_balance)
           q == Call("withdraw_unvested", NoPool, m)
<1>1. PICK e \in Nat, x \in Nat, u \in Nat : Covered(e, x, u) BY DEF MoneyOK
<1>2. m \in Nat
  <2>1. balance \in Nat /\ vesting.unvested \in Nat BY DEF IInv, TypeOK, VestingType
  <2>2. get_account_balance \in Nat
    BY <2>1, SmallArithmetic, AmountsAssumption DEF get_account_balance
  <2> QED BY <2>1, <2>2, SmallArithmetic
<1>3. PICK k \in Ids : /\ promises[k] = NoPromise
                       /\ promises' = [promises EXCEPT ![k] = q]
  BY IssueSlot DEF termination_withdraw
<1>4. /\ balance' = balance - m /\ UNCHANGED <<staking, incoming, pools, fullKey>>
      /\ vesting.status = "ReadyToWithdraw"
  BY DEF termination_withdraw, world
<1> HIDE DEF m
<1>5. promises \in [Ids -> PromiseType] BY Numbers
<1>6. /\ q \in PromiseType /\ q.op = "withdraw_unvested" /\ q.amount = m
      /\ q.stage = "call" /\ q.op \notin PoolOps
  BY <1>2, PromiseFacts, OpFacts DEF Call
<1> HIDE DEF q
<1>7. \A i \in Ids : promises[i].op \notin TerminationOps
  BY <1>4, StatusFacts DEF IInv, TerminationLock
<1>8. \A i \in Ids : promises[i].op # "withdraw_unvested" BY <1>7, OpFacts
<1>9. u = 0 BY <1>1, <1>8 DEF Covered, Paying
<1>10. Paying(promises', m)
  <2>1. Owed(q) = m BY <1>6 DEF Owed
  <2> QED BY <1>3, <1>5, <1>6, <1>8, <2>1, PayingTaken
<1>11. Known(promises', staking'.deposit_amount, e, x)
  <2>1. Known(promises, staking.deposit_amount, e, x) BY <1>1 DEF Covered
  <2>2. promises[k].op \notin PoolOps BY <1>3, AloneInFlight
  <2> QED BY <1>3, <1>4, <1>5, <1>6, <2>1, <2>2, KnownKept
<1>12. (balance' + incoming') + ((e + x) + m) >= (balance + incoming) + ((e + x) + u)
  <2>1. balance \in Nat /\ incoming \in Nat BY Numbers
  <2> QED BY <1>2, <1>4, <1>9, <2>1
<1>13. /\ staking'.pool # NoPool => e <= Held(pools'[staking'.pool])
       /\ staking'.pool = NoPool => staking'.deposit_amount = 0
  BY <1>1, <1>4 DEF Covered
<1> QED BY <1>1, <1>2, <1>4, <1>10, <1>11, <1>12, <1>13, SlotMoney

(* The payment arrives, or its tokens come back to the account. *)
LEMMA PaymentMoney ==
    ASSUME IInv, IInv', ShadowedNow', MoneyOK, get_locked_amount' <= get_locked_amount,
           NEW k \in Ids, NEW ok \in BOOLEAN, TransferExecutes(k, ok)
    PROVE  MoneyOK'
<1> DEFINE m == promises[k].amount
           q == [promises[k] EXCEPT !.stage = "callback", !.ok = ok, !.amount = m]
           u2 == IF ok THEN m ELSE 0
<1>1. PICK e \in Nat, x \in Nat, u \in Nat : Covered(e, x, u) BY DEF MoneyOK
<1>2. promises \in [Ids -> PromiseType] /\ m \in Nat /\ u2 \in Nat BY Numbers
<1>3. /\ promises[k].op = "withdraw_unvested" /\ promises[k].stage = "call"
      /\ promises' = [promises EXCEPT ![k] = q]
      /\ incoming' = IF ok THEN incoming ELSE incoming + m
      /\ UNCHANGED <<staking, balance, pools, fullKey>>
  BY <1>2 DEF TransferExecutes, Resolve, contract, world
<1>4. q \in PromiseType /\ q.op = "withdraw_unvested" /\ q.ok = ok /\ q.amount = m
      /\ q.stage = "callback"
  BY <1>2, <1>3 DEF PromiseType
<1> HIDE DEF q
<1>5. u = m BY <1>1, <1>3 DEF Covered, Paying, Owed
<1>6. Owed(q) = u2 BY <1>4 DEF Owed
<1>7. Paying(promises', u2)
  <2>1. \A j \in Ids : j # k => promises[j].op # "withdraw_unvested"
    BY <1>3, AloneInFlight
  <2> QED BY <1>2, <1>3, <1>4, <1>6, <2>1, PayingTaken
<1>8. Known(promises', staking'.deposit_amount, e, x)
  <2>1. Known(promises, staking.deposit_amount, e, x) BY <1>1 DEF Covered
  <2>2. promises[k].op \notin PoolOps /\ q.op \notin PoolOps BY <1>3, <1>4, AloneInFlight
  <2> QED BY <1>2, <1>3, <1>4, <2>1, <2>2, KnownKept
<1>9. (balance' + incoming') + ((e + x) + u2) >= (balance + incoming) + ((e + x) + u)
  <2>1. balance \in Nat /\ incoming \in Nat BY Numbers
  <2>2. incoming' + u2 = incoming + u BY <1>2, <1>3, <1>5, <2>1
  <2>3. incoming' \in Nat BY DEF IInv, TypeOK
  <2> HIDE DEF u2
  <2> QED BY <1>2, <1>3, <2>1, <2>2, <2>3
<1>10. /\ staking'.pool # NoPool => e <= Held(pools'[staking'.pool])
       /\ staking'.pool = NoPool => staking'.deposit_amount = 0
  BY <1>1, <1>3 DEF Covered
<1> QED BY <1>1, <1>2, <1>3, <1>7, <1>8, <1>9, <1>10, SlotMoney

(* Its callback takes what was paid from the locked amount. *)
LEMMA PaidMoney ==
    ASSUME IInv, IInv', ShadowedNow, ShadowedNow', MoneyOK,
           NEW k \in Ids, on_withdraw_unvested_amount(k)
    PROVE  MoneyOK'
<1> DEFINE m == IF promises[k].ok THEN promises[k].amount ELSE 0
           L == get_locked_amount
           L2 == get_locked_amount'
<1>1. PICK e \in Nat, x \in Nat, u \in Nat : Covered(e, x, u) BY DEF MoneyOK
<1>2. promises \in [Ids -> PromiseType] /\ m \in Nat BY Numbers
<1>3. /\ promises[k].op = "withdraw_unvested" /\ promises[k].stage = "callback"
      /\ promises' = [promises EXCEPT ![k] = NoPromise]
      /\ UNCHANGED <<staking, balance, incoming, pools, fullKey>>
  BY DEF on_withdraw_unvested_amount, Callback, Done, world
<1>4. u = m BY <1>1, <1>3 DEF Covered, Paying, Owed
<1>5. Paying(promises', 0)
  <2>1. \A j \in Ids : j # k => promises[j].op # "withdraw_unvested"
    BY <1>3, AloneInFlight
  <2> QED BY <1>2, <1>3, <2>1, AloneInFlight, PayingFreed
<1>6. Known(promises', staking'.deposit_amount, e, x)
  <2>1. Known(promises, staking.deposit_amount, e, x) BY <1>1 DEF Covered
  <2>2. promises[k].op \notin PoolOps BY <1>3, AloneInFlight
  <2> QED BY <1>2, <1>3, <2>1, <2>2, AloneInFlight, KnownKept
<1>7. L2 <= L - m BY <1>2, PaidTerms, LockedByPaid
<1>8. balance \in Nat /\ incoming \in Nat /\ L \in Nat /\ L2 \in Nat
  BY Numbers, LockedIsNatNext
<1> HIDE DEF L2, m
<1>9. ASSUME ~fullKey'
      PROVE  (balance' + incoming') + ((e + x) + 0) >= L2
  <2>1. ~fullKey BY <1>3, <1>9
  <2>2. (balance + incoming) + ((e + x) + u) >= L BY <1>1, <2>1 DEF Covered
  <2> HIDE DEF L
  <2>3. (balance + incoming) + ((e + x) + 0) >= L2
    BY <1>2, <1>4, <1>7, <1>8, <2>2
  <2> QED BY <1>3, <2>3
<1>10. /\ staking'.pool # NoPool => e <= Held(pools'[staking'.pool])
       /\ staking'.pool = NoPool => staking'.deposit_amount = 0
  BY <1>1, <1>3 DEF Covered
<1> QED BY <1>5, <1>6, <1>9, <1>10, CoveredNext DEF L2

(* The owner's methods. *)
LEMMA OwnerMoney ==
    ASSUME IInv, IInv', ShadowedNow', MoneyOK, get_locked_amount' <= get_locked_amount,
           OwnerMethods
    PROVE  MoneyOK'
<1>0. balance \in Nat /\ incoming \in Nat /\ promises \in [Ids -> PromiseType] BY Numbers
<1>1. ASSUME NEW op \in {"is_whitelisted", "poll"}, NEW p \in Pools \cup {NoPool},
             Issue(op, p, 0), UNCHANGED <<contract, balance, incoming, world, fullKey>>
      PROVE  MoneyOK'
  <2>1. PICK k \in Ids : /\ promises[k] = NoPromise
                         /\ promises' = [promises EXCEPT ![k] = Call(op, p, 0)]
    BY <1>1, IssueSlot
  <2>2. /\ Call(op, p, 0) \in PromiseType /\ Call(op, p, 0).op = op
        /\ op \notin PoolOps /\ op # "withdraw_unvested"
    BY PromiseFacts, OpFacts
  <2>3. UNCHANGED <<staking, balance, incoming, pools, fullKey>>
    BY <1>1 DEF contract, world
  <2> QED BY <2>1, <2>2, <2>3, AloneInFlight, QuestionMoney
<1>2. CASE unselect_staking_pool
  <2>1. /\ UNCHANGED <<balance, promises, incoming, pools, fullKey>>
        /\ staking'.pool = NoPool /\ staking'.deposit_amount = 0
        /\ staking.deposit_amount = 0
    BY <1>2 DEF unselect_staking_pool, NoStaking, world
  <2>2. balance + incoming <= balance' + incoming' BY <1>0, <2>1
  <2>3. \A p \in Pools : Held(pools[p]) <= Held(pools'[p]) BY <2>1, Numbers
  <2> QED BY <2>1, <2>2, <2>3, QuietMoney
<1>3. ASSUME NEW op \in PoolOps, NEW m \in Nat, PoolOperation(op, m),
             IF op \in DepositOps THEN balance' + m = balance ELSE balance' = balance
      PROVE  MoneyOK'
  <2>1. /\ Issue(op, staking.pool, m) /\ staking.pool # NoPool /\ staking.status = "Idle"
        /\ staking' = [staking EXCEPT !.status = "Busy"]
        /\ UNCHANGED <<incoming, pools, fullKey>>
    BY <1>3 DEF PoolOperation, assert_staking_pool_is_idle, Selected,
       set_staking_pool_status, world
  <2> QED BY <1>3, <2>1, TakeMoney
<1>4. ASSUME NEW op \in DepositOps, NEW m \in Nat, Deposit(op, m)
      PROVE  MoneyOK'
  <2>1. op \in PoolOps /\ PoolOperation(op, m) BY <1>4 DEF Deposit, PoolOps
  <2>2. balance' + m = balance BY <1>0, <1>4 DEF Deposit
  <2> QED BY <1>3, <2>1, <2>2
<1>5. {"withdraw", "stake", "unstake", "total", "unstaked_by_owner", "unstake_all"}
        \subseteq PoolOps \ DepositOps
  BY DEF PoolOps, DepositOps, WithdrawOps, OtherOps, ViewOps
<1>6. ASSUME NEW p \in Pools, select_staking_pool(p)
      PROVE  MoneyOK'
  BY <1>1, <1>6 DEF select_staking_pool
<1>7. CASE check_transfers_vote BY <1>1, <1>7 DEF check_transfers_vote
<1>8. ASSUME NEW m \in Amounts,
             \/ deposit_to_staking_pool(m)
             \/ deposit_and_stake(m)
             \/ withdraw_from_staking_pool(m)
             \/ stake(m)
             \/ unstake(m)
             \/ transfer(m)
      PROVE  MoneyOK'
  <2>0. m \in Nat BY AmountsAssumption
  <2>1. CASE deposit_to_staking_pool(m) \/ deposit_and_stake(m)
    BY <1>4, <2>0, <2>1 DEF deposit_to_staking_pool, deposit_and_stake, DepositOps
  <2>2. CASE withdraw_from_staking_pool(m)
    BY <1>3, <1>5, <2>0, <2>2 DEF withdraw_from_staking_pool
  <2>3. CASE stake(m) BY <1>3, <1>5, <2>0, <2>3 DEF stake
  <2>4. CASE unstake(m) BY <1>3, <1>5, <2>0, <2>4 DEF unstake
  <2>5. CASE transfer(m) BY <2>0, <2>5, TransferMoney
  <2> QED BY <1>8, <2>1, <2>2, <2>3, <2>4, <2>5
<1>9. CASE refresh_staking_pool_balance BY <1>3, <1>5, <1>9 DEF refresh_staking_pool_balance
<1>10. CASE withdraw_all_from_staking_pool
  BY <1>3, <1>5, <1>10 DEF withdraw_all_from_staking_pool
<1>11. CASE unstake_all BY <1>3, <1>5, <1>11 DEF unstake_all
<1>12. CASE add_full_access_key
  <2>1. UNCHANGED <<staking, balance, promises, incoming, pools>> /\ fullKey'
    BY <1>12 DEF add_full_access_key, contract, world
  <2> QED BY <2>1, StillMoney
<1> QED
  BY <1>2, <1>6, <1>7, <1>8, <1>9, <1>10, <1>11, <1>12 DEF OwnerMethods

(* The foundation's methods. *)
LEMMA FoundationMoney ==
    ASSUME IInv, IInv', ShadowedNow', MoneyOK, get_locked_amount' <= get_locked_amount,
           FoundationMethods
    PROVE  MoneyOK'
<1>0. balance \in Nat /\ incoming \in Nat BY Numbers
<1>1. CASE terminate_vesting
  <2>1. UNCHANGED <<staking, balance, promises, incoming, pools, fullKey>>
    BY <1>1 DEF terminate_vesting, world
  <2> QED BY <2>1, StillMoney
<1>2. CASE termination_withdraw BY <1>2, PayOutMoney
<1>3. CASE termination_prepare_to_withdraw
  <2>1. /\ staking.status = "Idle" /\ staking.pool # NoPool
        /\ UNCHANGED <<balance, incoming, pools, fullKey>>
        /\ staking' = [staking EXCEPT !.status = "Busy"]
    BY <1>3 DEF termination_prepare_to_withdraw, assert_staking_pool_is_idle, Selected,
       PrepareStep, set_staking_pool_status, world
  <2>2. \E op \in {"staked_to_unstake", "unstaked_to_withdraw"} : Issue(op, staking.pool, 0)
    BY <1>3 DEF termination_prepare_to_withdraw, PrepareStep
  <2>3. {"staked_to_unstake", "unstaked_to_withdraw"} \subseteq PoolOps \ DepositOps
    BY DEF PoolOps, DepositOps, ViewOps
  <2> QED BY <2>1, <2>2, <2>3, TakeMoney
<1> QED BY <1>1, <1>2, <1>3 DEF FoundationMethods

(* The callbacks. *)
LEMMA CallbackMoney ==
    ASSUME IInv, IInv', ShadowedNow, ShadowedNow', MoneyOK,
           get_locked_amount' <= get_locked_amount, NEW i \in Ids, Callbacks(i)
    PROVE  MoneyOK'
<1> DEFINE d == staking.deposit_amount
<1>0. /\ staking \in StakingType /\ promises \in [Ids -> PromiseType] /\ d \in Nat
      /\ promises[i] \in PromiseType /\ promises[i].amount \in Nat
  BY Numbers
<1>1. ASSUME NEW op \in DepositOps, DepositCallback(i, op)
      PROVE  MoneyOK'
  <2>1. /\ promises[i].op = op /\ op \in PoolOps /\ promises[i].stage = "callback"
        /\ Done(i) /\ UNCHANGED balance /\ CallbackUnchanged
        /\ staking' = [staking EXCEPT !.status = "Idle",
                !.deposit_amount = IF promises[i].ok THEN d + promises[i].amount ELSE d]
    BY <1>0, <1>1 DEF DepositCallback, Callback, PoolOps, StakingType
  <2>2. /\ staking'.pool = staking.pool
        /\ staking'.deposit_amount = IF promises[i].ok THEN d + promises[i].amount ELSE d
    BY <1>0, <2>1 DEF StakingType
  <2>3. staking'.deposit_amount = AtPool(promises[i], d)
    <3>1. promises[i].op \in DepositOps /\ promises[i].op \notin WithdrawOps \cup {"total"}
      BY <1>1, <2>1 DEF DepositOps, WithdrawOps
    <3>2. CASE promises[i].ok BY <2>1, <2>2, <3>1, <3>2 DEF AtPool
    <3>3. CASE ~promises[i].ok BY <2>2, <3>3 DEF AtPool
    <3> QED BY <3>2, <3>3
  <2> QED BY <2>1, <2>2, <2>3, EndMoney
<1>2. ASSUME promises[i].op \in WithdrawOps, promises[i].stage = "callback", Done(i),
             staking' = StakingAfterWithdraw(i), UNCHANGED balance, CallbackUnchanged
      PROVE  MoneyOK'
  <2>1. staking' = [staking EXCEPT !.status = "Idle",
            !.deposit_amount = IF promises[i].ok THEN SatSub(d, promises[i].amount) ELSE d]
    BY <1>0, <1>2 DEF StakingAfterWithdraw, StakingType
  <2>2. /\ staking'.pool = staking.pool
        /\ staking'.deposit_amount = IF promises[i].ok THEN SatSub(d, promises[i].amount) ELSE d
    BY <1>0, <2>1 DEF StakingType
  <2>3. promises[i].op \in PoolOps /\ promises[i].op \notin DepositOps
    BY <1>2 DEF PoolOps, WithdrawOps, DepositOps
  <2>4. staking'.deposit_amount = AtPool(promises[i], d)
    <3>1. promises[i].op \in WithdrawOps /\ promises[i].op \notin DepositOps \cup {"total"}
      BY <1>2 DEF DepositOps, WithdrawOps
    <3>2. CASE promises[i].ok BY <1>2, <2>2, <3>1, <3>2 DEF AtPool
    <3>3. CASE ~promises[i].ok BY <2>2, <3>3 DEF AtPool
    <3> QED BY <3>2, <3>3
  <2> QED BY <1>2, <2>2, <2>3, <2>4, EndMoney
<1>3. ASSUME promises[i].op \in PoolOps \ (DepositOps \cup WithdrawOps),
             promises[i].ok => promises[i].op # "total",
             promises[i].stage = "callback", Done(i),
             staking' = staking \/ set_staking_pool_status("Idle"),
             UNCHANGED balance, CallbackUnchanged
      PROVE  MoneyOK'
  <2>1. staking'.pool = staking.pool /\ staking'.deposit_amount = d
    BY <1>0, <1>3 DEF set_staking_pool_status, StakingType
  <2>2. staking'.deposit_amount = AtPool(promises[i], d) BY <1>3, <2>1 DEF AtPool
  <2> QED BY <1>3, <2>1, <2>2, EndMoney
<1>4. CASE on_get_account_total_balance(i)
  <2>1. /\ promises[i].op = "total" /\ promises[i].stage = "callback" /\ promises[i].ok
        /\ Done(i) /\ UNCHANGED balance /\ CallbackUnchanged
        /\ staking' = [staking EXCEPT !.status = "Idle", !.deposit_amount = promises[i].amount]
    BY <1>4 DEF on_get_account_total_balance, Callback
  <2>2. staking'.pool = staking.pool /\ staking'.deposit_amount = promises[i].amount
    BY <1>0, <2>1 DEF StakingType
  <2>3. promises[i].op \in PoolOps /\ promises[i].op \notin DepositOps \cup WithdrawOps
    BY <2>1 DEF PoolOps, ViewOps, WithdrawOps, DepositOps
  <2>4. staking'.deposit_amount = AtPool(promises[i], d) BY <2>1, <2>2, <2>3 DEF AtPool
  <2> QED BY <2>1, <2>2, <2>3, <2>4, EndMoney
<1>5. ASSUME promises[i].op \in ViewOps \ {"total"}, promises[i].stage = "callback",
             NEW op \in PoolOps \ DepositOps, Then(i, op, promises[i].amount),
             UNCHANGED <<staking, balance>>, CallbackUnchanged
      PROVE  MoneyOK'
  BY <1>5, FollowMoney
<1>6. /\ {"stake", "unstake", "unstake_all", "unstake_for_termination", "unstaked_by_owner",
          "staked_to_unstake", "unstaked_to_withdraw"} \cup ViewOps
            \subseteq PoolOps \ (DepositOps \cup WithdrawOps)
      /\ {"withdraw", "withdraw_for_termination"} \subseteq WithdrawOps
      /\ {"withdraw", "unstake_for_termination", "withdraw_for_termination"}
            \subseteq PoolOps \ DepositOps
      /\ {"unstaked_by_owner", "staked_to_unstake", "unstaked_to_withdraw"}
            \subseteq ViewOps \ {"total"}
  BY DEF PoolOps, DepositOps, WithdrawOps, OtherOps, ViewOps
<1>7. CASE on_whitelist_is_whitelisted(i)
  <2>1. /\ promises[i].op = "is_whitelisted" /\ promises' = [promises EXCEPT ![i] = NoPromise]
        /\ UNCHANGED <<balance, incoming, pools, fullKey>>
    BY <1>7 DEF on_whitelist_is_whitelisted, Callback, Done, CallbackUnchanged, world
  <2>2. promises[i].op \notin PoolOps /\ promises[i].op # "withdraw_unvested"
    BY <2>1, OpFacts
  <2>3. \/ staking' = staking
        \/ /\ staking.pool = NoPool /\ staking'.pool \in Pools \cup {NoPool}
           /\ staking'.deposit_amount = 0
    BY <1>0, <1>7 DEF on_whitelist_is_whitelisted, assert_staking_pool_is_not_selected,
       Selected, PromiseType
  <2> QED BY <2>1, <2>2, <2>3, AloneInFlight, QuestionMoney
<1>8. CASE on_get_result_from_transfer_poll(i)
  <2>1. /\ promises[i].op = "poll" /\ promises' = [promises EXCEPT ![i] = NoPromise]
        /\ UNCHANGED <<staking, balance, incoming, pools, fullKey>>
    BY <1>8 DEF on_get_result_from_transfer_poll, Callback, Done, world
  <2>2. promises[i].op \notin PoolOps /\ promises[i].op # "withdraw_unvested"
    BY <2>1, OpFacts
  <2> QED BY <2>1, <2>2, AloneInFlight, QuestionMoney
<1>9. CASE on_staking_pool_deposit(i) \/ on_staking_pool_deposit_and_stake(i)
  BY <1>1, <1>9 DEF on_staking_pool_deposit, on_staking_pool_deposit_and_stake, DepositOps
<1>10. CASE on_staking_pool_withdraw(i) \/ on_staking_pool_withdraw_for_termination(i)
  BY <1>2, <1>6, <1>10 DEF on_staking_pool_withdraw,
     on_staking_pool_withdraw_for_termination, Callback
<1>11. CASE \/ on_staking_pool_stake(i) \/ on_staking_pool_unstake(i)
            \/ on_staking_pool_unstake_all(i) \/ on_staking_pool_unstake_for_termination(i)
  <2>1. /\ promises[i].op \in {"stake", "unstake", "unstake_all", "unstake_for_termination"}
        /\ promises[i].stage = "callback" /\ Done(i) /\ set_staking_pool_status("Idle")
        /\ UNCHANGED balance /\ CallbackUnchanged
    BY <1>11 DEF on_staking_pool_stake, on_staking_pool_unstake, on_staking_pool_unstake_all,
       on_staking_pool_unstake_for_termination, ReleaseLock, Callback
  <2>2. promises[i].op # "total" BY <2>1
  <2> QED BY <1>3, <1>6, <2>1, <2>2
<1>12. CASE ViewFailed(i) BY <1>3, <1>6, <1>12 DEF ViewFailed
<1>13. CASE on_get_account_unstaked_balance_to_withdraw_by_owner(i)
  BY <1>3, <1>5, <1>6, <1>13
     DEF on_get_account_unstaked_balance_to_withdraw_by_owner, Callback
<1>14. CASE on_get_account_staked_balance_to_unstake(i)
  BY <1>3, <1>5, <1>6, <1>14 DEF on_get_account_staked_balance_to_unstake, Callback
<1>15. CASE on_get_account_unstaked_balance_to_withdraw(i)
  BY <1>3, <1>5, <1>6, <1>15 DEF on_get_account_unstaked_balance_to_withdraw, Callback
<1>16. CASE on_withdraw_unvested_amount(i) BY <1>16, PaidMoney
<1> QED
  BY <1>4, <1>7, <1>8, <1>9, <1>10, <1>11, <1>12, <1>13, <1>14, <1>15, <1>16 DEF Callbacks

(* What a pool does with a call moves the account's tokens on it. *)
LEMMA PoolEffectMoney ==
    ASSUME NEW b \in [staked : Nat, unstaked : Nat], NEW m \in Nat,
           NEW op \in PoolOps \ ViewOps, PoolAccepts(op, b, m)
    PROVE  /\ op \in DepositOps => Held(PoolEffect(op, b, m)) = Held(b) + m
           /\ op \in WithdrawOps => m <= Held(b) /\ Held(PoolEffect(op, b, m)) = Held(b) - m
           /\ op \notin DepositOps \cup WithdrawOps => Held(PoolEffect(op, b, m)) = Held(b)
<1>1. CASE op \in WithdrawOps
  BY <1>1 DEF PoolAccepts, PoolEffect, WithdrawOps, DepositOps, Held
<1>2. CASE op \in DepositOps
  BY <1>2 DEF PoolEffect, WithdrawOps, DepositOps, Held
<1>3. CASE op = "stake" BY <1>3 DEF PoolAccepts, PoolEffect, WithdrawOps, DepositOps, Held
<1>4. CASE op \in {"unstake", "unstake_for_termination"}
  BY <1>4 DEF PoolAccepts, PoolEffect, WithdrawOps, DepositOps, Held
<1>5. CASE op = "unstake_all"
  BY <1>5 DEF PoolEffect, WithdrawOps, DepositOps, Held
<1> QED
  BY <1>1, <1>2, <1>3, <1>4, <1>5 DEF PoolOps, DepositOps, WithdrawOps, OtherOps, ViewOps

(* The executions of calls. *)
LEMMA ExecutionMoney ==
    ASSUME IInv, IInv', ShadowedNow', MoneyOK, get_locked_amount' <= get_locked_amount,
           NEW i \in Ids, Executions(i)
    PROVE  MoneyOK'
<1> DEFINE c == promises[i]
           m == promises[i].amount
           d == staking.deposit_amount
           h == Held(pools[staking.pool])
           h2 == Held(pools'[staking.pool])
           x == OnTheWay(promises[i])
<1>0. /\ promises \in [Ids -> PromiseType] /\ c \in PromiseType /\ m \in Nat /\ d \in Nat
      /\ incoming \in Nat /\ incoming' \in Nat
  BY Numbers DEF IInv, TypeOK
<1>1. c.op \in PoolOps => c.pool = staking.pool /\ staking.pool \in Pools /\ h \in Nat
  BY Numbers DEF IInv, PoolLock
<1>2. CASE PoolExecutes(i)
  <2>1. /\ c.op \in PoolOps /\ c.op \in PoolOps \ ViewOps /\ c.op # "total"
        /\ c.stage = "call" /\ Resolve(i, TRUE, m)
        /\ PoolAccepts(c.op, pools[staking.pool], m)
        /\ pools' = [pools EXCEPT ![staking.pool] = PoolEffect(c.op, pools[staking.pool], m)]
        /\ incoming' = IF c.op \in WithdrawOps THEN incoming + m ELSE incoming
        /\ UNCHANGED <<contract, balance, fullKey>>
    BY <1>1, <1>2 DEF PoolExecutes, ViewOps
  <2>2. pools[staking.pool] \in [staked : Nat, unstaked : Nat] BY <1>1, <2>1, Numbers
  <2>3. /\ c.op \in DepositOps => h2 = h + m
        /\ c.op \in WithdrawOps => m <= h /\ h2 = h - m
        /\ c.op \notin DepositOps \cup WithdrawOps => h2 = h
    <3>1. h2 = Held(PoolEffect(c.op, pools[staking.pool], m)) BY <1>1, <2>1, Numbers
    <3> QED BY <1>0, <2>1, <2>2, <3>1, PoolEffectMoney
  <2>4. ~(c.op \in DepositOps /\ c.op \in WithdrawOps) BY DEF DepositOps, WithdrawOps
  <2>5. x = IF c.op \in DepositOps THEN m ELSE 0 BY <2>1 DEF OnTheWay
  <2> DEFINE e2 == CASE c.op \in DepositOps -> d + m
                     [] c.op \in WithdrawOps -> SatSub(d, m)
                     [] c.op \notin DepositOps \cup WithdrawOps -> d
  <2>6. /\ c.op \in DepositOps => e2 = d + m
        /\ c.op \in WithdrawOps => e2 = SatSub(d, m)
        /\ c.op \notin DepositOps \cup WithdrawOps => e2 = d
    BY <2>4
  <2> HIDE DEF c, m, d, h, h2, x, e2
  <2>7. /\ e2 \in Nat
        /\ d <= h => e2 <= h2 /\ incoming' + e2 >= incoming + (d + x)
    <3>0. h \in Nat BY <1>1, <2>1
    <3>1. CASE c.op \in DepositOps
      BY <1>0, <2>1, <2>3, <2>4, <2>5, <2>6, <3>0, <3>1
    <3>2. CASE c.op \in WithdrawOps
      <4>1. e2 = SatSub(d, m) /\ h2 = h - m /\ m <= h /\ x = 0 /\ incoming' = incoming + m
        BY <2>1, <2>3, <2>4, <2>5, <2>6, <3>2
      <4> QED BY <1>0, <3>0, <4>1 DEF SatSub
    <3>3. CASE c.op \notin DepositOps \cup WithdrawOps
      <4>1. e2 = d /\ h2 = h /\ x = 0 /\ incoming' = incoming
        BY <2>1, <2>3, <2>5, <2>6, <3>3
      <4> QED BY <1>0, <3>0, <4>1
    <3> QED BY <3>1, <3>2, <3>3
  <2> QED BY <1>0, <2>1, <2>6, <2>7, ResolveMoney DEF c, m, d, h, h2, x
<1>3. CASE PoolFails(i)
  <2>1. /\ c.op \in PoolOps /\ c.stage = "call" /\ Resolve(i, FALSE, m)
        /\ incoming' = IF c.op \in DepositOps THEN incoming + m ELSE incoming
        /\ UNCHANGED <<contract, balance, pools, fullKey>>
    BY <1>3 DEF PoolFails, world
  <2>2. x = IF c.op \in DepositOps THEN m ELSE 0 BY <2>1 DEF OnTheWay
  <2> HIDE DEF x
  <2>3. incoming' + d >= incoming + (d + x) BY <1>0, <2>1, <2>2
  <2> QED BY <1>0, <2>1, <2>3, ResolveMoney DEF x
<1>4. ASSUME NEW ok \in ViewOutcomes, ViewExecutes(i, ok)
      PROVE  MoneyOK'
  <2> DEFINE a == IF ok THEN ViewResult(c.op, pools[c.pool]) ELSE 0
             e2 == IF ok /\ c.op = "total" THEN a ELSE d
  <2>1. /\ c.op \in ViewOps /\ c.stage = "call" /\ Resolve(i, ok, a)
        /\ UNCHANGED <<contract, balance, incoming, pools, fullKey>>
    BY <1>4 DEF ViewExecutes, world
  <2>2. c.op \in PoolOps /\ c.op \notin DepositOps \cup WithdrawOps
    BY <2>1 DEF PoolOps, ViewOps, DepositOps, WithdrawOps
  <2>3. ok \in BOOLEAN BY InitialAssumption
  <2>4. /\ a \in Nat
        /\ ok /\ c.op = "total" => a = h
    <3>1. pools[c.pool] \in [staked : Nat, unstaked : Nat] BY <1>1, <2>2, Numbers
    <3>2. /\ ViewResult(c.op, pools[c.pool]) \in Nat
          /\ c.op = "total" => ViewResult(c.op, pools[c.pool]) = Held(pools[c.pool])
      BY <3>1 DEF ViewResult, Held
    <3> QED BY <1>1, <2>2, <3>2
  <2>5. x = 0 BY <2>1, <2>2 DEF OnTheWay
  <2>6. h2 = h BY <2>1
  <2>7. ok /\ c.op = "total" => e2 = a OBVIOUS
  <2>8. ~(ok /\ c.op = "total") => e2 = d OBVIOUS
  <2>9. incoming' = incoming BY <2>1
  <2> HIDE DEF a, e2, c, d, h, h2, x
  <2>10. /\ e2 \in Nat /\ (d <= h => e2 <= h2)
         /\ d <= h => incoming' + e2 >= incoming + (d + x)
    <3>1. h \in Nat BY <1>1, <2>2
    <3>2. CASE ok /\ c.op = "total"
      BY <1>0, <2>4, <2>5, <2>6, <2>7, <2>9, <3>1, <3>2
    <3>3. CASE ~(ok /\ c.op = "total")
      BY <1>0, <2>5, <2>6, <2>8, <2>9, <3>1, <3>3
    <3> QED BY <3>2, <3>3
  <2> QED
    BY <1>0, <2>1, <2>2, <2>3, <2>4, <2>7, <2>8, <2>10, ResolveMoney DEF c, d, h, h2, x
<1>5. ASSUME NEW ok \in BOOLEAN, NEW a \in Nat, Resolve(i, ok, a),
             c.op \in {"poll", "is_whitelisted"},
             UNCHANGED <<contract, balance, incoming, pools, fullKey>>
      PROVE  MoneyOK'
  <2> DEFINE q == [promises[i] EXCEPT !.stage = "callback", !.ok = ok, !.amount = a]
  <2>1. promises' = [promises EXCEPT ![i] = q] BY <1>0, <1>5 DEF Resolve
  <2>2. q \in PromiseType /\ q.op = c.op BY <1>0, <1>5 DEF PromiseType
  <2>3. c.op \notin PoolOps /\ c.op # "withdraw_unvested" BY <1>5, OpFacts
  <2>4. UNCHANGED <<staking, balance, incoming, pools, fullKey>> BY <1>5 DEF contract
  <2> HIDE DEF q
  <2> QED BY <2>1, <2>2, <2>3, <2>4, QuestionMoney
<1>6. ASSUME NEW ok \in ViewOutcomes, PollExecutes(i, ok)
      PROVE  MoneyOK'
  <2>1. poll.timestamp \in Nat /\ ok \in BOOLEAN
    BY InitialAssumption DEF IInv, TypeOK, TransfersType
  <2>2. (IF ok /\ poll.enabled THEN poll.timestamp + 1 ELSE 0) \in Nat BY <2>1
  <2> QED BY <1>5, <1>6, <2>1, <2>2 DEF PollExecutes, world
<1>7. ASSUME NEW ok \in BOOLEAN, WhitelistExecutes(i, ok)
      PROVE  MoneyOK'
  BY <1>5, <1>7 DEF WhitelistExecutes, world
<1>8. ASSUME NEW ok \in BOOLEAN, TransferExecutes(i, ok)
      PROVE  MoneyOK'
  BY <1>8, PaymentMoney
<1> QED BY <1>2, <1>3, <1>4, <1>6, <1>7, <1>8 DEF Executions

(* Arriving tokens, rewards, the vote and time. *)
LEMMA WorldMoney ==
    ASSUME IInv, IInv', ShadowedNow', MoneyOK, get_locked_amount' <= get_locked_amount,
           \/ \E m \in 1 .. incoming : Arrive(m)
           \/ \E p \in Pools : PoolReward(p)
           \/ VoteTransfers
           \/ Tick
           \/ UNCHANGED vars
    PROVE  MoneyOK'
<1>0. /\ balance \in Nat /\ incoming \in Nat
      /\ pools \in [Pools -> [staked : Nat, unstaked : Nat]]
  BY Numbers
<1>1. ASSUME NEW m \in 1 .. incoming, Arrive(m)
      PROVE  MoneyOK'
  <2>1. /\ UNCHANGED <<staking, promises, pools, fullKey>>
        /\ incoming' = incoming - m /\ balance' = balance + m
    BY <1>1 DEF Arrive, contract, world
  <2>2. balance + incoming <= balance' + incoming'
    <3>1. m \in Nat /\ m <= incoming BY <1>0
    <3> QED BY <1>0, <2>1, <3>1
  <2>3. \A p \in Pools : Held(pools[p]) <= Held(pools'[p]) BY <2>1, Numbers
  <2> QED BY <2>1, <2>2, <2>3, QuietMoney
<1>2. ASSUME NEW p \in Pools, PoolReward(p)
      PROVE  MoneyOK'
  <2>1. /\ UNCHANGED <<staking, promises, balance, incoming, fullKey>>
        /\ pools' = [pools EXCEPT ![p].staked = @ + 1]
    BY <1>2 DEF PoolReward, contract
  <2>2. balance + incoming <= balance' + incoming' BY <1>0, <2>1
  <2>3. ASSUME NEW r \in Pools
        PROVE  Held(pools[r]) <= Held(pools'[r])
    <3>1. /\ pools[r].staked \in Nat /\ pools[r].unstaked \in Nat
          /\ pools'[r].unstaked = pools[r].unstaked
          /\ pools'[r].staked \in {pools[r].staked, pools[r].staked + 1}
      BY <1>0, <2>1
    <3> QED BY <3>1 DEF Held
  <2> QED BY <2>1, <2>2, <2>3, QuietMoney
<1>3. CASE VoteTransfers BY <1>3, StillMoney DEF VoteTransfers, contract
<1>4. CASE Tick BY <1>4, StillMoney DEF Tick, contract
<1>5. CASE UNCHANGED vars BY <1>5, StillMoney DEF vars, contract, world
<1> QED BY <1>1, <1>2, <1>3, <1>4, <1>5

(* Every step. *)
LEMMA MoneyStep ==
    ASSUME IInv, IInv', ShadowedNow, ShadowedNow', MoneyOK,
           get_locked_amount' <= get_locked_amount, [Next]_vars
    PROVE  MoneyOK'
<1>1. CASE OwnerMethods BY <1>1, OwnerMoney
<1>2. CASE FoundationMethods BY <1>2, FoundationMoney
<1>3. ASSUME NEW i \in Ids, Callbacks(i) \/ Executions(i)
      PROVE  MoneyOK'
  BY <1>3, CallbackMoney, ExecutionMoney
<1>4. CASE \/ \E m \in 1 .. incoming : Arrive(m)
           \/ \E p \in Pools : PoolReward(p)
           \/ VoteTransfers
           \/ Tick
           \/ UNCHANGED vars
  BY <1>4, WorldMoney
<1> QED BY <1>1, <1>2, <1>3, <1>4 DEF Next

(* At `new` the account holds the lockup amount. *)
LEMMA MoneyInit ==
    ASSUME IInv, ShadowedNow, Init
    PROVE  MoneyOK
<1>1. \A i \in Ids : promises[i] = NoPromise BY DEF Init
<1>2. /\ staking.pool = NoPool /\ staking.deposit_amount = 0
      /\ balance = LockupAmount /\ incoming = 0 /\ withdrawn = 0
  BY DEF Init, NoStaking
<1>3. Known(promises, staking.deposit_amount, 0, 0) /\ Paying(promises, 0)
  BY <1>1, <1>2, AloneInFlight DEF Known, Paying
<1>4. get_locked_amount <= LockupAmount
  <2>1. /\ LockedAt(transfers, withdrawn, vesting, now) \in Nat
        /\ LockedAt(transfers, withdrawn, vesting, now) <= LockupAmount - withdrawn
    BY TermsNow, LockedBounds
  <2> QED BY <1>2, <2>1, Getters, AmountsAssumption
<1>5. (balance + incoming) + ((0 + 0) + 0) >= get_locked_amount
  BY <1>2, <1>4, LockedIsNat, AmountsAssumption
<1>6. Covered(0, 0, 0) BY <1>2, <1>3, <1>5 DEF Covered
<1> QED BY <1>6 DEF MoneyOK

----------------------------------------------------------------------------
(* The theorems. *)

(* Every private schedule that `new` may be given is shadowed by the lockup *)
(* and release periods.                                                     *)
PrivateSchedulesShadowed ==
    \A v \in InitialVestings : v.kind = "VestingHash" => Shadowed(v.schedule)

(* The inductive invariant of what is locked and of what covers it. *)
FundsInv == IInv /\ ShadowedNow /\ FullKeyOnlyWhenFree /\ MoneyOK

(* The invariant holds in every reachable state, and no step locks again. *)
LEMMA FundsInductive ==
    ASSUME ValidSchedules, PrivateSchedulesShadowed
    PROVE  Spec => []FundsInv /\ LockedNeverGrows
<1>1. Init => FundsInv
  <2> SUFFICES ASSUME Init PROVE FundsInv OBVIOUS
  <2>1. IInv BY InitStep
  <2>2. ShadowedNow BY DEF Init, ShadowedNow, PrivateSchedulesShadowed
  <2>3. FullKeyOnlyWhenFree BY DEF Init, FullKeyOnlyWhenFree
  <2>4. MoneyOK BY <2>1, <2>2, MoneyInit
  <2> QED BY <2>1, <2>2, <2>3, <2>4 DEF FundsInv
<1>2. FundsInv /\ [Next]_vars => FundsInv' /\ [get_locked_amount' <= get_locked_amount]_vars
  <2> SUFFICES ASSUME FundsInv, [Next]_vars
               PROVE  FundsInv' /\ get_locked_amount' <= get_locked_amount
    OBVIOUS
  <2>1. IInv' BY NextStep DEF FundsInv
  <2>2. TermsMove BY TermsStep DEF FundsInv
  <2>3. ShadowedNow' /\ get_locked_amount' <= get_locked_amount
    BY <2>1, <2>2, LockedFalls DEF FundsInv
  <2>4. FullKeyOnlyWhenFree' BY <2>1, <2>2, <2>3, KeyStep DEF FundsInv
  <2>5. MoneyOK' BY <2>1, <2>3, MoneyStep DEF FundsInv
  <2> QED BY <2>1, <2>3, <2>4, <2>5 DEF FundsInv
<1> QED BY <1>1, <1>2, PTL DEF Spec, LockedNeverGrows

(* What is not vested is locked, whatever the owner delegates and whenever  *)
(* the foundation terminates: the subtraction of get_locked_vested_amount   *)
(* cannot underflow.  A private schedule is not counted by                  *)
(* get_locked_amount before it is revealed, hence the second assumption.    *)
THEOREM UnvestedIsLocked ==
    ASSUME ValidSchedules, PrivateSchedulesShadowed
    PROVE  Spec => []LockedCoversUnvested
<1>1. FundsInv => LockedCoversUnvested
  <2> SUFFICES ASSUME FundsInv PROVE LockedCoversUnvested OBVIOUS
  <2>1. /\ LockedAt(transfers, withdrawn, vesting, now) \in Nat
        /\ UnvestedOf(vesting, now) \in Nat
        /\ UnvestedOf(vesting, now) <= LockedAt(transfers, withdrawn, vesting, now)
    BY TermsNow, LockedBounds DEF FundsInv
  <2> QED BY <2>1, Getters DEF LockedCoversUnvested
<1> QED BY <1>1, FundsInductive, PTL

(* No step locks tokens again that were released: neither time, nor the     *)
(* vote, nor a termination, nor the end of a payment.                       *)
THEOREM ReleasedStaysReleased ==
    ASSUME ValidSchedules, PrivateSchedulesShadowed
    PROVE  Spec => LockedNeverGrows
BY FundsInductive, PTL

(* An owner that holds a full access key owns everything in the account,    *)
(* and the foundation can terminate nothing any more.                       *)
THEOREM FullKeyMeansFree ==
    ASSUME ValidSchedules, PrivateSchedulesShadowed
    PROVE  Spec => []FullKeyOnlyWhenFree
<1>1. FundsInv => FullKeyOnlyWhenFree BY DEF FundsInv
<1> QED BY <1>1, FundsInductive, PTL

(* Between transactions the account, what is on its way to it and the known *)
(* deposit cover what is locked, whatever transfers, operations on the pool *)
(* and payments to the foundation went before, answered or failed.          *)
THEOREM LockedFundsAreThere ==
    ASSUME ValidSchedules, PrivateSchedulesShadowed
    PROVE  Spec => []LockedFundsAreKept
<1>1. FundsInv => LockedFundsAreKept
  <2> SUFFICES ASSUME FundsInv, InFlight(PoolOps \cup TerminationOps) = {}, ~fullKey
               PROVE  (balance + incoming) + get_known_deposited_balance >= get_locked_amount
    BY DEF LockedFundsAreKept
  <2>1. PICK e \in Nat, x \in Nat, u \in Nat : Covered(e, x, u) BY DEF FundsInv, MoneyOK
  <2>2. /\ \A i \in Ids : promises[i].op \notin PoolOps
        /\ \A i \in Ids : promises[i].op # "withdraw_unvested"
    BY OpFacts DEF InFlight
  <2>3. e = staking.deposit_amount /\ x = 0 /\ u = 0
    BY <2>1, <2>2 DEF Covered, Known, Paying
  <2>4. get_known_deposited_balance = staking.deposit_amount
    BY <2>1 DEF Covered, get_known_deposited_balance, Selected
  <2>5. (balance + incoming) + ((e + x) + u) >= get_locked_amount BY <2>1 DEF Covered
  <2>6. balance \in Nat /\ incoming \in Nat /\ staking.deposit_amount \in Nat
    BY Numbers DEF FundsInv
  <2> QED BY <2>3, <2>4, <2>5, <2>6
<1> QED BY <1>1, FundsInductive, PTL
=============================================================================
