---------------------------- MODULE VotingProofs ----------------------------
(***************************************************************************)
(* Proofs about the voting contract, for any number of validators and any  *)
(* stakes: while the poll is open its votes are stakes of the current      *)
(* epoch once the contract was called in it, and its total is their sum.   *)
(***************************************************************************)
EXTENDS Voting, SumTheorems

TypeOK ==
    /\ votes \in [Validators -> Nat]
    /\ total_voted_stake \in Nat
    /\ result \in Nat
    /\ last_epoch_height \in Nat
    /\ epoch \in Nat
    /\ stake \in [Validators -> Nat]
    /\ now \in Nat

(* Every vote has the weight of its account's current stake, or is none. *)
CurrentVotes(vs) == \A v \in Validators : vs[v] = 0 \/ vs[v] = stake[v]

IInv ==
    /\ TypeOK
    /\ total_voted_stake = SumOf(votes)
    /\ last_epoch_height <= epoch
    /\ last_epoch_height = epoch => CurrentVotes(votes)
    /\ NoMissedMajority

USE StakesAssumption, BoundsAssumption, ValidatorsAssumption

(* The stake of all validators is a natural number.                         *)
LEMMA SumOfType ==
    ASSUME NEW f \in [Validators -> Nat] PROVE SumOf(f) \in Nat
BY SumIsNat DEF SumOf

(* Of votes with current weights, the voted stake is simply the sum. *)
LEMMA VotedStakeIsSum ==
    ASSUME NEW vs \in [Validators -> Nat], stake \in [Validators -> Nat], CurrentVotes(vs)
    PROVE  CurrentVotedStake(vs) = SumOf(vs)
<1> DEFINE f == [v \in Validators |-> IF vs[v] > 0 THEN stake[v] ELSE 0]
<1>1. \A v \in Validators : vs[v] \in Int /\ f[v] = vs[v]
    BY DEF CurrentVotes
<1> HIDE DEF f
<1>2. SumOver(f, Validators) = SumOver(vs, Validators)
    BY <1>1, SumCongruence
<1> QED BY <1>2 DEF f, CurrentVotedStake, SumOf

(* The contract divides the total before it compares. *)
LEMMA Majority ==
    ASSUME NEW voted \in Nat, NEW total \in Nat
    PROVE  voted > (2 * total) \div 3 <=> 3 * voted > 2 * total
<1> DEFINE q == (2 * total) \div 3
<1>1. q \in Nat /\ 3 * q <= 2 * total /\ 2 * total < 3 * q + 3
    OBVIOUS
<1> HIDE DEF q
<1>2. voted > q <=> 3 * voted > 2 * total
    BY <1>1
<1> QED BY <1>2 DEF q

(* check_result decides exactly by two thirds, in spite of the division.    *)
LEMMA CheckedResult ==
    ASSUME TypeOK, NEW voted \in Nat
    PROVE  /\ check_result(voted) \in Nat
           /\ check_result(voted) = 0 <=> 3 * voted <= 2 * validator_total_stake
<1> DEFINE total == validator_total_stake
<1>1. total \in Nat /\ now \in Nat
    BY SumOfType DEF validator_total_stake, TypeOK
<1>2. check_result(voted) = IF voted > (2 * total) \div 3 THEN now + 1 ELSE 0
    BY DEF check_result
<1> HIDE DEF total
<1>3. voted > (2 * total) \div 3 <=> 3 * voted > 2 * total
    BY <1>1, Majority
<1>4. check_result(voted) \in Nat /\ (check_result(voted) = 0 <=> 3 * voted <= 2 * total)
    BY <1>1, <1>2, <1>3
<1> QED BY <1>4 DEF total

(* What ping leaves behind: current votes, their sum, and an open poll only *)
(* without a majority.                                                      *)
LEMMA AfterPing ==
    ASSUME IInv, result = 0
    PROVE  /\ Pinged.votes \in [Validators -> Nat]
           /\ CurrentVotes(Pinged.votes)
           /\ Pinged.total = SumOf(Pinged.votes)
           /\ Pinged.total \in Nat
           /\ Pinged.result \in Nat
           /\ Pinged.result = 0 <=> 3 * Pinged.total <= 2 * validator_total_stake
<1>0. TypeOK /\ votes \in [Validators -> Nat] /\ stake \in [Validators -> Nat] /\ result \in Nat
    BY DEF IInv, TypeOK
<1>1. CASE RefreshNeeded
  <2> DEFINE vs == RefreshedVotes
  <2>1. vs \in [Validators -> Nat] /\ CurrentVotes(vs)
    BY <1>0 DEF RefreshedVotes, CurrentVotes
  <2>2. /\ Pinged.votes = vs /\ Pinged.total = SumOf(vs)
        /\ Pinged.result = check_result(SumOf(vs))
    BY <1>1 DEF Pinged
  <2>3. SumOf(vs) \in Nat
    BY <2>1, SumOfType
  <2> HIDE DEF vs
  <2> QED BY <1>0, <2>1, <2>2, <2>3, CheckedResult
<1>2. CASE ~RefreshNeeded
  <2>1. Pinged.votes = votes /\ Pinged.total = total_voted_stake /\ Pinged.result = result
    BY <1>2 DEF Pinged
  <2>2. last_epoch_height = epoch /\ CurrentVotes(votes)
    BY <1>2 DEF RefreshNeeded, IInv
  <2>3. total_voted_stake = SumOf(votes) /\ total_voted_stake \in Nat
    BY DEF IInv, TypeOK
  <2>4. 3 * total_voted_stake <= 2 * validator_total_stake
    BY <1>0, <2>2, <2>3, VotedStakeIsSum DEF IInv, NoMissedMajority
  <2> QED BY <1>0, <2>1, <2>2, <2>3, <2>4
<1> QED BY <1>1, <1>2

(* What vote leaves behind when the ping did not end the poll. *)
LEMMA AfterVote ==
    ASSUME IInv, result = 0, Pinged.result = 0,
           NEW v \in Validators, NEW account_stake \in {0, stake[v]}
    PROVE  LET vs == [Pinged.votes EXCEPT ![v] = account_stake]
               total == VotedTotal(Pinged, v, account_stake)
               res == ResultAfterVote(Pinged, v, account_stake)
           IN  /\ vs \in [Validators -> Nat]
               /\ CurrentVotes(vs)
               /\ total = SumOf(vs)
               /\ total \in Nat
               /\ res \in Nat
               /\ res = 0 <=> 3 * total <= 2 * validator_total_stake
<1> DEFINE ps == Pinged.votes
           pt == Pinged.total
           vs == [ps EXCEPT ![v] = account_stake]
           total == VotedTotal(Pinged, v, account_stake)
           res == ResultAfterVote(Pinged, v, account_stake)
           all == validator_total_stake
<1>0. TypeOK /\ stake \in [Validators -> Nat] /\ account_stake \in Nat
    BY DEF IInv, TypeOK
<1>1. /\ ps \in [Validators -> Nat] /\ CurrentVotes(ps) /\ pt = SumOf(ps)
      /\ pt \in Nat /\ 3 * pt <= 2 * all
    BY AfterPing
<1>2. total = pt + account_stake - ps[v]
    BY DEF VotedTotal
<1>3. all \in Nat
    BY <1>0, SumOfType DEF validator_total_stake
<1>4. res = IF account_stake > 0 THEN check_result(total) ELSE 0
    BY DEF ResultAfterVote
<1> HIDE DEF ps, pt, total, res, all
<1>5. vs \in [Validators -> Nat] /\ CurrentVotes(vs)
    BY <1>0, <1>1 DEF CurrentVotes
<1>6. total = SumOf(vs)
  <2>1. SumOver(vs, Validators) = SumOver(ps, Validators) - ps[v] + vs[v]
    <3>1. /\ \A x \in Validators : ps[x] \in Int /\ vs[x] \in Int
          /\ \A x \in Validators \ {v} : vs[x] = ps[x]
      BY <1>0, <1>1
    <3> HIDE DEF vs
    <3> QED BY <3>1, SumChanged
  <2>2. vs[v] = account_stake /\ ps[v] \in Nat
    BY <1>1
  <2> QED BY <1>0, <1>1, <1>2, <2>1, <2>2 DEF SumOf
<1> HIDE DEF vs
<1>7. total \in Nat
    BY <1>5, <1>6, SumOfType
<1>8. res \in Nat /\ (res = 0 <=> 3 * total <= 2 * all)
  <2>1. CASE account_stake > 0
    BY <1>0, <1>4, <1>7, <2>1, CheckedResult DEF all
  <2>2. CASE account_stake = 0
    <3>1. total <= pt
      BY <1>0, <1>1, <1>2, <1>7, <2>2
    <3> QED BY <1>1, <1>3, <1>4, <1>7, <2>2, <3>1
  <2> QED BY <1>0, <2>1, <2>2
<1> QED BY <1>5, <1>6, <1>7, <1>8 DEF vs, total, res, all, ps

(* A step of the contract in the current epoch keeps the invariant. *)
LEMMA PollStep ==
    ASSUME IInv, UNCHANGED chain, last_epoch_height' = epoch,
           votes' \in [Validators -> Nat],
           CurrentVotes(votes'),
           total_voted_stake' = SumOf(votes'),
           result' \in Nat,
           result' = 0 => 3 * total_voted_stake' <= 2 * validator_total_stake
    PROVE  IInv'
<1>1. TypeOK /\ epoch' = epoch /\ stake' = stake /\ now' = now
    BY DEF IInv, chain
<1>2. total_voted_stake' \in Nat
    BY SumOfType
<1>3. TypeOK'
    BY <1>1, <1>2 DEF TypeOK
<1>4. CurrentVotes(votes)' /\ SumOf(votes)' = SumOf(votes')
    BY <1>1 DEF CurrentVotes, SumOf
<1>5. CurrentVotedStake(votes') = SumOf(votes') /\ validator_total_stake' = validator_total_stake
    BY <1>1, VotedStakeIsSum DEF TypeOK, validator_total_stake, SumOf
<1>6. CurrentVotedStake(votes)' = CurrentVotedStake(votes')
    BY <1>1 DEF CurrentVotedStake, SumOf
<1>7. NoMissedMajority'
    BY <1>5, <1>6 DEF NoMissedMajority
<1>8. epoch \in Nat
    BY <1>1 DEF TypeOK
<1> QED BY <1>1, <1>3, <1>4, <1>7, <1>8 DEF IInv

(* A new poll has no votes.                                                 *)
LEMMA Initial == Init => IInv
<1> SUFFICES ASSUME Init PROVE IInv
    OBVIOUS
<1>1. TypeOK
  <2>1. votes \in [Validators -> Nat] /\ stake \in [Validators -> Nat]
    BY DEF Init
  <2>2. /\ total_voted_stake \in Nat /\ result \in Nat /\ last_epoch_height \in Nat
        /\ epoch \in Nat /\ now \in Nat
    BY DEF Init
  <2> QED BY <2>1, <2>2 DEF TypeOK
<1>2. \A v \in Validators : votes[v] = 0
    BY DEF Init
<1>3. SumOf(votes) = 0
    BY <1>2, SumOfZeros DEF SumOf
<1>4. CurrentVotes(votes)
    BY <1>2 DEF CurrentVotes
<1>5. CurrentVotedStake(votes) = 0 /\ validator_total_stake \in Nat
    BY <1>1, <1>3, <1>4, VotedStakeIsSum, SumOfType DEF TypeOK, validator_total_stake
<1> QED BY <1>1, <1>3, <1>4, <1>5 DEF IInv, Init, NoMissedMajority, TypeOK

(* What a call does to the poll. *)
LEMMA Called ==
    ASSUME IInv, ping \/ \E v \in Validators, is_vote \in BOOLEAN : vote(v, is_vote)
    PROVE  /\ result = 0 /\ UNCHANGED chain /\ last_epoch_height' = epoch
           /\ votes' \in [Validators -> Nat]
           /\ CurrentVotes(votes')
           /\ total_voted_stake' = SumOf(votes')
           /\ result' \in Nat
           /\ result' = 0 <=> 3 * total_voted_stake' <= 2 * validator_total_stake
<1>1. CASE ping
    BY <1>1, AfterPing DEF ping
<1>2. ASSUME NEW v \in Validators, NEW is_vote \in BOOLEAN, vote(v, is_vote)
      PROVE  /\ result = 0 /\ UNCHANGED chain /\ last_epoch_height' = epoch
             /\ votes' \in [Validators -> Nat]
             /\ CurrentVotes(votes')
             /\ total_voted_stake' = SumOf(votes')
             /\ result' \in Nat
             /\ result' = 0 <=> 3 * total_voted_stake' <= 2 * validator_total_stake
  <2> DEFINE account_stake == IF is_vote THEN stake[v] ELSE 0
  <2>1. result = 0 /\ UNCHANGED chain /\ last_epoch_height' = epoch
    BY <1>2 DEF vote
  <2>2. CASE Pinged.result # 0
    <3>1. votes' = Pinged.votes /\ total_voted_stake' = Pinged.total /\ result' = Pinged.result
      BY <1>2, <2>2 DEF vote
    <3> QED BY <2>1, <3>1, AfterPing
  <2>3. CASE Pinged.result = 0
    <3>1. /\ votes' = [Pinged.votes EXCEPT ![v] = account_stake]
          /\ total_voted_stake' = VotedTotal(Pinged, v, account_stake)
          /\ result' = ResultAfterVote(Pinged, v, account_stake)
      BY <1>2, <2>3 DEF vote
    <3>2. account_stake \in {0, stake[v]}
      OBVIOUS
    <3> HIDE DEF account_stake
    <3> QED BY <2>1, <2>3, <3>1, <3>2, AfterVote
  <2> QED BY <2>2, <2>3
<1> QED BY <1>1, <1>2

(* Every call and every change of epoch keeps the invariant.                *)
LEMMA Step == IInv /\ [Next]_vars => IInv'
<1> SUFFICES ASSUME IInv, [Next]_vars PROVE IInv'
    OBVIOUS
<1>1. CASE ping \/ \E v \in Validators, is_vote \in BOOLEAN : vote(v, is_vote)
    BY <1>1, Called, PollStep
<1>2. CASE AdvanceEpoch
  <2>1. UNCHANGED <<poll, now>> /\ epoch' = epoch + 1 /\ stake' \in [Validators -> Nat]
    BY <1>2 DEF AdvanceEpoch
  <2>2. TypeOK' /\ SumOf(votes)' = SumOf(votes)
    BY <2>1 DEF IInv, TypeOK, poll, SumOf
  <2>3. last_epoch_height' < epoch' /\ last_epoch_height' # epoch'
    BY <2>1 DEF IInv, TypeOK, poll
  <2> QED BY <2>1, <2>2, <2>3 DEF IInv, TypeOK, poll, NoMissedMajority
<1>3. CASE Tick
    BY <1>3 DEF Tick, IInv, TypeOK, poll, SumOf, CurrentVotes, NoMissedMajority,
                CurrentVotedStake, validator_total_stake
<1>4. CASE UNCHANGED vars
    BY <1>4 DEF vars, chain, IInv, TypeOK, poll, SumOf, CurrentVotes, NoMissedMajority,
                CurrentVotedStake, validator_total_stake
<1> QED BY <1>1, <1>2, <1>3, <1>4 DEF Next

(* An open poll that was called in the current epoch has no majority: a     *)
(* majority is never missed, whichever of a vote, a withdrawal, a refresh   *)
(* and a change of stakes comes last (ping, vote).                          *)
THEOREM MajorityIsNeverMissed == Spec => []NoMissedMajority
<1>1. IInv => NoMissedMajority BY DEF IInv
<1> QED BY <1>1, Initial, Step, PTL DEF Spec

(* Only a current majority ends the poll (check_result, ping, vote). *)
THEOREM OnlyMajorityEnds == Spec => EndsByCurrentMajority
<1>1. ASSUME IInv, [Next]_vars
      PROVE  [result = 0 /\ result' # 0 =>
                3 * CurrentVotedStake(votes') > 2 * validator_total_stake]_vars
  <2> SUFFICES ASSUME Next, result = 0, result' # 0
               PROVE  3 * CurrentVotedStake(votes') > 2 * validator_total_stake
    BY <1>1
  <2>1. ping \/ \E v \in Validators, is_vote \in BOOLEAN : vote(v, is_vote)
    BY DEF Next, AdvanceEpoch, Tick, poll
  <2>2. /\ votes' \in [Validators -> Nat] /\ CurrentVotes(votes')
        /\ total_voted_stake' = SumOf(votes')
        /\ ~(3 * total_voted_stake' <= 2 * validator_total_stake)
    BY <1>1, <2>1, Called
  <2>3. stake \in [Validators -> Nat]
    BY <1>1 DEF IInv, TypeOK
  <2>4. CurrentVotedStake(votes') = total_voted_stake' /\ total_voted_stake' \in Nat
        /\ validator_total_stake \in Nat
    BY <2>2, <2>3, VotedStakeIsSum, SumOfType DEF validator_total_stake
  <2> QED BY <2>2, <2>4
<1> QED BY <1>1, Initial, Step, PTL DEF Spec, EndsByCurrentMajority
=============================================================================
