------------------------------- MODULE Voting -------------------------------
(***************************************************************************)
(* The voting contract (src/voting/src/lib.rs): validators vote to unlock  *)
(* transfers; the poll ends, once and for all, when the voters hold more   *)
(* than two thirds of the stake.  Stakes change from one epoch to the      *)
(* next, and the contract refreshes its votes when it is first called in   *)
(* an epoch.  Epochs and stakes belong to the protocol (external).         *)
(***************************************************************************)
EXTENDS Integers, FiniteSets, Sums

CONSTANTS
    Validators,  \* accounts that may call the contract
    Stakes,      \* stakes an account may have in an epoch; 0: no validator
    MaxEpoch,    \* bound: epochs
    MaxTime      \* bound: block timestamps

ASSUME ValidatorsAssumption == IsFiniteSet(Validators)
ASSUME StakesAssumption == Stakes \subseteq Nat
ASSUME BoundsAssumption == MaxEpoch \in Nat /\ MaxTime \in Nat

VARIABLES
    votes,             \* votes; 0 for an account without a vote
    total_voted_stake,
    result,            \* 0 for None, else the timestamp plus one
    last_epoch_height,
    epoch,             \* env::epoch_height()
    stake,             \* env::validator_stake()
    now                \* env::block_timestamp()

poll == <<votes, total_voted_stake, result, last_epoch_height>>
chain == <<epoch, stake, now>>
vars == <<poll, chain>>

SumOf(f) == SumOver(f, Validators)

validator_total_stake == SumOf(stake)

(* Whether, and when, a poll with the given voted stake ends. *)
check_result(voted) ==
    IF voted > (2 * validator_total_stake) \div 3 THEN now + 1 ELSE 0

(* The contract's state after ping. *)
RefreshNeeded == epoch # last_epoch_height

(* Mutant: an account that lost its stake keeps its vote's weight. *)
RefreshedVotes_Mutant ==
    [v \in Validators |-> IF votes[v] > 0 /\ stake[v] > 0 THEN stake[v] ELSE votes[v]]

RefreshedVotes == [v \in Validators |-> IF votes[v] > 0 THEN stake[v] ELSE 0]

Pinged ==
    IF RefreshNeeded
    THEN LET voted == SumOf(RefreshedVotes)
         IN  [votes |-> RefreshedVotes, total |-> voted, result |-> check_result(voted)]
    ELSE [votes |-> votes, total |-> total_voted_stake, result |-> result]

ping ==
    /\ result = 0
    /\ votes' = Pinged.votes
    /\ total_voted_stake' = Pinged.total
    /\ result' = Pinged.result
    /\ last_epoch_height' = epoch
    /\ UNCHANGED chain

VotedTotal(p, v, account_stake) == p.total + account_stake - p.votes[v]

(* Mutant: the vote that completes the majority is not checked. *)
ResultAfterVote_Mutant(p, v, account_stake) == 0

ResultAfterVote(p, v, account_stake) ==
    IF account_stake > 0 THEN check_result(VotedTotal(p, v, account_stake)) ELSE 0

(* A vote pings first, and does nothing more when that ended the poll. *)
vote(v, is_vote) ==
    LET p == Pinged
        account_stake == IF is_vote THEN stake[v] ELSE 0
    IN  /\ result = 0
        /\ last_epoch_height' = epoch
        /\ IF p.result # 0
           THEN /\ votes' = p.votes
                /\ total_voted_stake' = p.total
                /\ result' = p.result
           ELSE /\ is_vote => stake[v] > 0
                /\ p.votes[v] <= p.total
                /\ votes' = [p.votes EXCEPT ![v] = account_stake]
                /\ total_voted_stake' = VotedTotal(p, v, account_stake)
                /\ result' = ResultAfterVote(p, v, account_stake)
        /\ UNCHANGED chain

AdvanceEpoch ==
    /\ epoch < MaxEpoch
    /\ epoch' = epoch + 1
    /\ stake' \in [Validators -> Stakes]
    /\ UNCHANGED <<poll, now>>

Tick ==
    /\ now < MaxTime
    /\ now' = now + 1
    /\ UNCHANGED <<poll, epoch, stake>>

Init ==
    /\ votes = [v \in Validators |-> 0]
    /\ total_voted_stake = 0
    /\ result = 0
    /\ last_epoch_height = 0
    /\ epoch \in 0 .. MaxEpoch
    /\ stake \in [Validators -> Stakes]
    /\ now = 0

Next ==
    \/ ping
    \/ \E v \in Validators, is_vote \in BOOLEAN : vote(v, is_vote)
    \/ AdvanceEpoch
    \/ Tick

Spec == Init /\ [][Next]_vars

----------------------------------------------------------------------------
(* Properties. *)

(* The stake, in the current epoch, of the accounts that have a vote.       *)
CurrentVotedStake(vs) ==
    SumOf([v \in Validators |-> IF vs[v] > 0 THEN stake[v] ELSE 0])

(* An open poll that was called in this epoch has no majority: a majority   *)
(* is never missed because a vote, a withdrawal or a refresh came last.     *)
NoMissedMajority ==
    result = 0 /\ last_epoch_height = epoch =>
        3 * CurrentVotedStake(votes) <= 2 * validator_total_stake

(* The poll ends only by voters who hold more than two thirds of the stake  *)
(* now; votes with the stake of an earlier epoch never decide it.           *)
EndsByCurrentMajority ==
    [][result = 0 /\ result' # 0 =>
        3 * CurrentVotedStake(votes') > 2 * validator_total_stake]_vars
=============================================================================
