# Formal models of the Unc core contracts

TLA+ models, TLC runs and TLAPS proofs for the smart contracts of this
repository. The contracts run on a blockchain of the NEAR family: a method runs
atomically and a panic rolls it back, while calls to other contracts are
*promises* that the runtime executes in later receipts, with a callback in a
receipt later again. Everything that is hard about these contracts lies between
those receipts, and in arithmetic that runs unattended for years.

## The system

| Component | State | Operations | Interaction |
|---|---|---|---|
| staking pool (`staking-pool/`) | accounts (unstaked, shares, unlock epoch), total shares and staked balance, last total balance, epoch, fee, paused | ping, deposit, deposit_and_stake, withdraw(_all), stake(_all), unstake(_all), update_staking_key, update_reward_fee_fraction, pause/resume, on_stake_action | issues stake actions to the protocol, with a callback |
| lockup (`lockup/`) | staking, vesting and transfers information, termination counters, foundation | 13 owner methods, 3 foundation methods, 15 callbacks | promises to staking pool, whitelist, transfer poll and the foundation's account |
| voting (`voting/`) | votes, voted stake, result, epoch | ping, vote | reads validator stakes; its result is what a lockup asks for |
| whitelist (`whitelist/`) | whitelisted pools, factories | add/remove pool and factory | asked by lockups; meant to be told by the factory |
| staking pool factory | created pool ids | create_staking_pool, callback | creates accounts by promise, refunds |
| lockup factory | configuration | create, callback | creates accounts by promise, refunds |
| multisig (`multisig/`) | members, requests, confirmations, nonces | add, confirm, delete request; member actions | executes actions as promises |
| multisig factory | none | create | creates multisigs |
| lockable fungible token | accounts with balance, allowances and locks | transfer, lock, unlock, allowances | none |
| airdrop | amount per key | send, claim, create account and claim, callback | creates accounts by promise |
| social-web3 contract | tree of nodes, storage accounts, shared pools, permissions, status | set, get, keys, grant and check permissions, storage_deposit and _withdraw, share_storage, pool deposit | transfers refunds |
| FT, NFT, w-unc | in a library outside the repository | wrappers | token callbacks in the library |
| hello-utility, state-manipulation, scripts | none worth a property | | |

What is hard, and what correctness means, component by component:

* **Staking pool.** Shares and tokens are converted with four roundings, rewards
  are found by comparing the ledger with a recorded balance an epoch later, and
  stake actions arrive late or fail. Correct: the share price never falls, the
  recorded balance is held (or every method panics for good), what may be
  withdrawn is liquid, and the final stake is the one wanted or nothing.
* **Lockup.** The owner's and the foundation's calls overlap with executions,
  callbacks and refunds of earlier ones. Correct: one operation at a time on the
  pool, one termination transaction at a time, locked tokens are not given out
  and never locked again, the foundation's claim is neither lost nor paid twice,
  a known deposit is not forgotten, and operations end.
* **Voting.** Stakes change under recorded votes. Correct: a poll ends exactly
  with more than two thirds of the current stake.
* **Whitelist and factories.** Creations of the same name race, fail and are
  repeated. Correct: a listed pool exists or is being created, and a failed
  creation's deposit is paid back once, out of what came back.
* **Airdrop.** A key's amount leaves before the account exists. Correct: what the
  keys may claim is held, and only a claim takes it.
* **Multisig.** Correct: a request runs once, with enough current members.
* **Lockable token.** Correct: supply is conserved, and no mixture of locks,
  unlocks and transfers lets an escrow take more than its allowance.
* **Social.** A tree that everybody may read, owners write, and grantees write in
  part; its bytes are paid by accounts or by pools they share. Correct: nodes form
  a tree, writes are exact, nobody writes outside a grant, queries return what
  matches, and every byte is covered and counted once.

`PROJECT.json` lists the hazards at their lines with the properties aimed at them.

## Modules

| Module | Models | State and actions |
|---|---|---|
| `StakingPool` | `staking-pool/src/lib.rs`, `internal.rs` | `pool` is the contract's struct. `liquid`, `locked`, `desired`, `hist` and `receipts` are the account on the ledger and the protocol. One action per method, named as in the source; internal functions are operators from one pool value to the next. Stake actions are executed in order, one epoch late at most, and may fail. |
| `StakingPoolProofs` | | theorems about `StakingPool` |
| `Lockup` | all of `lockup/src` | one variable per field of the contract. `promises` holds the calls in flight: first at stage "call", then at stage "callback". `incoming` holds tokens on their way to the account, which arrive at any time. Pools, whitelist and poll are external actions that answer or fail. |
| `LockupProofs` | | theorems about `Lockup` |
| `Voting` | `voting/src/lib.rs` | ping and vote; epochs with new stakes are external |
| `VotingProofs` | | theorems about `Voting` |
| `Multisig` | `multisig/src/lib.rs` | `multisig` is the contract's struct; helper functions go from one value of it to the next, so that a bundle of actions runs in order and panics as a whole. `executed` is history. |
| `MultisigProofs` | | theorems about `Multisig` |
| `LockableToken` | `lockable-fungible-token/src/lib.rs` | `accounts` and `total_supply` as in the struct; additions that may overflow `u128` are guarded by `MaxBalance` |
| `EscrowToken` | | what such a token promises, in three functions: free tokens, reserved tokens, and what each escrow may still take |
| `LockableTokenProofs` | | theorems about `LockableToken` |
| `Promises` | the runtime (external) | tokens per account, existing accounts, and promises: sent, then returned with success or failure, then their callback. Used by every contract that creates accounts |
| `StakingPoolFactory`, `LockupFactory`, `MultisigFactory`, `Airdrop`, `Whitelist` | the contract of that name | its fields, one action per method and per callback |
| `Launch` | | the composition of the six modules above: all contracts act on one set of accounts and promises, in any order. No property depends on the whitelist's own state, whose rules are guards |
| `LaunchProofs` | | theorems about `Launch` |
| `SocialStorage` | `social-web3`: `account.rs`, `shared_storage.rs`, `storage_tracker.rs`, `legacy.rs` and the charging parts of `api.rs` and `permission.rs` | storage accounts and shared pools; `set` and `grant_write_permission` are reduced to the bytes they store or release (`WriteData`, `WritePermission`). `Pay` and `PayDeposit` are what those calls do to accounts and pools |
| `SocialTree` | `node.rs`, `recursive_set`, the walk along a path in `permission.rs` | operators on the tree of nodes; a write goes through the values of its data, one step each, and is a record of the nodes it leaves and whether it panicked |
| `SocialQuery` | `get`, `keys` and their helpers in `api.rs` | the two queries as operators, beside reference definitions of what matches |
| `Social` | `api.rs`, `permission.rs`, `node.rs`, `account.rs`, `lib.rs` | extends `SocialStorage` by the tree, the grants and the block height; one action per method, which pays by `Pay` or `PayDeposit` for the bytes that its tree really takes |
| `SocialProofs` | | theorems about `SocialStorage` and `Social` |
| `Sums` | | the sum of a function's values over a finite set |
| `SumTheorems` | | lemmas about such sums, and the induction principles used with them |
| `MC*` | | instances for TLC |

A failed assertion is a disabled action, since the runtime rolls it back.
Operators whose name ends in `_Mutant` are variants with a plausible bug; they
are used by no specification and show that the properties notice such a bug.

Abstractions. Amounts and timestamps are small naturals (the code computes in
`u128`, with `U256` intermediates, far above any supply). Account ids, keys, gas
and log lines are left out. A lockup's vesting hash is the schedule it was made
of, since `terminate_vesting` checks the revealed one against it. In `Lockup` the
pool's balances are plain numbers: shares and rounding are the business of
`StakingPool`.

In `Launch`, a batch that fails returns its tokens before its callback runs, and
keys are added and deleted in the order in which that was asked for. In `Social`,
the data of a write is the sequence of its values in the order in which
`recursive_set` visits them, so that a write is a recursive function on numbers, which
can be proved about; a node is stored with its new height at its visit and not after
what is below it, which nothing in the call can tell. Bytes are counted per entry with
a constant for each kind, and a `set` for several accounts is several calls, since only
the first receives the deposit and each account is charged by itself.
`grant_write_permission` is modelled for one path per call. Shared pools are left to
`SocialStorage`: no account of `Social` uses one.

`ViewOutcomes` in `Lockup` says what can become of a view call. As shipped, the
code sends those calls to its own account (see Findings), where they can only
fail: `{FALSE}`. The safety runs use `{TRUE, FALSE}`, which includes that
behaviour and also covers the callbacks that follow a successful answer, so
they remain valid when the calls are sent to the right contract.

## Runs

| Run | What it shows | Bounds |
|---|---|---|
| `pool_epochs` | Types; the share price never falls; `internal_ping`'s assertion holds; each conversion costs the guarantee fund at most one atto; withdrawable tokens are liquid; the settled stake is the wanted one or zero | the owner and a delegator, amounts of 2 on a stake of 2, rewards 0 and 2 and fees 0, 1/2, 1, so that the price leaves the integers; 5 epochs, one more than an unlock takes; 2 receipts, so that a callback meets a newer action; a threshold that makes stake actions fail; 2 conversions |
| `lockup_owner` | Locked tokens are kept and never grow; unvested tokens are locked; a full key is only added for a free account | 1 pool, time 0..3 across vote, lockup, release and vesting; no vesting, a public and a private schedule, the private one shadowed by the release; 1 promise |
| `lockup_concurrent` | Exclusive locks; the foundation's claim is fixed; a pool with a known deposit stays selected; pool operations and the foundation's transfers end and release their locks | fair; 2 pools and 2 promises, so that an answer for one pool meets an operation on the other, or the owner's call the foundation's; payouts in parts; no symmetry, because of the liveness properties |
| `voting_poll` | The poll ends exactly with a current majority | 3 symmetric validators, stakes 0, 1, 3 (both sides of two thirds), 3 epochs |
| `multisig_members` | Counters match the open requests; a removed member leaves no request; a request only ends by execution, by deletion after the cooldown or with its author | 3 members, 2 confirmations, 3 requests (one to execute while two wait); bundles that remove two members (the second removal panics) or remove and add; cooldown 0 and times 0 and 1, the two sides of the comparison |
| `token_locks` | The supply; locks fit back into allowances; refinement of `EscrowToken` | 3 symmetric accounts (owner, escrow, receiver), supply and integer limit 2, so that additions reach the limit |
| `launch` | Listed pools exist; the factories keep no deposit; the airdrop is solvent; only claims take | 3 calls by 2 users over all contracts, 2 names per contract, so that creations collide; deposits below, at and above the minimum; 1 key, used again while its claim is in flight |
| `social_storage` | Pools and accounts are covered; shares are bounded; bytes counted are bytes stored; a pool counts what its accounts use | 2 accounts, one of them in the legacy format, and 2 pools whose ids differ in length; shares below, at and above the minimum; writes of -2..2 bytes |
| `social_tree` | Nodes form a tree; writes are exact; heights cover subtrees; grants stay in the tree and are enforced; only granted nodes change; queries return the matches; refinement of `SocialStorage` | the tree of one account, two callers and one key, 4 nodes, so that a value becomes a node and a grant lies below another; writes of -2..6 bytes; 2 block heights; 7 lists of paths for `get` and 3 for `keys`, whose patterns overlap, with `**` as a suffix, before the suffix (which `get` refuses, in one list always and in one only once a node is there) and in `keys`, which takes it for a key. Trees of different accounts share only the counter of nodes and the root; the proofs cover any number of accounts |
| `pool_phantom`, `lockup_stuck`, `multisig_removed` | the findings below | smallest instances that show them |

Deadlock is not checked: all bounds are in guards, and a contract that nobody
calls may rest.

*Private schedules.* `get_locked_amount` cannot see a private schedule, so
`LockedCoversUnvested` and `LockedNeverGrows` depend on how the schedule was chosen.
`lockup/README.md:130` asks that the release end no earlier than the vesting and the
lockup no earlier than the cliff (`Shadowed` in `LockupProofs`); the runs' private
schedule obeys it and the proofs assume it. The comment on `VestingHash` (types.rs:145)
mentions only the end, which is not enough: with a later cliff, tokens are unlocked
that a termination would still take. The code checks neither.

*Fairness.* The runtime executes every receipt, so promises, callbacks and token
receipts have weak fairness (`FairSpec`). No user is assumed to call anything,
and time is not assumed to pass.

*Solvency of the pool.* `GuaranteeFundCoversRounding` and `WithdrawableIsLiquid`
are stated for behaviours in which nobody has paid shares that were never bought
(`NoPhantomShares`), because of the first finding. The history variables `owned`
and `roundings` serve only these statements.

*Refinement.* `LockableToken` implements `EscrowToken`: allowance plus lock is the
limit, so locking and unlocking leave it alone and only taking uses it up. `Social`
extends `SocialStorage`, and `ImplementsStorage` says that each of its steps is one of
that module's or changes nothing there: what a call writes to the tree is one of the
abstract byte changes, of the account in whose tree it is, and `stored` is what the
tree and the grants of that account really take. So what is shown of charges also
holds of the tree's writes.

*Checks in `Social`.* `GrantsAreEnforced` compares `is_write_permission_granted`
with what a write by the grantee does, and `OnlyGrantedNodesChange` and
`WritesAreExact` evaluate every write of the instance in every reachable state.

## Proofs

TLAPS checks these for every value of the constants, in particular without the
bounds of the runs. Each module proves an inductive invariant by one step per
action; the listed theorems follow from it.

**Assumptions.** Each module names what it assumes of its constants; TLC evaluates
these on every run. They are the types of the inputs, and that the sets that sums
and counters range over are finite (`AccountsAssumption`, `ValidatorsAssumption`,
`ContractsAssumption`, `KeysAssumption`, `AccountIdsAssumption`,
`CandidatesAssumption`, `PermissionKeysAssumption`): a contract's storage is.
`DataAssumption` says that what is written is JSON: every value is in an earlier object,
under a key of its own there. `MinimaAssumption` says that the least deposit pays for a
pool's entry and the least share for a new account, as the code's constants do.
`EpochsAssumption` asks that unlocking take four epochs or more, as
`NUM_EPOCHS_TO_UNLOCK` does; it is what makes withdrawable tokens liquid. The
theorems about the lockup have hypotheses in their statements: `ValidSchedules`,
that the schedules given to `new` satisfy `VestingSchedule::assert_valid`, which the
code never calls, and, for the four about locked tokens, `PrivateSchedulesShadowed`
(see Private schedules).

**Sums.** `SumTheorems` derives induction over the naturals and over the subsets of
a finite set from the library's well-founded minimum (`WFMin`), stated for
membership in a set so that first-order provers can use it. From these come the
facts about `SumOver` that the balances need: it is an integer, it is monotone, it
depends on the values only, and it changes by the difference when one value does.

**`StakingPoolProofs`**, prices: `TypeCorrect`, `SharePriceAtLeastOne`,
`SharePriceMonotone`, `PingBalanceNeverShrinks`. The invariant `IInv` is the type, the
price, the recorded balance, and that the ledger locks at least the stakes of the last
three epochs, without which an epoch's end could release more than is locked. The
argument is arithmetic: `internal_stake` issues shares rounded down and adds their
value rounded up (`BuyShares`), `inner_unstake` takes shares rounded up and removes
their value rounded down (`SellShares`), and a reward adds tokens before the fee buys
shares (`RewardKeepsPrice`).

The second half proves solvency: `GuaranteeFundAlwaysCoversRounding`,
`WithdrawableIsAlwaysLiquid`, `StakeAlwaysSettles`. `SInv` adds to `IInv`:

* `RecordOK`: after a ping in this epoch the recorded balance is all the account
  holds, and no unstaked balance waits longer than the unlocking delay;
* `BooksOK`: the shares are the initial ones plus those bought, and stake, unstaked
  balances and guarantee fund exceed the recorded balance by at most an atto per
  conversion, until someone pays shares that were never bought (finding 1); after
  that the pool has no shares for good, so the premise of the theorems stays false;
* `QueueOK`: a stake action still to arrive asks for no more than was covered when it
  was made; the last one (or the protocol's stake, when none is left) is what the
  contract wants, and the last one of an earlier epoch is covered now, unless the
  callback of a failure is still due;
* `LockOK`: the stakes of the last epochs, and what is locked because of them, are
  covered by the stake plus the unstaked balances that were not available then.

The last two carry the argument: a late action may lock again what was unstaked
since, but only tokens whose owners cannot withdraw before that lock ends.

**`LockupProofs`**, callbacks: `LockupTypeCorrect`, `OneOperationAtATime`,
`TerminationIsExclusive`, `ClaimNeverChanges`, `DepositNeverForgotten`,
`UnvestedBounded`. The invariant states both locks slot by slot of the promises
(`PoolLock`, `TerminationLock`), adds that a payment in flight is at most what remains
of the claim, and bounds the claim by the lockup amount (`ClaimBound`). The bound is
what keeps `lockup_amount - termination_withdrawn_tokens` from underflowing, and the
payment's bound is what makes the claim constant. Three lemmas cover all callbacks and
executions: one that ends an operation (`DoneStep`), one that goes on with a second
call (`ThenStep`), and an answer (`ResolveStep`).

The second half is about money: `UnvestedIsLocked`, `ReleasedStaysReleased`,
`FullKeyMeansFree`, `LockedFundsAreThere`. The curves of lockup, release and vesting
are compared by integer division (`PartGrows`): each falls with time, and a shadowed
private schedule lies below the release, so a termination uncovers nothing that was
not locked. `TermsMove` lists the ways in which a step changes what decides the locked
amount. A payment to the foundation leaves the balance before its callback lowers the
locked amount, and a transfer to or from the pool changes the recorded deposit only
in its callback. So `MoneyOK` says that the balance, what is on its way to it, the
deposit *as the pool has it* and the payment in flight cover the locked amount;
with no operation in flight this is `LockedFundsAreKept`.

**`VotingProofs`**: `MajorityIsNeverMissed`, `OnlyMajorityEnds`. The total is the sum
of the votes, and in an epoch with a ping every vote is its account's current stake
or nothing.

**`MultisigProofs`**: `RequestsAreCounted`, `OpenRequestsHaveAuthors`,
`RequestsNeverVanish`. `Consistent` says that tables, counters and members of a
contract agree. It holds between the actions of a request too, and an action can only
take away all requests of some member (`Reduced`); `ExecutionKeeps` carries both
through a sequence of actions of any length by induction on `Execution`, whose
recursion is first shown to have a solution (`ExecutionExists`). A new id is above all
earlier ones, so what was executed never opens again.

**`LaunchProofs`**: `ListedPoolsAlwaysExist`, `FactoriesAlwaysKeepNoDeposit`,
`AirdropIsAlwaysSolvent`, `OnlyClaimsEverTake`. Beside the properties the invariant
needs that promises belong to different calls (`PromisesOK`), for otherwise a second,
equal promise would be lost in the set and its refund with it, and that at most one
creation per pool id is in flight, of an account that exists just when it succeeded
(`PoolsOK`). `MoneyOK` is the two properties on balances, over the refunds still due.

**`SocialProofs`**, accounts and pools: `PoolsAlwaysCoverShares`,
`AccountsAreAlwaysCovered`, `UsedBytesAreAlwaysStored`, `PoolsAlwaysCountTheirAccounts`.
`Books` relates accounts and pools: each share is within its bounds and of an existing
pool, each pool is paid for and counts the sums over its accounts. `Honest` relates an
account to the bytes that are stored for it, with one byte of slack for migrated accounts
(see Findings). An account changes its pool in two moves, one out and one in, each of
which changes one addend of two sums.

The second half is about the tree: `NodesAlwaysFormATree`, `HeightsAlwaysCoverSubtrees`,
`OnlyGrantedNodesEverChange`, `GrantsAreAlwaysEnforced`, `ContractImplementsStorage`. They
hold for any accounts, callers, keys, data of any size and paths of any length. The
invariant `SocialIInv` is the one on accounts and pools with

* `TreeOK`: every node is in one place and below the node of exactly one account
  (without "exactly one" a write could leave the account it is charged to), heights
  cover what is directly below, none is above the current block, and grants lie in the
  grantor's tree;
* `BytesOK`: what is stored for an account is what its tree and grants take, and just
  the accounts with a node are registered.

Storing an entry, storing a node again and adding a node each keep the tree and change
it below one account only. A write or a grant is a sequence of such operations:
`SetWrites` and `GrantWrites` carry this through the visits of a write and the keys of a
path by induction on their number, together with what is known of the node at each
visit (that it is in the account's tree and, if writing is approved, the caller's own
or below a granted node). `OnlyGrantedNodesEverChange` follows from that.
`DeniedUnlessGranted` compares the walk of `is_write_permission_granted` with a write
along the same path, key by key. For the refinement, `BytesInTree` says that the bytes
between two states of all nodes are those between two states of the account's nodes,
so the tracker of one call measures what that account takes.

`NodesFormATree` speaks of all nodes below one another, which `Below` defines as the
least set of nodes that is closed under references, not by recursion; the
proofs use only that.

**`LockableTokenProofs`**: `LocksCanBeUndone`, `TokensAreConserved`,
`TokenImplementsEscrow`. The numbers are natural and a lock fits back into its
allowance; a transfer changes two addends of the supply. For the refinement,
`StoreMaps` says once what storing an updated account does to the abstract state, and
`DebitedAccount` what a debit takes from locks, allowance and balance; a transfer to
oneself is covered by storing twice.

Only model-checked:

* liveness (`PoolOperationEnds`, `TerminationTransferEnds`), which needs `ENABLED`;
* `WritesAreExact` and `QueriesReturnMatches`. They compare what the code leaves or
  returns with reference definitions over the whole tree (`Entries`, `View`, `Leaves`),
  which are recursive over data, as the queries are; a proof needs induction over that
  data, which is out of the provers' reach. The run evaluates them in every state;
* the properties that the code violates (see Findings).

## Findings

1. `staking-pool/src/internal.rs:154`: `inner_unstake` *adds* the paid shares to
   the account. The accounts then hold more shares than exist (`pool_phantom`),
   and can go on to unstake the initial shares that no account owns.
2. `lockup/src/owner.rs:200` and three other view calls go to the lockup itself.
   They fail, their callbacks panic, and the pool stays Busy for ever with nothing
   in progress (`lockup_stuck`).
3. `multisig/src/lib.rs:299`: confirmations of a removed member still count, so a
   request may run with fewer than K confirmations of members (`multisig_removed`).

Also noted while modelling, without a run of their own:

* `multisig/src/lib.rs:272`: `SetNumConfirmations` is not compared with the number of
  members; set too high, no request can be executed again.
* `lockup/src/owner.rs:459`: `check_transfers_vote` asks the lockup itself, so a vote
  that passed never enables transfers.
* `lockup/src/lib.rs:212`: `new` does not validate the vesting schedule. With a start
  after the cliff the unvested amount exceeds the lockup amount; the runs and the
  proofs assume valid schedules.
* `staking-pool-factory/src/lib.rs:214`: `add_staking_pool` goes to the factory itself,
  so a created pool is never whitelisted.
* `multisig-factory/src/lib.rs`: the promise has no callback, so the deposit of a failed
  creation stays with the factory.
* `airdrop/src/lib.rs:234`: the callback of a failed claim overwrites an amount sent
  to the key meanwhile; that of a successful one deletes the key under such an
  amount. `OnlyClaimsTake` makes an exception for them.
* Social, `api.rs:345`: the branch for a missing key lets the empty key become a node,
  contrary to the invariant stated in `node.rs`; a value there cannot be read by its
  path, and a later write of a plain value panics.
* Social, `shared_storage.rs`: `get_account_storage` subtracts bytes from an amount of
  tokens; `share_storage` and `shared_storage_pool_deposit` do not check the status.
* Social, `account.rs`: `storage_deposit` with `registration_only` for a new account
  always panics.
* Social, `legacy.rs:15`: the comment says that the migrated balance is increased by
  the price of the added byte; it is not, so the byte may be uncovered until the next
  deposit. `share_storage` for such an account counts the byte twice.
* Social, `social-web3/README.md:186`: with `values_only`, `keys` is said to match only
  keys "which value is not a node". The code (`api.rs:265`) also matches a node that has a
  value under its empty key, which is where a key's value goes when something is written
  below it. `ExpectedKeys` states what the code does.
* Social, `api.rs:191`: `get` refuses a `**` that is not a suffix only when it reaches a
  node with it, so the same query may be answered today and refused tomorrow. `keys` does
  not refuse `**`; it takes it for a key that no node has.
* Social, `api.rs:148`: anyone may write an empty object for another account, which
  creates that account or moves its block height.

## Plan

Done: `StakingPool` and `Lockup` with proofs; `Voting`; `Multisig`; the factories,
whitelist and airdrop composed in `Launch`; `LockableToken` and its refinement with
proofs; the social contract in `SocialStorage` and `Social`.

Proved: every safety property, action property and refinement of the runs but
`WritesAreExact` and `QueriesReturnMatches`.

Left:

1. For these two: the places of a tree and the matches of a query as sets of paths,
   without recursion, so that they can be proved about.
2. The genesis methods of the social contract, if they are used again.

## Not modelled

FT, NFT and w-unc delegate every operation to a library that is not in the
repository. `hello-utility` is an example of host calls, `state-manipulation`
replaces raw storage and has no rule its state obeys, and scripts and compiled
contracts are not programs to check. In modelled contracts: gas, log lines, account
id syntax, key encodings, the staking pool's `vote`, which forwards a call and
changes nothing, and the promise a multisig schedules, which has no callback. In the
social contract: the genesis and migration methods (`upgrade.rs`), which load data as
given before the contract is live, the options that add block heights and node ids to
an answer, and the views that page through nodes and permissions.
