------------------------------ MODULE Promises ------------------------------
(***************************************************************************)
(* Tokens, accounts and promises of the runtime, as the contracts that     *)
(* create accounts use them (Promise::new(..).create_account() ...         *)
(* .then(..)).  External: the runtime is not part of the repository.       *)
(* A batch of actions on a new account happens as a whole or not at all;   *)
(* what a failed batch carried returns to the contract that sent it before *)
(* the callback runs.  Gas and storage costs are left out.                 *)
(***************************************************************************)
EXTENDS Integers, FiniteSets, Sums

CONSTANTS
    Users,      \* accounts that call the contracts
    Contracts,  \* the contracts that create accounts
    Names,      \* names of new accounts; name n of contract c is n.c
    Deposits,   \* deposits that callers may attach
    NoKey,      \* no public key
    MaxCalls    \* bound on the calls of a behaviour

ASSUME DepositsAssumption == Deposits \subseteq Nat
ASSUME MaxCallsAssumption == MaxCalls \in Nat

VARIABLES
    tokens,    \* AccountId -> tokens; a user's count from 0, so debts are negative
    existing,  \* the accounts that were created
    promises,  \* promises in flight
    calls      \* calls made so far

runtime == <<tokens, existing, promises, calls>>

SubAccounts == Contracts \X Names

AccountIds == Users \cup Contracts \cup SubAccounts

ASSUME AccountsAssumption ==
    /\ Users \cap Contracts = {}
    /\ SubAccounts \cap (Users \cup Contracts) = {}

(* caller and key are the callback's arguments; a promise without callback  *)
(* is "done" when it was executed.                                          *)
PromiseRecord(kind, by, account, amount, caller, key) ==
    [n |-> calls, kind |-> kind, by |-> by, account |-> account, amount |-> amount,
     caller |-> caller, key |-> key, status |-> "sent"]

(* A call by which `deposit` moves from the caller to the contract.  *)
Called == calls < MaxCalls /\ calls' = calls + 1

Paid(from, to, amount) == [tokens EXCEPT ![from] = @ - amount, ![to] = @ + amount]

Sent(p) == promises' = promises \cup {p}

Returned(p, status) == promises' = (promises \ {p}) \cup {[p EXCEPT !.status = status]}

(* Creating an account: "create" promises have a callback, "create_only"    *)
(* promises have none.                                                      *)
CreateAccount(p) ==
    /\ p.kind \in {"create", "create_only"} /\ p.status = "sent"
    /\ p.account \notin existing
    /\ existing' = existing \cup {p.account}
    /\ tokens' = [tokens EXCEPT ![p.account] = @ + p.amount]
    /\ IF p.kind = "create" THEN Returned(p, "successful") ELSE promises' = promises \ {p}
    /\ UNCHANGED calls

(* The account exists, its name is taken, or the new contract panics.  *)
CreationFails(p) ==
    /\ p.kind \in {"create", "create_only"} /\ p.status = "sent"
    /\ tokens' = [tokens EXCEPT ![p.by] = @ + p.amount]
    /\ IF p.kind = "create" THEN Returned(p, "failed") ELSE promises' = promises \ {p}
    /\ UNCHANGED <<existing, calls>>

(* A transfer reaches its account, or returns when there is none.  *)
Transfer(p) ==
    /\ p.kind = "transfer"
    /\ LET receiver == IF p.account \in Users \cup existing THEN p.account ELSE p.by
       IN  tokens' = [tokens EXCEPT ![receiver] = @ + p.amount]
    /\ promises' = promises \ {p}
    /\ UNCHANGED <<existing, calls>>

RuntimeInit ==
    /\ tokens = [a \in AccountIds |-> 0]
    /\ existing = {}
    /\ promises = {}
    /\ calls = 0

RuntimeNext == \E p \in promises : CreateAccount(p) \/ CreationFails(p) \/ Transfer(p)

(* The amounts that came back to contract c and wait for a callback.  *)
AwaitingRefund(c) ==
    SumOver([p \in promises |-> p.amount], {p \in promises : p.by = c /\ p.status = "failed"})
=============================================================================
