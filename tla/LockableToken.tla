--------------------------- MODULE LockableToken ----------------------------
(***************************************************************************)
(* The lockable fungible token (src/lockable-fungible-token/src/lib.rs).   *)
(* An owner allows other accounts (escrows) to lock or to transfer its     *)
(* tokens.  A method that returns an error changes nothing, so its checks  *)
(* are guards.  A missing allowance or lock is 0 (set_allowance and        *)
(* set_locked_balance remove the entry).                                   *)
(***************************************************************************)
EXTENDS Integers, FiniteSets, Sums

CONSTANTS
    Accounts,
    Supplies,   \* total supplies that `new` may be given
    Amounts,    \* amounts that callers may give
    MaxBalance  \* the largest Balance (u128::MAX)

ASSUME AccountsAssumption == IsFiniteSet(Accounts)
ASSUME MaxBalanceAssumption == MaxBalance \in Nat
ASSUME AmountsAssumption == Amounts \subseteq 0 .. MaxBalance
ASSUME SuppliesAssumption == Supplies \subseteq 0 .. MaxBalance

VARIABLES
    accounts,      \* AccountId -> Account
    total_supply

vars == <<accounts, total_supply>>

Zero == [a \in Accounts |-> 0]

NoAccount == [balance |-> 0, allowances |-> Zero, locked_balances |-> Zero]

total_balance(account) ==
    account.balance + SumOver(account.locked_balances, Accounts)

(* The account with a new balance, allowance and lock for one escrow. *)
Updated(account, escrow, balance, allowance, locked) ==
    [balance |-> balance,
     allowances |-> [account.allowances EXCEPT ![escrow] = allowance],
     locked_balances |-> [account.locked_balances EXCEPT ![escrow] = locked]]

Store(owner, account) ==
    /\ accounts' = [accounts EXCEPT ![owner] = account]
    /\ UNCHANGED total_supply

(* Mutant: what is locked already is not taken off. *)
set_allowance_Mutant(owner, escrow, allowance) ==
    LET account == accounts[owner]
        locked == account.locked_balances[escrow]
    IN  /\ escrow # owner
        /\ locked <= allowance
        /\ Store(owner, Updated(account, escrow, account.balance, allowance, locked))

set_allowance(owner, escrow, allowance) ==
    LET account == accounts[owner]
        locked == account.locked_balances[escrow]
    IN  /\ escrow # owner
        /\ locked <= allowance
        /\ Store(owner, Updated(account, escrow, account.balance, allowance - locked, locked))

(* What escrow's allowance becomes when it uses amount (or gives it back,   *)
(* a negative amount); an owner needs none.                                 *)
Allowance(account, escrow, owner, amount) ==
    account.allowances[escrow] - (IF escrow = owner THEN 0 ELSE amount)

(* Mutant: the check of the allowance is missing. *)
lock_Mutant(escrow, owner, amount) ==
    LET account == accounts[owner]
    IN  /\ amount > 0
        /\ account.balance >= amount
        /\ Store(owner, Updated(account, escrow, account.balance - amount,
                                account.allowances[escrow],
                                account.locked_balances[escrow] + amount))

(* The escrow is the caller. *)
lock(escrow, owner, amount) ==
    LET account == accounts[owner]
        allowance == Allowance(account, escrow, owner, amount)
    IN  /\ amount > 0
        /\ account.balance >= amount
        /\ allowance >= 0
        /\ Store(owner, Updated(account, escrow, account.balance - amount, allowance,
                                account.locked_balances[escrow] + amount))

(* An addition that overflows panics. *)
unlock(escrow, owner, amount) ==
    LET account == accounts[owner]
        allowance == Allowance(account, escrow, owner, -amount)
    IN  /\ amount > 0
        /\ account.locked_balances[escrow] >= amount
        /\ allowance <= MaxBalance
        /\ Store(owner, Updated(account, escrow, account.balance + amount, allowance,
                                account.locked_balances[escrow] - amount))

(* The part of amount that the escrow's locked tokens do not cover. *)
Remaining(account, escrow, amount) ==
    LET locked == account.locked_balances[escrow]
    IN  IF locked >= amount THEN 0 ELSE amount - locked

CanDebit(account, escrow, owner, amount) ==
    /\ amount > 0
    /\ account.balance >= Remaining(account, escrow, amount)
    /\ Allowance(account, escrow, owner, Remaining(account, escrow, amount)) >= 0

(* The owner's account after amount was taken out of it. *)
Debited(account, escrow, owner, amount) ==
    LET remaining == Remaining(account, escrow, amount)
    IN  Updated(account, escrow, account.balance - remaining,
                Allowance(account, escrow, owner, remaining),
                account.locked_balances[escrow] - (amount - remaining))

Credited(account, amount) ==
    [balance |-> account.balance + amount,
     allowances |-> account.allowances,
     locked_balances |-> account.locked_balances]

(* Mutant: the new owner's account is read before the owner's is stored. *)
transfer_from_Mutant(escrow, owner, new_owner, amount) ==
    LET debited == Debited(accounts[owner], escrow, owner, amount)
    IN  /\ CanDebit(accounts[owner], escrow, owner, amount)
        /\ accounts' = [[accounts EXCEPT ![owner] = debited]
                            EXCEPT ![new_owner] = Credited(accounts[new_owner], amount)]
        /\ UNCHANGED total_supply

(* The owner's account is stored before the new owner's, which may be the   *)
(* same, is read.                                                           *)
transfer_from(escrow, owner, new_owner, amount) ==
    LET debited == Debited(accounts[owner], escrow, owner, amount)
        new_account == IF new_owner = owner THEN debited ELSE accounts[new_owner]
    IN  /\ CanDebit(accounts[owner], escrow, owner, amount)
        /\ accounts' = [[accounts EXCEPT ![owner] = debited]
                            EXCEPT ![new_owner] = Credited(new_account, amount)]
        /\ UNCHANGED total_supply

transfer(owner, new_owner, amount) == transfer_from(owner, owner, new_owner, amount)

Init ==
    \E owner \in Accounts, supply \in Supplies :
        /\ total_supply = supply
        /\ accounts = [a \in Accounts |->
                IF a = owner THEN Credited(NoAccount, supply) ELSE NoAccount]

Next ==
    \E caller, owner \in Accounts, amount \in Amounts :
        \/ set_allowance(caller, owner, amount)
        \/ lock(caller, owner, amount)
        \/ unlock(caller, owner, amount)
        \/ transfer(caller, owner, amount)
        \/ \E new_owner \in Accounts : transfer_from(caller, owner, new_owner, amount)

Spec == Init /\ [][Next]_vars

----------------------------------------------------------------------------
(* Properties. *)

(* All free and locked tokens together are the total supply, also when an   *)
(* owner transfers to itself (get_total_balance, get_total_supply).         *)
SupplyIsConserved ==
    SumOver([a \in Accounts |-> total_balance(accounts[a])], Accounts) = total_supply

(* What an escrow has locked fits into its allowance again, so unlock can   *)
(* always give locked tokens back: the addition in it never overflows.      *)
LockedFitsAllowance ==
    \A o \in Accounts : \A e \in Accounts \ {o} :
        accounts[o].allowances[e] + accounts[o].locked_balances[e] <= MaxBalance

(* The abstract token: an escrow's limit is its allowance and its locks     *)
(* together.                                                                *)
free == [a \in Accounts |-> accounts[a].balance]
reserved == [a \in Accounts |-> accounts[a].locked_balances]
limit ==
    [a \in Accounts |-> [e \in Accounts |->
        IF e = a THEN 0 ELSE accounts[a].allowances[e] + accounts[a].locked_balances[e]]]

Escrow == INSTANCE EscrowToken

(* The token implements the abstract one: however locks, unlocks and        *)
(* transfers are mixed, an escrow takes from an owner at most the allowance *)
(* it was last given, and locking only reserves (set_allowance, lock,       *)
(* unlock, transfer_from).                                                  *)
ImplementsEscrow == Escrow!Spec
=============================================================================
