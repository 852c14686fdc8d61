------------------------ MODULE LockableTokenProofs -------------------------
(***************************************************************************)
(* The token implements the abstract token with escrows, for any accounts, *)
(* amounts and supplies.                                                   *)
(***************************************************************************)
EXTENDS LockableToken, SumTheorems, TLAPS

Account == [balance : Nat, allowances : [Accounts -> Nat], locked_balances : [Accounts -> Nat]]

(* No balance, allowance or lock is negative, and a lock fits back into its *)
(* allowance.                                                               *)
IInv == accounts \in [Accounts -> Account] /\ LockedFitsAllowance

USE MaxBalanceAssumption, AmountsAssumption, SuppliesAssumption

(* Crediting an account adds to its free balance.                           *)
LEMMA CreditedAccount ==
    ASSUME NEW account \in Account, NEW amount \in Nat
    PROVE  LET c == Credited(account, amount)
           IN  /\ c \in Account
               /\ c.balance = account.balance + amount
               /\ c.allowances = account.allowances
               /\ c.locked_balances = account.locked_balances
BY DEF Account, Credited

(* What a debit takes: first the escrow's locked tokens, then free ones. *)
Used(account, escrow, amount) ==
    IF account.locked_balances[escrow] >= amount THEN amount ELSE account.locked_balances[escrow]

(* A debit takes from the lock what it can and the rest from balance and allowance. *)
LEMMA DebitedAccount ==
    ASSUME NEW account \in Account, NEW escrow \in Accounts, NEW owner \in Accounts,
           NEW amount \in Nat, CanDebit(account, escrow, owner, amount)
    PROVE  LET d == Debited(account, escrow, owner, amount)
               used == Used(account, escrow, amount)
           IN  /\ d \in Account
               /\ used \in 0 .. amount
               /\ amount - used <= account.balance
               /\ escrow # owner => amount - used <= account.allowances[escrow]
               /\ d.balance = account.balance - (amount - used)
               /\ \A e \in Accounts :
                    /\ d.allowances[e] = IF e = escrow /\ escrow # owner
                                         THEN account.allowances[e] - (amount - used)
                                         ELSE account.allowances[e]
                    /\ d.locked_balances[e] = IF e = escrow THEN account.locked_balances[e] - used
                                              ELSE account.locked_balances[e]
<1> DEFINE used == Used(account, escrow, amount)
           remaining == Remaining(account, escrow, amount)
           allowance == Allowance(account, escrow, owner, remaining)
           lock_left == account.locked_balances[escrow] - (amount - remaining)
<1>1. /\ account.balance \in Nat
      /\ account.allowances[escrow] \in Nat
      /\ account.locked_balances[escrow] \in Nat
    BY DEF Account
<1>2. /\ remaining = amount - used
      /\ used \in 0 .. amount
      /\ remaining \in Nat
      /\ lock_left = account.locked_balances[escrow] - used
      /\ lock_left \in Nat
    BY <1>1 DEF Used, Remaining
<1>3. allowance = IF escrow = owner THEN account.allowances[escrow]
                  ELSE account.allowances[escrow] - remaining
    BY <1>1, <1>2 DEF Allowance
<1>4. account.balance >= remaining /\ allowance >= 0
    BY DEF CanDebit
<1>5. account.balance - remaining \in Nat /\ allowance \in Nat
    BY <1>1, <1>2, <1>3, <1>4
<1> HIDE DEF used, remaining, allowance, lock_left
<1>6. Debited(account, escrow, owner, amount) =
        Updated(account, escrow, account.balance - remaining, allowance, lock_left)
    BY DEF Debited, remaining, allowance, lock_left
<1>7. LET u == Updated(account, escrow, account.balance - remaining, allowance, lock_left)
      IN  /\ u \in Account
          /\ u.balance = account.balance - remaining
          /\ \A e \in Accounts :
                /\ u.allowances[e] = IF e = escrow THEN allowance ELSE account.allowances[e]
                /\ u.locked_balances[e] = IF e = escrow THEN lock_left ELSE account.locked_balances[e]
    BY <1>2, <1>5 DEF Updated, Account
<1> QED BY <1>1, <1>2, <1>3, <1>4, <1>6, <1>7 DEF used

(* A new token's numbers are natural, with nothing locked.                  *)
LEMMA Initial == Init => IInv
<1> SUFFICES ASSUME Init PROVE IInv
    OBVIOUS
<1>1. PICK owner \in Accounts, supply \in Supplies :
        accounts = [a \in Accounts |-> IF a = owner THEN Credited(NoAccount, supply) ELSE NoAccount]
    BY DEF Init
<1>2. /\ NoAccount \in Account
      /\ \A e \in Accounts : NoAccount.allowances[e] = 0 /\ NoAccount.locked_balances[e] = 0
    BY DEF NoAccount, Zero, Account
<1>3. /\ Credited(NoAccount, supply) \in Account
      /\ Credited(NoAccount, supply).allowances = NoAccount.allowances
      /\ Credited(NoAccount, supply).locked_balances = NoAccount.locked_balances
    BY <1>2, CreditedAccount
<1> QED BY <1>1, <1>2, <1>3 DEF IInv, LockedFitsAllowance

(* The numbers that an action gives to Updated. *)
LEMMA Numbers ==
    ASSUME accounts \in [Accounts -> Account], NEW o \in Accounts
    PROVE  /\ accounts[o].balance \in Nat
           /\ \A e \in Accounts :
                accounts[o].allowances[e] \in Nat /\ accounts[o].locked_balances[e] \in Nat
BY DEF Account

(* A step that stores an updated account in which the escrow's allowance    *)
(* and lock still fit together.                                             *)
LEMMA StoreStep ==
    ASSUME IInv, NEW owner \in Accounts, NEW escrow \in Accounts,
           NEW b \in Nat, NEW a \in Nat, NEW l \in Nat,
           escrow # owner => a + l <= MaxBalance,
           Store(owner, Updated(accounts[owner], escrow, b, a, l))
    PROVE  IInv'
<1> DEFINE u == Updated(accounts[owner], escrow, b, a, l)
<1>1. accounts \in [Accounts -> Account] /\ accounts[owner] \in Account
    BY DEF IInv
<1>2. /\ u \in Account
      /\ \A e \in Accounts :
            /\ u.allowances[e] = IF e = escrow THEN a ELSE accounts[owner].allowances[e]
            /\ u.locked_balances[e] = IF e = escrow THEN l ELSE accounts[owner].locked_balances[e]
    BY <1>1 DEF Updated, Account
<1>3. accounts' = [accounts EXCEPT ![owner] = u]
    BY DEF Store
<1> HIDE DEF u
<1> QED BY <1>1, <1>2, <1>3 DEF IInv, LockedFitsAllowance

(* Every method keeps a lock within what its allowance can take back.       *)
LEMMA Step == IInv /\ [Next]_vars => IInv'
<1> SUFFICES ASSUME IInv, [Next]_vars PROVE IInv'
    OBVIOUS
<1>0. accounts \in [Accounts -> Account] /\ LockedFitsAllowance
    BY DEF IInv
<1>1. ASSUME NEW owner \in Accounts, NEW escrow \in Accounts, NEW amount \in Amounts,
             set_allowance(owner, escrow, amount)
      PROVE  IInv'
  <2> DEFINE locked == accounts[owner].locked_balances[escrow]
  <2>1. accounts[owner].balance \in Nat /\ locked \in Nat
    BY <1>0, Numbers
  <2>2. /\ locked <= amount
        /\ Store(owner, Updated(accounts[owner], escrow, accounts[owner].balance, amount - locked, locked))
    BY <1>1 DEF set_allowance
  <2> HIDE DEF locked
  <2>3. amount \in Nat /\ amount <= MaxBalance
    OBVIOUS
  <2>4. amount - locked \in Nat /\ amount - locked + locked <= MaxBalance
    BY <2>1, <2>2, <2>3
  <2> QED BY <2>1, <2>2, <2>4, StoreStep
<1>2. ASSUME NEW escrow \in Accounts, NEW owner \in Accounts, NEW amount \in Amounts,
             lock(escrow, owner, amount)
      PROVE  IInv'
  <2> DEFINE b == accounts[owner].balance - amount
             a == Allowance(accounts[owner], escrow, owner, amount)
             l == accounts[owner].locked_balances[escrow] + amount
  <2>1. /\ b \in Nat /\ a \in Nat /\ l \in Nat
        /\ escrow # owner => a + l <= MaxBalance
    BY <1>0, <1>2, Numbers DEF lock, Allowance, LockedFitsAllowance
  <2>2. Store(owner, Updated(accounts[owner], escrow, b, a, l))
    BY <1>2 DEF lock
  <2> HIDE DEF b, a, l
  <2> QED BY <2>1, <2>2, StoreStep
<1>3. ASSUME NEW escrow \in Accounts, NEW owner \in Accounts, NEW amount \in Amounts,
             unlock(escrow, owner, amount)
      PROVE  IInv'
  <2> DEFINE b == accounts[owner].balance + amount
             a == Allowance(accounts[owner], escrow, owner, -amount)
             l == accounts[owner].locked_balances[escrow] - amount
  <2>1. /\ b \in Nat /\ a \in Nat /\ l \in Nat
        /\ escrow # owner => a + l <= MaxBalance
    BY <1>0, <1>3, Numbers DEF unlock, Allowance, LockedFitsAllowance
  <2>2. Store(owner, Updated(accounts[owner], escrow, b, a, l))
    BY <1>3 DEF unlock
  <2> HIDE DEF b, a, l
  <2> QED BY <2>1, <2>2, StoreStep
<1>4. ASSUME NEW escrow \in Accounts, NEW owner \in Accounts, NEW new_owner \in Accounts,
             NEW amount \in Amounts, transfer_from(escrow, owner, new_owner, amount)
      PROVE  IInv'
  <2> DEFINE d == Debited(accounts[owner], escrow, owner, amount)
             new_account == IF new_owner = owner THEN d ELSE accounts[new_owner]
             c == Credited(new_account, amount)
  <2>1. /\ d \in Account
        /\ \A e \in Accounts \ {owner} :
            d.allowances[e] + d.locked_balances[e] <=
                accounts[owner].allowances[e] + accounts[owner].locked_balances[e]
    BY <1>0, <1>4, Numbers, DebitedAccount DEF transfer_from
  <2>2. accounts' = [[accounts EXCEPT ![owner] = d] EXCEPT ![new_owner] = c]
    BY <1>4 DEF transfer_from
  <2> HIDE DEF d
  <2>3. new_account \in Account
    BY <1>0, <2>1
  <2> HIDE DEF new_account
  <2>4. /\ c \in Account
        /\ c.allowances = new_account.allowances
        /\ c.locked_balances = new_account.locked_balances
    BY <2>3, CreditedAccount
  <2> HIDE DEF c
  <2>5. accounts' \in [Accounts -> Account]
    BY <1>0, <2>1, <2>2, <2>4
  <2>6. ASSUME NEW o \in Accounts, NEW e \in Accounts \ {o}
        PROVE  accounts'[o].allowances[e] + accounts'[o].locked_balances[e] <= MaxBalance
    <3>1. /\ accounts'[o].allowances = (IF o = owner THEN d ELSE accounts[o]).allowances
          /\ accounts'[o].locked_balances = (IF o = owner THEN d ELSE accounts[o]).locked_balances
      BY <1>0, <2>2, <2>4 DEF new_account
    <3>2. /\ accounts[o].allowances[e] + accounts[o].locked_balances[e] <= MaxBalance
          /\ accounts[o].allowances[e] \in Nat /\ accounts[o].locked_balances[e] \in Nat
      BY <1>0, Numbers DEF LockedFitsAllowance
    <3>3. d.allowances[e] \in Nat /\ d.locked_balances[e] \in Nat
      BY <2>1 DEF Account
    <3> QED BY <2>1, <3>1, <3>2, <3>3
  <2> QED BY <2>5, <2>6 DEF IInv, LockedFitsAllowance
<1>5. CASE UNCHANGED vars
    BY <1>5 DEF vars, IInv, LockedFitsAllowance
<1> QED BY <1>1, <1>2, <1>3, <1>4, <1>5 DEF Next, transfer

(* unlock can always give locked tokens back: the allowance and the lock of *)
(* an escrow together stay within the largest balance (set_allowance, lock, *)
(* unlock, transfer_from).                                                  *)
THEOREM LocksCanBeUndone == Spec => []LockedFitsAllowance
<1>1. IInv => LockedFitsAllowance BY DEF IInv
<1> QED BY <1>1, Initial, Step, PTL DEF Spec

----------------------------------------------------------------------------
(* The supply. *)

(* What an account owns besides its locks of one escrow. *)
LEMMA LocksAreNumbers ==
    ASSUME NEW account \in Account
    PROVE  /\ account.balance \in Nat
           /\ \A e \in Accounts : account.locked_balances[e] \in Nat
           /\ SumOver(account.locked_balances, Accounts) \in Int
           /\ total_balance(account) \in Int
<1>1. account.balance \in Nat /\ \A e \in Accounts : account.locked_balances[e] \in Nat
    BY DEF Account
<1>2. SumOver(account.locked_balances, Accounts) \in Int
    BY <1>1, AccountsAssumption, SumIsInt
<1> QED BY <1>1, <1>2 DEF total_balance

(* Accounts that differ in the balance and in the lock of one escrow. *)
LEMMA TotalBalanceChanged ==
    ASSUME NEW account \in Account, NEW other \in Account, NEW escrow \in Accounts,
           \A e \in Accounts \ {escrow} : other.locked_balances[e] = account.locked_balances[e]
    PROVE  total_balance(other) =
                total_balance(account) - account.balance + other.balance
                    - account.locked_balances[escrow] + other.locked_balances[escrow]
<1> DEFINE before == SumOver(account.locked_balances, Accounts)
           after == SumOver(other.locked_balances, Accounts)
           x == account.locked_balances[escrow]
           y == other.locked_balances[escrow]
           b == account.balance
           c == other.balance
<1>1. before \in Int /\ after \in Int /\ x \in Nat /\ y \in Nat /\ b \in Nat /\ c \in Nat
    BY LocksAreNumbers
<1>2. after = before - x + y
  <2>1. /\ \A e \in Accounts : account.locked_balances[e] \in Int
        /\ \A e \in Accounts : other.locked_balances[e] \in Int
    BY LocksAreNumbers
  <2> QED BY <2>1, AccountsAssumption, SumChanged
<1>3. total_balance(account) = b + before /\ total_balance(other) = c + after
    BY DEF total_balance
<1> HIDE DEF before, after, x, y, b, c
<1>4. total_balance(other) = total_balance(account) - b + c - x + y
    BY <1>1, <1>2, <1>3
<1> QED BY <1>4 DEF x, y, b, c

Supply(as) == SumOver([a \in Accounts |-> total_balance(as[a])], Accounts)

(* The supply when one account is replaced. *)
LEMMA SupplyChanged ==
    ASSUME NEW as \in [Accounts -> Account], NEW owner \in Accounts, NEW account \in Account
    PROVE  /\ Supply(as) \in Int
           /\ Supply([as EXCEPT ![owner] = account]) =
                Supply(as) - total_balance(as[owner]) + total_balance(account)
<1> DEFINE bs == [as EXCEPT ![owner] = account]
           f == [a \in Accounts |-> total_balance(as[a])]
           h == [a \in Accounts |-> total_balance(bs[a])]
<1>1. bs \in [Accounts -> Account] /\ bs[owner] = account
        /\ \A a \in Accounts \ {owner} : bs[a] = as[a]
    OBVIOUS
<1>2. \A a \in Accounts : f[a] \in Int /\ h[a] \in Int
    BY <1>1, LocksAreNumbers
<1>3. \A a \in Accounts \ {owner} : h[a] = f[a]
    BY <1>1
<1>4. f[owner] = total_balance(as[owner]) /\ h[owner] = total_balance(account)
    BY <1>1
<1>5. Supply(as) = SumOver(f, Accounts) /\ Supply(bs) = SumOver(h, Accounts)
    BY DEF Supply
<1> HIDE DEF f, h
<1>6. SumOver(h, Accounts) = SumOver(f, Accounts) - f[owner] + h[owner]
    BY <1>2, <1>3, AccountsAssumption, SumChanged
<1>7. SumOver(f, Accounts) \in Int
    BY <1>2, AccountsAssumption, SumIsInt
<1> QED BY <1>4, <1>5, <1>6, <1>7

(* A step that moves tokens between an owner's balance and a lock. *)
LEMMA StoreKeepsSupply ==
    ASSUME accounts \in [Accounts -> Account], SupplyIsConserved,
           NEW owner \in Accounts, NEW escrow \in Accounts,
           NEW b \in Nat, NEW a \in Nat, NEW l \in Nat,
           b + l = accounts[owner].balance + accounts[owner].locked_balances[escrow],
           Store(owner, Updated(accounts[owner], escrow, b, a, l))
    PROVE  SupplyIsConserved'
<1> DEFINE u == Updated(accounts[owner], escrow, b, a, l)
           account == accounts[owner]
<1>1. account \in Account
    OBVIOUS
<1>2. /\ u \in Account /\ u.balance = b /\ u.locked_balances[escrow] = l
      /\ \A e \in Accounts \ {escrow} : u.locked_balances[e] = account.locked_balances[e]
    BY DEF Updated, Account
<1>3. accounts' = [accounts EXCEPT ![owner] = u] /\ total_supply' = total_supply
    BY DEF Store
<1> HIDE DEF u
<1>4. total_balance(u) = total_balance(account)
  <2> DEFINE x == account.balance
             y == account.locked_balances[escrow]
  <2>1. total_balance(u) = total_balance(account) - x + b - y + l
    BY <1>1, <1>2, TotalBalanceChanged
  <2>2. x \in Nat /\ y \in Nat /\ total_balance(account) \in Int /\ b + l = x + y
    BY <1>1, LocksAreNumbers
  <2> HIDE DEF x, y, account
  <2> QED BY <2>1, <2>2
<1>5. Supply(accounts') = Supply(accounts) /\ Supply(accounts) \in Int
  <2> DEFINE t == total_balance(account)
  <2>1. Supply(accounts) \in Int /\ Supply(accounts') = Supply(accounts) - t + total_balance(u)
    BY <1>1, <1>2, <1>3, SupplyChanged
  <2>2. t \in Int
    BY <1>1, LocksAreNumbers
  <2> HIDE DEF t
  <2> QED BY <1>4, <2>1, <2>2 DEF t
<1> QED BY <1>3, <1>5 DEF SupplyIsConserved, Supply

(* The first owner holds the whole supply.                                  *)
LEMMA SupplyInitially == Init => SupplyIsConserved
<1> SUFFICES ASSUME Init PROVE SupplyIsConserved
    OBVIOUS
<1>1. PICK owner \in Accounts, supply \in Supplies :
        /\ total_supply = supply
        /\ accounts = [a \in Accounts |-> IF a = owner THEN Credited(NoAccount, supply) ELSE NoAccount]
    BY DEF Init
<1> DEFINE none == [a \in Accounts |-> NoAccount]
           c == Credited(NoAccount, supply)
<1>2. /\ NoAccount \in Account
      /\ NoAccount.balance = 0 /\ NoAccount.locked_balances = Zero
    BY DEF NoAccount, Zero, Account
<1>3. c \in Account /\ c.balance = supply /\ c.locked_balances = Zero
  <2>1. supply \in Nat
    OBVIOUS
  <2>2. /\ c \in Account /\ c.balance = NoAccount.balance + supply
        /\ c.locked_balances = NoAccount.locked_balances
    BY <1>2, <2>1, CreditedAccount
  <2> QED BY <1>2, <2>1, <2>2
<1>4. SumOver(Zero, Accounts) = 0
    BY AccountsAssumption, SumOfZeros DEF Zero
<1>5. total_balance(NoAccount) = 0 /\ total_balance(c) = supply
    BY <1>2, <1>3, <1>4 DEF total_balance
<1>6. none \in [Accounts -> Account] /\ accounts = [none EXCEPT ![owner] = c]
    BY <1>1, <1>2, <1>3
<1>7. Supply(none) = 0
    BY <1>5, AccountsAssumption, SumOfZeros DEF Supply
<1> HIDE DEF none, c
<1>8. Supply(accounts) = supply
  <2>1. Supply([none EXCEPT ![owner] = c]) =
            Supply(none) - total_balance(none[owner]) + total_balance(c)
    BY <1>3, <1>6, SupplyChanged
  <2>2. none[owner] = NoAccount /\ supply \in Nat
    BY DEF none
  <2> QED BY <1>5, <1>6, <1>7, <2>1, <2>2
<1> QED BY <1>1, <1>8 DEF SupplyIsConserved, Supply

(* Every method moves tokens or locks, and makes or burns none.             *)
LEMMA SupplyStep == IInv /\ SupplyIsConserved /\ [Next]_vars => SupplyIsConserved'
<1> SUFFICES ASSUME IInv, SupplyIsConserved, [Next]_vars PROVE SupplyIsConserved'
    OBVIOUS
<1>0. accounts \in [Accounts -> Account]
    BY DEF IInv
<1>1. ASSUME NEW owner \in Accounts, NEW escrow \in Accounts, NEW amount \in Amounts,
             set_allowance(owner, escrow, amount)
      PROVE  SupplyIsConserved'
  <2> DEFINE locked == accounts[owner].locked_balances[escrow]
  <2>1. accounts[owner].balance \in Nat /\ locked \in Nat /\ amount \in Nat
    BY <1>0, Numbers
  <2>2. /\ locked <= amount
        /\ Store(owner, Updated(accounts[owner], escrow, accounts[owner].balance, amount - locked, locked))
    BY <1>1 DEF set_allowance
  <2> HIDE DEF locked
  <2>3. amount - locked \in Nat
    BY <2>1, <2>2
  <2> QED BY <1>0, <2>1, <2>2, <2>3, StoreKeepsSupply DEF locked
<1>2. ASSUME NEW escrow \in Accounts, NEW owner \in Accounts, NEW amount \in Amounts,
             lock(escrow, owner, amount)
      PROVE  SupplyIsConserved'
  <2> DEFINE b == accounts[owner].balance - amount
             a == Allowance(accounts[owner], escrow, owner, amount)
             l == accounts[owner].locked_balances[escrow] + amount
  <2>1. /\ b \in Nat /\ a \in Nat /\ l \in Nat
        /\ b + l = accounts[owner].balance + accounts[owner].locked_balances[escrow]
    BY <1>0, <1>2, Numbers DEF lock, Allowance
  <2>2. Store(owner, Updated(accounts[owner], escrow, b, a, l))
    BY <1>2 DEF lock
  <2> HIDE DEF b, a, l
  <2> QED BY <1>0, <2>1, <2>2, StoreKeepsSupply
<1>3. ASSUME NEW escrow \in Accounts, NEW owner \in Accounts, NEW amount \in Amounts,
             unlock(escrow, owner, amount)
      PROVE  SupplyIsConserved'
  <2> DEFINE b == accounts[owner].balance + amount
             a == Allowance(accounts[owner], escrow, owner, -amount)
             l == accounts[owner].locked_balances[escrow] - amount
  <2>1. /\ b \in Nat /\ a \in Nat /\ l \in Nat
        /\ b + l = accounts[owner].balance + accounts[owner].locked_balances[escrow]
    BY <1>0, <1>3, Numbers DEF unlock, Allowance
  <2>2. Store(owner, Updated(accounts[owner], escrow, b, a, l))
    BY <1>3 DEF unlock
  <2> HIDE DEF b, a, l
  <2> QED BY <1>0, <2>1, <2>2, StoreKeepsSupply
<1>4. ASSUME NEW escrow \in Accounts, NEW owner \in Accounts, NEW new_owner \in Accounts,
             NEW amount \in Amounts, transfer_from(escrow, owner, new_owner, amount)
      PROVE  SupplyIsConserved'
  <2> DEFINE account == accounts[owner]
             d == Debited(account, escrow, owner, amount)
             between == [accounts EXCEPT ![owner] = d]
             c == Credited(between[new_owner], amount)
             used == Used(account, escrow, amount)
  <2>1. account \in Account /\ amount \in Nat /\ CanDebit(account, escrow, owner, amount)
    BY <1>0, <1>4 DEF transfer_from
  <2>2. /\ d \in Account /\ used \in 0 .. amount
        /\ d.balance = account.balance - (amount - used)
        /\ \A e \in Accounts : d.locked_balances[e] =
                IF e = escrow THEN account.locked_balances[e] - used ELSE account.locked_balances[e]
    BY <2>1, DebitedAccount
  <2>3. between[new_owner] = IF new_owner = owner THEN d ELSE accounts[new_owner]
    BY <1>0
  <2>4. accounts' = [between EXCEPT ![new_owner] = c] /\ total_supply' = total_supply
    BY <1>4, <2>3 DEF transfer_from
  <2> HIDE DEF d, used
  <2>5. between \in [Accounts -> Account] /\ between[new_owner] \in Account
    BY <1>0, <2>2
  <2>6. total_balance(d) = total_balance(account) - amount
    <3> DEFINE x == account.balance
               y == account.locked_balances[escrow]
    <3>1. total_balance(d) = total_balance(account) - x + d.balance - y + d.locked_balances[escrow]
      BY <2>1, <2>2, TotalBalanceChanged
    <3>2. /\ x \in Nat /\ y \in Nat /\ total_balance(account) \in Int /\ used \in Int
          /\ d.balance = x - (amount - used) /\ d.locked_balances[escrow] = y - used
      BY <2>1, <2>2, LocksAreNumbers
    <3> HIDE DEF x, y, account
    <3> QED BY <2>1, <3>1, <3>2
  <2>7. c \in Account /\ total_balance(c) = total_balance(between[new_owner]) + amount
    <3> DEFINE receiver == between[new_owner]
    <3>1. /\ c \in Account /\ c.balance = receiver.balance + amount
          /\ c.locked_balances = receiver.locked_balances
      BY <2>1, <2>5, CreditedAccount
    <3>2. receiver.balance \in Nat /\ SumOver(receiver.locked_balances, Accounts) \in Int
      BY <2>5, LocksAreNumbers
    <3> HIDE DEF receiver, c
    <3>3. total_balance(c) = total_balance(receiver) + amount
      BY <2>1, <3>1, <3>2 DEF total_balance
    <3> QED BY <3>1, <3>3 DEF receiver
  <2> HIDE DEF c
  <2>8. Supply(between) = Supply(accounts) - amount /\ Supply(accounts) \in Int
    <3>1. /\ Supply(accounts) \in Int
          /\ Supply(between) = Supply(accounts) - total_balance(account) + total_balance(d)
      BY <1>0, <2>2, SupplyChanged
    <3>2. total_balance(account) \in Int
      BY <2>1, LocksAreNumbers
    <3> QED BY <2>1, <2>6, <3>1, <3>2
  <2> HIDE DEF between, account
  <2>9. Supply(accounts') = Supply(between) + amount
    <3>1. Supply(between) \in Int
          /\ Supply(accounts') = Supply(between) - total_balance(between[new_owner]) + total_balance(c)
      BY <2>4, <2>5, <2>7, SupplyChanged
    <3>2. total_balance(between[new_owner]) \in Int
      BY <2>5, LocksAreNumbers
    <3> QED BY <2>1, <2>7, <3>1, <3>2
  <2>10. Supply(accounts') = Supply(accounts)
    BY <2>1, <2>8, <2>9
  <2> QED BY <2>4, <2>10 DEF SupplyIsConserved, Supply
<1>5. CASE UNCHANGED vars
    BY <1>5 DEF vars, SupplyIsConserved
<1> QED BY <1>1, <1>2, <1>3, <1>4, <1>5 DEF Next, transfer

(* The balances and the locks of all accounts together are the total        *)
(* supply, a transfer to oneself included (transfer_from stores the owner's *)
(* account before it reads the new owner's).                                *)
THEOREM TokensAreConserved == Spec => []SupplyIsConserved
<1> QED BY Initial, Step, SupplyInitially, SupplyStep, PTL DEF Spec

----------------------------------------------------------------------------
(* Refinement. *)

(* A new token is a new abstract token.                                     *)
LEMMA InitialMaps == Init => Escrow!Init
<1> SUFFICES ASSUME Init PROVE Escrow!Init
    OBVIOUS
<1>1. PICK owner \in Accounts, supply \in Supplies :
        accounts = [a \in Accounts |-> IF a = owner THEN Credited(NoAccount, supply) ELSE NoAccount]
    BY DEF Init
<1>2. /\ NoAccount \in Account
      /\ NoAccount.balance = 0 /\ NoAccount.allowances = Zero /\ NoAccount.locked_balances = Zero
    BY DEF NoAccount, Zero, Account
<1>3. /\ Credited(NoAccount, supply).balance = supply
      /\ Credited(NoAccount, supply).allowances = Zero
      /\ Credited(NoAccount, supply).locked_balances = Zero
    BY <1>2, CreditedAccount
<1>4. free = [a \in Accounts |-> IF a = owner THEN supply ELSE 0]
    BY <1>1, <1>2, <1>3 DEF free
<1>5. reserved = [a \in Accounts |-> [e \in Accounts |-> 0]]
    BY <1>1, <1>2, <1>3 DEF reserved, Zero
<1>6. limit = [a \in Accounts |-> [e \in Accounts |-> 0]]
    BY <1>1, <1>2, <1>3 DEF limit, Zero
<1> QED BY <1>4, <1>5, <1>6 DEF Escrow!Init

(* The abstract state is made of functions of the accounts. *)
LEMMA Mapped ==
    ASSUME accounts \in [Accounts -> Account], NEW o \in Accounts
    PROVE  /\ free[o] = accounts[o].balance
           /\ reserved[o] = accounts[o].locked_balances
           /\ \A e \in Accounts :
                limit[o][e] = IF e = o THEN 0
                              ELSE accounts[o].allowances[e] + accounts[o].locked_balances[e]
BY DEF free, reserved, limit

(* Two tables that differ in one entry. *)
LEMMA OneEntry ==
    ASSUME NEW S, NEW F \in [S -> [S -> Int]], NEW G \in [S -> [S -> Int]],
           NEW o \in S, NEW e \in S, NEW n \in Int,
           G[o][e] = n,
           \A x \in S, y \in S : x # o \/ y # e => G[x][y] = F[x][y]
    PROVE  G = [F EXCEPT ![o][e] = n]
<1>1. G[o] = [F[o] EXCEPT ![e] = n]
  <2>1. G[o] \in [S -> Int] /\ F[o] \in [S -> Int]
    OBVIOUS
  <2>2. \A y \in S : G[o][y] = [F[o] EXCEPT ![e] = n][y]
    BY <2>1
  <2> QED BY <2>1, <2>2
<1>2. ASSUME NEW x \in S, x # o PROVE G[x] = F[x]
  <2>1. G[x] \in [S -> Int] /\ F[x] \in [S -> Int]
    OBVIOUS
  <2>2. \A y \in S : G[x][y] = F[x][y]
    BY <1>2
  <2> QED BY <2>1, <2>2
<1> QED BY <1>1, <1>2

(* What an escrow may still take, as an entry of limit. *)
LEMMA LimitType ==
    ASSUME NEW as \in [Accounts -> Account]
    PROVE  [a \in Accounts |-> [e \in Accounts |->
                IF e = a THEN 0 ELSE as[a].allowances[e] + as[a].locked_balances[e]]]
                \in [Accounts -> [Accounts -> Int]]
<1>1. \A a \in Accounts, e \in Accounts :
        as[a].allowances[e] \in Nat /\ as[a].locked_balances[e] \in Nat
    BY DEF Account
<1>2. ASSUME NEW a \in Accounts
      PROVE  [e \in Accounts |-> IF e = a THEN 0 ELSE as[a].allowances[e] + as[a].locked_balances[e]]
                \in [Accounts -> Int]
  <2>1. ASSUME NEW e \in Accounts
        PROVE  (IF e = a THEN 0 ELSE as[a].allowances[e] + as[a].locked_balances[e]) \in Int
    <3> DEFINE allowance == as[a].allowances[e]
               locked == as[a].locked_balances[e]
    <3>1. allowance \in Nat /\ locked \in Nat
      BY <1>1
    <3> HIDE DEF allowance, locked
    <3>2. (IF e = a THEN 0 ELSE allowance + locked) \in Int
      BY <3>1
    <3> QED BY <3>2 DEF allowance, locked
  <2> QED BY <2>1
<1> QED BY <1>2

(* How a step that stores an updated account looks in the abstract state. *)
LEMMA StoreMaps ==
    ASSUME accounts \in [Accounts -> Account], NEW owner \in Accounts, NEW escrow \in Accounts,
           NEW b \in Nat, NEW a \in Nat, NEW l \in Nat,
           Store(owner, Updated(accounts[owner], escrow, b, a, l))
    PROVE  /\ free' = [free EXCEPT ![owner] = b]
           /\ reserved' = [reserved EXCEPT ![owner][escrow] = l]
           /\ limit' = [limit EXCEPT ![owner][escrow] = IF escrow = owner THEN 0 ELSE a + l]
<1> DEFINE u == Updated(accounts[owner], escrow, b, a, l)
<1>1. /\ u \in Account
      /\ u.balance = b
      /\ \A e \in Accounts :
            /\ u.allowances[e] = IF e = escrow THEN a ELSE accounts[owner].allowances[e]
            /\ u.locked_balances[e] = IF e = escrow THEN l ELSE accounts[owner].locked_balances[e]
    BY DEF Updated, Account
<1>2. accounts' = [accounts EXCEPT ![owner] = u]
    BY DEF Store
<1>3. u.locked_balances = [accounts[owner].locked_balances EXCEPT ![escrow] = l]
    BY DEF Updated
<1> HIDE DEF u
<1>4. free' = [free EXCEPT ![owner] = b]
    BY <1>1, <1>2 DEF free
<1>5. reserved' = [reserved EXCEPT ![owner][escrow] = l]
    BY <1>2, <1>3 DEF reserved
<1>6. limit' = [limit EXCEPT ![owner][escrow] = IF escrow = owner THEN 0 ELSE a + l]
  <2> DEFINE n == IF escrow = owner THEN 0 ELSE a + l
  <2>1. accounts' \in [Accounts -> Account]
    BY <1>1, <1>2
  <2>2. limit \in [Accounts -> [Accounts -> Int]] /\ limit' \in [Accounts -> [Accounts -> Int]]
    BY <2>1, LimitType DEF limit
  <2>3. limit'[owner][escrow] = n
    BY <1>1, <1>2 DEF limit
  <2>4. \A x \in Accounts, y \in Accounts : x # owner \/ y # escrow => limit'[x][y] = limit[x][y]
    BY <1>1, <1>2 DEF limit
  <2>5. n \in Int
    OBVIOUS
  <2> HIDE DEF n
  <2>6. limit' = [limit EXCEPT ![owner][escrow] = n]
    BY <2>2, <2>3, <2>4, <2>5, OneEntry
  <2> QED BY <2>6 DEF n
<1> QED BY <1>4, <1>5, <1>6

(* A double update with the old value changes nothing. *)
LEMMA SameLimit ==
    ASSUME NEW owner \in Accounts, NEW escrow \in Accounts, NEW n, n = limit[owner][escrow]
    PROVE  [limit EXCEPT ![owner][escrow] = n] = limit
BY DEF limit

(* Every method is a step of the abstract token, or changes nothing in it.  *)
LEMMA StepMaps == IInv /\ [Next]_vars => [Escrow!Next]_(Escrow!vars)
<1> SUFFICES ASSUME IInv, [Next]_vars PROVE [Escrow!Next]_(Escrow!vars)
    OBVIOUS
<1>0. accounts \in [Accounts -> Account]
    BY DEF IInv
<1>1. ASSUME NEW owner \in Accounts, NEW escrow \in Accounts, NEW amount \in Amounts,
             set_allowance(owner, escrow, amount)
      PROVE  Escrow!Approve(owner, escrow, amount)
  <2> DEFINE locked == accounts[owner].locked_balances[escrow]
  <2>7. /\ owner # escrow /\ locked <= amount
        /\ Store(owner, Updated(accounts[owner], escrow, accounts[owner].balance, amount - locked, locked))
    BY <1>1 DEF set_allowance
  <2>8. locked \in Nat /\ accounts[owner].balance \in Nat
    BY <1>0, Numbers
  <2>9. amount \in Nat
    BY AmountsAssumption
  <2> HIDE DEF locked
  <2>1. /\ owner # escrow /\ locked \in Nat /\ amount - locked \in Nat
        /\ accounts[owner].balance \in Nat
        /\ Store(owner, Updated(accounts[owner], escrow, accounts[owner].balance, amount - locked, locked))
    BY <2>7, <2>8, <2>9
  <2>2. /\ free' = [free EXCEPT ![owner] = accounts[owner].balance]
        /\ reserved' = [reserved EXCEPT ![owner][escrow] = locked]
        /\ limit' = [limit EXCEPT ![owner][escrow] = IF escrow = owner THEN 0 ELSE amount - locked + locked]
    BY <1>0, <2>1, StoreMaps
  <2>3. free[owner] = accounts[owner].balance /\ reserved[owner][escrow] = locked
    BY <1>0, Mapped DEF locked
  <2>4. amount - locked + locked = amount /\ amount >= locked
    BY <2>1
  <2>5. free' = free
    BY <2>2, <2>3 DEF free
  <2>6. reserved' = reserved
    BY <1>0, <2>2, <2>3 DEF reserved, Account
  <2> QED BY <2>1, <2>2, <2>3, <2>4, <2>5, <2>6 DEF Escrow!Approve
<1>2. ASSUME NEW escrow \in Accounts, NEW owner \in Accounts, NEW amount \in Amounts,
             lock(escrow, owner, amount)
      PROVE  Escrow!Reserve(escrow, owner, amount)
  <2> DEFINE b == accounts[owner].balance - amount
             a == Allowance(accounts[owner], escrow, owner, amount)
             l == accounts[owner].locked_balances[escrow] + amount
  <2>1. /\ amount \in Nat /\ b \in Nat /\ a \in Nat /\ l \in Nat
        /\ Store(owner, Updated(accounts[owner], escrow, b, a, l))
    <3>1. /\ accounts[owner].balance \in Nat
          /\ accounts[owner].allowances[escrow] \in Nat
          /\ accounts[owner].locked_balances[escrow] \in Nat
      BY <1>0, Numbers
    <3>2. amount \in Nat /\ b \in Nat /\ a \in Nat /\ l \in Nat
      BY <1>2, <3>1 DEF lock, Allowance
    <3>3. Store(owner, Updated(accounts[owner], escrow, b, a, l))
      BY <1>2 DEF lock
    <3> QED BY <3>2, <3>3
  <2>2. /\ b = free[owner] - amount
        /\ l = reserved[owner][escrow] + amount
        /\ (IF escrow = owner THEN 0 ELSE a + l) = limit[owner][escrow]
        /\ amount <= free[owner]
        /\ escrow # owner => l <= limit[owner][escrow]
    <3>1. /\ accounts[owner].balance \in Nat
          /\ accounts[owner].allowances[escrow] \in Nat
          /\ accounts[owner].locked_balances[escrow] \in Nat
      BY <1>0, Numbers
    <3>2. /\ free[owner] = accounts[owner].balance
          /\ reserved[owner][escrow] = accounts[owner].locked_balances[escrow]
          /\ limit[owner][escrow] = IF escrow = owner THEN 0
                ELSE accounts[owner].allowances[escrow] + accounts[owner].locked_balances[escrow]
      BY <1>0, Mapped
    <3> QED BY <2>1, <3>1, <3>2 DEF Allowance
  <2> HIDE DEF b, a, l
  <2>3. /\ free' = [free EXCEPT ![owner] = b]
        /\ reserved' = [reserved EXCEPT ![owner][escrow] = l]
        /\ limit' = [limit EXCEPT ![owner][escrow] = IF escrow = owner THEN 0 ELSE a + l]
    BY <1>0, <2>1, StoreMaps
  <2>4. limit' = limit
    BY <2>2, <2>3, SameLimit
  <2> QED BY <2>2, <2>3, <2>4 DEF Escrow!Reserve
<1>3. ASSUME NEW escrow \in Accounts, NEW owner \in Accounts, NEW amount \in Amounts,
             unlock(escrow, owner, amount)
      PROVE  Escrow!Release(escrow, owner, amount)
  <2> DEFINE b == accounts[owner].balance + amount
             a == Allowance(accounts[owner], escrow, owner, -amount)
             l == accounts[owner].locked_balances[escrow] - amount
  <2>1. /\ amount \in Nat /\ b \in Nat /\ a \in Nat /\ l \in Nat
        /\ Store(owner, Updated(accounts[owner], escrow, b, a, l))
    <3>1. /\ accounts[owner].balance \in Nat
          /\ accounts[owner].allowances[escrow] \in Nat
          /\ accounts[owner].locked_balances[escrow] \in Nat
      BY <1>0, Numbers
    <3>2. amount \in Nat /\ b \in Nat /\ a \in Nat /\ l \in Nat
      BY <1>3, <3>1 DEF unlock, Allowance
    <3>3. Store(owner, Updated(accounts[owner], escrow, b, a, l))
      BY <1>3 DEF unlock
    <3> QED BY <3>2, <3>3
  <2>2. /\ b = free[owner] + amount
        /\ l = reserved[owner][escrow] - amount
        /\ (IF escrow = owner THEN 0 ELSE a + l) = limit[owner][escrow]
        /\ amount <= reserved[owner][escrow]
    <3>1. /\ accounts[owner].balance \in Nat
          /\ accounts[owner].allowances[escrow] \in Nat
          /\ accounts[owner].locked_balances[escrow] \in Nat
      BY <1>0, Numbers
    <3>2. /\ free[owner] = accounts[owner].balance
          /\ reserved[owner][escrow] = accounts[owner].locked_balances[escrow]
          /\ limit[owner][escrow] = IF escrow = owner THEN 0
                ELSE accounts[owner].allowances[escrow] + accounts[owner].locked_balances[escrow]
      BY <1>0, Mapped
    <3> QED BY <2>1, <3>1, <3>2 DEF Allowance
  <2> HIDE DEF b, a, l
  <2>3. /\ free' = [free EXCEPT ![owner] = b]
        /\ reserved' = [reserved EXCEPT ![owner][escrow] = l]
        /\ limit' = [limit EXCEPT ![owner][escrow] = IF escrow = owner THEN 0 ELSE a + l]
    BY <1>0, <2>1, StoreMaps
  <2>4. limit' = limit
    BY <2>2, <2>3, SameLimit
  <2> QED BY <2>2, <2>3, <2>4 DEF Escrow!Release
<1>4. ASSUME NEW escrow \in Accounts, NEW owner \in Accounts, NEW new_owner \in Accounts,
             NEW amount \in Amounts, transfer_from(escrow, owner, new_owner, amount)
      PROVE  Escrow!Take(escrow, owner, new_owner, amount)
  <2> DEFINE used == Used(accounts[owner], escrow, amount)
             d == Debited(accounts[owner], escrow, owner, amount)
             new_account == IF new_owner = owner THEN d ELSE accounts[new_owner]
             c == Credited(new_account, amount)
  <2>1. /\ d \in Account
        /\ used \in 0 .. amount
        /\ amount - used <= accounts[owner].balance
        /\ escrow # owner => amount - used <= accounts[owner].allowances[escrow]
        /\ d.balance = accounts[owner].balance - (amount - used)
        /\ \A e \in Accounts :
            /\ d.allowances[e] = IF e = escrow /\ escrow # owner
                                 THEN accounts[owner].allowances[e] - (amount - used)
                                 ELSE accounts[owner].allowances[e]
            /\ d.locked_balances[e] = IF e = escrow THEN accounts[owner].locked_balances[e] - used
                                      ELSE accounts[owner].locked_balances[e]
    BY <1>0, <1>4, DebitedAccount DEF transfer_from
  <2>2. accounts' = [[accounts EXCEPT ![owner] = d] EXCEPT ![new_owner] = c]
    BY <1>4 DEF transfer_from
  <2>3. used = IF reserved[owner][escrow] >= amount THEN amount ELSE reserved[owner][escrow]
    BY <1>0, Mapped DEF Used
  <2>4. amount \in Nat /\ accounts[owner].locked_balances[escrow] \in Nat
        /\ used <= accounts[owner].locked_balances[escrow]
    BY <1>0, Numbers DEF Used
  <2> HIDE DEF d, used
  <2>5. new_account \in Account
    BY <1>0, <2>1
  <2> HIDE DEF new_account
  <2>6. /\ c.balance = new_account.balance + amount
        /\ c.allowances = new_account.allowances
        /\ c.locked_balances = new_account.locked_balances
    BY <2>4, <2>5, CreditedAccount
  <2> HIDE DEF c
  <2>7. \A o \in Accounts :
            LET between == IF o = owner THEN d ELSE accounts[o]
            IN  /\ accounts'[o].allowances = between.allowances
                /\ accounts'[o].locked_balances = between.locked_balances
                /\ accounts'[o].balance = between.balance + (IF o = new_owner THEN amount ELSE 0)
    <3> SUFFICES ASSUME NEW o \in Accounts
                 PROVE  LET between == IF o = owner THEN d ELSE accounts[o]
                        IN  /\ accounts'[o].allowances = between.allowances
                            /\ accounts'[o].locked_balances = between.locked_balances
                            /\ accounts'[o].balance = between.balance + (IF o = new_owner THEN amount ELSE 0)
      OBVIOUS
    <3>1. accounts'[o] = IF o = new_owner THEN c ELSE IF o = owner THEN d ELSE accounts[o]
      BY <1>0, <2>2
    <3>2. d.balance \in Nat /\ accounts[o].balance \in Nat
      BY <1>0, <2>1, Numbers DEF Account
    <3> QED BY <2>6, <3>1, <3>2 DEF new_account
  <2>8. free' = [[free EXCEPT ![owner] = @ - (amount - used)] EXCEPT ![new_owner] = @ + amount]
    <3>1. \A o \in Accounts : accounts[o].balance \in Nat
      BY <1>0, Numbers
    <3>2. \A o \in Accounts : accounts'[o].balance =
            (IF o = owner THEN accounts[o].balance - (amount - used) ELSE accounts[o].balance)
                + (IF o = new_owner THEN amount ELSE 0)
      BY <2>1, <2>7
    <3> QED BY <2>1, <2>4, <3>1, <3>2 DEF free
  <2>9. reserved' = [reserved EXCEPT ![owner][escrow] = @ - used]
    <3>1. d.locked_balances = [accounts[owner].locked_balances EXCEPT ![escrow] = @ - used]
      BY <1>0, <2>1 DEF Account
    <3> QED BY <1>0, <2>7, <3>1 DEF reserved
  <2>10. limit' = IF escrow = owner THEN limit ELSE [limit EXCEPT ![owner][escrow] = @ - amount]
    <3>1. ASSUME NEW o \in Accounts, NEW e \in Accounts, e # o
          PROVE  accounts'[o].allowances[e] + accounts'[o].locked_balances[e] =
                    accounts[o].allowances[e] + accounts[o].locked_balances[e]
                        - (IF o = owner /\ e = escrow THEN amount ELSE 0)
      <4>1. accounts[o].allowances[e] \in Nat /\ accounts[o].locked_balances[e] \in Nat
        BY <1>0, Numbers
      <4> QED BY <2>1, <2>4, <2>7, <3>1, <4>1
    <3>2. \A o \in Accounts, e \in Accounts :
            accounts[o].allowances[e] \in Nat /\ accounts[o].locked_balances[e] \in Nat
      BY <1>0, Numbers
    <3>3. CASE escrow = owner
      <4>1. \A o \in Accounts, e \in Accounts : e # o =>
              accounts'[o].allowances[e] + accounts'[o].locked_balances[e] =
                  accounts[o].allowances[e] + accounts[o].locked_balances[e]
        BY <3>1, <3>2, <3>3
      <4> QED BY <3>3, <4>1 DEF limit
    <3>4. CASE escrow # owner
      <4> DEFINE n == limit[owner][escrow] - amount
      <4>1. accounts' \in [Accounts -> Account]
        BY Step DEF IInv
      <4>2. limit \in [Accounts -> [Accounts -> Int]] /\ limit' \in [Accounts -> [Accounts -> Int]]
        BY <1>0, <4>1, LimitType DEF limit
      <4>3. limit'[owner][escrow] = accounts'[owner].allowances[escrow] + accounts'[owner].locked_balances[escrow]
        BY <3>4 DEF limit
      <4>4. limit[owner][escrow] = accounts[owner].allowances[escrow] + accounts[owner].locked_balances[escrow]
        BY <3>4 DEF limit
      <4>5. limit'[owner][escrow] = n /\ n \in Int
        BY <2>4, <3>1, <3>2, <3>4, <4>3, <4>4
      <4>6. ASSUME NEW x \in Accounts, NEW y \in Accounts, x # owner \/ y # escrow
            PROVE  limit'[x][y] = limit[x][y]
        <5>1. CASE y = x
          BY <5>1 DEF limit
        <5>2. CASE y # x
          <6>1. accounts'[x].allowances[y] + accounts'[x].locked_balances[y] =
                    accounts[x].allowances[y] + accounts[x].locked_balances[y]
            BY <3>1, <3>2, <4>6, <5>2
          <6> QED BY <5>2, <6>1 DEF limit
        <5> QED BY <5>1, <5>2
      <4> HIDE DEF n
      <4>7. limit' = [limit EXCEPT ![owner][escrow] = n]
        BY <4>2, <4>5, <4>6, OneEntry
      <4> QED BY <3>4, <4>7 DEF n
    <3> QED BY <3>3, <3>4
  <2>11. amount - used <= free[owner] /\ (escrow # owner => amount <= limit[owner][escrow])
    BY <1>0, <2>1, <2>4, Numbers, Mapped
  <2> QED BY <2>3, <2>8, <2>9, <2>10, <2>11 DEF Escrow!Take
<1>5. CASE UNCHANGED vars
    BY <1>5 DEF vars, Escrow!vars, free, reserved, limit
<1> QED BY <1>1, <1>2, <1>3, <1>4, <1>5 DEF Next, transfer, Escrow!Next

(* However locks, unlocks and transfers are mixed, an escrow takes from an  *)
(* owner at most the allowance it was last given, and locking only          *)
(* reserves: every step of the token is a step of the abstract one          *)
(* (set_allowance, lock, unlock, transfer, transfer_from).                  *)
THEOREM TokenImplementsEscrow == Spec => ImplementsEscrow
<1>1. Spec => []IInv BY Initial, Step, PTL DEF Spec
<1> QED BY <1>1, InitialMaps, StepMaps, PTL DEF Spec, ImplementsEscrow, Escrow!Spec
=============================================================================
