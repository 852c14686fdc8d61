---------------------------- MODULE LaunchProofs ----------------------------
(***************************************************************************)
(* Proofs about the factories and the airdrop on one runtime, for any      *)
(* number of users, names, keys and calls.                                 *)
(***************************************************************************)
EXTENDS Launch, SumTheorems

Promise ==
    [n : Nat, kind : {"create", "create_only", "transfer"}, by : Contracts,
     account : AccountIds, amount : Nat, caller : AccountIds, key : Keys \cup {NoKey},
     status : {"sent", "successful", "failed"}]

(* What the contracts put into a promise. *)
Sound(p) ==
    /\ p.kind # "transfer" => \E name \in Names : p.account = <<p.by, name>>
    /\ p.kind = "transfer" => p.by = AirdropId
    /\ p.kind = "create_only" => p.by = MultisigFactoryId
    /\ p.status # "sent" => p.kind = "create"
    /\ p.kind = "create" /\ p.key = NoKey => p.caller \in Users
    /\ p.by # AirdropId => p.key = NoKey

(* Every promise belongs to one call. *)
PromisesOK ==
    /\ promises \subseteq Promise
    /\ IsFiniteSet(promises)
    /\ calls \in Nat
    /\ \A p \in promises : p.n < calls /\ Sound(p)
    /\ \A p, q \in promises : p.n = q.n => p = q

PoolPromises == {p \in promises : p.by = PoolFactoryId}

(* At most one creation of a pool is in flight, and it is of an account     *)
(* that does not exist.                                                     *)
PoolsOK ==
    /\ existing \subseteq SubAccounts
    /\ ListedPoolsExist
    /\ \A p, q \in PoolPromises : p.account = q.account => p = q
    /\ \A p \in PoolPromises : p.account \in existing <=> p.status = "successful"

MoneyOK ==
    /\ tokens \in [AccountIds -> Int]
    /\ accounts \in [Keys -> Nat]
    /\ FactoriesKeepNoDeposit
    /\ AirdropIsSolvent

IInv == PromisesOK /\ PoolsOK /\ MoneyOK

----------------------------------------------------------------------------
(* The deposits that came back to a contract. *)

Refunds(P, c) == SumOver([p \in P |-> p.amount], {p \in P : p.by = c /\ p.status = "failed"})

Refund(p, c) == IF p.by = c /\ p.status = "failed" THEN p.amount ELSE 0

(* A promise more in the set of promises.                                   *)
LEMMA RefundsWith ==
    ASSUME NEW P, IsFiniteSet(P), \A p \in P : p.amount \in Nat,
           NEW q, q \notin P, q.amount \in Nat, NEW c
    PROVE  Refunds(P, c) \in Nat /\ Refunds(P \cup {q}, c) = Refunds(P, c) + Refund(q, c)
<1> DEFINE Q == P \cup {q}
           f == [p \in P |-> p.amount]
           g == [p \in Q |-> p.amount]
           A == {p \in P : p.by = c /\ p.status = "failed"}
           B == {p \in Q : p.by = c /\ p.status = "failed"}
<1>1. IsFiniteSet(A)
    BY FS_Subset
<1>2. \A p \in A : f[p] \in Nat /\ f[p] \in Int /\ g[p] = f[p]
    OBVIOUS
<1>3. g[q] = q.amount /\ q \notin A /\ \A p \in A \cup {q} : g[p] \in Int
    OBVIOUS
<1>4. Refunds(P, c) = SumOver(f, A) /\ Refunds(Q, c) = SumOver(g, B)
    BY DEF Refunds
<1>5. B = IF q.by = c /\ q.status = "failed" THEN A \cup {q} ELSE A
    OBVIOUS
<1> HIDE DEF f, g, A, B, Q
<1>6. SumOver(f, A) \in Nat /\ SumOver(g, A) = SumOver(f, A)
    BY <1>1, <1>2, SumIsNat, SumCongruence
<1>7. SumOver(g, A \cup {q}) = g[q] + SumOver(g, A)
    BY <1>1, <1>3, SumWithElement
<1>8. CASE q.by = c /\ q.status = "failed"
    BY <1>3, <1>4, <1>5, <1>6, <1>7, <1>8 DEF Refund, Q
<1>9. CASE ~(q.by = c /\ q.status = "failed")
    BY <1>3, <1>4, <1>5, <1>6, <1>7, <1>9 DEF Refund, Q
<1> QED BY <1>8, <1>9

(* A promise less.                                                          *)
LEMMA RefundsWithout ==
    ASSUME NEW P, IsFiniteSet(P), \A p \in P : p.amount \in Nat, NEW q \in P, NEW c
    PROVE  /\ Refunds(P, c) \in Nat /\ Refunds(P \ {q}, c) \in Nat
           /\ Refunds(P, c) = Refunds(P \ {q}, c) + Refund(q, c)
<1> DEFINE R == P \ {q}
<1>1. IsFiniteSet(R) /\ q \notin R /\ R \cup {q} = P /\ q.amount \in Nat /\ \A p \in R : p.amount \in Nat
    BY FS_RemoveElement
<1> HIDE DEF R
<1>2. Refunds(R, c) \in Nat /\ Refunds(R \cup {q}, c) = Refunds(R, c) + Refund(q, c)
    BY <1>1, RefundsWith
<1>3. Refund(q, c) \in Nat
    BY <1>1 DEF Refund
<1>4. /\ Refunds(P, c) \in Nat /\ Refunds(R, c) \in Nat
      /\ Refunds(P, c) = Refunds(R, c) + Refund(q, c)
  <2>1. Refunds(P, c) = Refunds(R, c) + Refund(q, c)
    BY <1>1, <1>2
  <2> QED BY <1>2, <1>3, <2>1
<1> QED BY <1>4 DEF R

(* Refunds are natural numbers.                                             *)
LEMMA RefundsType == ASSUME PromisesOK, NEW c PROVE Refunds(promises, c) \in Nat
<1> DEFINE f == [p \in promises |-> p.amount]
           S == {p \in promises : p.by = c /\ p.status = "failed"}
<1>1. IsFiniteSet(S) /\ \A p \in S : f[p] \in Nat
    BY FS_Subset DEF PromisesOK, Promise
<1> HIDE DEF f, S
<1>2. SumOver(f, S) \in Nat
    BY <1>1, SumIsNat
<1> QED BY <1>2 DEF Refunds, f, S

(* They are what the contracts' callbacks wait for.                         *)
LEMMA AwaitingRefunds == \A c : AwaitingRefund(c) = Refunds(promises, c)
BY DEF AwaitingRefund, Refunds

----------------------------------------------------------------------------
(* How the set of promises changes. *)

(* A call sends a promise. *)
LEMMA PromiseSent ==
    ASSUME PromisesOK, NEW q \in Promise, q.n = calls, q.status = "sent", Sound(q),
           calls' = calls + 1, promises' = promises \cup {q}
    PROVE  PromisesOK' /\ q \notin promises /\ \A c : Refunds(promises', c) = Refunds(promises, c)
<1>1. /\ promises \subseteq Promise /\ IsFiniteSet(promises) /\ calls \in Nat
      /\ \A p \in promises : p.n < calls /\ p.n \in Nat /\ p.amount \in Nat /\ Sound(p)
      /\ \A p1, p2 \in promises : p1.n = p2.n => p1 = p2
    BY DEF PromisesOK, Promise
<1>2. q \notin promises
    BY <1>1
<1>3. IsFiniteSet(promises')
    BY <1>1, FS_AddElement
<1>4. \A p \in promises' : p.n < calls' /\ Sound(p)
    BY <1>1
<1>5. \A p1, p2 \in promises' : p1.n = p2.n => p1 = p2
    BY <1>1
<1>6. PromisesOK'
    BY <1>1, <1>3, <1>4, <1>5 DEF PromisesOK, Sound
<1>7. ASSUME NEW c PROVE Refunds(promises', c) = Refunds(promises, c)
  <2>1. q.amount \in Nat
    BY DEF Promise
  <2>2. Refunds(promises, c) \in Nat /\ Refunds(promises', c) = Refunds(promises, c) + Refund(q, c)
    BY <1>1, <1>2, <2>1, RefundsWith
  <2> QED BY <2>2 DEF Refund
<1> QED BY <1>2, <1>6, <1>7

(* A promise is done. *)
LEMMA PromiseDone ==
    ASSUME PromisesOK, NEW p \in promises, calls' = calls, promises' = promises \ {p}
    PROVE  /\ PromisesOK'
           /\ \A c : /\ Refunds(promises', c) \in Nat
                     /\ Refunds(promises, c) = Refunds(promises', c) + Refund(p, c)
<1>1. /\ promises \subseteq Promise /\ IsFiniteSet(promises) /\ calls \in Nat
      /\ \A q \in promises : q.amount \in Nat
    BY DEF PromisesOK, Promise
<1>2. IsFiniteSet(promises')
    BY <1>1, FS_RemoveElement
<1>3. PromisesOK'
    BY <1>1, <1>2 DEF PromisesOK, Sound
<1>4. \A c : /\ Refunds(promises', c) \in Nat
             /\ Refunds(promises, c) = Refunds(promises', c) + Refund(p, c)
    BY <1>1, RefundsWithout
<1> QED BY <1>3, <1>4

(* A promise with a callback has its result. *)
LEMMA PromiseReturned ==
    ASSUME PromisesOK, NEW p \in promises, p.kind = "create", p.status = "sent",
           NEW status \in {"successful", "failed"}, calls' = calls, Returned(p, status)
    PROVE  LET q == [p EXCEPT !.status = status]
           IN  /\ PromisesOK'
               /\ promises' = (promises \ {p}) \cup {q}
               /\ q.n = p.n /\ q.by = p.by /\ q.account = p.account /\ q.amount = p.amount
               /\ q.status = status /\ q \notin promises
               /\ p.amount \in Nat
               /\ \A c : /\ Refunds(promises, c) \in Nat
                         /\ Refunds(promises', c) = Refunds(promises, c) + Refund(q, c)
<1> DEFINE q == [p EXCEPT !.status = status]
           R == promises \ {p}
<1>1. /\ promises \subseteq Promise /\ IsFiniteSet(promises) /\ calls \in Nat
      /\ \A x \in promises : x.n < calls /\ x.n \in Nat /\ x.amount \in Nat /\ Sound(x)
      /\ \A p1, p2 \in promises : p1.n = p2.n => p1 = p2
    BY DEF PromisesOK, Promise
<1>2. p \in Promise
    BY <1>1
<1>3. /\ q \in Promise /\ q.n = p.n /\ q.kind = p.kind /\ q.by = p.by /\ q.account = p.account
      /\ q.amount = p.amount /\ q.caller = p.caller /\ q.key = p.key /\ q.status = status
    BY <1>2 DEF Promise
<1>4. promises' = R \cup {q}
    BY DEF Returned
<1> HIDE DEF q
<1>5. q \notin promises
    BY <1>1, <1>3
<1>6. IsFiniteSet(R) /\ IsFiniteSet(promises')
    BY <1>1, <1>4, FS_RemoveElement, FS_AddElement
<1>7. Sound(q)
    BY <1>1, <1>3 DEF Sound
<1>8. \A x \in promises' : x.n < calls' /\ Sound(x)
    BY <1>1, <1>3, <1>4, <1>7
<1>9. \A p1, p2 \in promises' : p1.n = p2.n => p1 = p2
    BY <1>1, <1>3, <1>4
<1>10. PromisesOK'
    BY <1>1, <1>3, <1>4, <1>6, <1>8, <1>9 DEF PromisesOK, Sound
<1>11. ASSUME NEW c
       PROVE  /\ Refunds(promises, c) \in Nat
              /\ Refunds(promises', c) = Refunds(promises, c) + Refund(q, c)
  <2>1. Refunds(promises, c) \in Nat /\ Refunds(R, c) \in Nat
        /\ Refunds(promises, c) = Refunds(R, c) + Refund(p, c)
    BY <1>1, RefundsWithout
  <2>2. Refund(p, c) = 0
    BY DEF Refund
  <2>3. q \notin R /\ q.amount \in Nat /\ \A x \in R : x.amount \in Nat
    BY <1>1, <1>3, <1>5
  <2>4. Refunds(R \cup {q}, c) = Refunds(R, c) + Refund(q, c)
    BY <1>6, <2>3, RefundsWith
  <2> QED BY <1>4, <2>1, <2>2, <2>4
<1> QED BY <1>1, <1>3, <1>4, <1>5, <1>10, <1>11 DEF q

----------------------------------------------------------------------------
(* What a step that is not about pools, or not about money, keeps. *)

(* A promise of the pool factory creates a pool.                            *)
LEMMA PoolPromise ==
    ASSUME PromisesOK, NEW p \in PoolPromises
    PROVE  p.kind = "create" /\ p.account \in SubAccounts /\ p.account[1] = PoolFactoryId
<1>1. p \in Promise /\ Sound(p) /\ p.by = PoolFactoryId
    BY DEF PromisesOK, PoolPromises
<1>2. p.kind = "create"
    BY <1>1, ContractsAssumption DEF Sound, Promise
<1>3. PICK name \in Names : p.account = <<PoolFactoryId, name>>
    BY <1>1, <1>2 DEF Sound
<1> QED BY <1>2, <1>3, ContractsAssumption DEF SubAccounts

(* A step that creates no pool and changes no such promise keeps the list.  *)
LEMMA PoolsUnaffected ==
    ASSUME PromisesOK, PoolsOK, UNCHANGED staking_pool_account_ids, existing' \subseteq SubAccounts,
           \A a \in SubAccounts : a[1] = PoolFactoryId => (a \in existing' <=> a \in existing),
           PoolPromises' = PoolPromises
    PROVE  PoolsOK'
<1>1. {a \in existing' : a[1] = PoolFactoryId} = {a \in existing : a[1] = PoolFactoryId}
    BY DEF PoolsOK
<1>2. ListedPoolsExist'
    BY <1>1 DEF PoolsOK, ListedPoolsExist, PoolPromises
<1>3. \A q \in PoolPromises' : q.account \in existing' <=> q.status = "successful"
  <2>1. \A q \in PoolPromises : q.account \in SubAccounts /\ q.account[1] = PoolFactoryId
    BY PoolPromise
  <2> QED BY <2>1 DEF PoolsOK
<1> QED BY <1>2, <1>3 DEF PoolsOK

Owed(amounts) == SumOver([k \in Keys |-> amounts[k]], Keys)

(* What the keys may claim is a natural number.                             *)
LEMMA OwedType == ASSUME NEW amounts \in [Keys -> Nat] PROVE Owed(amounts) \in Nat
BY KeysAssumption, SumIsNat DEF Owed

(* One key's amount changes.                                                *)
LEMMA OwedChanged ==
    ASSUME NEW amounts \in [Keys -> Nat], NEW k \in Keys, NEW n \in Nat
    PROVE  Owed([amounts EXCEPT ![k] = n]) = Owed(amounts) - amounts[k] + n
<1> DEFINE changed == [amounts EXCEPT ![k] = n]
           f == [x \in Keys |-> amounts[x]]
           h == [x \in Keys |-> changed[x]]
<1>0. changed \in [Keys -> Nat] /\ changed[k] = n /\ \A x \in Keys \ {k} : changed[x] = amounts[x]
    OBVIOUS
<1> HIDE DEF changed
<1>1. \A x \in Keys : f[x] \in Int /\ h[x] \in Int
  <2>1. \A x \in Keys : amounts[x] \in Nat /\ changed[x] \in Nat
    BY <1>0
  <2>2. \A x \in Keys : f[x] = amounts[x] /\ h[x] = changed[x]
    OBVIOUS
  <2> QED BY <2>1, <2>2
<1>2. \A x \in Keys \ {k} : h[x] = f[x]
    BY <1>0
<1>3. f[k] = amounts[k] /\ h[k] = n
    BY <1>0
<1> HIDE DEF f, h
<1>4. SumOver(h, Keys) = SumOver(f, Keys) - f[k] + h[k]
    BY <1>1, <1>2, KeysAssumption, SumChanged
<1> QED BY <1>3, <1>4 DEF Owed, f, h, changed

(* The money invariant in terms of sums.                                    *)
LEMMA Money ==
    MoneyOK <=>
        /\ tokens \in [AccountIds -> Int]
        /\ accounts \in [Keys -> Nat]
        /\ tokens[PoolFactoryId] = Refunds(promises, PoolFactoryId)
        /\ tokens[LockupFactoryId] = Refunds(promises, LockupFactoryId)
        /\ tokens[AirdropId] >= Owed(accounts) + Refunds(promises, AirdropId)
BY AwaitingRefunds DEF MoneyOK, FactoriesKeepNoDeposit, AirdropIsSolvent, Owed, Drop!get_key_balance

(* The same for the next state. *)
LEMMA NextMoney ==
    ASSUME tokens' \in [AccountIds -> Int],
           accounts' \in [Keys -> Nat],
           tokens'[PoolFactoryId] = Refunds(promises', PoolFactoryId),
           tokens'[LockupFactoryId] = Refunds(promises', LockupFactoryId),
           tokens'[AirdropId] >= Owed(accounts') + Refunds(promises', AirdropId)
    PROVE  MoneyOK'
<1>1. \A c : AwaitingRefund(c)' = Refunds(promises', c)
    BY DEF AwaitingRefund, Refunds
<1> QED BY <1>1 DEF MoneyOK, FactoriesKeepNoDeposit, AirdropIsSolvent, Owed, Drop!get_key_balance

(* Which names are accounts of what. *)
LEMMA AccountNames ==
    /\ PoolFactoryId \in AccountIds /\ LockupFactoryId \in AccountIds /\ AirdropId \in AccountIds
    /\ \A a \in Users \cup SubAccounts : a \in AccountIds
            /\ a # PoolFactoryId /\ a # LockupFactoryId /\ a # AirdropId
    /\ \A c \in Contracts, name \in Names :
            <<c, name>> \in SubAccounts /\ <<c, name>>[1] = c
BY ContractsAssumption, AccountsAssumption DEF AccountIds, SubAccounts

(* A step that leaves the contracts' tokens alone. *)
LEMMA MoneyElsewhere ==
    ASSUME MoneyOK, UNCHANGED accounts, \A c : Refunds(promises', c) = Refunds(promises, c),
           tokens' \in [AccountIds -> Int], \A c \in Contracts : tokens'[c] = tokens[c]
    PROVE  MoneyOK'
<1>1. /\ tokens \in [AccountIds -> Int] /\ accounts \in [Keys -> Nat]
      /\ tokens[PoolFactoryId] = Refunds(promises, PoolFactoryId)
      /\ tokens[LockupFactoryId] = Refunds(promises, LockupFactoryId)
      /\ tokens[AirdropId] >= Owed(accounts) + Refunds(promises, AirdropId)
    BY Money
<1>2. /\ tokens'[PoolFactoryId] = tokens[PoolFactoryId]
      /\ tokens'[LockupFactoryId] = tokens[LockupFactoryId]
      /\ tokens'[AirdropId] = tokens[AirdropId]
    BY ContractsAssumption
<1> QED BY <1>1, <1>2, NextMoney

(* Users and new accounts are no contracts. *)
LEMMA PaidElsewhere ==
    ASSUME tokens \in [AccountIds -> Int], NEW a \in Users \cup SubAccounts, NEW n \in Int,
           tokens' = [tokens EXCEPT ![a] = @ + n]
    PROVE  tokens' \in [AccountIds -> Int] /\ \A c \in Contracts : tokens'[c] = tokens[c]
<1>1. a \in AccountIds /\ Contracts \subseteq AccountIds
    BY DEF AccountIds
<1>2. \A c \in Contracts : c # a
    BY AccountsAssumption
<1>3. tokens[a] \in Int
    BY <1>1
<1> QED BY <1>1, <1>2, <1>3

(* A step in which contract c gets (or gives) exactly what comes back to it *)
(* (or what it refunds).                                                    *)
LEMMA MoneyReturns ==
    ASSUME MoneyOK, UNCHANGED accounts,
           NEW c \in Contracts, NEW n \in Int,
           tokens' \in [AccountIds -> Int],
           \A d \in Contracts : tokens'[d] = IF d = c THEN tokens[d] + n ELSE tokens[d],
           \A d : /\ Refunds(promises, d) \in Nat
                  /\ Refunds(promises', d) = IF d = c THEN Refunds(promises, d) + n
                                             ELSE Refunds(promises, d)
    PROVE  MoneyOK'
<1>1. /\ tokens \in [AccountIds -> Int] /\ accounts \in [Keys -> Nat]
      /\ tokens[PoolFactoryId] = Refunds(promises, PoolFactoryId)
      /\ tokens[LockupFactoryId] = Refunds(promises, LockupFactoryId)
      /\ tokens[AirdropId] >= Owed(accounts) + Refunds(promises, AirdropId)
    BY Money
<1>2. /\ tokens'[PoolFactoryId] = Refunds(promises', PoolFactoryId)
      /\ tokens'[LockupFactoryId] = Refunds(promises', LockupFactoryId)
    BY <1>1, ContractsAssumption
<1>3. tokens'[AirdropId] >= Owed(accounts) + Refunds(promises', AirdropId)
  <2> DEFINE t == tokens[AirdropId]
             r == Refunds(promises, AirdropId)
             o == Owed(accounts)
  <2>1. t \in Int /\ r \in Nat /\ o \in Nat /\ t >= o + r
    BY <1>1, AccountNames, OwedType
  <2>2. tokens'[AirdropId] = (IF AirdropId = c THEN t + n ELSE t)
        /\ Refunds(promises', AirdropId) = (IF AirdropId = c THEN r + n ELSE r)
    BY ContractsAssumption
  <2> HIDE DEF t, r, o
  <2>3. CASE AirdropId = c
    <3>1. tokens'[AirdropId] = t + n /\ Refunds(promises', AirdropId) = r + n
      BY <2>2, <2>3
    <3>2. t + n >= o + (r + n)
      BY <2>1
    <3> QED BY <3>1, <3>2 DEF o
  <2>4. CASE AirdropId # c
    BY <2>1, <2>2, <2>4 DEF o
  <2> QED BY <2>3, <2>4
<1> QED BY <1>1, <1>2, <1>3, NextMoney

----------------------------------------------------------------------------
(* The runtime's steps. *)

contracts == <<staking_pool_account_ids, accounts, keys, whitelist, factory_whitelist>>

(* A promise in flight and where its money goes. *)
LEMMA PromiseFields ==
    ASSUME PromisesOK, NEW p \in promises
    PROVE  /\ p \in Promise /\ Sound(p)
           /\ p.by \in Contracts /\ p.amount \in Nat /\ p.account \in AccountIds
           /\ p.kind # "transfer" => p.account \in SubAccounts /\ p.account[1] = p.by
           /\ p.by = PoolFactoryId <=> p \in PoolPromises
<1>1. p \in Promise /\ Sound(p)
    BY DEF PromisesOK
<1>2. /\ p.by \in Contracts /\ p.amount \in Nat /\ p.account \in AccountIds
    BY <1>1 DEF Promise
<1>3. ASSUME p.kind # "transfer" PROVE p.account \in SubAccounts /\ p.account[1] = p.by
  <2>1. PICK name \in Names : p.account = <<p.by, name>>
    BY <1>1, <1>3 DEF Sound
  <2> QED BY <1>2, <2>1 DEF SubAccounts
<1> QED BY <1>1, <1>2, <1>3 DEF PoolPromises

(* A promise that nobody waits for, and that is not about a pool. *)
LEMMA DoneElsewhere ==
    ASSUME IInv, NEW p \in promises, p.status = "sent", p.by # PoolFactoryId,
           calls' = calls, promises' = promises \ {p},
           UNCHANGED staking_pool_account_ids,
           existing' = existing \/ (existing' = existing \cup {p.account} /\ p.kind # "transfer")
    PROVE  PromisesOK' /\ PoolsOK' /\ \A c : Refunds(promises', c) = Refunds(promises, c)
<1>0. PromisesOK /\ PoolsOK
    BY DEF IInv
<1>1. /\ PromisesOK'
      /\ \A c : Refunds(promises', c) \in Nat /\ Refunds(promises, c) = Refunds(promises', c) + Refund(p, c)
    BY <1>0, PromiseDone
<1>2. \A c : Refund(p, c) = 0
    BY DEF Refund
<1>3. PoolPromises' = PoolPromises
    BY DEF PoolPromises
<1>4. p.kind # "transfer" => p.account \in SubAccounts /\ p.account[1] = p.by
    BY <1>0, PromiseFields
<1>5. /\ existing' \subseteq SubAccounts
      /\ \A a \in SubAccounts : a[1] = PoolFactoryId => (a \in existing' <=> a \in existing)
    BY <1>0, <1>4 DEF PoolsOK
<1>6. PoolsOK'
    BY <1>0, <1>3, <1>5, PoolsUnaffected
<1>7. ASSUME NEW c PROVE Refunds(promises', c) = Refunds(promises, c)
  <2>1. Refunds(promises', c) \in Nat /\ Refunds(promises, c) = Refunds(promises', c) + 0
    BY <1>1, <1>2
  <2> QED BY <2>1
<1> QED BY <1>1, <1>6, <1>7

(* The runtime creates an account.                                          *)
LEMMA CreateAccountStep ==
    ASSUME IInv, NEW p \in promises, CreateAccount(p), UNCHANGED contracts
    PROVE  IInv'
<1>0. PromisesOK /\ PoolsOK /\ MoneyOK
    BY DEF IInv
<1>1. /\ p.kind \in {"create", "create_only"} /\ p.status = "sent" /\ p.account \notin existing
      /\ existing' = existing \cup {p.account} /\ calls' = calls
      /\ tokens' = [tokens EXCEPT ![p.account] = @ + p.amount]
      /\ UNCHANGED <<staking_pool_account_ids, accounts>>
    BY DEF CreateAccount, contracts
<1>2. p.account \in SubAccounts /\ p.account[1] = p.by /\ p.amount \in Nat /\ Sound(p)
    BY <1>0, <1>1, PromiseFields
<1>5. tokens' \in [AccountIds -> Int] /\ \A c \in Contracts : tokens'[c] = tokens[c]
  <2>1. p.account \in Users \cup SubAccounts /\ p.amount \in Int /\ tokens \in [AccountIds -> Int]
    BY <1>0, <1>2, Money
  <2> QED BY <1>1, <2>1, PaidElsewhere
<1>3. CASE p.kind = "create"
  <2> DEFINE q == [p EXCEPT !.status = "successful"]
  <2>1. Returned(p, "successful")
    BY <1>3 DEF CreateAccount
  <2>2. /\ PromisesOK' /\ promises' = (promises \ {p}) \cup {q}
        /\ q.by = p.by /\ q.account = p.account /\ q.status = "successful" /\ q \notin promises
        /\ \A c : Refunds(promises, c) \in Nat /\ Refunds(promises', c) = Refunds(promises, c) + Refund(q, c)
    BY <1>0, <1>1, <1>3, <2>1, PromiseReturned
  <2> HIDE DEF q
  <2>3. \A c : Refunds(promises', c) = Refunds(promises, c)
    BY <2>2 DEF Refund
  <2>4. MoneyOK'
    BY <1>0, <1>1, <1>5, <2>3, MoneyElsewhere
  <2>5. PoolsOK'
    <3>1. CASE p.by # PoolFactoryId
      <4>1. PoolPromises' = PoolPromises
        BY <2>2, <3>1 DEF PoolPromises
      <4>2. /\ existing' \subseteq SubAccounts
            /\ \A a \in SubAccounts : a[1] = PoolFactoryId => (a \in existing' <=> a \in existing)
        BY <1>0, <1>1, <1>2, <3>1 DEF PoolsOK
      <4> QED BY <1>0, <1>1, <4>1, <4>2, PoolsUnaffected
    <3>2. CASE p.by = PoolFactoryId
      <4>1. PoolPromises' = (PoolPromises \ {p}) \cup {q} /\ p \in PoolPromises
        BY <2>2, <3>2 DEF PoolPromises
      <4>2. \A x, y \in PoolPromises' : x.account = y.account => x = y
        BY <1>0, <2>2, <4>1 DEF PoolsOK
      <4>3. \A x \in PoolPromises' : x.account \in existing' <=> x.status = "successful"
        BY <1>0, <1>1, <2>2, <4>1 DEF PoolsOK
      <4>4. {a \in existing' : a[1] = PoolFactoryId} =
                {a \in existing : a[1] = PoolFactoryId} \cup {p.account}
        BY <1>1, <1>2, <3>2
      <4>5. {x.account : x \in PoolPromises'} = {x.account : x \in PoolPromises}
        BY <2>2, <4>1
      <4>6. staking_pool_account_ids =
                {a \in existing : a[1] = PoolFactoryId} \cup {x.account : x \in PoolPromises}
        BY <1>0 DEF PoolsOK, ListedPoolsExist, PoolPromises
      <4>7. staking_pool_account_ids' =
                {a \in existing' : a[1] = PoolFactoryId} \cup {x.account : x \in PoolPromises'}
        BY <1>1, <4>1, <4>4, <4>5, <4>6
      <4>8. ListedPoolsExist'
        BY <4>7 DEF ListedPoolsExist, PoolPromises
      <4>9. existing' \subseteq SubAccounts
        BY <1>0, <1>1, <1>2 DEF PoolsOK
      <4> QED BY <4>2, <4>3, <4>8, <4>9 DEF PoolsOK
    <3> QED BY <3>1, <3>2
  <2> QED BY <2>2, <2>4, <2>5 DEF IInv
<1>4. CASE p.kind = "create_only"
  <2>1. promises' = promises \ {p} /\ p.by # PoolFactoryId
    BY <1>2, <1>4, ContractsAssumption DEF CreateAccount, Sound
  <2>2. PromisesOK' /\ PoolsOK' /\ \A c : Refunds(promises', c) = Refunds(promises, c)
    BY <1>1, <1>4, <2>1, DoneElsewhere
  <2>3. MoneyOK'
    BY <1>0, <1>1, <1>5, <2>2, MoneyElsewhere
  <2> QED BY <2>2, <2>3 DEF IInv
<1> QED BY <1>1, <1>3, <1>4

(* The runtime cannot create an account, and returns the tokens.            *)
LEMMA CreationFailsStep ==
    ASSUME IInv, NEW p \in promises, CreationFails(p), UNCHANGED contracts
    PROVE  IInv'
<1>0. PromisesOK /\ PoolsOK /\ MoneyOK
    BY DEF IInv
<1>1. /\ p.kind \in {"create", "create_only"} /\ p.status = "sent"
      /\ existing' = existing /\ calls' = calls
      /\ tokens' = [tokens EXCEPT ![p.by] = @ + p.amount]
      /\ UNCHANGED <<staking_pool_account_ids, accounts>>
    BY DEF CreationFails, contracts
<1>2. p.by \in Contracts /\ p.amount \in Nat /\ Sound(p) /\ p.by \in AccountIds
    BY <1>0, PromiseFields DEF AccountIds
<1>3. /\ tokens \in [AccountIds -> Int] /\ accounts \in [Keys -> Nat]
      /\ tokens[PoolFactoryId] = Refunds(promises, PoolFactoryId)
      /\ tokens[LockupFactoryId] = Refunds(promises, LockupFactoryId)
      /\ tokens[AirdropId] >= Owed(accounts) + Refunds(promises, AirdropId)
    BY <1>0, Money
<1>4. /\ tokens' \in [AccountIds -> Int]
      /\ \A d \in Contracts : tokens'[d] = IF d = p.by THEN tokens[d] + p.amount ELSE tokens[d]
    BY <1>1, <1>2, <1>3 DEF AccountIds
<1>5. CASE p.kind = "create"
  <2> DEFINE q == [p EXCEPT !.status = "failed"]
  <2>1. Returned(p, "failed")
    BY <1>5 DEF CreationFails
  <2>2. /\ PromisesOK' /\ promises' = (promises \ {p}) \cup {q}
        /\ q.by = p.by /\ q.account = p.account /\ q.amount = p.amount
        /\ q.status = "failed" /\ q \notin promises
        /\ \A c : Refunds(promises, c) \in Nat /\ Refunds(promises', c) = Refunds(promises, c) + Refund(q, c)
    BY <1>0, <1>1, <1>5, <2>1, PromiseReturned
  <2> HIDE DEF q
  <2>3. \A c : /\ Refunds(promises, c) \in Nat
               /\ Refunds(promises', c) = IF c = p.by THEN Refunds(promises, c) + p.amount
                                          ELSE Refunds(promises, c)
    BY <2>2 DEF Refund
  <2>4. MoneyOK'
    BY <1>0, <1>1, <1>2, <1>4, <2>3, MoneyReturns
  <2>5. PoolsOK'
    <3>1. CASE p.by # PoolFactoryId
      <4>1. PoolPromises' = PoolPromises
        BY <2>2, <3>1 DEF PoolPromises
      <4> QED BY <1>0, <1>1, <4>1, PoolsUnaffected DEF PoolsOK
    <3>2. CASE p.by = PoolFactoryId
      <4>1. PoolPromises' = (PoolPromises \ {p}) \cup {q} /\ p \in PoolPromises
        BY <2>2, <3>2 DEF PoolPromises
      <4>2. \A x, y \in PoolPromises' : x.account = y.account => x = y
        BY <1>0, <2>2, <4>1 DEF PoolsOK
      <4>3. \A x \in PoolPromises' : x.account \in existing' <=> x.status = "successful"
        BY <1>0, <1>1, <2>2, <4>1 DEF PoolsOK
      <4>5. {x.account : x \in PoolPromises'} = {x.account : x \in PoolPromises}
        BY <2>2, <4>1
      <4>6. staking_pool_account_ids =
                {a \in existing : a[1] = PoolFactoryId} \cup {x.account : x \in PoolPromises}
        BY <1>0 DEF PoolsOK, ListedPoolsExist, PoolPromises
      <4>7. staking_pool_account_ids' =
                {a \in existing' : a[1] = PoolFactoryId} \cup {x.account : x \in PoolPromises'}
        BY <1>1, <4>5, <4>6
      <4>8. ListedPoolsExist'
        BY <4>7 DEF ListedPoolsExist, PoolPromises
      <4> QED BY <1>0, <1>1, <4>2, <4>3, <4>8 DEF PoolsOK
    <3> QED BY <3>1, <3>2
  <2> QED BY <2>2, <2>4, <2>5 DEF IInv
<1>6. CASE p.kind = "create_only"
  <2>1. promises' = promises \ {p} /\ p.by = MultisigFactoryId /\ p.by # PoolFactoryId
    BY <1>2, <1>6, ContractsAssumption DEF CreationFails, Sound
  <2>2. PromisesOK' /\ PoolsOK' /\ \A c : Refunds(promises', c) = Refunds(promises, c)
    BY <1>1, <2>1, DoneElsewhere
  <2>3. /\ tokens'[PoolFactoryId] = tokens[PoolFactoryId]
        /\ tokens'[LockupFactoryId] = tokens[LockupFactoryId]
        /\ tokens'[AirdropId] = tokens[AirdropId]
    BY <1>4, <2>1, ContractsAssumption
  <2>4. MoneyOK'
    BY <1>1, <1>3, <1>4, <2>2, <2>3, NextMoney
  <2> QED BY <2>2, <2>4 DEF IInv
<1> QED BY <1>1, <1>5, <1>6

(* The runtime carries out a transfer.                                      *)
LEMMA TransferStep ==
    ASSUME IInv, NEW p \in promises, Transfer(p), UNCHANGED contracts
    PROVE  IInv'
<1> DEFINE receiver == IF p.account \in Users \cup existing THEN p.account ELSE p.by
<1>0. PromisesOK /\ PoolsOK /\ MoneyOK
    BY DEF IInv
<1>1. /\ p.kind = "transfer" /\ existing' = existing /\ calls' = calls
      /\ tokens' = [tokens EXCEPT ![receiver] = @ + p.amount]
      /\ promises' = promises \ {p}
      /\ UNCHANGED <<staking_pool_account_ids, accounts>>
    BY DEF Transfer, contracts
<1>2. p.amount \in Nat /\ p.by = AirdropId /\ p.status = "sent" /\ p.by # PoolFactoryId
    BY <1>0, <1>1, PromiseFields, ContractsAssumption DEF Sound
<1> HIDE DEF receiver
<1>3. PromisesOK' /\ PoolsOK' /\ \A c : Refunds(promises', c) = Refunds(promises, c)
  <2>1. /\ p.status = "sent" /\ p.by # PoolFactoryId /\ calls' = calls
        /\ promises' = promises \ {p} /\ existing' = existing
        /\ staking_pool_account_ids' = staking_pool_account_ids
    BY <1>1, <1>2
  <2> QED BY <2>1, DoneElsewhere
<1> USE DEF receiver
<1>4. CASE p.account \in Users \cup existing
  <2>1. receiver \in Users \cup SubAccounts
    BY <1>0, <1>4 DEF PoolsOK
  <2> HIDE DEF receiver
  <2>2. tokens' \in [AccountIds -> Int] /\ \A c \in Contracts : tokens'[c] = tokens[c]
    <3>1. p.amount \in Int /\ tokens \in [AccountIds -> Int]
      BY <1>0, <1>2, Money
    <3> QED BY <1>1, <2>1, <3>1, PaidElsewhere
  <2>3. MoneyOK'
    BY <1>0, <1>1, <1>3, <2>2, MoneyElsewhere
  <2> QED BY <1>3, <2>3 DEF IInv
<1>5. CASE p.account \notin Users \cup existing
  <2>1. receiver = AirdropId
    BY <1>2, <1>5
  <2>2. /\ tokens \in [AccountIds -> Int] /\ accounts \in [Keys -> Nat]
        /\ tokens[PoolFactoryId] = Refunds(promises, PoolFactoryId)
        /\ tokens[LockupFactoryId] = Refunds(promises, LockupFactoryId)
        /\ tokens[AirdropId] >= Owed(accounts) + Refunds(promises, AirdropId)
    BY <1>0, Money
  <2>3. tokens' = [tokens EXCEPT ![AirdropId] = @ + p.amount]
    BY <1>1, <2>1
  <2>4. /\ tokens' \in [AccountIds -> Int]
        /\ tokens'[PoolFactoryId] = tokens[PoolFactoryId]
        /\ tokens'[LockupFactoryId] = tokens[LockupFactoryId]
        /\ tokens'[AirdropId] = tokens[AirdropId] + p.amount
    BY <1>2, <2>2, <2>3, AccountNames, ContractsAssumption
  <2>5. tokens'[AirdropId] >= Owed(accounts') + Refunds(promises', AirdropId)
    <3> DEFINE o == Owed(accounts)
               r == Refunds(promises, AirdropId)
               t == tokens[AirdropId]
    <3>1. o \in Nat /\ t \in Int
      BY <2>2, OwedType, AccountNames
    <3>2. r \in Nat
      BY <1>0, PromiseDone, <1>1, <1>3
    <3>3. o = Owed(accounts') /\ r = Refunds(promises', AirdropId)
      BY <1>1, <1>3
    <3>4. tokens'[AirdropId] = t + p.amount /\ t >= o + r
      BY <2>2, <2>4
    <3> HIDE DEF o, r, t
    <3> QED BY <1>2, <3>1, <3>2, <3>3, <3>4
  <2>6. MoneyOK'
    BY <1>1, <1>3, <2>2, <2>4, <2>5, NextMoney
  <2> QED BY <1>3, <2>6 DEF IInv
<1> QED BY <1>4, <1>5

----------------------------------------------------------------------------
(* The contracts' methods and callbacks. *)

(* A call that sends a promise which is not about a pool. *)
LEMMA SentElsewhere ==
    ASSUME IInv, NEW q \in Promise, q.n = calls, q.status = "sent", Sound(q),
           q.by # PoolFactoryId,
           calls' = calls + 1, promises' = promises \cup {q},
           UNCHANGED <<existing, staking_pool_account_ids>>
    PROVE  PromisesOK' /\ PoolsOK' /\ \A c : Refunds(promises', c) = Refunds(promises, c)
<1>0. PromisesOK /\ PoolsOK
    BY DEF IInv
<1>1. PromisesOK' /\ \A c : Refunds(promises', c) = Refunds(promises, c)
    BY <1>0, PromiseSent
<1>2. PoolPromises' = PoolPromises
    BY DEF PoolPromises
<1>3. PoolsOK'
    BY <1>0, <1>2, PoolsUnaffected DEF PoolsOK
<1> QED BY <1>1, <1>3

(* The promise of a factory's method. *)
LEMMA CreationSent ==
    ASSUME calls \in Nat, NEW kind \in {"create", "create_only"},
           NEW by \in Contracts, NEW name \in Names,
           NEW amount \in Nat, NEW caller \in Users,
           kind = "create_only" => by = MultisigFactoryId
    PROVE  LET q == PromiseRecord(kind, by, <<by, name>>, amount, caller, NoKey)
           IN  /\ q \in Promise /\ Sound(q)
               /\ q.n = calls /\ q.status = "sent" /\ q.by = by /\ q.account = <<by, name>>
<1>1. <<by, name>> \in AccountIds /\ caller \in AccountIds
    BY DEF AccountIds, SubAccounts
<1> QED BY <1>1 DEF PromiseRecord, Promise, Sound

(* create_staking_pool.                                                     *)
LEMMA create_staking_poolStep ==
    ASSUME IInv, NEW caller \in Users, NEW name \in Names, NEW fee \in Fees,
           NEW deposit \in Deposits,
           PoolFactory!create_staking_pool(caller, name, fee, deposit), UNCHANGED accounts
    PROVE  IInv'
<1> DEFINE account == <<PoolFactoryId, name>>
           q == PromiseRecord("create", PoolFactoryId, account, deposit, caller, NoKey)
<1>0. PromisesOK /\ PoolsOK /\ MoneyOK /\ calls \in Nat /\ deposit \in Nat
    BY DepositsAssumption DEF IInv, PromisesOK
<1>1. /\ calls' = calls + 1 /\ promises' = promises \cup {q} /\ existing' = existing
      /\ account \notin staking_pool_account_ids
      /\ staking_pool_account_ids' = staking_pool_account_ids \cup {account}
      /\ tokens' = [tokens EXCEPT ![caller] = @ - deposit]
    BY DEF PoolFactory!create_staking_pool, PoolFactory!CreatePromise, PoolFactory!Called,
           PoolFactory!Sent, PoolFactory!PromiseRecord, PromiseRecord
<1>2. /\ q \in Promise /\ Sound(q) /\ q.n = calls /\ q.status = "sent"
      /\ q.by = PoolFactoryId /\ q.account = account
    BY <1>0, CreationSent, ContractsAssumption
<1> HIDE DEF q
<1>3. /\ PromisesOK' /\ q \notin promises
      /\ \A c : Refunds(promises', c) = Refunds(promises, c)
    BY <1>0, <1>1, <1>2, PromiseSent
<1>4. MoneyOK'
  <2>1. tokens' \in [AccountIds -> Int] /\ \A c \in Contracts : tokens'[c] = tokens[c]
    <3>1. tokens \in [AccountIds -> Int] /\ -deposit \in Int
      BY <1>0, Money
    <3>2. tokens' = [tokens EXCEPT ![caller] = @ + (-deposit)]
      BY <1>0, <1>1, <3>1 DEF AccountIds
    <3> QED BY <3>1, <3>2, PaidElsewhere
  <2> QED BY <1>0, <1>3, <2>1, MoneyElsewhere
<1>5. PoolsOK'
  <2>1. PoolPromises' = PoolPromises \cup {q}
    BY <1>1, <1>2 DEF PoolPromises
  <2>2. staking_pool_account_ids =
            {a \in existing : a[1] = PoolFactoryId} \cup {x.account : x \in PoolPromises}
    BY <1>0 DEF PoolsOK, ListedPoolsExist, PoolPromises
  <2>3. account \notin existing /\ \A x \in PoolPromises : x.account # account
    <3>1. account[1] = PoolFactoryId
      OBVIOUS
    <3> HIDE DEF account
    <3> QED BY <1>1, <2>2, <3>1
  <2>4. \A x, y \in PoolPromises' : x.account = y.account => x = y
    BY <1>0, <1>2, <2>1, <2>3 DEF PoolsOK
  <2>5. \A x \in PoolPromises' : x.account \in existing' <=> x.status = "successful"
    BY <1>0, <1>1, <1>2, <2>1, <2>3 DEF PoolsOK
  <2>6. staking_pool_account_ids' =
            {a \in existing' : a[1] = PoolFactoryId} \cup {x.account : x \in PoolPromises'}
    BY <1>1, <1>2, <2>1, <2>2
  <2>7. ListedPoolsExist'
    BY <2>6 DEF ListedPoolsExist, PoolPromises
  <2> QED BY <1>0, <1>1, <2>4, <2>5, <2>7 DEF PoolsOK
<1> QED BY <1>3, <1>4, <1>5 DEF IInv

(* A factory's refund to its caller. *)
LEMMA RefundedStep ==
    ASSUME IInv, NEW p \in promises, p.status # "sent",
           p.key = NoKey,
           calls' = calls, promises' = promises \ {p}, UNCHANGED accounts,
           IF p.status = "successful" THEN tokens' = tokens
           ELSE tokens' = Paid(p.by, p.caller, p.amount)
    PROVE  PromisesOK' /\ MoneyOK'
<1>0. PromisesOK /\ MoneyOK /\ tokens \in [AccountIds -> Int]
    BY DEF IInv, MoneyOK
<1>1. /\ PromisesOK'
      /\ \A c : /\ Refunds(promises', c) \in Nat
                /\ Refunds(promises, c) = Refunds(promises', c) + Refund(p, c)
    BY <1>0, PromiseDone
<1>2. /\ p \in Promise /\ Sound(p) /\ p.by \in Contracts /\ p.amount \in Nat
      /\ p.caller \in Users
    BY <1>0, PromiseFields DEF Sound
<1>3. p.status \in {"successful", "failed"}
    BY <1>2 DEF Promise
<1>4. CASE p.status = "successful"
  <2>1. ASSUME NEW c PROVE Refunds(promises', c) = Refunds(promises, c)
    <3>1. Refund(p, c) = 0
      BY <1>4 DEF Refund
    <3>2. Refunds(promises', c) \in Nat /\ Refunds(promises, c) = Refunds(promises', c) + 0
      BY <1>1, <3>1
    <3> QED BY <3>2
  <2>2. tokens' = tokens
    BY <1>4
  <2> QED BY <1>0, <1>1, <2>1, <2>2, MoneyElsewhere
<1>5. CASE p.status = "failed"
  <2> DEFINE by == p.by
             caller == p.caller
             n == p.amount
  <2>1. tokens' = [tokens EXCEPT ![by] = @ - n, ![caller] = @ + n]
    BY <1>5 DEF Paid
  <2>2. by # caller /\ by \in AccountIds /\ caller \in AccountIds /\ n \in Nat
        /\ Contracts \subseteq AccountIds /\ \A d \in Contracts : d # caller
    BY <1>2, AccountsAssumption DEF AccountIds
  <2>3. \A c : Refund(p, c) = IF c = by THEN n ELSE 0
    BY <1>5 DEF Refund
  <2> HIDE DEF by, caller, n
  <2>4. tokens[by] \in Int /\ tokens[caller] \in Int
    BY <1>0, <2>2
  <2>5. tokens' \in [AccountIds -> Int]
    BY <1>0, <2>1, <2>2, <2>4
  <2>6. \A d \in Contracts : tokens'[d] = IF d = by THEN tokens[d] + (-n) ELSE tokens[d]
    BY <1>0, <2>1, <2>2, <2>4
  <2>7. ASSUME NEW c
        PROVE  /\ Refunds(promises, c) \in Nat
               /\ Refunds(promises', c) = IF c = by THEN Refunds(promises, c) + (-n)
                                          ELSE Refunds(promises, c)
    <3> DEFINE before == Refunds(promises, c)
               after == Refunds(promises', c)
               back == Refund(p, c)
    <3>1. after \in Nat /\ before = after + back /\ back = IF c = by THEN n ELSE 0
      BY <1>1, <2>3
    <3> HIDE DEF before, after, back
    <3>2. before \in Nat /\ after = IF c = by THEN before + (-n) ELSE before
      BY <2>2, <3>1
    <3> QED BY <3>2 DEF before, after
  <2>8. by \in Contracts /\ -n \in Int
    BY <1>2, <2>2 DEF by
  <2> QED BY <1>0, <1>1, <2>5, <2>6, <2>7, <2>8, MoneyReturns
<1> QED BY <1>3, <1>4, <1>5

(* Its callback.                                                            *)
LEMMA on_staking_pool_createStep ==
    ASSUME IInv, NEW p \in promises, PoolFactory!on_staking_pool_create(p), UNCHANGED accounts
    PROVE  IInv'
<1>0. PromisesOK /\ PoolsOK
    BY DEF IInv
<1>1. /\ p.by = PoolFactoryId /\ p.status # "sent" /\ promises' = promises \ {p}
      /\ existing' = existing /\ calls' = calls
      /\ IF p.status = "successful"
         THEN tokens' = tokens /\ staking_pool_account_ids' = staking_pool_account_ids
         ELSE /\ staking_pool_account_ids' = staking_pool_account_ids \ {p.account}
              /\ tokens' = Paid(p.by, p.caller, p.amount)
    BY DEF PoolFactory!on_staking_pool_create, PoolFactory!is_promise_success,
           PoolFactory!Paid, Paid
<1>2. /\ p \in PoolPromises /\ p.account[1] = PoolFactoryId /\ p.account \in SubAccounts
      /\ p.key = NoKey
    BY <1>0, <1>1, PromiseFields, PoolPromise, ContractsAssumption DEF Sound
<1>3. PromisesOK' /\ MoneyOK'
    BY <1>1, <1>2, RefundedStep
<1>4. PoolPromises' = PoolPromises \ {p}
    BY <1>1 DEF PoolPromises
<1>5. /\ \A x, y \in PoolPromises' : x.account = y.account => x = y
      /\ \A x \in PoolPromises' : x.account \in existing' <=> x.status = "successful"
    BY <1>0, <1>1, <1>4 DEF PoolsOK
<1>6. staking_pool_account_ids =
            {a \in existing : a[1] = PoolFactoryId} \cup {x.account : x \in PoolPromises}
    BY <1>0 DEF PoolsOK, ListedPoolsExist, PoolPromises
<1>7. \A x \in PoolPromises' : x.account # p.account
    BY <1>0, <1>2, <1>4 DEF PoolsOK
<1>8. p.account \in existing <=> p.status = "successful"
    BY <1>0, <1>2 DEF PoolsOK
<1>9. staking_pool_account_ids' =
            {a \in existing' : a[1] = PoolFactoryId} \cup {x.account : x \in PoolPromises'}
  <2>1. {x.account : x \in PoolPromises} = {x.account : x \in PoolPromises'} \cup {p.account}
    BY <1>2, <1>4
  <2>2. CASE p.status = "successful"
    <3>1. p.account \in {a \in existing : a[1] = PoolFactoryId}
      BY <1>2, <1>8, <2>2
    <3> QED BY <1>1, <1>6, <2>1, <2>2, <3>1
  <2>3. CASE p.status # "successful"
    <3>1. p.account \notin existing
      BY <1>8, <2>3
    <3> QED BY <1>1, <1>6, <1>7, <2>1, <2>3, <3>1
  <2> QED BY <2>2, <2>3
<1>10. ListedPoolsExist'
    BY <1>9 DEF ListedPoolsExist, PoolPromises
<1>11. PoolsOK'
    BY <1>0, <1>1, <1>5, <1>10 DEF PoolsOK
<1> QED BY <1>3, <1>11 DEF IInv

(* A call of another contract that creates an account with the deposit. *)
LEMMA CreationStep ==
    ASSUME IInv, NEW kind \in {"create", "create_only"},
           NEW by \in Contracts, by # PoolFactoryId, kind = "create_only" => by = MultisigFactoryId,
           NEW name \in Names, NEW deposit \in Deposits, NEW caller \in Users,
           calls' = calls + 1,
           promises' = promises \cup {PromiseRecord(kind, by, <<by, name>>, deposit, caller, NoKey)},
           tokens' = [tokens EXCEPT ![caller] = @ - deposit],
           UNCHANGED <<existing, staking_pool_account_ids, accounts>>
    PROVE  IInv'
<1> DEFINE q == PromiseRecord(kind, by, <<by, name>>, deposit, caller, NoKey)
<1>0. PromisesOK /\ MoneyOK /\ calls \in Nat /\ deposit \in Nat
    BY DepositsAssumption DEF IInv, PromisesOK
<1>1. q \in Promise /\ Sound(q) /\ q.n = calls /\ q.status = "sent" /\ q.by = by
    BY <1>0, CreationSent
<1>2. promises' = promises \cup {q}
    OBVIOUS
<1> HIDE DEF q
<1>3. PromisesOK' /\ PoolsOK' /\ \A c : Refunds(promises', c) = Refunds(promises, c)
    BY <1>1, <1>2, SentElsewhere
<1>4. tokens' \in [AccountIds -> Int] /\ \A c \in Contracts : tokens'[c] = tokens[c]
  <2>1. tokens \in [AccountIds -> Int] /\ -deposit \in Int
    BY <1>0, Money
  <2>2. tokens' = [tokens EXCEPT ![caller] = @ + (-deposit)]
    BY <1>0, <2>1 DEF AccountIds
  <2> QED BY <2>1, <2>2, PaidElsewhere
<1>5. MoneyOK'
    BY <1>0, <1>3, <1>4, MoneyElsewhere
<1> QED BY <1>3, <1>5 DEF IInv

(* The creations that keep no record of their own.                          *)
LEMMA FactoryCreateStep ==
    ASSUME IInv, NEW caller \in Users, NEW name \in Names, NEW deposit \in Deposits,
           \/ LockupCreator!create(caller, name, deposit)
           \/ MultisigCreator!create(caller, name, deposit)
           \/ Drop!create_account(caller, name, deposit),
           UNCHANGED <<staking_pool_account_ids, accounts>>
    PROVE  IInv'
<1> USE DEF PromiseRecord
<1>0. /\ LockupFactoryId \in Contracts /\ MultisigFactoryId \in Contracts /\ AirdropId \in Contracts
      /\ LockupFactoryId # PoolFactoryId /\ MultisigFactoryId # PoolFactoryId
      /\ AirdropId # PoolFactoryId
    BY ContractsAssumption
<1>1. CASE LockupCreator!create(caller, name, deposit)
  <2>1. /\ calls' = calls + 1
        /\ promises' = promises \cup {PromiseRecord("create", LockupFactoryId,
                            <<LockupFactoryId, name>>, deposit, caller, NoKey)}
        /\ tokens' = [tokens EXCEPT ![caller] = @ - deposit]
        /\ UNCHANGED existing
    BY <1>1 DEF LockupCreator!create, LockupCreator!Called, LockupCreator!Sent,
                LockupCreator!PromiseRecord
  <2> QED BY <1>0, <2>1, CreationStep
<1>2. CASE MultisigCreator!create(caller, name, deposit)
  <2>1. /\ calls' = calls + 1
        /\ promises' = promises \cup {PromiseRecord("create_only", MultisigFactoryId,
                            <<MultisigFactoryId, name>>, deposit, caller, NoKey)}
        /\ tokens' = [tokens EXCEPT ![caller] = @ - deposit]
        /\ UNCHANGED existing
    BY <1>2 DEF MultisigCreator!create, MultisigCreator!Called, MultisigCreator!Sent,
                MultisigCreator!PromiseRecord
  <2> QED BY <1>0, <2>1, CreationStep
<1>3. CASE Drop!create_account(caller, name, deposit)
  <2>1. /\ calls' = calls + 1
        /\ promises' = promises \cup {PromiseRecord("create", AirdropId,
                            <<AirdropId, name>>, deposit, caller, NoKey)}
        /\ tokens' = [tokens EXCEPT ![caller] = @ - deposit]
        /\ UNCHANGED existing
    BY <1>3 DEF Drop!create_account, Drop!Called, Drop!Sent, Drop!PromiseRecord
  <2> QED BY <1>0, <2>1, CreationStep
<1> QED BY <1>1, <1>2, <1>3

(* The callbacks that refund a caller. *)
LEMMA RefundingCallbackStep ==
    ASSUME IInv, NEW p \in promises,
           LockupCreator!on_lockup_create(p) \/ Drop!on_account_created(p),
           UNCHANGED <<staking_pool_account_ids, accounts>>
    PROVE  IInv'
<1>0. PromisesOK /\ PoolsOK
    BY DEF IInv
<1>1. /\ p.by \in {LockupFactoryId, AirdropId} /\ p.status # "sent" /\ promises' = promises \ {p}
      /\ existing' = existing /\ calls' = calls /\ (p.by = AirdropId => p.key = NoKey)
      /\ IF p.status = "successful" THEN tokens' = tokens
         ELSE tokens' = Paid(p.by, p.caller, p.amount)
  <2>1. CASE LockupCreator!on_lockup_create(p)
    BY <2>1, ContractsAssumption
       DEF LockupCreator!on_lockup_create, LockupCreator!is_promise_success, LockupCreator!Paid, Paid
  <2>2. CASE Drop!on_account_created(p)
    BY <2>2 DEF Drop!on_account_created, Drop!is_promise_success, Drop!Paid, Paid
  <2> QED BY <2>1, <2>2
<1>2. p.key = NoKey /\ p.by # PoolFactoryId
  <2>1. Sound(p)
    BY <1>0 DEF PromisesOK
  <2>2. AirdropId # PoolFactoryId /\ LockupFactoryId # PoolFactoryId
    BY ContractsAssumption
  <2> QED BY <1>1, <2>1, <2>2 DEF Sound
<1>3. PromisesOK' /\ MoneyOK'
    BY <1>1, <1>2, RefundedStep
<1>4. PoolPromises' = PoolPromises
    BY <1>1, <1>2 DEF PoolPromises
<1>5. PoolsOK'
    BY <1>0, <1>1, <1>4, PoolsUnaffected DEF PoolsOK
<1> QED BY <1>3, <1>5 DEF IInv

(* The call changes nothing but the airdrop's money, and keeps it solvent. *)
LEMMA AirdropPaid ==
    ASSUME MoneyOK, tokens' \in [AccountIds -> Int], accounts' \in [Keys -> Nat],
           \A c \in Contracts \ {AirdropId} : tokens'[c] = tokens[c],
           \A c : c # AirdropId => Refunds(promises', c) = Refunds(promises, c),
           tokens'[AirdropId] >= Owed(accounts') + Refunds(promises', AirdropId)
    PROVE  MoneyOK'
<1>1. /\ tokens[PoolFactoryId] = Refunds(promises, PoolFactoryId)
      /\ tokens[LockupFactoryId] = Refunds(promises, LockupFactoryId)
    BY Money
<1>2. /\ tokens'[PoolFactoryId] = tokens[PoolFactoryId]
      /\ tokens'[LockupFactoryId] = tokens[LockupFactoryId]
      /\ PoolFactoryId # AirdropId /\ LockupFactoryId # AirdropId
    BY ContractsAssumption
<1> QED BY <1>1, <1>2, NextMoney

(* send.                                                                    *)
LEMMA sendStep ==
    ASSUME IInv, NEW caller \in Users, NEW k \in Keys, NEW deposit \in Deposits,
           Drop!send(caller, k, deposit), UNCHANGED staking_pool_account_ids
    PROVE  IInv'
<1> DEFINE n == accounts[k] + deposit - Allowance
<1>0. /\ PromisesOK /\ PoolsOK /\ MoneyOK /\ calls \in Nat /\ deposit \in Nat /\ Allowance \in Nat
      /\ tokens \in [AccountIds -> Int] /\ accounts \in [Keys -> Nat]
      /\ tokens[AirdropId] >= Owed(accounts) + Refunds(promises, AirdropId)
    BY DepositsAssumption, KeysAssumption, Money DEF IInv, PromisesOK
<1>1. /\ calls' = calls + 1 /\ promises' = promises /\ existing' = existing
      /\ deposit > Allowance /\ accounts' = [accounts EXCEPT ![k] = n]
      /\ tokens' = Paid(caller, AirdropId, deposit)
    BY DEF Drop!send, Drop!Called, Drop!Paid, Paid
<1>2. n \in Nat
  <2>1. accounts[k] \in Nat
    BY <1>0
  <2> QED BY <1>0, <1>1, <2>1
<1> HIDE DEF n
<1>3. PromisesOK' /\ PoolsOK'
  <2>1. /\ promises \subseteq Promise /\ IsFiniteSet(promises) /\ calls \in Nat
        /\ \A p \in promises : p.n \in Nat /\ p.n < calls /\ Sound(p)
        /\ \A p1, p2 \in promises : p1.n = p2.n => p1 = p2
    BY <1>0 DEF PromisesOK, Promise
  <2>2. \A p \in promises : p.n < calls'
    BY <1>1, <2>1
  <2>3. PromisesOK'
    BY <1>1, <2>1, <2>2 DEF PromisesOK, Sound
  <2> QED BY <1>0, <1>1, <2>3 DEF PoolsOK, ListedPoolsExist, PoolPromises
<1>4. /\ tokens' \in [AccountIds -> Int]
      /\ tokens'[AirdropId] = tokens[AirdropId] + deposit
      /\ \A c \in Contracts \ {AirdropId} : tokens'[c] = tokens[c]
  <2>1. /\ AirdropId \in AccountIds /\ caller \in AccountIds /\ Contracts \subseteq AccountIds
        /\ \A c \in Contracts : c # caller
    BY AccountNames, AccountsAssumption, ContractsAssumption DEF AccountIds
  <2>2. AirdropId \in Contracts /\ tokens[AirdropId] \in Int /\ tokens[caller] \in Int
    BY <1>0, <2>1, ContractsAssumption
  <2>3. tokens' = [tokens EXCEPT ![caller] = @ - deposit, ![AirdropId] = @ + deposit]
    BY <1>1 DEF Paid
  <2> QED BY <1>0, <2>1, <2>2, <2>3
<1>5. tokens'[AirdropId] >= Owed(accounts') + Refunds(promises', AirdropId)
  <2> DEFINE o == Owed(accounts)
             r == Refunds(promises, AirdropId)
             t == tokens[AirdropId]
             a == accounts[k]
  <2>1. o \in Nat /\ a \in Nat /\ t \in Int
    BY <1>0, OwedType, AccountNames
  <2>2. r \in Nat
    BY <1>0, RefundsType
  <2>3. Owed(accounts') = o - a + n
    BY <1>0, <1>1, <1>2, OwedChanged
  <2>4. Refunds(promises', AirdropId) = r
    BY <1>1
  <2>5. tokens'[AirdropId] = t + deposit /\ t >= o + r /\ n = a + deposit - Allowance
    BY <1>0, <1>4 DEF n
  <2> HIDE DEF o, r, t, a
  <2> QED BY <1>0, <2>1, <2>2, <2>3, <2>4, <2>5
<1>6. accounts' \in [Keys -> Nat]
    BY <1>0, <1>1, <1>2
<1>7. MoneyOK'
    BY <1>0, <1>1, <1>4, <1>5, <1>6, AirdropPaid
<1> QED BY <1>3, <1>7 DEF IInv

(* The amount of a key leaves the airdrop. *)
LEMMA ClaimedStep ==
    ASSUME IInv, NEW k \in Keys, NEW kind \in {"create", "transfer"}, NEW account \in AccountIds,
           kind = "create" => \E name \in Names : account = <<AirdropId, name>>,
           Drop!Claimed(k, Drop!PromiseRecord(kind, AirdropId, account, accounts[k], AirdropId, k)),
           UNCHANGED staking_pool_account_ids
    PROVE  IInv'
<1> DEFINE q == PromiseRecord(kind, AirdropId, account, accounts[k], AirdropId, k)
<1>0. /\ PromisesOK /\ PoolsOK /\ MoneyOK /\ calls \in Nat
      /\ tokens \in [AccountIds -> Int] /\ accounts \in [Keys -> Nat]
      /\ tokens[AirdropId] >= Owed(accounts) + Refunds(promises, AirdropId)
    BY Money DEF IInv, PromisesOK
<1>1. /\ calls' = calls + 1 /\ promises' = promises \cup {q} /\ existing' = existing
      /\ accounts' = [accounts EXCEPT ![k] = 0]
      /\ tokens' = [tokens EXCEPT ![AirdropId] = @ - accounts[k]]
    BY DEF Drop!Claimed, Drop!Called, Drop!Sent, Drop!PromiseRecord, PromiseRecord
<1>2. /\ q \in Promise /\ Sound(q) /\ q.n = calls /\ q.status = "sent" /\ q.by = AirdropId
      /\ AirdropId # PoolFactoryId
  <2>1. AirdropId \in Contracts /\ AirdropId \in AccountIds /\ k # NoKey /\ accounts[k] \in Nat
        /\ AirdropId # PoolFactoryId
    BY <1>0, AccountNames, ContractsAssumption, KeysAssumption
  <2> QED BY <1>0, <2>1 DEF PromiseRecord, Promise, Sound
<1> HIDE DEF q
<1>3. PromisesOK' /\ PoolsOK' /\ \A c : Refunds(promises', c) = Refunds(promises, c)
  <2>1. q.by # PoolFactoryId
    BY <1>2
  <2> QED BY <1>1, <1>2, <2>1, SentElsewhere
<1>4. /\ tokens' \in [AccountIds -> Int]
      /\ tokens'[AirdropId] = tokens[AirdropId] - accounts[k]
      /\ \A c \in Contracts \ {AirdropId} : tokens'[c] = tokens[c]
  <2>1. AirdropId \in AccountIds /\ Contracts \subseteq AccountIds
    BY AccountNames DEF AccountIds
  <2>2. tokens[AirdropId] \in Int /\ accounts[k] \in Int
    BY <1>0, <2>1
  <2> QED BY <1>0, <1>1, <2>1, <2>2
<1>5. tokens'[AirdropId] >= Owed(accounts') + Refunds(promises', AirdropId)
  <2> DEFINE o == Owed(accounts)
             r == Refunds(promises, AirdropId)
             t == tokens[AirdropId]
             a == accounts[k]
  <2>1. o \in Nat /\ a \in Nat /\ t \in Int
    BY <1>0, OwedType, AccountNames
  <2>2. r \in Nat
    BY <1>0, RefundsType
  <2>3. Owed(accounts') = o - a + 0
    BY <1>0, <1>1, OwedChanged
  <2>4. Refunds(promises', AirdropId) = r
    BY <1>3
  <2>5. tokens'[AirdropId] = t - a /\ t >= o + r
    BY <1>0, <1>4
  <2> HIDE DEF o, r, t, a
  <2> QED BY <2>1, <2>2, <2>3, <2>4, <2>5
<1>6. accounts' \in [Keys -> Nat]
    BY <1>0, <1>1
<1>7. MoneyOK'
    BY <1>0, <1>3, <1>4, <1>5, <1>6, AirdropPaid
<1> QED BY <1>3, <1>7 DEF IInv

(* What came back goes to the key again. *)
LEMMA on_account_created_and_claimedStep ==
    ASSUME IInv, NEW p \in promises, Drop!on_account_created_and_claimed(p),
           UNCHANGED staking_pool_account_ids
    PROVE  IInv'
<1>0. /\ PromisesOK /\ PoolsOK /\ MoneyOK
      /\ tokens \in [AccountIds -> Int] /\ accounts \in [Keys -> Nat]
      /\ tokens[AirdropId] >= Owed(accounts) + Refunds(promises, AirdropId)
    BY Money DEF IInv
<1>1. /\ p.by = AirdropId /\ p.key # NoKey /\ p.status # "sent" /\ promises' = promises \ {p}
      /\ existing' = existing /\ calls' = calls /\ tokens' = tokens
      /\ IF p.status = "successful" THEN accounts' = accounts
         ELSE accounts' = [accounts EXCEPT ![p.key] = p.amount]
    BY DEF Drop!on_account_created_and_claimed, Drop!is_promise_success
<1>2. p \in Promise /\ p.key \in Keys /\ p.amount \in Nat
  <2>1. p \in Promise
    BY <1>0 DEF PromisesOK
  <2> QED BY <1>1, <2>1 DEF Promise
<1>3. /\ PromisesOK'
      /\ \A c : /\ Refunds(promises', c) \in Nat
                /\ Refunds(promises, c) = Refunds(promises', c) + Refund(p, c)
    BY <1>0, <1>1, PromiseDone
<1>4. PoolsOK'
  <2>1. PoolPromises' = PoolPromises
    BY <1>1, ContractsAssumption DEF PoolPromises
  <2> QED BY <1>0, <1>1, <2>1, PoolsUnaffected DEF PoolsOK
<1>5. \A c : c # AirdropId => Refunds(promises', c) = Refunds(promises, c)
  <2> SUFFICES ASSUME NEW c, c # AirdropId PROVE Refunds(promises', c) = Refunds(promises, c)
    OBVIOUS
  <2>1. Refund(p, c) = 0
    BY <1>1 DEF Refund
  <2>2. Refunds(promises', c) \in Nat /\ Refunds(promises, c) = Refunds(promises', c) + 0
    BY <1>3, <2>1
  <2> QED BY <2>2
<1>6. accounts' \in [Keys -> Nat]
    BY <1>0, <1>1, <1>2
<1>7. tokens'[AirdropId] >= Owed(accounts') + Refunds(promises', AirdropId)
  <2> DEFINE o == Owed(accounts)
             r == Refunds(promises, AirdropId)
             s == Refunds(promises', AirdropId)
             t == tokens[AirdropId]
             a == accounts[p.key]
             m == p.amount
  <2>1. o \in Nat /\ a \in Nat /\ t \in Int /\ s \in Nat /\ m \in Nat
    BY <1>0, <1>2, <1>3, OwedType, AccountNames
  <2>2. t >= o + r /\ r = s + Refund(p, AirdropId) /\ tokens'[AirdropId] = t
    BY <1>0, <1>1, <1>3
  <2>3. CASE p.status = "successful"
    <3>1. Refund(p, AirdropId) = 0 /\ Owed(accounts') = o
      BY <1>1, <2>3 DEF Refund
    <3> HIDE DEF o, r, s, t, a
    <3> QED BY <2>1, <2>2, <3>1 DEF s
  <2>4. CASE p.status # "successful"
    <3>1. p.status = "failed"
      BY <1>1, <1>2, <2>4 DEF Promise
    <3>2. Refund(p, AirdropId) = m
      BY <1>1, <3>1 DEF Refund
    <3>3. Owed(accounts') = o - a + m
      <4>1. accounts' = [accounts EXCEPT ![p.key] = p.amount]
        BY <1>1, <2>4
      <4> QED BY <1>0, <1>2, <4>1, OwedChanged
    <3> HIDE DEF o, r, t, a, m, s
    <3>4. t >= (o - a + m) + s
      BY <2>1, <2>2, <3>2
    <3> QED BY <2>2, <3>3, <3>4 DEF s
  <2> QED BY <2>3, <2>4
<1>8. MoneyOK'
    BY <1>0, <1>1, <1>5, <1>6, <1>7, AirdropPaid
<1> QED BY <1>3, <1>4, <1>8 DEF IInv

(* A step that changes nothing the invariant is about.                      *)
LEMMA CallsOnly ==
    ASSUME IInv, calls' = calls \/ calls' = calls + 1,
           UNCHANGED <<tokens, existing, promises, staking_pool_account_ids, accounts>>
    PROVE  IInv'
<1>0. PromisesOK /\ PoolsOK /\ MoneyOK
    BY DEF IInv
<1>1. /\ promises \subseteq Promise /\ IsFiniteSet(promises) /\ calls \in Nat
      /\ \A p \in promises : p.n \in Nat /\ p.n < calls /\ Sound(p)
      /\ \A p1, p2 \in promises : p1.n = p2.n => p1 = p2
    BY <1>0 DEF PromisesOK, Promise
<1>2. calls' \in Nat /\ \A p \in promises : p.n < calls'
    BY <1>1
<1>3. PromisesOK'
    BY <1>1, <1>2 DEF PromisesOK, Sound
<1>4. PoolsOK'
    BY <1>0 DEF PoolsOK, ListedPoolsExist, PoolPromises
<1>5. MoneyOK'
    BY <1>0, MoneyElsewhere DEF MoneyOK
<1> QED BY <1>3, <1>4, <1>5 DEF IInv

(* Without promises there is nothing to refund.                             *)
LEMMA RefundsOfNone == \A c : Refunds({}, c) = 0
<1> SUFFICES ASSUME NEW c PROVE Refunds({}, c) = 0
    OBVIOUS
<1> DEFINE f == [p \in {} |-> p.amount]
           S == {p \in {} : p.by = c /\ p.status = "failed"}
<1>1. S = {}
    OBVIOUS
<1> HIDE DEF f, S
<1>2. SumOver(f, S) = 0
    BY <1>1, SumOfNone
<1> QED BY <1>2 DEF Refunds, f, S

(* Nothing is listed, sent or owed at first.                                *)
LEMMA Initial == Init => IInv
<1> SUFFICES ASSUME Init PROVE IInv
    OBVIOUS
<1>1. /\ tokens = [a \in AccountIds |-> 0] /\ existing = {} /\ promises = {} /\ calls = 0
      /\ staking_pool_account_ids = {} /\ accounts = [k \in Keys |-> 0]
    BY DEF Init, RuntimeInit, PoolFactory!Init, Drop!Init
<1>2. PromisesOK
    BY <1>1, FS_EmptySet DEF PromisesOK
<1>3. PoolsOK
    BY <1>1 DEF PoolsOK, ListedPoolsExist, PoolPromises
<1>4. Owed(accounts) = 0
  <2> DEFINE f == [k \in Keys |-> accounts[k]]
  <2>1. \A k \in Keys : f[k] = 0
    BY <1>1
  <2> HIDE DEF f
  <2>2. SumOver(f, Keys) = 0
    BY <2>1, KeysAssumption, SumOfZeros
  <2> QED BY <2>2 DEF Owed, f
<1>5. /\ tokens[PoolFactoryId] = 0 /\ tokens[LockupFactoryId] = 0 /\ tokens[AirdropId] = 0
    BY <1>1, AccountNames
<1>6. \A c : Refunds(promises, c) = 0
    BY <1>1, RefundsOfNone
<1>7. tokens \in [AccountIds -> Int] /\ accounts \in [Keys -> Nat]
    BY <1>1
<1>8. tokens[AirdropId] >= Owed(accounts) + Refunds(promises, AirdropId)
    BY <1>4, <1>5, <1>6
<1>9. MoneyOK
    BY <1>5, <1>6, <1>7, <1>8, Money
<1> QED BY <1>2, <1>3, <1>9 DEF IInv

(* Every method and callback of the airdrop.                                *)
LEMMA DropStep == ASSUME IInv, Drop!Next, UNCHANGED staking_pool_account_ids PROVE IInv'
<1>1. CASE \E caller \in Users, k \in Keys, deposit \in Deposits : Drop!send(caller, k, deposit)
    BY <1>1, sendStep
<1>2. CASE \E k \in Keys, account \in Users \cup ({AirdropId} \X Names) : Drop!claim(k, account)
  <2>1. PICK k \in Keys, account \in Users \cup ({AirdropId} \X Names) : Drop!claim(k, account)
    BY <1>2
  <2>2. account \in AccountIds
    BY ContractsAssumption DEF AccountIds, SubAccounts
  <2>3. Drop!Claimed(k, Drop!PromiseRecord("transfer", AirdropId, account, accounts[k], AirdropId, k))
    BY <2>1 DEF Drop!claim
  <2> QED BY <2>2, <2>3, ClaimedStep
<1>3. CASE \E k \in Keys, name \in Names : Drop!create_account_and_claim(k, name)
  <2>1. PICK k \in Keys, name \in Names : Drop!create_account_and_claim(k, name)
    BY <1>3
  <2>2. <<AirdropId, name>> \in AccountIds
    BY ContractsAssumption DEF AccountIds, SubAccounts
  <2>3. Drop!Claimed(k, Drop!PromiseRecord("create", AirdropId, <<AirdropId, name>>, accounts[k],
                                           AirdropId, k))
    BY <2>1 DEF Drop!create_account_and_claim
  <2> QED BY <2>2, <2>3, ClaimedStep
<1>4. CASE \E caller \in Users, name \in Names, deposit \in Deposits :
                \/ Drop!create_account(caller, name, deposit)
                \/ \E options \in SUBSET {"full_access_keys"} :
                        Drop!create_account_advanced(caller, name, options, deposit)
  <2>1. PICK caller \in Users, name \in Names, deposit \in Deposits :
                Drop!create_account(caller, name, deposit)
    BY <1>4 DEF Drop!create_account_advanced
  <2>2. UNCHANGED accounts
    BY <2>1 DEF Drop!create_account
  <2> QED BY <2>1, <2>2, FactoryCreateStep
<1>5. CASE \E p \in promises : Drop!on_account_created(p) \/ Drop!on_account_created_and_claimed(p)
  <2>1. PICK p \in promises : Drop!on_account_created(p) \/ Drop!on_account_created_and_claimed(p)
    BY <1>5
  <2>2. CASE Drop!on_account_created(p)
    <3>1. UNCHANGED accounts
      BY <2>2 DEF Drop!on_account_created
    <3> QED BY <2>2, <3>1, RefundingCallbackStep
  <2>3. CASE Drop!on_account_created_and_claimed(p)
    BY <2>3, on_account_created_and_claimedStep
  <2> QED BY <2>1, <2>2, <2>3
<1> QED BY <1>1, <1>2, <1>3, <1>4, <1>5 DEF Drop!Next

(* Every step of the composition.                                           *)
LEMMA Step == IInv /\ [Next]_vars => IInv'
<1> SUFFICES ASSUME IInv, [Next]_vars PROVE IInv'
    OBVIOUS
<1>1. CASE RuntimeNext /\ UNCHANGED <<staking_pool_account_ids, accounts, keys, whitelist,
                                      factory_whitelist>>
  <2>1. PICK p \in promises : CreateAccount(p) \/ CreationFails(p) \/ Transfer(p)
    BY <1>1 DEF RuntimeNext
  <2>2. UNCHANGED contracts
    BY <1>1 DEF contracts
  <2> QED BY <2>1, <2>2, CreateAccountStep, CreationFailsStep, TransferStep
<1>2. CASE PoolFactory!Next /\ UNCHANGED <<accounts, keys, whitelist, factory_whitelist>>
    BY <1>2, create_staking_poolStep, on_staking_pool_createStep DEF PoolFactory!Next
<1>3. CASE (LockupCreator!Next \/ MultisigCreator!Next)
           /\ UNCHANGED <<staking_pool_account_ids, accounts, keys, whitelist, factory_whitelist>>
    BY <1>3, FactoryCreateStep, RefundingCallbackStep DEF LockupCreator!Next, MultisigCreator!Next
<1>4. CASE Drop!Next /\ UNCHANGED <<staking_pool_account_ids, whitelist, factory_whitelist>>
    BY <1>4, DropStep
<1>5. CASE /\ List!Next /\ Called
           /\ UNCHANGED <<tokens, existing, promises, staking_pool_account_ids, accounts, keys>>
    BY <1>5, CallsOnly DEF Called
<1>6. CASE UNCHANGED vars
    BY <1>6, CallsOnly DEF vars, runtime
<1> QED BY <1>1, <1>2, <1>3, <1>4, <1>5, <1>6 DEF Next

----------------------------------------------------------------------------
(* Theorems. *)

(* The ids that the pool factory lists are always the pools that exist or   *)
(* are being created (create_staking_pool, on_staking_pool_create).         *)
THEOREM ListedPoolsAlwaysExist == Spec => []ListedPoolsExist
<1>1. IInv => ListedPoolsExist
    BY DEF IInv, PoolsOK
<1> QED BY <1>1, Initial, Step, PTL DEF Spec

(* The factories always hold just what their callbacks must refund          *)
(* (on_staking_pool_create, on_lockup_create).                              *)
THEOREM FactoriesAlwaysKeepNoDeposit == Spec => []FactoriesKeepNoDeposit
<1>1. IInv => FactoriesKeepNoDeposit
    BY DEF IInv, MoneyOK
<1> QED BY <1>1, Initial, Step, PTL DEF Spec

(* The airdrop can always pay what it owes (send, claim,                    *)
(* create_account_and_claim and the callbacks).                             *)
THEOREM AirdropIsAlwaysSolvent == Spec => []AirdropIsSolvent
<1>1. IInv => AirdropIsSolvent
    BY DEF IInv, MoneyOK
<1> QED BY <1>1, Initial, Step, PTL DEF Spec

(* OnlyClaimsTake, of one step.                                             *)
OnlyClaimsTakeStep ==
    \A k \in Keys :
        accounts'[k] < accounts[k] =>
            \/ /\ k \in keys /\ accounts'[k] = 0
               /\ tokens'[AirdropId] = tokens[AirdropId] - accounts[k]
            \/ \E p \in promises : p.key = k /\ p.kind = "create"

(* Every method of the airdrop obeys it, and nothing else writes accounts.  *)
LEMMA Takes == IInv /\ [Next]_vars => OnlyClaimsTakeStep
<1> SUFFICES ASSUME IInv, [Next]_vars, NEW k \in Keys, accounts'[k] < accounts[k]
             PROVE  \/ /\ k \in keys /\ accounts'[k] = 0
                       /\ tokens'[AirdropId] = tokens[AirdropId] - accounts[k]
                    \/ \E p \in promises : p.key = k /\ p.kind = "create"
    BY DEF OnlyClaimsTakeStep
<1>0. /\ PromisesOK /\ tokens \in [AccountIds -> Int] /\ accounts \in [Keys -> Nat]
      /\ accounts[k] \in Nat /\ AirdropId \in AccountIds
    BY AccountNames DEF IInv, MoneyOK
<1>1. accounts' # accounts
    BY <1>0
<1>2. Drop!Next
    BY <1>1 DEF Next, vars, RuntimeNext
<1>3. ASSUME NEW caller \in Users, NEW c \in Keys, NEW deposit \in Deposits,
             Drop!send(caller, c, deposit)
      PROVE  FALSE
  <2>1. accounts' = [accounts EXCEPT ![c] = @ + deposit - Allowance] /\ deposit > Allowance
    BY <1>3 DEF Drop!send
  <2>2. deposit \in Nat /\ Allowance \in Nat
    BY DepositsAssumption, KeysAssumption
  <2> QED BY <1>0, <2>1, <2>2
<1>4. ASSUME NEW c \in Keys, NEW q, Drop!Claimed(c, q)
      PROVE  /\ k \in keys /\ accounts'[k] = 0
             /\ tokens'[AirdropId] = tokens[AirdropId] - accounts[k]
  <2>1. /\ c \in keys /\ accounts' = [accounts EXCEPT ![c] = 0]
        /\ tokens' = [tokens EXCEPT ![AirdropId] = @ - accounts[c]]
    BY <1>4 DEF Drop!Claimed
  <2>2. c = k
    BY <1>0, <2>1
  <2> QED BY <1>0, <2>1, <2>2
<1>5. ASSUME NEW p \in promises, Drop!on_account_created_and_claimed(p)
      PROVE  p.key = k /\ p.kind = "create"
  <2>1. p.status # "sent" /\ accounts' = [accounts EXCEPT ![p.key] = p.amount]
    BY <1>1, <1>5 DEF Drop!on_account_created_and_claimed
  <2>2. p.kind = "create"
    BY <1>0, <2>1 DEF PromisesOK, Sound
  <2>3. p.key = k
    BY <1>0, <2>1
  <2> QED BY <2>2, <2>3
<1> QED BY <1>1, <1>2, <1>3, <1>4, <1>5
        DEF Drop!Next, Drop!claim, Drop!create_account_and_claim, Drop!create_account,
            Drop!create_account_advanced, Drop!on_account_created

(* A step takes from a key only by its claim, or by the callback of one     *)
(* (send, on_account_created_and_claimed).                                  *)
THEOREM OnlyClaimsEverTake == Spec => OnlyClaimsTake
<1>1. Spec => [][OnlyClaimsTakeStep]_vars
    BY Initial, Step, Takes, PTL DEF Spec
<1> QED BY <1>1 DEF OnlyClaimsTake, OnlyClaimsTakeStep
=============================================================================
