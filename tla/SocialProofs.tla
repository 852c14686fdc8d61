---------------------------- MODULE SocialProofs -----------------------------
(***************************************************************************)
(* Proofs about the social contract.  First the storage accounting, for    *)
(* any accounts, pools, prices and sizes: what is used of a pool is paid   *)
(* for and counted, every account is covered, and used_bytes is what the   *)
(* account takes in the state.  Then the tree, for any keys, data, paths   *)
(* and callers: the nodes form a tree, writes change only what is granted  *)
(* to their callers, heights cover what is below, and what a call writes   *)
(* is charged to the account in whose tree it is.                          *)
(***************************************************************************)
EXTENDS Social, SumTheorems, SequenceTheorems


ShareType == [pool_id : PoolOwners \cup {NoPool}, max_bytes : Nat, used_bytes : Nat]
AccountType == [version : {"None", "V0", "Current"}, storage_balance : Nat,
                used_bytes : Nat, shared_storage : ShareType]
PoolType == [exists : BOOLEAN, storage_balance : Nat, used_bytes : Nat, shared_bytes : Nat]

(* An account's share, with the pools it may be of. *)
ShareOK(account, ps) ==
    /\ account.shared_storage.used_bytes <= account.shared_storage.max_bytes
    /\ account.shared_storage.used_bytes <= account.used_bytes
    /\ ~IsShared(account) => account.shared_storage = NoShare
    /\ IsShared(account) => ps[account.shared_storage.pool_id].exists

(* What is used of a pool is paid for. *)
PoolPaid(pool) ==
    /\ pool.used_bytes * ByteCost <= pool.storage_balance
    /\ ~pool.exists => pool.used_bytes = 0 /\ pool.shared_bytes = 0

OwnBytes(pool) == IF pool.exists THEN PoolBytes ELSE 0

(* Pool p counts what the accounts use and may use of it. *)
Counted(accs, ps, p) ==
    /\ ps[p].used_bytes = OwnBytes(ps[p])
            + SumOver([a \in AccountIds |-> UsedOf(accs[a], p)], AccountIds)
    /\ ps[p].shared_bytes = SumOver([a \in AccountIds |-> ShareOf(accs[a], p)], AccountIds)

(* Accounts and pools whose books agree. *)
Books(accs, ps) ==
    /\ accs \in [AccountIds -> AccountType]
    /\ ps \in [PoolOwners -> PoolType]
    /\ \A a \in AccountIds : ShareOK(accs[a], ps)
    /\ \A p \in PoolOwners : PoolPaid(ps[p]) /\ Counted(accs, ps, p)

(* An AccountV0 may lack the byte of its migration, and count it twice. *)
Slack(a) == IF a \in Legacy THEN ByteCost ELSE 0
Doubled(a) == IF a \in Legacy THEN {0, 1} ELSE {0}

(* What account a counts, pays for and takes in the state (st bytes); an    *)
(* AccountV0 is as the earlier version left it.                             *)
Honest(a, account, st) ==
    /\ account.version = "None" => account = NoAccount /\ st = 0
    /\ account.version = "V0" =>
            /\ a \in Legacy /\ ~IsShared(account)
            /\ account.used_bytes = AccountBytes - 1 /\ st = account.used_bytes
            /\ NeededBalance(account) <= account.storage_balance
    /\ account.version = "Current" =>
            /\ RecordBytes(account) <= st
            /\ account.used_bytes - st \in Doubled(a)
            /\ NeededBalance(account) <= account.storage_balance + Slack(a)

(* The inductive invariant. *)
IInv ==
    /\ Books(accounts, pools)
    /\ stored \in [AccountIds -> Nat]
    /\ \A a \in AccountIds : Honest(a, accounts[a], stored[a])

----------------------------------------------------------------------------
(* Counting. *)

(* What is used and shared of a pool: natural numbers, no less than one     *)
(* account's part of them.                                                  *)
LEMMA CountsArePositive ==
    ASSUME NEW accs \in [AccountIds -> AccountType], NEW p \in PoolOwners, NEW a \in AccountIds
    PROVE  /\ SumOver([b \in AccountIds |-> UsedOf(accs[b], p)], AccountIds) \in Nat
           /\ SumOver([b \in AccountIds |-> ShareOf(accs[b], p)], AccountIds) \in Nat
           /\ UsedOf(accs[a], p) <= SumOver([b \in AccountIds |-> UsedOf(accs[b], p)], AccountIds)
           /\ ShareOf(accs[a], p) <= SumOver([b \in AccountIds |-> ShareOf(accs[b], p)], AccountIds)
<1> DEFINE f == [b \in AccountIds |-> UsedOf(accs[b], p)]
           g == [b \in AccountIds |-> ShareOf(accs[b], p)]
<1>1. \A b \in AccountIds : f[b] \in Nat /\ g[b] \in Nat
  BY DEF UsedOf, ShareOf, AccountType, ShareType
<1>2. f[a] = UsedOf(accs[a], p) /\ g[a] = ShareOf(accs[a], p) OBVIOUS
<1> HIDE DEF f, g
<1>3. \A b \in AccountIds : f[b] \in Int /\ g[b] \in Int BY <1>1
<1>4. SumOver(f, AccountIds) \in Nat /\ SumOver(g, AccountIds) \in Nat
  BY <1>1, SumIsNat, AccountIdsAssumption
<1>5. IsFiniteSet(AccountIds \ {a}) BY AccountIdsAssumption, FS_Subset
<1>6. SumOver(f, AccountIds \ {a}) \in Nat /\ SumOver(g, AccountIds \ {a}) \in Nat
  <2>1. \A b \in AccountIds \ {a} : f[b] \in Nat /\ g[b] \in Nat BY <1>1
  <2> QED BY <2>1, <1>5, SumIsNat
<1>7. /\ SumOver(f, AccountIds) = f[a] + SumOver(f, AccountIds \ {a})
      /\ SumOver(g, AccountIds) = g[a] + SumOver(g, AccountIds \ {a})
  BY <1>3, SumSplit, AccountIdsAssumption
<1>8. f[a] \in Nat /\ g[a] \in Nat BY <1>1
<1>9. f[a] <= SumOver(f, AccountIds) /\ g[a] <= SumOver(g, AccountIds)
  BY <1>4, <1>6, <1>7, <1>8
<1> QED BY <1>2, <1>4, <1>9 DEF f, g

(* When one account changes, a pool that is changed by as much counts on.   *)
LEMMA Recounted ==
    ASSUME NEW accs \in [AccountIds -> AccountType], NEW a \in AccountIds, NEW acc \in AccountType,
           NEW p \in PoolOwners, NEW ps, NEW ps2, Counted(accs, ps, p),
           ps[p].used_bytes \in Nat, ps[p].shared_bytes \in Nat,
           ps2[p].exists = ps[p].exists,
           ps2[p].used_bytes = (ps[p].used_bytes - UsedOf(accs[a], p)) + UsedOf(acc, p),
           ps2[p].shared_bytes = (ps[p].shared_bytes - ShareOf(accs[a], p)) + ShareOf(acc, p)
    PROVE  Counted([accs EXCEPT ![a] = acc], ps2, p)
<1> DEFINE accs2 == [accs EXCEPT ![a] = acc]
           f == [b \in AccountIds |-> UsedOf(accs[b], p)]
           g == [b \in AccountIds |-> ShareOf(accs[b], p)]
           f2 == [b \in AccountIds |-> UsedOf(accs2[b], p)]
           g2 == [b \in AccountIds |-> ShareOf(accs2[b], p)]
<1>1. accs2 \in [AccountIds -> AccountType] /\ accs2[a] = acc
      /\ \A b \in AccountIds \ {a} : accs2[b] = accs[b]
  OBVIOUS
<1> HIDE DEF accs2
<1>2. \A b \in AccountIds : f[b] \in Int /\ g[b] \in Int /\ f2[b] \in Int /\ g2[b] \in Int
  BY <1>1 DEF UsedOf, ShareOf, AccountType, ShareType
<1>3. \A b \in AccountIds \ {a} : f2[b] = f[b] /\ g2[b] = g[b] BY <1>1
<1>4. /\ f[a] = UsedOf(accs[a], p) /\ g[a] = ShareOf(accs[a], p)
      /\ f2[a] = UsedOf(acc, p) /\ g2[a] = ShareOf(acc, p)
  BY <1>1
<1>5. /\ ps[p].used_bytes = OwnBytes(ps[p]) + SumOver(f, AccountIds)
      /\ ps[p].shared_bytes = SumOver(g, AccountIds)
  BY DEF Counted
<1> HIDE DEF f, g, f2, g2
<1>6. SumOver(f2, AccountIds) = SumOver(f, AccountIds) - f[a] + f2[a]
  BY <1>2, <1>3, SumChanged, AccountIdsAssumption
<1>7. SumOver(g2, AccountIds) = SumOver(g, AccountIds) - g[a] + g2[a]
  BY <1>2, <1>3, SumChanged, AccountIdsAssumption
<1>8. SumOver(f, AccountIds) \in Int /\ SumOver(g, AccountIds) \in Int
  BY <1>2, SumIsInt, AccountIdsAssumption
<1>9. OwnBytes(ps2[p]) = OwnBytes(ps[p]) /\ OwnBytes(ps[p]) \in Nat
  BY BytesAssumption DEF OwnBytes
<1>10. f[a] \in Int /\ g[a] \in Int /\ f2[a] \in Int /\ g2[a] \in Int BY <1>2
<1>11. ps2[p].used_bytes = OwnBytes(ps2[p]) + SumOver(f2, AccountIds)
  BY <1>4, <1>5, <1>6, <1>8, <1>9, <1>10
<1>12. ps2[p].shared_bytes = SumOver(g2, AccountIds)
  BY <1>4, <1>5, <1>7, <1>8, <1>10
<1> QED BY <1>11, <1>12 DEF Counted, f2, g2, accs2

(* A pool that is not touched counts on when no account's part of it changes. *)
LEMMA StillCounted ==
    ASSUME NEW accs \in [AccountIds -> AccountType], NEW a \in AccountIds, NEW acc \in AccountType,
           NEW p \in PoolOwners, NEW ps \in [PoolOwners -> PoolType],
           NEW ps2, Counted(accs, ps, p), ps2[p] = ps[p],
           UsedOf(acc, p) = UsedOf(accs[a], p), ShareOf(acc, p) = ShareOf(accs[a], p)
    PROVE  Counted([accs EXCEPT ![a] = acc], ps2, p)
<1>1. ps[p].used_bytes \in Nat /\ ps[p].shared_bytes \in Nat BY DEF PoolType
<1>2. UsedOf(acc, p) \in Nat /\ ShareOf(acc, p) \in Nat BY DEF UsedOf, ShareOf, AccountType, ShareType
<1>3. ps2[p].used_bytes = (ps[p].used_bytes - UsedOf(accs[a], p)) + UsedOf(acc, p)
  BY <1>1, <1>2
<1>4. ps2[p].shared_bytes = (ps[p].shared_bytes - ShareOf(accs[a], p)) + ShareOf(acc, p)
  BY <1>1, <1>2
<1>5. ps2[p].exists = ps[p].exists OBVIOUS
<1> QED BY <1>1, <1>3, <1>4, <1>5, Recounted

----------------------------------------------------------------------------
(* The price of bytes. *)

(* Multiples of the price of a byte are ordered and add up as the bytes do. *)
LEMMA Priced ==
    ASSUME NEW m \in Int, NEW n \in Int
    PROVE  /\ m * ByteCost \in Int /\ n * ByteCost \in Int
           /\ m <= n => m * ByteCost <= n * ByteCost
           /\ (m + n) * ByteCost = m * ByteCost + n * ByteCost
<1>1. ByteCost \in Nat /\ ByteCost > 0 BY ByteCostAssumption
<1>2. ASSUME m <= n PROVE m * ByteCost <= n * ByteCost
  <2>1. n - m \in Nat BY <1>2
  <2>2. (n - m) * ByteCost \in Nat BY <1>1, <2>1
  <2>3. (n - m) * ByteCost = n * ByteCost - m * ByteCost BY <1>1
  <2>4. m * ByteCost \in Int /\ n * ByteCost \in Int BY <1>1
  <2> QED BY <2>2, <2>3, <2>4
<1> QED BY <1>1, <1>2

(* What is available of a balance is paid for. *)
LEMMA PaidFor ==
    ASSUME NEW balance \in Nat, NEW used \in Int, used <= balance \div ByteCost
    PROVE  used * ByteCost <= balance
<1> DEFINE d == balance \div ByteCost
<1>1. ByteCost \in Nat /\ ByteCost > 0 BY ByteCostAssumption
<1>2. d \in Nat /\ d * ByteCost <= balance BY <1>1
<1> HIDE DEF d
<1>3. used <= d BY DEF d
<1>4. used * ByteCost <= d * ByteCost BY <1>2, <1>3, Priced
<1>5. used * ByteCost \in Int /\ d * ByteCost \in Int BY <1>2, Priced
<1> QED BY <1>2, <1>4, <1>5

(* And what is paid for is available. *)
LEMMA Affordable ==
    ASSUME NEW balance \in Nat, NEW used \in Nat, used * ByteCost <= balance
    PROVE  balance \div ByteCost \in Nat /\ used <= balance \div ByteCost
<1> DEFINE d == balance \div ByteCost
           x == used - (d + 1)
<1>1. ByteCost \in Nat /\ ByteCost > 0 BY ByteCostAssumption
<1>2. d \in Nat /\ balance < d * ByteCost + ByteCost BY <1>1
<1> HIDE DEF d
<1>3. ASSUME d + 1 <= used PROVE FALSE
  <2>1. d + 1 \in Int BY <1>2
  <2>2. (d + 1) * ByteCost <= used * ByteCost BY <1>3, <2>1, Priced
  <2>3. (d + 1) * ByteCost = d * ByteCost + ByteCost BY <1>1, <1>2
  <2>4. d * ByteCost \in Int /\ used * ByteCost \in Int BY <1>2, Priced
  <2> QED BY <1>1, <1>2, <2>2, <2>3, <2>4
<1>4. used <= d BY <1>2, <1>3
<1> QED BY <1>2, <1>4 DEF d

----------------------------------------------------------------------------
(* How a call changes the books. *)

(* A call writes one account, and pools. *)
LEMMA BooksMove ==
    ASSUME NEW accs, NEW ps, Books(accs, ps), NEW a \in AccountIds, NEW acc \in AccountType,
           NEW ps2 \in [PoolOwners -> PoolType], ShareOK(acc, ps2),
           \A p \in PoolOwners : ps[p].exists => ps2[p].exists,
           \A p \in PoolOwners : PoolPaid(ps2[p]) /\ Counted([accs EXCEPT ![a] = acc], ps2, p)
    PROVE  Books([accs EXCEPT ![a] = acc], ps2)
<1>1. accs \in [AccountIds -> AccountType] BY DEF Books
<1>2. [accs EXCEPT ![a] = acc] \in [AccountIds -> AccountType] BY <1>1
<1>3. ASSUME NEW b \in AccountIds PROVE ShareOK([accs EXCEPT ![a] = acc][b], ps2)
  <2>1. CASE b = a BY <1>1, <2>1
  <2>2. CASE b # a
    <3>1. [accs EXCEPT ![a] = acc][b] = accs[b] BY <1>1, <2>2
    <3>2. ShareOK(accs[b], ps) /\ accs[b] \in AccountType BY <1>1 DEF Books
    <3>3. IsShared(accs[b]) => accs[b].shared_storage.pool_id \in PoolOwners
      BY <3>2 DEF IsShared, AccountType, ShareType
    <3> QED BY <3>1, <3>2, <3>3 DEF ShareOK
  <2> QED BY <2>1, <2>2
<1> QED BY <1>2, <1>3 DEF Books

(* The account is written with the share it had, and counts no less.        *)
LEMMA ShareKept ==
    ASSUME NEW accs, NEW ps, Books(accs, ps), NEW a \in AccountIds, NEW acc \in AccountType,
           acc.shared_storage = accs[a].shared_storage,
           acc.shared_storage.used_bytes <= acc.used_bytes
    PROVE  Books([accs EXCEPT ![a] = acc], ps)
<1>1. /\ accs \in [AccountIds -> AccountType] /\ ps \in [PoolOwners -> PoolType]
      /\ ShareOK(accs[a], ps)
      /\ \A p \in PoolOwners : PoolPaid(ps[p]) /\ Counted(accs, ps, p)
  BY DEF Books
<1>2. ShareOK(acc, ps) BY <1>1 DEF ShareOK, IsShared
<1>3. ASSUME NEW p \in PoolOwners PROVE Counted([accs EXCEPT ![a] = acc], ps, p)
  <2>1. UsedOf(acc, p) = UsedOf(accs[a], p) /\ ShareOf(acc, p) = ShareOf(accs[a], p)
    BY DEF UsedOf, ShareOf
  <2> QED BY <1>1, <2>1, StillCounted
<1> QED BY <1>1, <1>2, <1>3, BooksMove

(* What a pool pays of `bytes`: within what is available and what is used.  *)
LEMMA PoolPartBounds ==
    ASSUME NEW account \in AccountType, NEW ps \in [PoolOwners -> PoolType],
           ShareOK(account, ps), NEW bytes \in Int,
           NEW p \in PoolOwners, account.shared_storage.pool_id = p, PoolPaid(ps[p])
    PROVE  /\ PoolPart(account, ps, bytes) \in Int
           /\ -account.shared_storage.used_bytes <= PoolPart(account, ps, bytes)
           /\ PoolPart(account, ps, bytes) <=
                account.shared_storage.max_bytes - account.shared_storage.used_bytes
           /\ bytes >= 0 => PoolPart(account, ps, bytes) \in 0 .. bytes
           /\ bytes <= 0 => /\ PoolPart(account, ps, bytes) \in bytes .. 0
                            /\ \/ PoolPart(account, ps, bytes) = bytes
                               \/ PoolPart(account, ps, bytes) = -account.shared_storage.used_bytes
           /\ (ps[p].used_bytes + PoolPart(account, ps, bytes)) * ByteCost <= ps[p].storage_balance
<1> DEFINE part == PoolPart(account, ps, bytes)
           u == account.shared_storage.used_bytes
           m == account.shared_storage.max_bytes
           bal == ps[p].storage_balance
           used == ps[p].used_bytes
           d == bal \div ByteCost
<1>1. u \in Nat /\ m \in Nat /\ u <= m /\ bal \in Nat /\ used \in Nat /\ used * ByteCost <= bal
  BY DEF AccountType, ShareType, PoolType, ShareOK, PoolPaid
<1>2. d \in Nat /\ used <= d BY <1>1, Affordable
<1>3. p # NoPool BY NoPoolAssumption
<1>4. part = IF bytes = 0 THEN 0
             ELSE IF bytes > 0 THEN Least(Least(m - u, d - used), bytes)
             ELSE -Least(u, -bytes)
  BY <1>3 DEF PoolPart, available_bytes, pool_available_bytes
<1> HIDE DEF part, u, m, bal, used, d
<1>5. /\ part \in Int /\ -u <= part /\ part <= m - u
      /\ bytes >= 0 => part \in 0 .. bytes
      /\ bytes <= 0 => part \in bytes .. 0 /\ (part = bytes \/ part = -u)
  BY <1>1, <1>2, <1>4 DEF Least
<1>6. (used + part) * ByteCost <= bal
  <2>1. CASE bytes > 0
    <3>1. part <= d - used BY <1>1, <1>2, <1>4, <2>1 DEF Least
    <3>2. used + part \in Int /\ used + part <= bal \div ByteCost
      BY <1>1, <1>2, <1>5, <3>1 DEF d
    <3> QED BY <1>1, <3>2, PaidFor
  <2>2. CASE bytes <= 0
    <3>1. used + part \in Int /\ used + part <= used BY <1>1, <1>5, <2>2
    <3>2. /\ (used + part) * ByteCost <= used * ByteCost
          /\ (used + part) * ByteCost \in Int /\ used * ByteCost \in Int
      BY <1>1, <3>1, Priced
    <3> QED BY <1>1, <3>2
  <2> QED BY <2>1, <2>2
<1> QED BY <1>5, <1>6 DEF part, u, m, bal, used

(* The account as it is stored when its tracker holds `bytes`.              *)
LEMMA ChargedAccount ==
    ASSUME NEW account \in AccountType, NEW ps \in [PoolOwners -> PoolType],
           ShareOK(account, ps), NEW bytes \in Int, account.used_bytes + bytes \in Nat,
           \A p \in PoolOwners : PoolPaid(ps[p]),
           NEW c, c = Charged(account, ps, bytes)
    PROVE  /\ c \in AccountType
           /\ c.version = account.version /\ c.storage_balance = account.storage_balance
           /\ c.used_bytes = account.used_bytes + bytes
           /\ c.shared_storage.pool_id = account.shared_storage.pool_id
           /\ c.shared_storage.max_bytes = account.shared_storage.max_bytes
           /\ c.shared_storage.used_bytes =
                account.shared_storage.used_bytes + PoolPart(account, ps, bytes)
           /\ PoolPart(account, ps, bytes) \in Int
           /\ ~IsShared(account) => PoolPart(account, ps, bytes) = 0
           /\ bytes <= 0 => PoolPart(account, ps, bytes) >= bytes
           /\ ShareOK(c, ps)
<1> DEFINE part == PoolPart(account, ps, bytes)
           u == account.shared_storage.used_bytes
           m == account.shared_storage.max_bytes
<1>1. /\ c.version = account.version /\ c.storage_balance = account.storage_balance
      /\ c.used_bytes = account.used_bytes + bytes
      /\ c.shared_storage = [account.shared_storage EXCEPT !.used_bytes = u + part]
      /\ c = [version |-> account.version, storage_balance |-> account.storage_balance,
              used_bytes |-> account.used_bytes + bytes,
              shared_storage |-> [account.shared_storage EXCEPT !.used_bytes = u + part]]
  BY DEF Charged, AccountType
<1>2. account.shared_storage \in ShareType /\ u \in Nat /\ m \in Nat /\ u <= m
      /\ account.used_bytes \in Nat /\ u <= account.used_bytes
  BY DEF AccountType, ShareType, ShareOK
<1>3. /\ c.shared_storage.pool_id = account.shared_storage.pool_id
      /\ c.shared_storage.max_bytes = m /\ c.shared_storage.used_bytes = u + part
  BY <1>1, <1>2 DEF ShareType
<1>4. CASE ~IsShared(account)
  <2>1. part = 0 BY <1>4 DEF PoolPart, IsShared
  <2>2. account.shared_storage = NoShare BY <1>4 DEF ShareOK
  <2>3. u + part = u BY <1>2, <2>1
  <2>4. c.shared_storage = NoShare BY <1>1, <2>2, <2>3 DEF NoShare
  <2>5. c \in AccountType BY <1>1, <1>2, <2>2, <2>4 DEF AccountType
  <2>6. u = 0 /\ m = 0 /\ ~IsShared(c) BY <1>3, <1>4, <2>2 DEF NoShare, IsShared
  <2>7. ShareOK(c, ps) BY <1>1, <1>2, <1>3, <2>1, <2>4, <2>6 DEF ShareOK
  <2> HIDE DEF part
  <2> QED BY <1>1, <1>3, <2>1, <2>5, <2>7 DEF part
<1>5. CASE IsShared(account)
  <2>1. account.shared_storage.pool_id \in PoolOwners BY <1>2, <1>5 DEF IsShared, ShareType
  <2>2. /\ part \in Int /\ -u <= part /\ part <= m - u
        /\ bytes >= 0 => part \in 0 .. bytes
        /\ bytes <= 0 => part \in bytes .. 0 /\ (part = bytes \/ part = -u)
    BY <2>1, PoolPartBounds
  <2> HIDE DEF part
  <2>3. u + part \in Nat /\ u + part <= m /\ u + part <= account.used_bytes + bytes
    BY <1>2, <2>2
  <2>4. c \in AccountType BY <1>1, <1>2, <2>3 DEF AccountType, ShareType
  <2>5. IsShared(c) /\ ps[c.shared_storage.pool_id].exists
    BY <1>3, <1>5 DEF IsShared, ShareOK
  <2>6. ShareOK(c, ps) BY <1>1, <1>3, <2>3, <2>5 DEF ShareOK
  <2> QED BY <1>1, <1>3, <1>5, <2>2, <2>4, <2>6 DEF part
<1> QED BY <1>4, <1>5

(* internal_set_account: the pool pays for what the account takes of it.    *)
LEMMA ChargeKeepsBooks ==
    ASSUME NEW accs \in [AccountIds -> AccountType], NEW ps, NEW a \in AccountIds,
           NEW account \in AccountType, Books([accs EXCEPT ![a] = account], ps),
           NEW bytes \in Int, account.used_bytes + bytes \in Nat
    PROVE  Books([accs EXCEPT ![a] = Charged(account, ps, bytes)],
                 ChargedPools(account, ps, bytes))
<1> DEFINE accs1 == [accs EXCEPT ![a] = account]
           c == Charged(account, ps, bytes)
           ps2 == ChargedPools(account, ps, bytes)
           part == PoolPart(account, ps, bytes)
<1>1. /\ accs1 \in [AccountIds -> AccountType] /\ accs1[a] = account
      /\ [accs EXCEPT ![a] = c] = [accs1 EXCEPT ![a] = c]
  OBVIOUS
<1>2. /\ ps \in [PoolOwners -> PoolType] /\ ShareOK(account, ps)
      /\ \A p \in PoolOwners : PoolPaid(ps[p]) /\ Counted(accs1, ps, p)
  BY <1>1 DEF Books
<1>3. /\ c \in AccountType
      /\ c.shared_storage.pool_id = account.shared_storage.pool_id
      /\ c.shared_storage.max_bytes = account.shared_storage.max_bytes
      /\ c.shared_storage.used_bytes = account.shared_storage.used_bytes + part
      /\ part \in Int
      /\ ~IsShared(account) => part = 0
      /\ ShareOK(c, ps)
  BY <1>2, ChargedAccount
<1>4. account.shared_storage.used_bytes \in Nat /\ account.shared_storage \in ShareType
  BY DEF AccountType, ShareType
<1>5. CASE ~IsShared(account)
  <2>1. ps2 = ps BY <1>5 DEF ChargedPools
  <2>2. \A p \in PoolOwners : UsedOf(c, p) = UsedOf(account, p) /\ ShareOf(c, p) = ShareOf(account, p)
    BY <1>3, <1>4, <1>5 DEF UsedOf, ShareOf
  <2> HIDE DEF accs1, c, ps2, part
  <2>3. \A p \in PoolOwners : Counted([accs1 EXCEPT ![a] = c], ps, p)
    BY <1>1, <1>2, <1>3, <2>2, StillCounted
  <2>4. Books(accs1, ps) BY DEF accs1
  <2>5. Books([accs1 EXCEPT ![a] = c], ps) BY <1>2, <1>3, <2>3, <2>4, BooksMove
  <2> QED BY <1>1, <2>1, <2>5 DEF c, ps2
<1>6. CASE IsShared(account)
  <2> DEFINE p0 == account.shared_storage.pool_id
             new == [ps[p0] EXCEPT !.used_bytes = ps[p0].used_bytes + part]
  <2>1. p0 \in PoolOwners BY <1>4, <1>6 DEF IsShared, ShareType
  <2>2. ps2 = [ps EXCEPT ![p0] = new] BY <1>6 DEF ChargedPools
  <2>3. /\ ps[p0] \in PoolType /\ ps[p0].used_bytes \in Nat /\ ps[p0].shared_bytes \in Nat
        /\ ps[p0].storage_balance \in Nat
    BY <1>2, <2>1 DEF PoolType
  <2>4. (ps[p0].used_bytes + part) * ByteCost <= ps[p0].storage_balance
    BY <1>2, <2>1, PoolPartBounds
  <2>5. -account.shared_storage.used_bytes <= part
    BY <1>2, <2>1, PoolPartBounds
  <2>6. account.shared_storage.used_bytes <= ps[p0].used_bytes
    <3>1. UsedOf(account, p0) = account.shared_storage.used_bytes BY DEF UsedOf
    <3>2. OwnBytes(ps[p0]) \in Nat BY BytesAssumption DEF OwnBytes
    <3> DEFINE sum == SumOver([b \in AccountIds |-> UsedOf(accs1[b], p0)], AccountIds)
    <3>3. ps[p0].used_bytes = OwnBytes(ps[p0]) + sum BY <1>2, <2>1 DEF Counted
    <3> HIDE DEF accs1
    <3>4. sum \in Nat /\ UsedOf(accs1[a], p0) <= sum BY <1>1, <2>1, CountsArePositive
    <3> HIDE DEF sum, p0
    <3> QED BY <1>1, <1>4, <3>1, <3>2, <3>3, <3>4
  <2>7. /\ new.exists = ps[p0].exists /\ new.storage_balance = ps[p0].storage_balance
        /\ new.shared_bytes = ps[p0].shared_bytes
        /\ new.used_bytes = ps[p0].used_bytes + part
        /\ new = [exists |-> ps[p0].exists, storage_balance |-> ps[p0].storage_balance,
                  used_bytes |-> ps[p0].used_bytes + part, shared_bytes |-> ps[p0].shared_bytes]
    BY <2>3 DEF PoolType
  <2>8. /\ p0 = account.shared_storage.pool_id
        /\ ps[p0].exists BY <1>2, <1>6 DEF ShareOK
  <2> HIDE DEF new, part, accs1, c, ps2
  <2>9. ps[p0].used_bytes + part \in Nat BY <1>3, <1>4, <2>3, <2>5, <2>6
  <2>10. new \in PoolType BY <2>3, <2>7, <2>9 DEF PoolType
  <2>11. ps2 \in [PoolOwners -> PoolType] BY <1>2, <2>2, <2>10
  <2>12. PoolPaid(new) BY <2>4, <2>7, <2>8 DEF PoolPaid
  <2>13. ps2[p0] = new /\ \A p \in PoolOwners \ {p0} : ps2[p] = ps[p] BY <1>2, <2>1, <2>2
  <2>14. \A p \in PoolOwners : PoolPaid(ps2[p]) /\ (ps[p].exists => ps2[p].exists)
    BY <1>2, <2>7, <2>12, <2>13
  <2>15. ShareOK(c, ps2) BY <1>3, <2>7, <2>8, <2>13 DEF ShareOK
  <2>16. Counted([accs1 EXCEPT ![a] = c], ps2, p0)
    <3>1. /\ UsedOf(account, p0) = account.shared_storage.used_bytes
          /\ UsedOf(c, p0) = account.shared_storage.used_bytes + part
          /\ ShareOf(c, p0) = ShareOf(account, p0) /\ ShareOf(account, p0) \in Nat
      BY <1>3, <1>4, <2>8 DEF UsedOf, ShareOf, ShareType
    <3>2. ps2[p0].used_bytes = (ps[p0].used_bytes - UsedOf(account, p0)) + UsedOf(c, p0)
      BY <1>3, <1>4, <2>3, <2>7, <2>13, <3>1
    <3>3. ps2[p0].shared_bytes = (ps[p0].shared_bytes - ShareOf(account, p0)) + ShareOf(c, p0)
      BY <2>3, <2>7, <2>13, <3>1
    <3>4. ps2[p0].exists = ps[p0].exists BY <2>7, <2>13
    <3>5. Counted(accs1, ps, p0) BY <1>2, <2>1
    <3> QED BY <1>1, <1>3, <2>1, <2>3, <3>2, <3>3, <3>4, <3>5, Recounted
  <2>17. \A p \in PoolOwners \ {p0} : Counted([accs1 EXCEPT ![a] = c], ps2, p)
    <3> TAKE p \in PoolOwners \ {p0}
    <3>1. UsedOf(c, p) = UsedOf(account, p) /\ ShareOf(c, p) = ShareOf(account, p)
      BY <1>3, <2>8 DEF UsedOf, ShareOf
    <3> QED BY <1>1, <1>2, <1>3, <2>13, <3>1, StillCounted
  <2>18. Books(accs1, ps) BY DEF accs1
  <2>19. \A p \in PoolOwners : Counted([accs1 EXCEPT ![a] = c], ps2, p) BY <2>16, <2>17
  <2>20. Books([accs1 EXCEPT ![a] = c], ps2)
    BY <1>3, <2>11, <2>14, <2>15, <2>18, <2>19, BooksMove
  <2> QED BY <1>1, <2>20 DEF c, ps2
<1> QED BY <1>5, <1>6

(* share_storage for an account that used none.                             *)
LEMMA ShareTaken ==
    ASSUME NEW accs, NEW ps, Books(accs, ps), NEW a \in AccountIds, NEW acc \in AccountType,
           ~IsShared(accs[a]), NEW p0 \in PoolOwners, ps[p0].exists, NEW m \in Nat,
           acc.shared_storage = Share(p0, m, 0)
    PROVE  Books([accs EXCEPT ![a] = acc], [ps EXCEPT ![p0].shared_bytes = @ + m])
<1> DEFINE new == [ps[p0] EXCEPT !.shared_bytes = ps[p0].shared_bytes + m]
           ps2 == [ps EXCEPT ![p0] = new]
<1>1. /\ accs \in [AccountIds -> AccountType] /\ ps \in [PoolOwners -> PoolType]
      /\ accs[a].shared_storage = NoShare
      /\ \A p \in PoolOwners : PoolPaid(ps[p]) /\ Counted(accs, ps, p)
  BY DEF Books, ShareOK
<1>2. [ps EXCEPT ![p0].shared_bytes = @ + m] = ps2 OBVIOUS
<1>3. /\ ps[p0].used_bytes \in Nat /\ ps[p0].shared_bytes \in Nat /\ ps[p0] \in PoolType
  BY <1>1 DEF PoolType
<1>4. /\ new \in PoolType /\ new.exists = ps[p0].exists /\ new.used_bytes = ps[p0].used_bytes
      /\ new.storage_balance = ps[p0].storage_balance
      /\ new.shared_bytes = ps[p0].shared_bytes + m
  <2>1. ps[p0].shared_bytes + m \in Nat BY <1>3
  <2> QED BY <1>3, <2>1 DEF PoolType
<1>5. /\ acc.shared_storage.pool_id = p0 /\ acc.shared_storage.used_bytes = 0
      /\ acc.shared_storage.max_bytes = m /\ acc.used_bytes \in Nat
  BY DEF Share, AccountType
<1>6. accs[a].shared_storage.pool_id \notin PoolOwners
  BY <1>1, NoPoolAssumption DEF NoShare
<1>7. /\ \A p \in PoolOwners : UsedOf(accs[a], p) = 0 /\ ShareOf(accs[a], p) = 0
      /\ \A p \in PoolOwners : UsedOf(acc, p) = 0
      /\ ShareOf(acc, p0) = m
      /\ \A p \in PoolOwners \ {p0} : ShareOf(acc, p) = 0
  BY <1>5, <1>6 DEF UsedOf, ShareOf
<1> HIDE DEF new
<1>8. /\ ps2 \in [PoolOwners -> PoolType] /\ ps2[p0] = new
      /\ \A p \in PoolOwners \ {p0} : ps2[p] = ps[p]
  BY <1>1, <1>4
<1> HIDE DEF ps2
<1>9. ShareOK(acc, ps2)
  <2>1. IsShared(acc) BY <1>5, NoPoolAssumption DEF IsShared
  <2>2. ps2[acc.shared_storage.pool_id].exists BY <1>4, <1>5, <1>8
  <2>3. 0 <= acc.used_bytes /\ 0 <= m BY <1>5
  <2> QED BY <1>5, <2>1, <2>2, <2>3 DEF ShareOK
<1>10. PoolPaid(new) BY <1>1, <1>4 DEF PoolPaid
<1>11. \A p \in PoolOwners : PoolPaid(ps2[p]) /\ (ps[p].exists => ps2[p].exists)
  BY <1>1, <1>4, <1>8, <1>10
<1>12. Counted([accs EXCEPT ![a] = acc], ps2, p0)
  <2>1. /\ ps2[p0].used_bytes = (ps[p0].used_bytes - UsedOf(accs[a], p0)) + UsedOf(acc, p0)
        /\ ps2[p0].shared_bytes = (ps[p0].shared_bytes - ShareOf(accs[a], p0)) + ShareOf(acc, p0)
        /\ ps2[p0].exists = ps[p0].exists
    <3>1. /\ UsedOf(accs[a], p0) = 0 /\ UsedOf(acc, p0) = 0
          /\ ShareOf(accs[a], p0) = 0 /\ ShareOf(acc, p0) = m
      BY <1>7
    <3>2. ps2[p0].exists = ps[p0].exists BY <1>4, <1>8
    <3>3. /\ ps2[p0].used_bytes = (ps[p0].used_bytes - 0) + 0
          /\ ps2[p0].shared_bytes = (ps[p0].shared_bytes - 0) + m
      BY <1>3, <1>4, <1>8
    <3> QED BY <3>1, <3>2, <3>3
  <2>2. Counted(accs, ps, p0) BY <1>1
  <2> QED BY <1>1, <1>3, <2>1, <2>2, Recounted
<1>13. \A p \in PoolOwners \ {p0} : Counted([accs EXCEPT ![a] = acc], ps2, p)
  BY <1>1, <1>7, <1>8, StillCounted
<1>14. \A p \in PoolOwners : Counted([accs EXCEPT ![a] = acc], ps2, p) BY <1>12, <1>13
<1> QED BY <1>2, <1>8, <1>9, <1>11, <1>14, BooksMove

(* share_storage by the pool that the account uses.                         *)
LEMMA ShareGrown ==
    ASSUME NEW accs, NEW ps, Books(accs, ps), NEW a \in AccountIds, NEW acc \in AccountType,
           NEW p0 \in PoolOwners, accs[a].shared_storage.pool_id = p0,
           NEW m \in Nat, m > accs[a].shared_storage.max_bytes,
           acc.shared_storage = Share(p0, m, accs[a].shared_storage.used_bytes),
           acc.used_bytes = accs[a].used_bytes
    PROVE  Books([accs EXCEPT ![a] = acc],
                 [ps EXCEPT ![p0].shared_bytes = @ + m - accs[a].shared_storage.max_bytes])
<1> DEFINE old == accs[a].shared_storage.max_bytes
           u == accs[a].shared_storage.used_bytes
           new == [ps[p0] EXCEPT !.shared_bytes = ps[p0].shared_bytes + m - old]
           ps2 == [ps EXCEPT ![p0] = new]
<1>1. /\ accs \in [AccountIds -> AccountType] /\ ps \in [PoolOwners -> PoolType]
      /\ ShareOK(accs[a], ps)
      /\ \A p \in PoolOwners : PoolPaid(ps[p]) /\ Counted(accs, ps, p)
  BY DEF Books
<1>2. [ps EXCEPT ![p0].shared_bytes = @ + m - old] = ps2 OBVIOUS
<1>3. /\ ps[p0].used_bytes \in Nat /\ ps[p0].shared_bytes \in Nat /\ ps[p0] \in PoolType
      /\ old \in Nat /\ u \in Nat /\ u <= old
  BY <1>1 DEF PoolType, AccountType, ShareType, ShareOK
<1>4. /\ new \in PoolType /\ new.exists = ps[p0].exists /\ new.used_bytes = ps[p0].used_bytes
      /\ new.storage_balance = ps[p0].storage_balance
      /\ new.shared_bytes = ps[p0].shared_bytes + m - old
  <2>1. ps[p0].shared_bytes + m - old \in Nat BY <1>3
  <2> QED BY <1>3, <2>1 DEF PoolType
<1>5. /\ acc.shared_storage.pool_id = p0 /\ acc.shared_storage.used_bytes = u
      /\ acc.shared_storage.max_bytes = m /\ acc.used_bytes \in Nat
  BY DEF Share, AccountType
<1>6. IsShared(accs[a]) /\ IsShared(acc) /\ ps[p0].exists
  BY <1>1, <1>5, NoPoolAssumption DEF ShareOK, IsShared
<1>7. /\ \A p \in PoolOwners : UsedOf(accs[a], p) = UsedOf(acc, p)
      /\ ShareOf(acc, p0) = m /\ ShareOf(accs[a], p0) = old
      /\ \A p \in PoolOwners \ {p0} : ShareOf(acc, p) = ShareOf(accs[a], p)
      /\ UsedOf(acc, p0) = u
  BY <1>5 DEF UsedOf, ShareOf
<1> HIDE DEF new, old, u
<1>8. /\ ps2 \in [PoolOwners -> PoolType] /\ ps2[p0] = new
      /\ \A p \in PoolOwners \ {p0} : ps2[p] = ps[p]
  BY <1>1, <1>4
<1> HIDE DEF ps2
<1>9. ShareOK(acc, ps2)
  <2>1. u <= m /\ u <= acc.used_bytes BY <1>1, <1>3 DEF ShareOK, u, old
  <2> QED BY <1>4, <1>5, <1>6, <1>8, <2>1 DEF ShareOK
<1>10. PoolPaid(new) BY <1>1, <1>4, <1>6 DEF PoolPaid
<1>11. \A p \in PoolOwners : PoolPaid(ps2[p]) /\ (ps[p].exists => ps2[p].exists)
  BY <1>1, <1>4, <1>8, <1>10
<1>12. Counted([accs EXCEPT ![a] = acc], ps2, p0)
  <2>1. /\ ps2[p0].used_bytes = (ps[p0].used_bytes - UsedOf(accs[a], p0)) + UsedOf(acc, p0)
        /\ ps2[p0].shared_bytes = (ps[p0].shared_bytes - ShareOf(accs[a], p0)) + ShareOf(acc, p0)
        /\ ps2[p0].exists = ps[p0].exists
    BY <1>3, <1>4, <1>7, <1>8
  <2>2. Counted(accs, ps, p0) BY <1>1
  <2> QED BY <1>1, <1>3, <2>1, <2>2, Recounted
<1>13. \A p \in PoolOwners \ {p0} : Counted([accs EXCEPT ![a] = acc], ps2, p)
  BY <1>1, <1>7, <1>8, StillCounted
<1>14. \A p \in PoolOwners : Counted([accs EXCEPT ![a] = acc], ps2, p) BY <1>12, <1>13
<1>15. Books([accs EXCEPT ![a] = acc], ps2) BY <1>8, <1>9, <1>11, <1>14, BooksMove
<1> QED BY <1>2, <1>15 DEF old

(* An account that uses a pool uses no more than the pool counts, and what  *)
(* is available to it is not negative.                                      *)
LEMMA UsedIsCounted ==
    ASSUME NEW accs, NEW ps, Books(accs, ps), NEW a \in AccountIds, NEW p0 \in PoolOwners,
           accs[a].shared_storage.pool_id = p0
    PROVE  /\ accs[a].shared_storage.used_bytes <= ps[p0].used_bytes
           /\ accs[a].shared_storage.max_bytes <= ps[p0].shared_bytes
           /\ available_bytes(accs[a].shared_storage, ps[p0]) \in Nat
<1> DEFINE u == accs[a].shared_storage.used_bytes
           m == accs[a].shared_storage.max_bytes
           sumU == SumOver([b \in AccountIds |-> UsedOf(accs[b], p0)], AccountIds)
           sumM == SumOver([b \in AccountIds |-> ShareOf(accs[b], p0)], AccountIds)
           d == ps[p0].storage_balance \div ByteCost
<1>1. /\ accs \in [AccountIds -> AccountType] /\ ps \in [PoolOwners -> PoolType]
      /\ ShareOK(accs[a], ps) /\ PoolPaid(ps[p0])
      /\ ps[p0].used_bytes = OwnBytes(ps[p0]) + sumU
      /\ ps[p0].shared_bytes = sumM
  BY DEF Books, Counted
<1>2. u \in Nat /\ m \in Nat /\ u <= m
  BY <1>1 DEF AccountType, ShareType, ShareOK
<1>3. OwnBytes(ps[p0]) \in Nat BY BytesAssumption DEF OwnBytes
<1>4. UsedOf(accs[a], p0) = u /\ ShareOf(accs[a], p0) = m BY DEF UsedOf, ShareOf
<1>5. sumU \in Nat /\ sumM \in Nat /\ UsedOf(accs[a], p0) <= sumU /\ ShareOf(accs[a], p0) <= sumM
  BY <1>1, CountsArePositive
<1>6. /\ ps[p0].storage_balance \in Nat /\ ps[p0].used_bytes \in Nat
      /\ ps[p0].used_bytes * ByteCost <= ps[p0].storage_balance
  BY <1>1 DEF PoolType, PoolPaid
<1>7. d \in Nat /\ ps[p0].used_bytes <= d BY <1>6, Affordable
<1>8. available_bytes(accs[a].shared_storage, ps[p0]) = Least(m - u, d - ps[p0].used_bytes)
  BY DEF available_bytes, pool_available_bytes
<1> HIDE DEF sumU, sumM, d, u, m
<1>9. Least(m - u, d - ps[p0].used_bytes) \in Nat BY <1>2, <1>6, <1>7 DEF Least
<1>10. u <= ps[p0].used_bytes BY <1>1, <1>2, <1>3, <1>4, <1>5
<1>11. m <= ps[p0].shared_bytes BY <1>1, <1>2, <1>4, <1>5
<1> QED BY <1>8, <1>9, <1>10, <1>11 DEF u, m

(* share_storage by another pool: what the account uses moves with it.      *)
LEMMA ShareMoved ==
    ASSUME Books(accounts, pools), NEW a \in AccountIds, NEW acc \in AccountType,
           NEW p1 \in PoolOwners, NEW p2 \in PoolOwners, p2 # p1,
           accounts[a].shared_storage.pool_id = p1, pools[p2].exists,
           NEW m \in Nat, m >= accounts[a].shared_storage.used_bytes,
           pools[p2].used_bytes + accounts[a].shared_storage.used_bytes <=
                pools[p2].storage_balance \div ByteCost,
           acc.shared_storage = Share(p2, m, accounts[a].shared_storage.used_bytes),
           acc.used_bytes = accounts[a].used_bytes
    PROVE  Books([accounts EXCEPT ![a] = acc], MovedPools(p2, accounts[a].shared_storage, m))
<1> DEFINE old == accounts[a].shared_storage.max_bytes
           u == accounts[a].shared_storage.used_bytes
           q1 == [pools[p1] EXCEPT !.used_bytes = pools[p1].used_bytes - u,
                                   !.shared_bytes = pools[p1].shared_bytes - old]
           q2 == [pools[p2] EXCEPT !.used_bytes = pools[p2].used_bytes + u,
                                   !.shared_bytes = pools[p2].shared_bytes + m]
           ps2 == MovedPools(p2, accounts[a].shared_storage, m)
<1>1. /\ accounts \in [AccountIds -> AccountType] /\ pools \in [PoolOwners -> PoolType]
      /\ ShareOK(accounts[a], pools)
      /\ \A p \in PoolOwners : PoolPaid(pools[p]) /\ Counted(accounts, pools, p)
  BY DEF Books
<1>2. ps2 = [pools EXCEPT ![p1] = q1, ![p2] = q2]
  BY <1>1 DEF MovedPools, PoolType
<1>3. /\ pools[p1].used_bytes \in Nat /\ pools[p1].shared_bytes \in Nat /\ pools[p1] \in PoolType
      /\ pools[p2].used_bytes \in Nat /\ pools[p2].shared_bytes \in Nat /\ pools[p2] \in PoolType
      /\ pools[p1].storage_balance \in Nat /\ pools[p2].storage_balance \in Nat
      /\ old \in Nat /\ u \in Nat /\ u <= old /\ u <= accounts[a].used_bytes
  BY <1>1 DEF PoolType, AccountType, ShareType, ShareOK
<1>4. u <= pools[p1].used_bytes /\ old <= pools[p1].shared_bytes
  BY UsedIsCounted
<1>5. /\ q1 \in PoolType /\ q1.exists = pools[p1].exists
      /\ q1.storage_balance = pools[p1].storage_balance
      /\ q1.used_bytes = pools[p1].used_bytes - u
      /\ q1.shared_bytes = pools[p1].shared_bytes - old
  <2>1. pools[p1].used_bytes - u \in Nat /\ pools[p1].shared_bytes - old \in Nat BY <1>3, <1>4
  <2> QED BY <1>3, <2>1 DEF PoolType
<1>6. /\ q2 \in PoolType /\ q2.exists = pools[p2].exists
      /\ q2.storage_balance = pools[p2].storage_balance
      /\ q2.used_bytes = pools[p2].used_bytes + u
      /\ q2.shared_bytes = pools[p2].shared_bytes + m
  <2>1. pools[p2].used_bytes + u \in Nat /\ pools[p2].shared_bytes + m \in Nat BY <1>3
  <2> QED BY <1>3, <2>1 DEF PoolType
<1>7. /\ acc.shared_storage.pool_id = p2 /\ acc.shared_storage.used_bytes = u
      /\ acc.shared_storage.max_bytes = m
  BY DEF Share
<1>8. /\ UsedOf(accounts[a], p1) = u /\ ShareOf(accounts[a], p1) = old
      /\ UsedOf(acc, p1) = 0 /\ ShareOf(acc, p1) = 0
      /\ UsedOf(accounts[a], p2) = 0 /\ ShareOf(accounts[a], p2) = 0
      /\ UsedOf(acc, p2) = u /\ ShareOf(acc, p2) = m
      /\ \A p \in PoolOwners \ {p1, p2} :
            UsedOf(acc, p) = UsedOf(accounts[a], p) /\ ShareOf(acc, p) = ShareOf(accounts[a], p)
  BY <1>7 DEF UsedOf, ShareOf
<1>9. IsShared(accounts[a]) /\ IsShared(acc) /\ pools[p1].exists
  BY <1>1, <1>7, NoPoolAssumption DEF ShareOK, IsShared
<1>10. PoolPaid(q1)
  <2>1. pools[p1].used_bytes * ByteCost <= pools[p1].storage_balance BY <1>1 DEF PoolPaid
  <2> DEFINE n == pools[p1].used_bytes
             k == pools[p1].used_bytes - u
  <2>2. n \in Int /\ k \in Int /\ k <= n BY <1>3
  <2> HIDE DEF n, k
  <2>3. k * ByteCost <= n * ByteCost /\ k * ByteCost \in Int /\ n * ByteCost \in Int
    BY <2>2, Priced
  <2>4. k * ByteCost <= pools[p1].storage_balance BY <1>3, <2>1, <2>3 DEF n
  <2> USE DEF k
  <2> HIDE DEF q1
  <2> QED BY <1>5, <1>9, <2>4 DEF PoolPaid
<1>11. PoolPaid(q2)
  <2>1. pools[p2].used_bytes + u \in Int BY <1>3
  <2>2. (pools[p2].used_bytes + u) * ByteCost <= pools[p2].storage_balance
    BY <1>3, <2>1, PaidFor
  <2> HIDE DEF q2
  <2> QED BY <1>6, <2>2 DEF PoolPaid
<1> HIDE DEF q1, q2, ps2
<1>12. /\ ps2 \in [PoolOwners -> PoolType] /\ ps2[p1] = q1 /\ ps2[p2] = q2
       /\ \A p \in PoolOwners \ {p1, p2} : ps2[p] = pools[p]
  BY <1>1, <1>2, <1>5, <1>6
<1>13. ShareOK(acc, ps2)
  <2>1. ps2[acc.shared_storage.pool_id].exists BY <1>6, <1>7, <1>12
  <2> QED BY <1>3, <1>7, <1>9, <2>1 DEF ShareOK
<1>14. \A p \in PoolOwners : PoolPaid(ps2[p]) /\ (pools[p].exists => ps2[p].exists)
  BY <1>1, <1>5, <1>6, <1>10, <1>11, <1>12
<1> HIDE DEF u, old
<1>15. Counted([accounts EXCEPT ![a] = acc], ps2, p1)
  <2>1. ps2[p1].exists = pools[p1].exists BY <1>5, <1>12
  <2>2. ps2[p1].used_bytes = (pools[p1].used_bytes - u) + 0 BY <1>3, <1>5, <1>12
  <2>3. ps2[p1].shared_bytes = (pools[p1].shared_bytes - old) + 0 BY <1>3, <1>5, <1>12
  <2>4. Counted(accounts, pools, p1) BY <1>1
  <2> QED BY <1>1, <1>3, <1>8, <2>1, <2>2, <2>3, <2>4, Recounted
<1>16. Counted([accounts EXCEPT ![a] = acc], ps2, p2)
  <2>1. ps2[p2].exists = pools[p2].exists BY <1>6, <1>12
  <2>2. ps2[p2].used_bytes = (pools[p2].used_bytes - 0) + u BY <1>3, <1>6, <1>12
  <2>3. ps2[p2].shared_bytes = (pools[p2].shared_bytes - 0) + m BY <1>3, <1>6, <1>12
  <2>4. Counted(accounts, pools, p2) BY <1>1
  <2> QED BY <1>1, <1>3, <1>8, <2>1, <2>2, <2>3, <2>4, Recounted
<1>17. \A p \in PoolOwners \ {p1, p2} : Counted([accounts EXCEPT ![a] = acc], ps2, p)
  BY <1>1, <1>8, <1>12, StillCounted
<1>18. \A p \in PoolOwners : Counted([accounts EXCEPT ![a] = acc], ps2, p)
  BY <1>15, <1>16, <1>17
<1> QED BY <1>12, <1>13, <1>14, <1>18, BooksMove DEF ps2

(* shared_storage_pool_deposit: the first deposit pays for the pool's entry. *)
LEMMA PoolFunded ==
    ASSUME Books(accounts, pools), NEW p0 \in PoolOwners, NEW deposit \in Deposits,
           shared_storage_pool_deposit(p0, deposit)
    PROVE  Books(accounts, pools')
<1> DEFINE pool == pools[p0]
           used2 == IF pool.exists THEN pool.used_bytes ELSE PoolBytes
           new == [pool EXCEPT !.exists = TRUE,
                               !.storage_balance = pool.storage_balance + deposit,
                               !.used_bytes = used2]
<1>1. /\ accounts \in [AccountIds -> AccountType] /\ pools \in [PoolOwners -> PoolType]
      /\ \A b \in AccountIds : ShareOK(accounts[b], pools)
      /\ \A p \in PoolOwners : PoolPaid(pools[p]) /\ Counted(accounts, pools, p)
  BY DEF Books
<1>2. /\ pool \in PoolType /\ pool.used_bytes \in Nat /\ pool.shared_bytes \in Nat
      /\ pool.storage_balance \in Nat
  BY <1>1 DEF PoolType
<1>3. /\ deposit \in Nat /\ PoolBytes \in Nat /\ MinPoolBalance \in Nat
      /\ PoolBytes * ByteCost <= MinPoolBalance /\ deposit >= MinPoolBalance
  BY InputsAssumption, BytesAssumption, MinimaAssumption DEF shared_storage_pool_deposit
<1>4. pools' = [pools EXCEPT ![p0] = new]
  BY DEF shared_storage_pool_deposit
<1>5. pool.storage_balance + deposit \in Nat /\ used2 \in Nat BY <1>2, <1>3
<1>6. /\ new \in PoolType /\ new.exists /\ new.used_bytes = used2
      /\ new.storage_balance = pool.storage_balance + deposit
      /\ new.shared_bytes = pool.shared_bytes
  BY <1>2, <1>5 DEF PoolType
<1> HIDE DEF new
<1>7. PoolPaid(new)
  <2>1. CASE pool.exists
    <3>1. pool.used_bytes * ByteCost <= pool.storage_balance BY <1>1 DEF PoolPaid
    <3>2. pool.used_bytes * ByteCost \in Int BY <1>2, Priced
    <3>3. pool.used_bytes * ByteCost <= pool.storage_balance + deposit
      BY <1>2, <1>3, <3>1, <3>2
    <3> QED BY <1>6, <2>1, <3>3 DEF PoolPaid
  <2>2. CASE ~pool.exists
    <3>1. PoolBytes * ByteCost \in Int BY <1>3, Priced
    <3>2. PoolBytes * ByteCost <= pool.storage_balance + deposit BY <1>2, <1>3, <3>1
    <3> QED BY <1>6, <2>2, <3>2 DEF PoolPaid
  <2> QED BY <2>1, <2>2
<1> DEFINE sumU == SumOver([b \in AccountIds |-> UsedOf(accounts[b], p0)], AccountIds)
           sumM == SumOver([b \in AccountIds |-> ShareOf(accounts[b], p0)], AccountIds)
<1>8. pool.used_bytes = OwnBytes(pool) + sumU /\ pool.shared_bytes = sumM
  BY <1>1 DEF Counted
<1>9. sumU \in Int
  <2> DEFINE f == [b \in AccountIds |-> UsedOf(accounts[b], p0)]
  <2>1. \A b \in AccountIds : f[b] \in Int BY <1>1 DEF UsedOf, AccountType, ShareType
  <2> HIDE DEF f
  <2>2. SumOver(f, AccountIds) \in Int BY <2>1, SumIsInt, AccountIdsAssumption
  <2> QED BY <2>2 DEF f
<1>10. new.used_bytes = OwnBytes(new) + sumU /\ new.shared_bytes = sumM
  <2>1. new.exists /\ OwnBytes(new) = PoolBytes BY <1>6 DEF OwnBytes
  <2>2. CASE pool.exists
    <3>1. OwnBytes(pool) = PoolBytes /\ used2 = pool.used_bytes BY <2>2 DEF OwnBytes
    <3> HIDE DEF sumU, sumM
    <3> QED BY <1>6, <1>8, <2>1, <3>1
  <2>3. CASE ~pool.exists
    <3>1. OwnBytes(pool) = 0 /\ pool.used_bytes = 0 /\ used2 = PoolBytes
      BY <1>1, <2>3 DEF OwnBytes, PoolPaid
    <3> HIDE DEF sumU, sumM
    <3>2. sumU = 0 BY <1>8, <1>9, <3>1
    <3> QED BY <1>3, <1>6, <1>8, <2>1, <3>1, <3>2
  <2> QED BY <2>2, <2>3
<1>11. new.exists BY <1>6
<1> HIDE DEF pool, sumU, sumM
<1>12. /\ pools' \in [PoolOwners -> PoolType] /\ pools'[p0] = new
       /\ \A p \in PoolOwners \ {p0} : pools'[p] = pools[p]
  BY <1>1, <1>4, <1>6
<1>13. \A p \in PoolOwners : PoolPaid(pools'[p]) /\ Counted(accounts, pools', p)
  BY <1>1, <1>7, <1>10, <1>12 DEF Counted, sumU, sumM
<1>14. \A b \in AccountIds : ShareOK(accounts[b], pools')
  <2> TAKE b \in AccountIds
  <2>1. IsShared(accounts[b]) => accounts[b].shared_storage.pool_id \in PoolOwners
    BY <1>1 DEF IsShared, AccountType, ShareType
  <2> QED BY <1>1, <1>11, <1>12, <2>1 DEF ShareOK
<1> QED BY <1>1, <1>12, <1>13, <1>14 DEF Books

----------------------------------------------------------------------------
(* What an account pays for. *)

(* Releasing bytes costs nothing; an account that grows must be covered.    *)
LEMMA ChargedIsCovered ==
    ASSUME NEW account \in AccountType, NEW ps \in [PoolOwners -> PoolType],
           ShareOK(account, ps), NEW bytes \in Int, account.used_bytes + bytes \in Nat,
           \A p \in PoolOwners : PoolPaid(ps[p]),
           NEW c, c = Charged(account, ps, bytes), bytes > 0 => StorageCovered(c),
           NEW slack \in Nat, NeededBalance(account) <= account.storage_balance + slack
    PROVE  NeededBalance(c) <= c.storage_balance + slack
<1> DEFINE part == PoolPart(account, ps, bytes)
           u == account.shared_storage.used_bytes
           own == account.used_bytes - u
           own2 == c.used_bytes - c.shared_storage.used_bytes
<1>1. /\ c \in AccountType /\ c.storage_balance = account.storage_balance
      /\ c.used_bytes = account.used_bytes + bytes
      /\ c.shared_storage.used_bytes = u + part
      /\ part \in Int
      /\ bytes <= 0 => part >= bytes
  BY ChargedAccount
<1>2. account.used_bytes \in Nat /\ u \in Nat /\ account.storage_balance \in Nat
  BY DEF AccountType, ShareType
<1>3. /\ own \in Int /\ own2 \in Int
      /\ NeededBalance(account) = own * ByteCost /\ NeededBalance(c) = own2 * ByteCost
  BY <1>1, <1>2 DEF NeededBalance
<1> HIDE DEF part, u
<1>4. CASE bytes > 0
  <2>1. own2 * ByteCost <= c.storage_balance BY <1>3, <1>4 DEF StorageCovered
  <2>2. own2 * ByteCost \in Int BY <1>3, Priced
  <2> HIDE DEF own2
  <2> QED BY <1>1, <1>2, <1>3, <2>1, <2>2
<1>5. CASE bytes <= 0
  <2>1. own2 <= own BY <1>1, <1>2, <1>5
  <2> HIDE DEF own, own2
  <2>2. own2 * ByteCost <= own * ByteCost /\ own2 * ByteCost \in Int /\ own * ByteCost \in Int
    BY <1>3, <2>1, Priced
  <2> QED BY <1>1, <1>2, <1>3, <2>2
<1> QED BY <1>4, <1>5

(* The available balance is a part of the balance that no data needs.       *)
LEMMA AvailableIsFree ==
    ASSUME NEW account \in AccountType,
           account.shared_storage.used_bytes <= account.used_bytes,
           NEW slack \in Nat, NeededBalance(account) <= account.storage_balance + slack
    PROVE  /\ AvailableBalance(account) \in Nat
           /\ AvailableBalance(account) <= account.storage_balance
           /\ \A x \in Nat : x <= AvailableBalance(account) =>
                NeededBalance(account) <= (account.storage_balance - x) + slack
<1> DEFINE own == account.used_bytes - account.shared_storage.used_bytes
           needed == own * ByteCost
           bal == account.storage_balance
<1>1. own \in Nat /\ bal \in Nat BY DEF AccountType, ShareType
<1>2. NeededBalance(account) = needed BY DEF NeededBalance
<1> HIDE DEF own
<1>3. needed \in Nat BY <1>1, ByteCostAssumption
<1> HIDE DEF needed
<1>4. AvailableBalance(account) = IF needed <= bal THEN bal - needed ELSE 0
  BY <1>2 DEF AvailableBalance, StorageCovered
<1>5. needed <= bal + slack BY <1>2
<1> HIDE DEF bal
<1> QED BY <1>1, <1>2, <1>3, <1>4, <1>5 DEF bal

(* A deposit covers as much more. *)
LEMMA DepositCovers ==
    ASSUME NEW account \in AccountType, NEW deposit \in Nat, NEW slack \in Nat,
           NEW acc \in AccountType, acc.used_bytes = account.used_bytes,
           acc.shared_storage = account.shared_storage,
           acc.storage_balance = account.storage_balance + deposit,
           NeededBalance(account) <= account.storage_balance + slack
    PROVE  NeededBalance(acc) <= acc.storage_balance + slack
<1>2. NeededBalance(acc) = NeededBalance(account) BY DEF NeededBalance
<1>3. NeededBalance(account) \in Int
  <2> DEFINE own == account.used_bytes - account.shared_storage.used_bytes
  <2>1. own \in Int BY DEF AccountType, ShareType
  <2> HIDE DEF own
  <2>2. own * ByteCost \in Int BY <2>1, Priced
  <2> QED BY <2>2 DEF NeededBalance, own
<1>4. account.storage_balance \in Nat BY DEF AccountType
<1> QED BY <1>2, <1>3, <1>4

(* An account of the current version, with the bytes it takes.              *)
Sound(a, account, st) ==
    /\ account \in AccountType /\ account.version = "Current" /\ st \in Nat
    /\ RecordBytes(account) <= st
    /\ account.used_bytes - st \in Doubled(a)
    /\ NeededBalance(account) <= account.storage_balance + Slack(a)

(* What an AccountV0 may lack is a number of tokens. *)
LEMMA SlackIsNat == \A a : Slack(a) \in Nat
BY ByteCostAssumption DEF Slack

(* internal_get_account: the byte that an AccountV0 lacks is counted.       *)
LEMMA Migrated ==
    ASSUME IInv, NEW a \in AccountIds, Registered(a)
    PROVE  /\ Sound(a, internal_get_account(a), stored[a] + MigratedBytes(a))
           /\ internal_get_account(a).shared_storage = accounts[a].shared_storage
           /\ internal_get_account(a).used_bytes >= accounts[a].used_bytes
           /\ accounts[a].version = "V0" => internal_get_account(a).used_bytes = stored[a] + 1
<1>1. /\ accounts[a] \in AccountType /\ stored[a] \in Nat /\ Honest(a, accounts[a], stored[a])
      /\ ShareOK(accounts[a], pools)
  BY DEF IInv, Books
<1>2. CASE accounts[a].version = "Current"
  <2>1. internal_get_account(a) = accounts[a] /\ MigratedBytes(a) = 0
    BY <1>2 DEF internal_get_account, MigratedBytes
  <2>2. accounts[a].used_bytes \in Nat BY <1>1 DEF AccountType
  <2> QED BY <1>1, <1>2, <2>1, <2>2 DEF Honest, Sound
<1>3. CASE accounts[a].version = "V0"
  <2> DEFINE old == accounts[a]
             acc == [old EXCEPT !.version = "Current", !.used_bytes = old.used_bytes + 1]
  <2>1. internal_get_account(a) = acc /\ MigratedBytes(a) = 1
    BY <1>3 DEF internal_get_account, MigratedBytes
  <2>2. /\ old.used_bytes \in Nat /\ old.storage_balance \in Nat /\ a \in Legacy
        /\ ~IsShared(old) /\ old.used_bytes = AccountBytes - 1 /\ stored[a] = old.used_bytes
        /\ NeededBalance(old) <= old.storage_balance
    BY <1>1, <1>3 DEF AccountType, Honest
  <2>3. /\ acc \in AccountType /\ acc.version = "Current"
        /\ acc.used_bytes = old.used_bytes + 1 /\ acc.shared_storage = old.shared_storage
        /\ acc.storage_balance = old.storage_balance
    <3>1. old \in AccountType /\ old.used_bytes + 1 \in Nat BY <1>1, <2>2
    <3> HIDE DEF old
    <3> QED BY <3>1 DEF AccountType
  <2>4. old.shared_storage = NoShare BY <1>1, <2>2 DEF ShareOK
  <2> HIDE DEF acc, old
  <2>5. RecordBytes(acc) <= stored[a] + 1
    <3>1. RecordBytes(acc) = AccountBytes + 0
      BY <2>2, <2>3 DEF RecordBytes, IsShared
    <3> QED BY <2>2, <3>1, BytesAssumption
  <2>6. acc.used_bytes - (stored[a] + 1) \in Doubled(a)
    <3>1. acc.used_bytes - (stored[a] + 1) = 0 BY <2>2, <2>3
    <3> QED BY <3>1 DEF Doubled
  <2>7. NeededBalance(acc) <= acc.storage_balance + Slack(a)
    <3>1. NeededBalance(old) = old.used_bytes * ByteCost
      BY <2>2, <2>4 DEF NeededBalance, NoShare
    <3>2. NeededBalance(acc) = (old.used_bytes + 1) * ByteCost
      BY <2>2, <2>3, <2>4 DEF NeededBalance, NoShare
    <3>3. /\ (old.used_bytes + 1) * ByteCost = old.used_bytes * ByteCost + ByteCost
          /\ old.used_bytes * ByteCost \in Int /\ ByteCost \in Nat
      BY <2>2, ByteCostAssumption
    <3>4. Slack(a) = ByteCost BY <2>2 DEF Slack
    <3> QED BY <2>2, <2>3, <3>1, <3>2, <3>3, <3>4
  <2>8. stored[a] + 1 \in Nat BY <1>1
  <2>9. Sound(a, acc, stored[a] + 1) BY <2>3, <2>5, <2>6, <2>7, <2>8 DEF Sound
  <2>10. acc.used_bytes >= old.used_bytes /\ acc.used_bytes = stored[a] + 1 BY <2>2, <2>3
  <2> QED BY <2>1, <2>3, <2>9, <2>10 DEF old
<1> QED BY <1>1, <1>2, <1>3 DEF Registered, AccountType

(* An account that is not registered takes nothing and has no share.        *)
LEMMA Unregistered ==
    ASSUME IInv, NEW a \in AccountIds, ~Registered(a)
    PROVE  accounts[a] = NoAccount /\ stored[a] = 0 /\ ~IsShared(accounts[a])
BY DEF IInv, Honest, Registered, NoAccount, NoShare, IsShared

(* A new account is covered by its deposit. *)
LEMMA Created ==
    ASSUME NEW a \in AccountIds, NEW deposit \in Nat, NEW only \in BOOLEAN,
           StorageCovered(CreatedAccount(deposit, only))
    PROVE  /\ Sound(a, CreatedAccount(deposit, only), AccountBytes)
           /\ CreatedAccount(deposit, only).shared_storage = NoShare
           /\ CreatedAccount(deposit, only).used_bytes = AccountBytes
<1> DEFINE acc == CreatedAccount(deposit, only)
           bal == IF only THEN 0 ELSE deposit
<1>1. acc = [version |-> "Current", storage_balance |-> bal, used_bytes |-> AccountBytes,
             shared_storage |-> NoShare]
  <2>1. NewAccount = [version |-> "Current", storage_balance |-> 0, used_bytes |-> 0,
                      shared_storage |-> NoShare]
    BY DEF NewAccount, NoAccount
  <2>2. acc = [NewAccount EXCEPT !.storage_balance = bal, !.used_bytes = AccountBytes]
    BY DEF CreatedAccount
  <2> HIDE DEF bal, acc
  <2> QED BY <2>1, <2>2
<1>2. AccountBytes \in Nat /\ bal \in Nat BY BytesAssumption
<1>3. NoShare \in ShareType /\ NoShare.pool_id = NoPool BY DEF NoShare, ShareType
<1> HIDE DEF bal
<1>4. /\ acc \in AccountType /\ acc.version = "Current" /\ acc.storage_balance = bal
      /\ acc.used_bytes = AccountBytes /\ acc.shared_storage = NoShare
  BY <1>1, <1>2, <1>3 DEF AccountType
<1> HIDE DEF acc
<1>5. RecordBytes(acc) <= AccountBytes
  BY <1>2, <1>3, <1>4 DEF RecordBytes, IsShared
<1>6. acc.used_bytes - AccountBytes \in Doubled(a)
  <2>1. acc.used_bytes - AccountBytes = 0 BY <1>2, <1>4
  <2> QED BY <2>1 DEF Doubled
<1>7. NeededBalance(acc) <= acc.storage_balance + Slack(a)
  <2>1. NeededBalance(acc) <= bal BY <1>4 DEF StorageCovered, acc
  <2>2. NeededBalance(acc) = AccountBytes * ByteCost
    BY <1>2, <1>4 DEF NeededBalance, NoShare
  <2>3. NeededBalance(acc) \in Int BY <1>2, <2>2, Priced
  <2>4. Slack(a) \in Nat BY SlackIsNat
  <2> QED BY <1>2, <1>4, <2>1, <2>3, <2>4
<1> QED BY <1>2, <1>4, <1>5, <1>6, <1>7 DEF Sound, acc

(* internal_unwrap_account_or_create *)
LEMMA FoundOrCreated ==
    ASSUME IInv, NEW a \in AccountIds, NEW deposit \in Nat, CanCreate(a, deposit)
    PROVE  /\ Sound(a, AccountOrCreated(a, deposit), StoredBytes(a))
           /\ AccountOrCreated(a, deposit).shared_storage = accounts[a].shared_storage
           /\ AccountOrCreated(a, deposit).used_bytes >= accounts[a].used_bytes
<1>1. CASE Registered(a)
  <2> DEFINE account == internal_get_account(a)
             acc == [account EXCEPT !.storage_balance = @ + deposit]
  <2>1. AccountOrCreated(a, deposit) = acc /\ StoredBytes(a) = stored[a] + MigratedBytes(a)
    BY <1>1 DEF AccountOrCreated, StoredBytes
  <2>2. /\ Sound(a, account, stored[a] + MigratedBytes(a))
        /\ account.shared_storage = accounts[a].shared_storage
        /\ account.used_bytes >= accounts[a].used_bytes
    BY <1>1, Migrated
  <2>3. Slack(a) \in Nat BY SlackIsNat
  <2> HIDE DEF account
  <2>4. /\ acc \in AccountType /\ acc.version = account.version
        /\ acc.used_bytes = account.used_bytes /\ acc.shared_storage = account.shared_storage
        /\ NeededBalance(acc) <= acc.storage_balance + Slack(a)
    <3>1. account \in AccountType /\ NeededBalance(account) <= account.storage_balance + Slack(a)
      BY <2>2 DEF Sound
    <3>2. /\ acc \in AccountType /\ acc.version = account.version
          /\ acc.used_bytes = account.used_bytes /\ acc.shared_storage = account.shared_storage
          /\ acc.storage_balance = account.storage_balance + deposit
      BY <3>1 DEF AccountType
    <3> HIDE DEF acc
    <3> QED BY <2>3, <3>1, <3>2, DepositCovers
  <2> HIDE DEF acc
  <2>5. RecordBytes(acc) = RecordBytes(account) BY <2>4 DEF RecordBytes, IsShared
  <2> QED BY <2>1, <2>2, <2>4, <2>5 DEF Sound
<1>2. CASE ~Registered(a)
  <2>1. /\ AccountOrCreated(a, deposit) = CreatedAccount(deposit, FALSE)
        /\ StoredBytes(a) = AccountBytes
        /\ StorageCovered(CreatedAccount(deposit, FALSE))
    BY <1>2 DEF AccountOrCreated, StoredBytes, CanCreate
  <2>2. accounts[a] = NoAccount BY <1>2, Unregistered
  <2>3. accounts[a].shared_storage = NoShare /\ accounts[a].used_bytes = 0
    BY <2>2 DEF NoAccount
  <2> DEFINE acc == CreatedAccount(deposit, FALSE)
  <2>4. Sound(a, acc, AccountBytes) /\ acc.shared_storage = NoShare /\ acc.used_bytes = AccountBytes
    BY <2>1, Created
  <2> HIDE DEF acc
  <2>5. acc.used_bytes >= 0 BY <2>4, BytesAssumption
  <2> QED BY <2>1, <2>3, <2>4, <2>5 DEF acc
<1> QED BY <1>1, <1>2

----------------------------------------------------------------------------
(* The steps. *)

(* A call stores account a and leaves books that agree. *)
LEMMA Stored ==
    ASSUME IInv, NEW a \in AccountIds, NEW acc, NEW st, Sound(a, acc, st),
           accounts' = [accounts EXCEPT ![a] = acc], stored' = [stored EXCEPT ![a] = st],
           Books(accounts', pools')
    PROVE  IInv'
<1>1. accounts \in [AccountIds -> AccountType] /\ stored \in [AccountIds -> Nat]
  BY DEF IInv, Books
<1>2. stored' \in [AccountIds -> Nat] BY <1>1 DEF Sound
<1>3. ASSUME NEW b \in AccountIds PROVE Honest(b, accounts'[b], stored'[b])
  <2>1. CASE b = a
    <3>1. accounts'[b] = acc /\ stored'[b] = st BY <1>1, <2>1
    <3> QED BY <2>1, <3>1 DEF Honest, Sound
  <2>2. CASE b # a
    <3>1. accounts'[b] = accounts[b] /\ stored'[b] = stored[b] BY <1>1, <2>2
    <3> QED BY <3>1 DEF IInv
  <2> QED BY <2>1, <2>2
<1> QED BY <1>2, <1>3 DEF IInv

(* internal_set_account of an account whose books agree before its bytes    *)
(* are charged.                                                             *)
LEMMA SetAccount ==
    ASSUME IInv, NEW a \in AccountIds, NEW account \in AccountType, NEW ps,
           Books([accounts EXCEPT ![a] = account], ps), account.version = "Current",
           NEW bytes \in Int, internal_set_account(a, account, ps, bytes),
           NeededBalance(account) <= account.storage_balance + Slack(a),
           NEW st \in Nat, RecordBytes(account) <= st,
           (account.used_bytes + bytes) - st \in Doubled(a),
           stored' = [stored EXCEPT ![a] = st]
    PROVE  IInv'
<1> DEFINE c == Charged(account, ps, bytes)
<1>1. /\ bytes > 0 => StorageCovered(c)
      /\ accounts' = [accounts EXCEPT ![a] = c]
      /\ pools' = ChargedPools(account, ps, bytes)
  BY DEF internal_set_account
<1>2. accounts \in [AccountIds -> AccountType] BY DEF IInv, Books
<1>3. /\ ps \in [PoolOwners -> PoolType] /\ ShareOK(account, ps)
      /\ \A p \in PoolOwners : PoolPaid(ps[p])
  <2>1. [accounts EXCEPT ![a] = account][a] = account BY <1>2
  <2> QED BY <2>1 DEF Books
<1>4. account.used_bytes + bytes \in Nat
  <2>1. account.used_bytes \in Nat BY DEF AccountType
  <2> QED BY <2>1 DEF Doubled
<1>5. Books(accounts', pools') BY <1>1, <1>2, <1>4, ChargeKeepsBooks
<1>6. /\ c \in AccountType /\ c.version = "Current"
      /\ c.used_bytes = account.used_bytes + bytes
      /\ c.shared_storage.pool_id = account.shared_storage.pool_id
  BY <1>3, <1>4, ChargedAccount
<1>7. NeededBalance(c) <= c.storage_balance + Slack(a)
  BY <1>1, <1>3, <1>4, SlackIsNat, ChargedIsCovered
<1> HIDE DEF c
<1>8. RecordBytes(c) = RecordBytes(account) BY <1>6 DEF RecordBytes, IsShared
<1>9. Sound(a, c, st) BY <1>6, <1>7, <1>8 DEF Sound
<1> QED BY <1>1, <1>5, <1>9, Stored

(* The same when its tracker is empty. *)
LEMMA SetUncharged ==
    ASSUME IInv, NEW a \in AccountIds, NEW account, NEW ps,
           Books([accounts EXCEPT ![a] = account], ps),
           internal_set_account(a, account, ps, 0),
           NEW st, Sound(a, account, st), stored' = [stored EXCEPT ![a] = st]
    PROVE  IInv'
<1> DEFINE none == 0
<1>1. none \in Int /\ internal_set_account(a, account, ps, none) OBVIOUS
<1>2. /\ account \in AccountType /\ account.version = "Current" /\ st \in Nat
      /\ RecordBytes(account) <= st
      /\ account.used_bytes - st \in Doubled(a) /\ account.used_bytes \in Nat
      /\ NeededBalance(account) <= account.storage_balance + Slack(a)
  BY DEF Sound, AccountType
<1>3. (account.used_bytes + none) - st = account.used_bytes - st BY <1>2
<1> HIDE DEF none
<1>4. (account.used_bytes + none) - st \in Doubled(a) BY <1>2, <1>3
<1> QED BY <1>1, <1>2, <1>4, SetAccount

(* What account a stores is kept with its own share. *)
LEMMA SoundBooks ==
    ASSUME IInv, NEW a \in AccountIds, NEW account, NEW st, Sound(a, account, st),
           account.shared_storage = accounts[a].shared_storage,
           account.used_bytes >= accounts[a].used_bytes
    PROVE  /\ Books([accounts EXCEPT ![a] = account], pools)
           /\ account.shared_storage.used_bytes <= account.used_bytes
<1>1. /\ Books(accounts, pools) /\ accounts[a] \in AccountType /\ account \in AccountType
      /\ accounts[a].shared_storage.used_bytes <= accounts[a].used_bytes
  BY DEF IInv, Books, ShareOK, Sound
<1>2. account.shared_storage.used_bytes <= account.used_bytes
  BY <1>1 DEF AccountType, ShareType
<1> QED BY <1>1, <1>2, ShareKept

(* A write to an account's data. *)
LEMMA WriteStep ==
    ASSUME IInv, NEW a \in AccountIds, NEW bytes \in Writes, NEW deposit \in Deposits,
           NEW refund \in BOOLEAN, Write(a, bytes, deposit, refund)
    PROVE  IInv'
<1> DEFINE account == AccountOrCreated(a, deposit)
           c == Charged(account, pools, bytes)
           returned == IF refund THEN Least(AvailableBalance(c), deposit) ELSE 0
           acc == [c EXCEPT !.storage_balance = @ - returned]
           ps2 == ChargedPools(account, pools, bytes)
           st == StoredBytes(a) + bytes
<1>1. bytes \in Int /\ deposit \in Nat BY InputsAssumption
<1>2. /\ CanCreate(a, deposit) /\ st >= RecordBytes(account)
      /\ bytes > 0 => StorageCovered(c)
      /\ accounts' = [accounts EXCEPT ![a] = acc] /\ pools' = ps2
      /\ stored' = [stored EXCEPT ![a] = st]
  BY DEF Write, Pay
<1>3. /\ Sound(a, account, StoredBytes(a))
      /\ account.shared_storage = accounts[a].shared_storage
      /\ account.used_bytes >= accounts[a].used_bytes
  BY <1>1, <1>2, FoundOrCreated
<1> HIDE DEF account
<1>4. /\ account \in AccountType /\ account.version = "Current" /\ StoredBytes(a) \in Nat
      /\ account.used_bytes \in Nat
      /\ account.used_bytes - StoredBytes(a) \in Doubled(a)
      /\ NeededBalance(account) <= account.storage_balance + Slack(a)
  BY <1>3 DEF Sound, AccountType
<1>5. RecordBytes(account) \in Nat
  BY <1>4, BytesAssumption DEF RecordBytes, IsShared, AccountType, ShareType
<1>6. st \in Nat /\ account.used_bytes + bytes \in Nat /\ (account.used_bytes + bytes) - st \in Doubled(a)
  BY <1>1, <1>2, <1>4, <1>5 DEF Doubled
<1>7. /\ accounts \in [AccountIds -> AccountType] /\ pools \in [PoolOwners -> PoolType]
      /\ \A p \in PoolOwners : PoolPaid(pools[p])
  BY DEF IInv, Books
<1>8. Books([accounts EXCEPT ![a] = account], pools) BY <1>3, SoundBooks
<1>9. ShareOK(account, pools)
  <2>1. [accounts EXCEPT ![a] = account][a] = account BY <1>7
  <2> QED BY <1>8, <2>1 DEF Books
<1>10. Books([accounts EXCEPT ![a] = c], ps2) BY <1>1, <1>4, <1>6, <1>7, <1>8, ChargeKeepsBooks
<1>11. /\ c \in AccountType /\ c.version = "Current"
       /\ c.used_bytes = account.used_bytes + bytes
       /\ c.shared_storage.pool_id = account.shared_storage.pool_id
       /\ ShareOK(c, pools)
  BY <1>1, <1>4, <1>6, <1>7, <1>9, ChargedAccount
<1>12. NeededBalance(c) <= c.storage_balance + Slack(a)
  BY <1>1, <1>2, <1>4, <1>6, <1>7, <1>9, SlackIsNat, ChargedIsCovered
<1> HIDE DEF c, ps2, st
<1>13. c.shared_storage.used_bytes <= c.used_bytes BY <1>11 DEF ShareOK
<1>14. /\ AvailableBalance(c) \in Nat /\ AvailableBalance(c) <= c.storage_balance
       /\ \A x \in Nat : x <= AvailableBalance(c) =>
            NeededBalance(c) <= (c.storage_balance - x) + Slack(a)
  BY <1>11, <1>12, <1>13, SlackIsNat, AvailableIsFree
<1>15. returned \in Nat /\ returned <= AvailableBalance(c) BY <1>1, <1>14 DEF Least
<1> HIDE DEF returned
<1>16. c.storage_balance \in Nat BY <1>11 DEF AccountType
<1>17. c.storage_balance - returned \in Nat BY <1>14, <1>15, <1>16
<1>18. /\ acc \in AccountType /\ acc.version = "Current" /\ acc.used_bytes = c.used_bytes
       /\ acc.shared_storage = c.shared_storage
       /\ acc.storage_balance = c.storage_balance - returned
  BY <1>11, <1>17 DEF AccountType
<1> HIDE DEF acc
<1>19. NeededBalance(acc) = NeededBalance(c) BY <1>18 DEF NeededBalance
<1>20. NeededBalance(acc) <= acc.storage_balance + Slack(a) BY <1>14, <1>15, <1>18, <1>19
<1>21. RecordBytes(acc) = RecordBytes(account) BY <1>11, <1>18 DEF RecordBytes, IsShared
<1>22. Sound(a, acc, st) BY <1>2, <1>6, <1>11, <1>18, <1>20, <1>21 DEF Sound
<1>23. Books([accounts EXCEPT ![a] = acc], ps2)
  <2> DEFINE accs == [accounts EXCEPT ![a] = c]
  <2>1. accs[a] = c /\ [accs EXCEPT ![a] = acc] = [accounts EXCEPT ![a] = acc] BY <1>7
  <2> HIDE DEF accs
  <2>2. Books(accs, ps2) BY <1>10 DEF accs
  <2>3. Books([accs EXCEPT ![a] = acc], ps2) BY <1>13, <1>18, <2>1, <2>2, ShareKept
  <2> QED BY <2>1, <2>3
<1> QED BY <1>2, <1>22, <1>23, Stored

(* storage_deposit. *)
LEMMA DepositStep ==
    ASSUME IInv, NEW a \in AccountIds, NEW only \in BOOLEAN, NEW deposit \in Deposits,
           storage_deposit(a, only, deposit)
    PROVE  IInv'
<1>1. deposit \in Nat BY InputsAssumption
<1>2. stored' = [stored EXCEPT ![a] = StoredBytes(a)] BY DEF storage_deposit, PayDeposit
<1>3. CASE Registered(a)
  <2> DEFINE account == AccountOrCreated(a, deposit)
  <2>1. internal_set_account(a, account, pools, 0) BY <1>3 DEF storage_deposit, PayDeposit
  <2>2. CanCreate(a, deposit) BY <1>3 DEF CanCreate
  <2>3. /\ Sound(a, account, StoredBytes(a))
        /\ account.shared_storage = accounts[a].shared_storage
        /\ account.used_bytes >= accounts[a].used_bytes
    BY <1>1, <2>2, FoundOrCreated
  <2> HIDE DEF account
  <2>4. Books([accounts EXCEPT ![a] = account], pools) BY <2>3, SoundBooks
  <2> QED BY <1>2, <2>1, <2>3, <2>4, SetUncharged
<1>4. CASE ~Registered(a)
  <2> DEFINE acc == CreatedAccount(deposit, only)
  <2>1. /\ StorageCovered(acc) /\ accounts' = [accounts EXCEPT ![a] = acc] /\ pools' = pools
    BY <1>4 DEF storage_deposit, PayDeposit
  <2>2. StoredBytes(a) = AccountBytes BY <1>4 DEF StoredBytes
  <2>3. Sound(a, acc, AccountBytes) /\ acc.shared_storage = NoShare /\ acc.used_bytes = AccountBytes
    BY <1>1, <2>1, Created
  <2> HIDE DEF acc
  <2>4. accounts[a].shared_storage = NoShare /\ accounts[a].used_bytes = 0
    BY <1>4, Unregistered DEF NoAccount
  <2>5. acc.used_bytes >= accounts[a].used_bytes BY <2>3, <2>4, BytesAssumption
  <2>6. Books([accounts EXCEPT ![a] = acc], pools) BY <2>3, <2>4, <2>5, SoundBooks
  <2> QED BY <1>2, <2>1, <2>2, <2>3, <2>6, Stored
<1> QED BY <1>3, <1>4

(* storage_withdraw. *)
LEMMA WithdrawStep ==
    ASSUME IInv, NEW a \in AccountIds, NEW amount \in Int, storage_withdraw(a, amount)
    PROVE  IInv'
<1> DEFINE account == internal_get_account(a)
           acc == [account EXCEPT !.storage_balance = @ - amount]
           st == stored[a] + MigratedBytes(a)
<1>1. /\ Registered(a) /\ amount > 0 /\ amount <= AvailableBalance(account)
      /\ internal_set_account(a, acc, pools, 0)
      /\ stored' = [stored EXCEPT ![a] = st]
  BY DEF storage_withdraw, StoredBytes
<1>2. /\ Sound(a, account, st) /\ account.shared_storage = accounts[a].shared_storage
      /\ account.used_bytes >= accounts[a].used_bytes
  BY <1>1, Migrated
<1> HIDE DEF account, st
<1>3. /\ account \in AccountType /\ account.version = "Current" /\ st \in Nat
      /\ account.used_bytes \in Nat /\ account.storage_balance \in Nat
      /\ RecordBytes(account) <= st /\ account.used_bytes - st \in Doubled(a)
      /\ NeededBalance(account) <= account.storage_balance + Slack(a)
  BY <1>2 DEF Sound, AccountType
<1>4. account.shared_storage.used_bytes <= account.used_bytes BY <1>2, SoundBooks
<1>5. /\ AvailableBalance(account) \in Nat /\ AvailableBalance(account) <= account.storage_balance
      /\ \A x \in Nat : x <= AvailableBalance(account) =>
            NeededBalance(account) <= (account.storage_balance - x) + Slack(a)
  BY <1>3, <1>4, SlackIsNat, AvailableIsFree
<1>6. amount \in Nat /\ account.storage_balance - amount \in Nat BY <1>1, <1>3, <1>5
<1>7. /\ acc \in AccountType /\ acc.version = "Current" /\ acc.used_bytes = account.used_bytes
      /\ acc.shared_storage = account.shared_storage
      /\ acc.storage_balance = account.storage_balance - amount
  BY <1>3, <1>6 DEF AccountType
<1> HIDE DEF acc
<1>8. NeededBalance(acc) = NeededBalance(account) BY <1>7 DEF NeededBalance
<1>9. NeededBalance(acc) <= acc.storage_balance + Slack(a) BY <1>1, <1>5, <1>6, <1>7, <1>8
<1>10. RecordBytes(acc) = RecordBytes(account) BY <1>7 DEF RecordBytes, IsShared
<1>11. Sound(a, acc, st) BY <1>3, <1>7, <1>9, <1>10 DEF Sound
<1>12. Books([accounts EXCEPT ![a] = acc], pools) BY <1>2, <1>7, <1>11, SoundBooks
<1> QED BY <1>1, <1>11, <1>12, SetUncharged

(* share_storage for an account that does not exist. *)
LEMMA ShareNewStep ==
    ASSUME IInv, NEW a \in AccountIds, NEW p0 \in PoolOwners, NEW m \in Nat,
           share_storage_new(p0, a, m)
    PROVE  IInv'
<1> DEFINE bytes == AccountBytes + ShareBytes[p0]
           acc == [NewAccount EXCEPT !.shared_storage = Share(p0, m, 0)]
           ps == [pools EXCEPT ![p0].shared_bytes = @ + m]
<1>1. /\ ~Registered(a) /\ pools[p0].exists
      /\ internal_set_account(a, acc, ps, bytes)
      /\ stored' = [stored EXCEPT ![a] = bytes]
  BY DEF share_storage_new, CanShare
<1>2. bytes \in Nat /\ p0 # NoPool BY BytesAssumption, NoPoolAssumption
<1>3. /\ acc = [version |-> "Current", storage_balance |-> 0, used_bytes |-> 0,
                shared_storage |-> Share(p0, m, 0)]
      /\ Share(p0, m, 0) \in ShareType
      /\ Share(p0, m, 0).pool_id = p0 /\ Share(p0, m, 0).used_bytes = 0
  <2>1. NewAccount = [version |-> "Current", storage_balance |-> 0, used_bytes |-> 0,
                      shared_storage |-> NoShare]
    BY DEF NewAccount, NoAccount
  <2>2. /\ Share(p0, m, 0) \in ShareType
        /\ Share(p0, m, 0).pool_id = p0 /\ Share(p0, m, 0).used_bytes = 0
    BY DEF Share, ShareType
  <2> QED BY <2>1, <2>2
<1>4. /\ acc \in AccountType /\ acc.version = "Current" /\ acc.storage_balance = 0
      /\ acc.used_bytes = 0 /\ acc.shared_storage = Share(p0, m, 0)
      /\ acc.shared_storage.pool_id = p0 /\ acc.shared_storage.used_bytes = 0
  BY <1>3 DEF AccountType
<1> HIDE DEF acc
<1>5. ~IsShared(accounts[a]) BY <1>1, Unregistered
<1>6. Books([accounts EXCEPT ![a] = acc], ps)
  <2>1. Books(accounts, pools) BY DEF IInv
  <2> QED BY <1>1, <1>4, <1>5, <2>1, ShareTaken
<1>7. RecordBytes(acc) = bytes BY <1>2, <1>4 DEF RecordBytes, IsShared
<1>8. NeededBalance(acc) <= acc.storage_balance + Slack(a)
  <2>1. NeededBalance(acc) = 0 BY <1>4, ByteCostAssumption DEF NeededBalance
  <2> QED BY <1>4, <2>1, SlackIsNat
<1> HIDE DEF bytes, ps
<1>9. (acc.used_bytes + bytes) - bytes \in Doubled(a)
  <2>1. (acc.used_bytes + bytes) - bytes = 0 BY <1>2, <1>4
  <2> QED BY <2>1 DEF Doubled
<1>10. RecordBytes(acc) <= bytes /\ bytes \in Int BY <1>2, <1>7
<1> QED BY <1>1, <1>2, <1>4, <1>6, <1>8, <1>9, <1>10, SetAccount

(* share_storage for an account that uses no shared storage. *)
LEMMA ShareFirstStep ==
    ASSUME IInv, NEW a \in AccountIds, NEW p0 \in PoolOwners, NEW m \in Nat,
           share_storage_first(p0, a, m)
    PROVE  IInv'
<1> DEFINE bytes == ShareBytes[p0] + MigratedBytes(a)
           account == internal_get_account(a)
           acc == [account EXCEPT !.shared_storage = Share(p0, m, 0)]
           ps == [pools EXCEPT ![p0].shared_bytes = @ + m]
           st == stored[a] + bytes
<1>1. /\ Registered(a) /\ ~IsShared(accounts[a]) /\ pools[p0].exists
      /\ internal_set_account(a, acc, ps, bytes)
      /\ stored' = [stored EXCEPT ![a] = st]
  BY DEF share_storage_first, CanShare
<1>2. /\ ShareBytes[p0] \in Nat /\ MigratedBytes(a) \in {0, 1} /\ stored[a] \in Nat
      /\ AccountBytes \in Nat /\ p0 # NoPool
  BY BytesAssumption, NoPoolAssumption DEF MigratedBytes, IInv
<1>3. /\ Sound(a, account, stored[a] + MigratedBytes(a))
      /\ account.shared_storage = accounts[a].shared_storage
      /\ accounts[a].version = "V0" => account.used_bytes = stored[a] + 1
  BY <1>1, Migrated
<1>4. accounts[a].version = "V0" => a \in Legacy BY DEF IInv, Honest
<1>5. MigratedBytes(a) = 1 => accounts[a].version = "V0" BY DEF MigratedBytes
<1> HIDE DEF account
<1>6. /\ account \in AccountType /\ account.version = "Current" /\ account.used_bytes \in Nat
      /\ RecordBytes(account) <= stored[a] + MigratedBytes(a)
      /\ account.used_bytes - (stored[a] + MigratedBytes(a)) \in Doubled(a)
      /\ NeededBalance(account) <= account.storage_balance + Slack(a)
  BY <1>3 DEF Sound, AccountType
<1>7. account.shared_storage = NoShare /\ ~IsShared(account)
  BY <1>1, <1>3 DEF IInv, Books, ShareOK, IsShared
<1>8. /\ acc \in AccountType /\ acc.version = "Current" /\ acc.used_bytes = account.used_bytes
      /\ acc.shared_storage = Share(p0, m, 0) /\ acc.storage_balance = account.storage_balance
  <2>1. Share(p0, m, 0) \in ShareType BY DEF Share, ShareType
  <2> QED BY <1>6, <2>1 DEF AccountType
<1>9. acc.shared_storage.pool_id = p0 /\ acc.shared_storage.used_bytes = 0 BY <1>8 DEF Share
<1> HIDE DEF acc
<1>10. Books([accounts EXCEPT ![a] = acc], ps)
  <2>1. Books(accounts, pools) BY DEF IInv
  <2> QED BY <1>1, <1>8, <2>1, ShareTaken
<1>11. NeededBalance(acc) = NeededBalance(account)
  BY <1>7, <1>8, <1>9 DEF NeededBalance, NoShare
<1>12. st \in Nat /\ bytes \in Int /\ RecordBytes(acc) <= st
  <2>1. RecordBytes(account) = AccountBytes + 0 BY <1>7 DEF RecordBytes
  <2>2. RecordBytes(acc) = AccountBytes + ShareBytes[p0]
    BY <1>2, <1>9 DEF RecordBytes, IsShared
  <2>3. MigratedBytes(a) \in Nat BY <1>2
  <2> HIDE DEF account
  <2> QED BY <1>2, <1>6, <2>1, <2>2, <2>3
<1>13. (acc.used_bytes + bytes) - st \in Doubled(a)
  <2>1. CASE MigratedBytes(a) = 0
    <3>1. (acc.used_bytes + bytes) - st = account.used_bytes - (stored[a] + MigratedBytes(a))
      BY <1>2, <1>6, <1>8, <2>1
    <3> QED BY <1>6, <3>1
  <2>2. CASE MigratedBytes(a) = 1
    <3>1. account.used_bytes = stored[a] + 1 /\ a \in Legacy BY <1>3, <1>4, <1>5, <2>2
    <3>2. (acc.used_bytes + bytes) - st = 1 BY <1>2, <1>6, <1>8, <2>2, <3>1
    <3> QED BY <3>1, <3>2 DEF Doubled
  <2> QED BY <1>2, <2>1, <2>2
<1>14. NeededBalance(acc) <= acc.storage_balance + Slack(a) BY <1>6, <1>8, <1>11
<1> HIDE DEF bytes, ps, st
<1> QED BY <1>1, <1>8, <1>10, <1>12, <1>13, <1>14, SetAccount

(* An account that uses a pool is of the current version. *)
LEMMA SharersAreSound ==
    ASSUME IInv, NEW a \in AccountIds, IsShared(accounts[a])
    PROVE  /\ Sound(a, accounts[a], stored[a])
           /\ accounts[a].shared_storage.pool_id \in PoolOwners
           /\ accounts[a].shared_storage \in ShareType
           /\ accounts[a].shared_storage.used_bytes <= accounts[a].used_bytes
<1>1. /\ accounts[a] \in AccountType /\ stored[a] \in Nat /\ Honest(a, accounts[a], stored[a])
      /\ ShareOK(accounts[a], pools)
  BY DEF IInv, Books
<1>2. accounts[a].version # "V0" BY <1>1 DEF Honest
<1>3. accounts[a].version # "None"
  BY <1>1 DEF Honest, IsShared, NoAccount, NoShare
<1>4. accounts[a].version = "Current" BY <1>1, <1>2, <1>3 DEF AccountType
<1>5. Sound(a, accounts[a], stored[a]) BY <1>1, <1>4 DEF Honest, Sound
<1>6. accounts[a].shared_storage \in ShareType BY <1>1 DEF AccountType
<1> QED BY <1>1, <1>5, <1>6 DEF IsShared, ShareType, ShareOK

(* share_storage by the pool that the account uses. *)
LEMMA ShareMoreStep ==
    ASSUME IInv, NEW a \in AccountIds, NEW p0 \in PoolOwners, NEW m \in Nat,
           share_storage_more(p0, a, m)
    PROVE  IInv'
<1> DEFINE account == accounts[a]
           old == account.shared_storage.max_bytes
           u == account.shared_storage.used_bytes
           acc == [account EXCEPT !.shared_storage.max_bytes = m]
           ps == [pools EXCEPT ![p0].shared_bytes = @ + m - old]
<1>1. /\ account.shared_storage.pool_id = p0 /\ m >= u /\ m > old
      /\ internal_set_account(a, acc, ps, 0)
      /\ stored' = stored
  BY DEF share_storage_more
<1>2. IsShared(account) BY <1>1, NoPoolAssumption DEF IsShared
<1>3. /\ Sound(a, account, stored[a]) /\ account.shared_storage \in ShareType
      /\ account \in AccountType
  BY <1>2, SharersAreSound DEF Sound
<1>4. acc = [account EXCEPT !.shared_storage = Share(p0, m, u)]
  <2>1. [account.shared_storage EXCEPT !.max_bytes = m] = Share(p0, m, u)
    BY <1>1, <1>3 DEF ShareType, Share
  <2> QED BY <1>3, <2>1 DEF AccountType
<1>5. /\ acc \in AccountType /\ acc.version = account.version
      /\ acc.used_bytes = account.used_bytes /\ acc.storage_balance = account.storage_balance
      /\ acc.shared_storage = Share(p0, m, u)
  <2>1. u \in Nat BY <1>3 DEF ShareType
  <2>2. Share(p0, m, u) \in ShareType BY <2>1 DEF Share, ShareType
  <2> QED BY <1>3, <1>4, <2>2 DEF AccountType
<1> HIDE DEF acc
<1>6. acc.shared_storage.pool_id = p0 /\ acc.shared_storage.used_bytes = u
  BY <1>5 DEF Share
<1>7. Books([accounts EXCEPT ![a] = acc], ps)
  <2>1. Books(accounts, pools) BY DEF IInv
  <2> QED BY <1>1, <1>5, <2>1, ShareGrown
<1>8. Sound(a, acc, stored[a])
  <2>1. RecordBytes(acc) = RecordBytes(account) BY <1>1, <1>6 DEF RecordBytes, IsShared
  <2>2. NeededBalance(acc) = NeededBalance(account) BY <1>5, <1>6 DEF NeededBalance
  <2> HIDE DEF account
  <2> QED BY <1>3, <1>5, <2>1, <2>2 DEF Sound
<1>9. stored' = [stored EXCEPT ![a] = stored[a]] BY <1>1 DEF IInv
<1> QED BY <1>1, <1>7, <1>8, <1>9, SetUncharged

(* share_storage by another pool. *)
LEMMA ShareOtherStep ==
    ASSUME IInv, NEW a \in AccountIds, NEW p2 \in PoolOwners, NEW m \in Nat,
           share_storage_other(p2, a, m)
    PROVE  IInv'
<1> DEFINE account == accounts[a]
           current == account.shared_storage
           p1 == current.pool_id
           u == current.used_bytes
           bytes == ShareBytes[p2] - ShareBytes[p1]
           acc == [account EXCEPT !.shared_storage = Share(p2, m, u)]
           ps == MovedPools(p2, current, m)
           st == stored[a] + bytes
           d == pools[p2].storage_balance \div ByteCost
<1>1. /\ p1 # p2 /\ p1 # NoPool /\ m >= u /\ pools[p2].exists
      /\ available_bytes(Share(p2, m, 0), pools[p2]) >=
            u + available_bytes(current, pools[p1]) + MinStorageBytes
      /\ internal_set_account(a, acc, ps, bytes)
      /\ stored' = [stored EXCEPT ![a] = st]
  BY DEF share_storage_other, CanShare
<1>2. IsShared(account) BY <1>1 DEF IsShared
<1>3. /\ Sound(a, account, stored[a]) /\ current \in ShareType /\ p1 \in PoolOwners
      /\ account \in AccountType /\ u \in Nat
  BY <1>2, SharersAreSound DEF Sound, ShareType
<1>4. /\ ShareBytes[p1] \in Nat /\ ShareBytes[p2] \in Nat /\ AccountBytes \in Nat
      /\ MinStorageBytes \in Nat /\ p2 # NoPool
  BY <1>3, BytesAssumption, NoPoolAssumption
<1>5. Books(accounts, pools) BY DEF IInv
<1>6. available_bytes(current, pools[p1]) \in Nat BY <1>3, <1>5, UsedIsCounted
<1>7. pools[p2].used_bytes + u <= d
  <2>1. available_bytes(Share(p2, m, 0), pools[p2]) = Least(m - 0, d - pools[p2].used_bytes)
    BY DEF available_bytes, pool_available_bytes, Share
  <2>2. /\ pools[p2].used_bytes \in Nat /\ pools[p2].storage_balance \in Nat
        /\ pools[p2].used_bytes * ByteCost <= pools[p2].storage_balance
    BY <1>5 DEF Books, PoolType, PoolPaid
  <2>3. d \in Nat BY <2>2, Affordable
  <2> HIDE DEF d, u
  <2> QED BY <1>1, <1>3, <1>4, <1>6, <2>1, <2>2, <2>3 DEF Least
<1>8. /\ acc \in AccountType /\ acc.version = "Current"
      /\ acc.used_bytes = account.used_bytes /\ acc.storage_balance = account.storage_balance
      /\ acc.shared_storage = Share(p2, m, u)
  <2>1. Share(p2, m, u) \in ShareType BY <1>3 DEF Share, ShareType
  <2> QED BY <1>3, <2>1 DEF AccountType, Sound
<1> HIDE DEF acc
<1>9. acc.shared_storage.pool_id = p2 /\ acc.shared_storage.used_bytes = u BY <1>8 DEF Share
<1>10. Books([accounts EXCEPT ![a] = acc], ps)
  BY <1>1, <1>3, <1>5, <1>7, <1>8, ShareMoved
<1>11. /\ stored[a] \in Nat /\ account.used_bytes \in Nat
       /\ RecordBytes(account) = AccountBytes + ShareBytes[p1]
       /\ RecordBytes(account) <= stored[a]
       /\ account.used_bytes - stored[a] \in Doubled(a)
       /\ NeededBalance(account) <= account.storage_balance + Slack(a)
  BY <1>2, <1>3 DEF Sound, RecordBytes, AccountType
<1>12. RecordBytes(acc) = AccountBytes + ShareBytes[p2]
  BY <1>4, <1>9 DEF RecordBytes, IsShared
<1>13. NeededBalance(acc) <= acc.storage_balance + Slack(a)
  <2>1. NeededBalance(acc) = NeededBalance(account) BY <1>8, <1>9 DEF NeededBalance
  <2> QED BY <1>8, <1>11, <2>1
<1> HIDE DEF account, ps, current, p1
<1>14. st \in Nat /\ bytes \in Int /\ RecordBytes(acc) <= st
  BY <1>4, <1>11, <1>12
<1>15. (acc.used_bytes + bytes) - st \in Doubled(a)
  <2>1. (acc.used_bytes + bytes) - st = account.used_bytes - stored[a]
    BY <1>4, <1>8, <1>11
  <2> QED BY <1>11, <2>1
<1> HIDE DEF bytes, st
<1> QED BY <1>1, <1>8, <1>10, <1>13, <1>14, <1>15, SetAccount

(* Init: only accounts of an earlier version take anything. *)
LEMMA InitStep == Init => IInv
<1> SUFFICES ASSUME Init PROVE IInv OBVIOUS
<1> DEFINE v0 == [NoAccount EXCEPT !.version = "V0",
                                   !.storage_balance = (AccountBytes - 1) * ByteCost,
                                   !.used_bytes = AccountBytes - 1]
           cost == (AccountBytes - 1) * ByteCost
<1>1. /\ AccountBytes - 1 \in Nat /\ cost \in Nat /\ AccountBytes \in Nat
  BY BytesAssumption, ByteCostAssumption
<1>2. /\ NoShare \in ShareType /\ NoShare.pool_id = NoPool /\ NoShare.used_bytes = 0
      /\ NoShare.max_bytes = 0
  BY DEF NoShare, ShareType
<1>3. /\ NoAccount \in AccountType /\ NoAccount.version = "None"
      /\ NoAccount.shared_storage = NoShare /\ NoAccount.used_bytes = 0
  BY <1>2 DEF NoAccount, AccountType
<1>4. /\ v0 \in AccountType /\ v0.version = "V0" /\ v0.shared_storage = NoShare
      /\ v0.used_bytes = AccountBytes - 1 /\ v0.storage_balance = cost
  <2>1. v0 = [NoAccount EXCEPT !.version = "V0", !.storage_balance = cost,
                               !.used_bytes = AccountBytes - 1]
    OBVIOUS
  <2> HIDE DEF cost, v0
  <2> QED BY <1>1, <1>3, <2>1 DEF AccountType
<1>5. /\ accounts = [a \in AccountIds |->
                        IF a \in Legacy /\ status = "Live" THEN v0 ELSE NoAccount]
      /\ pools = [p \in PoolOwners |-> NoSharedPool]
      /\ stored = [a \in AccountIds |-> accounts[a].used_bytes]
  BY DEF Init
<1> HIDE DEF v0
<1>6. /\ accounts \in [AccountIds -> AccountType]
      /\ \A a \in AccountIds : accounts[a] = NoAccount \/ (accounts[a] = v0 /\ a \in Legacy)
      /\ \A a \in AccountIds : accounts[a].shared_storage = NoShare
  BY <1>3, <1>4, <1>5
<1>7. /\ NoSharedPool \in PoolType /\ NoSharedPool.used_bytes = 0 /\ ~NoSharedPool.exists
      /\ NoSharedPool.shared_bytes = 0 /\ NoSharedPool.storage_balance = 0
  BY DEF NoSharedPool, PoolType
<1>8. pools \in [PoolOwners -> PoolType] /\ \A p \in PoolOwners : pools[p] = NoSharedPool
  BY <1>5, <1>7
<1>9. \A a \in AccountIds : ShareOK(accounts[a], pools)
  <2> TAKE a \in AccountIds
  <2>1. accounts[a].used_bytes \in Nat BY <1>6 DEF AccountType
  <2> QED BY <1>2, <1>6, <2>1 DEF ShareOK, IsShared
<1>10. ASSUME NEW p \in PoolOwners PROVE PoolPaid(pools[p]) /\ Counted(accounts, pools, p)
  <2> DEFINE f == [a \in AccountIds |-> UsedOf(accounts[a], p)]
             g == [a \in AccountIds |-> ShareOf(accounts[a], p)]
  <2>1. \A a \in AccountIds : f[a] = 0 /\ g[a] = 0
    BY <1>2, <1>6 DEF UsedOf, ShareOf
  <2> HIDE DEF f, g
  <2>2. SumOver(f, AccountIds) = 0 /\ SumOver(g, AccountIds) = 0
    BY <2>1, SumOfZeros, AccountIdsAssumption
  <2>3. OwnBytes(pools[p]) = 0 BY <1>7, <1>8 DEF OwnBytes
  <2>4. PoolPaid(pools[p]) BY <1>7, <1>8, ByteCostAssumption DEF PoolPaid
  <2>5. pools[p].used_bytes = OwnBytes(pools[p]) + SumOver(f, AccountIds) BY <1>7, <1>8, <2>2, <2>3
  <2>6. pools[p].shared_bytes = SumOver(g, AccountIds) BY <1>7, <1>8, <2>2
  <2> QED BY <2>4, <2>5, <2>6 DEF Counted, f, g
<1>11. Books(accounts, pools) BY <1>6, <1>8, <1>9, <1>10 DEF Books
<1>12. stored \in [AccountIds -> Nat] /\ \A a \in AccountIds : stored[a] = accounts[a].used_bytes
  BY <1>5, <1>6 DEF AccountType
<1>13. ASSUME NEW a \in AccountIds PROVE Honest(a, accounts[a], stored[a])
  <2>1. CASE accounts[a] = NoAccount
    BY <1>3, <1>12, <2>1 DEF Honest
  <2>2. CASE accounts[a] = v0 /\ a \in Legacy
    <3>1. NeededBalance(v0) = cost BY <1>1, <1>2, <1>4 DEF NeededBalance
    <3>2. ~IsShared(v0) BY <1>2, <1>4 DEF IsShared
    <3> HIDE DEF cost
    <3> QED BY <1>1, <1>4, <1>12, <2>2, <3>1, <3>2 DEF Honest
  <2> QED BY <1>6, <2>1, <2>2
<1> QED BY <1>11, <1>12, <1>13 DEF IInv

(* No step breaks the invariant. *)
LEMMA NextStep == IInv /\ [StorageNext]_vars => IInv'
<1> SUFFICES ASSUME IInv, [StorageNext]_vars PROVE IInv' OBVIOUS
<1>0. /\ \A a \in AccountIds : AvailableBalance(internal_get_account(a)) \in Int
                                \/ ~Registered(a)
  <2> SUFFICES ASSUME NEW a \in AccountIds, Registered(a)
               PROVE  AvailableBalance(internal_get_account(a)) \in Int
    OBVIOUS
  <2> DEFINE account == internal_get_account(a)
  <2>1. /\ Sound(a, account, stored[a] + MigratedBytes(a))
        /\ account.shared_storage = accounts[a].shared_storage
        /\ account.used_bytes >= accounts[a].used_bytes
    BY Migrated
  <2> HIDE DEF account
  <2>2. account.shared_storage.used_bytes <= account.used_bytes BY <2>1, SoundBooks
  <2>3. account \in AccountType /\ NeededBalance(account) <= account.storage_balance + Slack(a)
    BY <2>1 DEF Sound
  <2>4. AvailableBalance(account) \in Nat BY <2>2, <2>3, SlackIsNat, AvailableIsFree
  <2> QED BY <2>4 DEF account
<1>1. CASE \E new_status \in {"Genesis", "Live", "ReadOnly"} : set_status(new_status)
  BY <1>1 DEF set_status, IInv
<1>2. ASSUME NEW a \in AccountIds, NEW deposit \in Deposits, NEW only \in BOOLEAN,
             storage_deposit(a, only, deposit)
      PROVE  IInv'
  BY <1>2, DepositStep
<1>3. ASSUME NEW a \in AccountIds, NEW deposit \in Deposits, NEW bytes \in Writes,
             NEW refund \in BOOLEAN, WriteData(a, bytes, deposit, refund)
      PROVE  IInv'
  BY <1>3, WriteStep DEF WriteData
<1>4. ASSUME NEW a \in AccountIds, NEW deposit \in Deposits, NEW bytes \in Writes,
             WritePermission(a, bytes, deposit)
      PROVE  IInv'
  <2>1. Write(a, bytes, deposit, FALSE) BY <1>4 DEF WritePermission
  <2> QED BY <2>1, WriteStep
<1>5. ASSUME NEW a \in AccountIds,
             NEW amount \in Deposits \cup {AvailableBalance(internal_get_account(a))},
             storage_withdraw(a, amount)
      PROVE  IInv'
  <2>1. Registered(a) BY <1>5 DEF storage_withdraw
  <2>2. amount \in Int BY <1>0, <2>1, InputsAssumption
  <2> QED BY <1>5, <2>2, WithdrawStep
<1>6. ASSUME NEW p \in PoolOwners, NEW deposit \in Deposits, shared_storage_pool_deposit(p, deposit)
      PROVE  IInv'
  <2>1. Books(accounts, pools') BY <1>6, PoolFunded DEF IInv
  <2>2. accounts' = accounts /\ stored' = stored BY <1>6 DEF shared_storage_pool_deposit
  <2> QED BY <2>1, <2>2 DEF IInv
<1>7. ASSUME NEW p \in PoolOwners, NEW a \in AccountIds, NEW m \in MaxBytesChoices,
             share_storage(p, a, m)
      PROVE  IInv'
  <2>1. m \in Nat BY InputsAssumption
  <2> QED
    BY <1>7, <2>1, ShareNewStep, ShareFirstStep, ShareMoreStep, ShareOtherStep DEF share_storage
<1>8. CASE UNCHANGED vars BY <1>8 DEF vars, IInv
<1> QED BY <1>1, <1>2, <1>3, <1>4, <1>5, <1>6, <1>7, <1>8 DEF StorageNext

(* The invariant holds in every reachable state. *)
LEMMA Inductive == Spec => []IInv
<1> QED BY InitStep, NextStep, PTL DEF Spec

----------------------------------------------------------------------------
(* The theorems. *)

(* What is used of a pool is paid for, and no account takes more of it than *)
(* its share or than its data: no unsigned subtraction of the accounting    *)
(* underflows, whoever writes, shares, moves to another pool and withdraws. *)
THEOREM PoolsAlwaysCoverShares == Spec => []PoolsCoverShares
<1>1. IInv => PoolsCoverShares
  <2> SUFFICES ASSUME IInv PROVE PoolsCoverShares OBVIOUS
  <2>1. \A p \in PoolOwners : pools[p].used_bytes * ByteCost <= pools[p].storage_balance
    BY DEF IInv, Books, PoolPaid
  <2>2. ASSUME NEW a \in AccountIds
        PROVE  /\ accounts[a].shared_storage.used_bytes
                    \in 0 .. accounts[a].shared_storage.max_bytes
               /\ ShareOK(accounts[a], pools)
    <3>1. accounts[a] \in AccountType /\ ShareOK(accounts[a], pools) BY DEF IInv, Books
    <3> QED BY <3>1 DEF AccountType, ShareType, ShareOK
  <2> QED BY <2>1, <2>2 DEF PoolsCoverShares, ShareOK
<1> QED BY <1>1, Inductive, PTL

(* The bytes of every account are paid for by its balance and its pool,     *)
(* whatever is written, released, shared and withdrawn.                     *)
THEOREM AccountsAreAlwaysCovered == Spec => []AccountsAreCovered
<1>1. IInv => AccountsAreCovered
  <2> SUFFICES ASSUME IInv, NEW a \in AccountIds
               PROVE  NeededBalance(accounts[a]) <=
                        accounts[a].storage_balance + (IF a \in Legacy THEN ByteCost ELSE 0)
    BY DEF AccountsAreCovered
  <2>1. accounts[a] \in AccountType /\ Honest(a, accounts[a], stored[a]) BY DEF IInv, Books
  <2>2. CASE accounts[a].version = "Current" BY <2>1, <2>2 DEF Honest, Slack
  <2>3. CASE accounts[a].version = "V0"
    <3>1. a \in Legacy /\ NeededBalance(accounts[a]) <= accounts[a].storage_balance
      BY <2>1, <2>3 DEF Honest
    <3>2. NeededBalance(accounts[a]) \in Int
      <4> DEFINE own == accounts[a].used_bytes - accounts[a].shared_storage.used_bytes
      <4>1. own \in Int BY <2>1 DEF AccountType, ShareType
      <4> HIDE DEF own
      <4>2. own * ByteCost \in Int BY <4>1, Priced
      <4> QED BY <4>2 DEF NeededBalance, own
    <3>3. accounts[a].storage_balance \in Nat BY <2>1 DEF AccountType
    <3> QED BY <3>1, <3>2, <3>3, ByteCostAssumption
  <2>4. CASE accounts[a].version = "None"
    <3>1. accounts[a] = NoAccount BY <2>1, <2>4 DEF Honest
    <3>2. /\ accounts[a].used_bytes = 0 /\ accounts[a].shared_storage.used_bytes = 0
          /\ accounts[a].storage_balance = 0
      BY <3>1 DEF NoAccount, NoShare
    <3>3. NeededBalance(accounts[a]) = 0 BY <3>2, ByteCostAssumption DEF NeededBalance
    <3> QED BY <3>2, <3>3, ByteCostAssumption
  <2> QED BY <2>1, <2>2, <2>3, <2>4 DEF AccountType
<1> QED BY <1>1, Inductive, PTL

(* used_bytes is what the account takes in the state, but for the byte that *)
(* a migrated AccountV0 may count twice, so releasing data never meets      *)
(* "Internal storage accounting bug".                                       *)
THEOREM UsedBytesAreAlwaysStored == Spec => []UsedBytesAreStored
<1>1. IInv => UsedBytesAreStored
  <2> SUFFICES ASSUME IInv, NEW a \in AccountIds
               PROVE  accounts[a].used_bytes - stored[a] \in Doubled(a)
    BY DEF UsedBytesAreStored, Doubled
  <2>1. accounts[a] \in AccountType /\ Honest(a, accounts[a], stored[a]) /\ stored[a] \in Nat
    BY DEF IInv, Books
  <2>2. CASE accounts[a].version = "Current" BY <2>1, <2>2 DEF Honest
  <2>3. CASE accounts[a].version # "Current"
    <3>1. accounts[a].used_bytes = stored[a]
      BY <2>1, <2>3 DEF Honest, AccountType, NoAccount
    <3>2. accounts[a].used_bytes - stored[a] = 0 BY <2>1, <3>1
    <3> QED BY <3>2 DEF Doubled
  <2> QED BY <2>2, <2>3
<1> QED BY <1>1, Inductive, PTL

(* A pool counts exactly what its accounts use and may use, also when       *)
(* accounts move between pools.                                             *)
THEOREM PoolsAlwaysCountTheirAccounts == Spec => []PoolsCountTheirAccounts
<1>1. IInv => PoolsCountTheirAccounts
  BY DEF IInv, Books, Counted, OwnBytes, PoolsCountTheirAccounts
<1> QED BY <1>1, Inductive, PTL

----------------------------------------------------------------------------
(* The tree.                                                                *)


EntryType ==
    [kind : {"Value"}, value : STRING, height : Nat]
        \cup [kind : {"DeletedEntry"}, height : Nat]
        \cup [kind : {"Node"}, id : Nat]

ChildrenType == {f \in UNION {[S -> EntryType] : S \in SUBSET Keys} : IsFiniteSet(DOMAIN f)}

NodeType == [block_height : Nat, children : ChildrenType]

(* All references are to nodes that there are. *)
Linked(ns) ==
    /\ ns \in Seq(NodeType)
    /\ \A n \in DOMAIN ns : \A k \in Keys : IsNode(ns[n], k) => ns[n].children[k].id \in DOMAIN ns

(* Places, for any nodes and roots. *)
PlacesIn(ns, rt, id) ==
    {p \in (DOMAIN ns) \X Keys : IsNode(ns[p[1]], p[2]) /\ ns[p[1]].children[p[2]].id = id}
    \cup {p \in {0} \X AccountIds : rt[p[2]] = id}

(* Every node is in one place and below the node of one account. *)
IsTree(ns, rt) ==
    /\ Linked(ns)
    /\ rt \in [AccountIds -> 0 .. Len(ns)]
    /\ \A id \in DOMAIN ns :
        /\ \E p : PlacesIn(ns, rt, id) = {p}
        /\ \E a \in AccountIds :
            /\ rt[a] # 0 /\ id \in Below(ns, rt[a])
            /\ \A b \in AccountIds : rt[b] # 0 /\ id \in Below(ns, rt[b]) => b = a

----------------------------------------------------------------------------
(* Nodes and their parts. *)

LEMMA ChildrenFacts ==
    ASSUME NEW f \in ChildrenType
    PROVE  /\ f = [k \in DOMAIN f |-> f[k]] /\ DOMAIN f \subseteq Keys /\ IsFiniteSet(DOMAIN f)
           /\ \A k \in DOMAIN f : f[k] \in EntryType
<1>1. PICK S \in SUBSET Keys : f \in [S -> EntryType] BY DEF ChildrenType
<1>2. IsFiniteSet(DOMAIN f) BY DEF ChildrenType
<1> QED BY <1>1, <1>2

LEMMA IsChildren ==
    ASSUME NEW f, NEW S, S \subseteq Keys, IsFiniteSet(S), f = [k \in S |-> f[k]],
           \A k \in S : f[k] \in EntryType
    PROVE  f \in ChildrenType
<1>1. f \in [S -> EntryType] /\ DOMAIN f = S OBVIOUS
<1> QED BY <1>1 DEF ChildrenType

LEMMA NodeFacts ==
    ASSUME NEW ns \in Seq(NodeType), NEW id \in DOMAIN ns
    PROVE  /\ ns[id] \in NodeType /\ ns[id].block_height \in Nat
           /\ ns[id].children \in ChildrenType
           /\ DOMAIN ns = 1 .. Len(ns) /\ Len(ns) \in Nat /\ id \in 1 .. Len(ns) /\ id \in Nat
           /\ id # 0
<1>1. ns[id] \in NodeType /\ DOMAIN ns = 1 .. Len(ns) /\ Len(ns) \in Nat BY LenProperties, ElementOfSeq
<1> QED BY <1>1 DEF NodeType

LEMMA InsertFacts ==
    ASSUME NEW f \in ChildrenType, NEW k \in Keys, NEW v \in EntryType
    PROVE  /\ Insert(f, k, v) \in ChildrenType
           /\ DOMAIN Insert(f, k, v) = DOMAIN f \cup {k}
           /\ Insert(f, k, v)[k] = v
           /\ \A x \in DOMAIN f : x # k => Insert(f, k, v)[x] = f[x]
<1> DEFINE S == DOMAIN f \cup {k}
           g == Insert(f, k, v)
<1>1. g = [x \in S |-> IF x = k THEN v ELSE f[x]] BY DEF Insert
<1>2. S \subseteq Keys /\ IsFiniteSet(S)
  BY ChildrenFacts, FS_AddElement
<1>3. \A x \in S : g[x] \in EntryType BY <1>1, ChildrenFacts
<1>4. g = [x \in S |-> g[x]] /\ DOMAIN g = S BY <1>1
<1>5. g[k] = v /\ \A x \in DOMAIN f : x # k => g[x] = f[x] BY <1>1
<1> HIDE DEF g, S
<1>6. g \in ChildrenType BY <1>2, <1>3, <1>4, IsChildren
<1> QED BY <1>4, <1>5, <1>6 DEF g, S

(* What a node store does to the nodes. *)
LEMMA ReplacedNode ==
    ASSUME NEW ns \in Seq(NodeType), NEW id \in DOMAIN ns, NEW new \in NodeType,
           NEW ms, ms = [ns EXCEPT ![id] = new]
    PROVE  /\ ms \in Seq(NodeType) /\ Len(ms) = Len(ns) /\ DOMAIN ms = DOMAIN ns
           /\ ms[id] = new
           /\ \A n \in DOMAIN ns : n # id => ms[n] = ns[n]
BY ExceptSeq, NodeFacts

LEMMA PutFacts ==
    ASSUME NEW ns \in Seq(NodeType), NEW id \in DOMAIN ns, NEW k \in Keys, NEW v \in EntryType
    PROVE  /\ Put(ns, id, k, v) \in Seq(NodeType) /\ Len(Put(ns, id, k, v)) = Len(ns)
           /\ DOMAIN Put(ns, id, k, v) = DOMAIN ns
           /\ \A n \in DOMAIN ns : Put(ns, id, k, v)[n].block_height = ns[n].block_height
           /\ \A n \in DOMAIN ns : n # id => Put(ns, id, k, v)[n] = ns[n]
           /\ Put(ns, id, k, v)[id].children = Insert(ns[id].children, k, v)
<1> DEFINE new == [block_height |-> ns[id].block_height, children |-> Insert(ns[id].children, k, v)]
<1>1. new \in NodeType
  <2>1. ns[id].block_height \in Nat /\ ns[id].children \in ChildrenType BY NodeFacts
  <2>2. Insert(ns[id].children, k, v) \in ChildrenType BY <2>1, InsertFacts
  <2> QED BY <2>1, <2>2 DEF NodeType
<1>2. new.block_height = ns[id].block_height /\ new.children = Insert(ns[id].children, k, v) OBVIOUS
<1>3. Put(ns, id, k, v) = [ns EXCEPT ![id] = new] BY DEF Put
<1> HIDE DEF new
<1> QED BY <1>1, <1>2, <1>3, ReplacedNode

LEMMA TouchFacts ==
    ASSUME NEW ns \in Seq(NodeType), NEW id \in DOMAIN ns, NEW h \in Nat
    PROVE  /\ Touch(ns, id, h) \in Seq(NodeType) /\ Len(Touch(ns, id, h)) = Len(ns)
           /\ DOMAIN Touch(ns, id, h) = DOMAIN ns
           /\ \A n \in DOMAIN ns : Touch(ns, id, h)[n].children = ns[n].children
           /\ \A n \in DOMAIN ns : n # id => Touch(ns, id, h)[n] = ns[n]
           /\ Touch(ns, id, h)[id].block_height = h
<1> DEFINE new == [block_height |-> h, children |-> ns[id].children]
<1>1. new \in NodeType
  <2>1. ns[id].children \in ChildrenType BY NodeFacts
  <2> QED BY <2>1 DEF NodeType
<1>2. new.block_height = h /\ new.children = ns[id].children OBVIOUS
<1>3. Touch(ns, id, h) = [ns EXCEPT ![id] = new] BY DEF Touch
<1> HIDE DEF new
<1> QED BY <1>1, <1>2, <1>3, ReplacedNode

----------------------------------------------------------------------------
(* Links between nodes, and what is below a node. *)

(* The same nodes with the same links. *)
SameLinks(ns, ms) ==
    /\ DOMAIN ms = DOMAIN ns
    /\ \A n \in DOMAIN ns, k \in Keys :
        /\ IsNode(ms[n], k) <=> IsNode(ns[n], k)
        /\ IsNode(ns[n], k) => ms[n].children[k].id = ns[n].children[k].id

(* One node more, without links of its own, in place p (or in none). *)
OneMore(ns, ms, p) ==
    /\ DOMAIN ms = DOMAIN ns \cup {Len(ns) + 1}
    /\ \A k \in Keys : ~IsNode(ms[Len(ns) + 1], k)
    /\ \A n \in DOMAIN ns, k \in Keys :
        /\ IsNode(ms[n], k) <=> IsNode(ns[n], k) \/ <<n, k>> = p
        /\ <<n, k>> = p => ~IsNode(ns[n], k) /\ ms[n].children[k].id = Len(ns) + 1
        /\ IsNode(ns[n], k) => ms[n].children[k].id = ns[n].children[k].id

LEMMA ClosedSet ==
    ASSUME NEW ns \in Seq(NodeType), NEW S \in SUBSET DOMAIN ns
    PROVE  Closed(ns, S) <=>
            \A n \in S, k \in Keys : IsNode(ns[n], k) => ns[n].children[k].id \in S
<1>1. \A n \in S : DOMAIN ns[n].children \subseteq Keys
  <2> TAKE n \in S
  <2>1. ns[n].children \in ChildrenType BY NodeFacts
  <2> QED BY <2>1, ChildrenFacts
<1>2. ASSUME NEW n \in S, NEW k, IsNode(ns[n], k) PROVE k \in DOMAIN ns[n].children
  BY <1>2 DEF IsNode, HasKey
<1> QED BY <1>1, <1>2 DEF Closed

LEMMA BelowIsClosed ==
    ASSUME NEW ns, Linked(ns), NEW x \in DOMAIN ns
    PROVE  /\ x \in Below(ns, x) /\ Below(ns, x) \subseteq DOMAIN ns
           /\ \A n \in Below(ns, x), k \in Keys :
                IsNode(ns[n], k) => ns[n].children[k].id \in Below(ns, x)
<1>1. ns \in Seq(NodeType) BY DEF Linked
<1>2. x \in Below(ns, x) /\ Below(ns, x) \subseteq DOMAIN ns BY DEF Below
<1>3. ASSUME NEW n \in Below(ns, x), NEW k \in Keys, IsNode(ns[n], k)
      PROVE  ns[n].children[k].id \in Below(ns, x)
  <2> DEFINE c == ns[n].children[k].id
  <2>1. n \in DOMAIN ns /\ c \in DOMAIN ns BY <1>2, <1>3 DEF Linked
  <2>2. ASSUME NEW S \in SUBSET DOMAIN ns, x \in S, Closed(ns, S) PROVE c \in S
    <3>1. n \in S BY <2>2 DEF Below
    <3> QED BY <1>1, <1>3, <2>2, <3>1, ClosedSet
  <2> HIDE DEF c
  <2>3. c \in Below(ns, x) BY <2>1, <2>2 DEF Below
  <2> QED BY <2>3 DEF c
<1> QED BY <1>2, <1>3

LEMMA BelowIsLeast ==
    ASSUME NEW ns \in Seq(NodeType), NEW S \in SUBSET DOMAIN ns, NEW x \in S,
           \A n \in S, k \in Keys : IsNode(ns[n], k) => ns[n].children[k].id \in S
    PROVE  Below(ns, x) \subseteq S
<1>1. Closed(ns, S) BY ClosedSet
<1> QED BY <1>1 DEF Below

LEMMA SameBelow ==
    ASSUME NEW ns, Linked(ns), NEW ms, Linked(ms), SameLinks(ns, ms), NEW x \in DOMAIN ns
    PROVE  Below(ms, x) = Below(ns, x)
<1>1. x \in DOMAIN ms /\ DOMAIN ms = DOMAIN ns BY DEF SameLinks
<1>2. ns \in Seq(NodeType) /\ ms \in Seq(NodeType) BY DEF Linked
<1>3. Below(ms, x) \subseteq Below(ns, x)
  <2> DEFINE S == Below(ns, x)
  <2>1. x \in S /\ S \subseteq DOMAIN ns BY BelowIsClosed
  <2>2. \A n \in S, k \in Keys : IsNode(ns[n], k) => ns[n].children[k].id \in S BY BelowIsClosed
  <2> HIDE DEF S
  <2>3. ASSUME NEW n \in S, NEW k \in Keys, IsNode(ms[n], k) PROVE ms[n].children[k].id \in S
    BY <2>1, <2>2, <2>3 DEF SameLinks
  <2>4. S \in SUBSET DOMAIN ms BY <1>1, <2>1
  <2>5. Below(ms, x) \subseteq S BY <1>2, <2>1, <2>3, <2>4, BelowIsLeast
  <2> QED BY <2>5 DEF S
<1>4. Below(ns, x) \subseteq Below(ms, x)
  <2> DEFINE S == Below(ms, x)
  <2>1. x \in S /\ S \subseteq DOMAIN ms BY <1>1, BelowIsClosed
  <2>2. \A n \in S, k \in Keys : IsNode(ms[n], k) => ms[n].children[k].id \in S
    BY <1>1, BelowIsClosed
  <2> HIDE DEF S
  <2>3. ASSUME NEW n \in S, NEW k \in Keys, IsNode(ns[n], k) PROVE ns[n].children[k].id \in S
    <3>1. n \in DOMAIN ns BY <1>1, <2>1
    <3> QED BY <2>2, <2>3, <3>1 DEF SameLinks
  <2>4. S \in SUBSET DOMAIN ns BY <1>1, <2>1
  <2>5. Below(ns, x) \subseteq S BY <1>2, <2>1, <2>3, <2>4, BelowIsLeast
  <2> QED BY <2>5 DEF S
<1> QED BY <1>3, <1>4

LEMMA NewIsNew ==
    ASSUME NEW ns \in Seq(NodeType)
    PROVE  /\ Len(ns) \in Nat /\ Len(ns) + 1 \notin DOMAIN ns /\ Len(ns) + 1 # 0
           /\ DOMAIN ns = 1 .. Len(ns)
<1>1. DOMAIN ns = 1 .. Len(ns) /\ Len(ns) \in Nat BY LenProperties
<1> QED BY <1>1

LEMMA SameLength ==
    ASSUME NEW m \in Nat, NEW n \in Nat, 1 .. m = 1 .. n
    PROVE  m = n
<1>1. m > n => m \in 1 .. m /\ m \notin 1 .. n OBVIOUS
<1>2. n > m => n \in 1 .. n /\ n \notin 1 .. m OBVIOUS
<1> QED BY <1>1, <1>2

(* What is below a node when there is one node more. *)
LEMMA BelowOneMore ==
    ASSUME NEW ns, Linked(ns), NEW ms, Linked(ms), NEW p, OneMore(ns, ms, p), NEW x \in DOMAIN ns
    PROVE  /\ Below(ns, x) \subseteq Below(ms, x)
           /\ Below(ms, x) \subseteq Below(ns, x) \cup {Len(ns) + 1}
           /\ (\E n \in Below(ns, x), k \in Keys : p = <<n, k>>) <=> Len(ns) + 1 \in Below(ms, x)
<1> DEFINE new == Len(ns) + 1
           B == Below(ns, x)
           C == Below(ms, x)
<1>1. ns \in Seq(NodeType) /\ ms \in Seq(NodeType) BY DEF Linked
<1>2. new \notin DOMAIN ns BY <1>1, NewIsNew
<1>3. x \in B /\ B \subseteq DOMAIN ns
      /\ \A n \in B, k \in Keys : IsNode(ns[n], k) => ns[n].children[k].id \in B
  BY BelowIsClosed
<1>4. x \in DOMAIN ms /\ DOMAIN ms = DOMAIN ns \cup {new} BY DEF OneMore
<1>5. x \in C /\ C \subseteq DOMAIN ms
      /\ \A n \in C, k \in Keys : IsNode(ms[n], k) => ms[n].children[k].id \in C
  BY <1>4, BelowIsClosed
<1>6. \A S \in SUBSET DOMAIN ns : (x \in S /\ \A n \in S, k \in Keys : IsNode(ns[n], k) => ns[n].children[k].id \in S)
        => B \subseteq S
  BY <1>1, BelowIsLeast
<1>7. \A S \in SUBSET DOMAIN ms : (x \in S /\ \A n \in S, k \in Keys : IsNode(ms[n], k) => ms[n].children[k].id \in S)
        => C \subseteq S
  BY <1>1, BelowIsLeast
<1>8. /\ \A k \in Keys : ~IsNode(ms[new], k)
      /\ \A n \in DOMAIN ns, k \in Keys :
            /\ IsNode(ms[n], k) <=> IsNode(ns[n], k) \/ <<n, k>> = p
            /\ <<n, k>> = p => ~IsNode(ns[n], k) /\ ms[n].children[k].id = new
            /\ IsNode(ns[n], k) => ms[n].children[k].id = ns[n].children[k].id
  BY DEF OneMore
<1> HIDE DEF new, B, C
<1>9. B \subseteq C
  <2> DEFINE S == C \cap DOMAIN ns
  <2>1. S \in SUBSET DOMAIN ns /\ x \in S BY <1>5
  <2>2. ASSUME NEW n \in S, NEW k \in Keys, IsNode(ns[n], k) PROVE ns[n].children[k].id \in S
    <3>1. n \in DOMAIN ns /\ n \in C OBVIOUS
    <3>2. ns[n].children[k].id \in DOMAIN ns BY <2>2, <3>1 DEF Linked
    <3>3. IsNode(ms[n], k) /\ ms[n].children[k].id = ns[n].children[k].id BY <1>8, <2>2, <3>1
    <3> QED BY <1>5, <3>1, <3>2, <3>3
  <2> HIDE DEF S
  <2>3. B \subseteq S BY <1>6, <2>1, <2>2
  <2> QED BY <2>3 DEF S
<1>10. ASSUME NEW S \in SUBSET {new}, (\E n \in B, k \in Keys : p = <<n, k>>) => new \in S
       PROVE  C \subseteq B \cup S
  <2> DEFINE T == B \cup S
  <2>1. T \in SUBSET DOMAIN ms /\ x \in T BY <1>3, <1>4
  <2>2. ASSUME NEW n \in T, NEW k \in Keys, IsNode(ms[n], k) PROVE ms[n].children[k].id \in T
    <3>1. n # new BY <1>8, <2>2
    <3>2. n \in B /\ n \in DOMAIN ns BY <1>3, <3>1
    <3>3. CASE IsNode(ns[n], k) BY <1>3, <1>8, <3>2, <3>3
    <3>4. CASE <<n, k>> = p
      <4>1. ms[n].children[k].id = new BY <1>8, <3>2, <3>4
      <4>2. new \in S BY <1>10, <3>2, <3>4
      <4> QED BY <4>1, <4>2
    <3> QED BY <1>8, <2>2, <3>2, <3>3, <3>4
  <2> HIDE DEF T
  <2>3. C \subseteq T BY <1>7, <2>1, <2>2
  <2> QED BY <2>3 DEF T
<1>11. C \subseteq B \cup {new} BY <1>10
<1>12. ASSUME NEW n \in B, NEW k \in Keys, p = <<n, k>> PROVE new \in C
  <2>1. n \in DOMAIN ns /\ n \in C BY <1>3, <1>9
  <2>2. IsNode(ms[n], k) /\ ms[n].children[k].id = new BY <1>8, <1>12, <2>1
  <2> QED BY <1>5, <2>1, <2>2
<1>13. ASSUME ~\E n \in B, k \in Keys : p = <<n, k>> PROVE new \notin C
  <2>1. C \subseteq B \cup {} BY <1>10, <1>13
  <2> QED BY <1>2, <1>3, <2>1
<1> QED BY <1>9, <1>11, <1>12, <1>13 DEF new, B, C

(* Nothing is below a new node. *)
LEMMA BelowNew ==
    ASSUME NEW ns, Linked(ns), NEW ms, Linked(ms), NEW p, OneMore(ns, ms, p)
    PROVE  Below(ms, Len(ns) + 1) = {Len(ns) + 1}
<1> DEFINE new == Len(ns) + 1
<1>1. new \in DOMAIN ms /\ \A k \in Keys : ~IsNode(ms[new], k) BY DEF OneMore
<1>2. ms \in Seq(NodeType) BY DEF Linked
<1> HIDE DEF new
<1>3. {new} \in SUBSET DOMAIN ms /\ new \in {new} BY <1>1
<1>4. \A n \in {new}, k \in Keys : IsNode(ms[n], k) => ms[n].children[k].id \in {new} BY <1>1
<1>5. Below(ms, new) \subseteq {new} BY <1>2, <1>3, <1>4, BelowIsLeast
<1>6. new \in Below(ms, new) BY <1>1, BelowIsClosed
<1>7. Below(ms, new) = {new} BY <1>5, <1>6
<1> QED BY <1>7 DEF new

----------------------------------------------------------------------------
(* What an operation at a node of account a keeps of the whole tree. *)

(* The nodes ms come from ns by operations in the tree of account a: a tree *)
(* again, in which nothing moved out from under a node, the trees of other  *)
(* accounts are untouched, and links are old ones or lead to new nodes.     *)
Grows(ns, ms, rt, a) ==
    /\ IsTree(ms, rt)
    /\ DOMAIN ns \subseteq DOMAIN ms
    /\ \A x \in DOMAIN ns : Below(ns, x) \subseteq Below(ms, x)
    /\ \A b \in AccountIds \ {a} : rt[b] # 0 =>
        /\ Below(ms, rt[b]) = Below(ns, rt[b])
        /\ \A n \in Below(ns, rt[b]) : ms[n] = ns[n]
    /\ \A n \in DOMAIN ms, k \in Keys : IsNode(ms[n], k) =>
        \/ ms[n].children[k].id \notin DOMAIN ns
        \/ n \in DOMAIN ns /\ IsNode(ns[n], k) /\ ns[n].children[k].id = ms[n].children[k].id

LEMMA TreeFacts ==
    ASSUME NEW ns, NEW rt, IsTree(ns, rt)
    PROVE  /\ Linked(ns) /\ ns \in Seq(NodeType)
           /\ \A a \in AccountIds : rt[a] # 0 => rt[a] \in DOMAIN ns
           /\ \A a \in AccountIds : rt[a] \in Nat
<1>1. Linked(ns) /\ ns \in Seq(NodeType) /\ rt \in [AccountIds -> 0 .. Len(ns)] BY DEF IsTree, Linked
<1>2. DOMAIN ns = 1 .. Len(ns) /\ Len(ns) \in Nat BY <1>1, NewIsNew
<1> QED BY <1>1, <1>2

LEMMA GrowsSelf ==
    ASSUME NEW ns, NEW rt, IsTree(ns, rt), NEW a \in AccountIds
    PROVE  Grows(ns, ns, rt, a)
BY DEF Grows

LEMMA GrowsTwice ==
    ASSUME NEW ns, NEW ms, NEW ls, NEW rt, NEW a \in AccountIds, IsTree(ns, rt),
           Grows(ns, ms, rt, a), Grows(ms, ls, rt, a)
    PROVE  Grows(ns, ls, rt, a)
<1>1. IsTree(ls, rt) /\ DOMAIN ns \subseteq DOMAIN ls BY DEF Grows
<1>2. \A x \in DOMAIN ns : Below(ns, x) \subseteq Below(ls, x) BY DEF Grows
<1>3. ASSUME NEW b \in AccountIds \ {a}, rt[b] # 0
      PROVE  Below(ls, rt[b]) = Below(ns, rt[b]) /\ \A n \in Below(ns, rt[b]) : ls[n] = ns[n]
  BY <1>3 DEF Grows
<1>4. ASSUME NEW n \in DOMAIN ls, NEW k \in Keys, IsNode(ls[n], k), ls[n].children[k].id \in DOMAIN ns
      PROVE  n \in DOMAIN ns /\ IsNode(ns[n], k) /\ ns[n].children[k].id = ls[n].children[k].id
  <2>1. ls[n].children[k].id \in DOMAIN ms BY <1>4 DEF Grows
  <2>2. n \in DOMAIN ms /\ IsNode(ms[n], k) /\ ms[n].children[k].id = ls[n].children[k].id
    BY <1>4, <2>1 DEF Grows
  <2> QED BY <1>4, <2>2 DEF Grows
<1> QED BY <1>1, <1>2, <1>3, <1>4 DEF Grows

(* The trees of two accounts have no node in common. *)
LEMMA OneOwner ==
    ASSUME NEW ns, NEW rt, IsTree(ns, rt), NEW a \in AccountIds, NEW b \in AccountIds,
           rt[a] # 0, rt[b] # 0, NEW n \in Below(ns, rt[a]), n \in Below(ns, rt[b])
    PROVE  a = b
<1>1. n \in DOMAIN ns BY DEF Below
<1> QED BY <1>1 DEF IsTree

LEMMA GrowsSame ==
    ASSUME NEW ns, NEW rt, IsTree(ns, rt), NEW a \in AccountIds, rt[a] # 0,
           NEW id \in Below(ns, rt[a]),
           NEW ms, Linked(ms), SameLinks(ns, ms), \A n \in DOMAIN ns : n # id => ms[n] = ns[n]
    PROVE  Grows(ns, ms, rt, a)
<1>1. Linked(ns) /\ DOMAIN ms = DOMAIN ns BY DEF IsTree, SameLinks
<1>2. \A x \in DOMAIN ns : Below(ms, x) = Below(ns, x) BY <1>1, SameBelow
<1>3. \A b \in AccountIds : rt[b] # 0 => rt[b] \in DOMAIN ns BY TreeFacts
<1>4. \A x : PlacesIn(ms, rt, x) = PlacesIn(ns, rt, x)
  BY <1>1 DEF PlacesIn, SameLinks
<1>5. Len(ms) = Len(ns)
  <2>1. ns \in Seq(NodeType) /\ ms \in Seq(NodeType) BY <1>1 DEF Linked
  <2>2. DOMAIN ms = 1 .. Len(ms) /\ Len(ms) \in Nat BY <2>1, NewIsNew
  <2>3. DOMAIN ns = 1 .. Len(ns) /\ Len(ns) \in Nat BY <2>1, NewIsNew
  <2> QED BY <1>1, <2>2, <2>3, SameLength
<1>6. IsTree(ms, rt) BY <1>1, <1>2, <1>3, <1>4, <1>5 DEF IsTree
<1>7. ASSUME NEW b \in AccountIds \ {a}, rt[b] # 0, NEW n \in Below(ns, rt[b]) PROVE ms[n] = ns[n]
  <2>1. n # id BY <1>7, OneOwner
  <2>2. n \in DOMAIN ns BY DEF Below
  <2> QED BY <2>1, <2>2
<1>8. \A n \in DOMAIN ms, k \in Keys : IsNode(ms[n], k) =>
        n \in DOMAIN ns /\ IsNode(ns[n], k) /\ ns[n].children[k].id = ms[n].children[k].id
  BY DEF SameLinks
<1> QED BY <1>1, <1>2, <1>3, <1>6, <1>7, <1>8 DEF Grows

(* The places of nodes when there is one node more, at p. *)
LEMMA PlacesOneMore ==
    ASSUME NEW ns, Linked(ns), NEW ms, NEW p, OneMore(ns, ms, p), NEW rt,
           \A c \in AccountIds : rt[c] # Len(ns) + 1
    PROVE  /\ \A x \in DOMAIN ns : PlacesIn(ms, rt, x) = PlacesIn(ns, rt, x)
           /\ PlacesIn(ms, rt, Len(ns) + 1) = {q \in (DOMAIN ns) \X Keys : q = p}
<1> DEFINE new == Len(ns) + 1
<1>1. new \notin DOMAIN ns BY NewIsNew DEF Linked
<1>2. DOMAIN ms = DOMAIN ns \cup {new} /\ \A k \in Keys : ~IsNode(ms[new], k) BY DEF OneMore
<1>3. \A n \in DOMAIN ns, k \in Keys :
            /\ IsNode(ms[n], k) <=> IsNode(ns[n], k) \/ <<n, k>> = p
            /\ <<n, k>> = p => ~IsNode(ns[n], k) /\ ms[n].children[k].id = new
            /\ IsNode(ns[n], k) => ms[n].children[k].id = ns[n].children[k].id
  BY DEF OneMore
<1>4. \A n \in DOMAIN ns, k \in Keys : IsNode(ns[n], k) => ns[n].children[k].id # new
  BY <1>1 DEF Linked
<1>5. \A c \in AccountIds : rt[c] # new OBVIOUS
<1> HIDE DEF new
<1>6. ASSUME NEW n \in DOMAIN ms, NEW k \in Keys
      PROVE  /\ IsNode(ms[n], k) /\ ms[n].children[k].id = new <=> n \in DOMAIN ns /\ <<n, k>> = p
             /\ \A x \in DOMAIN ns : IsNode(ms[n], k) /\ ms[n].children[k].id = x <=>
                    n \in DOMAIN ns /\ IsNode(ns[n], k) /\ ns[n].children[k].id = x
  <2>1. CASE n = new BY <1>1, <1>2, <2>1
  <2>2. CASE n \in DOMAIN ns
    <3>1. CASE <<n, k>> = p BY <1>1, <1>3, <2>2, <3>1
    <3>2. CASE <<n, k>> # p BY <1>1, <1>3, <1>4, <2>2, <3>2
    <3> QED BY <3>1, <3>2
  <2> QED BY <1>2, <2>1, <2>2
<1>7. \A x \in DOMAIN ns : PlacesIn(ms, rt, x) = PlacesIn(ns, rt, x) BY <1>2, <1>6 DEF PlacesIn
<1>8. PlacesIn(ms, rt, new) = {q \in (DOMAIN ns) \X Keys : q = p} BY <1>2, <1>5, <1>6 DEF PlacesIn
<1> QED BY <1>7, <1>8 DEF new

LEMMA GrowsOneMore ==
    ASSUME NEW ns, NEW rt, IsTree(ns, rt), NEW a \in AccountIds, rt[a] # 0,
           NEW id \in Below(ns, rt[a]), NEW key \in Keys,
           NEW ms, Linked(ms), OneMore(ns, ms, <<id, key>>),
           \A n \in DOMAIN ns : n # id => ms[n] = ns[n]
    PROVE  /\ Grows(ns, ms, rt, a)
           /\ Len(ms) = Len(ns) + 1
           /\ Len(ns) + 1 \in Below(ms, rt[a])
<1> DEFINE new == Len(ns) + 1
           p == <<id, key>>
<1>0. OneMore(ns, ms, p) OBVIOUS
<1>1. Linked(ns) /\ ns \in Seq(NodeType) /\ \A b \in AccountIds : rt[b] # 0 => rt[b] \in DOMAIN ns
  BY TreeFacts
<1>2. /\ Len(ns) \in Nat /\ new \notin DOMAIN ns /\ DOMAIN ns = 1 .. Len(ns) /\ new # 0
      /\ id \in DOMAIN ns /\ DOMAIN ms = DOMAIN ns \cup {new}
  BY <1>1, NewIsNew DEF Below, OneMore
<1>3. Len(ms) = new
  <2>1. ms \in Seq(NodeType) BY DEF Linked
  <2>2. DOMAIN ms = 1 .. Len(ms) /\ Len(ms) \in Nat BY <2>1, NewIsNew
  <2>3. DOMAIN ms = 1 .. new /\ new \in Nat BY <1>2
  <2> HIDE DEF new
  <2> QED BY <2>2, <2>3, SameLength
<1>4. rt \in [AccountIds -> 0 .. Len(ns)] BY DEF IsTree
<1>5. \A x \in DOMAIN ns : /\ Below(ns, x) \subseteq Below(ms, x)
                           /\ Below(ms, x) \subseteq Below(ns, x) \cup {new}
                           /\ id \in Below(ns, x) <=> new \in Below(ms, x)
  <2> TAKE x \in DOMAIN ns
  <2>1. (\E n \in Below(ns, x), k \in Keys : p = <<n, k>>) <=> id \in Below(ns, x) OBVIOUS
  <2> HIDE DEF p
  <2>2. /\ Below(ns, x) \subseteq Below(ms, x)
        /\ Below(ms, x) \subseteq Below(ns, x) \cup {Len(ns) + 1}
        /\ (\E n \in Below(ns, x), k \in Keys : p = <<n, k>>) <=> Len(ns) + 1 \in Below(ms, x)
    BY <1>0, <1>1, BelowOneMore
  <2> QED BY <2>1, <2>2
<1>6. \A c \in AccountIds : rt[c] # new BY <1>2, <1>4
<1>7. /\ \A x \in DOMAIN ns : PlacesIn(ms, rt, x) = PlacesIn(ns, rt, x)
      /\ PlacesIn(ms, rt, new) = {p}
  <2>1. {q \in (DOMAIN ns) \X Keys : q = p} = {p} BY <1>2
  <2> HIDE DEF p
  <2>2. \A x \in DOMAIN ns : /\ PlacesIn(ms, rt, x) = PlacesIn(ns, rt, x)
                             /\ PlacesIn(ms, rt, new) = {q \in (DOMAIN ns) \X Keys : q = p}
    BY <1>0, <1>1, <1>6, PlacesOneMore
  <2> QED BY <1>2, <2>1, <2>2
<1>8. ASSUME NEW b \in AccountIds \ {a}, rt[b] # 0
      PROVE  Below(ms, rt[b]) = Below(ns, rt[b]) /\ \A n \in Below(ns, rt[b]) : ms[n] = ns[n]
  <2>1. rt[b] \in DOMAIN ns /\ id \notin Below(ns, rt[b]) BY <1>1, <1>8, OneOwner
  <2>2. new \notin Below(ms, rt[b]) BY <1>5, <2>1
  <2>3. Below(ms, rt[b]) = Below(ns, rt[b]) BY <1>5, <2>1, <2>2
  <2>4. \A n \in Below(ns, rt[b]) : n \in DOMAIN ns /\ n # id BY <2>1 DEF Below
  <2> QED BY <2>3, <2>4
<1>9. new \in Below(ms, rt[a]) BY <1>1, <1>5
<1>10. ASSUME NEW x \in DOMAIN ms
       PROVE  \E b \in AccountIds :
                /\ rt[b] # 0 /\ x \in Below(ms, rt[b])
                /\ \A c \in AccountIds : rt[c] # 0 /\ x \in Below(ms, rt[c]) => c = b
  <2>1. CASE x \in DOMAIN ns
    <3>1. PICK b \in AccountIds :
            /\ rt[b] # 0 /\ x \in Below(ns, rt[b])
            /\ \A c \in AccountIds : rt[c] # 0 /\ x \in Below(ns, rt[c]) => c = b
      BY <2>1 DEF IsTree
    <3>2. x # new BY <1>2, <2>1
    <3>3. \A c \in AccountIds : rt[c] # 0 => (x \in Below(ms, rt[c]) <=> x \in Below(ns, rt[c]))
      BY <1>1, <1>5, <3>2
    <3> QED BY <3>1, <3>3
  <2>2. CASE x = new
    <3>1. \A c \in AccountIds : rt[c] # 0 /\ new \in Below(ms, rt[c]) => c = a
      <4> TAKE c \in AccountIds
      <4> HAVE rt[c] # 0 /\ new \in Below(ms, rt[c])
      <4>1. id \in Below(ns, rt[c]) BY <1>1, <1>5
      <4> QED BY <4>1, OneOwner
    <3> QED BY <1>9, <2>2, <3>1
  <2> QED BY <1>2, <2>1, <2>2
<1>11. \A x \in DOMAIN ms : \E q : PlacesIn(ms, rt, x) = {q}
  <2> HIDE DEF p
  <2>1. \A x \in DOMAIN ns : \E q : PlacesIn(ns, rt, x) = {q} BY DEF IsTree
  <2> QED BY <1>2, <1>7, <2>1
<1>12. rt \in [AccountIds -> 0 .. Len(ms)] BY <1>2, <1>3, <1>4
<1>13. IsTree(ms, rt) BY <1>10, <1>11, <1>12 DEF IsTree
<1>14. ASSUME NEW n \in DOMAIN ms, NEW k \in Keys, IsNode(ms[n], k), ms[n].children[k].id \in DOMAIN ns
       PROVE  n \in DOMAIN ns /\ IsNode(ns[n], k) /\ ns[n].children[k].id = ms[n].children[k].id
  <2>1. n \in DOMAIN ns BY <1>2, <1>14 DEF OneMore
  <2>2. <<n, k>> # p BY <1>0, <1>2, <1>14, <2>1 DEF OneMore
  <2> QED BY <1>0, <1>14, <2>1, <2>2 DEF OneMore
<1>15. Grows(ns, ms, rt, a)
  BY <1>2, <1>5, <1>8, <1>13, <1>14 DEF Grows
<1> QED BY <1>3, <1>9, <1>15

----------------------------------------------------------------------------
(* The operations on nodes. *)

LEMMA EntryFacts ==
    /\ \A v \in STRING, h \in Nat : Entry(v, h) \in EntryType /\ Entry(v, h).kind # "Node"
                                     /\ Entry(v, h).height = h
    /\ \A i \in Nat : NodeRef(i) \in EntryType /\ NodeRef(i).kind = "Node" /\ NodeRef(i).id = i
BY DEF Entry, EntryType, ValueAtHeight, DeletedEntry, NodeRef

LEMMA NewNodeFacts ==
    ASSUME NEW h \in Nat
    PROVE  /\ NewNode(h) \in NodeType /\ NewNode(h).block_height = h
           /\ DOMAIN NewNode(h).children = {}
           /\ \A k : ~IsNode(NewNode(h), k)
<1> DEFINE f == [k \in {} |-> DeletedEntry(h)]
<1>1. f = [k \in {} |-> f[k]] /\ {} \subseteq Keys /\ IsFiniteSet({}) /\ \A k \in {} : f[k] \in EntryType
  BY FS_EmptySet
<1>2. DOMAIN f = {} OBVIOUS
<1>3. NewNode(h) = [block_height |-> h, children |-> f] BY DEF NewNode
<1> HIDE DEF f
<1>4. f \in ChildrenType BY <1>1, IsChildren
<1> QED BY <1>2, <1>3, <1>4 DEF NodeType, IsNode, HasKey

LEMMA NewNodeWithFacts ==
    ASSUME NEW h \in Nat, NEW v \in EntryType, v.kind # "Node"
    PROVE  /\ NewNodeWith(v, h) \in NodeType /\ NewNodeWith(v, h).block_height = h
           /\ DOMAIN NewNodeWith(v, h).children = {EmptyKey}
           /\ NewNodeWith(v, h).children[EmptyKey] = v
           /\ \A k : ~IsNode(NewNodeWith(v, h), k)
<1> DEFINE f == [k \in {EmptyKey} |-> v]
<1>1. f = [k \in {EmptyKey} |-> f[k]] /\ {EmptyKey} \subseteq Keys /\ IsFiniteSet({EmptyKey})
      /\ \A k \in {EmptyKey} : f[k] \in EntryType
  BY FS_Singleton, EmptyKeyAssumption
<1>2. DOMAIN f = {EmptyKey} /\ f[EmptyKey] = v OBVIOUS
<1>3. NewNodeWith(v, h) = [block_height |-> h, children |-> f] BY DEF NewNodeWith
<1> HIDE DEF f
<1>4. f \in ChildrenType BY <1>1, IsChildren
<1> QED BY <1>2, <1>3, <1>4 DEF NodeType, IsNode, HasKey

LEMMA AppendFacts ==
    ASSUME NEW ns \in Seq(NodeType), NEW new \in NodeType
    PROVE  /\ Append(ns, new) \in Seq(NodeType) /\ Len(Append(ns, new)) = Len(ns) + 1
           /\ DOMAIN Append(ns, new) = DOMAIN ns \cup {Len(ns) + 1}
           /\ Append(ns, new)[Len(ns) + 1] = new
           /\ \A n \in DOMAIN ns : Append(ns, new)[n] = ns[n]
<1>1. /\ Append(ns, new) \in Seq(NodeType) /\ Len(Append(ns, new)) = Len(ns) + 1
      /\ \A i \in 1 .. Len(ns) : Append(ns, new)[i] = ns[i]
      /\ Append(ns, new)[Len(ns) + 1] = new
  BY AppendProperties
<1>2. DOMAIN ns = 1 .. Len(ns) /\ Len(ns) \in Nat BY NewIsNew
<1>3. DOMAIN Append(ns, new) = 1 .. Len(ns) + 1 BY <1>1, NewIsNew
<1>4. 1 .. Len(ns) + 1 = (1 .. Len(ns)) \cup {Len(ns) + 1} BY <1>2
<1> QED BY <1>1, <1>2, <1>3, <1>4

(* The node that AddNode appends. *)
Added(ns, id, key, h) ==
    IF HasKey(ns[id].children, key) THEN NewNodeWith(ns[id].children[key], h) ELSE NewNode(h)

LEMMA AddedFacts ==
    ASSUME NEW ns \in Seq(NodeType), NEW id \in DOMAIN ns, NEW key \in Keys, NEW h \in Nat,
           ~IsNode(ns[id], key)
    PROVE  /\ Added(ns, id, key, h) \in NodeType /\ Added(ns, id, key, h).block_height = h
           /\ \A k : ~IsNode(Added(ns, id, key, h), k)
<1>1. CASE HasKey(ns[id].children, key)
  <2>1. ns[id].children \in ChildrenType BY NodeFacts
  <2>2. ns[id].children[key] \in EntryType BY <1>1, <2>1, ChildrenFacts DEF HasKey
  <2>3. ns[id].children[key].kind # "Node" BY <1>1 DEF IsNode
  <2> QED BY <1>1, <2>2, <2>3, NewNodeWithFacts DEF Added
<1>2. CASE ~HasKey(ns[id].children, key) BY <1>2, NewNodeFacts DEF Added
<1> QED BY <1>1, <1>2

(* What AddNode does. *)
NodeAdded(ns, ms, id, key, h) ==
    /\ ms \in Seq(NodeType)
    /\ Len(ms) = Len(ns) + 1
    /\ DOMAIN ms = DOMAIN ns \cup {Len(ns) + 1}
    /\ ms[Len(ns) + 1] = Added(ns, id, key, h)
    /\ \A n \in DOMAIN ns : ms[n].block_height = ns[n].block_height
    /\ \A n \in DOMAIN ns : n # id => ms[n] = ns[n]
    /\ ms[id].children = Insert(ns[id].children, key, NodeRef(Len(ns) + 1))

LEMMA AddNodeFacts ==
    ASSUME NEW ns \in Seq(NodeType), NEW id \in DOMAIN ns, NEW key \in Keys, NEW h \in Nat,
           ~IsNode(ns[id], key)
    PROVE  NodeAdded(ns, AddNode(ns, id, key, h), id, key, h)
<1> DEFINE ps == Put(ns, id, key, NodeRef(Len(ns) + 1))
           new == Added(ns, id, key, h)
           ms == AddNode(ns, id, key, h)
<1>1. Len(ns) + 1 \in Nat BY NewIsNew
<1>2. NodeRef(Len(ns) + 1) \in EntryType BY <1>1, EntryFacts
<1>3. /\ ps \in Seq(NodeType) /\ Len(ps) = Len(ns)
      /\ DOMAIN ps = DOMAIN ns
      /\ \A n \in DOMAIN ns : ps[n].block_height = ns[n].block_height
      /\ \A n \in DOMAIN ns : n # id => ps[n] = ns[n]
      /\ ps[id].children = Insert(ns[id].children, key, NodeRef(Len(ns) + 1))
  BY <1>2, PutFacts
<1>4. new \in NodeType BY AddedFacts
<1>5. ms = Append(ps, new) BY DEF AddNode, Added
<1> HIDE DEF ps, new, ms
<1>6. /\ ms \in Seq(NodeType) /\ Len(ms) = Len(ps) + 1
      /\ DOMAIN ms = DOMAIN ps \cup {Len(ps) + 1}
      /\ ms[Len(ps) + 1] = new
      /\ \A n \in DOMAIN ps : ms[n] = ps[n]
  BY <1>3, <1>4, <1>5, AppendFacts
<1>7. NodeAdded(ns, ms, id, key, h) BY <1>3, <1>6 DEF NodeAdded, new
<1> QED BY <1>7 DEF ms

LEMMA InsertedLinks ==
    ASSUME NEW node \in NodeType, NEW key \in Keys, NEW v \in EntryType, NEW new,
           new.children = Insert(node.children, key, v), NEW k \in Keys
    PROVE  /\ k # key => (IsNode(new, k) <=> IsNode(node, k))
           /\ k # key /\ IsNode(node, k) => new.children[k] = node.children[k]
           /\ IsNode(new, key) <=> v.kind = "Node"
           /\ new.children[key] = v
<1>1. node.children \in ChildrenType BY DEF NodeType
<1>2. /\ DOMAIN new.children = DOMAIN node.children \cup {key}
      /\ new.children[key] = v
      /\ \A x \in DOMAIN node.children : x # key => new.children[x] = node.children[x]
  <2> DEFINE g == Insert(node.children, key, v)
  <2>1. /\ DOMAIN g = DOMAIN node.children \cup {key} /\ g[key] = v
        /\ \A x \in DOMAIN node.children : x # key => g[x] = node.children[x]
    BY <1>1, InsertFacts
  <2> QED BY <2>1
<1> QED BY <1>2 DEF IsNode, HasKey

LEMMA TouchLinks ==
    ASSUME NEW ns, Linked(ns), NEW id \in DOMAIN ns, NEW h \in Nat
    PROVE  SameLinks(ns, Touch(ns, id, h)) /\ Linked(Touch(ns, id, h))
<1> DEFINE ms == Touch(ns, id, h)
<1>1. ns \in Seq(NodeType) BY DEF Linked
<1>2. ms \in Seq(NodeType) /\ DOMAIN ms = DOMAIN ns /\ \A n \in DOMAIN ns : ms[n].children = ns[n].children
  BY <1>1, TouchFacts
<1> HIDE DEF ms
<1>3. SameLinks(ns, ms) /\ Linked(ms) BY <1>2 DEF SameLinks, Linked, IsNode, HasKey
<1> QED BY <1>3 DEF ms

LEMMA PutLinks ==
    ASSUME NEW ns, Linked(ns), NEW id \in DOMAIN ns, NEW key \in Keys, NEW v \in EntryType,
           v.kind # "Node", ~IsNode(ns[id], key)
    PROVE  SameLinks(ns, Put(ns, id, key, v)) /\ Linked(Put(ns, id, key, v))
<1> DEFINE ms == Put(ns, id, key, v)
<1>1. ns \in Seq(NodeType) BY DEF Linked
<1>2. /\ ms \in Seq(NodeType) /\ DOMAIN ms = DOMAIN ns /\ \A n \in DOMAIN ns : n # id => ms[n] = ns[n]
      /\ ms[id].children = Insert(ns[id].children, key, v)
  BY <1>1, PutFacts
<1>3. ns[id] \in NodeType BY <1>1, NodeFacts
<1> HIDE DEF ms
<1>4. ASSUME NEW k \in Keys
      PROVE  /\ IsNode(ms[id], k) <=> IsNode(ns[id], k)
             /\ IsNode(ns[id], k) => ms[id].children[k] = ns[id].children[k]
  <2>1. CASE k = key BY <1>2, <1>3, <2>1, InsertedLinks
  <2>2. CASE k # key BY <1>2, <1>3, <2>2, InsertedLinks
  <2> QED BY <2>1, <2>2
<1>5. SameLinks(ns, ms) BY <1>2, <1>4 DEF SameLinks
<1>6. Linked(ms) BY <1>2, <1>5 DEF SameLinks, Linked
<1> QED BY <1>5, <1>6 DEF ms

LEMMA AddNodeLinks ==
    ASSUME NEW ns, Linked(ns), NEW id \in DOMAIN ns, NEW key \in Keys, NEW h \in Nat,
           ~IsNode(ns[id], key)
    PROVE  OneMore(ns, AddNode(ns, id, key, h), <<id, key>>) /\ Linked(AddNode(ns, id, key, h))
<1> DEFINE ms == AddNode(ns, id, key, h)
           new == Len(ns) + 1
           ref == NodeRef(Len(ns) + 1)
           added == Added(ns, id, key, h)
<1>1. ns \in Seq(NodeType) BY DEF Linked
<1>2. /\ ms \in Seq(NodeType) /\ DOMAIN ms = DOMAIN ns \cup {new}
      /\ ms[new] = added /\ \A k : ~IsNode(added, k)
      /\ \A n \in DOMAIN ns : n # id => ms[n] = ns[n]
      /\ ms[id].children = Insert(ns[id].children, key, ref)
  <2>1. ms = AddNode(ns, id, key, h) OBVIOUS
  <2> HIDE DEF ms
  <2>2. \A k : ~IsNode(added, k) BY <1>1, AddedFacts
  <2>3. NodeAdded(ns, ms, id, key, h) BY <1>1, <2>1, AddNodeFacts
  <2> QED BY <2>2, <2>3 DEF NodeAdded
<1>3. ns[id] \in NodeType BY <1>1, NodeFacts
<1>4. ref \in EntryType /\ ref.kind = "Node" /\ ref.id = new /\ new \notin DOMAIN ns
  BY <1>1, NewIsNew, EntryFacts
<1> HIDE DEF ms, new, ref, added
<1>5. ASSUME NEW n \in DOMAIN ns, NEW k \in Keys
      PROVE  /\ IsNode(ms[n], k) <=> IsNode(ns[n], k) \/ (n = id /\ k = key)
             /\ n = id /\ k = key => ms[n].children[k].id = new
             /\ IsNode(ns[n], k) => ms[n].children[k].id = ns[n].children[k].id
  <2>1. CASE n # id BY <1>2, <2>1
  <2>2. CASE n = id /\ k = key BY <1>2, <1>3, <1>4, <2>2, InsertedLinks
  <2>3. CASE n = id /\ k # key BY <1>2, <1>3, <1>4, <2>3, InsertedLinks
  <2> QED BY <2>1, <2>2, <2>3
<1>6. \A n, k : <<n, k>> = <<id, key>> <=> n = id /\ k = key OBVIOUS
<1>7. OneMore(ns, ms, <<id, key>>) BY <1>2, <1>5, <1>6 DEF OneMore, new
<1>8. ASSUME NEW n \in DOMAIN ms, NEW k \in Keys, IsNode(ms[n], k)
      PROVE  ms[n].children[k].id \in DOMAIN ms
  <2>1. n \in DOMAIN ns BY <1>2, <1>8
  <2>2. CASE n = id /\ k = key BY <1>2, <1>5, <2>1, <2>2
  <2>3. CASE IsNode(ns[n], k)
    <3>1. ns[n].children[k].id \in DOMAIN ns BY <2>1, <2>3 DEF Linked
    <3> QED BY <1>2, <1>5, <2>1, <2>3, <3>1
  <2> QED BY <1>5, <1>8, <2>1, <2>2, <2>3
<1>9. Linked(ms) BY <1>2, <1>8 DEF Linked
<1> QED BY <1>7, <1>9 DEF ms

----------------------------------------------------------------------------
(* Heights, and the operations in the tree of one account.                  *)

CoversEntry(ns, n, k) ==
    LET value == ns[n].children[k]
    IN  ns[n].block_height >= IF value.kind = "Node" THEN ns[value.id].block_height ELSE value.height

(* No node is above height h or below something under it. *)
Heights(ns, h) ==
    \A n \in DOMAIN ns :
        /\ ns[n].block_height <= h
        /\ \A k \in DOMAIN ns[n].children : CoversEntry(ns, n, k)

(* The nodes ms come from ns by operations at height h in the tree of       *)
(* account a that change the entries of nodes in D only.                    *)
Steps(ns, ms, rt, a, h, D) ==
    /\ Grows(ns, ms, rt, a)
    /\ Heights(ms, h)
    /\ \A n \in DOMAIN ns : /\ ns[n].block_height = h => ms[n].block_height = h
                            /\ n \notin D => ms[n].children = ns[n].children

(* A node of account a that was stored at height h. *)
StoredAt(ns, rt, a, h, id) == id \in Below(ns, rt[a]) /\ ns[id].block_height = h

LEMMA StepsSelf ==
    ASSUME NEW ns, NEW rt, IsTree(ns, rt), NEW a \in AccountIds, NEW h, Heights(ns, h), NEW D
    PROVE  Steps(ns, ns, rt, a, h, D)
BY GrowsSelf DEF Steps

LEMMA StepsTwice ==
    ASSUME NEW ns, NEW ms, NEW ls, NEW rt, NEW a \in AccountIds, IsTree(ns, rt), NEW h, NEW D, NEW E,
           Steps(ns, ms, rt, a, h, D), Steps(ms, ls, rt, a, h, E), E \cap DOMAIN ns \subseteq D
    PROVE  Steps(ns, ls, rt, a, h, D)
<1>1. Grows(ns, ms, rt, a) /\ Grows(ms, ls, rt, a) /\ Heights(ls, h) BY DEF Steps
<1>2. Grows(ns, ls, rt, a) BY <1>1, GrowsTwice
<1>3. DOMAIN ns \subseteq DOMAIN ms BY <1>1 DEF Grows
<1>4. ASSUME NEW n \in DOMAIN ns
      PROVE  /\ ns[n].block_height = h => ls[n].block_height = h
             /\ n \notin D => ls[n].children = ns[n].children
  BY <1>3 DEF Steps
<1> QED BY <1>1, <1>2, <1>4 DEF Steps

(* A node that is stored stays so. *)
LEMMA StoredStays ==
    ASSUME NEW ns, NEW ms, NEW rt, NEW a \in AccountIds, NEW h, NEW D, IsTree(ns, rt), rt[a] # 0,
           Steps(ns, ms, rt, a, h, D), NEW id, StoredAt(ns, rt, a, h, id)
    PROVE  StoredAt(ms, rt, a, h, id)
<1>1. id \in DOMAIN ns /\ rt[a] \in DOMAIN ns BY TreeFacts DEF StoredAt, Below
<1>2. Below(ns, rt[a]) \subseteq Below(ms, rt[a]) BY <1>1 DEF Steps, Grows
<1> QED BY <1>1, <1>2 DEF Steps, StoredAt

LEMMA TouchSteps ==
    ASSUME NEW ns, NEW rt, IsTree(ns, rt), NEW a \in AccountIds, rt[a] # 0, NEW h \in Nat,
           Heights(ns, h), NEW c \in Below(ns, rt[a]),
           \A n \in DOMAIN ns, k \in Keys :
                IsNode(ns[n], k) /\ ns[n].children[k].id = c => ns[n].block_height = h
    PROVE  /\ Steps(ns, Touch(ns, c, h), rt, a, h, {})
           /\ StoredAt(Touch(ns, c, h), rt, a, h, c)
<1> DEFINE ms == Touch(ns, c, h)
<1>1. Linked(ns) /\ ns \in Seq(NodeType) /\ c \in DOMAIN ns /\ rt[a] \in DOMAIN ns
  BY TreeFacts DEF Below
<1>2. /\ DOMAIN ms = DOMAIN ns /\ \A n \in DOMAIN ns : ms[n].children = ns[n].children
      /\ \A n \in DOMAIN ns : n # c => ms[n] = ns[n]
      /\ ms[c].block_height = h
  BY <1>1, TouchFacts
<1>3. SameLinks(ns, ms) /\ Linked(ms) BY <1>1, TouchLinks
<1> HIDE DEF ms
<1>4. Grows(ns, ms, rt, a) BY <1>2, <1>3, GrowsSame
<1>5. \A n \in DOMAIN ns : ms[n].block_height >= ns[n].block_height /\ ms[n].block_height <= h
                           /\ ms[n].block_height \in Nat /\ ns[n].block_height \in Nat
  <2> TAKE n \in DOMAIN ns
  <2>1. ns[n].block_height \in Nat /\ ns[n].block_height <= h BY <1>1, NodeFacts DEF Heights
  <2>2. CASE n = c BY <1>2, <2>1, <2>2
  <2>3. CASE n # c BY <1>2, <2>1, <2>3
  <2> QED BY <2>2, <2>3
<1>6. ASSUME NEW n \in DOMAIN ms, NEW k \in DOMAIN ms[n].children PROVE CoversEntry(ms, n, k)
  <2> DEFINE e == ns[n].children[k]
  <2>1. n \in DOMAIN ns /\ ms[n].children[k] = e /\ k \in DOMAIN ns[n].children BY <1>2
  <2>2. ns[n].children \in ChildrenType BY <1>1, <2>1, NodeFacts
  <2>3. e \in EntryType /\ k \in Keys BY <2>1, <2>2, ChildrenFacts
  <2>4. ns[n].block_height >= IF e.kind = "Node" THEN ns[e.id].block_height ELSE e.height
    BY <2>1 DEF Heights, CoversEntry
  <2>5. CASE e.kind = "Node"
    <3>1. IsNode(ns[n], k) BY <2>1, <2>5 DEF IsNode, HasKey
    <3>2. e.id \in DOMAIN ns BY <1>1, <2>1, <2>3, <3>1 DEF Linked
    <3> HIDE DEF e
    <3>3. CASE e.id = c
      <4>1. ns[n].block_height = h BY <2>1, <2>3, <3>1, <3>3 DEF e
      <4>2. ms[n].block_height >= h /\ ms[e.id].block_height <= h BY <1>5, <2>1, <3>2, <4>1
      <4>3. ms[n].block_height \in Nat /\ ms[e.id].block_height \in Nat BY <1>5, <2>1, <3>2
      <4>4. ms[n].block_height >= ms[e.id].block_height BY <4>2, <4>3
      <4> QED BY <2>1, <2>5, <4>4 DEF CoversEntry
    <3>4. CASE e.id # c
      <4>1. ms[e.id] = ns[e.id] BY <1>2, <3>2, <3>4
      <4>2. ns[n].block_height >= ms[e.id].block_height BY <2>4, <2>5, <4>1
      <4>3. ms[n].block_height >= ns[n].block_height BY <1>5, <2>1
      <4>4. ms[n].block_height \in Nat /\ ns[n].block_height \in Nat /\ ms[e.id].block_height \in Nat
        BY <1>5, <2>1, <3>2
      <4>5. ms[n].block_height >= ms[e.id].block_height BY <4>2, <4>3, <4>4
      <4> QED BY <2>1, <2>5, <4>5 DEF CoversEntry
    <3> QED BY <3>3, <3>4
  <2>6. CASE e.kind # "Node"
    <3>1. e.height \in Nat BY <2>3, <2>6 DEF EntryType
    <3>2. ns[n].block_height >= e.height BY <2>4, <2>6
    <3> HIDE DEF e
    <3>3. ms[n].block_height >= e.height BY <1>5, <2>1, <3>1, <3>2
    <3> QED BY <2>1, <2>6, <3>3 DEF CoversEntry
  <2> QED BY <2>5, <2>6
<1>7. Heights(ms, h) BY <1>2, <1>5, <1>6 DEF Heights
<1>8. \A n \in DOMAIN ns : ns[n].block_height = h => ms[n].block_height = h BY <1>2
<1>9. Steps(ns, ms, rt, a, h, {}) BY <1>2, <1>4, <1>7, <1>8 DEF Steps
<1>10. c \in Below(ms, rt[a]) BY <1>1, <1>4 DEF Grows
<1> QED BY <1>2, <1>9, <1>10 DEF StoredAt, ms

LEMMA PutSteps ==
    ASSUME NEW ns, NEW rt, IsTree(ns, rt), NEW a \in AccountIds, rt[a] # 0, NEW h \in Nat,
           Heights(ns, h), NEW id, StoredAt(ns, rt, a, h, id), NEW key \in Keys,
           ~IsNode(ns[id], key), NEW v \in STRING
    PROVE  Steps(ns, Put(ns, id, key, Entry(v, h)), rt, a, h, {id})
<1> DEFINE e == Entry(v, h)
           ms == Put(ns, id, key, e)
<1>1. /\ Linked(ns) /\ ns \in Seq(NodeType) /\ id \in DOMAIN ns /\ id \in Below(ns, rt[a])
      /\ ns[id].block_height = h
  BY TreeFacts DEF Below, StoredAt
<1>2. e \in EntryType /\ e.kind # "Node" /\ e.height = h BY EntryFacts
<1>3. ns[id] \in NodeType /\ ns[id].children \in ChildrenType BY <1>1, NodeFacts
<1> HIDE DEF e
<1>4. /\ DOMAIN ms = DOMAIN ns /\ \A n \in DOMAIN ns : n # id => ms[n] = ns[n]
      /\ \A n \in DOMAIN ns : ms[n].block_height = ns[n].block_height
      /\ ms[id].children = Insert(ns[id].children, key, e)
  BY <1>1, <1>2, PutFacts
<1>5. SameLinks(ns, ms) /\ Linked(ms) BY <1>1, <1>2, PutLinks
<1> HIDE DEF ms
<1>6. Grows(ns, ms, rt, a) BY <1>1, <1>4, <1>5, GrowsSame
<1>7. /\ DOMAIN ms[id].children = DOMAIN ns[id].children \cup {key}
      /\ ms[id].children[key] = e
      /\ \A x \in DOMAIN ns[id].children : x # key => ms[id].children[x] = ns[id].children[x]
  <2> DEFINE f == ns[id].children
  <2>1. f \in ChildrenType BY <1>3
  <2>2. ms[id].children = Insert(f, key, e) BY <1>4
  <2> HIDE DEF f
  <2>3. e \in EntryType BY <1>2
  <2>4. /\ DOMAIN Insert(f, key, e) = DOMAIN f \cup {key} /\ Insert(f, key, e)[key] = e
        /\ \A x \in DOMAIN f : x # key => Insert(f, key, e)[x] = f[x]
    BY <2>1, <2>3, InsertFacts
  <2> QED BY <2>2, <2>4 DEF f
<1>8. ASSUME NEW n \in DOMAIN ms, NEW k \in DOMAIN ms[n].children PROVE CoversEntry(ms, n, k)
  <2>1. CASE n = id /\ k = key
    <3>1. ms[n].block_height = h /\ ms[n].children[k] = e BY <1>1, <1>4, <1>7, <2>1
    <3> QED BY <1>2, <3>1 DEF CoversEntry
  <2>2. CASE ~(n = id /\ k = key)
    <3> DEFINE f == ns[n].children[k]
    <3>1. n \in DOMAIN ns /\ k \in DOMAIN ns[n].children /\ ms[n].children[k] = f
      BY <1>4, <1>7, <2>2
    <3>2. CoversEntry(ns, n, k) BY <3>1 DEF Heights
    <3>3. f.kind = "Node" => f.id \in DOMAIN ns
      <4>1. ns[n].children \in ChildrenType BY <1>1, <3>1, NodeFacts
      <4>2. k \in Keys BY <3>1, <4>1, ChildrenFacts
      <4> QED BY <1>1, <3>1, <4>2 DEF Linked, IsNode, HasKey
    <3>4. ms[n].block_height = ns[n].block_height BY <1>4, <3>1
    <3>5. f.kind = "Node" => ms[f.id].block_height = ns[f.id].block_height BY <1>4, <3>3
    <3> QED BY <3>1, <3>2, <3>4, <3>5 DEF CoversEntry
  <2> QED BY <2>1, <2>2
<1>9. Heights(ms, h) BY <1>4, <1>8 DEF Heights
<1>10. Steps(ns, ms, rt, a, h, {id}) BY <1>4, <1>6, <1>9 DEF Steps
<1> QED BY <1>10 DEF ms, e

LEMMA AddSteps ==
    ASSUME NEW ns, NEW rt, IsTree(ns, rt), NEW a \in AccountIds, rt[a] # 0, NEW h \in Nat,
           Heights(ns, h), NEW id, StoredAt(ns, rt, a, h, id), NEW key \in Keys,
           ~IsNode(ns[id], key)
    PROVE  /\ Steps(ns, AddNode(ns, id, key, h), rt, a, h, {id})
           /\ StoredAt(AddNode(ns, id, key, h), rt, a, h, Len(ns) + 1)
<1> DEFINE new == Len(ns) + 1
           ms == AddNode(ns, id, key, h)
           added == Added(ns, id, key, h)
           ref == NodeRef(Len(ns) + 1)
<1>1. /\ Linked(ns) /\ ns \in Seq(NodeType) /\ id \in DOMAIN ns /\ id \in Below(ns, rt[a])
      /\ ns[id].block_height = h
  BY TreeFacts DEF Below, StoredAt
<1>2. ref \in EntryType /\ ref.kind = "Node" /\ ref.id = new /\ new \notin DOMAIN ns
  BY <1>1, NewIsNew, EntryFacts
<1>3. ns[id] \in NodeType /\ ns[id].children \in ChildrenType BY <1>1, NodeFacts
<1>4. /\ ms \in Seq(NodeType) /\ Len(ms) = new /\ DOMAIN ms = DOMAIN ns \cup {new}
      /\ ms[new] = added /\ added.block_height = h
      /\ \A n \in DOMAIN ns : ms[n].block_height = ns[n].block_height
      /\ \A n \in DOMAIN ns : n # id => ms[n] = ns[n]
      /\ ms[id].children = Insert(ns[id].children, key, ref)
  <2>1. ms = AddNode(ns, id, key, h) OBVIOUS
  <2> HIDE DEF ms
  <2>2. added.block_height = h BY <1>1, AddedFacts
  <2>3. NodeAdded(ns, ms, id, key, h) BY <1>1, <2>1, AddNodeFacts
  <2> QED BY <2>2, <2>3 DEF NodeAdded
<1>5. OneMore(ns, ms, <<id, key>>) /\ Linked(ms) BY <1>1, AddNodeLinks
<1> HIDE DEF ms, ref
<1>6. Grows(ns, ms, rt, a) /\ new \in Below(ms, rt[a]) BY <1>1, <1>4, <1>5, GrowsOneMore
<1>7. /\ DOMAIN ms[id].children = DOMAIN ns[id].children \cup {key}
      /\ ms[id].children[key] = ref
      /\ \A x \in DOMAIN ns[id].children : x # key => ms[id].children[x] = ns[id].children[x]
  <2> DEFINE f == ns[id].children
  <2>1. f \in ChildrenType BY <1>3
  <2>2. ms[id].children = Insert(f, key, ref) BY <1>4
  <2> HIDE DEF f
  <2>3. ref \in EntryType BY <1>2
  <2>4. /\ DOMAIN Insert(f, key, ref) = DOMAIN f \cup {key} /\ Insert(f, key, ref)[key] = ref
        /\ \A x \in DOMAIN f : x # key => Insert(f, key, ref)[x] = f[x]
    BY <2>1, <2>3, InsertFacts
  <2> QED BY <2>2, <2>4 DEF f
<1>8. ASSUME NEW k \in DOMAIN added.children PROVE CoversEntry(ms, new, k)
  <2>1. CASE HasKey(ns[id].children, key)
    <3> DEFINE e == ns[id].children[key]
    <3>1. key \in DOMAIN ns[id].children /\ e.kind # "Node" BY <2>1 DEF HasKey, IsNode
    <3>2. e \in EntryType BY <1>3, <3>1, ChildrenFacts
    <3>3. CoversEntry(ns, id, key) BY <1>1, <3>1 DEF Heights
    <3>4. h >= e.height BY <1>1, <3>1, <3>3 DEF CoversEntry
    <3>5. k = EmptyKey /\ added.children[k] = e
      <4>1. added = NewNodeWith(e, h) BY <2>1 DEF Added
      <4> HIDE DEF e
      <4>2. DOMAIN NewNodeWith(e, h).children = {EmptyKey} /\ NewNodeWith(e, h).children[EmptyKey] = e
        BY <3>1, <3>2, NewNodeWithFacts
      <4> QED BY <1>8, <4>1, <4>2
    <3> HIDE DEF e
    <3>6. ms[new].children[k] = e /\ ms[new].block_height = h BY <1>4, <3>5
    <3> QED BY <3>1, <3>4, <3>6 DEF CoversEntry
  <2>2. CASE ~HasKey(ns[id].children, key) BY <1>8, <2>2, NewNodeFacts DEF Added
  <2> QED BY <2>1, <2>2
<1>9. ASSUME NEW n \in DOMAIN ns, NEW k \in DOMAIN ms[n].children PROVE CoversEntry(ms, n, k)
  <2>1. CASE n = id /\ k = key
    <3>1. ms[n].block_height = h /\ ms[n].children[k] = ref /\ ms[new].block_height = h
      BY <1>1, <1>4, <1>7, <2>1
    <3> QED BY <1>2, <3>1 DEF CoversEntry
  <2>2. CASE ~(n = id /\ k = key)
    <3> DEFINE f == ns[n].children[k]
    <3>1. k \in DOMAIN ns[n].children /\ ms[n].children[k] = f BY <1>4, <1>7, <2>2
    <3>2. CoversEntry(ns, n, k) BY <3>1 DEF Heights
    <3>3. f.kind = "Node" => f.id \in DOMAIN ns
      <4>1. ns[n].children \in ChildrenType BY <1>1, <3>1, NodeFacts
      <4>2. k \in Keys BY <3>1, <4>1, ChildrenFacts
      <4> QED BY <1>1, <3>1, <4>2 DEF Linked, IsNode, HasKey
    <3>4. ms[n].block_height = ns[n].block_height BY <1>4, <3>1
    <3>5. f.kind = "Node" => ms[f.id].block_height = ns[f.id].block_height BY <1>4, <3>3
    <3> QED BY <3>1, <3>2, <3>4, <3>5 DEF CoversEntry
  <2> QED BY <2>1, <2>2
<1> HIDE DEF new, added
<1>10. \A n \in DOMAIN ms : ms[n].block_height <= h BY <1>4 DEF Heights
<1>11. Heights(ms, h) BY <1>4, <1>8, <1>9, <1>10 DEF Heights
<1>12. Steps(ns, ms, rt, a, h, {id}) BY <1>4, <1>6, <1>11 DEF Steps
<1>13. StoredAt(ms, rt, a, h, new) BY <1>4, <1>6 DEF StoredAt
<1> QED BY <1>12, <1>13 DEF ms, new

(* The node below a key is stored, or created there. *)
LEMMA ChildSteps ==
    ASSUME NEW ns, NEW rt, IsTree(ns, rt), NEW a \in AccountIds, rt[a] # 0, NEW h \in Nat,
           Heights(ns, h), NEW id, StoredAt(ns, rt, a, h, id), NEW key \in Keys
    PROVE  /\ Steps(ns, WithChild(ns, id, key, h), rt, a, h, IF IsNode(ns[id], key) THEN {} ELSE {id})
           /\ StoredAt(WithChild(ns, id, key, h), rt, a, h, Child(ns, id, key))
           /\ IsNode(ns[id], key) => Child(ns, id, key) = ns[id].children[key].id
           /\ ~IsNode(ns[id], key) => Child(ns, id, key) \notin DOMAIN ns
<1>1. /\ Linked(ns) /\ ns \in Seq(NodeType) /\ id \in DOMAIN ns /\ id \in Below(ns, rt[a])
      /\ ns[id].block_height = h /\ rt[a] \in DOMAIN ns
  BY TreeFacts DEF Below, StoredAt
<1>2. CASE IsNode(ns[id], key)
  <2> DEFINE c == ns[id].children[key].id
  <2>1. c \in Below(ns, rt[a]) /\ c \in DOMAIN ns BY <1>1, <1>2, BelowIsClosed DEF Linked
  <2>2. ASSUME NEW n \in DOMAIN ns, NEW k \in Keys, IsNode(ns[n], k), ns[n].children[k].id = c
        PROVE  ns[n].block_height = h
    <3>1. PICK p : PlacesIn(ns, rt, c) = {p} BY <2>1 DEF IsTree
    <3>2. <<n, k>> \in PlacesIn(ns, rt, c) BY <2>2 DEF PlacesIn
    <3>3. <<id, key>> \in PlacesIn(ns, rt, c) BY <1>1, <1>2 DEF PlacesIn
    <3>4. <<n, k>> = <<id, key>> BY <3>1, <3>2, <3>3
    <3>5. n = id BY <3>4
    <3> QED BY <1>1, <3>5
  <2>3. WithChild(ns, id, key, h) = Touch(ns, c, h) /\ Child(ns, id, key) = c
    BY <1>2 DEF WithChild, Child
  <2> HIDE DEF c
  <2>4. Steps(ns, Touch(ns, c, h), rt, a, h, {}) /\ StoredAt(Touch(ns, c, h), rt, a, h, c)
    BY <2>1, <2>2, TouchSteps
  <2> QED BY <1>2, <2>3, <2>4 DEF c
<1>3. CASE ~IsNode(ns[id], key)
  <2>1. WithChild(ns, id, key, h) = AddNode(ns, id, key, h) /\ Child(ns, id, key) = Len(ns) + 1
    BY <1>3 DEF WithChild, Child
  <2>2. Len(ns) + 1 \notin DOMAIN ns BY <1>1, NewIsNew
  <2>3. /\ Steps(ns, AddNode(ns, id, key, h), rt, a, h, {id})
        /\ StoredAt(AddNode(ns, id, key, h), rt, a, h, Len(ns) + 1)
    BY <1>3, AddSteps
  <2> QED BY <1>3, <2>1, <2>2, <2>3
<1> QED BY <1>2, <1>3

(* The first node of an account is below no other.                         *)
LEMMA RootSteps ==
    ASSUME NEW ns, NEW rt, IsTree(ns, rt), NEW a \in AccountIds, rt[a] # 0, NEW h \in Nat,
           Heights(ns, h)
    PROVE  /\ Steps(ns, Touch(ns, rt[a], h), rt, a, h, {})
           /\ StoredAt(Touch(ns, rt[a], h), rt, a, h, rt[a])
<1> DEFINE c == rt[a]
<1>1. Linked(ns) /\ c \in DOMAIN ns /\ ns \in Seq(NodeType) BY TreeFacts
<1>2. c \in Below(ns, rt[a]) BY <1>1, BelowIsClosed
<1>3. ASSUME NEW n \in DOMAIN ns, NEW k \in Keys, IsNode(ns[n], k), ns[n].children[k].id = c
      PROVE  ns[n].block_height = h
  <2>1. PICK p : PlacesIn(ns, rt, c) = {p} BY <1>1 DEF IsTree
  <2>2. <<n, k>> \in PlacesIn(ns, rt, c) BY <1>3 DEF PlacesIn
  <2>3. <<0, a>> \in PlacesIn(ns, rt, c) BY DEF PlacesIn
  <2>4. <<n, k>> = <<0, a>> BY <2>1, <2>2, <2>3
  <2>5. n = 0 BY <2>4
  <2> QED BY <1>1, <1>3, <2>5, NodeFacts
<1> QED BY <1>2, <1>3, TouchSteps

----------------------------------------------------------------------------
(* The recursive functions of writes and grants exist and unfold.           *)

FirstVisit(ns, id, data, write_approved, writable, h) ==
    Enter([outcome |-> "ok", nodes |-> ns, ids |-> <<>>, approved |-> <<>>],
          Touch(ns, id, h), id, data[1], write_approved \/ id \in writable, h)

NextWrite(g, ns, id, data, write_approved, writable, h, n) ==
    IF n = 1 THEN FirstVisit(ns, id, data, write_approved, writable, h)
    ELSE SetKey(g[n - 1], data[n], writable, h)

IsWrite(g, ns, id, data, write_approved, writable, h) ==
    g = [n \in 1 .. Len(data) |-> NextWrite(g, ns, id, data, write_approved, writable, h, n)]

LEMMA WriteUnfolded ==
    ASSUME NEW ns, NEW id, NEW data, NEW write_approved, NEW writable, NEW h
    PROVE  WriteSteps(ns, id, data, write_approved, writable, h) =
                CHOOSE g : IsWrite(g, ns, id, data, write_approved, writable, h)
BY DEF WriteSteps, IsWrite, NextWrite, FirstVisit

LEMMA WriteExists ==
    ASSUME NEW ns, NEW id, NEW data, NEW write_approved, NEW writable, NEW h, Len(data) \in Nat
    PROVE  \E g : IsWrite(g, ns, id, data, write_approved, writable, h)
<1> DEFINE L == Len(data)
           UpTo(g, n) ==
               \A k \in 1 .. L : k <= n => g[k] = NextWrite(g, ns, id, data, write_approved, writable, h, k)
           N == {n \in Nat : \E g : g = [k \in 1 .. L |-> g[k]] /\ UpTo(g, n)}
<1>1. 0 \in N
  <2> DEFINE g0 == [k \in 1 .. L |-> NextWrite(<<>>, ns, id, data, write_approved, writable, h, k)]
  <2>1. g0 = [k \in 1 .. L |-> g0[k]] OBVIOUS
  <2>2. \A k \in 1 .. L : k <= 0 => k = 0 OBVIOUS
  <2>3. UpTo(g0, 0) BY <2>2 DEF NextWrite
  <2> HIDE DEF g0
  <2> QED BY <2>1, <2>3
<1>2. ASSUME NEW n \in Nat, n \in N PROVE n + 1 \in N
  <2>1. PICK g : g = [k \in 1 .. L |-> g[k]] /\ UpTo(g, n) BY <1>2
  <2> DEFINE h0 == [k \in 1 .. L |-> NextWrite(g, ns, id, data, write_approved, writable, h, k)]
  <2>2. h0 = [k \in 1 .. L |-> h0[k]] OBVIOUS
  <2>3. \A k \in 1 .. L : k <= n => h0[k] = g[k] BY <2>1
  <2>4. ASSUME NEW k \in 1 .. L, k <= n + 1
        PROVE  h0[k] = NextWrite(h0, ns, id, data, write_approved, writable, h, k)
    <3>1. h0[k] = NextWrite(g, ns, id, data, write_approved, writable, h, k) OBVIOUS
    <3>2. CASE k = 1
      <4> HIDE DEF h0
      <4> QED BY <3>1, <3>2 DEF NextWrite
    <3>3. CASE k # 1
      <4>1. k - 1 \in 1 .. L /\ k - 1 <= n BY <2>4, <3>3
      <4>2. h0[k - 1] = g[k - 1] BY <2>3, <4>1
      <4> HIDE DEF h0
      <4> QED BY <3>1, <3>3, <4>2 DEF NextWrite
    <3> QED BY <3>2, <3>3
  <2>5. UpTo(h0, n + 1) BY <2>4
  <2>6. \E f : f = [k \in 1 .. L |-> f[k]] /\ UpTo(f, n + 1)
    <3> HIDE DEF UpTo, h0
    <3> QED BY <2>2, <2>5
  <2>7. n + 1 \in Nat OBVIOUS
  <2> HIDE DEF UpTo
  <2> QED BY <2>6, <2>7
<1>3. L \in N
  <2> HIDE DEF N
  <2> QED BY <1>1, <1>2, InductionOnNat
<1>4. PICK g : g = [k \in 1 .. L |-> g[k]] /\ UpTo(g, L) BY <1>3
<1>5. \A k \in 1 .. L : g[k] = NextWrite(g, ns, id, data, write_approved, writable, h, k) BY <1>4
<1>6. IsWrite(g, ns, id, data, write_approved, writable, h) BY <1>4, <1>5 DEF IsWrite
<1> QED BY <1>6

LEMMA WriteUnfolds ==
    ASSUME NEW ns, NEW id, NEW data, NEW write_approved, NEW writable, NEW h, Len(data) \in Nat,
           NEW n \in 1 .. Len(data)
    PROVE  WriteSteps(ns, id, data, write_approved, writable, h)[n] =
                NextWrite(WriteSteps(ns, id, data, write_approved, writable, h),
                          ns, id, data, write_approved, writable, h, n)
<1>1. IsWrite(WriteSteps(ns, id, data, write_approved, writable, h),
              ns, id, data, write_approved, writable, h)
  BY WriteExists, WriteUnfolded
<1> QED BY <1>1 DEF IsWrite

NextGrant(g, ns, id, path, h, n) ==
    IF n = 0 THEN [outcome |-> "ok", nodes |-> Touch(ns, id, h), id |-> id]
    ELSE IF g[n - 1].outcome # "ok" THEN g[n - 1]
    ELSE IF NoChild(g[n - 1].nodes, g[n - 1].id, path[n])
    THEN [outcome |-> "empty_key", nodes |-> g[n - 1].nodes, id |-> g[n - 1].id]
    ELSE [outcome |-> "ok", nodes |-> WithChild(g[n - 1].nodes, g[n - 1].id, path[n], h),
          id |-> Child(g[n - 1].nodes, g[n - 1].id, path[n])]

IsGrant(g, ns, id, path, h) == g = [n \in 0 .. Len(path) |-> NextGrant(g, ns, id, path, h, n)]

LEMMA GrantUnfolded ==
    ASSUME NEW ns, NEW id, NEW path, NEW h
    PROVE  GrantSteps(ns, id, path, h) = CHOOSE g : IsGrant(g, ns, id, path, h)
BY DEF GrantSteps, IsGrant, NextGrant

LEMMA GrantExists ==
    ASSUME NEW ns, NEW id, NEW path, NEW h, Len(path) \in Nat
    PROVE  \E g : IsGrant(g, ns, id, path, h)
<1> DEFINE L == Len(path)
           UpTo(g, n) == \A k \in 0 .. L : k <= n => g[k] = NextGrant(g, ns, id, path, h, k)
           N == {n \in Nat : \E g : g = [k \in 0 .. L |-> g[k]] /\ UpTo(g, n)}
<1>1. 0 \in N
  <2> DEFINE g0 == [k \in 0 .. L |-> NextGrant(<<>>, ns, id, path, h, k)]
  <2>1. g0 = [k \in 0 .. L |-> g0[k]] OBVIOUS
  <2>2. \A k \in 0 .. L : k <= 0 => k = 0 OBVIOUS
  <2>3. UpTo(g0, 0) BY <2>2 DEF NextGrant
  <2> HIDE DEF g0
  <2> QED BY <2>1, <2>3
<1>2. ASSUME NEW n \in Nat, n \in N PROVE n + 1 \in N
  <2>1. PICK g : g = [k \in 0 .. L |-> g[k]] /\ UpTo(g, n) BY <1>2
  <2> DEFINE h0 == [k \in 0 .. L |-> NextGrant(g, ns, id, path, h, k)]
  <2>2. h0 = [k \in 0 .. L |-> h0[k]] OBVIOUS
  <2>3. \A k \in 0 .. L : k <= n => h0[k] = g[k] BY <2>1
  <2>4. ASSUME NEW k \in 0 .. L, k <= n + 1 PROVE h0[k] = NextGrant(h0, ns, id, path, h, k)
    <3>1. h0[k] = NextGrant(g, ns, id, path, h, k) OBVIOUS
    <3>2. CASE k = 0
      <4> HIDE DEF h0
      <4> QED BY <3>1, <3>2 DEF NextGrant
    <3>3. CASE k # 0
      <4>1. k - 1 \in 0 .. L /\ k - 1 <= n BY <2>4, <3>3
      <4>2. h0[k - 1] = g[k - 1] BY <2>3, <4>1
      <4> HIDE DEF h0
      <4> QED BY <3>1, <3>3, <4>2 DEF NextGrant
    <3> QED BY <3>2, <3>3
  <2>5. UpTo(h0, n + 1) BY <2>4
  <2>6. \E f : f = [k \in 0 .. L |-> f[k]] /\ UpTo(f, n + 1)
    <3> HIDE DEF UpTo, h0
    <3> QED BY <2>2, <2>5
  <2>7. n + 1 \in Nat OBVIOUS
  <2> HIDE DEF UpTo
  <2> QED BY <2>6, <2>7
<1>3. L \in N
  <2> HIDE DEF N
  <2> QED BY <1>1, <1>2, InductionOnNat
<1>4. PICK g : g = [k \in 0 .. L |-> g[k]] /\ UpTo(g, L) BY <1>3
<1>5. \A k \in 0 .. L : g[k] = NextGrant(g, ns, id, path, h, k) BY <1>4
<1>6. IsGrant(g, ns, id, path, h) BY <1>4, <1>5 DEF IsGrant
<1> QED BY <1>6

LEMMA GrantUnfolds ==
    ASSUME NEW ns, NEW id, NEW path, NEW h, Len(path) \in Nat,
           NEW n \in 0 .. Len(path)
    PROVE  GrantSteps(ns, id, path, h)[n] = NextGrant(GrantSteps(ns, id, path, h), ns, id, path, h, n)
<1>1. IsGrant(GrantSteps(ns, id, path, h), ns, id, path, h) BY GrantExists, GrantUnfolded
<1> QED BY <1>1 DEF IsGrant

----------------------------------------------------------------------------
(* Writes.                                                                  *)

(* The nodes where a write may change entries.                              *)
Allowed(ns, write_approved, writable) ==
    {n \in DOMAIN ns : write_approved \/ \E g \in writable : g \in DOMAIN ns /\ n \in Below(ns, g)}

LEMMA AllowedFacts ==
    ASSUME NEW ns, Linked(ns), NEW write_approved \in BOOLEAN, NEW writable,
           NEW A, A = Allowed(ns, write_approved, writable)
    PROVE  /\ A \subseteq DOMAIN ns
           /\ \A n \in DOMAIN ns : write_approved \/ n \in writable => n \in A
           /\ \A n \in A, k \in Keys : IsNode(ns[n], k) => ns[n].children[k].id \in A
<1>1. ASSUME NEW n \in DOMAIN ns, n \in writable PROVE n \in A
  <2>1. n \in Below(ns, n) BY BelowIsClosed
  <2> QED BY <1>1, <2>1 DEF Allowed
<1>2. ASSUME NEW n \in A, NEW k \in Keys, IsNode(ns[n], k) PROVE ns[n].children[k].id \in A
  <2>1. n \in DOMAIN ns BY DEF Allowed
  <2>2. ns[n].children[k].id \in DOMAIN ns BY <1>2, <2>1 DEF Linked
  <2>3. CASE write_approved BY <2>2, <2>3 DEF Allowed
  <2>4. CASE ~write_approved
    <3>1. PICK g \in writable : g \in DOMAIN ns /\ n \in Below(ns, g) BY <2>4 DEF Allowed
    <3>2. ns[n].children[k].id \in Below(ns, g) BY <1>2, <3>1, BelowIsClosed
    <3> QED BY <2>2, <3>1, <3>2 DEF Allowed
  <2> QED BY <2>3, <2>4
<1> QED BY <1>1, <1>2 DEF Allowed

(* A write from ns in the tree of account a has come to the nodes ms and    *)
(* made i visits.                                                           *)
Written(ns, rt, a, h, A, ms, w, i) ==
    /\ Steps(ns, ms, rt, a, h, A)
    /\ w.ids \in Seq(Nat) /\ Len(w.ids) = i
    /\ w.approved \in Seq(BOOLEAN) /\ Len(w.approved) = i
    /\ \A j \in 1 .. i : /\ StoredAt(ms, rt, a, h, w.ids[j])
                         /\ w.approved[j] /\ w.ids[j] \in DOMAIN ns => w.ids[j] \in A

LEMMA StepsTree ==
    ASSUME NEW ns, NEW ms, NEW rt, NEW a, NEW h, NEW D, Steps(ns, ms, rt, a, h, D)
    PROVE  IsTree(ms, rt) /\ Heights(ms, h) /\ DOMAIN ns \subseteq DOMAIN ms
BY DEF Steps, Grows

LEMMA WrittenMoves ==
    ASSUME NEW ns, NEW rt, IsTree(ns, rt), NEW a \in AccountIds, rt[a] # 0, NEW h, NEW A,
           NEW ms, NEW w, NEW i \in Nat, Written(ns, rt, a, h, A, ms, w, i),
           NEW ls, NEW E, Steps(ms, ls, rt, a, h, E), E \cap DOMAIN ns \subseteq A
    PROVE  Written(ns, rt, a, h, A, ls, w, i)
<1>1. Steps(ns, ms, rt, a, h, A) BY DEF Written
<1>2. Steps(ns, ls, rt, a, h, A) BY <1>1, StepsTwice
<1>3. IsTree(ms, rt) BY <1>1, StepsTree
<1>4. \A j \in 1 .. i : StoredAt(ls, rt, a, h, w.ids[j])
  <2> TAKE j \in 1 .. i
  <2>1. StoredAt(ms, rt, a, h, w.ids[j]) BY DEF Written
  <2> QED BY <1>3, <2>1, StoredStays
<1> QED BY <1>2, <1>4 DEF Written

LEMMA VisitedWrites ==
    ASSUME NEW ns, NEW rt, IsTree(ns, rt), NEW a \in AccountIds, rt[a] # 0, NEW h, NEW A,
           NEW ms, NEW w, NEW i \in Nat, Written(ns, rt, a, h, A, ms, w, i),
           NEW c, StoredAt(ms, rt, a, h, c), NEW approved \in BOOLEAN,
           approved /\ c \in DOMAIN ns => c \in A,
           NEW v, v = Visited(w, ms, c, approved)
    PROVE  Written(ns, rt, a, h, A, ms, v, i + 1) /\ v.nodes = ms /\ v.outcome = "ok"
<1>1. v.nodes = ms /\ v.outcome = "ok" /\ v.ids = Append(w.ids, c) /\ v.approved = Append(w.approved, approved)
  BY DEF Visited
<1>2. IsTree(ms, rt) BY StepsTree DEF Written
<1>3. c \in Nat
  <2>1. ms \in Seq(NodeType) BY <1>2, TreeFacts
  <2>2. c \in DOMAIN ms BY DEF StoredAt, Below
  <2> QED BY <2>1, <2>2, NodeFacts
<1>4. /\ w.ids \in Seq(Nat) /\ Len(w.ids) = i
      /\ w.approved \in Seq(BOOLEAN) /\ Len(w.approved) = i
  BY DEF Written
<1>5. /\ v.ids \in Seq(Nat) /\ Len(v.ids) = i + 1
      /\ \A j \in 1 .. i : v.ids[j] = w.ids[j]
      /\ v.ids[i + 1] = c
  BY <1>1, <1>3, <1>4, AppendProperties
<1>6. /\ v.approved \in Seq(BOOLEAN) /\ Len(v.approved) = i + 1
      /\ \A j \in 1 .. i : v.approved[j] = w.approved[j]
      /\ v.approved[i + 1] = approved
  BY <1>1, <1>4, AppendProperties
<1>7. ASSUME NEW j \in 1 .. i + 1
      PROVE  /\ StoredAt(ms, rt, a, h, v.ids[j])
             /\ v.approved[j] /\ v.ids[j] \in DOMAIN ns => v.ids[j] \in A
  <2>1. CASE j = i + 1 BY <1>5, <1>6, <2>1
  <2>2. CASE j # i + 1
    <3>1. j \in 1 .. i BY <2>2
    <3>2. v.ids[j] = w.ids[j] /\ v.approved[j] = w.approved[j] BY <1>5, <1>6, <3>1
    <3> QED BY <3>1, <3>2 DEF Written
  <2> QED BY <2>1, <2>2
<1>8. Steps(ns, ms, rt, a, h, A) BY DEF Written
<1>9. Written(ns, rt, a, h, A, ms, v, i + 1) BY <1>5, <1>6, <1>7, <1>8 DEF Written
<1> QED BY <1>1, <1>9

LEMMA EnterWrites ==
    ASSUME NEW ns, NEW rt, IsTree(ns, rt), NEW a \in AccountIds, rt[a] # 0, NEW h \in Nat, NEW A,
           NEW ms, NEW w, NEW i \in Nat, Written(ns, rt, a, h, A, ms, w, i),
           NEW c, StoredAt(ms, rt, a, h, c), NEW approved \in BOOLEAN,
           approved /\ c \in DOMAIN ns => c \in A,
           NEW visit \in Visit,
           NEW v, v = Enter(w, ms, c, visit, approved, h), v.outcome = "ok"
    PROVE  Written(ns, rt, a, h, A, v.nodes, v, i + 1)
<1>1. CASE ~visit.leaf
  <2>1. v = Visited(w, ms, c, approved) BY <1>1 DEF Enter
  <2> QED BY <2>1, VisitedWrites
<1>2. CASE visit.leaf
  <2> DEFINE ls == Put(ms, c, EmptyKey, Entry(visit.value, h))
  <2>1. approved /\ ~IsNode(ms[c], EmptyKey) /\ v = Visited(w, ls, c, approved)
    BY <1>2 DEF Enter, Panic
  <2>2. IsTree(ms, rt) /\ Heights(ms, h) BY StepsTree DEF Written
  <2>3. visit.value \in STRING /\ EmptyKey \in Keys BY EmptyKeyAssumption DEF Visit
  <2>4. Steps(ms, ls, rt, a, h, {c}) BY <2>1, <2>2, <2>3, PutSteps
  <2> HIDE DEF ls
  <2>5. {c} \cap DOMAIN ns \subseteq A BY <2>1
  <2>6. Written(ns, rt, a, h, A, ls, w, i) BY <2>4, <2>5, WrittenMoves
  <2>7. StoredAt(ls, rt, a, h, c) BY <2>2, <2>4, StoredStays
  <2>8. v = Visited(w, ls, c, approved) BY <2>1
  <2>9. Written(ns, rt, a, h, A, ls, v, i + 1) /\ v.nodes = ls BY <2>6, <2>7, <2>8, VisitedWrites
  <2> QED BY <2>9
<1> QED BY <1>1, <1>2 DEF Visit

LEMMA SetKeyWrites ==
    ASSUME NEW ns, NEW rt, IsTree(ns, rt), NEW a \in AccountIds, rt[a] # 0, NEW h \in Nat,
           NEW write_approved \in BOOLEAN, NEW writable,
           NEW A, A = Allowed(ns, write_approved, writable),
           NEW w, NEW i \in Nat, Written(ns, rt, a, h, A, w.nodes, w, i), w.outcome = "ok",
           NEW visit \in Visit, visit.parent \in 1 .. i,
           NEW v, v = SetKey(w, visit, writable, h), v.outcome = "ok"
    PROVE  Written(ns, rt, a, h, A, v.nodes, v, i + 1)
<1> DEFINE id == w.ids[visit.parent]
           key == visit.key
           ms == w.nodes
           child == Child(w.nodes, w.ids[visit.parent], visit.key)
           ls == WithChild(w.nodes, w.ids[visit.parent], visit.key, h)
           ok == w.approved[visit.parent]
<1>1. key \in Keys /\ visit.value \in STRING /\ visit.leaf \in BOOLEAN BY DEF Visit
<1>2. Linked(ns) /\ Steps(ns, ms, rt, a, h, A) BY TreeFacts DEF Written
<1>3. IsTree(ms, rt) /\ Heights(ms, h) /\ DOMAIN ns \subseteq DOMAIN ms BY <1>2, StepsTree
<1>4. StoredAt(ms, rt, a, h, id) /\ (ok /\ id \in DOMAIN ns => id \in A) /\ id \in DOMAIN ms
  BY DEF Written, StoredAt, Below
<1>5. ok \in BOOLEAN
  <2>1. w.approved \in Seq(BOOLEAN) /\ Len(w.approved) = i BY DEF Written
  <2> QED BY <2>1, ElementOfSeq
<1>6. v = IF IsNode(ms[id], key)
          THEN Enter(w, ls, child, visit, ok \/ child \in writable, h)
          ELSE IF ~ok THEN Panic("denied", w)
          ELSE IF visit.leaf THEN Visited(w, Put(ms, id, key, Entry(visit.value, h)), id, TRUE)
          ELSE IF NoChild(ms, id, key) THEN Panic("empty_key", w)
          ELSE Visited(w, ls, child, TRUE)
  BY DEF SetKey
<1>7. /\ Steps(ms, ls, rt, a, h, IF IsNode(ms[id], key) THEN {} ELSE {id})
      /\ StoredAt(ls, rt, a, h, child)
      /\ IsNode(ms[id], key) => child = ms[id].children[key].id
      /\ ~IsNode(ms[id], key) => child \notin DOMAIN ms
  <2> HIDE DEF id, key, ms
  <2>1. /\ Steps(ms, WithChild(ms, id, key, h), rt, a, h, IF IsNode(ms[id], key) THEN {} ELSE {id})
        /\ StoredAt(WithChild(ms, id, key, h), rt, a, h, Child(ms, id, key))
        /\ IsNode(ms[id], key) => Child(ms, id, key) = ms[id].children[key].id
        /\ ~IsNode(ms[id], key) => Child(ms, id, key) \notin DOMAIN ms
    BY <1>1, <1>3, <1>4, ChildSteps
  <2> QED BY <2>1 DEF id, key, ms
<1>8. Written(ns, rt, a, h, A, ms, w, i) OBVIOUS
<1> HIDE DEF id, key, ms, child, ls, ok
<1>9. CASE IsNode(ms[id], key)
  <2> DEFINE approved == ok \/ child \in writable
  <2>1. v = Enter(w, ls, child, visit, approved, h) BY <1>6, <1>9
  <2>2. approved \in BOOLEAN OBVIOUS
  <2>3. approved /\ child \in DOMAIN ns => child \in A
    <3>1. CASE child \in writable BY <1>2, <3>1, AllowedFacts
    <3>2. CASE ok /\ child \in DOMAIN ns
      <4>1. id \in DOMAIN ns /\ IsNode(ns[id], key) /\ ns[id].children[key].id = child
        BY <1>1, <1>2, <1>4, <1>7, <1>9, <3>2 DEF Steps, Grows
      <4>2. id \in A BY <1>4, <3>2, <4>1
      <4> QED BY <1>1, <1>2, <4>1, <4>2, AllowedFacts
    <3> QED BY <3>1, <3>2
  <2> HIDE DEF approved
  <2>4. Steps(ms, ls, rt, a, h, {}) BY <1>7, <1>9
  <2>5. Written(ns, rt, a, h, A, ls, w, i) BY <1>8, <2>4, WrittenMoves
  <2> QED BY <1>7, <2>1, <2>2, <2>3, <2>5, EnterWrites
<1>10. CASE ~IsNode(ms[id], key) /\ ~visit.leaf
  <2> DEFINE yes == TRUE
  <2>0. v = IF ~ok THEN Panic("denied", w)
            ELSE IF NoChild(ms, id, key) THEN Panic("empty_key", w) ELSE Visited(w, ls, child, yes)
    BY <1>6, <1>10
  <2>1. ok /\ v = Visited(w, ls, child, yes)
    <3>1. v # Panic("denied", w) /\ v # Panic("empty_key", w)
      <4>1. v # Panic("denied", w) BY DEF Panic
      <4>2. v # Panic("empty_key", w) BY DEF Panic
      <4> QED BY <4>1, <4>2
    <3> QED BY <2>0, <3>1
  <2>2. child \notin DOMAIN ns /\ yes \in BOOLEAN BY <1>3, <1>7, <1>10
  <2> HIDE DEF yes
  <2>3. Steps(ms, ls, rt, a, h, {id}) BY <1>7, <1>10
  <2>4. {id} \cap DOMAIN ns \subseteq A BY <1>4, <2>1
  <2>5. Written(ns, rt, a, h, A, ls, w, i) BY <1>8, <2>3, <2>4, WrittenMoves
  <2>6. Written(ns, rt, a, h, A, ls, v, i + 1) /\ v.nodes = ls
    BY <1>7, <2>1, <2>2, <2>5, VisitedWrites
  <2> QED BY <2>6
<1>11. CASE ~IsNode(ms[id], key) /\ visit.leaf
  <2> DEFINE ps == Put(ms, id, key, Entry(visit.value, h))
  <2> DEFINE yes == TRUE
  <2>0. v = IF ~ok THEN Panic("denied", w) ELSE Visited(w, ps, id, yes) BY <1>6, <1>11
  <2>1. ok /\ v = Visited(w, ps, id, yes)
    <3>1. v # Panic("denied", w) BY DEF Panic
    <3> QED BY <2>0, <3>1
  <2>2. Steps(ms, ps, rt, a, h, {id}) /\ yes \in BOOLEAN BY <1>1, <1>3, <1>4, <1>11, PutSteps
  <2> HIDE DEF ps, yes
  <2>3. {id} \cap DOMAIN ns \subseteq A BY <1>4, <2>1
  <2>4. Written(ns, rt, a, h, A, ps, w, i) BY <1>8, <2>2, <2>3, WrittenMoves
  <2>5. StoredAt(ps, rt, a, h, id) BY <1>3, <1>4, <2>2, StoredStays
  <2>6. id \in DOMAIN ns => id \in A BY <1>4, <2>1
  <2>7. Written(ns, rt, a, h, A, ps, v, i + 1) /\ v.nodes = ps
    BY <2>1, <2>2, <2>4, <2>5, <2>6, VisitedWrites
  <2> QED BY <2>7
<1> QED BY <1>1, <1>9, <1>10, <1>11

(* A write that is accepted changes the tree of its account only, and       *)
(* entries only where that is allowed.                                      *)
LEMMA SetWrites ==
    ASSUME NEW ns, NEW rt, IsTree(ns, rt), NEW a \in AccountIds, rt[a] # 0, NEW h \in Nat,
           Heights(ns, h), NEW write_approved \in BOOLEAN, NEW writable,
           NEW data, IsData(data),
           NEW w, w = recursive_set(ns, rt[a], data, write_approved, writable, h), w.outcome = "ok"
    PROVE  Steps(ns, w.nodes, rt, a, h, Allowed(ns, write_approved, writable))
<1> DEFINE A == Allowed(ns, write_approved, writable)
           W == WriteSteps(ns, rt[a], data, write_approved, writable, h)
           L == Len(data)
           N == {n \in Nat : n + 1 <= L /\ W[n + 1].outcome = "ok" =>
                                Written(ns, rt, a, h, A, W[n + 1].nodes, W[n + 1], n + 1)}
<1>1. /\ data \in Seq(Visit) /\ L \in Nat /\ L >= 1 /\ \A i \in 1 .. L : data[i] \in Visit
      /\ \A i \in 2 .. L : data[i].parent \in 1 .. i - 1
  <2>1. data \in Seq(Visit) /\ data # <<>> /\ \A i \in 2 .. L : data[i].parent \in 1 .. i - 1
    BY DEF IsData
  <2>2. L \in Nat /\ L >= 1 /\ \A i \in 1 .. L : data[i] \in Visit
    BY <2>1, LenProperties, ElementOfSeq, EmptySeq
  <2> QED BY <2>1, <2>2
<1>2. /\ W[1] = FirstVisit(ns, rt[a], data, write_approved, writable, h)
      /\ \A n \in 1 .. L : n # 1 => W[n] = SetKey(W[n - 1], data[n], writable, h)
  <2>1. \A n \in 1 .. L : W[n] = NextWrite(W, ns, rt[a], data, write_approved, writable, h, n)
    BY <1>1, WriteUnfolds
  <2>2. 1 \in 1 .. L BY <1>1
  <2> HIDE DEF W, L
  <2> QED BY <2>1, <2>2 DEF NextWrite
<1>3. Linked(ns) /\ rt[a] \in DOMAIN ns BY TreeFacts
<1> HIDE DEF W, L
<1>4. W[1].outcome = "ok" => Written(ns, rt, a, h, A, W[1].nodes, W[1], 1)
  <2> DEFINE s == [outcome |-> "ok", nodes |-> ns, ids |-> <<>>, approved |-> <<>>]
             ts == Touch(ns, rt[a], h)
             c == rt[a]
             approved == write_approved \/ rt[a] \in writable
  <2>1. W[1] = Enter(s, ts, c, data[1], approved, h) BY <1>2 DEF FirstVisit
  <2>2. Steps(ns, ns, rt, a, h, A) BY StepsSelf
  <2>3. Written(ns, rt, a, h, A, ns, s, 0)
    <3>1. s.ids \in Seq(Nat) /\ Len(s.ids) = 0 /\ s.approved \in Seq(BOOLEAN) /\ Len(s.approved) = 0
      BY EmptySeq
    <3>2. \A j \in 1 .. 0 : FALSE OBVIOUS
    <3> HIDE DEF s, A
    <3> QED BY <2>2, <3>1, <3>2 DEF Written
  <2>4. Steps(ns, ts, rt, a, h, {}) /\ StoredAt(ts, rt, a, h, c) BY RootSteps
  <2>5. approved \in BOOLEAN /\ (approved /\ c \in DOMAIN ns => c \in A) BY <1>3, AllowedFacts
  <2>6. data[1] \in Visit BY <1>1
  <2> HIDE DEF s, ts, c, approved, A
  <2>7. Written(ns, rt, a, h, A, ts, s, 0) BY <2>3, <2>4, WrittenMoves
  <2>8. W[1].outcome = "ok" => Written(ns, rt, a, h, A, W[1].nodes, W[1], 0 + 1)
    BY <2>1, <2>4, <2>5, <2>6, <2>7, EnterWrites
  <2> QED BY <2>8
<1>5. 0 \in N BY <1>4
<1>6. ASSUME NEW n \in Nat, n \in N PROVE n + 1 \in N
  <2> SUFFICES ASSUME (n + 1) + 1 <= L, W[(n + 1) + 1].outcome = "ok"
               PROVE  Written(ns, rt, a, h, A, W[(n + 1) + 1].nodes, W[(n + 1) + 1], (n + 1) + 1)
    OBVIOUS
  <2> DEFINE i == n + 1
  <2>1. i \in Nat /\ i + 1 \in 1 .. L /\ i + 1 \in 2 .. L /\ i + 1 # 1 /\ (i + 1) - 1 = i /\ i <= L
    BY <1>1
  <2>2. W[i + 1] = SetKey(W[i], data[i + 1], writable, h) /\ W[i + 1].outcome = "ok" BY <1>2, <2>1
  <2>3. W[i].outcome = "ok" BY <2>2 DEF SetKey
  <2>4. Written(ns, rt, a, h, A, W[i].nodes, W[i], i) BY <1>6, <2>1, <2>3
  <2>5. data[i + 1] \in Visit /\ data[i + 1].parent \in 1 .. i BY <1>1, <2>1
  <2>6. A = Allowed(ns, write_approved, writable) OBVIOUS
  <2> HIDE DEF i, A
  <2>7. Written(ns, rt, a, h, A, W[i + 1].nodes, W[i + 1], i + 1)
    BY <2>1, <2>2, <2>3, <2>4, <2>5, <2>6, SetKeyWrites
  <2> QED BY <2>7 DEF i
<1>7. L - 1 \in N
  <2>1. L - 1 \in Nat BY <1>1
  <2> HIDE DEF N
  <2> QED BY <1>5, <1>6, <2>1, InductionOnNat
<1>8. w = W[L] BY DEF recursive_set, W, L
<1>9. (L - 1) + 1 = L BY <1>1
<1>10. Written(ns, rt, a, h, A, W[L].nodes, W[L], L) BY <1>1, <1>7, <1>8, <1>9
<1> QED BY <1>8, <1>10 DEF Written

(* So does the walk of a grant, which ends in the tree of the account.      *)
LEMMA GrantWrites ==
    ASSUME NEW ns, NEW rt, IsTree(ns, rt), NEW a \in AccountIds, rt[a] # 0, NEW h \in Nat,
           Heights(ns, h), NEW path \in Seq(Keys),
           NEW w, w = GrantPath(ns, rt[a], path, h), w.outcome = "ok"
    PROVE  Steps(ns, w.nodes, rt, a, h, DOMAIN ns) /\ w.id \in Below(w.nodes, rt[a])
<1> DEFINE W == GrantSteps(ns, rt[a], path, h)
           L == Len(path)
           D == DOMAIN ns
           N == {n \in Nat : n <= L /\ W[n].outcome = "ok" =>
                    Steps(ns, W[n].nodes, rt, a, h, D) /\ StoredAt(W[n].nodes, rt, a, h, W[n].id)}
<1>1. L \in Nat /\ \A n \in 1 .. L : path[n] \in Keys BY LenProperties, ElementOfSeq
<1>2. \A n \in 0 .. L : W[n] = NextGrant(W, ns, rt[a], path, h, n) BY <1>1, GrantUnfolds
<1> HIDE DEF W, L
<1>3. 0 \in N
  <2> DEFINE ts == Touch(ns, rt[a], h)
  <2>1. 0 \in 0 .. L BY <1>1
  <2>2. W[0] = [outcome |-> "ok", nodes |-> ts, id |-> rt[a]] BY <1>2, <2>1 DEF NextGrant
  <2>3. Steps(ns, ts, rt, a, h, {}) /\ StoredAt(ts, rt, a, h, rt[a]) BY RootSteps
  <2> HIDE DEF ts, D
  <2>4. Steps(ns, ts, rt, a, h, D) BY <2>3 DEF Steps
  <2> QED BY <2>2, <2>3, <2>4
<1>4. ASSUME NEW n \in Nat, n \in N PROVE n + 1 \in N
  <2> SUFFICES ASSUME n + 1 <= L, W[n + 1].outcome = "ok"
               PROVE  /\ Steps(ns, W[n + 1].nodes, rt, a, h, D)
                      /\ StoredAt(W[n + 1].nodes, rt, a, h, W[n + 1].id)
    OBVIOUS
  <2> DEFINE ms == W[n].nodes
             id == W[n].id
             key == path[n + 1]
  <2>1. n + 1 \in 0 .. L /\ n + 1 \in 1 .. L /\ n + 1 # 0 /\ (n + 1) - 1 = n /\ n <= L BY <1>1
  <2>2. W[n + 1] = IF W[n].outcome # "ok" THEN W[n]
                   ELSE IF NoChild(ms, id, key) THEN [outcome |-> "empty_key", nodes |-> ms, id |-> id]
                   ELSE [outcome |-> "ok", nodes |-> WithChild(ms, id, key, h), id |-> Child(ms, id, key)]
    BY <1>2, <2>1 DEF NextGrant
  <2>3. W[n].outcome = "ok" BY <2>2
  <2>4. Steps(ns, ms, rt, a, h, D) /\ StoredAt(ms, rt, a, h, id) BY <1>4, <2>1, <2>3
  <2>5. key \in Keys BY <1>1, <2>1
  <2> HIDE DEF ms, id, key
  <2>6. W[n + 1].nodes = WithChild(ms, id, key, h) /\ W[n + 1].id = Child(ms, id, key)
    BY <2>2, <2>3
  <2>7. IsTree(ms, rt) /\ Heights(ms, h) BY <2>4, StepsTree
  <2> DEFINE E == IF IsNode(ms[id], key) THEN {} ELSE {id}
             ls == WithChild(ms, id, key, h)
             c == Child(ms, id, key)
  <2>8. Steps(ms, ls, rt, a, h, E) /\ StoredAt(ls, rt, a, h, c) BY <2>4, <2>5, <2>7, ChildSteps
  <2> HIDE DEF E, ls, c
  <2>9. E \cap DOMAIN ns \subseteq D OBVIOUS
  <2>10. Steps(ns, ls, rt, a, h, D) BY <2>4, <2>8, <2>9, StepsTwice
  <2> QED BY <2>6, <2>8, <2>10 DEF ls, c
<1>5. L \in N
  <2> HIDE DEF N
  <2> QED BY <1>1, <1>3, <1>4, InductionOnNat
<1>6. w = W[L] BY DEF GrantPath, W, L
<1> QED BY <1>1, <1>5, <1>6 DEF StoredAt

----------------------------------------------------------------------------
(* The node of an account.                                                  *)

(* The nodes ms and roots qt come from ns and rt when account a gets a      *)
(* node, if it has none.                                                    *)
Rooted(ns, ms, rt, qt, a, h) ==
    /\ IsTree(ms, qt) /\ Heights(ms, h)
    /\ qt[a] # 0
    /\ \A b \in AccountIds \ {a} : qt[b] = rt[b]
    /\ rt[a] # 0 => ms = ns /\ qt = rt
    /\ rt[a] = 0 => Below(ms, qt[a]) = {qt[a]} /\ DOMAIN ms[qt[a]].children = {}
    /\ DOMAIN ns \subseteq DOMAIN ms
    /\ \A n \in DOMAIN ns : ms[n] = ns[n] /\ Below(ms, n) = Below(ns, n)

LEMMA RootedFacts ==
    ASSUME NEW ns, NEW rt, IsTree(ns, rt), NEW h \in Nat, Heights(ns, h), NEW a \in AccountIds,
           NEW ms, ms = IF rt[a] = 0 THEN Append(ns, NewNode(h)) ELSE ns,
           NEW qt, qt = [rt EXCEPT ![a] = IF rt[a] = 0 THEN Len(ns) + 1 ELSE rt[a]]
    PROVE  Rooted(ns, ms, rt, qt, a, h)
<1> DEFINE new == Len(ns) + 1
           p == <<0, a>>
<1>1. /\ Linked(ns) /\ ns \in Seq(NodeType) /\ \A b \in AccountIds : rt[b] # 0 => rt[b] \in DOMAIN ns
      /\ rt \in [AccountIds -> 0 .. Len(ns)]
  BY TreeFacts DEF IsTree
<1>2. Len(ns) \in Nat /\ new \notin DOMAIN ns /\ new # 0 /\ DOMAIN ns = 1 .. Len(ns) BY <1>1, NewIsNew
<1>3. CASE rt[a] # 0
  <2>1. ms = ns /\ qt = rt BY <1>1, <1>3
  <2> QED BY <1>3, <2>1 DEF Rooted
<1>4. CASE rt[a] = 0
  <2> DEFINE node == NewNode(h)
  <2>1. node \in NodeType /\ node.block_height = h /\ DOMAIN node.children = {} /\ \A k : ~IsNode(node, k)
    BY NewNodeFacts
  <2> HIDE DEF node
  <2>2. ms = Append(ns, node) BY <1>4 DEF node
  <2>3. /\ ms \in Seq(NodeType) /\ Len(ms) = new
        /\ DOMAIN ms = DOMAIN ns \cup {new} /\ ms[new] = node
        /\ \A n \in DOMAIN ns : ms[n] = ns[n]
    BY <1>1, <2>1, <2>2, AppendFacts
  <2>4. qt[a] = new /\ (\A b \in AccountIds \ {a} : qt[b] = rt[b]) /\ qt \in [AccountIds -> 0 .. Len(ms)]
    <3>1. qt[a] = new /\ (\A b \in AccountIds \ {a} : qt[b] = rt[b]) BY <1>1, <1>4
    <3>2. 0 .. Len(ns) \subseteq 0 .. Len(ms) /\ new \in 0 .. Len(ms) BY <1>2, <2>3
    <3>3. DOMAIN qt = AccountIds BY <1>1
    <3>4. \A b \in AccountIds : qt[b] \in 0 .. Len(ms) BY <1>1, <3>1, <3>2
    <3>5. qt = [b \in AccountIds |-> qt[b]] BY <1>1
    <3> HIDE DEF new
    <3> QED BY <3>1, <3>4, <3>5
  <2>5. \A n \in DOMAIN ns, k \in Keys : <<n, k>> # p
    <3>1. \A n \in DOMAIN ns, k \in Keys : <<n, k>> = p => n = 0 OBVIOUS
    <3> QED BY <1>2, <3>1
  <2>6. OneMore(ns, ms, p)
    <3> HIDE DEF p
    <3>1. \A k \in Keys : ~IsNode(ms[new], k) BY <2>1, <2>3
    <3>2. DOMAIN ms = DOMAIN ns \cup {Len(ns) + 1} BY <2>3
    <3> QED BY <2>3, <2>5, <3>1, <3>2 DEF OneMore
  <2>7. Linked(ms)
    <3>1. ASSUME NEW n \in DOMAIN ms, NEW k \in Keys, IsNode(ms[n], k)
          PROVE  ms[n].children[k].id \in DOMAIN ms
      <4>1. n # new BY <2>1, <2>3, <3>1
      <4>2. n \in DOMAIN ns /\ ms[n] = ns[n] BY <2>3, <4>1
      <4>3. ns[n].children[k].id \in DOMAIN ns BY <1>1, <3>1, <4>2 DEF Linked
      <4> QED BY <2>3, <4>2, <4>3
    <3> QED BY <2>3, <3>1 DEF Linked
  <2>8. Below(ms, new) = {new} BY <1>1, <2>6, <2>7, BelowNew
  <2>9. \A x \in DOMAIN ns : Below(ms, x) = Below(ns, x)
    <3> TAKE x \in DOMAIN ns
    <3>1. /\ Below(ns, x) \subseteq Below(ms, x)
          /\ Below(ms, x) \subseteq Below(ns, x) \cup {Len(ns) + 1}
          /\ (\E n \in Below(ns, x), k \in Keys : p = <<n, k>>) <=> Len(ns) + 1 \in Below(ms, x)
      <4> HIDE DEF p
      <4> QED BY <1>1, <2>6, <2>7, BelowOneMore
    <3>2. ~\E n \in Below(ns, x), k \in Keys : p = <<n, k>>
      <4>1. Below(ns, x) \subseteq DOMAIN ns BY DEF Below
      <4> HIDE DEF p
      <4> QED BY <2>5, <4>1
    <3>3. Len(ns) + 1 \notin Below(ms, x) BY <3>1, <3>2
    <3> QED BY <3>1, <3>3
  <2>10. /\ \A x \in DOMAIN ns : PlacesIn(ms, qt, x) = PlacesIn(ns, rt, x)
         /\ PlacesIn(ms, qt, new) = {p}
    <3>1. \A c \in AccountIds : rt[c] # Len(ns) + 1 BY <1>1, <1>2
    <3>2. /\ \A x \in DOMAIN ns : PlacesIn(ms, rt, x) = PlacesIn(ns, rt, x)
          /\ PlacesIn(ms, rt, new) = {q \in (DOMAIN ns) \X Keys : q = p}
      <4>1. Linked(ns) BY <1>1
      <4> HIDE DEF p
      <4> QED BY <2>6, <3>1, <4>1, PlacesOneMore
    <3>3. {q \in (DOMAIN ns) \X Keys : q = p} = {}
      <4> HIDE DEF p
      <4> QED BY <2>5
    <3>4. \A q \in {0} \X AccountIds : q[2] \in AccountIds /\ (q[2] = a <=> q = p) OBVIOUS
    <3>5. p \in {0} \X AccountIds OBVIOUS
    <3> HIDE DEF p, new
    <3>6. \A x \in DOMAIN ns : {q \in {0} \X AccountIds : qt[q[2]] = x} = {q \in {0} \X AccountIds : rt[q[2]] = x}
      <4> TAKE x \in DOMAIN ns
      <4>1. x # new /\ x # 0 BY <1>2
      <4>2. \A q \in {0} \X AccountIds : qt[q[2]] = x <=> rt[q[2]] = x
        BY <1>4, <2>4, <3>4, <4>1
      <4> QED BY <4>2
    <3>7. {q \in {0} \X AccountIds : rt[q[2]] = new} = {} BY <3>1, <3>4 DEF new
    <3>8. {q \in {0} \X AccountIds : qt[q[2]] = new} = {p}
      <4>1. \A q \in {0} \X AccountIds : qt[q[2]] = new <=> q = p
        <5> TAKE q \in {0} \X AccountIds
        <5>1. CASE q = p BY <2>4, <3>4, <5>1
        <5>2. CASE q # p
          <6>1. q[2] \in AccountIds \ {a} BY <3>4, <5>2
          <6>2. qt[q[2]] = rt[q[2]] BY <2>4, <6>1
          <6> QED BY <3>1, <5>2, <6>1, <6>2 DEF new
        <5> QED BY <5>1, <5>2
      <4> QED BY <3>5, <4>1
    <3>9. \A x \in DOMAIN ns : PlacesIn(ms, qt, x) = PlacesIn(ns, rt, x) BY <3>2, <3>6 DEF PlacesIn
    <3>10. {q \in (DOMAIN ms) \X Keys : IsNode(ms[q[1]], q[2]) /\ ms[q[1]].children[q[2]].id = new} = {}
      BY <3>2, <3>3 DEF PlacesIn
    <3>11. PlacesIn(ms, qt, new) = {p} BY <3>8, <3>10 DEF PlacesIn
    <3> QED BY <3>9, <3>11
  <2> HIDE DEF new, p
  <2>11. ASSUME NEW x \in DOMAIN ms
         PROVE  \E b \in AccountIds :
                    /\ qt[b] # 0 /\ x \in Below(ms, qt[b])
                    /\ \A c \in AccountIds : qt[c] # 0 /\ x \in Below(ms, qt[c]) => c = b
    <3>1. CASE x \in DOMAIN ns
      <4>1. PICK b \in AccountIds :
              /\ rt[b] # 0 /\ x \in Below(ns, rt[b])
              /\ \A c \in AccountIds : rt[c] # 0 /\ x \in Below(ns, rt[c]) => c = b
        BY <3>1 DEF IsTree
      <4>2. b # a /\ qt[b] = rt[b] BY <1>4, <2>4, <4>1
      <4>3. x \in Below(ms, qt[b]) BY <1>1, <2>9, <4>1, <4>2
      <4>4. ASSUME NEW c \in AccountIds, qt[c] # 0, x \in Below(ms, qt[c]) PROVE c = b
        <5>1. c # a BY <1>2, <2>4, <2>8, <3>1, <4>4
        <5>2. qt[c] = rt[c] BY <2>4, <5>1
        <5>3. x \in Below(ns, rt[c]) BY <1>1, <2>9, <4>4, <5>2
        <5> QED BY <4>1, <4>4, <5>2, <5>3
      <4> QED BY <4>1, <4>2, <4>3, <4>4
    <3>2. CASE x = new
      <4>1. ASSUME NEW c \in AccountIds, c # a, qt[c] # 0, new \in Below(ms, qt[c]) PROVE FALSE
        <5>1. qt[c] = rt[c] /\ rt[c] \in DOMAIN ns BY <1>1, <2>4, <4>1
        <5>2. new \in Below(ns, rt[c]) BY <2>9, <4>1, <5>1
        <5> QED BY <1>2, <5>2 DEF Below
      <4>2. qt[a] # 0 /\ new \in Below(ms, qt[a]) BY <1>2, <2>4, <2>8
      <4> QED BY <3>2, <4>1, <4>2
    <3> QED BY <2>3, <3>1, <3>2
  <2>12. \A x \in DOMAIN ms : \E q : PlacesIn(ms, qt, x) = {q}
    <3>1. \A x \in DOMAIN ns : \E q : PlacesIn(ns, rt, x) = {q} BY DEF IsTree
    <3> QED BY <2>3, <2>10, <3>1
  <2>13. IsTree(ms, qt) BY <2>4, <2>7, <2>11, <2>12 DEF IsTree
  <2>14. Heights(ms, h)
    <3>1. ASSUME NEW n \in DOMAIN ms
          PROVE  /\ ms[n].block_height <= h
                 /\ \A k \in DOMAIN ms[n].children : CoversEntry(ms, n, k)
      <4>1. CASE n = new BY <2>1, <2>3, <4>1
      <4>2. CASE n \in DOMAIN ns
        <5>1. ms[n] = ns[n] /\ ns[n].block_height <= h BY <2>3, <4>2 DEF Heights
        <5>2. ASSUME NEW k \in DOMAIN ns[n].children PROVE CoversEntry(ms, n, k)
          <6> DEFINE f == ns[n].children[k]
          <6>1. CoversEntry(ns, n, k) BY <4>2 DEF Heights
          <6>2. f.kind = "Node" => f.id \in DOMAIN ns
            <7>1. ns[n].children \in ChildrenType BY <1>1, <4>2, NodeFacts
            <7>2. k \in Keys BY <7>1, ChildrenFacts
            <7> QED BY <1>1, <4>2, <7>2 DEF Linked, IsNode, HasKey
          <6>3. f.kind = "Node" => ms[f.id] = ns[f.id] BY <2>3, <6>2
          <6> QED BY <5>1, <6>1, <6>3 DEF CoversEntry
        <5> QED BY <5>1, <5>2
      <4> QED BY <2>3, <4>1, <4>2
    <3> QED BY <3>1 DEF Heights
  <2> QED BY <1>2, <1>4, <2>1, <2>3, <2>4, <2>8, <2>9, <2>13, <2>14 DEF Rooted
<1> QED BY <1>3, <1>4

----------------------------------------------------------------------------
(* Bytes.                                                                   *)

LEMMA BytesType ==
    ASSUME NEW ns \in Seq(NodeType), NEW ids \in SUBSET DOMAIN ns
    PROVE  /\ NodesBytes(ns, ids) \in Nat /\ IsFiniteSet(ids)
           /\ \A id \in DOMAIN ns : ChildrenBytes(ns[id]) \in Nat
<1>1. \A v \in EntryType : EntryBytes(v) \in Nat
  <2> TAKE v \in EntryType
  <2>1. v.kind = "Value" \/ v.kind = "DeletedEntry" \/ v.kind = "Node" BY DEF EntryType
  <2> QED BY <2>1, TreeBytesAssumption DEF EntryBytes
<1>2. \A id \in DOMAIN ns : ChildrenBytes(ns[id]) \in Nat
  <2> TAKE id \in DOMAIN ns
  <2> DEFINE f == ns[id].children
             S == DOMAIN ns[id].children
             g == [k \in S |-> EntryBytes(f[k])]
  <2>1. f \in ChildrenType BY NodeFacts
  <2>2. IsFiniteSet(S) /\ \A k \in S : f[k] \in EntryType BY <2>1, ChildrenFacts
  <2>3. \A k \in S : g[k] \in Nat BY <1>1, <2>2
  <2>4. ChildrenBytes(ns[id]) = SumOver(g, S) BY DEF ChildrenBytes
  <2> HIDE DEF g, S
  <2> QED BY <2>2, <2>3, <2>4, SumIsNat
<1>3. IsFiniteSet(ids)
  <2>1. DOMAIN ns = 1 .. Len(ns) /\ Len(ns) \in Nat BY NewIsNew
  <2>2. IsFiniteSet(1 .. Len(ns)) BY <2>1, FS_Interval
  <2>3. IsFiniteSet(DOMAIN ns) BY <2>1, <2>2
  <2> QED BY <2>3, FS_Subset
<1>4. NodesBytes(ns, ids) \in Nat
  <2> DEFINE g == [id \in ids |-> ChildrenBytes(ns[id])]
  <2>1. \A id \in ids : g[id] \in Nat BY <1>2
  <2>2. NodesBytes(ns, ids) = SumOver(g, ids) BY DEF NodesBytes
  <2> HIDE DEF g
  <2> QED BY <1>3, <2>1, <2>2, SumIsNat
<1> QED BY <1>2, <1>3, <1>4

LEMMA SameBytes ==
    ASSUME NEW ns, NEW ms, NEW ids, \A id \in ids : ms[id] = ns[id]
    PROVE  NodesBytes(ms, ids) = NodesBytes(ns, ids)
<1>1. [id \in ids |-> ChildrenBytes(ms[id])] = [id \in ids |-> ChildrenBytes(ns[id])] OBVIOUS
<1> QED BY <1>1 DEF NodesBytes

(* The bytes of all nodes are those in a part and those in the rest. *)
LEMMA BytesOfParts ==
    ASSUME NEW ns \in Seq(NodeType), NEW B \in SUBSET DOMAIN ns
    PROVE  NodesBytes(ns, DOMAIN ns) = NodesBytes(ns, B) + NodesBytes(ns, DOMAIN ns \ B)
<1> DEFINE D == DOMAIN ns
           C == DOMAIN ns \ B
           f == [id \in D |-> ChildrenBytes(ns[id])]
           g == [id \in B |-> ChildrenBytes(ns[id])]
           k == [id \in C |-> ChildrenBytes(ns[id])]
<1>1. IsFiniteSet(D) /\ IsFiniteSet(B) /\ IsFiniteSet(C) /\ \A id \in D : f[id] \in Int
  <2>1. IsFiniteSet(D) /\ IsFiniteSet(B) /\ IsFiniteSet(C) BY BytesType
  <2>2. \A id \in D : ChildrenBytes(ns[id]) \in Nat BY BytesType
  <2> QED BY <2>1, <2>2
<1>2. (\A id \in B : g[id] = f[id]) /\ (\A id \in C : k[id] = f[id]) OBVIOUS
<1>3. /\ NodesBytes(ns, D) = SumOver(f, D) /\ NodesBytes(ns, B) = SumOver(g, B)
      /\ NodesBytes(ns, C) = SumOver(k, C)
  BY DEF NodesBytes
<1>4. B \in SUBSET D /\ C = D \ B OBVIOUS
<1> HIDE DEF f, g, k, C, D
<1>5. SumOver(f, D) = SumOver(f, B) + SumOver(f, C) BY <1>1, <1>4, SumOfTwoParts
<1>6. SumOver(g, B) = SumOver(f, B)
  <2>1. \A id \in B : f[id] \in Int /\ g[id] = f[id] BY <1>1, <1>2, <1>4
  <2> QED BY <1>1, <2>1, SumCongruence
<1>7. SumOver(k, C) = SumOver(f, C)
  <2>1. \A id \in C : f[id] \in Int /\ k[id] = f[id] BY <1>1, <1>2, <1>4
  <2> QED BY <1>1, <2>1, SumCongruence
<1>8. NodesBytes(ns, D) = NodesBytes(ns, B) + NodesBytes(ns, C) BY <1>3, <1>5, <1>6, <1>7
<1> QED BY <1>8 DEF C, D

(* What operations in the tree of an account write is in that tree.         *)
LEMMA BytesInTree ==
    ASSUME NEW ns, NEW ms, NEW rt, NEW a \in AccountIds, rt[a] # 0, IsTree(ns, rt), Grows(ns, ms, rt, a)
    PROVE  /\ BytesWritten(ns, ms) = NodesBytes(ms, Below(ms, rt[a])) - NodesBytes(ns, Below(ns, rt[a]))
           /\ NodesBytes(ms, Below(ms, rt[a])) \in Nat
           /\ NodesBytes(ns, Below(ns, rt[a])) \in Nat
<1> DEFINE B == Below(ns, rt[a])
           C == Below(ms, rt[a])
           R == DOMAIN ns \ B
<1>1. IsTree(ms, rt) BY DEF Grows
<1>2. ns \in Seq(NodeType) /\ ms \in Seq(NodeType) BY <1>1, TreeFacts
<1>3. B \in SUBSET DOMAIN ns /\ C \in SUBSET DOMAIN ms BY DEF Below
<1>4. ASSUME NEW x \in DOMAIN ms, x \notin C PROVE x \in R /\ ms[x] = ns[x]
  <2>1. PICK b \in AccountIds : rt[b] # 0 /\ x \in Below(ms, rt[b]) BY <1>1 DEF IsTree
  <2>2. b # a BY <1>4, <2>1
  <2>3. x \in Below(ns, rt[b]) /\ ms[x] = ns[x] BY <2>1, <2>2 DEF Grows
  <2>4. x \in DOMAIN ns BY <2>3 DEF Below
  <2>5. x \notin B BY <2>1, <2>2, <2>3, OneOwner
  <2> QED BY <2>3, <2>4, <2>5
<1>5. ASSUME NEW x \in R PROVE x \in DOMAIN ms \ C
  <2>1. PICK b \in AccountIds : rt[b] # 0 /\ x \in Below(ns, rt[b]) BY DEF IsTree
  <2>2. b # a BY <2>1
  <2>3. x \in Below(ms, rt[b]) BY <2>1, <2>2 DEF Grows
  <2>4. x \in DOMAIN ms BY DEF Grows
  <2>5. x \notin C BY <1>1, <2>1, <2>2, <2>3, OneOwner
  <2> QED BY <2>4, <2>5
<1>6. DOMAIN ms \ C = R /\ \A x \in R : ms[x] = ns[x] BY <1>4, <1>5
<1>7. NodesBytes(ns, DOMAIN ns) = NodesBytes(ns, B) + NodesBytes(ns, DOMAIN ns \ B)
  <2> HIDE DEF B
  <2> QED BY <1>2, <1>3, BytesOfParts
<1>8. NodesBytes(ms, DOMAIN ms) = NodesBytes(ms, C) + NodesBytes(ms, DOMAIN ms \ C)
  <2> HIDE DEF C
  <2> QED BY <1>2, <1>3, BytesOfParts
<1>9. NodesBytes(ms, R) = NodesBytes(ns, R) BY <1>6, SameBytes
<1>10. NodesBytes(ns, B) \in Nat /\ NodesBytes(ns, R) \in Nat /\ NodesBytes(ms, C) \in Nat
  <2>1. R \in SUBSET DOMAIN ns OBVIOUS
  <2> HIDE DEF B, C, R
  <2> QED BY <1>2, <1>3, <2>1, BytesType
<1>11. BytesWritten(ns, ms) = NodesBytes(ms, DOMAIN ms) - NodesBytes(ns, DOMAIN ns) BY DEF BytesWritten
<1>12. DOMAIN ns \ B = R OBVIOUS
<1> HIDE DEF B, C, R
<1>13. BytesWritten(ns, ms) = NodesBytes(ms, C) - NodesBytes(ns, B)
  BY <1>6, <1>7, <1>8, <1>9, <1>10, <1>11, <1>12
<1> QED BY <1>10, <1>13 DEF B, C

----------------------------------------------------------------------------
(* The invariant of the tree.                                               *)

(* What accounts have granted is in their own trees. *)
Granted(ns, rt, granted) ==
    /\ granted \in [AccountIds -> [PermissionKeys -> SUBSET Nat]]
    /\ \A a \in AccountIds, p \in PermissionKeys :
            granted[a][p] \subseteq IF rt[a] = 0 THEN {} ELSE Below(ns, rt[a])

TreeOK ==
    /\ IsTree(nodes, root) /\ height \in Nat /\ Heights(nodes, height)
    /\ Granted(nodes, root, permissions)

(* What is stored is what the tree takes, and the accounts that pay for it  *)
(* are those that have a tree.                                              *)
BytesOK ==
    /\ stored = [a \in AccountIds |-> StateBytes(a, root, nodes, permissions)]
    /\ \A a \in AccountIds :
        /\ Registered(a) <=> root[a] # 0
        /\ accounts[a].version # "V0" /\ ~IsShared(accounts[a])

SocialIInv == IInv /\ TreeOK /\ BytesOK

LEMMA PermissionBytesType ==
    ASSUME NEW granted, \A p \in PermissionKeys : IsFiniteSet(granted[p])
    PROVE  PermissionBytes(granted) \in Nat
<1> DEFINE f == [p \in PermissionKeys |-> Cardinality(granted[p])]
<1>1. \A p \in PermissionKeys : f[p] \in Nat BY FS_CardinalityType
<1>2. PermissionBytes(granted) = SumOver(f, PermissionKeys) BY DEF PermissionBytes
<1> HIDE DEF f
<1> QED BY <1>1, <1>2, SumIsNat, PermissionKeysAssumption

(* Granted nodes take as many bytes as there are. *)
LEMMA PermissionBytesChange ==
    ASSUME NEW before, NEW after, NEW p \in PermissionKeys,
           \A q \in PermissionKeys : IsFiniteSet(before[q]) /\ IsFiniteSet(after[q]),
           \A q \in PermissionKeys \ {p} : after[q] = before[q]
    PROVE  PermissionBytes(after) =
                (PermissionBytes(before) + Cardinality(after[p])) - Cardinality(before[p])
<1> DEFINE f == [q \in PermissionKeys |-> Cardinality(before[q])]
           g == [q \in PermissionKeys |-> Cardinality(after[q])]
<1>1. \A q \in PermissionKeys : f[q] \in Int /\ g[q] \in Int
  <2>1. \A q \in PermissionKeys : Cardinality(before[q]) \in Nat /\ Cardinality(after[q]) \in Nat
    BY FS_CardinalityType
  <2> QED BY <2>1
<1>2. \A q \in PermissionKeys \ {p} : g[q] = f[q] OBVIOUS
<1>3. f[p] = Cardinality(before[p]) /\ g[p] = Cardinality(after[p]) OBVIOUS
<1>4. PermissionBytes(before) = SumOver(f, PermissionKeys) /\ PermissionBytes(after) = SumOver(g, PermissionKeys)
  BY DEF PermissionBytes
<1> HIDE DEF f, g
<1>5. SumOver(g, PermissionKeys) = SumOver(f, PermissionKeys) - f[p] + g[p]
  BY <1>1, <1>2, SumChanged, PermissionKeysAssumption
<1>6. SumOver(f, PermissionKeys) \in Int BY <1>1, SumIsInt, PermissionKeysAssumption
<1>7. f[p] \in Int /\ g[p] \in Int BY <1>1
<1>8. SumOver(g, PermissionKeys) = (SumOver(f, PermissionKeys) + g[p]) - f[p] BY <1>5, <1>6, <1>7
<1> QED BY <1>3, <1>4, <1>8

LEMMA GrantedFacts ==
    ASSUME NEW ns, NEW rt, IsTree(ns, rt), NEW granted, Granted(ns, rt, granted), NEW a \in AccountIds
    PROVE  /\ \A p \in PermissionKeys : IsFiniteSet(granted[a][p])
           /\ PermissionBytes(granted[a]) \in Nat
           /\ rt[a] = 0 => PermissionBytes(granted[a]) = 0
<1>1. ns \in Seq(NodeType) /\ (rt[a] # 0 => Below(ns, rt[a]) \in SUBSET DOMAIN ns)
  BY TreeFacts DEF Below
<1>2. \A p \in PermissionKeys : IsFiniteSet(granted[a][p])
  <2> TAKE p \in PermissionKeys
  <2>1. CASE rt[a] = 0
    <3>1. granted[a][p] = {} BY <2>1 DEF Granted
    <3> QED BY <3>1, FS_EmptySet
  <2>2. CASE rt[a] # 0
    <3>1. granted[a][p] \subseteq Below(ns, rt[a]) BY <2>2 DEF Granted
    <3>2. granted[a][p] \in SUBSET DOMAIN ns BY <1>1, <2>2, <3>1
    <3> QED BY <1>1, <3>2, BytesType
  <2> QED BY <2>1, <2>2
<1>3. PermissionBytes(granted[a]) \in Nat
  <2> DEFINE g == granted[a]
  <2>1. \A p \in PermissionKeys : IsFiniteSet(g[p]) BY <1>2
  <2> HIDE DEF g
  <2>2. PermissionBytes(g) \in Nat BY <2>1, PermissionBytesType
  <2> QED BY <2>2 DEF g
<1>4. ASSUME rt[a] = 0 PROVE PermissionBytes(granted[a]) = 0
  <2> DEFINE f == [p \in PermissionKeys |-> Cardinality(granted[a][p])]
  <2>1. \A p \in PermissionKeys : granted[a][p] = {} BY <1>4 DEF Granted
  <2>2. \A p \in PermissionKeys : f[p] = 0 BY <2>1, FS_EmptySet
  <2>3. PermissionBytes(granted[a]) = SumOver(f, PermissionKeys) BY DEF PermissionBytes
  <2> HIDE DEF f
  <2> QED BY <2>2, <2>3, SumOfZeros, PermissionKeysAssumption
<1> QED BY <1>2, <1>3, <1>4

(* The bytes of an account when its node is created, and in another         *)
(* account's call.                                                          *)
RootedState(ns, ms, rt, qt, a, granted) ==
    /\ Granted(ms, qt, granted)
    /\ rt[a] # 0 => StateBytes(a, qt, ms, granted) = StateBytes(a, rt, ns, granted)
    /\ rt[a] = 0 => StateBytes(a, qt, ms, granted) = AccountBytes
    /\ \A b \in AccountIds \ {a} :
            StateBytes(b, qt, ms, granted) = StateBytes(b, rt, ns, granted)

LEMMA RootedBytes ==
    ASSUME NEW ns, NEW ms, NEW rt, NEW qt, NEW a \in AccountIds, NEW h, Rooted(ns, ms, rt, qt, a, h),
           IsTree(ns, rt), NEW granted, Granted(ns, rt, granted)
    PROVE  RootedState(ns, ms, rt, qt, a, granted)
<1>1. IsTree(ms, qt) /\ qt[a] # 0 BY DEF Rooted
<1>2. \A b \in AccountIds : rt[b] # 0 => rt[b] \in DOMAIN ns BY TreeFacts
<1>3. ASSUME NEW b \in AccountIds \ {a}
      PROVE  /\ qt[b] = rt[b]
             /\ rt[b] # 0 => /\ Below(ms, qt[b]) = Below(ns, rt[b])
                             /\ \A n \in Below(ns, rt[b]) : ms[n] = ns[n]
  <2>1. qt[b] = rt[b] BY DEF Rooted
  <2>2. Below(ns, rt[b]) \subseteq DOMAIN ns BY DEF Below
  <2> QED BY <1>2, <2>1, <2>2 DEF Rooted
<1>4. \A b \in AccountIds \ {a} : StateBytes(b, qt, ms, granted) = StateBytes(b, rt, ns, granted)
  <2> TAKE b \in AccountIds \ {a}
  <2>1. CASE rt[b] = 0 BY <1>3, <2>1 DEF StateBytes
  <2>2. CASE rt[b] # 0
    <3>1. NodesBytes(ms, Below(ms, qt[b])) = NodesBytes(ns, Below(ns, rt[b])) BY <1>3, <2>2, SameBytes
    <3> QED BY <1>3, <2>2, <3>1 DEF StateBytes
  <2> QED BY <2>1, <2>2
<1>5. CASE rt[a] # 0
  <2>1. ms = ns /\ qt = rt BY <1>5 DEF Rooted
  <2> QED BY <1>4, <1>5, <2>1 DEF RootedState
<1>6. CASE rt[a] = 0
  <2> DEFINE new == qt[a]
  <2>1. Below(ms, new) = {new} /\ DOMAIN ms[new].children = {} /\ new # 0 BY <1>6 DEF Rooted
  <2>2. ChildrenBytes(ms[new]) = 0
    <3> DEFINE f == [k \in DOMAIN ms[new].children |-> EntryBytes(ms[new].children[k])]
    <3>1. ChildrenBytes(ms[new]) = SumOver(f, DOMAIN ms[new].children) BY DEF ChildrenBytes
    <3> HIDE DEF f
    <3>2. SumOver(f, {}) = 0 BY SumOfNone
    <3> QED BY <2>1, <3>1, <3>2
  <2>3. NodesBytes(ms, {new}) = 0
    <3> DEFINE f == [id \in {new} |-> ChildrenBytes(ms[id])]
    <3>1. \A id \in {new} : f[id] = 0 BY <2>2
    <3>2. NodesBytes(ms, {new}) = SumOver(f, {new}) BY DEF NodesBytes
    <3> HIDE DEF f
    <3>3. IsFiniteSet({new}) BY FS_Singleton
    <3> QED BY <3>1, <3>2, <3>3, SumOfZeros
  <2>4. PermissionBytes(granted[a]) = 0 BY <1>6, GrantedFacts
  <2>5. StateBytes(a, qt, ms, granted) = (AccountBytes + 0) + 0 BY <2>1, <2>3, <2>4 DEF StateBytes
  <2>6. StateBytes(a, qt, ms, granted) = AccountBytes BY <2>5, BytesAssumption
  <2>7. \A p \in PermissionKeys : granted[a][p] = {} BY <1>6 DEF Granted
  <2>8. ASSUME NEW b \in AccountIds, NEW p \in PermissionKeys
        PROVE  granted[b][p] \subseteq IF qt[b] = 0 THEN {} ELSE Below(ms, qt[b])
    <3>1. CASE b = a BY <2>7, <3>1
    <3>2. CASE b # a BY <1>3, <3>2 DEF Granted
    <3> QED BY <3>1, <3>2
  <2>9. Granted(ms, qt, granted) BY <2>8 DEF Granted
  <2> QED BY <1>4, <1>6, <2>6, <2>9 DEF RootedState
<1> QED BY <1>5, <1>6

(* What operations in the tree of an account, and new permissions, do to    *)
(* the bytes of the accounts.                                               *)
SteppedState(ns, ms, rt, a, before, after) ==
    /\ Granted(ms, rt, after)
    /\ \A b \in AccountIds \ {a} : StateBytes(b, rt, ms, after) = StateBytes(b, rt, ns, before)
    /\ StateBytes(a, rt, ms, after) =
            ((StateBytes(a, rt, ns, before) + BytesWritten(ns, ms)) + PermissionBytes(after[a]))
                - PermissionBytes(before[a])
    /\ StateBytes(a, rt, ms, after) \in Nat
    /\ StateBytes(a, rt, ms, after) >= AccountBytes

LEMMA SteppedBytes ==
    ASSUME NEW ns, NEW ms, NEW rt, NEW a \in AccountIds, rt[a] # 0, IsTree(ns, rt), NEW h, NEW D,
           Steps(ns, ms, rt, a, h, D),
           NEW before, Granted(ns, rt, before), NEW after,
           after \in [AccountIds -> [PermissionKeys -> SUBSET Nat]],
           \A b \in AccountIds \ {a} : after[b] = before[b],
           \A p \in PermissionKeys : after[a][p] \subseteq Below(ms, rt[a])
    PROVE  SteppedState(ns, ms, rt, a, before, after)
<1>1. Grows(ns, ms, rt, a) /\ IsTree(ms, rt) BY DEF Steps, Grows
<1>2. ASSUME NEW b \in AccountIds \ {a}, rt[b] # 0
      PROVE  Below(ms, rt[b]) = Below(ns, rt[b]) /\ \A n \in Below(ns, rt[b]) : ms[n] = ns[n]
  BY <1>1, <1>2 DEF Grows
<1>3. Granted(ms, rt, after)
  <2> SUFFICES ASSUME NEW b \in AccountIds, NEW p \in PermissionKeys
               PROVE  after[b][p] \subseteq IF rt[b] = 0 THEN {} ELSE Below(ms, rt[b])
    BY DEF Granted
  <2>1. CASE b = a BY <2>1
  <2>2. CASE b # a
    <3>1. after[b][p] \subseteq IF rt[b] = 0 THEN {} ELSE Below(ns, rt[b]) BY <2>2 DEF Granted
    <3> QED BY <1>2, <2>2, <3>1
  <2> QED BY <2>1, <2>2
<1>4. \A b \in AccountIds \ {a} : StateBytes(b, rt, ms, after) = StateBytes(b, rt, ns, before)
  <2> TAKE b \in AccountIds \ {a}
  <2>1. CASE rt[b] = 0 BY <2>1 DEF StateBytes
  <2>2. CASE rt[b] # 0
    <3>1. NodesBytes(ms, Below(ms, rt[b])) = NodesBytes(ns, Below(ns, rt[b])) BY <1>2, <2>2, SameBytes
    <3> QED BY <2>2, <3>1 DEF StateBytes
  <2> QED BY <2>1, <2>2
<1> DEFINE x == NodesBytes(ns, Below(ns, rt[a]))
           y == NodesBytes(ms, Below(ms, rt[a]))
           p == PermissionBytes(before[a])
           q == PermissionBytes(after[a])
<1>5. BytesWritten(ns, ms) = y - x /\ x \in Nat /\ y \in Nat BY <1>1, BytesInTree
<1>6. p \in Nat BY GrantedFacts
<1>7. q \in Nat BY <1>1, <1>3, GrantedFacts
<1>8. StateBytes(a, rt, ns, before) = AccountBytes + x + p /\ StateBytes(a, rt, ms, after) = AccountBytes + y + q
  BY DEF StateBytes
<1> HIDE DEF x, y, p, q
<1>9. /\ StateBytes(a, rt, ms, after) = ((StateBytes(a, rt, ns, before) + BytesWritten(ns, ms)) + q) - p
      /\ StateBytes(a, rt, ms, after) \in Nat
      /\ StateBytes(a, rt, ms, after) >= AccountBytes
  BY <1>5, <1>6, <1>7, <1>8, BytesAssumption
<1>10. /\ StateBytes(a, rt, ms, after) = ((StateBytes(a, rt, ns, before) + BytesWritten(ns, ms))
                + PermissionBytes(after[a])) - PermissionBytes(before[a])
       /\ StateBytes(a, rt, ms, after) \in Nat
       /\ StateBytes(a, rt, ms, after) >= AccountBytes
  BY <1>9 DEF p, q
<1> QED BY <1>3, <1>4, <1>10 DEF SteppedState

----------------------------------------------------------------------------
(* A write along a path, by an account that does not own the tree.          *)

NextNode(g, ns, id, path, n) ==
    IF n = 0 THEN id
    ELSE IF g[n - 1] # 0 /\ IsNode(ns[g[n - 1]], path[n]) THEN ns[g[n - 1]].children[path[n]].id
    ELSE 0

IsPath(g, ns, id, path) == g = [n \in 0 .. Len(path) |-> NextNode(g, ns, id, path, n)]

LEMMA PathUnfolded ==
    ASSUME NEW ns, NEW id, NEW path
    PROVE  NodesOnPath(ns, id, path) = CHOOSE g : IsPath(g, ns, id, path)
BY DEF NodesOnPath, IsPath, NextNode

LEMMA PathExists ==
    ASSUME NEW ns, NEW id, NEW path, Len(path) \in Nat
    PROVE  \E g : IsPath(g, ns, id, path)
<1> DEFINE L == Len(path)
           UpTo(g, n) == \A k \in 0 .. L : k <= n => g[k] = NextNode(g, ns, id, path, k)
           N == {n \in Nat : \E g : g = [k \in 0 .. L |-> g[k]] /\ UpTo(g, n)}
<1>1. 0 \in N
  <2> DEFINE g0 == [k \in 0 .. L |-> NextNode(<<>>, ns, id, path, k)]
  <2>1. g0 = [k \in 0 .. L |-> g0[k]] OBVIOUS
  <2>2. \A k \in 0 .. L : k <= 0 => k = 0 OBVIOUS
  <2>3. UpTo(g0, 0) BY <2>2 DEF NextNode
  <2> HIDE DEF g0
  <2> QED BY <2>1, <2>3
<1>2. ASSUME NEW n \in Nat, n \in N PROVE n + 1 \in N
  <2>1. PICK g : g = [k \in 0 .. L |-> g[k]] /\ UpTo(g, n) BY <1>2
  <2> DEFINE h0 == [k \in 0 .. L |-> NextNode(g, ns, id, path, k)]
  <2>2. h0 = [k \in 0 .. L |-> h0[k]] OBVIOUS
  <2>3. \A k \in 0 .. L : k <= n => h0[k] = g[k] BY <2>1
  <2>4. ASSUME NEW k \in 0 .. L, k <= n + 1 PROVE h0[k] = NextNode(h0, ns, id, path, k)
    <3>1. h0[k] = NextNode(g, ns, id, path, k) OBVIOUS
    <3>2. CASE k = 0
      <4> HIDE DEF h0
      <4> QED BY <3>1, <3>2 DEF NextNode
    <3>3. CASE k # 0
      <4>1. k - 1 \in 0 .. L /\ k - 1 <= n BY <2>4, <3>3
      <4>2. h0[k - 1] = g[k - 1] BY <2>3, <4>1
      <4> HIDE DEF h0
      <4> QED BY <3>1, <3>3, <4>2 DEF NextNode
    <3> QED BY <3>2, <3>3
  <2>5. UpTo(h0, n + 1) BY <2>4
  <2>6. \E f : f = [k \in 0 .. L |-> f[k]] /\ UpTo(f, n + 1)
    <3> HIDE DEF UpTo, h0
    <3> QED BY <2>2, <2>5
  <2>7. n + 1 \in Nat OBVIOUS
  <2> HIDE DEF UpTo
  <2> QED BY <2>6, <2>7
<1>3. L \in N
  <2> HIDE DEF N
  <2> QED BY <1>1, <1>2, InductionOnNat
<1>4. PICK g : g = [k \in 0 .. L |-> g[k]] /\ UpTo(g, L) BY <1>3
<1>5. \A k \in 0 .. L : g[k] = NextNode(g, ns, id, path, k) BY <1>4
<1>6. IsPath(g, ns, id, path) BY <1>4, <1>5 DEF IsPath
<1> QED BY <1>6

LEMMA PathUnfolds ==
    ASSUME NEW ns, NEW id, NEW path, Len(path) \in Nat,
           NEW n \in 0 .. Len(path)
    PROVE  NodesOnPath(ns, id, path)[n] = NextNode(NodesOnPath(ns, id, path), ns, id, path, n)
<1>1. IsPath(NodesOnPath(ns, id, path), ns, id, path) BY PathExists, PathUnfolded
<1> QED BY <1>1 DEF IsPath

(* Visit i is approved, or nothing is written for another reason.           *)
Approved(w, i) ==
    /\ w.outcome # "denied"
    /\ w.outcome = "ok" => w.approved \in Seq(BOOLEAN) /\ Len(w.approved) = i /\ w.approved[i]

SameChildren(ns, ms) ==
    DOMAIN ms = DOMAIN ns /\ \A n \in DOMAIN ns : ms[n].children = ns[n].children

(* Visit i was at node c, not approved; so far nodes were only stored.      *)
Waiting(ns, w, i, c) ==
    /\ w.outcome = "ok" /\ c \in DOMAIN ns
    /\ w.ids \in Seq(Nat) /\ Len(w.ids) = i /\ w.ids[i] = c
    /\ w.approved \in Seq(BOOLEAN) /\ Len(w.approved) = i /\ ~w.approved[i]
    /\ SameChildren(ns, w.nodes)

LEMMA TouchChildren ==
    ASSUME NEW ns, NEW ms, SameChildren(ns, ms), NEW id, NEW h
    PROVE  SameChildren(ns, Touch(ms, id, h))
<1> DEFINE new == [block_height |-> h, children |-> ms[id].children]
           ls == [ms EXCEPT ![id] = new]
<1>1. Touch(ms, id, h) = ls BY DEF Touch
<1>2. new.children = ms[id].children OBVIOUS
<1> HIDE DEF new
<1>3. DOMAIN ls = DOMAIN ms /\ \A n \in DOMAIN ms : ls[n] = IF n = id THEN new ELSE ms[n] OBVIOUS
<1> HIDE DEF ls
<1>4. \A n \in DOMAIN ns : ls[n].children = ns[n].children BY <1>2, <1>3 DEF SameChildren
<1> QED BY <1>1, <1>3, <1>4 DEF SameChildren

(* What the lemmas below need of a visit. *)
ForPath(visit) == visit.key \in Keys /\ visit.leaf \in BOOLEAN

LEMMA AppendedLast ==
    ASSUME NEW s \in Seq(BOOLEAN), NEW x \in BOOLEAN
    PROVE  /\ Append(s, x) \in Seq(BOOLEAN) /\ Len(Append(s, x)) = Len(s) + 1
           /\ Append(s, x)[Len(s) + 1] = x
BY AppendProperties

LEMMA VisitedApproved ==
    ASSUME NEW w, NEW i \in Nat, w.approved \in Seq(BOOLEAN), Len(w.approved) = i,
           NEW ms, NEW c, NEW yes \in BOOLEAN, yes
    PROVE  Approved(Visited(w, ms, c, yes), i + 1)
<1> DEFINE v == Visited(w, ms, c, yes)
<1>1. v.outcome = "ok" /\ v.approved = Append(w.approved, yes) BY DEF Visited
<1> HIDE DEF v
<1>2. v.approved \in Seq(BOOLEAN) /\ Len(v.approved) = i + 1 /\ v.approved[i + 1] = yes
  BY <1>1, AppendedLast
<1>3. Approved(v, i + 1) BY <1>1, <1>2 DEF Approved
<1> QED BY <1>3 DEF v

LEMMA PanicApproved ==
    ASSUME NEW w, NEW i, NEW reason \in {"empty_key", "internal_error"}
    PROVE  Approved(Panic(reason, w), i)
BY DEF Panic, Approved

LEMMA EnterApproved ==
    ASSUME NEW w, NEW i \in Nat, w.approved \in Seq(BOOLEAN), Len(w.approved) = i,
           NEW ms, NEW c, NEW visit, ForPath(visit), NEW yes \in BOOLEAN, yes, NEW h
    PROVE  Approved(Enter(w, ms, c, visit, yes, h), i + 1)
<1> DEFINE ls == Put(ms, c, EmptyKey, Entry(visit.value, h))
           v == Enter(w, ms, c, visit, yes, h)
<1>1. \/ v = Visited(w, ms, c, yes)
      \/ v = Panic("internal_error", w)
      \/ v = Visited(w, ls, c, yes)
  BY DEF Enter
<1> HIDE DEF ls, v
<1>2. Approved(Visited(w, ms, c, yes), i + 1) /\ Approved(Visited(w, ls, c, yes), i + 1)
  BY VisitedApproved
<1>3. Approved(Panic("internal_error", w), i + 1) BY PanicApproved
<1>4. Approved(v, i + 1) BY <1>1, <1>2, <1>3
<1> QED BY <1>4 DEF v

(* Once approved, a write is not denied.                                    *)
LEMMA SetKeyApproved ==
    ASSUME NEW w, NEW i \in Nat, i > 0, Approved(w, i), NEW visit, ForPath(visit), visit.parent = i,
           NEW writable, NEW h
    PROVE  Approved(SetKey(w, visit, writable, h), i + 1)
<1> DEFINE v == SetKey(w, visit, writable, h)
<1>1. CASE w.outcome # "ok"
  <2>1. v = w BY <1>1 DEF SetKey
  <2> HIDE DEF v
  <2>2. Approved(v, i + 1) BY <1>1, <2>1 DEF Approved
  <2> QED BY <2>2 DEF v
<1>2. CASE w.outcome = "ok"
  <2> DEFINE id == w.ids[visit.parent]
             key == visit.key
             child == Child(w.nodes, w.ids[visit.parent], visit.key)
             ls == WithChild(w.nodes, w.ids[visit.parent], visit.key, h)
             ps == Put(w.nodes, w.ids[visit.parent], visit.key, Entry(visit.value, h))
             ok == w.approved[visit.parent]
             yes == ok \/ child \in writable
             sure == TRUE
  <2>1. w.approved \in Seq(BOOLEAN) /\ Len(w.approved) = i /\ ok BY <1>2 DEF Approved
  <2>2. \/ v = Enter(w, ls, child, visit, yes, h)
        \/ ~ok
        \/ v = Visited(w, ps, id, sure)
        \/ v = Panic("empty_key", w)
        \/ v = Visited(w, ls, child, sure)
    BY <1>2 DEF SetKey
  <2>3. yes \in BOOLEAN /\ yes BY <2>1
  <2>4. sure \in BOOLEAN /\ sure OBVIOUS
  <2> HIDE DEF v, child, ls, ps, yes, sure, id
  <2>5. Approved(Enter(w, ls, child, visit, yes, h), i + 1) BY <2>1, <2>3, EnterApproved
  <2>6. Approved(Visited(w, ps, id, sure), i + 1) /\ Approved(Visited(w, ls, child, sure), i + 1)
    BY <2>1, <2>4, VisitedApproved
  <2>7. Approved(Panic("empty_key", w), i + 1) BY PanicApproved
  <2>8. Approved(v, i + 1) BY <2>1, <2>2, <2>5, <2>6, <2>7
  <2> QED BY <2>8 DEF v
<1> QED BY <1>1, <1>2

(* At a node that is not granted, a leaf is denied and an object waits.     *)
Unapproved(ns, w, i, c, visit, approved) ==
    /\ visit.leaf /\ ~approved => w.outcome = "denied"
    /\ ~visit.leaf /\ ~approved => Waiting(ns, w, i, c)

LEMMA EnterWaiting ==
    ASSUME NEW ns, NEW w, NEW i \in Nat, w.ids \in Seq(Nat), Len(w.ids) = i,
           w.approved \in Seq(BOOLEAN), Len(w.approved) = i,
           NEW ms, SameChildren(ns, ms), NEW c \in Nat, c \in DOMAIN ns,
           NEW visit, ForPath(visit), NEW no \in BOOLEAN, NEW h
    PROVE  Unapproved(ns, Enter(w, ms, c, visit, no, h), i + 1, c, visit, no)
<1> DEFINE v == Enter(w, ms, c, visit, no, h)
<1>1. CASE visit.leaf /\ ~no
  <2>1. v = Panic("denied", w) BY <1>1 DEF Enter
  <2>2. v.outcome = "denied" BY <2>1 DEF Panic
  <2> HIDE DEF v
  <2>3. Unapproved(ns, v, i + 1, c, visit, no) BY <1>1, <2>2 DEF Unapproved
  <2> QED BY <2>3 DEF v
<1>2. CASE ~visit.leaf /\ ~no
  <2>1. v = Visited(w, ms, c, no) BY <1>2 DEF Enter
  <2>2. v.outcome = "ok" /\ v.nodes = ms /\ v.ids = Append(w.ids, c) /\ v.approved = Append(w.approved, no)
    BY <2>1 DEF Visited
  <2>3. v.ids \in Seq(Nat) /\ Len(v.ids) = i + 1 /\ v.ids[i + 1] = c BY <2>2, AppendProperties
  <2>4. v.approved \in Seq(BOOLEAN) /\ Len(v.approved) = i + 1 /\ v.approved[i + 1] = no
    BY <2>2, AppendedLast
  <2>5. ~v.approved[i + 1] BY <1>2, <2>4
  <2> HIDE DEF v
  <2>6. Waiting(ns, v, i + 1, c) BY <2>2, <2>3, <2>4, <2>5 DEF Waiting
  <2>7. Unapproved(ns, v, i + 1, c, visit, no) BY <1>2, <2>6 DEF Unapproved
  <2> QED BY <2>7 DEF v
<1>3. CASE no BY <1>3 DEF Unapproved
<1> QED BY <1>1, <1>2, <1>3 DEF ForPath

(* The next key of the path: where there is no node the write is denied,    *)
(* and a granted node approves it.                                          *)
AfterWaiting(ns, w, i, d, visit, writable) ==
    /\ d = 0 => w.outcome = "denied"
    /\ d # 0 /\ d \in writable => Approved(w, i)
    /\ d # 0 /\ d \notin writable =>
        /\ visit.leaf => w.outcome = "denied"
        /\ ~visit.leaf => Waiting(ns, w, i, d)

LEMMA SetKeyWaiting ==
    ASSUME NEW ns, Linked(ns), NEW w, NEW i \in Nat, i > 0, NEW c, Waiting(ns, w, i, c),
           NEW visit, ForPath(visit), visit.parent = i, NEW writable, NEW h,
           NEW d, d = IF IsNode(ns[c], visit.key) THEN ns[c].children[visit.key].id ELSE 0
    PROVE  AfterWaiting(ns, SetKey(w, visit, writable, h), i + 1, d, visit, writable)
<1> DEFINE v == SetKey(w, visit, writable, h)
           key == visit.key
           ms == w.nodes
           child == Child(w.nodes, w.ids[visit.parent], visit.key)
           ls == WithChild(w.nodes, w.ids[visit.parent], visit.key, h)
           yes == w.approved[visit.parent] \/ child \in writable
<1>1. /\ w.outcome = "ok" /\ c \in DOMAIN ns /\ w.ids[visit.parent] = c /\ ~w.approved[visit.parent]
      /\ w.ids \in Seq(Nat) /\ Len(w.ids) = i /\ w.approved \in Seq(BOOLEAN) /\ Len(w.approved) = i
      /\ SameChildren(ns, ms)
  BY DEF Waiting
<1>2. ms[c].children = ns[c].children BY <1>1 DEF SameChildren
<1>3. IsNode(ms[c], key) <=> IsNode(ns[c], key) BY <1>2 DEF IsNode, HasKey
<1>4. CASE ~IsNode(ns[c], key)
  <2>1. v = Panic("denied", w) BY <1>1, <1>3, <1>4 DEF SetKey
  <2>2. v.outcome = "denied" BY <2>1 DEF Panic
  <2>3. d = 0 BY <1>4
  <2> HIDE DEF v
  <2>4. AfterWaiting(ns, v, i + 1, d, visit, writable) BY <2>2, <2>3 DEF AfterWaiting
  <2> QED BY <2>4 DEF v
<1>5. CASE IsNode(ns[c], key)
  <2>1. v = Enter(w, ls, child, visit, yes, h) BY <1>1, <1>3, <1>5 DEF SetKey
  <2>2. child = d BY <1>1, <1>2, <1>3, <1>5 DEF Child
  <2>3. ls = Touch(ms, d, h) BY <1>1, <1>2, <1>3, <1>5 DEF WithChild
  <2>4. d \in DOMAIN ns /\ d \in Nat /\ d # 0
    <3>1. key \in Keys BY DEF ForPath
    <3>2. d = ns[c].children[key].id BY <1>5
    <3>3. d \in DOMAIN ns BY <1>1, <1>5, <3>1, <3>2 DEF Linked
    <3>4. ns \in Seq(NodeType) BY DEF Linked
    <3> QED BY <3>3, <3>4, NodeFacts
  <2>5. SameChildren(ns, ls) BY <1>1, <2>3, TouchChildren
  <2>6. yes \in BOOLEAN /\ (yes <=> d \in writable) BY <1>1, <2>2
  <2>7. v = Enter(w, ls, d, visit, yes, h) BY <2>1, <2>2
  <2> HIDE DEF v, key, ms, child, ls, yes
  <2>8. CASE d \in writable
    <3>1. yes BY <2>6, <2>8
    <3>2. Approved(Enter(w, ls, d, visit, yes, h), i + 1) BY <1>1, <2>6, <3>1, EnterApproved
    <3>3. AfterWaiting(ns, v, i + 1, d, visit, writable) BY <2>4, <2>7, <2>8, <3>2 DEF AfterWaiting
    <3> QED BY <3>3 DEF v
  <2>9. CASE d \notin writable
    <3>1. ~yes BY <2>6, <2>9
    <3>2. w.ids \in Seq(Nat) /\ Len(w.ids) = i /\ w.approved \in Seq(BOOLEAN) /\ Len(w.approved) = i
      BY <1>1
    <3>3. d \in Nat /\ d \in DOMAIN ns BY <2>4
    <3>4. yes \in BOOLEAN BY <2>6
    <3>5. Unapproved(ns, Enter(w, ls, d, visit, yes, h), i + 1, d, visit, yes)
      BY <2>5, <3>2, <3>3, <3>4, EnterWaiting
    <3>6. Unapproved(ns, v, i + 1, d, visit, yes) BY <2>7, <3>5
    <3>7. /\ visit.leaf => v.outcome = "denied"
          /\ ~visit.leaf => Waiting(ns, v, i + 1, d)
      BY <3>1, <3>6 DEF Unapproved
    <3>8. AfterWaiting(ns, v, i + 1, d, visit, writable) BY <2>4, <2>9, <3>7 DEF AfterWaiting
    <3> QED BY <3>8 DEF v
  <2> QED BY <2>8, <2>9
<1> QED BY <1>4, <1>5

(* The data for a leaf at a path.                                           *)
LEMMA DataAtFacts ==
    ASSUME NEW path \in Seq(Keys), NEW data, data = DataAt(path)
    PROVE  /\ Len(path) \in Nat /\ Len(data) = Len(path) + 1
           /\ \A i \in 1 .. Len(path) + 1 :
                /\ ForPath(data[i]) /\ (data[i].leaf <=> i = Len(path) + 1)
                /\ i > 1 => data[i].parent = i - 1 /\ data[i].key = path[i - 1]
<1> DEFINE L == Len(path)
           visit(i) == [parent |-> i - 1, key |-> IF i = 1 THEN EmptyKey ELSE path[i - 1],
                        leaf |-> i = L + 1, value |-> "x"]
<1>1. L \in Nat /\ \A i \in 1 .. L : path[i] \in Keys BY LenProperties, ElementOfSeq
<1>2. data = [i \in 1 .. L + 1 |-> visit(i)] BY DEF DataAt
<1>3. ASSUME NEW i \in 1 .. L + 1
      PROVE  /\ ForPath(visit(i)) /\ (visit(i).leaf <=> i = L + 1)
             /\ i > 1 => visit(i).parent = i - 1 /\ visit(i).key = path[i - 1]
  <2> DEFINE k == IF i = 1 THEN EmptyKey ELSE path[i - 1]
             last == i = L + 1
  <2>1. i - 1 \in Nat BY <1>1
  <2>2. i # 1 => i - 1 \in 1 .. L BY <1>1
  <2>3. k \in Keys /\ (i > 1 => k = path[i - 1]) BY <1>1, <2>2, EmptyKeyAssumption
  <2>4. last \in BOOLEAN OBVIOUS
  <2> DEFINE r == [parent |-> i - 1, key |-> k, leaf |-> last, value |-> "x"]
  <2>5. visit(i) = r OBVIOUS
  <2> HIDE DEF k, last, visit
  <2>6. r.parent = i - 1 /\ r.key = k /\ (r.leaf <=> last) OBVIOUS
  <2>7. ForPath(r) BY <2>3, <2>4, <2>6 DEF ForPath
  <2> HIDE DEF r
  <2>8. r.leaf <=> i = L + 1 BY <2>6 DEF last
  <2> QED BY <2>3, <2>5, <2>6, <2>7, <2>8
<1> HIDE DEF visit
<1>4. DOMAIN data = 1 .. L + 1 /\ \A i \in 1 .. L + 1 : data[i] = visit(i) BY <1>2
<1>5. Len(data) = L + 1
  <2>1. L + 1 \in Nat BY <1>1
  <2> DEFINE S == {visit(i) : i \in 1 .. L + 1}
  <2>2. data \in [1 .. L + 1 -> S] BY <1>2
  <2> HIDE DEF S
  <2>3. data \in Seq(S) BY <2>1, <2>2, SeqDef
  <2>4. DOMAIN data = 1 .. Len(data) /\ Len(data) \in Nat BY <2>3, LenProperties
  <2> HIDE DEF L
  <2> QED BY <1>1, <1>4, <2>4
<1> QED BY <1>1, <1>3, <1>4, <1>5

(* A write at a path is denied exactly if no node on the path is granted:   *)
(* it comes along the nodes of the path until the first that is granted,    *)
(* where it is approved, or to the last there is, where it is denied.       *)
LEMMA DeniedUnlessGranted ==
    ASSUME NEW ns, Linked(ns), NEW id \in DOMAIN ns, NEW path \in Seq(Keys),
           NEW data, data = DataAt(path), NEW no \in BOOLEAN, ~no, NEW writable, NEW h
    PROVE  recursive_set(ns, id, data, no, writable, h).outcome # "denied"
                <=> GrantedOnPath(ns, id, path, writable)
<1> DEFINE W == WriteSteps(ns, id, data, no, writable, h)
           P == NodesOnPath(ns, id, path)
           L == Len(path)
           G(n) == \E k \in 0 .. n : P[k] # 0 /\ P[k] \in writable
           OnPath(n) == /\ G(n) => Approved(W[n + 1], n + 1)
                        /\ ~G(n) /\ P[n] = 0 => W[n + 1].outcome = "denied"
                        /\ ~G(n) /\ n = L => W[n + 1].outcome = "denied"
                        /\ ~G(n) /\ P[n] # 0 /\ n # L => Waiting(ns, W[n + 1], n + 1, P[n])
           N == {n \in Nat : n <= L => OnPath(n)}
<1>1. /\ L \in Nat /\ Len(data) = L + 1
      /\ \A i \in 1 .. L + 1 :
            /\ ForPath(data[i]) /\ (data[i].leaf <=> i = L + 1)
            /\ i > 1 => data[i].parent = i - 1 /\ data[i].key = path[i - 1]
  BY DataAtFacts
<1>2. /\ W[1] = FirstVisit(ns, id, data, no, writable, h)
      /\ \A n \in 1 .. L + 1 : n # 1 => W[n] = SetKey(W[n - 1], data[n], writable, h)
  <2>1. Len(data) \in Nat BY <1>1
  <2>2. \A n \in 1 .. L + 1 : W[n] = NextWrite(W, ns, id, data, no, writable, h, n)
    BY <1>1, <2>1, WriteUnfolds
  <2>3. 1 \in 1 .. L + 1 BY <1>1
  <2> HIDE DEF W, L
  <2> QED BY <2>2, <2>3 DEF NextWrite
<1>3. /\ P[0] = id
      /\ \A n \in 1 .. L : P[n] = IF P[n - 1] # 0 /\ IsNode(ns[P[n - 1]], path[n])
                                  THEN ns[P[n - 1]].children[path[n]].id ELSE 0
  <2>1. \A n \in 0 .. L : P[n] = NextNode(P, ns, id, path, n) BY <1>1, PathUnfolds
  <2>2. 0 \in 0 .. L BY <1>1
  <2>3. \A n \in 1 .. L : n \in 0 .. L /\ n # 0 OBVIOUS
  <2> HIDE DEF P, L
  <2> QED BY <2>1, <2>2, <2>3 DEF NextNode
<1>4. id \in Nat /\ id # 0 /\ ns \in Seq(NodeType)
  <2>1. ns \in Seq(NodeType) BY DEF Linked
  <2> QED BY <2>1, NodeFacts
<1> HIDE DEF W, P, L
<1>5. 0 \in N
  <2> DEFINE s == [outcome |-> "ok", nodes |-> ns, ids |-> <<>>, approved |-> <<>>]
             ts == Touch(ns, id, h)
             yes == no \/ id \in writable
             visit == data[1]
  <2>1. W[1] = Enter(s, ts, id, visit, yes, h) BY <1>2 DEF FirstVisit
  <2>2. /\ s.ids \in Seq(Nat) /\ Len(s.ids) = 0 /\ s.approved \in Seq(BOOLEAN) /\ Len(s.approved) = 0
    BY EmptySeq
  <2>3. SameChildren(ns, ts)
    <3>1. SameChildren(ns, ns) BY DEF SameChildren
    <3> QED BY <3>1, TouchChildren
  <2>4. yes \in BOOLEAN /\ (yes <=> id \in writable) OBVIOUS
  <2>5. ForPath(visit) /\ (visit.leaf <=> 0 = L)
    <3>1. 1 \in 1 .. L + 1 /\ (1 = L + 1 <=> 0 = L) BY <1>1
    <3> QED BY <1>1, <3>1
  <2>6. G(0) <=> id \in writable BY <1>3, <1>4
  <2>7. 0 \in Nat /\ 0 + 1 = 1 OBVIOUS
  <2> HIDE DEF s, ts, yes, visit, G
  <2>8. yes \in BOOLEAN BY <2>4
  <2>9. yes => Approved(Enter(s, ts, id, visit, yes, h), 0 + 1)
    <3> SUFFICES ASSUME yes PROVE Approved(Enter(s, ts, id, visit, yes, h), 0 + 1) OBVIOUS
    <3> QED BY <2>2, <2>5, <2>7, <2>8, EnterApproved
  <2>10. Unapproved(ns, Enter(s, ts, id, visit, yes, h), 0 + 1, id, visit, yes)
    BY <1>4, <2>2, <2>3, <2>5, <2>7, <2>8, EnterWaiting
  <2>11. /\ id \in writable => Approved(W[1], 1)
         /\ id \notin writable /\ 0 = L => W[1].outcome = "denied"
         /\ id \notin writable /\ 0 # L => Waiting(ns, W[1], 1, id)
    BY <2>1, <2>4, <2>5, <2>7, <2>9, <2>10 DEF Unapproved
  <2>12. OnPath(0) BY <1>3, <1>4, <2>6, <2>7, <2>11
  <2> HIDE DEF OnPath
  <2> QED BY <2>12
<1>6. ASSUME NEW n \in Nat, n \in N PROVE n + 1 \in N
  <2> SUFFICES ASSUME n + 1 <= L PROVE OnPath(n + 1)
    <3>1. n + 1 \in Nat OBVIOUS
    <3> HIDE DEF OnPath
    <3> QED BY <3>1
  <2> DEFINE i == n + 1
             visit == data[i + 1]
             d == P[i]
             v == W[i + 1]
  <2>1. OnPath(n) /\ n # L
    <3>1. n <= L /\ n # L BY <1>1
    <3> HIDE DEF OnPath
    <3> QED BY <1>6, <3>1
  <2>2. i \in Nat /\ i > 0 /\ i \in 1 .. L /\ i - 1 = n BY <1>1
  <2>3. i + 1 \in 1 .. L + 1 /\ i + 1 > 1 /\ (i + 1) - 1 = i /\ (i + 1 = L + 1 <=> i = L) BY <1>1, <2>2
  <2>4. /\ ForPath(visit) /\ visit.parent = i /\ visit.key = path[i] /\ (visit.leaf <=> i = L)
    BY <1>1, <2>3
  <2>5. v = SetKey(W[i], visit, writable, h) BY <1>2, <2>3
  <2>6. d = IF P[n] # 0 /\ IsNode(ns[P[n]], path[i]) THEN ns[P[n]].children[path[i]].id ELSE 0
    BY <1>3, <2>2
  <2>7. G(i) <=> G(n) \/ (d # 0 /\ d \in writable)
    <3>1. \A k : k \in 0 .. i <=> k \in 0 .. n \/ k = i BY <2>2
    <3> HIDE DEF i
    <3> QED BY <3>1
  <2> HIDE DEF visit, d, v, G
  <2>8. CASE G(n)
    <3>1. Approved(W[i], i) BY <2>1, <2>8
    <3>2. Approved(SetKey(W[i], visit, writable, h), i + 1)
      <4> HIDE DEF i
      <4> QED BY <2>2, <2>4, <3>1, SetKeyApproved
    <3>3. G(i) /\ Approved(v, i + 1) BY <2>5, <2>7, <2>8, <3>2
    <3> QED BY <3>3 DEF v, d
  <2>9. CASE ~G(n) /\ P[n] = 0
    <3>1. W[i].outcome = "denied" BY <2>1, <2>9
    <3>2. v = W[i] BY <2>5, <3>1 DEF SetKey
    <3>3. d = 0 /\ ~G(i) /\ v.outcome = "denied" BY <2>6, <2>7, <2>9, <3>1, <3>2
    <3> QED BY <3>3 DEF v, d
  <2>10. CASE ~G(n) /\ P[n] # 0
    <3> DEFINE c == P[n]
               w == W[i]
    <3>1. Waiting(ns, w, i, c) BY <2>1, <2>10
    <3>2. d = IF IsNode(ns[c], visit.key) THEN ns[c].children[visit.key].id ELSE 0
      BY <2>4, <2>6, <2>10
    <3>3. v = SetKey(w, visit, writable, h) BY <2>5
    <3> HIDE DEF c, w, i
    <3>4. AfterWaiting(ns, v, i + 1, d, visit, writable)
      <4>1. i \in Nat /\ i > 0 BY <2>2
      <4>2. ForPath(visit) /\ visit.parent = i BY <2>4
      <4>3. AfterWaiting(ns, SetKey(w, visit, writable, h), i + 1, d, visit, writable)
        BY <3>1, <3>2, <4>1, <4>2, SetKeyWaiting
      <4> QED BY <3>3, <4>3
    <3>5. /\ G(i) => Approved(v, i + 1)
          /\ ~G(i) /\ d = 0 => v.outcome = "denied"
          /\ ~G(i) /\ i = L => v.outcome = "denied"
          /\ ~G(i) /\ d # 0 /\ i # L => Waiting(ns, v, i + 1, d)
      BY <2>4, <2>7, <2>10, <3>4 DEF AfterWaiting
    <3> QED BY <3>5 DEF v, d, i
  <2> QED BY <2>8, <2>9, <2>10
<1>7. OnPath(L)
  <2> HIDE DEF N
  <2>1. L \in N BY <1>1, <1>5, <1>6, InductionOnNat
  <2> USE DEF N
  <2> HIDE DEF OnPath
  <2> QED BY <1>1, <2>1
<1>8. recursive_set(ns, id, data, no, writable, h) = W[L + 1] BY <1>1 DEF recursive_set, W
<1>9. GrantedOnPath(ns, id, path, writable) <=> G(L) BY DEF GrantedOnPath, P, L
<1> HIDE DEF G
<1>10. CASE G(L)
  <2>1. Approved(W[L + 1], L + 1) BY <1>7, <1>10
  <2> QED BY <1>8, <1>9, <1>10, <2>1 DEF Approved
<1>11. CASE ~G(L)
  <2>1. W[L + 1].outcome = "denied" BY <1>7, <1>11
  <2> QED BY <1>8, <1>9, <1>11, <2>1
<1> QED BY <1>10, <1>11

----------------------------------------------------------------------------
(* Steps of the whole contract.                                             *)

LEMMA NodesWithFacts ==
    ASSUME SocialIInv, NEW a \in AccountIds, NEW qt, qt = [root EXCEPT ![a] = RootOf(a)]
    PROVE  Rooted(nodes, NodesWith(a), root, qt, a, height) /\ qt[a] = RootOf(a)
<1>1. IsTree(nodes, root) /\ height \in Nat /\ Heights(nodes, height) BY DEF SocialIInv, TreeOK
<1>2. NodesWith(a) = IF root[a] = 0 THEN Append(nodes, NewNode(height)) ELSE nodes BY DEF NodesWith
<1>3. qt = [root EXCEPT ![a] = IF root[a] = 0 THEN Len(nodes) + 1 ELSE root[a]] BY DEF RootOf
<1>4. qt[a] = RootOf(a)
  <2>1. root \in [AccountIds -> 0 .. Len(nodes)] BY <1>1 DEF IsTree
  <2> QED BY <2>1
<1> QED BY <1>1, <1>2, <1>3, <1>4, RootedFacts

(* What a call stores for account a, that adds so many bytes and had and    *)
(* has so many for its permissions: the tree stays in order, and the bytes  *)
(* are those of SocialStorage.                                              *)
TreeStored(a, written, before, after) ==
    /\ TreeOK'
    /\ root'[a] # 0 /\ \A b \in AccountIds \ {a} : root'[b] = root[b]
    /\ stored' = [b \in AccountIds |-> StateBytes(b, root', nodes', permissions')]
    /\ \E st \in Nat :
        /\ stored' = [stored EXCEPT ![a] = st]
        /\ st >= AccountBytes
        /\ st = ((StoredBytes(a) + written) + after) - before

LEMMA StoreTreeStep ==
    ASSUME SocialIInv, NEW a \in AccountIds, NEW ns, ns = NodesWith(a),
           NEW qt, qt = [root EXCEPT ![a] = RootOf(a)],
           NEW ms, NEW D, Steps(ns, ms, qt, a, height, D),
           NEW granted \in [AccountIds -> [PermissionKeys -> SUBSET Nat]],
           \A b \in AccountIds \ {a} : granted[b] = permissions[b],
           \A p \in PermissionKeys : granted[a][p] \subseteq Below(ms, qt[a]),
           StoreTree(a, ms, granted), height' = height
    PROVE  TreeStored(a, BytesWritten(ns, ms), PermissionBytes(permissions[a]),
                      PermissionBytes(granted[a]))
<1>1. /\ IsTree(nodes, root) /\ height \in Nat /\ Granted(nodes, root, permissions)
      /\ stored = [b \in AccountIds |-> StateBytes(b, root, nodes, permissions)]
      /\ Registered(a) <=> root[a] # 0
      /\ accounts[a].version # "V0"
  BY DEF SocialIInv, TreeOK, BytesOK
<1>2. Rooted(nodes, ns, root, qt, a, height) BY NodesWithFacts
<1>3. IsTree(ns, qt) /\ Heights(ns, height) /\ qt[a] # 0
      /\ \A b \in AccountIds \ {a} : qt[b] = root[b]
  BY <1>2 DEF Rooted
<1>4. /\ Granted(ns, qt, permissions)
      /\ root[a] # 0 => StateBytes(a, qt, ns, permissions) = StateBytes(a, root, nodes, permissions)
      /\ root[a] = 0 => StateBytes(a, qt, ns, permissions) = AccountBytes
      /\ \A b \in AccountIds \ {a} :
            StateBytes(b, qt, ns, permissions) = StateBytes(b, root, nodes, permissions)
  <2>1. IsTree(nodes, root) /\ Granted(nodes, root, permissions) BY <1>1
  <2>2. RootedState(nodes, ns, root, qt, a, permissions) BY <1>2, <2>1, RootedBytes
  <2> QED BY <2>2 DEF RootedState
<1>5. /\ Granted(ms, qt, granted)
      /\ \A b \in AccountIds \ {a} : StateBytes(b, qt, ms, granted) = StateBytes(b, qt, ns, permissions)
      /\ StateBytes(a, qt, ms, granted) =
            ((StateBytes(a, qt, ns, permissions) + BytesWritten(ns, ms)) + PermissionBytes(granted[a]))
                - PermissionBytes(permissions[a])
      /\ StateBytes(a, qt, ms, granted) \in Nat
      /\ StateBytes(a, qt, ms, granted) >= AccountBytes
  <2>1. IsTree(ns, qt) BY <1>3
  <2>2. qt[a] # 0 BY <1>3
  <2>3. Granted(ns, qt, permissions) BY <1>4
  <2>4. SteppedState(ns, ms, qt, a, permissions, granted) BY <2>1, <2>2, <2>3, SteppedBytes
  <2> QED BY <2>4 DEF SteppedState
<1>6. /\ nodes' = ms /\ root' = qt /\ permissions' = granted
      /\ stored' = [b \in AccountIds |-> StateBytes(b, qt, ms, granted)]
  BY DEF StoreTree
<1>7. IsTree(ms, qt) /\ Heights(ms, height) BY StepsTree
<1>8. TreeOK' BY <1>1, <1>5, <1>6, <1>7 DEF TreeOK
<1>9. StateBytes(a, qt, ns, permissions) = StoredBytes(a)
  <2>1. CASE root[a] # 0
    <3>1. stored[a] \in Nat BY DEF SocialIInv, IInv
    <3>2. StoredBytes(a) = stored[a] + 0 BY <1>1, <2>1 DEF StoredBytes, MigratedBytes
    <3>3. StoredBytes(a) = stored[a] BY <3>1, <3>2
    <3> QED BY <1>1, <1>4, <2>1, <3>3
  <2>2. CASE root[a] = 0 BY <1>1, <1>4, <2>2 DEF StoredBytes
  <2> QED BY <2>1, <2>2
<1> DEFINE st == StateBytes(a, qt, ms, granted)
<1>10. stored' = [stored EXCEPT ![a] = st]
  <2> DEFINE g == [b \in AccountIds |-> StateBytes(b, qt, ms, granted)]
  <2>1. \A b \in AccountIds : g[b] = [stored EXCEPT ![a] = st][b]
    <3> TAKE b \in AccountIds
    <3>1. CASE b = a BY <1>1, <3>1
    <3>2. CASE b # a
      <4>1. g[b] = stored[b] BY <1>1, <1>4, <1>5, <3>2
      <4> QED BY <1>1, <3>2, <4>1
    <3> QED BY <3>1, <3>2
  <2>2. DOMAIN stored = AccountIds BY <1>1
  <2>3. g = [b \in AccountIds |-> g[b]] OBVIOUS
  <2>4. stored' = g BY <1>6
  <2> HIDE DEF g, st
  <2>5. [stored EXCEPT ![a] = st] = [b \in AccountIds |-> [stored EXCEPT ![a] = st][b]] BY <2>2
  <2> QED BY <2>1, <2>3, <2>4, <2>5
<1>11. stored' = [b \in AccountIds |-> StateBytes(b, root', nodes', permissions')] BY <1>6
<1>12. root'[a] # 0 /\ \A b \in AccountIds \ {a} : root'[b] = root[b] BY <1>3, <1>6
<1>13. st \in Nat /\ st >= AccountBytes
       /\ st = ((StoredBytes(a) + BytesWritten(ns, ms)) + PermissionBytes(granted[a]))
                    - PermissionBytes(permissions[a])
  BY <1>5, <1>9
<1> HIDE DEF st
<1> QED BY <1>8, <1>10, <1>11, <1>12, <1>13 DEF TreeStored

(* The account of a call that pays.                                         *)
LEMMA PaidAccount ==
    ASSUME IInv, NEW a \in AccountIds, ~IsShared(accounts[a]),
           NEW deposit \in Nat, CanCreate(a, deposit)
    PROVE  /\ AccountOrCreated(a, deposit) \in AccountType
           /\ AccountOrCreated(a, deposit).version = "Current"
           /\ ~IsShared(AccountOrCreated(a, deposit))
           /\ RecordBytes(AccountOrCreated(a, deposit)) = AccountBytes
<1> DEFINE account == AccountOrCreated(a, deposit)
<1>1. Sound(a, account, StoredBytes(a)) /\ account.shared_storage = accounts[a].shared_storage
  BY FoundOrCreated
<1> HIDE DEF account
<1>2. account \in AccountType /\ account.version = "Current" /\ ~IsShared(account)
  BY <1>1 DEF Sound, IsShared
<1>3. RecordBytes(account) = AccountBytes BY <1>2, BytesAssumption DEF RecordBytes
<1> QED BY <1>2, <1>3 DEF account

(* An account of the present version that uses no shared storage.           *)
OwnStorage(acc) ==
    /\ DOMAIN acc = {"version", "storage_balance", "used_bytes", "shared_storage"}
    /\ acc.version = "Current" /\ acc.shared_storage.pool_id = NoPool

LEMMA OwnStorageType ==
    ASSUME NEW acc \in AccountType, acc.version = "Current", ~IsShared(acc)
    PROVE  OwnStorage(acc) /\ acc.shared_storage \in ShareType
BY DEF OwnStorage, IsShared, AccountType

LEMMA ChargedShape ==
    ASSUME NEW acc, OwnStorage(acc), acc.shared_storage \in ShareType, NEW ps, NEW bytes
    PROVE  OwnStorage(Charged(acc, ps, bytes))
<1> DEFINE u == acc.used_bytes + bytes
           v == acc.shared_storage.used_bytes + PoolPart(acc, ps, bytes)
           c == [acc EXCEPT !.used_bytes = u, !.shared_storage.used_bytes = v]
<1>1. Charged(acc, ps, bytes) = c BY DEF Charged
<1> HIDE DEF u, v
<1>2. c.version = acc.version /\ c.shared_storage.pool_id = acc.shared_storage.pool_id
      /\ DOMAIN c = {"version", "storage_balance", "used_bytes", "shared_storage"}
  BY DEF OwnStorage, ShareType
<1> HIDE DEF c
<1>3. OwnStorage(c) BY <1>2 DEF OwnStorage
<1> QED BY <1>1, <1>3

LEMMA BalanceShape ==
    ASSUME NEW acc, OwnStorage(acc), NEW x
    PROVE  /\ OwnStorage([acc EXCEPT !.storage_balance = x])
           /\ [acc EXCEPT !.storage_balance = x].shared_storage = acc.shared_storage
<1> DEFINE d == [acc EXCEPT !.storage_balance = x]
<1>1. d.version = acc.version /\ d.shared_storage = acc.shared_storage /\ DOMAIN d = DOMAIN acc
  BY DEF OwnStorage
<1> HIDE DEF d
<1>2. OwnStorage(d) BY <1>1 DEF OwnStorage
<1> QED BY <1>1, <1>2 DEF d

(* Only account a changes, and it has no shared storage.                    *)
OwnAccount(a, acc) ==
    accounts' = [accounts EXCEPT ![a] = acc] /\ OwnStorage(acc)

LEMMA PayShape ==
    ASSUME IInv, NEW a \in AccountIds, ~IsShared(accounts[a]), NEW deposit \in Nat,
           NEW bytes, NEW refund, Pay(a, bytes, deposit, refund)
    PROVE  \E acc : OwnAccount(a, acc)
<1> DEFINE account == AccountOrCreated(a, deposit)
           c == Charged(account, pools, bytes)
           returned == IF refund THEN Least(AvailableBalance(c), deposit) ELSE 0
           acc == [c EXCEPT !.storage_balance = @ - returned]
<1>1. CanCreate(a, deposit) /\ accounts' = [accounts EXCEPT ![a] = acc] BY DEF Pay
<1>2. account \in AccountType /\ account.version = "Current" /\ ~IsShared(account)
  BY <1>1, PaidAccount
<1> DEFINE x == c.storage_balance - returned
<1>3. acc = [c EXCEPT !.storage_balance = x] OBVIOUS
<1>4. c = Charged(account, pools, bytes) OBVIOUS
<1> HIDE DEF account, c, acc, x, returned
<1>5. OwnStorage(acc)
  <2>1. OwnStorage(account) /\ account.shared_storage \in ShareType BY <1>2, OwnStorageType
  <2>2. OwnStorage(c) BY <1>4, <2>1, ChargedShape
  <2> QED BY <1>3, <2>2, BalanceShape
<1> QED BY <1>1, <1>5 DEF OwnAccount

LEMMA DepositShape ==
    ASSUME IInv, NEW a \in AccountIds, ~IsShared(accounts[a]), NEW deposit \in Nat,
           NEW only \in BOOLEAN, PayDeposit(a, only, deposit)
    PROVE  \E acc : OwnAccount(a, acc)
<1>1. CASE Registered(a)
  <2> DEFINE account == AccountOrCreated(a, deposit)
             c == Charged(account, pools, 0)
  <2>1. accounts' = [accounts EXCEPT ![a] = c] BY <1>1 DEF PayDeposit, internal_set_account
  <2>2. CanCreate(a, deposit) BY <1>1 DEF CanCreate
  <2>3. account \in AccountType /\ account.version = "Current" /\ ~IsShared(account)
    BY <2>2, PaidAccount
  <2>4. c = Charged(account, pools, 0) OBVIOUS
  <2> HIDE DEF account, c
  <2>5. OwnStorage(c)
    <3>1. OwnStorage(account) /\ account.shared_storage \in ShareType BY <2>3, OwnStorageType
    <3> QED BY <2>4, <3>1, ChargedShape
  <2> QED BY <2>1, <2>5 DEF OwnAccount
<1>2. CASE ~Registered(a)
  <2> DEFINE acc == CreatedAccount(deposit, only)
  <2>1. StorageCovered(acc) /\ accounts' = [accounts EXCEPT ![a] = acc] BY <1>2 DEF PayDeposit
  <2>2. Sound(a, acc, AccountBytes) /\ acc.shared_storage = NoShare BY <2>1, Created
  <2> HIDE DEF acc
  <2>3. acc \in AccountType /\ acc.version = "Current" /\ ~IsShared(acc)
    BY <2>2 DEF Sound, IsShared, NoShare
  <2>4. OwnStorage(acc) BY <2>3, OwnStorageType
  <2> QED BY <2>1, <2>4 DEF OwnAccount
<1> QED BY <1>1, <1>2

LEMMA WithdrawShape ==
    ASSUME IInv, NEW a \in AccountIds, ~IsShared(accounts[a]), accounts[a].version # "V0",
           NEW amount, storage_withdraw(a, amount)
    PROVE  /\ \E acc : OwnAccount(a, acc)
           /\ stored' = stored /\ Registered(a)
<1> DEFINE account == accounts[a]
           y == account.storage_balance - amount
           acc == [account EXCEPT !.storage_balance = y]
           c == Charged(acc, pools, 0)
<1>1. Registered(a) /\ internal_get_account(a) = account
      /\ accounts \in [AccountIds -> AccountType] /\ stored \in [AccountIds -> Nat]
  BY DEF storage_withdraw, internal_get_account, IInv, Books
<1>2. accounts' = [accounts EXCEPT ![a] = c] BY <1>1 DEF storage_withdraw, internal_set_account
<1>3. account \in AccountType /\ account.version = "Current" /\ ~IsShared(account)
  BY <1>1 DEF AccountType, Registered
<1>4. acc = [account EXCEPT !.storage_balance = y] /\ c = Charged(acc, pools, 0) OBVIOUS
<1>5. stored' = stored
  <2>1. StoredBytes(a) = stored[a] + 0 BY <1>1 DEF StoredBytes, MigratedBytes
  <2>2. StoredBytes(a) = stored[a] BY <1>1, <2>1
  <2>3. stored' = [stored EXCEPT ![a] = stored[a]] BY <2>2 DEF storage_withdraw
  <2> QED BY <1>1, <2>3
<1> HIDE DEF account, y, acc, c
<1>6. OwnStorage(c)
  <2>1. OwnStorage(account) /\ account.shared_storage \in ShareType BY <1>3, OwnStorageType
  <2>2. OwnStorage(acc) /\ acc.shared_storage \in ShareType BY <1>4, <2>1, BalanceShape
  <2> QED BY <1>4, <2>2, ChargedShape
<1> QED BY <1>1, <1>2, <1>5, <1>6 DEF OwnAccount

LEMMA AccountsStep ==
    ASSUME SocialIInv, NEW a \in AccountIds, NEW acc, OwnAccount(a, acc),
           root'[a] # 0, \A b \in AccountIds \ {a} : root'[b] = root[b],
           stored' = [b \in AccountIds |-> StateBytes(b, root', nodes', permissions')]
    PROVE  BytesOK'
<1>1. accounts \in [AccountIds -> AccountType]
      /\ accounts' = [accounts EXCEPT ![a] = acc] /\ acc.version = "Current" /\ ~IsShared(acc)
  BY DEF SocialIInv, IInv, Books, OwnAccount, OwnStorage, IsShared
<1>2. \A b \in AccountIds : /\ accounts[b].version # "None" <=> root[b] # 0
                            /\ accounts[b].version # "V0" /\ ~IsShared(accounts[b])
  BY DEF SocialIInv, BytesOK, Registered
<1>3. ASSUME NEW b \in AccountIds
      PROVE  /\ accounts'[b].version # "None" <=> root'[b] # 0
             /\ accounts'[b].version # "V0" /\ ~IsShared(accounts'[b])
  <2>1. CASE b = a
    <3>1. accounts'[b] = acc BY <1>1, <2>1
    <3> QED BY <1>1, <2>1, <3>1
  <2>2. CASE b # a
    <3>1. accounts'[b] = accounts[b] BY <1>1, <2>2
    <3> QED BY <1>2, <2>2, <3>1
  <2> QED BY <2>1, <2>2
<1> QED BY <1>3 DEF BytesOK, Registered, IsShared

(* set: what is written is in the tree of the account that pays.            *)
LEMMA WroteSteps ==
    ASSUME SocialIInv, NEW a \in AccountIds, NEW caller, NEW public_key, NEW data \in Data[a],
           NEW qt, qt = [root EXCEPT ![a] = RootOf(a)],
           NEW w, w = Wrote(caller, public_key, a, data), w.outcome = "ok"
    PROVE  Steps(NodesWith(a), w.nodes, qt, a, height,
                 Allowed(NodesWith(a), a = caller,
                         internal_get_writeable_node_ids(a, caller, public_key)))
<1> DEFINE ns == NodesWith(a)
           writable == internal_get_writeable_node_ids(a, caller, public_key)
           approved == WriteApproved(a, caller)
<1>1. Rooted(nodes, ns, root, qt, a, height) /\ qt[a] = RootOf(a) BY NodesWithFacts
<1>2. IsTree(ns, qt) /\ Heights(ns, height) /\ qt[a] # 0 /\ height \in Nat
  BY <1>1 DEF Rooted, SocialIInv, TreeOK
<1>3. IsData(data) BY DataAssumption
<1>4. approved \in BOOLEAN /\ approved = (a = caller) BY DEF WriteApproved
<1>5. w = recursive_set(ns, qt[a], data, approved, writable, height) BY <1>1 DEF Wrote
<1> HIDE DEF ns, writable, approved
<1>6. Steps(ns, w.nodes, qt, a, height, Allowed(ns, approved, writable))
  <2> DEFINE A == Allowed(ns, approved, writable)
  <2>1. IsTree(ns, qt) BY <1>2
  <2>2. qt[a] # 0 BY <1>2
  <2>3. Heights(ns, height) /\ height \in Nat BY <1>2
  <2>4. approved \in BOOLEAN BY <1>4
  <2>5. w = recursive_set(ns, qt[a], data, approved, writable, height) BY <1>5
  <2> QED BY <2>1, <2>2, <2>3, <2>4, <2>5, <1>3, SetWrites
<1> QED BY <1>4, <1>6 DEF ns, writable

LEMMA SetStep ==
    ASSUME SocialIInv, NEW a \in AccountIds, NEW caller \in Callers, NEW public_key \in PublicKeys,
           NEW data \in Data[a], NEW deposit \in Deposits, NEW refund \in BOOLEAN,
           set(caller, public_key, a, data, deposit, refund)
    PROVE  /\ \E bytes \in Writes : WriteData(a, bytes, deposit, refund)
           /\ TreeOK' /\ BytesOK'
<1> DEFINE w == Wrote(caller, public_key, a, data)
           ns == NodesWith(a)
           bytes == BytesWritten(NodesWith(a), w.nodes)
           qt == [root EXCEPT ![a] = RootOf(a)]
           D == Allowed(ns, a = caller, internal_get_writeable_node_ids(a, caller, public_key))
<1>1. /\ assert_live /\ Pay(a, bytes, deposit, refund) /\ bytes \in Writes /\ w.outcome = "ok"
      /\ StoreTree(a, w.nodes, permissions) /\ height' = height
  BY DEF set
<1>2. Steps(ns, w.nodes, qt, a, height, D) BY <1>1, WroteSteps
<1>3. IsTree(ns, qt) /\ qt[a] # 0 /\ Granted(ns, qt, permissions)
  <2>1. Rooted(nodes, ns, root, qt, a, height) BY NodesWithFacts
  <2>2. IsTree(nodes, root) /\ Granted(nodes, root, permissions) BY DEF SocialIInv, TreeOK
  <2> HIDE DEF ns, qt
  <2>3. RootedState(nodes, ns, root, qt, a, permissions) BY <2>1, <2>2, RootedBytes
  <2> QED BY <2>1, <2>3 DEF Rooted, RootedState
<1>4. permissions \in [AccountIds -> [PermissionKeys -> SUBSET Nat]]
  BY DEF SocialIInv, TreeOK, Granted
<1>5. qt = [root EXCEPT ![a] = RootOf(a)] /\ ns = NodesWith(a) OBVIOUS
<1>6. bytes = BytesWritten(ns, w.nodes) OBVIOUS
<1> HIDE DEF w, ns, bytes, qt, D
<1>7. \A p \in PermissionKeys : permissions[a][p] \subseteq Below(w.nodes, qt[a])
  <2>1. Below(ns, qt[a]) \subseteq Below(w.nodes, qt[a])
    <3>1. qt[a] \in DOMAIN ns BY <1>3, TreeFacts
    <3> QED BY <1>2, <3>1 DEF Steps, Grows
  <2>2. \A p \in PermissionKeys : permissions[a][p] \subseteq Below(ns, qt[a]) BY <1>3 DEF Granted
  <2> QED BY <2>1, <2>2
<1>8. /\ TreeOK'
      /\ root'[a] # 0 /\ \A b \in AccountIds \ {a} : root'[b] = root[b]
      /\ stored' = [b \in AccountIds |-> StateBytes(b, root', nodes', permissions')]
      /\ \E st \in Nat :
            /\ stored' = [stored EXCEPT ![a] = st]
            /\ st >= AccountBytes
            /\ st = ((StoredBytes(a) + BytesWritten(ns, w.nodes)) + PermissionBytes(permissions[a]))
                        - PermissionBytes(permissions[a])
  <2> DEFINE ms == w.nodes
  <2>1. Steps(ns, ms, qt, a, height, D) /\ StoreTree(a, ms, permissions) BY <1>1, <1>2
  <2>2. \A p \in PermissionKeys : permissions[a][p] \subseteq Below(ms, qt[a]) BY <1>7
  <2>3. height' = height BY <1>1
  <2>4. ns = NodesWith(a) BY <1>5
  <2>5. qt = [root EXCEPT ![a] = RootOf(a)] BY <1>5
  <2> HIDE DEF ms
  <2>6. TreeStored(a, BytesWritten(ns, ms), PermissionBytes(permissions[a]), PermissionBytes(permissions[a]))
    BY <1>4, <2>1, <2>2, <2>3, <2>4, <2>5, StoreTreeStep
  <2> QED BY <2>6 DEF TreeStored, ms
<1>9. IInv /\ ~IsShared(accounts[a]) /\ deposit \in Nat /\ bytes \in Int /\ CanCreate(a, deposit)
  BY <1>1, InputsAssumption DEF SocialIInv, BytesOK, Pay
<1>10. PICK st \in Nat :
            /\ stored' = [stored EXCEPT ![a] = st]
            /\ st >= AccountBytes
            /\ st = ((StoredBytes(a) + bytes) + PermissionBytes(permissions[a]))
                        - PermissionBytes(permissions[a])
  BY <1>6, <1>8
<1>11. StoredBytes(a) \in Int /\ PermissionBytes(permissions[a]) \in Int
  <2>1. Sound(a, AccountOrCreated(a, deposit), StoredBytes(a)) BY <1>9, FoundOrCreated
  <2>2. PermissionBytes(permissions[a]) \in Nat
    BY GrantedFacts DEF SocialIInv, TreeOK
  <2> QED BY <2>1, <2>2 DEF Sound
<1>12. st = StoredBytes(a) + bytes BY <1>9, <1>10, <1>11
<1>13. RecordBytes(AccountOrCreated(a, deposit)) = AccountBytes BY <1>9, PaidAccount
<1>14. Write(a, bytes, deposit, refund)
  BY <1>1, <1>10, <1>12, <1>13 DEF Write
<1>15. \E acc : OwnAccount(a, acc) BY <1>1, <1>9, PayShape
<1>16. BytesOK' BY <1>8, <1>15, AccountsStep
<1> QED BY <1>1, <1>8, <1>14, <1>16 DEF WriteData

(* grant_write_permission: also the granted node is in the caller's tree.   *)
LEMMA PermissionStep ==
    ASSUME SocialIInv, NEW a \in AccountIds, NEW key \in PermissionKeys, NEW path \in GrantPaths[a],
           NEW deposit \in Deposits, grant_write_permission(a, key, path, deposit)
    PROVE  /\ \E bytes \in Writes : WritePermission(a, bytes, deposit)
           /\ TreeOK' /\ BytesOK'
<1> DEFINE w == GrantPath(NodesWith(a), RootOf(a), path, height)
           ns == NodesWith(a)
           before == permissions[a][key]
           after == before \cup {w.id}
           granted == [permissions EXCEPT ![a][key] = after]
           bytes == BytesWritten(ns, w.nodes) + Cardinality(after) - Cardinality(before)
           qt == [root EXCEPT ![a] = RootOf(a)]
           D == DOMAIN ns
<1>1. /\ assert_live /\ deposit > 0 /\ Pay(a, bytes, deposit, FALSE) /\ bytes \in Writes
      /\ w.outcome = "ok" /\ StoreTree(a, w.nodes, granted) /\ height' = height
  BY DEF grant_write_permission
<1>2. Rooted(nodes, ns, root, qt, a, height) /\ qt[a] = RootOf(a) BY NodesWithFacts
<1>3. /\ IsTree(ns, qt) /\ Heights(ns, height) /\ qt[a] # 0 /\ height \in Nat
      /\ Granted(ns, qt, permissions)
  <2>1. IsTree(nodes, root) /\ Granted(nodes, root, permissions) /\ height \in Nat
    BY DEF SocialIInv, TreeOK
  <2> HIDE DEF ns, qt
  <2>2. RootedState(nodes, ns, root, qt, a, permissions) BY <1>2, <2>1, RootedBytes
  <2> QED BY <1>2, <2>1, <2>2 DEF Rooted, RootedState
<1>4. path \in Seq(Keys) /\ w = GrantPath(ns, qt[a], path, height) BY <1>2, DataAssumption
<1>5. qt = [root EXCEPT ![a] = RootOf(a)] /\ ns = NodesWith(a) OBVIOUS
<1>6. permissions \in [AccountIds -> [PermissionKeys -> SUBSET Nat]]
  BY DEF SocialIInv, TreeOK, Granted
<1>7. bytes = BytesWritten(ns, w.nodes) + Cardinality(after) - Cardinality(before) OBVIOUS
<1> HIDE DEF w, ns, qt, bytes
<1>8. Steps(ns, w.nodes, qt, a, height, D) /\ w.id \in Below(w.nodes, qt[a])
  BY <1>1, <1>3, <1>4, GrantWrites
<1>9. IsTree(w.nodes, qt) /\ w.nodes \in Seq(NodeType) /\ w.id \in Nat
  <2>1. IsTree(w.nodes, qt) BY <1>8, StepsTree
  <2>2. w.nodes \in Seq(NodeType) BY <2>1, TreeFacts
  <2>3. w.id \in DOMAIN w.nodes BY <1>8 DEF Below
  <2> QED BY <2>1, <2>2, <2>3, NodeFacts
<1>10. /\ granted \in [AccountIds -> [PermissionKeys -> SUBSET Nat]]
       /\ \A b \in AccountIds \ {a} : granted[b] = permissions[b]
       /\ \A p \in PermissionKeys \ {key} : granted[a][p] = permissions[a][p]
       /\ granted[a][key] = after
  <2>1. after \in SUBSET Nat BY <1>6, <1>9
  <2> HIDE DEF after
  <2> QED BY <1>6, <2>1
<1>11. \A p \in PermissionKeys : permissions[a][p] \subseteq Below(w.nodes, qt[a])
  <2>1. Below(ns, qt[a]) \subseteq Below(w.nodes, qt[a])
    <3>1. qt[a] \in DOMAIN ns BY <1>3, TreeFacts
    <3> QED BY <1>8, <3>1 DEF Steps, Grows
  <2>2. \A p \in PermissionKeys : permissions[a][p] \subseteq Below(ns, qt[a]) BY <1>3 DEF Granted
  <2> QED BY <2>1, <2>2
<1>12. \A p \in PermissionKeys : granted[a][p] \subseteq Below(w.nodes, qt[a])
  <2> TAKE p \in PermissionKeys
  <2>1. CASE p = key
    <3>1. granted[a][p] = permissions[a][key] \cup {w.id} BY <1>10, <2>1
    <3> QED BY <1>8, <1>11, <3>1
  <2>2. CASE p # key
    <3>1. granted[a][p] = permissions[a][p] BY <1>10, <2>2
    <3> QED BY <1>11, <3>1
  <2> QED BY <2>1, <2>2
<1> HIDE DEF granted, after, before
<1>13. /\ TreeOK'
       /\ root'[a] # 0 /\ \A b \in AccountIds \ {a} : root'[b] = root[b]
       /\ stored' = [b \in AccountIds |-> StateBytes(b, root', nodes', permissions')]
       /\ \E st \in Nat :
            /\ stored' = [stored EXCEPT ![a] = st]
            /\ st >= AccountBytes
            /\ st = ((StoredBytes(a) + BytesWritten(ns, w.nodes)) + PermissionBytes(granted[a]))
                        - PermissionBytes(permissions[a])
  <2> DEFINE ms == w.nodes
  <2>1. Steps(ns, ms, qt, a, height, D) /\ StoreTree(a, ms, granted) BY <1>1, <1>8
  <2>2. \A p \in PermissionKeys : granted[a][p] \subseteq Below(ms, qt[a]) BY <1>12
  <2>3. height' = height BY <1>1
  <2>4. ns = NodesWith(a) BY <1>5
  <2>5. qt = [root EXCEPT ![a] = RootOf(a)] BY <1>5
  <2>6. granted \in [AccountIds -> [PermissionKeys -> SUBSET Nat]] BY <1>10
  <2>7. \A b \in AccountIds \ {a} : granted[b] = permissions[b] BY <1>10
  <2> HIDE DEF ms
  <2>8. TreeStored(a, BytesWritten(ns, ms), PermissionBytes(permissions[a]), PermissionBytes(granted[a]))
    BY <2>1, <2>2, <2>3, <2>4, <2>5, <2>6, <2>7, StoreTreeStep
  <2> QED BY <2>8 DEF TreeStored, ms
<1>14. /\ Granted(w.nodes, qt, granted) /\ Granted(nodes, root, permissions) /\ IsTree(nodes, root)
  <2>1. TreeOK' /\ nodes' = w.nodes /\ root' = qt /\ permissions' = granted
    BY <1>1, <1>5, <1>13 DEF StoreTree
  <2> QED BY <2>1 DEF TreeOK, SocialIInv
<1>15. /\ \A p \in PermissionKeys : IsFiniteSet(permissions[a][p]) /\ IsFiniteSet(granted[a][p])
       /\ PermissionBytes(permissions[a]) \in Nat
  BY <1>9, <1>14, GrantedFacts
<1>16. PermissionBytes(granted[a]) =
            (PermissionBytes(permissions[a]) + Cardinality(after)) - Cardinality(before)
  <2> DEFINE f == permissions[a]
             g == granted[a]
  <2>1. /\ \A q \in PermissionKeys : IsFiniteSet(f[q]) /\ IsFiniteSet(g[q])
        /\ \A q \in PermissionKeys \ {key} : g[q] = f[q]
        /\ g[key] = after /\ f[key] = before
    BY <1>10, <1>15 DEF before
  <2> HIDE DEF f, g
  <2>2. PermissionBytes(g) = (PermissionBytes(f) + Cardinality(g[key])) - Cardinality(f[key])
    BY <2>1, PermissionBytesChange
  <2> QED BY <2>1, <2>2 DEF f, g
<1>17. Cardinality(after) \in Int /\ Cardinality(before) \in Int
  <2>1. granted[a][key] = after /\ permissions[a][key] = before BY <1>10 DEF before
  <2>2. IsFiniteSet(after) /\ IsFiniteSet(before) BY <1>15, <2>1
  <2>3. Cardinality(after) \in Nat /\ Cardinality(before) \in Nat BY <2>2, FS_CardinalityType
  <2> QED BY <2>3
<1>18. BytesWritten(ns, w.nodes) \in Int
  <2>1. Grows(ns, w.nodes, qt, a) BY <1>8 DEF Steps
  <2>2. /\ BytesWritten(ns, w.nodes) =
                NodesBytes(w.nodes, Below(w.nodes, qt[a])) - NodesBytes(ns, Below(ns, qt[a]))
        /\ NodesBytes(w.nodes, Below(w.nodes, qt[a])) \in Nat
        /\ NodesBytes(ns, Below(ns, qt[a])) \in Nat
    BY <1>3, <2>1, BytesInTree
  <2> QED BY <2>2
<1>19. IInv /\ ~IsShared(accounts[a]) /\ deposit \in Nat /\ bytes \in Int /\ CanCreate(a, deposit)
  BY <1>1, InputsAssumption DEF SocialIInv, BytesOK, Pay
<1>20. PICK st \in Nat :
            /\ stored' = [stored EXCEPT ![a] = st]
            /\ st >= AccountBytes
            /\ st = ((StoredBytes(a) + BytesWritten(ns, w.nodes)) + PermissionBytes(granted[a]))
                        - PermissionBytes(permissions[a])
  BY <1>13
<1>21. StoredBytes(a) \in Int
  <2>1. Sound(a, AccountOrCreated(a, deposit), StoredBytes(a)) BY <1>19, FoundOrCreated
  <2> QED BY <2>1 DEF Sound
<1>22. st = StoredBytes(a) + bytes BY <1>7, <1>15, <1>16, <1>17, <1>18, <1>20, <1>21
<1>23. RecordBytes(AccountOrCreated(a, deposit)) = AccountBytes BY <1>19, PaidAccount
<1>24. Write(a, bytes, deposit, FALSE)
  BY <1>1, <1>20, <1>22, <1>23 DEF Write
<1>25. \E acc : OwnAccount(a, acc) BY <1>1, <1>19, PayShape
<1>26. BytesOK' BY <1>13, <1>25, AccountsStep
<1> QED BY <1>1, <1>13, <1>24, <1>26 DEF WritePermission

(* storage_deposit: the account that is created gets an empty node.         *)
LEMMA EmptyNodeStep ==
    ASSUME SocialIInv, NEW a \in AccountIds, NEW only \in BOOLEAN, NEW deposit \in Deposits,
           deposit_storage(a, only, deposit)
    PROVE  storage_deposit(a, only, deposit) /\ TreeOK' /\ BytesOK'
<1> DEFINE ns == NodesWith(a)
           qt == [root EXCEPT ![a] = RootOf(a)]
           p == PermissionBytes(permissions[a])
           x == NodesBytes(ns, Below(ns, qt[a]))
<1>1. PayDeposit(a, only, deposit) /\ StoreTree(a, ns, permissions) /\ height' = height
  BY DEF deposit_storage
<1>2. Rooted(nodes, ns, root, qt, a, height) BY NodesWithFacts
<1>3. /\ IsTree(nodes, root) /\ Granted(nodes, root, permissions)
      /\ permissions \in [AccountIds -> [PermissionKeys -> SUBSET Nat]]
  BY DEF SocialIInv, TreeOK, Granted
<1>4. qt = [root EXCEPT ![a] = RootOf(a)] /\ ns = NodesWith(a) OBVIOUS
<1>5. p \in Nat BY <1>3, GrantedFacts
<1> HIDE DEF ns, qt, p
<1>6. IsTree(ns, qt) /\ qt[a] # 0 /\ Heights(ns, height) BY <1>2 DEF Rooted
<1>7. Steps(ns, ns, qt, a, height, {}) BY <1>6, StepsSelf
<1>8. BytesWritten(ns, ns) = 0
  <2>1. Grows(ns, ns, qt, a) BY <1>6, GrowsSelf
  <2>2. BytesWritten(ns, ns) = x - x /\ x \in Nat BY <1>6, <2>1, BytesInTree
  <2> HIDE DEF x
  <2> QED BY <2>2
<1>9. \A q \in PermissionKeys : permissions[a][q] \subseteq Below(ns, qt[a])
  <2>1. RootedState(nodes, ns, root, qt, a, permissions) BY <1>2, <1>3, RootedBytes
  <2>2. Granted(ns, qt, permissions) BY <2>1 DEF RootedState
  <2> QED BY <1>6, <2>2 DEF Granted
<1>10. TreeStored(a, BytesWritten(ns, ns), p, p)
  <2>1. TreeStored(a, BytesWritten(ns, ns), PermissionBytes(permissions[a]), PermissionBytes(permissions[a]))
    BY <1>1, <1>3, <1>4, <1>7, <1>9, StoreTreeStep
  <2> QED BY <2>1 DEF p
<1>11. StoredBytes(a) \in Int
  <2>1. CASE Registered(a)
    <3>1. IInv /\ deposit \in Nat /\ CanCreate(a, deposit)
      BY <2>1, InputsAssumption DEF SocialIInv, CanCreate
    <3>2. Sound(a, AccountOrCreated(a, deposit), StoredBytes(a)) BY <3>1, FoundOrCreated
    <3> QED BY <3>2 DEF Sound
  <2>2. CASE ~Registered(a) BY <2>2, BytesAssumption DEF StoredBytes
  <2> QED BY <2>1, <2>2
<1>12. PICK st \in Nat :
            stored' = [stored EXCEPT ![a] = st] /\ st = ((StoredBytes(a) + BytesWritten(ns, ns)) + p) - p
  BY <1>10 DEF TreeStored
<1>13. st = StoredBytes(a) BY <1>5, <1>8, <1>11, <1>12
<1>14. storage_deposit(a, only, deposit) BY <1>1, <1>12, <1>13 DEF storage_deposit
<1>15. \E acc : OwnAccount(a, acc)
  <2>1. IInv /\ ~IsShared(accounts[a]) /\ deposit \in Nat
    BY InputsAssumption DEF SocialIInv, BytesOK
  <2> QED BY <1>1, <2>1, DepositShape
<1>16. /\ root'[a] # 0 /\ \A b \in AccountIds \ {a} : root'[b] = root[b]
       /\ stored' = [b \in AccountIds |-> StateBytes(b, root', nodes', permissions')]
       /\ TreeOK'
  BY <1>10 DEF TreeStored
<1>17. BytesOK' BY <1>15, <1>16, AccountsStep
<1> QED BY <1>14, <1>16, <1>17

(* storage_withdraw leaves the tree alone.                                  *)
LEMMA WithdrawnStep ==
    ASSUME SocialIInv, NEW a \in AccountIds, NEW amount, storage_withdraw(a, amount),
           UNCHANGED <<tree, height>>
    PROVE  TreeOK' /\ BytesOK'
<1>1. root' = root /\ nodes' = nodes /\ permissions' = permissions /\ height' = height BY DEF tree
<1>2. IInv /\ ~IsShared(accounts[a]) /\ accounts[a].version # "V0"
      /\ (Registered(a) <=> root[a] # 0)
      /\ stored = [b \in AccountIds |-> StateBytes(b, root, nodes, permissions)]
  BY DEF SocialIInv, BytesOK
<1>3. (\E acc : OwnAccount(a, acc)) /\ stored' = stored /\ Registered(a) BY <1>2, WithdrawShape
<1>4. root'[a] # 0 /\ \A b \in AccountIds \ {a} : root'[b] = root[b] BY <1>1, <1>2, <1>3
<1>5. stored' = [b \in AccountIds |-> StateBytes(b, root', nodes', permissions')] BY <1>1, <1>2, <1>3
<1>6. BytesOK' BY <1>3, <1>4, <1>5, AccountsStep
<1>7. TreeOK' BY <1>1 DEF SocialIInv, TreeOK
<1> QED BY <1>6, <1>7

(* Neither do set_status and a new block, and they change no account.       *)
LEMMA TreeStays ==
    ASSUME SocialIInv, UNCHANGED <<accounts, stored, tree>>,
           height' = height \/ height' = height + 1
    PROVE  TreeOK' /\ BytesOK'
<1>1. root' = root /\ nodes' = nodes /\ permissions' = permissions
      /\ accounts' = accounts /\ stored' = stored
  BY DEF tree
<1>2. IsTree(nodes, root) /\ height \in Nat /\ Heights(nodes, height) /\ Granted(nodes, root, permissions)
  BY DEF SocialIInv, TreeOK
<1>3. height' \in Nat BY <1>2
<1>4. Heights(nodes, height')
  <2>1. nodes \in Seq(NodeType) BY <1>2, TreeFacts
  <2>2. ASSUME NEW n \in DOMAIN nodes PROVE nodes[n].block_height <= height'
    <3>1. nodes[n].block_height \in Nat BY <2>1, NodeFacts
    <3>2. nodes[n].block_height <= height BY <1>2 DEF Heights
    <3> QED BY <1>2, <3>1, <3>2
  <2> QED BY <1>2, <2>2 DEF Heights
<1>5. TreeOK' BY <1>1, <1>2, <1>3, <1>4 DEF TreeOK
<1>6. BytesOK' BY <1>1 DEF SocialIInv, BytesOK, Registered
<1> QED BY <1>5, <1>6

(* No step breaks the invariant, and every step is one of SocialStorage.    *)
LEMMA SocialStep ==
    ASSUME SocialIInv, [SocialNext]_socialVars
    PROVE  [StorageNext]_vars /\ SocialIInv'
<1>1. ASSUME NEW a \in AccountIds, NEW deposit \in Deposits, NEW caller \in Callers,
             NEW public_key \in PublicKeys, NEW data \in Data[a], NEW refund \in BOOLEAN,
             set(caller, public_key, a, data, deposit, refund)
      PROVE  StorageNext /\ TreeOK' /\ BytesOK'
  <2>1. (\E bytes \in Writes : WriteData(a, bytes, deposit, refund)) /\ TreeOK' /\ BytesOK'
    BY <1>1, SetStep
  <2>2. StorageNext BY <2>1 DEF StorageNext
  <2> QED BY <2>1, <2>2
<1>2. ASSUME NEW a \in AccountIds, NEW deposit \in Deposits, NEW only \in BOOLEAN,
             deposit_storage(a, only, deposit)
      PROVE  StorageNext /\ TreeOK' /\ BytesOK'
  <2>1. storage_deposit(a, only, deposit) /\ TreeOK' /\ BytesOK' BY <1>2, EmptyNodeStep
  <2>2. StorageNext BY <2>1 DEF StorageNext
  <2> QED BY <2>1, <2>2
<1>3. ASSUME NEW a \in AccountIds, NEW deposit \in Deposits, NEW key \in PermissionKeys,
             NEW path \in GrantPaths[a], grant_write_permission(a, key, path, deposit)
      PROVE  StorageNext /\ TreeOK' /\ BytesOK'
  <2>1. (\E bytes \in Writes : WritePermission(a, bytes, deposit)) /\ TreeOK' /\ BytesOK'
    BY <1>3, PermissionStep
  <2>2. StorageNext BY <2>1 DEF StorageNext
  <2> QED BY <2>1, <2>2
<1>4. ASSUME NEW a \in AccountIds,
             NEW amount \in Deposits \cup {AvailableBalance(internal_get_account(a))},
             storage_withdraw(a, amount), UNCHANGED <<tree, height>>
      PROVE  StorageNext /\ TreeOK' /\ BytesOK'
  <2>1. TreeOK' /\ BytesOK' BY <1>4, WithdrawnStep
  <2>2. StorageNext BY <1>4 DEF StorageNext
  <2> QED BY <2>1, <2>2
<1>5. ASSUME NEW new_status \in {"Live", "ReadOnly"}, set_status(new_status), UNCHANGED <<tree, height>>
      PROVE  StorageNext /\ TreeOK' /\ BytesOK'
  <2>1. UNCHANGED <<accounts, stored, tree>> /\ height' = height BY <1>5 DEF set_status
  <2>2. TreeOK' /\ BytesOK' BY <2>1, TreeStays
  <2>3. StorageNext BY <1>5 DEF StorageNext
  <2> QED BY <2>2, <2>3
<1>6. ASSUME NextBlock PROVE UNCHANGED vars /\ TreeOK' /\ BytesOK'
  <2>1. UNCHANGED <<accounts, stored, tree>> /\ height' = height + 1 /\ UNCHANGED vars
    BY <1>6 DEF NextBlock, vars
  <2>2. TreeOK' /\ BytesOK' BY <2>1, TreeStays
  <2> QED BY <2>1, <2>2
<1>7. ASSUME UNCHANGED socialVars PROVE UNCHANGED vars /\ TreeOK' /\ BytesOK'
  <2>1. UNCHANGED <<accounts, stored, tree>> /\ height' = height /\ UNCHANGED vars
    BY <1>7 DEF socialVars, vars
  <2>2. TreeOK' /\ BytesOK' BY <2>1, TreeStays
  <2> QED BY <2>1, <2>2
<1>8. [StorageNext]_vars /\ TreeOK' /\ BytesOK'
  <2>1. CASE SocialNext BY <1>1, <1>2, <1>3, <1>4, <1>5, <1>6, <2>1 DEF SocialNext
  <2>2. CASE UNCHANGED socialVars BY <1>7, <2>2
  <2> QED BY <2>1, <2>2
<1>9. IInv' BY <1>8, NextStep DEF SocialIInv
<1> QED BY <1>8, <1>9 DEF SocialIInv

(* A new contract has no accounts and no nodes.                             *)
LEMMA SocialInitStep == SocialInit => Init /\ SocialIInv
<1> SUFFICES ASSUME SocialInit PROVE Init /\ SocialIInv OBVIOUS
<1>1. /\ Init /\ status = "Genesis" /\ root = [a \in AccountIds |-> 0] /\ nodes = <<>>
      /\ permissions = [a \in AccountIds |-> [p \in PermissionKeys |-> {}]] /\ height = 0
  BY DEF SocialInit
<1>2. IInv BY <1>1, InitStep
<1>3. DOMAIN nodes = {} /\ Len(nodes) = 0 /\ nodes \in Seq(NodeType) BY <1>1
<1>4. IsTree(nodes, root) BY <1>1, <1>3 DEF IsTree, Linked
<1>5. Heights(nodes, height) /\ height \in Nat BY <1>1, <1>3 DEF Heights
<1>6. Granted(nodes, root, permissions) BY <1>1 DEF Granted
<1>7. \A a \in AccountIds : accounts[a] = NoAccount
  <2>1. status # "Live" BY <1>1
  <2> QED BY <1>1, <2>1 DEF Init
<1>8. NoAccount.version = "None" /\ NoAccount.used_bytes = 0 /\ NoAccount.shared_storage.pool_id = NoPool
  BY DEF NoAccount, NoShare
<1>9. \A a \in AccountIds : StateBytes(a, root, nodes, permissions) = 0 BY <1>1 DEF StateBytes
<1>10. stored = [a \in AccountIds |-> accounts[a].used_bytes] BY <1>1 DEF Init
<1>11. stored = [a \in AccountIds |-> StateBytes(a, root, nodes, permissions)]
  BY <1>7, <1>8, <1>9, <1>10
<1>12. BytesOK BY <1>1, <1>7, <1>8, <1>11 DEF BytesOK, Registered, IsShared
<1> QED BY <1>1, <1>2, <1>4, <1>5, <1>6, <1>12 DEF SocialIInv, TreeOK

(* The invariant holds in every reachable state. *)
LEMMA SocialInductive == SocialSpec => []SocialIInv
<1>1. SocialInit => SocialIInv BY SocialInitStep
<1>2. SocialIInv /\ [SocialNext]_socialVars => SocialIInv' BY SocialStep
<1> QED BY <1>1, <1>2, PTL DEF SocialSpec

----------------------------------------------------------------------------
(* The theorems about the whole contract.                                   *)

(* The contract keeps the storage accounting of SocialStorage: whatever is  *)
(* written and granted, the bytes it adds to the state are charged to the   *)
(* account in whose tree it is, and nothing else is.                        *)
THEOREM ContractImplementsStorage == SocialSpec => ImplementsStorage
<1>1. SocialInit => Init BY SocialInitStep
<1>2. SocialIInv /\ [SocialNext]_socialVars => [StorageNext]_vars BY SocialStep
<1> QED BY <1>1, <1>2, SocialInductive, PTL DEF SocialSpec, ImplementsStorage, Spec

(* Every node hangs in exactly one place, below an account, and what an     *)
(* account has granted lies in its own tree, whatever is written by whom.   *)
THEOREM NodesAlwaysFormATree == SocialSpec => []NodesFormATree
<1>1. SocialIInv => NodesFormATree
  <2> SUFFICES ASSUME SocialIInv PROVE NodesFormATree OBVIOUS
  <2>1. IsTree(nodes, root) /\ Granted(nodes, root, permissions) BY DEF SocialIInv, TreeOK
  <2>2. ASSUME NEW id \in DOMAIN nodes PROVE Cardinality(Places(id)) = 1
    <3>1. Places(id) = PlacesIn(nodes, root, id) BY DEF Places, PlacesIn
    <3>2. PICK p : PlacesIn(nodes, root, id) = {p} BY <2>1 DEF IsTree
    <3>3. Cardinality({p}) = 1 BY FS_Singleton
    <3> QED BY <3>1, <3>2, <3>3
  <2>3. ASSUME NEW id \in DOMAIN nodes
        PROVE  \E a \in AccountIds : root[a] # 0 /\ id \in Below(nodes, root[a])
    BY <2>1 DEF IsTree
  <2>4. ASSUME NEW a \in AccountIds, NEW p \in PermissionKeys, permissions[a][p] # {}
        PROVE  permissions[a][p] \subseteq Below(nodes, root[a])
    <3>1. permissions[a][p] \subseteq IF root[a] = 0 THEN {} ELSE Below(nodes, root[a])
      BY <2>1 DEF Granted
    <3> QED BY <2>4, <3>1
  <2> QED BY <2>2, <2>3, <2>4 DEF NodesFormATree
<1> QED BY <1>1, SocialInductive, PTL

(* A node is at least as high as everything below it, whatever is written   *)
(* and granted in whatever block.                                           *)
THEOREM HeightsAlwaysCoverSubtrees == SocialSpec => []HeightsCoverSubtrees
<1>1. SocialIInv => HeightsCoverSubtrees
  BY DEF SocialIInv, TreeOK, Heights, CoversEntry, HeightsCoverSubtrees
<1> QED BY <1>1, SocialInductive, PTL

(* A write by another account changes entries only below nodes that were    *)
(* granted to it or to the key that signs, whatever the data.               *)
THEOREM OnlyGrantedNodesEverChange == SocialSpec => []OnlyGrantedNodesChange
<1>1. SocialIInv => OnlyGrantedNodesChange
  <2> SUFFICES ASSUME SocialIInv, NEW a \in AccountIds, NEW caller \in Callers,
                      NEW public_key \in PublicKeys, NEW data \in Data[a],
                      root[a] # 0, a # caller,
                      Wrote(caller, public_key, a, data).outcome = "ok",
                      NEW id \in DOMAIN nodes,
                      Wrote(caller, public_key, a, data).nodes[id].children # nodes[id].children
               PROVE  \E g \in permissions[a][caller] \cup permissions[a][public_key] :
                        id \in Below(nodes, g)
    BY DEF OnlyGrantedNodesChange
  <2> DEFINE w == Wrote(caller, public_key, a, data)
             qt == [root EXCEPT ![a] = RootOf(a)]
             writable == internal_get_writeable_node_ids(a, caller, public_key)
  <2>1. w = Wrote(caller, public_key, a, data) /\ w.outcome = "ok"
        /\ qt = [root EXCEPT ![a] = RootOf(a)]
        /\ w.nodes[id].children # nodes[id].children
    OBVIOUS
  <2>2. writable = permissions[a][caller] \cup permissions[a][public_key]
    BY DEF internal_get_writeable_node_ids
  <2> HIDE DEF w, qt, writable
  <2>3. Steps(NodesWith(a), w.nodes, qt, a, height,
              Allowed(NodesWith(a), a = caller, internal_get_writeable_node_ids(a, caller, public_key)))
    BY <2>1, WroteSteps
  <2>4. NodesWith(a) = nodes BY DEF NodesWith
  <2>5. id \in Allowed(nodes, a = caller, writable) BY <2>1, <2>3, <2>4 DEF Steps, writable
  <2> QED BY <2>2, <2>5 DEF Allowed
<1> QED BY <1>1, SocialInductive, PTL

(* For another account, is_write_permission_granted says exactly whether    *)
(* `set` accepts its write, for every path, caller and tree.                *)
THEOREM GrantsAreAlwaysEnforced == SocialSpec => []GrantsAreEnforced
<1>1. SocialIInv => GrantsAreEnforced
  <2> SUFFICES ASSUME SocialIInv, NEW a \in AccountIds, NEW caller \in Callers,
                      NEW path \in GrantPaths[a], root[a] # 0
               PROVE  is_write_permission_granted(caller, a, path) <=>
                        recursive_set(nodes, root[a], DataAt(path), FALSE,
                                      permissions[a][caller], height).outcome # "denied"
    BY DEF GrantsAreEnforced
  <2> DEFINE no == FALSE
             data == DataAt(path)
             id == root[a]
             writable == permissions[a][caller]
  <2>1. IsTree(nodes, root) BY DEF SocialIInv, TreeOK
  <2>2. Linked(nodes) /\ id \in DOMAIN nodes BY <2>1, TreeFacts
  <2>3. path \in Seq(Keys) BY DataAssumption
  <2>4. data = DataAt(path) OBVIOUS
  <2>5. no \in BOOLEAN /\ ~no OBVIOUS
  <2>6. is_write_permission_granted(caller, a, path) <=> GrantedOnPath(nodes, id, path, writable)
    BY DEF is_write_permission_granted
  <2> HIDE DEF no, data, id, writable
  <2>7. recursive_set(nodes, id, data, no, writable, height).outcome # "denied"
            <=> GrantedOnPath(nodes, id, path, writable)
    BY <2>2, <2>3, <2>4, <2>5, DeniedUnlessGranted
  <2> QED BY <2>6, <2>7 DEF no, data, id, writable
<1> QED BY <1>1, SocialInductive, PTL
=============================================================================
