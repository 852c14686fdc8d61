------------------------------- MODULE Airdrop -------------------------------
(***************************************************************************)
(* The airdrop contract (src/airdrop/src/lib.rs).  Tokens are sent to a    *)
(* public key; whoever signs with the key claims them, for an account or   *)
(* for a new one.  An amount is never 0, so 0 stands for a missing entry.  *)
(* The contract's access keys are added and deleted by promises to itself, *)
(* which the runtime executes in the order they were issued; adding a key  *)
(* that exists fails without effect.  A key is on the account when a call  *)
(* signed with it runs.                                                    *)
(***************************************************************************)
EXTENDS Promises

CONSTANTS
    AirdropId,
    Keys,
    Allowance  \* ACCESS_KEY_ALLOWANCE

VARIABLES
    accounts,  \* PublicKey -> amount
    keys       \* access keys of the contract's account (external)

vars == <<accounts, keys, runtime>>

is_promise_success(p) == p.status = "successful"

Init == accounts = [k \in Keys |-> 0] /\ keys = {}

get_key_balance(k) == accounts[k]

(* Mutant: the amount replaces an earlier one. *)
send_Mutant(caller, k, deposit) ==
    /\ Called
    /\ deposit > Allowance
    /\ accounts' = [accounts EXCEPT ![k] = deposit - Allowance]
    /\ keys' = keys \cup {k}
    /\ tokens' = Paid(caller, AirdropId, deposit)
    /\ UNCHANGED <<existing, promises>>

send(caller, k, deposit) ==
    /\ Called
    /\ deposit > Allowance
    /\ accounts' = [accounts EXCEPT ![k] = @ + deposit - Allowance]
    /\ keys' = keys \cup {k}
    /\ tokens' = Paid(caller, AirdropId, deposit)
    /\ UNCHANGED <<existing, promises>>

(* The amount of key k leaves the contract with promise p. *)
Claimed(k, p) ==
    /\ Called
    /\ k \in keys /\ accounts[k] # 0
    /\ accounts' = [accounts EXCEPT ![k] = 0]
    /\ tokens' = [tokens EXCEPT ![AirdropId] = @ - accounts[k]]
    /\ Sent(p)
    /\ UNCHANGED existing

claim(k, account) ==
    /\ Claimed(k, PromiseRecord("transfer", AirdropId, account, accounts[k], AirdropId, k))
    /\ keys' = keys \ {k}

(* Mutant: the key keeps its amount until the callback. *)
create_account_and_claim_Mutant(k, name) ==
    /\ Called
    /\ k \in keys /\ accounts[k] # 0
    /\ tokens' = [tokens EXCEPT ![AirdropId] = @ - accounts[k]]
    /\ Sent(PromiseRecord("create", AirdropId, <<AirdropId, name>>, accounts[k], AirdropId, k))
    /\ UNCHANGED <<accounts, keys, existing>>

create_account_and_claim(k, name) ==
    /\ Claimed(k, PromiseRecord("create", AirdropId, <<AirdropId, name>>, accounts[k], AirdropId, k))
    /\ UNCHANGED keys

create_account(caller, name, deposit) ==
    /\ Called
    /\ tokens' = [tokens EXCEPT ![caller] = @ - deposit]
    /\ Sent(PromiseRecord("create", AirdropId, <<AirdropId, name>>, deposit, caller, NoKey))
    /\ UNCHANGED <<accounts, keys, existing>>

(* What the options add to the new account is left out. *)
create_account_advanced(caller, name, options, deposit) ==
    /\ options # {}
    /\ create_account(caller, name, deposit)

on_account_created(p) ==
    /\ p.by = AirdropId /\ p.key = NoKey /\ p.status # "sent"
    /\ promises' = promises \ {p}
    /\ tokens' = IF is_promise_success(p) THEN tokens ELSE Paid(AirdropId, p.caller, p.amount)
    /\ UNCHANGED <<accounts, keys, existing, calls>>

(* The amount that is put back replaces one sent in the meantime; after a   *)
(* success such an amount stays without its key.                            *)
on_account_created_and_claimed(p) ==
    /\ p.by = AirdropId /\ p.key # NoKey /\ p.status # "sent"
    /\ promises' = promises \ {p}
    /\ IF is_promise_success(p)
       THEN keys' = keys \ {p.key} /\ UNCHANGED accounts
       ELSE accounts' = [accounts EXCEPT ![p.key] = p.amount] /\ UNCHANGED keys
    /\ UNCHANGED <<tokens, existing, calls>>

Next ==
    \/ \E caller \in Users, k \in Keys, deposit \in Deposits : send(caller, k, deposit)
    \/ \E k \in Keys, account \in Users \cup ({AirdropId} \X Names) : claim(k, account)
    \/ \E k \in Keys, name \in Names : create_account_and_claim(k, name)
    \/ \E caller \in Users, name \in Names, deposit \in Deposits :
            \/ create_account(caller, name, deposit)
            \/ \E options \in SUBSET {"full_access_keys"} :
                    create_account_advanced(caller, name, options, deposit)
    \/ \E p \in promises : on_account_created(p) \/ on_account_created_and_claimed(p)
=============================================================================
