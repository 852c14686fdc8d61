---------------------------- MODULE LockupFactory ----------------------------
(***************************************************************************)
(* The lockup factory (src/lockup-factory/src).  It keeps no state but two *)
(* account ids.  A lockup's account is named by the hash of its owner, so  *)
(* the second lockup of an owner fails.  The arguments it passes on to the *)
(* lockup are left out: the foundation when there is a vesting schedule,   *)
(* the given or the factory's whitelist, transfers enabled.                *)
(***************************************************************************)
EXTENDS Promises

CONSTANTS LockupFactoryId, MinLockupBalance  \* MIN_ATTACHED_BALANCE

vars == runtime

is_promise_success(p) == p.status = "successful"

create(caller, owner, deposit) ==
    /\ Called
    /\ deposit >= MinLockupBalance
    /\ tokens' = [tokens EXCEPT ![caller] = @ - deposit]
    /\ Sent(PromiseRecord("create", LockupFactoryId, <<LockupFactoryId, owner>>,
                          deposit, caller, NoKey))
    /\ UNCHANGED existing

(* Mutant: nothing is refunded. *)
on_lockup_create_Mutant(p) ==
    /\ p.by = LockupFactoryId /\ p.status # "sent"
    /\ promises' = promises \ {p}
    /\ UNCHANGED <<tokens, existing, calls>>

on_lockup_create(p) ==
    /\ p.by = LockupFactoryId /\ p.status # "sent"
    /\ promises' = promises \ {p}
    /\ tokens' = IF is_promise_success(p) THEN tokens
                 ELSE Paid(LockupFactoryId, p.caller, p.amount)
    /\ UNCHANGED <<existing, calls>>

Next ==
    \/ \E caller \in Users, owner \in Names, deposit \in Deposits :
            create(caller, owner, deposit)
    \/ \E p \in promises : on_lockup_create(p)
=============================================================================
