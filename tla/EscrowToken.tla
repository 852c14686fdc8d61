---------------------------- MODULE EscrowToken -----------------------------
(***************************************************************************)
(* What a token with locks promises.  An owner has free tokens and tokens  *)
(* reserved for others; `limit` is all that another account may still take *)
(* from the owner, whether it reserves it first or not.  Reserving and     *)
(* releasing use up nothing; only taking does.                             *)
(***************************************************************************)
EXTENDS Integers

CONSTANTS Accounts, Supplies, Amounts

VARIABLES free, reserved, limit

vars == <<free, reserved, limit>>

Init ==
    /\ \E owner \in Accounts, supply \in Supplies :
        free = [a \in Accounts |-> IF a = owner THEN supply ELSE 0]
    /\ reserved = [a \in Accounts |-> [e \in Accounts |-> 0]]
    /\ limit = [a \in Accounts |-> [e \in Accounts |-> 0]]

Approve(o, e, n) ==
    /\ o # e /\ n >= reserved[o][e]
    /\ limit' = [limit EXCEPT ![o][e] = n]
    /\ UNCHANGED <<free, reserved>>

Reserve(e, o, n) ==
    /\ n <= free[o]
    /\ e # o => reserved[o][e] + n <= limit[o][e]
    /\ free' = [free EXCEPT ![o] = @ - n]
    /\ reserved' = [reserved EXCEPT ![o][e] = @ + n]
    /\ UNCHANGED limit

Release(e, o, n) ==
    /\ n <= reserved[o][e]
    /\ free' = [free EXCEPT ![o] = @ + n]
    /\ reserved' = [reserved EXCEPT ![o][e] = @ - n]
    /\ UNCHANGED limit

(* Reserved tokens are used before free ones. *)
Take(e, o, receiver, n) ==
    LET used == IF reserved[o][e] >= n THEN n ELSE reserved[o][e]
    IN  /\ n - used <= free[o]
        /\ e # o => n <= limit[o][e]
        /\ free' = [[free EXCEPT ![o] = @ - (n - used)] EXCEPT ![receiver] = @ + n]
        /\ reserved' = [reserved EXCEPT ![o][e] = @ - used]
        /\ limit' = IF e = o THEN limit ELSE [limit EXCEPT ![o][e] = @ - n]

Next ==
    \E o, e \in Accounts, n \in Amounts :
        \/ Approve(o, e, n)
        \/ Reserve(e, o, n)
        \/ Release(e, o, n)
        \/ \E receiver \in Accounts : Take(e, o, receiver, n)

Spec == Init /\ [][Next]_vars
=============================================================================
