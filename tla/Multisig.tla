------------------------------ MODULE Multisig ------------------------------
(***************************************************************************)
(* The multisig contract (src/multisig/src/lib.rs): members add requests,  *)
(* and a request is executed by the call that brings its last missing      *)
(* confirmation.  Executing a request may change the members, the number   *)
(* of confirmations and the limit of open requests while other requests    *)
(* wait.                                                                   *)
(*                                                                         *)
(* A method runs atomically; a failed assertion rolls all of it back, the  *)
(* removal of an executed request included, so it is part of the guard.    *)
(* The promise an execution schedules (transfers, calls, changes of access *)
(* keys) concerns other accounts and the account's keys: it changes no     *)
(* state of the contract and has no callback.                              *)
(***************************************************************************)
EXTENDS Integers, FiniteSets, SequencesExt

CONSTANTS
    Candidates,         \* accounts and access keys that may be members
    InitialMemberLists, \* member lists that `new` may be given
    InitialConfirmations, \* numbers of confirmations that `new` may be given
    InitialLimit,       \* ACTIVE_REQUESTS_LIMIT
    Cooldown,           \* REQUEST_COOLDOWN
    Requests,           \* requests that may be added
    MaxNonce,           \* bound: requests ever added
    MaxTime             \* bound: block timestamps

(* Actions that only add to the scheduled promise are one kind, "Promise"   *)
(* (Transfer, CreateAccount, DeployContract, FunctionCall).                 *)
MultiSigRequestAction ==
    [type : {"Promise", "AddKey", "AddMember", "DeleteMember", "SetNumConfirmations",
             "SetActiveRequestsLimit"},
     member : Candidates, number : Nat]

(* own: whether receiver_id is the multisig's account. *)
MultiSigRequest == [own : BOOLEAN, actions : Seq(MultiSigRequestAction)]

Ids == 0 .. (MaxNonce - 1)

ASSUME MembersAssumption == InitialMemberLists \subseteq Seq(Candidates)
ASSUME CandidatesAssumption == IsFiniteSet(Candidates)
ASSUME NumbersAssumption ==
    /\ InitialConfirmations \subseteq Nat
    /\ InitialLimit \in Nat /\ Cooldown \in Nat
    /\ MaxNonce \in Nat /\ MaxTime \in Nat
ASSUME RequestsAssumption == Requests \subseteq MultiSigRequest

VARIABLES
    multisig,  \* the contract's state (struct MultiSigContract)
    now,       \* env::block_timestamp()
    executed   \* history: requests that were executed

vars == <<multisig, now, executed>>

Open == DOMAIN multisig.requests

----------------------------------------------------------------------------
(* Helper methods, from one state of the contract to the next. *)

Without(f, S) == [x \in DOMAIN f \ S |-> f[x]]

add_member(c, m) == [c EXCEPT !.members = @ \cup {m}]

(* Mutant: the member's requests stay open. *)
delete_member_Mutant(c, m) == [c EXCEPT !.members = @ \ {m}]

(* The member's own requests go with it; its confirmations of other         *)
(* requests stay.                                                           *)
delete_member(c, m) ==
    LET request_ids == {i \in DOMAIN c.requests : c.requests[i].member = m}
    IN  [c EXCEPT !.confirmations = Without(@, request_ids),
                  !.requests = Without(@, request_ids),
                  !.num_requests_pk[m] = 0,
                  !.members = @ \ {m}]

CanDeleteMember(c) == Cardinality(c.members) - 1 >= c.num_confirmations

(* Mutant: the author's counter is not decremented. *)
remove_request_Mutant(c, id) ==
    [c EXCEPT !.confirmations = Without(@, {id}), !.requests = Without(@, {id})]

remove_request(c, id) ==
    [c EXCEPT !.confirmations = Without(@, {id}),
              !.requests = Without(@, {id}),
              !.num_requests_pk[c.requests[id].member] = IF @ > 0 THEN @ - 1 ELSE 0]

(* The assertions of one action of a request. *)
ActionAllowed(c, request, action) ==
    CASE action.type = "Promise" -> TRUE
      [] action.type \in {"AddKey", "AddMember"} -> request.own
      [] action.type = "DeleteMember" -> request.own /\ CanDeleteMember(c)
      [] OTHER -> request.own /\ Len(request.actions) = 1

ActionEffect(c, action) ==
    CASE action.type = "AddMember" -> add_member(c, action.member)
      [] action.type = "DeleteMember" -> delete_member(c, action.member)
      [] action.type = "SetNumConfirmations" ->
            [c EXCEPT !.num_confirmations = action.number]
      [] action.type = "SetActiveRequestsLimit" ->
            [c EXCEPT !.active_requests_limit = action.number]
      [] OTHER -> c

(* The state after each of the actions of a request, in order; ok becomes   *)
(* FALSE when one of them panics.                                           *)
Execution(c, request) ==
    LET actions == request.actions
        after[n \in 0 .. Len(actions)] ==
            IF n = 0 THEN [ok |-> TRUE, state |-> c]
            ELSE LET before == after[n - 1]
                 IN  [ok |-> before.ok /\ ActionAllowed(before.state, request, actions[n]),
                      state |-> ActionEffect(before.state, actions[n])]
    IN  after

execute_request(c, request) == Execution(c, request)[Len(request.actions)]

----------------------------------------------------------------------------
(* The contract's methods.  m is the caller's current_member. *)

assert_valid_request(m, id) == m \in multisig.members /\ id \in Open

CanAdd(m) ==
    /\ m \in multisig.members
    /\ multisig.num_requests_pk[m] + 1 <= multisig.active_requests_limit
    /\ multisig.request_nonce < MaxNonce

WithRequest(m, request) ==
    LET id == multisig.request_nonce
        added == [request |-> request, member |-> m, added_timestamp |-> now]
    IN  [multisig EXCEPT
            !.num_requests_pk[m] = @ + 1,
            !.requests = [i \in DOMAIN @ \cup {id} |-> IF i = id THEN added ELSE @[i]],
            !.confirmations = [i \in DOMAIN @ \cup {id} |-> IF i = id THEN {} ELSE @[i]],
            !.request_nonce = @ + 1]

add_request(m, request) ==
    /\ CanAdd(m)
    /\ multisig' = WithRequest(m, request)
    /\ UNCHANGED <<now, executed>>

(* confirm by a member, in the state c of the contract. *)
Confirm(c, m, id) ==
    /\ m \notin c.confirmations[id]
    /\ IF Cardinality(c.confirmations[id]) + 1 >= c.num_confirmations
       THEN LET result == execute_request(remove_request(c, id), c.requests[id].request)
            IN  /\ result.ok
                /\ multisig' = result.state
                /\ executed' = executed \cup {id}
       ELSE /\ multisig' = [c EXCEPT !.confirmations[id] = @ \cup {m}]
            /\ UNCHANGED executed

confirm(m, id) ==
    /\ assert_valid_request(m, id)
    /\ Confirm(multisig, m, id)
    /\ UNCHANGED now

add_request_and_confirm(m, request) ==
    /\ CanAdd(m)
    /\ Confirm(WithRequest(m, request), m, multisig.request_nonce)
    /\ UNCHANGED now

(* Mutant: off by one in the cooldown. *)
delete_request_Mutant(m, id) ==
    /\ assert_valid_request(m, id)
    /\ now >= multisig.requests[id].added_timestamp + Cooldown
    /\ multisig' = remove_request(multisig, id)
    /\ UNCHANGED <<now, executed>>

delete_request(m, id) ==
    /\ assert_valid_request(m, id)
    /\ now > multisig.requests[id].added_timestamp + Cooldown
    /\ multisig' = remove_request(multisig, id)
    /\ UNCHANGED <<now, executed>>

Tick == now < MaxTime /\ now' = now + 1 /\ UNCHANGED <<multisig, executed>>

----------------------------------------------------------------------------
(* `new` compares the number of confirmations with the length of the list,  *)
(* which may name a member twice.                                           *)
Init ==
    /\ \E list \in InitialMemberLists, k \in InitialConfirmations :
        /\ Len(list) >= k
        /\ multisig = [members |-> ToSet(list), num_confirmations |-> k,
                       request_nonce |-> 0, requests |-> <<>>, confirmations |-> <<>>,
                       num_requests_pk |-> [m \in Candidates |-> 0],
                       active_requests_limit |-> InitialLimit]
    /\ now = 0
    /\ executed = {}

Next ==
    \/ \E m \in Candidates, request \in Requests :
            add_request(m, request) \/ add_request_and_confirm(m, request)
    \/ \E m \in Candidates, id \in Ids : confirm(m, id) \/ delete_request(m, id)
    \/ Tick

Spec == Init /\ [][Next]_vars

----------------------------------------------------------------------------
(* Properties. *)

OpenBy(m) == {id \in Open : multisig.requests[id].member = m}

(* num_requests_pk counts exactly the open requests of each member, through *)
(* executions, deletions and removals of members: no member is blocked by   *)
(* requests that are gone, and the "safety check for underrun" in           *)
(* remove_request never applies.                                            *)
CountsOpenRequests ==
    \A m \in Candidates : multisig.num_requests_pk[m] = Cardinality(OpenBy(m))

(* A removed member leaves no request behind ("delete outstanding requests  *)
(* by public_key", delete_member), what was executed is not open, and the   *)
(* assertion "Internal error: confirmations mismatch requests" cannot fail. *)
RequestsBelongToMembers ==
    /\ DOMAIN multisig.confirmations = Open
    /\ \A id \in Open : multisig.requests[id].member \in multisig.members
    /\ executed \cap Open = {}

(* An open request ends by its execution, by delete_request after the       *)
(* cooldown, or together with its author; nothing else takes it away.       *)
RequestsEndProperly ==
    [][\A id \in Open \ DOMAIN multisig'.requests :
            \/ id \in executed'
            \/ now > multisig.requests[id].added_timestamp + Cooldown
            \/ /\ executed' # executed
               /\ \A j \in DOMAIN multisig'.requests :
                    multisig'.requests[j].member # multisig.requests[id].member]_vars

(* "All operations going forward will require K members to call confirm to  *)
(* be executed" (multisig/README.md): the confirmations that an execution   *)
(* counts are those of members.                                             *)
ExecutedByMembers ==
    [][\A id \in (executed' \ executed) \cap Open :
            Cardinality(multisig.confirmations[id] \cap multisig.members) + 1
                >= multisig.num_confirmations]_vars
=============================================================================
