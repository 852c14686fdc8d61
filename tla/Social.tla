------------------------------- MODULE Social --------------------------------
(***************************************************************************)
(* The social contract (src/social-web3/contract/src): the tree of nodes,  *)
(* the accounts at its top, their write permissions, and the storage they  *)
(* pay for, which is SocialStorage with the bytes that are really in the   *)
(* state.  Accounts without shared storage, in a new contract.  A call     *)
(* that panics changes nothing.                                            *)
(***************************************************************************)
EXTENDS SocialTree, SocialStorage

CONSTANTS
    Callers,          \* accounts that call, in the tree or not
    PublicKeys,       \* keys that sign calls
    Data,             \* account -> data that it may be set to
    GrantPaths,       \* account -> paths below it that may be granted
    ValueBytes, DeletedBytes, NodeBytes,  \* bytes of the parts of a tree
    MaxNodes,         \* bound on the nodes
    MaxHeight         \* bound on the block height

PermissionKeys == Callers \cup PublicKeys

ASSUME PermissionKeysAssumption == IsFiniteSet(PermissionKeys)
ASSUME DataAssumption ==
    \A a \in AccountIds : (\A data \in Data[a] : IsData(data)) /\ GrantPaths[a] \subseteq Seq(Keys)
ASSUME TreeBytesAssumption == ValueBytes \in Nat /\ DeletedBytes \in Nat /\ NodeBytes \in Nat

VARIABLES
    root,         \* AccountId -> node id, 0 if there is none
    nodes,        \* NodeId -> Node; the next id is Len(nodes) + 1
    permissions,  \* AccountId -> PermissionKey -> granted node ids
    height        \* env::block_height

tree == <<root, nodes, permissions>>
socialVars == <<vars, tree, height>>

----------------------------------------------------------------------------
(* Storage of the state, as env::storage_usage counts it. *)

EntryBytes(value) ==
    CASE value.kind = "Value" -> ValueBytes
      [] value.kind = "DeletedEntry" -> DeletedBytes
      [] value.kind = "Node" -> NodeBytes

ChildrenBytes(node) ==
    SumOver([k \in DOMAIN node.children |-> EntryBytes(node.children[k])], DOMAIN node.children)

NodesBytes(ns, ids) == SumOver([id \in ids |-> ChildrenBytes(ns[id])], ids)

PermissionBytes(granted) ==
    SumOver([p \in PermissionKeys |-> Cardinality(granted[p])], PermissionKeys)

(* All that hangs below a node of S is in S. *)
Closed(ns, S) ==
    \A id \in S : \A k \in DOMAIN ns[id].children : IsNode(ns[id], k) => ns[id].children[k].id \in S

(* The nodes below and at id. *)
Below(ns, id) ==
    LET closed == {S \in SUBSET DOMAIN ns : id \in S /\ Closed(ns, S)}
    IN  {x \in DOMAIN ns : \A S \in closed : x \in S}

(* What account a takes in the state. *)
StateBytes(a, rt, ns, granted) ==
    IF rt[a] = 0 THEN 0
    ELSE AccountBytes + NodesBytes(ns, Below(ns, rt[a])) + PermissionBytes(granted[a])

----------------------------------------------------------------------------
(* The node of account a; the nodes when it is created first               *)
(* (internal_initial_set_account).                                         *)
RootOf(a) == IF root[a] = 0 THEN Len(nodes) + 1 ELSE root[a]

(* Mutant: an account that exists gets a node again. *)
NodesWith_Mutant(a) == Append(nodes, NewNode(height))

NodesWith(a) == IF root[a] = 0 THEN Append(nodes, NewNode(height)) ELSE nodes

(* The tree and what is stored for it after a call for account a. *)
StoreTree(a, ns, granted) ==
    LET rt == [root EXCEPT ![a] = RootOf(a)]
    IN  /\ nodes' = ns
        /\ root' = rt
        /\ permissions' = granted
        /\ stored' = [b \in AccountIds |-> StateBytes(b, rt, ns, granted)]

(* Mutant: bytes that a call releases are not given back. *)
BytesWritten_Mutant(before, after) ==
    LET bytes == NodesBytes(after, DOMAIN after) - NodesBytes(before, DOMAIN before)
    IN  IF bytes > 0 THEN bytes ELSE 0

(* The bytes between two states of all the nodes. *)
BytesWritten(before, after) == NodesBytes(after, DOMAIN after) - NodesBytes(before, DOMAIN before)

internal_get_writeable_node_ids(a, caller, public_key) ==
    permissions[a][caller] \cup permissions[a][public_key]

(* Mutant: the caller's own account is not required. *)
WriteApproved_Mutant(a, caller) == TRUE

WriteApproved(a, caller) == a = caller

Wrote(caller, public_key, a, data) ==
    recursive_set(NodesWith(a), RootOf(a), data, WriteApproved(a, caller),
                  internal_get_writeable_node_ids(a, caller, public_key), height)

(* `set` for one account; data for several is written as by several calls. *)
set(caller, public_key, a, data, deposit, refund) ==
    LET w == Wrote(caller, public_key, a, data)
        bytes == BytesWritten(NodesWith(a), w.nodes)
    IN  /\ assert_live
        /\ Pay(a, bytes, deposit, refund) /\ bytes \in Writes
        /\ w.outcome = "ok" /\ Len(w.nodes) <= MaxNodes
        /\ StoreTree(a, w.nodes, permissions)
        /\ UNCHANGED height

(* The caller grants one key for one path below its own account. *)
grant_write_permission(caller, permission_key, path, deposit) ==
    LET w == GrantPath(NodesWith(caller), RootOf(caller), path, height)
        before == permissions[caller][permission_key]
        granted == before \cup {w.id}
        bytes == BytesWritten(NodesWith(caller), w.nodes) + Cardinality(granted) - Cardinality(before)
    IN  /\ assert_live /\ deposit > 0
        /\ Pay(caller, bytes, deposit, FALSE) /\ bytes \in Writes
        /\ w.outcome = "ok" /\ Len(w.nodes) <= MaxNodes
        /\ StoreTree(caller, w.nodes, [permissions EXCEPT ![caller][permission_key] = granted])
        /\ UNCHANGED height

(* storage_deposit; a new account gets its node. *)
deposit_storage(a, registration_only, deposit) ==
    /\ assert_live
    /\ Len(NodesWith(a)) <= MaxNodes
    /\ PayDeposit(a, registration_only, deposit)
    /\ StoreTree(a, NodesWith(a), permissions)
    /\ UNCHANGED height

NextBlock ==
    /\ height < MaxHeight
    /\ height' = height + 1
    /\ UNCHANGED <<vars, tree>>

(* Mutant: the permission for the account's own node is not looked at. *)
is_write_permission_granted_Mutant(permission_key, a, path) ==
    /\ root[a] # 0 /\ path # <<>> /\ IsNode(nodes[root[a]], path[1])
    /\ GrantedOnPath(nodes, nodes[root[a]].children[path[1]].id, Tail(path),
                     permissions[a][permission_key])

(* Whether a permission covers the path or a prefix of it. *)
is_write_permission_granted(permission_key, a, path) ==
    root[a] # 0 /\ GrantedOnPath(nodes, root[a], path, permissions[a][permission_key])

SocialInit ==
    /\ Init
    /\ status = "Genesis"
    /\ root = [a \in AccountIds |-> 0]
    /\ nodes = <<>>
    /\ permissions = [a \in AccountIds |-> [p \in PermissionKeys |-> {}]]
    /\ height = 0

SocialNext ==
    \/ \E a \in AccountIds, deposit \in Deposits :
        \/ \E caller \in Callers, public_key \in PublicKeys, data \in Data[a], refund \in BOOLEAN :
                set(caller, public_key, a, data, deposit, refund)
        \/ \E registration_only \in BOOLEAN : deposit_storage(a, registration_only, deposit)
        \/ \E permission_key \in PermissionKeys, path \in GrantPaths[a] :
                grant_write_permission(a, permission_key, path, deposit)
    \/ \E a \in AccountIds :
        \E amount \in Deposits \cup {AvailableBalance(internal_get_account(a))} :
            storage_withdraw(a, amount) /\ UNCHANGED <<tree, height>>
    \/ \E new_status \in {"Live", "ReadOnly"} : set_status(new_status) /\ UNCHANGED <<tree, height>>
    \/ NextBlock

SocialSpec == SocialInit /\ [][SocialNext]_socialVars

----------------------------------------------------------------------------
(* Properties. *)

(* Where node id hangs: below key p[2] of node p[1], or at account p[2].   *)
Places(id) ==
    {p \in (DOMAIN nodes) \X Keys :
        IsNode(nodes[p[1]], p[2]) /\ nodes[p[1]].children[p[2]].id = id}
    \cup {p \in {0} \X AccountIds : root[p[2]] = id}

(* Every node hangs in exactly one place, below an account, and what an     *)
(* account has granted lies in its own tree: no write or grant reaches two  *)
(* places or outlives its node (recursive_set, grant_write_permission,      *)
(* create_node_id).                                                         *)
NodesFormATree ==
    /\ \A id \in DOMAIN nodes :
        /\ Cardinality(Places(id)) = 1
        /\ \E a \in AccountIds : root[a] # 0 /\ id \in Below(nodes, root[a])
    /\ \A a \in AccountIds, p \in PermissionKeys :
        permissions[a][p] # {} => permissions[a][p] \subseteq Below(nodes, root[a])

(* The data that writes a leaf at a path: an object for every key before.  *)
DataAt(path) ==
    [i \in 1 .. Len(path) + 1 |->
        [parent |-> i - 1, key |-> IF i = 1 THEN EmptyKey ELSE path[i - 1],
         leaf |-> i = Len(path) + 1, value |-> "x"]]

(* is_write_permission_granted says for another account exactly whether     *)
(* `set` refuses its write for want of permission, which it may still       *)
(* refuse for another reason (internal_get_writeable_node_ids,              *)
(* recursive_set).                                                          *)
GrantsAreEnforced ==
    \A a \in AccountIds, caller \in Callers : \A path \in GrantPaths[a] :
        root[a] # 0 /\ a # caller =>
            (is_write_permission_granted(caller, a, path) <=>
                recursive_set(nodes, root[a], DataAt(path), FALSE,
                              permissions[a][caller], height).outcome # "denied")

(* A node is at least as high as everything below it, so that a reader who  *)
(* has seen height h may skip nodes up to h (internal_set_node).            *)
HeightsCoverSubtrees ==
    \A id \in DOMAIN nodes : \A k \in DOMAIN nodes[id].children :
        LET value == nodes[id].children[k]
        IN  nodes[id].block_height >=
                IF value.kind = "Node" THEN nodes[value.id].block_height ELSE value.height

(* A write by another account changes entries only below nodes that were    *)
(* granted to it or to the key that signs (set, recursive_set).             *)
OnlyGrantedNodesChange ==
    \A a \in AccountIds, caller \in Callers, public_key \in PublicKeys : \A data \in Data[a] :
        LET w == Wrote(caller, public_key, a, data)
            granted == permissions[a][caller] \cup permissions[a][public_key]
        IN  root[a] # 0 /\ a # caller /\ w.outcome = "ok" =>
                \A id \in DOMAIN nodes :
                    w.nodes[id].children # nodes[id].children =>
                        \E g \in granted : id \in Below(nodes, g)

(* The contract keeps the storage accounting of SocialStorage, with the     *)
(* bytes of an account's tree and permissions as what is stored: all that a *)
(* call writes is charged to the account in whose tree it is (set,          *)
(* grant_write_permission, StorageTracker).                                 *)
ImplementsStorage == Spec
=============================================================================
