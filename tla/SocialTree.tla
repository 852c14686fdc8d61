----------------------------- MODULE SocialTree ------------------------------
(***************************************************************************)
(* The tree of the social contract and how it is written                   *)
(* (src/social-web3/contract/src/node.rs, api.rs, permission.rs).  A node  *)
(* maps keys to values, to deleted entries and to other nodes; `ns` is the *)
(* sequence of all nodes, indexed by node id.                              *)
(***************************************************************************)
EXTENDS Integers, Sequences, FiniteSets

CONSTANTS
    Keys,      \* the keys of JSON objects
    EmptyKey   \* EMPTY_KEY

ASSUME EmptyKeyAssumption == EmptyKey \in Keys

Null == "null"

(* NodeValue; get_block_height is the field height. *)
ValueAtHeight(v, h) == [kind |-> "Value", value |-> v, height |-> h]
DeletedEntry(h) == [kind |-> "DeletedEntry", height |-> h]
NodeRef(id) == [kind |-> "Node", id |-> id]

(* The function f with key k mapped to v. *)
Insert(f, k, v) == [x \in DOMAIN f \cup {k} |-> IF x = k THEN v ELSE f[x]]

HasKey(f, k) == k \in DOMAIN f

IsNode(node, key) == HasKey(node.children, key) /\ node.children[key].kind = "Node"

(* Node::new without a value, and with the value of the empty key. *)
NewNode(h) == [block_height |-> h, children |-> [k \in {} |-> DeletedEntry(h)]]

(* Mutant: the earlier value is lost. *)
NewNodeWith_Mutant(value, h) == NewNode(h)

NewNodeWith(value, h) == [block_height |-> h, children |-> [k \in {EmptyKey} |-> value]]

(* The entry that Node::set stores for a string or null. *)
Entry(value, h) == IF value = Null THEN DeletedEntry(h) ELSE ValueAtHeight(value, h)

(* The nodes with a value put under key of node id. *)
Put(ns, id, key, value) ==
    [ns EXCEPT ![id] = [block_height |-> ns[id].block_height,
                        children |-> Insert(ns[id].children, key, value)]]

(* A new node below key of node id; an earlier value goes to its empty key. *)
AddNode(ns, id, key, h) ==
    Append(Put(ns, id, key, NodeRef(Len(ns) + 1)),
           IF HasKey(ns[id].children, key) THEN NewNodeWith(ns[id].children[key], h) ELSE NewNode(h))

(* Mutant: the block height of a node is not renewed. *)
Touch_Mutant(ns, id, h) == ns

(* internal_set_node *)
Touch(ns, id, h) == [ns EXCEPT ![id] = [block_height |-> h, children |-> ns[id].children]]

(* The node below key of node id, which is stored again, or created.        *)
Child(ns, id, key) == IF IsNode(ns[id], key) THEN ns[id].children[key].id ELSE Len(ns) + 1

WithChild(ns, id, key, h) ==
    IF IsNode(ns[id], key) THEN Touch(ns, ns[id].children[key].id, h) ELSE AddNode(ns, id, key, h)

(* No node can hang where the empty key has a value. *)
NoChild(ns, id, key) == key = EmptyKey /\ HasKey(ns[id].children, key) /\ ~IsNode(ns[id], key)

----------------------------------------------------------------------------
(* Writing.  Data is JSON, as the sequence of its values in the order in    *)
(* which recursive_set visits them: every value has the number of the       *)
(* object it is in, its key there, and, when it is a string or null, its    *)
(* leaf value.  The first is the value for the account.                     *)

Visit == [parent : Nat, key : Keys, leaf : BOOLEAN, value : STRING]

IsData(data) ==
    /\ data \in Seq(Visit) /\ data # <<>>
    /\ \A i \in 2 .. Len(data) : data[i].parent \in 1 .. i - 1 /\ ~data[data[i].parent].leaf
    /\ \A i, j \in 2 .. Len(data) :
            data[i].parent = data[j].parent /\ data[i].key = data[j].key => i = j

(* A write holds "ok" or the reason of the panic, the nodes, and for every  *)
(* visit the node it is at and whether writing is approved there.           *)

Panic(reason, w) == [outcome |-> reason, nodes |-> w.nodes, ids |-> w.ids, approved |-> w.approved]

Visited(w, ns, id, approved) ==
    [outcome |-> "ok", nodes |-> ns, ids |-> Append(w.ids, id), approved |-> Append(w.approved, approved)]

(* recursive_set is entered at node id: a leaf is stored under the empty    *)
(* key, where Node::set must not replace a node.                            *)
Enter(w, ns, id, visit, approved, h) ==
    IF ~visit.leaf THEN Visited(w, ns, id, approved)
    ELSE IF ~approved THEN Panic("denied", w)
    ELSE IF IsNode(ns[id], EmptyKey) THEN Panic("internal_error", w)
    ELSE Visited(w, Put(ns, id, EmptyKey, Entry(visit.value, h)), id, approved)

(* One key of an object, in the loop of recursive_set. *)
SetKey(w, visit, writable, h) ==
    LET id == w.ids[visit.parent]
        write_approved == w.approved[visit.parent]
        child == Child(w.nodes, id, visit.key)
    IN  IF w.outcome # "ok" THEN w
        ELSE IF IsNode(w.nodes[id], visit.key)
        THEN Enter(w, WithChild(w.nodes, id, visit.key, h), child, visit,
                   write_approved \/ child \in writable, h)
        ELSE IF ~write_approved THEN Panic("denied", w)
        ELSE IF visit.leaf
        THEN Visited(w, Put(w.nodes, id, visit.key, Entry(visit.value, h)), id, TRUE)
        ELSE IF NoChild(w.nodes, id, visit.key) THEN Panic("empty_key", w)
        ELSE Visited(w, WithChild(w.nodes, id, visit.key, h), child, TRUE)

(* The write after each visit.  A node is stored with its new height at its *)
(* visit, not after the visits below it: nothing reads heights in between.  *)
WriteSteps(ns, id, data, write_approved, writable, h) ==
    LET start == [outcome |-> "ok", nodes |-> ns, ids |-> <<>>, approved |-> <<>>]
        w[i \in 1 .. Len(data)] ==
            IF i = 1
            THEN Enter(start, Touch(ns, id, h), id, data[1], write_approved \/ id \in writable, h)
            ELSE SetKey(w[i - 1], data[i], writable, h)
    IN  w

recursive_set(ns, id, data, write_approved, writable, h) ==
    WriteSteps(ns, id, data, write_approved, writable, h)[Len(data)]

(* The walk of grant_write_permission from node id along a path: the node   *)
(* reached after each key.  Nodes are created where there are none and      *)
(* every node passed is stored again.                                       *)
GrantSteps(ns, id, path, h) ==
    LET w[n \in 0 .. Len(path)] ==
            IF n = 0 THEN [outcome |-> "ok", nodes |-> Touch(ns, id, h), id |-> id]
            ELSE LET at == w[n - 1]
                 IN  IF at.outcome # "ok" THEN at
                     ELSE IF NoChild(at.nodes, at.id, path[n])
                     THEN [outcome |-> "empty_key", nodes |-> at.nodes, id |-> at.id]
                     ELSE [outcome |-> "ok", nodes |-> WithChild(at.nodes, at.id, path[n], h),
                           id |-> Child(at.nodes, at.id, path[n])]
    IN  w

GrantPath(ns, id, path, h) == GrantSteps(ns, id, path, h)[Len(path)]

(* The node at each length of a path from node id, 0 from where on there is *)
(* none.                                                                    *)
NodesOnPath(ns, id, path) ==
    LET at[n \in 0 .. Len(path)] ==
            IF n = 0 THEN id
            ELSE IF at[n - 1] # 0 /\ IsNode(ns[at[n - 1]], path[n])
            THEN ns[at[n - 1]].children[path[n]].id
            ELSE 0
    IN  at

(* The loop of is_write_permission_granted. *)
GrantedOnPath(ns, id, path, node_ids) ==
    \E n \in 0 .. Len(path) :
        NodesOnPath(ns, id, path)[n] # 0 /\ NodesOnPath(ns, id, path)[n] \in node_ids
=============================================================================
