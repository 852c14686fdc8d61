----------------------------- MODULE SocialQuery -----------------------------
(***************************************************************************)
(* What readers of the social contract see: the queries get and keys       *)
(* (src/social-web3/contract/src/api.rs) and what they, and writes before  *)
(* them, ought to give.  Block heights and node ids as return values are   *)
(* left out.                                                               *)
(***************************************************************************)
EXTENDS Social, TLC

CONSTANTS
    KeyOrder,                 \* all keys, in the order of JSON objects
    GetQueries, KeysQueries   \* path lists that readers may ask for

ASSUME KeyOrderAssumption == Keys = {KeyOrder[i] : i \in DOMAIN KeyOrder}

Star == "*"            \* STAR
RecursiveStar == "**"  \* RECURSIVE_STAR

(* The JSON that is returned. *)
Leaf(v) == [leaf |-> TRUE, value |-> v]
Object(f) == [leaf |-> FALSE, children |-> f]

----------------------------------------------------------------------------
(* The JSON map that is being built. *)

(* json_map_get_inner_object: the object under key; a leaf moves to its     *)
(* empty key.                                                               *)
json_map_get_inner_object(res, key) ==
    IF ~HasKey(res, key) THEN <<>>
    ELSE IF res[key].leaf THEN EmptyKey :> res[key]
    ELSE res[key].children

RECURSIVE PutLeaf(_, _, _)

(* Mutant: nothing is put where an object is. *)
PutLeaf_Mutant(res, key, leaf) == IF HasKey(res, key) THEN res ELSE Insert(res, key, leaf)

(* A leaf is put under key, or under the empty key of an object there; a    *)
(* leaf that is there already stays.                                        *)
PutLeaf(res, key, leaf) ==
    IF ~HasKey(res, key) THEN Insert(res, key, leaf)
    ELSE IF res[key].leaf THEN res
    ELSE Insert(res, key, Object(PutLeaf(res[key].children, EmptyKey, leaf)))

json_map_set_key(res, key, node_value, return_deleted) ==
    CASE node_value.kind = "Value" -> PutLeaf(res, key, Leaf(node_value.value))
      [] node_value.kind = "DeletedEntry" /\ return_deleted -> PutLeaf(res, key, Leaf(Null))
      [] OTHER -> res

json_map_set_value(res, key, value) ==
    IF ~HasKey(res, key) THEN Insert(res, key, Leaf(value))
    ELSE IF res[key].leaf THEN res
    ELSE Insert(res, key, Object(Insert(res[key].children, EmptyKey, Leaf(value))))

(* json_map_recursive_cleanup: objects without entries are dropped. *)
RECURSIVE json_map_recursive_cleanup(_)
json_map_recursive_cleanup(res) ==
    LET clean == [k \in DOMAIN res |->
            IF res[k].leaf THEN res[k] ELSE Object(json_map_recursive_cleanup(res[k].children))]
    IN  [k \in {k \in DOMAIN res : clean[k].leaf \/ DOMAIN clean[k].children # {}} |-> clean[k]]

----------------------------------------------------------------------------
(* get and keys. *)

(* The keys of a node that the first element of a path matches, in order.   *)
(* For get both stars are wildcards, for keys only STAR is.                 *)
Matched(node, pattern, wildcards) ==
    SelectSeq(KeyOrder, LAMBDA k : HasKey(node.children, k) /\ pattern \in wildcards \cup {k})

RECURSIVE recursive_get(_, _, _, _, _)
RECURSIVE GetEntries(_, _, _, _, _, _)

(* A get so far: "ok" with the map, or the reason of the panic.             *)
Getting(map) == [outcome |-> "ok", map |-> map]

(* What recursive_get does for the matched keys `entries` of node id; a     *)
(* panic ends it.                                                           *)
GetEntries(g, ns, id, entries, path, return_deleted) ==
    IF entries = <<>> \/ g.outcome # "ok" THEN g
    ELSE LET key == Head(entries)
             value == ns[id].children[key]
             deeper == Len(path) > 1 \/ path[1] = RecursiveStar
             below == IF Len(path) > 1 THEN Tail(path) ELSE path
             inner == recursive_get(Getting(json_map_get_inner_object(g.map, key)),
                                    ns, value.id, below, return_deleted)
             next ==
                IF value.kind # "Node"
                THEN IF Len(path) = 1
                     THEN Getting(json_map_set_key(g.map, key, value, return_deleted)) ELSE g
                ELSE IF deeper THEN [inner EXCEPT !.map = Insert(g.map, key, Object(@))]
                ELSE IF HasKey(ns[value.id].children, EmptyKey)
                THEN Getting(json_map_set_key(g.map, key, ns[value.id].children[EmptyKey],
                                              return_deleted))
                ELSE g
         IN  GetEntries(next, ns, id, Tail(entries), path, return_deleted)

(* RECURSIVE_STAR can only be used as a suffix, which is checked when a     *)
(* node is reached with it.                                                 *)
recursive_get(g, ns, id, path, return_deleted) ==
    IF path[1] = RecursiveStar /\ Len(path) > 1 THEN [g EXCEPT !.outcome = "not_suffix"]
    ELSE GetEntries(g, ns, id, Matched(ns[id], path[1], {Star, RecursiveStar}), path,
                    return_deleted)

RECURSIVE recursive_keys(_, _, _, _, _, _)
RECURSIVE KeysEntries(_, _, _, _, _, _, _)

(* Whether keys lists the entry at the end of a path. *)
Listed(ns, value, return_deleted, values_only) ==
    IF value.kind # "Node" THEN value.kind = "Value" \/ return_deleted
    ELSE \/ ~values_only
         \/ /\ HasKey(ns[value.id].children, EmptyKey)
            /\ return_deleted \/ ns[value.id].children[EmptyKey].kind # "DeletedEntry"

KeysEntries(res, ns, id, entries, path, return_deleted, values_only) ==
    IF entries = <<>> THEN res
    ELSE LET key == Head(entries)
             value == ns[id].children[key]
             next ==
                IF Len(path) = 1
                THEN IF Listed(ns, value, return_deleted, values_only)
                     THEN json_map_set_value(res, key, "true") ELSE res
                ELSE IF value.kind = "Node"
                THEN Insert(res, key, Object(recursive_keys(json_map_get_inner_object(res, key), ns,
                                value.id, Tail(path), return_deleted, values_only)))
                ELSE res
         IN  KeysEntries(next, ns, id, Tail(entries), path, return_deleted, values_only)

recursive_keys(res, ns, id, path, return_deleted, values_only) ==
    KeysEntries(res, ns, id, Matched(ns[id], path[1], {Star}), path, return_deleted, values_only)

(* A trailing separator is dropped. *)
Trimmed(path) == IF path[Len(path)] = EmptyKey THEN SubSeq(path, 1, Len(path) - 1) ELSE path

(* Paths that end in two separators, and the empty path, are skipped. *)
Queried(path) == Trimmed(path) # <<>> /\ Trimmed(path)[Len(Trimmed(path))] # EmptyKey

RECURSIVE GetPaths(_, _, _, _, _)
GetPaths(g, ns, id, paths, return_deleted) ==
    IF paths = <<>> \/ g.outcome # "ok" THEN g
    ELSE GetPaths(IF Queried(Head(paths))
                  THEN recursive_get(g, ns, id, Trimmed(Head(paths)), return_deleted) ELSE g,
                  ns, id, Tail(paths), return_deleted)

get(ns, id, paths, return_deleted) ==
    [GetPaths(Getting(<<>>), ns, id, paths, return_deleted)
        EXCEPT !.map = json_map_recursive_cleanup(@)]

RECURSIVE KeysPaths(_, _, _, _, _, _)
KeysPaths(res, ns, id, paths, return_deleted, values_only) ==
    IF paths = <<>> THEN res
    ELSE KeysPaths(IF Queried(Head(paths))
                   THEN recursive_keys(res, ns, id, Trimmed(Head(paths)), return_deleted, values_only)
                   ELSE res,
                   ns, id, Tail(paths), return_deleted, values_only)

keys(ns, id, paths, return_deleted, values_only) ==
    json_map_recursive_cleanup(KeysPaths(<<>>, ns, id, paths, return_deleted, values_only))

----------------------------------------------------------------------------
(* The reference: what the queries ought to return, as a set of paths with  *)
(* values.  A path and the path with an empty key after it are the same.    *)

Plain(path) == IF path # <<>> /\ path[Len(path)] = EmptyKey THEN SubSeq(path, 1, Len(path) - 1) ELSE path

(* All leaves of a JSON map. *)
RECURSIVE Leaves(_)
Leaves(res) ==
    UNION {IF res[k].leaf THEN {<<<<k>>, res[k].value>>}
           ELSE {<<<<k>> \o l[1], l[2]>> : l \in Leaves(res[k].children)} : k \in DOMAIN res}

PlainLeaves(res) == {<<Plain(l[1]), l[2]>> : l \in Leaves(res)}

(* All entries below a node, with their full paths. *)
RECURSIVE Entries(_, _)
Entries(ns, id) ==
    LET node == ns[id]
    IN  UNION {{<<<<k>>, node.children[k]>>} \cup
                (IF node.children[k].kind = "Node"
                 THEN {<<<<k>> \o e[1], e[2]>> : e \in Entries(ns, node.children[k].id)}
                 ELSE {}) : k \in DOMAIN node.children}

(* A pattern of keys matches key by key.  That of get may end in            *)
(* RECURSIVE_STAR, which matches all that is longer.                        *)
Matches(path, pattern) ==
    Len(path) = Len(pattern) /\ \A i \in DOMAIN pattern : pattern[i] \in {Star, path[i]}

GetMatches(path, pattern) ==
    LET n == Len(pattern)
    IN  IF pattern[n] = RecursiveStar
        THEN Len(path) >= n /\ Matches(SubSeq(path, 1, n - 1), SubSeq(pattern, 1, n - 1))
        ELSE Matches(path, pattern)

(* A RECURSIVE_STAR that is no suffix is met at a node.                     *)
ExpectedPanic(ns, id, paths) ==
    \E i \in DOMAIN paths :
        /\ Queried(paths[i])
        /\ LET pattern == Trimmed(paths[i])
           IN  \E n \in 1 .. Len(pattern) - 1 :
                /\ pattern[n] = RecursiveStar
                /\ n = 1 \/ \E e \in Entries(ns, id) :
                                e[2].kind = "Node" /\ Matches(e[1], SubSeq(pattern, 1, n - 1))

Visible(value, return_deleted) ==
    value.kind = "Value" \/ (value.kind = "DeletedEntry" /\ return_deleted)

Shown(value) == IF value.kind = "Value" THEN value.value ELSE Null

(* An entry is returned when its path matches, or when it is the empty key  *)
(* of a node whose path matches.                                            *)
ExpectedGet(ns, id, paths, return_deleted) ==
    {<<Plain(e[1]), Shown(e[2])>> :
        e \in {e \in Entries(ns, id) : Visible(e[2], return_deleted) /\
                \E i \in DOMAIN paths : Queried(paths[i]) /\
                    \/ GetMatches(e[1], Trimmed(paths[i]))
                    \/ GetMatches(Plain(e[1]), Trimmed(paths[i]))}}

(* A key is listed when its entry is visible, or a node; with values_only   *)
(* only a node that has something visible under its empty key, which is     *)
(* where the value of the key is kept since it became a node.  (The         *)
(* contract's README, line 186, speaks of keys whose value is not a node.)  *)
ExpectedKeys(ns, id, paths, return_deleted, values_only) ==
    LET entries == Entries(ns, id)
        HasValue(path) == \E e \in entries :
            e[1] = Append(path, EmptyKey) /\ (e[2].kind = "Node" \/ Visible(e[2], return_deleted))
        listed == {e \in entries :
            \/ Visible(e[2], return_deleted)
            \/ e[2].kind = "Node" /\ (values_only => HasValue(e[1]))}
    IN  {<<Plain(e[1]), "true">> :
            e \in {e \in listed : \E i \in DOMAIN paths :
                        Queried(paths[i]) /\ Matches(e[1], Trimmed(paths[i]))}}

(* A path without the empty keys at its end: the place that a value is for. *)
RECURSIVE Place(_)
Place(path) == IF Plain(path) = path THEN path ELSE Place(Plain(path))

(* The values of a tree by place. *)
View(ns, id) ==
    LET es == {e \in Entries(ns, id) : e[2].kind # "Node"}
    IN  [p \in {Place(e[1]) : e \in es} |-> Shown((CHOOSE e \in es : Place(e[1]) = p)[2])]

(* The places and values of written data. *)
LeavesOf(data) ==
    LET path[i \in 1 .. Len(data)] ==
            IF i = 1 THEN <<>> ELSE Append(path[data[i].parent], data[i].key)
    IN  {<<Place(path[i]), data[i].value>> : i \in {i \in DOMAIN data : data[i].leaf}}

(* A write changes exactly the values it names, whatever nodes it creates   *)
(* and values it turns into nodes (recursive_set, Node::set, Node::new).    *)
WritesAreExact ==
    \A a \in AccountIds : \A data \in Data[a] :
        LET w == recursive_set(nodes, root[a], data, TRUE, {}, height)
            leaves == LeavesOf(data)
        IN  root[a] # 0 /\ w.outcome = "ok" =>
                View(w.nodes, root[a]) =
                    [p \in {l[1] : l \in leaves} |-> (CHOOSE l \in leaves : l[1] = p)[2]]
                        @@ View(nodes, root[a])

(* The root node, which is not among the nodes, and all nodes with it. *)
RootNode ==
    [block_height |-> 0,
     children |-> [a \in {a \in AccountIds : root[a] # 0} |-> NodeRef(root[a])]]

AllNodes == Append(nodes, RootNode)

(* get returns the visible values at the matched paths, once each, however  *)
(* the paths of a query overlap, and no empty objects, and refuses just the *)
(* queries whose RECURSIVE_STAR is not a suffix where it meets a node; keys *)
(* returns the matched keys, to which RECURSIVE_STAR is a key like others   *)
(* (get, recursive_get, keys, recursive_keys, the json_map functions).      *)
QueriesReturnMatches ==
    /\ \A paths \in GetQueries, return_deleted \in BOOLEAN :
        LET res == get(AllNodes, Len(AllNodes), paths, return_deleted)
        IN  /\ res.outcome # "ok" <=> ExpectedPanic(AllNodes, Len(AllNodes), paths)
            /\ res.outcome = "ok" =>
                /\ PlainLeaves(res.map) =
                        ExpectedGet(AllNodes, Len(AllNodes), paths, return_deleted)
                /\ json_map_recursive_cleanup(res.map) = res.map
    /\ \A paths \in KeysQueries, return_deleted, values_only \in BOOLEAN :
        PlainLeaves(keys(AllNodes, Len(AllNodes), paths, return_deleted, values_only)) =
            ExpectedKeys(AllNodes, Len(AllNodes), paths, return_deleted, values_only)
=============================================================================
