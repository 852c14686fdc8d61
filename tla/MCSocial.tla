------------------------------ MODULE MCSocial -------------------------------
(***************************************************************************)
(* Social and its queries on a small instance.                             *)
(***************************************************************************)
EXTENDS SocialQuery

Order == <<"", "alice", "bob", "k">>
OrderedKeys == {"", "alice", "bob", "k"}

(* The visits of data: an object or a leaf under a key of an earlier one. *)
Obj(parent, key) == [parent |-> parent, key |-> key, leaf |-> FALSE, value |-> ""]
Val(parent, key, value) == [parent |-> parent, key |-> key, leaf |-> TRUE, value |-> value]
Whole == Obj(0, "")

SomeData ==
    {<<Val(0, "", "x")>>, <<Val(0, "", Null)>>, <<Whole>>,
     <<Whole, Val(1, "k", "x")>>, <<Whole, Val(1, "k", Null)>>,
     <<Whole, Obj(1, "k"), Val(2, "k", "x")>>, <<Whole, Obj(1, ""), Val(2, "k", "x")>>}
SomeDataOf == [alice |-> SomeData, bob |-> {<<Whole>>}]

SomePathsOf == [alice |-> {<<>>, <<"k">>, <<"k", "k">>, <<"k", "">>}, bob |-> {<<>>}]

SomeGets ==
    {<<<<"alice">>>>, <<<<"*", "**">>>>, <<<<"alice", "k", "">>, <<"alice", "*", "k">>>>,
     <<<<"*", "k">>, <<"alice", "**">>>>, <<<<"alice", "*", "k">>, <<"*", "k">>>>,
     <<<<"alice", "k">>, <<"alice", "k", "**", "k">>>>, <<<<"**", "k">>>>}

SomeKeys ==
    {<<<<"*", "*">>>>, <<<<"alice", "k">>, <<"*", "*", "*">>>>,
     <<<<"alice", "**">>, <<"**", "k">>, <<"*", "k", "">>>>}

NoShareBytes == <<>>
SomeWrites == -2 .. 6
=============================================================================
