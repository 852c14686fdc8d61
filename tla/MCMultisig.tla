----------------------------- MODULE MCMultisig -----------------------------
(***************************************************************************)
(* Multisig on small instances.                                            *)
(***************************************************************************)
EXTENDS Multisig

CONSTANTS a, b, c

Act(type, m, n) == [type |-> type, member |-> m, number |-> n]
Own(actions) == [own |-> TRUE, actions |-> actions]

ThreeMembers == {<<a, b, c>>}

Pay == [own |-> FALSE, actions |-> <<Act("Promise", a, 0)>>]
RemoveMember(m) == Own(<<Act("DeleteMember", m, 0)>>)
(* Several actions; the second removal may panic. *)
RemoveTwo == Own(<<Act("AddKey", a, 0), Act("DeleteMember", b, 0), Act("DeleteMember", c, 0)>>)
ReplaceMember == Own(<<Act("DeleteMember", a, 0), Act("AddMember", c, 0), Act("Promise", a, 0)>>)
Confirmations(k) == Own(<<Act("SetNumConfirmations", a, k)>>)
Limit(k) == Own(<<Act("SetActiveRequestsLimit", a, k)>>)

MemberRequests == {RemoveTwo, ReplaceMember, Confirmations(1), Limit(1)}
RemovalRequests == {Pay, RemoveMember(a)}
=============================================================================
