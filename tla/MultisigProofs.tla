--------------------------- MODULE MultisigProofs ---------------------------
(***************************************************************************)
(* Proofs about the multisig contract, for any members, requests with any  *)
(* actions, numbers of confirmations and limits: the counters of open      *)
(* requests are exact, requests belong to members, and a request ends by   *)
(* its execution, by its deletion or with its author.                      *)
(***************************************************************************)
EXTENDS Multisig, SumTheorems

RequestRecord == [request : MultiSigRequest, member : Candidates, added_timestamp : Nat]
RequestTable == UNION {[S -> RequestRecord] : S \in SUBSET Nat}
ConfirmationTable == UNION {[S -> SUBSET Candidates] : S \in SUBSET Nat}

(* MultiSigContract *)
Contract ==
    [members : SUBSET Candidates, num_confirmations : Nat, request_nonce : Nat,
     requests : RequestTable, confirmations : ConfirmationTable,
     num_requests_pk : [Candidates -> Nat], active_requests_limit : Nat]

OpenOf(c, m) == {i \in DOMAIN c.requests : c.requests[i].member = m}

(* A state of the contract, between methods and while a request executes,   *)
(* whose tables, counters and members agree.                                *)
Consistent(c) ==
    /\ c \in Contract
    /\ DOMAIN c.requests \subseteq 0 .. (c.request_nonce - 1)
    /\ DOMAIN c.confirmations = DOMAIN c.requests
    /\ \A i \in DOMAIN c.requests : c.requests[i].member \in c.members
    /\ \A m \in Candidates : c.num_requests_pk[m] = Cardinality(OpenOf(c, m))

(* d is c without all requests of some members. *)
Reduced(c, d) ==
    /\ d.request_nonce = c.request_nonce
    /\ DOMAIN d.requests \subseteq DOMAIN c.requests
    /\ \A i \in DOMAIN d.requests : d.requests[i] = c.requests[i]
    /\ \A i \in DOMAIN c.requests \ DOMAIN d.requests :
        \A j \in DOMAIN d.requests : d.requests[j].member # c.requests[i].member

(* The inductive invariant. *)
IInv ==
    /\ Consistent(multisig)
    /\ now \in Nat
    /\ executed \subseteq 0 .. (multisig.request_nonce - 1)
    /\ executed \cap Open = {}

----------------------------------------------------------------------------
(* Tables. *)

(* A table without some of its ids. *)
LEMMA TableWithout ==
    ASSUME NEW f \in RequestTable \cup ConfirmationTable, NEW S
    PROVE  /\ DOMAIN Without(f, S) = DOMAIN f \ S
           /\ \A i \in DOMAIN f \ S : Without(f, S)[i] = f[i]
           /\ f \in RequestTable => Without(f, S) \in RequestTable
           /\ f \in ConfirmationTable => Without(f, S) \in ConfirmationTable
<1>1. /\ DOMAIN Without(f, S) = DOMAIN f \ S
      /\ \A i \in DOMAIN f \ S : Without(f, S)[i] = f[i]
  BY DEF Without
<1>2. ASSUME f \in RequestTable PROVE Without(f, S) \in RequestTable
  <2>1. PICK T \in SUBSET Nat : f \in [T -> RequestRecord] BY <1>2 DEF RequestTable
  <2>2. Without(f, S) \in [T \ S -> RequestRecord] BY <2>1 DEF Without
  <2>3. T \ S \in SUBSET Nat OBVIOUS
  <2> QED BY <2>2, <2>3 DEF RequestTable
<1>3. ASSUME f \in ConfirmationTable PROVE Without(f, S) \in ConfirmationTable
  <2>1. PICK T \in SUBSET Nat : f \in [T -> SUBSET Candidates] BY <1>3 DEF ConfirmationTable
  <2>2. Without(f, S) \in [T \ S -> SUBSET Candidates] BY <2>1 DEF Without
  <2>3. T \ S \in SUBSET Nat OBVIOUS
  <2> QED BY <2>2, <2>3 DEF ConfirmationTable
<1> QED BY <1>1, <1>2, <1>3

(* What is in the tables of a contract. *)
LEMMA Entries ==
    ASSUME NEW c \in Contract
    PROVE  /\ c.requests \in RequestTable /\ c.confirmations \in ConfirmationTable
           /\ DOMAIN c.requests \subseteq Nat /\ DOMAIN c.confirmations \subseteq Nat
           /\ \A i \in DOMAIN c.requests : c.requests[i] \in RequestRecord
           /\ \A i \in DOMAIN c.confirmations : c.confirmations[i] \in SUBSET Candidates
<1>1. c.requests \in RequestTable /\ c.confirmations \in ConfirmationTable BY DEF Contract
<1>2. PICK S \in SUBSET Nat : c.requests \in [S -> RequestRecord] BY <1>1 DEF RequestTable
<1>3. PICK T \in SUBSET Nat : c.confirmations \in [T -> SUBSET Candidates]
  BY <1>1 DEF ConfirmationTable
<1> QED BY <1>1, <1>2, <1>3

(* The open requests of a member are finitely many. *)
LEMMA OpenIsFinite ==
    ASSUME NEW c, Consistent(c), NEW m
    PROVE  IsFiniteSet(OpenOf(c, m)) /\ Cardinality(OpenOf(c, m)) \in Nat
<1>1. OpenOf(c, m) \subseteq 0 .. (c.request_nonce - 1) BY DEF OpenOf, Consistent
<1>2. c.request_nonce - 1 \in Int BY DEF Consistent, Contract
<1>3. IsFiniteSet(0 .. (c.request_nonce - 1)) BY <1>2, FS_Interval
<1> QED BY <1>1, <1>3, FS_Subset, FS_CardinalityType

----------------------------------------------------------------------------
(* The helper methods. *)

(* The counter of a request's author goes down by one with the request.     *)
LEMMA RemoveRequest ==
    ASSUME NEW c, Consistent(c), NEW id \in DOMAIN c.requests,
           NEW d, d = remove_request(c, id)
    PROVE  /\ Consistent(d)
           /\ d.request_nonce = c.request_nonce
           /\ DOMAIN d.requests = DOMAIN c.requests \ {id}
           /\ \A i \in DOMAIN d.requests : d.requests[i] = c.requests[i]
<1> DEFINE a == c.requests[id].member
           n == c.num_requests_pk[a]
           pk == [c.num_requests_pk EXCEPT ![a] = IF n > 0 THEN n - 1 ELSE 0]
<1>1. /\ c \in Contract /\ a \in Candidates /\ a \in c.members
      /\ c.num_requests_pk \in [Candidates -> Nat]
      /\ DOMAIN c.requests \subseteq 0 .. (c.request_nonce - 1)
      /\ DOMAIN c.confirmations = DOMAIN c.requests
      /\ \A i \in DOMAIN c.requests : c.requests[i].member \in c.members
      /\ \A m \in Candidates : c.num_requests_pk[m] = Cardinality(OpenOf(c, m))
  BY Entries DEF Consistent, Contract, RequestRecord
<1>2. d = [c EXCEPT !.confirmations = Without(c.confirmations, {id}),
                    !.requests = Without(c.requests, {id}),
                    !.num_requests_pk = pk]
  BY <1>1 DEF remove_request, Contract
<1>3. /\ c.requests \in RequestTable /\ c.confirmations \in ConfirmationTable
  BY <1>1, Entries
<1>4. pk \in [Candidates -> Nat] BY <1>1
<1> HIDE DEF pk
<1>5. /\ Without(c.requests, {id}) \in RequestTable
      /\ Without(c.confirmations, {id}) \in ConfirmationTable
      /\ DOMAIN Without(c.requests, {id}) = DOMAIN c.requests \ {id}
      /\ DOMAIN Without(c.confirmations, {id}) = DOMAIN c.confirmations \ {id}
      /\ \A i \in DOMAIN c.requests \ {id} : Without(c.requests, {id})[i] = c.requests[i]
  BY <1>3, TableWithout
<1>6. /\ d \in Contract
      /\ d.members = c.members /\ d.request_nonce = c.request_nonce
      /\ d.requests = Without(c.requests, {id})
      /\ d.confirmations = Without(c.confirmations, {id})
      /\ d.num_requests_pk = pk
  BY <1>1, <1>2, <1>4, <1>5 DEF Contract
<1>7. /\ DOMAIN d.requests = DOMAIN c.requests \ {id}
      /\ DOMAIN d.confirmations = DOMAIN c.confirmations \ {id}
      /\ \A i \in DOMAIN d.requests : d.requests[i] = c.requests[i]
  BY <1>5, <1>6
<1>8. ASSUME NEW m \in Candidates PROVE d.num_requests_pk[m] = Cardinality(OpenOf(d, m))
  <2>1. CASE m = a
    <3>1. OpenOf(d, m) = OpenOf(c, m) \ {id} /\ id \in OpenOf(c, m)
      BY <1>7, <2>1 DEF OpenOf
    <3>2. /\ IsFiniteSet(OpenOf(c, m)) /\ Cardinality(OpenOf(c, m)) \in Nat
      BY OpenIsFinite
    <3>3. Cardinality(OpenOf(d, m)) = Cardinality(OpenOf(c, m)) - 1
      BY <3>1, <3>2, FS_RemoveElement
    <3>4. IsFiniteSet(OpenOf(d, m)) /\ Cardinality(OpenOf(d, m)) \in Nat
      BY <3>1, <3>2, FS_Subset, FS_CardinalityType
    <3>5. n = Cardinality(OpenOf(c, m)) BY <1>1, <2>1
    <3>6. n > 0 BY <3>2, <3>3, <3>4, <3>5
    <3>7. pk[m] = n - 1 BY <1>1, <2>1, <3>6 DEF pk
    <3> QED BY <1>6, <3>3, <3>5, <3>7
  <2>2. CASE m # a
    <3>1. OpenOf(d, m) = OpenOf(c, m) BY <1>7, <2>2 DEF OpenOf
    <3>2. pk[m] = c.num_requests_pk[m] BY <1>1, <2>2 DEF pk
    <3> QED BY <1>1, <1>6, <3>1, <3>2
  <2> QED BY <2>1, <2>2
<1>9. Consistent(d) BY <1>1, <1>6, <1>7, <1>8 DEF Consistent
<1> QED BY <1>6, <1>7, <1>9

(* A member's requests go with the member; the others are left alone.       *)
LEMMA DeleteMember ==
    ASSUME NEW c, Consistent(c), NEW m \in Candidates, NEW d, d = delete_member(c, m)
    PROVE  Consistent(d) /\ Reduced(c, d)
<1> DEFINE ids == {i \in DOMAIN c.requests : c.requests[i].member = m}
           pk == [c.num_requests_pk EXCEPT ![m] = 0]
<1>1. /\ c \in Contract
      /\ c.num_requests_pk \in [Candidates -> Nat]
      /\ c.members \in SUBSET Candidates
      /\ DOMAIN c.requests \subseteq 0 .. (c.request_nonce - 1)
      /\ DOMAIN c.confirmations = DOMAIN c.requests
      /\ \A i \in DOMAIN c.requests : c.requests[i].member \in c.members
      /\ \A x \in Candidates : c.num_requests_pk[x] = Cardinality(OpenOf(c, x))
  BY DEF Consistent, Contract
<1>2. d = [c EXCEPT !.confirmations = Without(c.confirmations, ids),
                    !.requests = Without(c.requests, ids),
                    !.num_requests_pk = pk,
                    !.members = c.members \ {m}]
  BY <1>1 DEF delete_member, Contract
<1>3. /\ c.requests \in RequestTable /\ c.confirmations \in ConfirmationTable
  BY <1>1, Entries
<1>4. pk \in [Candidates -> Nat] /\ c.members \ {m} \in SUBSET Candidates BY <1>1
<1> HIDE DEF pk, ids
<1>5. /\ Without(c.requests, ids) \in RequestTable
      /\ Without(c.confirmations, ids) \in ConfirmationTable
      /\ DOMAIN Without(c.requests, ids) = DOMAIN c.requests \ ids
      /\ DOMAIN Without(c.confirmations, ids) = DOMAIN c.confirmations \ ids
      /\ \A i \in DOMAIN c.requests \ ids : Without(c.requests, ids)[i] = c.requests[i]
  BY <1>3, TableWithout
<1>6. /\ d \in Contract
      /\ d.members = c.members \ {m} /\ d.request_nonce = c.request_nonce
      /\ d.requests = Without(c.requests, ids)
      /\ d.confirmations = Without(c.confirmations, ids)
      /\ d.num_requests_pk = pk
  BY <1>1, <1>2, <1>4, <1>5 DEF Contract
<1>7. /\ DOMAIN d.requests = DOMAIN c.requests \ ids
      /\ DOMAIN d.confirmations = DOMAIN c.confirmations \ ids
      /\ \A i \in DOMAIN d.requests : d.requests[i] = c.requests[i]
  BY <1>5, <1>6
<1>8. ASSUME NEW x \in Candidates PROVE d.num_requests_pk[x] = Cardinality(OpenOf(d, x))
  <2>1. CASE x = m
    <3>1. OpenOf(d, x) = {} BY <1>7, <2>1 DEF OpenOf, ids
    <3>2. pk[x] = 0 BY <1>1, <2>1 DEF pk
    <3> QED BY <1>6, <3>1, <3>2, FS_EmptySet
  <2>2. CASE x # m
    <3>1. OpenOf(d, x) = OpenOf(c, x) BY <1>7, <2>2 DEF OpenOf, ids
    <3>2. pk[x] = c.num_requests_pk[x] BY <1>1, <2>2 DEF pk
    <3> QED BY <1>1, <1>6, <3>1, <3>2
  <2> QED BY <2>1, <2>2
<1>9. \A i \in DOMAIN d.requests : d.requests[i].member \in d.members
  BY <1>1, <1>6, <1>7 DEF ids
<1>10. Consistent(d) BY <1>1, <1>6, <1>7, <1>8, <1>9 DEF Consistent
<1>11. Reduced(c, d) BY <1>6, <1>7 DEF Reduced, ids
<1> QED BY <1>10, <1>11

(* Reduced is a preorder. *)
LEMMA ReducedTwice ==
    ASSUME NEW b, NEW c, NEW d, Reduced(b, c), Reduced(c, d)
    PROVE  Reduced(b, d)
<1>1. ASSUME NEW i \in DOMAIN b.requests \ DOMAIN d.requests, NEW j \in DOMAIN d.requests
      PROVE  d.requests[j].member # b.requests[i].member
  <2>1. j \in DOMAIN c.requests /\ d.requests[j] = c.requests[j] BY DEF Reduced
  <2>2. CASE i \in DOMAIN c.requests
    <3>1. c.requests[i] = b.requests[i] BY <2>2 DEF Reduced
    <3>2. d.requests[j].member # c.requests[i].member BY <2>2 DEF Reduced
    <3> QED BY <3>1, <3>2
  <2>3. CASE i \notin DOMAIN c.requests
    <3>1. c.requests[j].member # b.requests[i].member BY <2>1, <2>3 DEF Reduced
    <3> QED BY <2>1, <3>1
  <2> QED BY <2>2, <2>3
<1>2. \A i \in DOMAIN d.requests : d.requests[i] = b.requests[i] BY DEF Reduced
<1>3. d.request_nonce = b.request_nonce /\ DOMAIN d.requests \subseteq DOMAIN b.requests
  BY DEF Reduced
<1> QED BY <1>1, <1>2, <1>3 DEF Reduced

(* A field that neither the tables nor the counters depend on. *)
LEMMA SameTables ==
    ASSUME NEW c, Consistent(c), NEW d, d \in Contract,
           d.requests = c.requests, d.confirmations = c.confirmations,
           d.num_requests_pk = c.num_requests_pk, d.request_nonce = c.request_nonce,
           c.members \subseteq d.members
    PROVE  Consistent(d) /\ Reduced(c, d)
<1>1. \A m : OpenOf(d, m) = OpenOf(c, m) BY DEF OpenOf
<1>2. \A m \in Candidates : d.num_requests_pk[m] = Cardinality(OpenOf(d, m))
  BY <1>1 DEF Consistent
<1>3. Consistent(d) BY <1>2 DEF Consistent
<1> QED BY <1>3 DEF Reduced

(* One action of a request, whatever its type. *)
LEMMA ActionKeeps ==
    ASSUME NEW c, Consistent(c), NEW a \in MultiSigRequestAction
    PROVE  Consistent(ActionEffect(c, a)) /\ Reduced(c, ActionEffect(c, a))
<1> DEFINE d == ActionEffect(c, a)
<1>1. /\ c \in Contract /\ a.member \in Candidates /\ a.number \in Nat
      /\ c.members \in SUBSET Candidates
  BY DEF Consistent, Contract, MultiSigRequestAction
<1>2. CASE a.type = "AddMember"
  <2>1. d = [c EXCEPT !.members = c.members \cup {a.member}]
    BY <1>1, <1>2 DEF ActionEffect, add_member, Contract
  <2>2. c.members \cup {a.member} \in SUBSET Candidates BY <1>1
  <2> HIDE DEF d
  <2>3. /\ d \in Contract /\ d.requests = c.requests /\ d.confirmations = c.confirmations
        /\ d.num_requests_pk = c.num_requests_pk /\ d.request_nonce = c.request_nonce
        /\ d.members = c.members \cup {a.member}
    BY <1>1, <2>1, <2>2 DEF Contract
  <2>4. c.members \subseteq d.members BY <2>3
  <2>5. Consistent(d) /\ Reduced(c, d) BY <2>3, <2>4, SameTables
  <2> QED BY <2>5 DEF d
<1>3. CASE a.type = "DeleteMember"
  <2>1. d = delete_member(c, a.member) BY <1>3 DEF ActionEffect
  <2> QED BY <1>1, <2>1, DeleteMember
<1>4. CASE a.type = "SetNumConfirmations"
  <2>1. d = [c EXCEPT !.num_confirmations = a.number] BY <1>4 DEF ActionEffect
  <2> HIDE DEF d
  <2>2. /\ d \in Contract /\ d.requests = c.requests /\ d.confirmations = c.confirmations
        /\ d.num_requests_pk = c.num_requests_pk /\ d.request_nonce = c.request_nonce
        /\ d.members = c.members
    BY <1>1, <2>1 DEF Contract
  <2>3. Consistent(d) /\ Reduced(c, d) BY <2>2, SameTables
  <2> QED BY <2>3 DEF d
<1>5. CASE a.type = "SetActiveRequestsLimit"
  <2>1. d = [c EXCEPT !.active_requests_limit = a.number] BY <1>5 DEF ActionEffect
  <2> HIDE DEF d
  <2>2. /\ d \in Contract /\ d.requests = c.requests /\ d.confirmations = c.confirmations
        /\ d.num_requests_pk = c.num_requests_pk /\ d.request_nonce = c.request_nonce
        /\ d.members = c.members
    BY <1>1, <2>1 DEF Contract
  <2>3. Consistent(d) /\ Reduced(c, d) BY <2>2, SameTables
  <2> QED BY <2>3 DEF d
<1>6. CASE a.type \in {"Promise", "AddKey"}
  <2>1. d = c BY <1>6 DEF ActionEffect
  <2>2. Reduced(c, c) BY DEF Reduced
  <2> QED BY <2>1, <2>2
<1>7. a.type \in {"Promise", "AddKey", "AddMember", "DeleteMember", "SetNumConfirmations",
                  "SetActiveRequestsLimit"}
  BY DEF MultiSigRequestAction
<1> QED BY <1>2, <1>3, <1>4, <1>5, <1>6, <1>7

----------------------------------------------------------------------------
(* What a request's actions do, one after the other. *)

NextState(c, request, g, n) ==
    IF n = 0 THEN [ok |-> TRUE, state |-> c]
    ELSE LET before == g[n - 1]
         IN  [ok |-> before.ok /\ ActionAllowed(before.state, request, request.actions[n]),
              state |-> ActionEffect(before.state, request.actions[n])]

IsExecution(g, c, request) ==
    g = [n \in 0 .. Len(request.actions) |-> NextState(c, request, g, n)]

LEMMA ExecutionUnfolded ==
    ASSUME NEW c, NEW request
    PROVE  Execution(c, request) = CHOOSE g : IsExecution(g, c, request)
BY DEF Execution, IsExecution, NextState

(* There is a function that satisfies the recursive definition. *)
LEMMA ExecutionExists ==
    ASSUME NEW c, NEW request, Len(request.actions) \in Nat
    PROVE  \E g : IsExecution(g, c, request)
<1> DEFINE L == Len(request.actions)
           UpTo(g, n) == \A k \in 0 .. L : k <= n => g[k] = NextState(c, request, g, k)
           N == {n \in Nat : \E g : g = [k \in 0 .. L |-> g[k]] /\ UpTo(g, n)}
<1>1. 0 \in N
  <2> DEFINE g0 == [k \in 0 .. L |-> [ok |-> TRUE, state |-> c]]
  <2>1. g0 = [k \in 0 .. L |-> g0[k]] OBVIOUS
  <2>2. \A k \in 0 .. L : k <= 0 => k = 0 OBVIOUS
  <2>3. UpTo(g0, 0) BY <2>2 DEF NextState
  <2> QED BY <2>1, <2>3
<1>2. ASSUME NEW n \in Nat, n \in N PROVE n + 1 \in N
  <2>1. PICK g : g = [k \in 0 .. L |-> g[k]] /\ UpTo(g, n) BY <1>2
  <2> DEFINE h == [k \in 0 .. L |-> NextState(c, request, g, k)]
  <2>2. h = [k \in 0 .. L |-> h[k]] OBVIOUS
  <2>3. \A k \in 0 .. L : k <= n => h[k] = g[k] BY <2>1
  <2>4. ASSUME NEW k \in 0 .. L, k <= n + 1 PROVE h[k] = NextState(c, request, h, k)
    <3>1. h[k] = NextState(c, request, g, k) OBVIOUS
    <3>2. CASE k = 0 BY <3>1, <3>2 DEF NextState
    <3>3. CASE k # 0
      <4>1. k - 1 \in 0 .. L /\ k - 1 <= n BY <2>4, <3>3
      <4>2. h[k - 1] = g[k - 1] BY <2>3, <4>1
      <4> QED BY <3>1, <3>3, <4>2 DEF NextState
    <3> QED BY <3>2, <3>3
  <2>5. UpTo(h, n + 1) BY <2>4
  <2>6. \E f : f = [k \in 0 .. L |-> f[k]] /\ UpTo(f, n + 1)
    <3> HIDE DEF UpTo, h
    <3> QED BY <2>2, <2>5
  <2>7. n + 1 \in Nat OBVIOUS
  <2> HIDE DEF UpTo
  <2> QED BY <2>6, <2>7
<1>3. L \in N
  <2> HIDE DEF N
  <2> QED BY <1>1, <1>2, InductionOnNat
<1>4. PICK g : g = [k \in 0 .. L |-> g[k]] /\ UpTo(g, L) BY <1>3
<1>5. \A k \in 0 .. L : g[k] = NextState(c, request, g, k) BY <1>4
<1>6. IsExecution(g, c, request) BY <1>4, <1>5 DEF IsExecution
<1> QED BY <1>6

LEMMA ExecutionSteps ==
    ASSUME NEW c, NEW request, Len(request.actions) \in Nat,
           NEW n \in 0 .. Len(request.actions)
    PROVE  Execution(c, request)[n] = NextState(c, request, Execution(c, request), n)
<1>1. IsExecution(Execution(c, request), c, request)
  BY ExecutionExists, ExecutionUnfolded
<1> QED BY <1>1 DEF IsExecution

(* Whatever the actions are, the contract stays consistent, and only all    *)
(* requests of some members disappear.                                      *)
LEMMA ExecutionKeeps ==
    ASSUME NEW c, Consistent(c), NEW request \in MultiSigRequest
    PROVE  LET d == execute_request(c, request).state IN Consistent(d) /\ Reduced(c, d)
<1> DEFINE L == Len(request.actions)
           S(n) == Execution(c, request)[n].state
           N == {n \in Nat : n <= L => Consistent(S(n)) /\ Reduced(c, S(n))}
<1>1. /\ request.actions \in Seq(MultiSigRequestAction)
      /\ L \in Nat
      /\ \A n \in 1 .. L : request.actions[n] \in MultiSigRequestAction
  BY DEF MultiSigRequest
<1>2. \A n \in 0 .. L :
        Execution(c, request)[n] = NextState(c, request, Execution(c, request), n)
  BY <1>1, ExecutionSteps
<1>3. S(0) = c
  <2>1. 0 \in 0 .. L BY <1>1
  <2>2. Execution(c, request)[0] = NextState(c, request, Execution(c, request), 0)
    BY <1>2, <2>1
  <2>3. NextState(c, request, Execution(c, request), 0) = [ok |-> TRUE, state |-> c]
    BY DEF NextState
  <2> QED BY <2>2, <2>3
<1>4. 0 \in N
  <2>1. Reduced(c, c) BY DEF Reduced
  <2>2. Consistent(S(0)) /\ Reduced(c, S(0)) BY <1>3, <2>1
  <2> HIDE DEF S
  <2> QED BY <2>2
<1>5. ASSUME NEW n \in Nat, n \in N PROVE n + 1 \in N
  <2> SUFFICES ASSUME n + 1 <= L PROVE Consistent(S(n + 1)) /\ Reduced(c, S(n + 1))
    OBVIOUS
  <2>1. n + 1 \in 0 .. L /\ n + 1 \in 1 .. L /\ n + 1 # 0 /\ (n + 1) - 1 = n /\ n <= L
    BY <1>1
  <2>2. S(n + 1) = ActionEffect(S(n), request.actions[n + 1])
    <3> DEFINE E == Execution(c, request)
    <3>1. E[n + 1] = NextState(c, request, E, n + 1) BY <1>2, <2>1
    <3>2. NextState(c, request, E, n + 1).state = ActionEffect(E[n].state, request.actions[n + 1])
      <4> HIDE DEF E
      <4> QED BY <2>1 DEF NextState
    <3> QED BY <3>1, <3>2
  <2>3. Consistent(S(n)) /\ Reduced(c, S(n)) BY <1>5, <2>1
  <2>4. request.actions[n + 1] \in MultiSigRequestAction BY <1>1, <2>1
  <2> HIDE DEF S
  <2>5. /\ Consistent(S(n + 1)) /\ Reduced(S(n), S(n + 1)) BY <2>2, <2>3, <2>4, ActionKeeps
  <2> QED BY <2>3, <2>5, ReducedTwice
<1>6. L \in N
  <2> HIDE DEF N
  <2> QED BY <1>1, <1>4, <1>5, InductionOnNat
<1>7. Consistent(S(L)) /\ Reduced(c, S(L)) BY <1>1, <1>6
<1> QED BY <1>7 DEF execute_request

----------------------------------------------------------------------------
(* The contract's methods. *)

(* A request takes a new id and counts for its author.                      *)
LEMMA AddRequest ==
    ASSUME Consistent(multisig), now \in Nat, NEW m \in multisig.members,
           NEW request \in MultiSigRequest, NEW d, d = WithRequest(m, request)
    PROVE  /\ Consistent(d)
           /\ d.request_nonce = multisig.request_nonce + 1
           /\ DOMAIN d.requests = Open \cup {multisig.request_nonce}
           /\ multisig.request_nonce \notin Open
           /\ \A i \in Open : d.requests[i] = multisig.requests[i]
           /\ d.requests[multisig.request_nonce].request = request
<1> DEFINE c == multisig
           id == c.request_nonce
           added == [request |-> request, member |-> m, added_timestamp |-> now]
           pk == [c.num_requests_pk EXCEPT ![m] = c.num_requests_pk[m] + 1]
           R == [i \in DOMAIN c.requests \cup {id} |-> IF i = id THEN added ELSE c.requests[i]]
           C == [i \in DOMAIN c.confirmations \cup {id} |->
                    IF i = id THEN {} ELSE c.confirmations[i]]
<1>1. /\ c \in Contract /\ m \in Candidates /\ id \in Nat
      /\ c.members \in SUBSET Candidates
      /\ c.num_requests_pk \in [Candidates -> Nat]
      /\ DOMAIN c.requests \subseteq 0 .. (id - 1)
      /\ DOMAIN c.confirmations = DOMAIN c.requests
      /\ \A i \in DOMAIN c.requests : c.requests[i].member \in c.members
      /\ \A x \in Candidates : c.num_requests_pk[x] = Cardinality(OpenOf(c, x))
  BY DEF Consistent, Contract
<1>2. /\ DOMAIN c.requests \subseteq Nat
      /\ \A i \in DOMAIN c.requests : c.requests[i] \in RequestRecord
      /\ \A i \in DOMAIN c.confirmations : c.confirmations[i] \in SUBSET Candidates
  BY <1>1, Entries
<1>3. id \notin DOMAIN c.requests BY <1>1
<1>4. added \in RequestRecord /\ added.member = m /\ added.request = request
  BY <1>1 DEF RequestRecord
<1>5. R \in RequestTable
  <2>1. DOMAIN c.requests \cup {id} \in SUBSET Nat BY <1>1, <1>2
  <2>2. R \in [DOMAIN c.requests \cup {id} -> RequestRecord]
    <3> HIDE DEF added
    <3> QED BY <1>2, <1>4
  <2> QED BY <2>1, <2>2 DEF RequestTable
<1>6. C \in ConfirmationTable
  <2>1. DOMAIN c.confirmations \cup {id} \in SUBSET Nat BY <1>1, <1>2
  <2>2. C \in [DOMAIN c.confirmations \cup {id} -> SUBSET Candidates] BY <1>2
  <2> QED BY <2>1, <2>2 DEF ConfirmationTable
<1>7. /\ DOMAIN R = DOMAIN c.requests \cup {id} /\ DOMAIN C = DOMAIN R
      /\ \A i \in DOMAIN c.requests : R[i] = c.requests[i]
      /\ R[id].member = m /\ R[id].request = request
  <2> HIDE DEF added
  <2> QED BY <1>1, <1>3, <1>4
<1>8. pk \in [Candidates -> Nat] /\ id + 1 \in Nat BY <1>1
<1>9. d = [c EXCEPT !.num_requests_pk = pk, !.requests = R, !.confirmations = C,
                    !.request_nonce = id + 1]
  BY <1>1 DEF WithRequest, Contract
<1> HIDE DEF R, C, pk, added
<1>10. /\ d \in Contract
       /\ d.members = c.members /\ d.request_nonce = id + 1
       /\ d.requests = R /\ d.confirmations = C /\ d.num_requests_pk = pk
  BY <1>1, <1>5, <1>6, <1>8, <1>9 DEF Contract
<1>11. ASSUME NEW x \in Candidates PROVE d.num_requests_pk[x] = Cardinality(OpenOf(d, x))
  <2>1. CASE x = m
    <3>1. OpenOf(d, x) = OpenOf(c, x) \cup {id} /\ id \notin OpenOf(c, x)
      BY <1>3, <1>7, <1>10, <2>1 DEF OpenOf
    <3>2. IsFiniteSet(OpenOf(c, x)) /\ Cardinality(OpenOf(c, x)) \in Nat
      BY OpenIsFinite
    <3>3. Cardinality(OpenOf(d, x)) = Cardinality(OpenOf(c, x)) + 1
      BY <3>1, <3>2, FS_AddElement
    <3>4. pk[x] = c.num_requests_pk[x] + 1 BY <1>1, <2>1 DEF pk
    <3> QED BY <1>1, <1>10, <3>3, <3>4
  <2>2. CASE x # m
    <3>1. OpenOf(d, x) = OpenOf(c, x) BY <1>3, <1>7, <1>10, <2>2 DEF OpenOf
    <3>2. pk[x] = c.num_requests_pk[x] BY <1>1, <2>2 DEF pk
    <3> QED BY <1>1, <1>10, <3>1, <3>2
  <2> QED BY <2>1, <2>2
<1>12. DOMAIN d.requests \subseteq 0 .. (d.request_nonce - 1) BY <1>1, <1>7, <1>10
<1>13. \A i \in DOMAIN d.requests : d.requests[i].member \in d.members
  BY <1>1, <1>7, <1>10
<1>14. Consistent(d) BY <1>7, <1>10, <1>11, <1>12, <1>13 DEF Consistent
<1> QED BY <1>3, <1>7, <1>10, <1>14 DEF Open

(* A confirmation only adds the member's name, or executes the request.     *)
LEMMA Confirmed ==
    ASSUME NEW c, Consistent(c), NEW m \in Candidates, NEW id \in DOMAIN c.requests,
           Confirm(c, m, id)
    PROVE  /\ Consistent(multisig')
           /\ multisig'.request_nonce = c.request_nonce
           /\ DOMAIN multisig'.requests \subseteq DOMAIN c.requests
           /\ \/ executed' = executed /\ multisig'.requests = c.requests
              \/ /\ executed' = executed \cup {id}
                 /\ id \notin DOMAIN multisig'.requests
                 /\ \A i \in DOMAIN c.requests \ {id} :
                        i \notin DOMAIN multisig'.requests =>
                            \A j \in DOMAIN multisig'.requests :
                                multisig'.requests[j].member # c.requests[i].member
<1>1. /\ c \in Contract /\ c.confirmations \in ConfirmationTable
      /\ DOMAIN c.confirmations = DOMAIN c.requests
      /\ c.requests[id].request \in MultiSigRequest
  BY Entries DEF Consistent, RequestRecord
<1>2. CASE Cardinality(c.confirmations[id]) + 1 >= c.num_confirmations
  <2> DEFINE r == remove_request(c, id)
             d == execute_request(r, c.requests[id].request).state
  <2>1. multisig' = d /\ executed' = executed \cup {id} BY <1>2 DEF Confirm
  <2>2. /\ Consistent(r) /\ r.request_nonce = c.request_nonce
        /\ DOMAIN r.requests = DOMAIN c.requests \ {id}
        /\ \A i \in DOMAIN r.requests : r.requests[i] = c.requests[i]
    BY RemoveRequest
  <2> HIDE DEF r
  <2>3. Consistent(d) /\ Reduced(r, d) BY <1>1, <2>2, ExecutionKeeps
  <2> HIDE DEF d
  <2>4. /\ d.request_nonce = c.request_nonce
        /\ DOMAIN d.requests \subseteq DOMAIN c.requests \ {id}
    BY <2>2, <2>3 DEF Reduced
  <2>5. ASSUME NEW i \in DOMAIN c.requests \ {id}, i \notin DOMAIN d.requests,
               NEW j \in DOMAIN d.requests
        PROVE  d.requests[j].member # c.requests[i].member
    <3>1. i \in DOMAIN r.requests \ DOMAIN d.requests BY <2>2, <2>5
    <3>2. d.requests[j].member # r.requests[i].member BY <2>3, <3>1 DEF Reduced
    <3> QED BY <2>2, <3>1, <3>2
  <2> QED BY <2>1, <2>3, <2>4, <2>5
<1>3. CASE ~(Cardinality(c.confirmations[id]) + 1 >= c.num_confirmations)
  <2> DEFINE C == [c.confirmations EXCEPT ![id] = c.confirmations[id] \cup {m}]
  <2>1. multisig' = [c EXCEPT !.confirmations = C] /\ executed' = executed
    BY <1>1, <1>3 DEF Confirm, Contract
  <2>2. C \in ConfirmationTable /\ DOMAIN C = DOMAIN c.confirmations
    <3>1. PICK T \in SUBSET Nat : c.confirmations \in [T -> SUBSET Candidates]
      BY <1>1 DEF ConfirmationTable
    <3>2. C \in [T -> SUBSET Candidates] BY <1>1, <3>1
    <3> QED BY <3>1, <3>2 DEF ConfirmationTable
  <2> HIDE DEF C
  <2>3. /\ multisig' \in Contract
        /\ multisig'.requests = c.requests /\ multisig'.confirmations = C
        /\ multisig'.members = c.members /\ multisig'.request_nonce = c.request_nonce
        /\ multisig'.num_requests_pk = c.num_requests_pk
    BY <1>1, <2>1, <2>2 DEF Contract
  <2>4. \A x : OpenOf(multisig', x) = OpenOf(c, x) BY <2>3 DEF OpenOf
  <2>5. Consistent(multisig') BY <2>2, <2>3, <2>4 DEF Consistent
  <2> QED BY <2>1, <2>3, <2>5
<1> QED BY <1>2, <1>3

(* An open request that is gone ends as RequestsEndProperly says. *)
EndsProperly(id) ==
    \/ id \in executed'
    \/ now > multisig.requests[id].added_timestamp + Cooldown
    \/ /\ executed' # executed
       /\ \A j \in DOMAIN multisig'.requests :
            multisig'.requests[j].member # multisig.requests[id].member

----------------------------------------------------------------------------
(* The steps. *)

LEMMA InitIInv == Init => IInv
<1> SUFFICES ASSUME Init PROVE IInv OBVIOUS
<1>1. PICK list \in InitialMemberLists, k \in InitialConfirmations :
        multisig = [members |-> ToSet(list), num_confirmations |-> k,
                    request_nonce |-> 0, requests |-> <<>>, confirmations |-> <<>>,
                    num_requests_pk |-> [m \in Candidates |-> 0],
                    active_requests_limit |-> InitialLimit]
  BY DEF Init
<1>2. now = 0 /\ executed = {} BY DEF Init
<1>3. ToSet(list) \in SUBSET Candidates
  <2>1. list \in Seq(Candidates) BY MembersAssumption
  <2> QED BY <2>1 DEF ToSet
<1>4. <<>> \in RequestTable /\ <<>> \in ConfirmationTable /\ DOMAIN <<>> = {}
  <2>1. DOMAIN <<>> = {} OBVIOUS
  <2>2. <<>> \in [{} -> RequestRecord] /\ <<>> \in [{} -> SUBSET Candidates] OBVIOUS
  <2>3. {} \in SUBSET Nat OBVIOUS
  <2> QED BY <2>1, <2>2, <2>3 DEF RequestTable, ConfirmationTable
<1>5. [m \in Candidates |-> 0] \in [Candidates -> Nat] OBVIOUS
<1>6. k \in Nat /\ InitialLimit \in Nat BY NumbersAssumption
<1>7. multisig \in Contract BY <1>1, <1>3, <1>4, <1>5, <1>6 DEF Contract
<1>8. /\ DOMAIN multisig.requests = {} /\ DOMAIN multisig.confirmations = {}
      /\ multisig.num_requests_pk = [m \in Candidates |-> 0]
  BY <1>1, <1>4
<1>9. ASSUME NEW m \in Candidates
      PROVE  multisig.num_requests_pk[m] = Cardinality(OpenOf(multisig, m))
  <2>1. OpenOf(multisig, m) = {} BY <1>8 DEF OpenOf
  <2> QED BY <1>8, <2>1, FS_EmptySet
<1>10. Consistent(multisig) BY <1>7, <1>8, <1>9 DEF Consistent
<1> QED BY <1>2, <1>8, <1>10 DEF IInv, Open

LEMMA StepIInv ==
    ASSUME IInv, [Next]_vars
    PROVE  IInv' /\ \A i \in Open \ DOMAIN multisig'.requests : EndsProperly(i)
<1> USE DEF Open
<1>1. /\ Consistent(multisig) /\ now \in Nat /\ multisig.request_nonce \in Nat
      /\ executed \subseteq 0 .. (multisig.request_nonce - 1)
      /\ executed \cap Open = {}
      /\ multisig.members \subseteq Candidates
      /\ Open \subseteq 0 .. (multisig.request_nonce - 1)
  BY DEF IInv, Consistent, Contract
<1>2. ASSUME NEW m \in Candidates, NEW request \in Requests, add_request(m, request)
      PROVE  IInv' /\ \A i \in Open \ DOMAIN multisig'.requests : EndsProperly(i)
  <2>1. /\ m \in multisig.members /\ request \in MultiSigRequest
        /\ multisig' = WithRequest(m, request)
        /\ now' = now /\ executed' = executed
    BY <1>2, RequestsAssumption DEF add_request, CanAdd
  <2>2. /\ Consistent(multisig')
        /\ multisig'.request_nonce = multisig.request_nonce + 1
        /\ DOMAIN multisig'.requests = Open \cup {multisig.request_nonce}
    BY <1>1, <2>1, AddRequest
  <2>3. executed' \subseteq 0 .. (multisig'.request_nonce - 1) BY <1>1, <2>1, <2>2
  <2>4. executed' \cap DOMAIN multisig'.requests = {} BY <1>1, <2>1, <2>2
  <2>5. IInv' BY <1>1, <2>1, <2>2, <2>3, <2>4 DEF IInv
  <2> QED BY <2>2, <2>5
<1>3. ASSUME NEW m \in Candidates, NEW request \in Requests, add_request_and_confirm(m, request)
      PROVE  IInv' /\ \A i \in Open \ DOMAIN multisig'.requests : EndsProperly(i)
  <2> DEFINE id == multisig.request_nonce
             c == WithRequest(m, request)
  <2>1. /\ m \in multisig.members /\ request \in MultiSigRequest
        /\ Confirm(c, m, id) /\ now' = now
    BY <1>3, RequestsAssumption DEF add_request_and_confirm, CanAdd
  <2>2. /\ Consistent(c) /\ c.request_nonce = id + 1
        /\ DOMAIN c.requests = Open \cup {id} /\ id \notin Open
        /\ \A i \in Open : c.requests[i] = multisig.requests[i]
    BY <1>1, <2>1, AddRequest
  <2> HIDE DEF c
  <2>3. /\ Consistent(multisig') /\ multisig'.request_nonce = id + 1
        /\ DOMAIN multisig'.requests \subseteq Open \cup {id}
        /\ \/ executed' = executed /\ multisig'.requests = c.requests
           \/ /\ executed' = executed \cup {id}
              /\ id \notin DOMAIN multisig'.requests
              /\ \A i \in DOMAIN c.requests \ {id} :
                    i \notin DOMAIN multisig'.requests =>
                        \A j \in DOMAIN multisig'.requests :
                            multisig'.requests[j].member # c.requests[i].member
    BY <2>1, <2>2, Confirmed
  <2>4. id \notin executed BY <1>1
  <2>5. executed' \subseteq 0 .. (multisig'.request_nonce - 1)
    <3>1. \A x \in executed : x \in 0 .. (id - 1) BY <1>1
    <3>2. \A x \in executed' : x \in executed \/ x = id BY <2>3
    <3>3. \A x \in executed' : x \in 0 .. ((id + 1) - 1) BY <1>1, <3>1, <3>2
    <3> QED BY <2>3, <3>3
  <2>6. executed' \cap DOMAIN multisig'.requests = {} BY <1>1, <2>3, <2>4
  <2>7. IInv' BY <1>1, <2>1, <2>3, <2>5, <2>6 DEF IInv
  <2>8. ASSUME NEW i \in Open, i \notin DOMAIN multisig'.requests PROVE EndsProperly(i)
    <3>1. i \in DOMAIN c.requests \ {id} /\ c.requests[i] = multisig.requests[i] BY <2>2
    <3>2. executed' = executed \cup {id} BY <2>3, <2>8, <3>1
    <3>3. executed' # executed BY <2>4, <3>2
    <3>4. \A j \in DOMAIN multisig'.requests :
            multisig'.requests[j].member # multisig.requests[i].member
      BY <2>3, <2>8, <3>1, <3>3
    <3> QED BY <3>3, <3>4 DEF EndsProperly
  <2> QED BY <2>7, <2>8
<1>4. ASSUME NEW m \in Candidates, NEW id \in Ids, confirm(m, id)
      PROVE  IInv' /\ \A i \in Open \ DOMAIN multisig'.requests : EndsProperly(i)
  <2>1. /\ id \in DOMAIN multisig.requests /\ Confirm(multisig, m, id) /\ now' = now
    BY <1>4 DEF confirm, assert_valid_request
  <2>2. /\ Consistent(multisig') /\ multisig'.request_nonce = multisig.request_nonce
        /\ DOMAIN multisig'.requests \subseteq Open
        /\ \/ executed' = executed /\ multisig'.requests = multisig.requests
           \/ /\ executed' = executed \cup {id}
              /\ id \notin DOMAIN multisig'.requests
              /\ \A i \in Open \ {id} :
                    i \notin DOMAIN multisig'.requests =>
                        \A j \in DOMAIN multisig'.requests :
                            multisig'.requests[j].member # multisig.requests[i].member
    BY <1>1, <2>1, Confirmed
  <2>3. id \notin executed /\ id \in Open BY <1>1, <2>1
  <2>4. executed' \subseteq 0 .. (multisig'.request_nonce - 1)
    <3>1. \A x \in executed' : x \in executed \/ x = id BY <2>2
    <3>2. \A x \in executed' : x \in 0 .. (multisig.request_nonce - 1) BY <1>1, <2>3, <3>1
    <3> QED BY <2>2, <3>2
  <2>5. executed' \cap DOMAIN multisig'.requests = {} BY <1>1, <2>2
  <2>6. IInv' BY <1>1, <2>1, <2>2, <2>4, <2>5 DEF IInv
  <2>7. ASSUME NEW i \in Open, i \notin DOMAIN multisig'.requests PROVE EndsProperly(i)
    <3>1. executed' = executed \cup {id} BY <2>2, <2>7
    <3>2. executed' # executed BY <2>3, <3>1
    <3>3. CASE i = id BY <3>1, <3>3 DEF EndsProperly
    <3>4. CASE i # id
      <4>1. \A j \in DOMAIN multisig'.requests :
                multisig'.requests[j].member # multisig.requests[i].member
        BY <2>2, <2>7, <3>2, <3>4
      <4> QED BY <3>2, <4>1 DEF EndsProperly
    <3> QED BY <3>3, <3>4
  <2> QED BY <2>6, <2>7
<1>5. ASSUME NEW m \in Candidates, NEW id \in Ids, delete_request(m, id)
      PROVE  IInv' /\ \A i \in Open \ DOMAIN multisig'.requests : EndsProperly(i)
  <2>1. /\ id \in DOMAIN multisig.requests /\ multisig' = remove_request(multisig, id)
        /\ now > multisig.requests[id].added_timestamp + Cooldown
        /\ now' = now /\ executed' = executed
    BY <1>5 DEF delete_request, assert_valid_request
  <2>2. /\ Consistent(multisig') /\ multisig'.request_nonce = multisig.request_nonce
        /\ DOMAIN multisig'.requests = Open \ {id}
    BY <1>1, <2>1, RemoveRequest
  <2>3. IInv' BY <1>1, <2>1, <2>2 DEF IInv
  <2>4. ASSUME NEW i \in Open, i \notin DOMAIN multisig'.requests PROVE EndsProperly(i)
    <3>1. i = id BY <2>2, <2>4
    <3> QED BY <2>1, <3>1 DEF EndsProperly
  <2> QED BY <2>3, <2>4
<1>6. ASSUME Tick \/ UNCHANGED vars
      PROVE  IInv' /\ \A i \in Open \ DOMAIN multisig'.requests : EndsProperly(i)
  <2>1. multisig' = multisig /\ executed' = executed /\ now' \in Nat
    BY <1>1, <1>6 DEF Tick, vars
  <2> QED BY <1>1, <2>1 DEF IInv
<1> QED BY <1>2, <1>3, <1>4, <1>5, <1>6 DEF Next

LEMMA Invariant == Spec => []IInv
<1>1. ASSUME IInv, [Next]_vars PROVE IInv' BY <1>1, StepIInv
<1> QED BY <1>1, InitIInv, PTL DEF Spec

----------------------------------------------------------------------------
(* The counters of add_request, remove_request and delete_member count the  *)
(* open requests of every member exactly.                                   *)
THEOREM RequestsAreCounted == Spec => []CountsOpenRequests
<1>1. IInv => CountsOpenRequests
  BY DEF IInv, Consistent, CountsOpenRequests, OpenBy, OpenOf, Open
<1> QED BY <1>1, Invariant, PTL

(* After delete_member and confirm, open requests have members for authors  *)
(* and a set of confirmations each, and nothing that was executed is open.  *)
THEOREM OpenRequestsHaveAuthors == Spec => []RequestsBelongToMembers
<1>1. IInv => RequestsBelongToMembers
  BY DEF IInv, Consistent, RequestsBelongToMembers, Open
<1> QED BY <1>1, Invariant, PTL

(* confirm, delete_request and delete_member are the only ends of a request. *)
THEOREM RequestsNeverVanish == Spec => RequestsEndProperly
<1>1. ASSUME IInv, [Next]_vars
      PROVE  [\A id \in Open \ DOMAIN multisig'.requests :
                \/ id \in executed'
                \/ now > multisig.requests[id].added_timestamp + Cooldown
                \/ /\ executed' # executed
                   /\ \A j \in DOMAIN multisig'.requests :
                        multisig'.requests[j].member # multisig.requests[id].member]_vars
  BY <1>1, StepIInv DEF EndsProperly
<1> QED BY <1>1, Invariant, PTL DEF Spec, RequestsEndProperly
=============================================================================
