--------------------------- MODULE MembershipProofs ---------------------------
(***************************************************************************)
(* For any number of users, invitations, join requests and API calls in    *)
(* flight: the types of Membership, that the owner keeps the owner's role, *)
(* that nobody rises above the roles the owner handed out, and that only   *)
(* the owner's calls change a row that exists.                             *)
(***************************************************************************)
EXTENDS Membership, TLAPS

\* What a call in flight has checked and may still rely on at its commit,
\* though rows may have changed since
CallInv(k) ==
    /\ k.op = "invite" => k.id \in Tokens /\ k.to \in Roles /\ (k.by # Owner => Height(k.to) <= top)
    /\ k.op = "accept" => /\ k.user \in Users /\ k.to \in Roles /\ k.seen = Nothing
                          /\ Height(k.to) <= top /\ k.id \in Tokens
    /\ k.op = "ask" => k.user \in Users
    /\ k.op \in {"set", "approve"} => k.by = Owner /\ k.user \in Users /\ k.to \in Roles
    /\ k.op = "remove" => k.by = Owner /\ k.user \in Users

CallsInv == \A c \in Calls : CallInv(call[c])

\* The owner is never among those who ask to join
AskedInv == \A r \in Requests : asked[r] # Owner

\* An open invitation is no higher than what the owner has handed out
InvitedInv == \A t \in Tokens : Height(invited[t]) <= top

\* The inductive invariant
IInv == TypeOK /\ OwnerKeepsRole /\ NoEscalation /\ CallsInv /\ AskedInv /\ InvitedInv

-----------------------------------------------------------------------------
\* Ranks as heights: a role's is from 1 to 4, no row's is 0
LEMMA HeightType ==
    ASSUME NEW r \in Row
    PROVE  Height(r) \in 0..4 /\ (r = Nothing => Height(r) = 0)
<1>1. CASE r = Nothing
  BY <1>1 DEF Height
<1>2. CASE r \in Roles
  BY <1>2, MembershipAssumption DEF Height, RoleRank, Roles
<1> QED BY <1>1, <1>2 DEF Row

\* The highest of two heights is one, and is above both
LEMMA HigherType ==
    ASSUME NEW a \in 0..4, NEW b \in 0..4
    PROVE  Higher(a, b) \in 0..4 /\ a <= Higher(a, b) /\ b <= Higher(a, b)
BY DEF Higher

\* A call that begins leaves the rows alone
LEMMA IdleType == Idle \in CallType /\ Idle.op = "idle"
BY DEF Idle, CallType, Row

\* Init makes the invariant true: create_project wrote the owner's row
LEMMA InitInv == Init => IInv
<1> SUFFICES ASSUME Init PROVE IInv
  OBVIOUS
<1>1. TypeOK
  BY IdleType, MembershipAssumption DEF Init, TypeOK, Row, Roles, People
<1>2. OwnerKeepsRole /\ AskedInv
  BY MembershipAssumption DEF Init, OwnerKeepsRole, AskedInv, People
<1>3. NoEscalation /\ InvitedInv
  BY MembershipAssumption, HeightType DEF Init, NoEscalation, InvitedInv, People, Row
<1>4. CallsInv
  BY IdleType DEF Init, CallsInv, CallInv
<1> QED BY <1>1, <1>2, <1>3, <1>4 DEF IInv

-----------------------------------------------------------------------------
rows == <<role, invited, minted, expired, asked, status, top>>

\* What a call has read is checked against the rows of that moment
LEMMA ReadInv ==
    ASSUME IInv, NEW c \in Calls, NEW k \in CallType, CallInv(k), Begin(c, k), UNCHANGED rows
    PROVE  IInv'
<1>1. TypeOK'
  BY DEF IInv, TypeOK, Begin, rows
<1>2. OwnerKeepsRole' /\ AskedInv'
  BY DEF IInv, OwnerKeepsRole, AskedInv, rows
<1>3. NoEscalation' /\ InvitedInv'
  BY DEF IInv, NoEscalation, InvitedInv, rows
<1>4. CallsInv'
  <2> SUFFICES ASSUME NEW d \in Calls PROVE CallInv(call[d])'
    BY DEF CallsInv
  <2>1. call'[d] = IF d = c THEN k ELSE call[d]
    BY DEF IInv, TypeOK, Begin
  <2>2. CallInv(k)' /\ CallInv(call[d])
    BY DEF IInv, CallsInv, CallInv, rows
  <2> QED BY <2>1, <2>2 DEF CallInv, rows
<1> QED BY <1>1, <1>2, <1>3, <1>4 DEF IInv

\* Every call that reads and checks keeps the invariant
LEMMA ReadStep ==
    ASSUME IInv, NEW c \in Calls, Read(c)
    PROVE  IInv'
<1> USE DEF rows
<1>1. ASSUME NEW u \in People, NEW t \in Tokens, accept_invitation(c, u, t)
      PROVE  IInv'
  <2> DEFINE k == [Idle EXCEPT !.op = "accept", !.by = u, !.user = u, !.to = invited[t], !.id = t,
                               !.seen = role[u]]
  <2>1. invited[t] \in Roles /\ Height(invited[t]) <= top /\ role[u] = Nothing /\ u \in Users
    BY <1>1 DEF accept_invitation, MayAccept, IInv, TypeOK, InvitedInv, Row, People
  <2>2. k \in CallType /\ CallInv(k)
    BY <2>1 DEF Idle, CallType, Row, CallInv, People
  <2> QED BY <1>1, <2>2, ReadInv DEF accept_invitation
<1>2. ASSUME NEW u \in People, NEW t \in Tokens, NEW r \in Offered, create_invitation(c, u, t, r)
      PROVE  IInv'
  <2> DEFINE k == [Idle EXCEPT !.op = "invite", !.by = u, !.to = r, !.id = t]
  <2>1. r \in Roles /\ role[u] \in Row
    BY MembershipAssumption DEF IInv, TypeOK
  <2>2. Height(r) \in 0..4 /\ Height(role[u]) \in 0..4 /\ top \in 0..4
    BY <2>1, HeightType DEF Row, IInv, TypeOK
  <2>3. u # Owner => Height(r) <= top
    BY <1>2, <2>2 DEF create_invitation, MayInvite, IInv, NoEscalation, People
  <2>4. k \in CallType /\ CallInv(k)
    BY <2>1, <2>3 DEF Idle, CallType, Row, CallInv
  <2> QED BY <1>2, <2>4, ReadInv DEF create_invitation
<1>3. ASSUME NEW u \in People, NEW q \in Requests, request_to_join(c, u, q)
      PROVE  IInv'
  <2> DEFINE k == [Idle EXCEPT !.op = "ask", !.by = u, !.user = u, !.id = q]
  <2>1. u \in Users
    BY <1>3, MembershipAssumption DEF request_to_join, IInv, OwnerKeepsRole, People, Roles
  <2>2. k \in CallType /\ CallInv(k)
    BY <2>1 DEF Idle, CallType, Row, CallInv, People
  <2> QED BY <1>3, <2>2, ReadInv DEF request_to_join
<1>4. ASSUME NEW u \in People, NEW r \in Offered,
             add_project_member(c, u, r) \/ update_project_member_role(c, u, r)
      PROVE  IInv'
  <2> DEFINE k == [Idle EXCEPT !.op = "set", !.by = Owner, !.user = u, !.to = r, !.seen = role[u]]
  <2>1. u \in Users /\ r \in Roles /\ role[u] \in Row
    BY <1>4, MembershipAssumption
    DEF add_project_member, update_project_member_role, NotTheOwner, People, IInv, TypeOK
  <2>2. k \in CallType /\ CallInv(k)
    BY <2>1 DEF Idle, CallType, Row, CallInv, People
  <2> QED BY <1>4, <2>2, ReadInv DEF add_project_member, update_project_member_role
<1>5. ASSUME NEW u \in People, remove_project_member(c, u)
      PROVE  IInv'
  <2> DEFINE k == [Idle EXCEPT !.op = "remove", !.by = Owner, !.user = u, !.seen = role[u]]
  <2>1. u \in Users /\ role[u] \in Row
    BY <1>5 DEF remove_project_member, NotTheOwner, People, IInv, TypeOK
  <2>2. k \in CallType /\ CallInv(k)
    BY <2>1 DEF Idle, CallType, Row, CallInv, People
  <2> QED BY <1>5, <2>2, ReadInv DEF remove_project_member
<1>6. ASSUME NEW q \in Requests, reject_join_request(c, q)
      PROVE  IInv'
  <2> DEFINE k == [Idle EXCEPT !.op = "reject", !.by = Owner, !.id = q]
  <2>1. k \in CallType /\ CallInv(k)
    BY DEF Idle, CallType, Row, CallInv, People
  <2> QED BY <1>6, <2>1, ReadInv DEF reject_join_request
<1>7. ASSUME NEW q \in Requests, NEW r \in Offered, approve_join_request(c, q, r)
      PROVE  IInv'
  <2> DEFINE k == [Idle EXCEPT !.op = "approve", !.by = Owner, !.user = asked[q], !.to = r, !.id = q,
                               !.seen = role[asked[q]]]
  <2>1. asked[q] \in Users /\ r \in Roles /\ role[asked[q]] \in Row
    BY <1>7, MembershipAssumption DEF approve_join_request, IInv, AskedInv, TypeOK, People
  <2>2. k \in CallType /\ CallInv(k)
    BY <2>1 DEF Idle, CallType, Row, CallInv, People
  <2> QED BY <1>7, <2>2, ReadInv DEF approve_join_request
<1> QED BY <1>1, <1>2, <1>3, <1>4, <1>5, <1>6, <1>7 DEF Read

-----------------------------------------------------------------------------
\* The other calls in flight stay as they are when one ends and top only rises
LEMMA DoneInv ==
    ASSUME IInv, NEW c \in Calls, Done(c), top' \in 0..4, top <= top'
    PROVE  call' \in [Calls -> CallType] /\ CallsInv'
<1>1. call' \in [Calls -> CallType]
  BY IdleType DEF IInv, TypeOK, Done
<1>2. CallsInv'
  <2> SUFFICES ASSUME NEW d \in Calls PROVE CallInv(call[d])'
    BY DEF CallsInv
  <2>1. call'[d] = IF d = c THEN Idle ELSE call[d]
    BY DEF IInv, TypeOK, Done
  <2>2. CASE d = c
    BY <2>1, <2>2, IdleType DEF CallInv
  <2>3. CASE d # c
    <3>1. call'[d] = call[d] /\ CallInv(call[d]) /\ call[d] \in CallType /\ top \in 0..4
      BY <2>1, <2>3 DEF IInv, CallsInv, TypeOK
    <3>2. Height(call[d].to) \in 0..4
      BY <3>1, HeightType DEF CallType
    <3> QED BY <3>1, <3>2 DEF CallInv
  <2> QED BY <2>2, <2>3
<1> QED BY <1>1, <1>2

\* The record of a call in flight
LEMMA CallFacts ==
    ASSUME IInv, NEW c \in Calls
    PROVE  /\ call[c] \in CallType /\ CallInv(call[c])
           /\ call[c].to \in Row /\ Height(call[c].to) \in 0..4 /\ top \in 0..4
BY HeightType DEF IInv, TypeOK, CallsInv, CallType

\* A grant raises top as far as needed and never lowers it
LEMMA GrantedTop ==
    ASSUME IInv, NEW c \in Calls, Granted(call[c])
    PROVE  /\ top' \in 0..4 /\ top <= top'
           /\ call[c].by = Owner => Height(call[c].to) <= top'
BY CallFacts, HigherType DEF Granted

\* A row written for a user who is not the owner, no higher than top'
LEMMA WrittenInv ==
    ASSUME IInv, NEW c \in Calls, call[c].user \in Users, call[c].to \in Roles,
           Height(call[c].to) <= top', top' \in 0..4, top <= top',
           role' = Written(call[c])
    PROVE  role' \in [People -> Row] /\ OwnerKeepsRole' /\ NoEscalation'
<1>1. role' = role \/ role' = [role EXCEPT ![call[c].user] = call[c].to]
  BY DEF Written
<1>2. role' \in [People -> Row]
  BY <1>1 DEF IInv, TypeOK, Row
<1>3. OwnerKeepsRole'
  BY <1>1, MembershipAssumption DEF IInv, TypeOK, OwnerKeepsRole, People
<1>4. NoEscalation'
  <2> SUFFICES ASSUME NEW u \in Users PROVE Height(role'[u]) <= top'
    BY DEF NoEscalation
  <2>1. role[u] \in Row /\ Height(role[u]) <= top /\ top \in 0..4
    BY DEF IInv, TypeOK, NoEscalation, People
  <2>2. Height(role[u]) \in 0..4
    BY <2>1, HeightType
  <2>3. role'[u] = role[u] \/ role'[u] = call[c].to
    BY <1>1 DEF IInv, TypeOK, People
  <2> QED BY <2>1, <2>2, <2>3
<1> QED BY <1>2, <1>3, <1>4

\* Rows that stay stay within top
LEMMA KeptInv ==
    ASSUME IInv, top' \in 0..4, top <= top'
    PROVE  /\ role' = role => role' \in [People -> Row] /\ OwnerKeepsRole' /\ NoEscalation'
           /\ invited' = invited => InvitedInv'
<1>1. ASSUME role' = role PROVE role' \in [People -> Row] /\ OwnerKeepsRole' /\ NoEscalation'
  <2>1. ASSUME NEW u \in Users PROVE Height(role[u]) <= top'
    <3>1. role[u] \in Row /\ Height(role[u]) <= top /\ top \in 0..4
      BY DEF IInv, TypeOK, NoEscalation, People
    <3> QED BY <3>1, HeightType
  <2> QED BY <1>1, <2>1 DEF IInv, TypeOK, OwnerKeepsRole, NoEscalation
<1>2. ASSUME invited' = invited PROVE InvitedInv'
  <2>1. ASSUME NEW t \in Tokens PROVE Height(invited[t]) <= top'
    <3>1. invited[t] \in Row /\ Height(invited[t]) <= top /\ top \in 0..4
      BY DEF IInv, TypeOK, InvitedInv
    <3> QED BY <3>1, HeightType
  <2> QED BY <1>2, <2>1 DEF InvitedInv
<1> QED BY <1>1, <1>2

\* Every commit and every roll-back keeps the invariant
LEMMA CommitStep ==
    ASSUME IInv, NEW c \in Calls, Commit(c)
    PROVE  IInv'
<1> USE CallFacts
<1>1. CASE CommitInvite(c)
  <2> USE <1>1 DEF CommitInvite
  <2>1. /\ top' \in 0..4 /\ top <= top' /\ Height(call[c].to) <= top'
        /\ call[c].to \in Roles /\ call[c].id \in Tokens
    BY GrantedTop DEF CallInv
  <2>2. call' \in [Calls -> CallType] /\ CallsInv'
    BY <2>1, DoneInv
  <2>3. role' \in [People -> Row] /\ OwnerKeepsRole' /\ NoEscalation'
    BY <2>1, KeptInv
  <2>4. InvitedInv'
    <3> SUFFICES ASSUME NEW t \in Tokens PROVE Height(invited'[t]) <= top'
      BY DEF InvitedInv
    <3>1. invited'[t] = call[c].to \/ invited'[t] = invited[t]
      BY DEF IInv, TypeOK, Invitation
    <3>2. invited[t] \in Row /\ Height(invited[t]) <= top
      BY DEF IInv, TypeOK, InvitedInv
    <3> QED BY <2>1, <3>1, <3>2, HeightType
  <2>5. TypeOK'
    BY <2>1, <2>2, <2>3 DEF IInv, TypeOK, Invitation, Row
  <2> QED BY <2>2, <2>3, <2>4, <2>5 DEF IInv, AskedInv
<1>2. CASE CommitAccept(c)
  <2> USE <1>2 DEF CommitAccept
  <2>1. /\ top' = top /\ top' \in 0..4 /\ top <= top' /\ Height(call[c].to) <= top'
        /\ call[c].to \in Roles /\ call[c].user \in Users
    BY DEF CallInv
  <2>2. call' \in [Calls -> CallType] /\ CallsInv'
    BY <2>1, DoneInv
  <2>3. role' \in [People -> Row] /\ OwnerKeepsRole' /\ NoEscalation'
    BY <2>1, WrittenInv
  <2>4. InvitedInv'
    <3> SUFFICES ASSUME NEW t \in Tokens PROVE Height(invited'[t]) <= top'
      BY DEF InvitedInv
    <3>1. invited'[t] = Nothing \/ invited'[t] = invited[t]
      BY DEF IInv, TypeOK
    <3>2. invited[t] \in Row /\ Height(invited[t]) <= top /\ Nothing \in Row
      BY DEF IInv, TypeOK, InvitedInv, Row
    <3> QED BY <2>1, <3>1, <3>2, HeightType
  <2>5. TypeOK'
    BY <2>1, <2>2, <2>3 DEF IInv, TypeOK, Row
  <2> QED BY <2>2, <2>3, <2>4, <2>5 DEF IInv, AskedInv
<1>3. CASE CommitRequest(c)
  <2> USE <1>3 DEF CommitRequest
  <2>1. top' = top /\ top' \in 0..4 /\ top <= top' /\ call[c].user \in Users
    BY DEF CallInv
  <2>2. call' \in [Calls -> CallType] /\ CallsInv'
    BY <2>1, DoneInv
  <2>3. role' \in [People -> Row] /\ OwnerKeepsRole' /\ NoEscalation' /\ InvitedInv'
    BY <2>1, KeptInv
  <2>4. AskedInv'
    BY <2>1, MembershipAssumption DEF IInv, TypeOK, AskedInv
  <2>5. TypeOK'
    BY <2>1, <2>2, <2>3 DEF IInv, TypeOK, People
  <2> QED BY <2>2, <2>3, <2>4, <2>5 DEF IInv
<1>4. CASE CommitApprove(c) \/ CommitSet(c)
  <2> USE <1>4 DEF CommitApprove, CommitSet
  <2>1. /\ top' \in 0..4 /\ top <= top' /\ Height(call[c].to) <= top'
        /\ call[c].to \in Roles /\ call[c].user \in Users
    BY GrantedTop DEF CallInv
  <2>2. call' \in [Calls -> CallType] /\ CallsInv'
    BY <2>1, DoneInv
  <2>3. role' \in [People -> Row] /\ OwnerKeepsRole' /\ NoEscalation'
    BY <2>1, WrittenInv
  <2>4. InvitedInv'
    BY <2>1, KeptInv
  <2>5. TypeOK'
    BY <2>1, <2>2, <2>3 DEF IInv, TypeOK
  <2> QED BY <2>2, <2>3, <2>4, <2>5 DEF IInv, AskedInv
<1>5. CASE CommitReject(c) \/ Rollback(c)
  <2> USE <1>5 DEF CommitReject, Rollback
  <2>1. top' = top /\ top' \in 0..4 /\ top <= top'
    OBVIOUS
  <2>2. call' \in [Calls -> CallType] /\ CallsInv'
    BY <2>1, DoneInv
  <2>3. role' \in [People -> Row] /\ OwnerKeepsRole' /\ NoEscalation' /\ InvitedInv'
    BY <2>1, KeptInv
  <2>4. TypeOK'
    BY <2>1, <2>2, <2>3 DEF IInv, TypeOK
  <2> QED BY <2>2, <2>3, <2>4 DEF IInv, AskedInv
<1>6. CASE CommitRemove(c)
  <2> USE <1>6 DEF CommitRemove
  <2>1. top' = top /\ call[c].user \in Users
    BY DEF CallInv
  <2>2. role' = role \/ role' = [role EXCEPT ![call[c].user] = Nothing]
    OBVIOUS
  <2>3. \A d \in Calls : \/ call'[d] = Idle
                         \/ call'[d] = call[d]
                         \/ call'[d] = [call[d] EXCEPT !.gone = TRUE]
    OBVIOUS
  <2>4. call' \in [Calls -> CallType]
    <3>1. ASSUME NEW d \in Calls PROVE [call[d] EXCEPT !.gone = TRUE] \in CallType /\ call[d] \in CallType
      BY DEF IInv, TypeOK, CallType
    <3> QED BY <3>1, IdleType
  <2>5. CallsInv'
    <3> SUFFICES ASSUME NEW d \in Calls PROVE CallInv(call[d])'
      BY DEF CallsInv
    <3>1. CallInv(call[d]) /\ call[d] \in CallType
      BY DEF IInv, CallsInv, TypeOK
    <3>2. CASE call'[d] = Idle
      BY <3>2, IdleType DEF CallInv
    <3>3. CASE call'[d] = call[d]
      BY <2>1, <3>1, <3>3 DEF CallInv
    <3>4. CASE call'[d] = [call[d] EXCEPT !.gone = TRUE]
      <4>1. /\ call'[d].op = call[d].op /\ call'[d].id = call[d].id /\ call'[d].to = call[d].to
            /\ call'[d].by = call[d].by /\ call'[d].user = call[d].user /\ call'[d].seen = call[d].seen
        BY <3>1, <3>4 DEF CallType
      <4> QED BY <2>1, <3>1, <4>1 DEF CallInv
    <3> QED BY <2>3, <3>2, <3>3, <3>4
  <2>6. OwnerKeepsRole' /\ role' \in [People -> Row]
    BY <2>1, <2>2, MembershipAssumption DEF IInv, TypeOK, OwnerKeepsRole, People, Row
  <2>7. NoEscalation'
    <3> SUFFICES ASSUME NEW u \in Users PROVE Height(role'[u]) <= top'
      BY DEF NoEscalation
    <3>1. role'[u] = role[u] \/ role'[u] = Nothing
      BY <2>2 DEF IInv, TypeOK, People
    <3>2. Height(role[u]) <= top /\ Height(Nothing) = 0
      BY HeightType DEF IInv, NoEscalation, Row
    <3> QED BY <2>1, <3>1, <3>2
  <2>8. TypeOK'
    BY <2>1, <2>4, <2>6 DEF IInv, TypeOK
  <2> QED BY <2>1, <2>5, <2>6, <2>7, <2>8 DEF IInv, AskedInv, InvitedInv
<1> QED BY <1>1, <1>2, <1>3, <1>4, <1>5, <1>6 DEF Commit

-----------------------------------------------------------------------------
\* Every step keeps the invariant
LEMMA StepInv == IInv /\ [Next]_vars => IInv'
<1> SUFFICES ASSUME IInv, [Next]_vars PROVE IInv'
  OBVIOUS
<1>1. ASSUME NEW c \in Calls, Read(c) PROVE IInv'
  BY <1>1, ReadStep
<1>2. ASSUME NEW c \in Calls, Commit(c) PROVE IInv'
  BY <1>2, CommitStep
<1>3. ASSUME NEW t \in Tokens, Expire(t) PROVE IInv'
  BY <1>3 DEF Expire, IInv, TypeOK, OwnerKeepsRole, NoEscalation, CallsInv, CallInv, AskedInv, InvitedInv
<1>4. CASE UNCHANGED vars
  BY <1>4 DEF vars, IInv, TypeOK, OwnerKeepsRole, NoEscalation, CallsInv, CallInv, AskedInv, InvitedInv
<1> QED BY <1>1, <1>2, <1>3, <1>4 DEF Next

\* The invariant of every behaviour
LEMMA Invariant == Spec => []IInv
BY InitInv, StepInv, PTL DEF Spec

\* The rows and the calls in flight keep their types, for any number of users,
\* invitations, requests and concurrent calls (api/projects.py, api/invitations.py).
THEOREM MembershipTypes == Spec => []TypeOK
<1>1. IInv => TypeOK
  BY DEF IInv
<1> QED BY <1>1, Invariant, PTL

\* The owner's own row stays "owner" whatever calls race (add_project_member,
\* update_project_member_role, remove_project_member).
THEOREM OwnerStaysOwner == Spec => []OwnerKeepsRole
<1>1. IInv => OwnerKeepsRole
  BY DEF IInv
<1> QED BY <1>1, Invariant, PTL

\* No chain of invitations, by however many people, lifts anybody above the
\* highest role the owner has handed out (create_invitation).
THEOREM NobodyEscalates == Spec => []NoEscalation
<1>1. IInv => NoEscalation
  BY DEF IInv
<1> QED BY <1>1, Invariant, PTL

\* Only the owner's calls change or remove an existing row, and an invitation is
\* used up only by somebody who joins with it (accept_invitation).
THEOREM RolesChangeByOwner == Spec => OnlyOwnerChangesRoles
<1> DEFINE A == /\ \A u \in People :
                     role[u] # Nothing /\ role'[u] # role[u] =>
                        \E c \in Calls : call[c].by = Owner /\ call[c].user = u /\ call'[c] # call[c]
                /\ \A t \in Tokens :
                     invited[t] # Nothing /\ invited'[t] = Nothing =>
                        \E u \in Users : role[u] = Nothing /\ role'[u] # Nothing
<1>1. ASSUME IInv, Next PROVE A
  <2>1. CASE role' = role /\ invited' = invited
    BY <2>1
  <2>2. ASSUME NEW c \in Calls, CommitInvite(c) PROVE A
    <3>1. role' = role /\ call[c].to \in Roles
      BY <1>1, <2>2, CallFacts DEF CommitInvite, CallInv
    <3>2. \A t \in Tokens : invited[t] # Nothing => invited'[t] # Nothing
      BY <1>1, <2>2, <3>1, MembershipAssumption DEF CommitInvite, Invitation, IInv, TypeOK
    <3> QED BY <3>1, <3>2
  <2>3. ASSUME NEW c \in Calls, CommitAccept(c) PROVE A
    <3>1. /\ call[c].user \in Users /\ call[c].to \in Roles /\ call[c].seen = Nothing
          /\ role[call[c].user] = Nothing
      BY <1>1, <2>3, CallFacts DEF CommitAccept, CallInv, Conflict
    <3>2. role' = [role EXCEPT ![call[c].user] = call[c].to]
      BY <2>3, <3>1, MembershipAssumption DEF CommitAccept, Written
    <3>3. \A u \in People : role[u] # Nothing => role'[u] = role[u]
      BY <1>1, <3>1, <3>2 DEF IInv, TypeOK
    <3>4. role'[call[c].user] # Nothing
      BY <1>1, <3>1, <3>2, MembershipAssumption DEF IInv, TypeOK, People
    <3> QED BY <3>1, <3>3, <3>4
  <2>4. ASSUME NEW c \in Calls, CommitApprove(c) \/ CommitSet(c) \/ CommitRemove(c) PROVE A
    <3>1. /\ call[c].by = Owner /\ call[c].user \in Users /\ invited' = invited
          /\ call[c].op # "idle" /\ call[c] \in CallType
      BY <1>1, <2>4, CallFacts DEF CommitApprove, CommitSet, CommitRemove, CallInv
    <3>2. call'[c] = Idle
      BY <1>1, <2>4 DEF CommitApprove, CommitSet, CommitRemove, Done, IInv, TypeOK
    <3>3. call'[c] # call[c]
      BY <3>1, <3>2, IdleType
    <3>4. \E r : role' = role \/ role' = [role EXCEPT ![call[c].user] = r]
      BY <2>4 DEF CommitApprove, CommitSet, CommitRemove, Written
    <3>5. \A u \in People : role'[u] # role[u] => u = call[c].user
      BY <1>1, <3>4 DEF IInv, TypeOK
    <3> QED BY <3>1, <3>3, <3>5
  <2>5. ASSUME NEW c \in Calls, CommitRequest(c) \/ CommitReject(c) \/ Rollback(c) \/ Read(c)
        PROVE  role' = role /\ invited' = invited
    BY <2>5 DEF CommitRequest, CommitReject, Rollback, Read, accept_invitation, create_invitation,
                request_to_join, add_project_member, update_project_member_role,
                remove_project_member, reject_join_request, approve_join_request
  <2>6. ASSUME NEW t \in Tokens, Expire(t) PROVE role' = role /\ invited' = invited
    BY <2>6 DEF Expire
  <2> QED BY <1>1, <2>1, <2>2, <2>3, <2>4, <2>5, <2>6 DEF Next, Commit
<1>2. IInv /\ [Next]_vars => [A]_vars
  BY <1>1
<1>3. Spec => [][A]_vars
  BY <1>2, Invariant, PTL DEF Spec
<1> QED BY <1>3 DEF OnlyOwnerChangesRoles
=============================================================================
