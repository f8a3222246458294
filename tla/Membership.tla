------------------------------ MODULE Membership ------------------------------
(***************************************************************************)
(* Who may do what in a project (api/projects.py, api/invitations.py,      *)
(* core/deps.py): the membership rows, the invitations and the requests to *)
(* join, and the API calls that read them and commit something later.      *)
(*                                                                         *)
(* A call is two steps: what it reads and checks, and its commit.  Between *)
(* them other calls commit.  uq_project_user (alembic, 6866bd04adf9) keeps *)
(* one row per user, so a second insert fails and the whole transaction    *)
(* with it.  Row ids are abstracted: a call knows if its row is gone.      *)
(***************************************************************************)
EXTENDS Naturals

CONSTANTS Users,        \* everybody but the owner
          Owner,        \* project.owner_id, which no call changes
          Offered,      \* the roles that calls name
          Tokens,       \* invitations that may be made
          Requests,     \* join requests that may be made
          Calls,        \* API calls in flight at the same time
          Nothing       \* no row

\* RoleRank and at_least: viewer < editor < debugger < owner
RoleRank == [viewer |-> 0, editor |-> 1, debugger |-> 2, owner |-> 3]
Roles == {"viewer", "editor", "debugger", "owner"}

ASSUME MembershipAssumption ==
    /\ Owner \notin Users
    /\ Offered \subseteq Roles
    /\ Nothing \notin Roles /\ Nothing \notin Users /\ Nothing # Owner

People == Users \union {Owner}

VARIABLES
    role,       \* role[u]: the project_members row of u, or Nothing
    invited,    \* invited[t]: the role of the invitation, or Nothing
    minted,     \* tokens made so far: secrets.token_urlsafe never repeats one
    expired,    \* tokens more than seven days old
    asked,      \* asked[r]: the user of the request, or Nothing
    status,     \* status[r]: "pending", "approved" or "rejected"
    call,       \* call[c]: what the call has read and is going to commit
    top         \* Height of the highest role the owner has ever handed out

vars == <<role, invited, minted, expired, asked, status, call, top>>

Idle == [op |-> "idle", by |-> Nothing, user |-> Nothing, to |-> Nothing,
         id |-> Nothing, seen |-> Nothing, gone |-> FALSE]

Begin(c, k) == call[c].op = "idle" /\ call' = [call EXCEPT ![c] = k]

\* One more than the rank, so that nobody's is 0
Height(r) == IF r = Nothing THEN 0 ELSE RoleRank[r] + 1

Higher(a, b) == IF a < b THEN b ELSE a

\* Mutant: an editor may invite to any role
MayInvite_AnyRole(u, r) == u = Owner \/ Height(role[u]) >= Height("editor")

\* Editor or higher, and never above one's own role; the owner always
MayInvite(u, r) ==
    \/ u = Owner
    \/ Height(role[u]) >= Height("editor") /\ Height(r) <= Height(role[u])
-----------------------------------------------------------------------------
(* What the calls read and check *)

create_invitation(c, u, t, r) ==
    /\ t \notin minted
    /\ MayInvite(u, r)
    /\ Begin(c, [Idle EXCEPT !.op = "invite", !.by = u, !.to = r, !.id = t])
    /\ UNCHANGED <<role, invited, minted, expired, asked, status, top>>

\* Members keep their role, and the invitation stays for somebody else
MayAccept(u) == u # Owner /\ role[u] = Nothing

accept_invitation(c, u, t) ==
    /\ invited[t] # Nothing
    /\ t \notin expired
    /\ MayAccept(u)
    /\ Begin(c, [Idle EXCEPT !.op = "accept", !.by = u, !.user = u, !.to = invited[t], !.id = t,
                             !.seen = role[u]])
    /\ UNCHANGED <<role, invited, minted, expired, asked, status, top>>

request_to_join(c, u, r) ==
    /\ asked[r] = Nothing
    /\ role[u] = Nothing
    /\ \A q \in Requests : ~(asked[q] = u /\ status[q] = "pending")
    /\ Begin(c, [Idle EXCEPT !.op = "ask", !.by = u, !.user = u, !.id = r])
    /\ UNCHANGED <<role, invited, minted, expired, asked, status, top>>

\* The owner decides a request; approving never makes anybody an owner.
approve_join_request(c, r, to) ==
    /\ asked[r] # Nothing /\ status[r] = "pending"
    /\ to # "owner"
    /\ Begin(c, [Idle EXCEPT !.op = "approve", !.by = Owner, !.user = asked[r], !.to = to, !.id = r,
                             !.seen = role[asked[r]]])
    /\ UNCHANGED <<role, invited, minted, expired, asked, status, top>>

reject_join_request(c, r) ==
    /\ asked[r] # Nothing /\ status[r] = "pending"
    /\ Begin(c, [Idle EXCEPT !.op = "reject", !.by = Owner, !.id = r])
    /\ UNCHANGED <<role, invited, minted, expired, asked, status, top>>

\* "Cannot change the role of the project owner", "Cannot remove the project owner"
NotTheOwner(u) == u # Owner

add_project_member(c, u, to) ==
    /\ NotTheOwner(u)
    /\ Begin(c, [Idle EXCEPT !.op = "set", !.by = Owner, !.user = u, !.to = to, !.seen = role[u]])
    /\ UNCHANGED <<role, invited, minted, expired, asked, status, top>>

update_project_member_role(c, u, to) ==
    /\ role[u] # Nothing
    /\ NotTheOwner(u)
    /\ Begin(c, [Idle EXCEPT !.op = "set", !.by = Owner, !.user = u, !.to = to, !.seen = role[u]])
    /\ UNCHANGED <<role, invited, minted, expired, asked, status, top>>

remove_project_member(c, u) ==
    /\ NotTheOwner(u)
    /\ role[u] # Nothing
    /\ Begin(c, [Idle EXCEPT !.op = "remove", !.by = Owner, !.user = u, !.seen = role[u]])
    /\ UNCHANGED <<role, invited, minted, expired, asked, status, top>>
-----------------------------------------------------------------------------
(* Their commits *)

\* Mutant: a second row is written, and read instead of the first
Conflict_Never(k) == FALSE

\* The INSERT breaks uq_project_user, or the UPDATE finds its row deleted
Conflict(k) ==
    \/ k.seen = Nothing /\ role[k.user] # Nothing
    \/ k.seen # Nothing /\ k.seen # k.to /\ k.gone

\* The row as the call leaves it: nothing is written if the role is the one it read
Written(k) == IF k.seen = k.to THEN role ELSE [role EXCEPT ![k.user] = k.to]

\* The owner has handed this role out
Granted(k) == top' = IF k.by = Owner THEN Higher(top, Height(k.to)) ELSE top

Done(c) == call' = [call EXCEPT ![c] = Idle]

\* The role in the new invitation
Invitation(k) == k.to

CommitInvite(c) ==
    /\ call[c].op = "invite"
    /\ call[c].id \notin minted
    /\ invited' = [invited EXCEPT ![call[c].id] = Invitation(call[c])]
    /\ minted' = minted \union {call[c].id}
    /\ Granted(call[c])
    /\ Done(c)
    /\ UNCHANGED <<role, expired, asked, status>>

\* The invitation is deleted with it; that it may be gone already is not noticed.
CommitAccept(c) ==
    /\ call[c].op = "accept"
    /\ ~Conflict(call[c])
    /\ role' = Written(call[c])
    /\ invited' = [invited EXCEPT ![call[c].id] = Nothing]
    /\ Done(c)
    /\ UNCHANGED <<minted, expired, asked, status, top>>

CommitRequest(c) ==
    /\ call[c].op = "ask"
    /\ asked[call[c].id] = Nothing
    /\ asked' = [asked EXCEPT ![call[c].id] = call[c].user]
    /\ status' = [status EXCEPT ![call[c].id] = "pending"]
    /\ Done(c)
    /\ UNCHANGED <<role, invited, minted, expired, top>>

CommitApprove(c) ==
    /\ call[c].op = "approve"
    /\ ~Conflict(call[c])
    /\ role' = Written(call[c])
    /\ status' = [status EXCEPT ![call[c].id] = "approved"]
    /\ Granted(call[c])
    /\ Done(c)
    /\ UNCHANGED <<invited, minted, expired, asked>>

CommitReject(c) ==
    /\ call[c].op = "reject"
    /\ status' = [status EXCEPT ![call[c].id] = "rejected"]
    /\ Done(c)
    /\ UNCHANGED <<role, invited, minted, expired, asked, top>>

CommitSet(c) ==
    /\ call[c].op = "set"
    /\ ~Conflict(call[c])
    /\ role' = Written(call[c])
    /\ Granted(call[c])
    /\ Done(c)
    /\ UNCHANGED <<invited, minted, expired, asked, status>>

\* The calls that have read the row find it gone; a DELETE of none is no error.
CommitRemove(c) ==
    /\ call[c].op = "remove"
    /\ role' = IF call[c].gone THEN role ELSE [role EXCEPT ![call[c].user] = Nothing]
    /\ call' = [d \in Calls |->
                  IF d = c THEN Idle
                  ELSE IF ~call[c].gone /\ call[d].user = call[c].user /\ call[d].seen # Nothing
                       THEN [call[d] EXCEPT !.gone = TRUE]
                       ELSE call[d]]
    /\ UNCHANGED <<invited, minted, expired, asked, status, top>>

\* The transaction is rolled back: a conflict, or any other error
Rollback(c) ==
    /\ call[c].op # "idle"
    /\ Done(c)
    /\ UNCHANGED <<role, invited, minted, expired, asked, status, top>>

\* Seven days pass
Expire(t) ==
    /\ invited[t] # Nothing /\ t \notin expired
    /\ expired' = expired \union {t}
    /\ UNCHANGED <<role, invited, minted, asked, status, call, top>>
-----------------------------------------------------------------------------
\* create_project has committed the project and the owner's row together.
Init ==
    /\ role = [u \in People |-> IF u = Owner THEN "owner" ELSE Nothing]
    /\ invited = [t \in Tokens |-> Nothing]
    /\ minted = {} /\ expired = {}
    /\ asked = [r \in Requests |-> Nothing]
    /\ status = [r \in Requests |-> "pending"]
    /\ call = [c \in Calls |-> Idle]
    /\ top = 0

Commit(c) ==
    \/ CommitInvite(c) \/ CommitAccept(c) \/ CommitRequest(c) \/ CommitApprove(c)
    \/ CommitReject(c) \/ CommitSet(c) \/ CommitRemove(c) \/ Rollback(c)

Read(c) ==
    \/ \E u \in People :
         \/ \E t \in Tokens : accept_invitation(c, u, t) \/ \E r \in Offered : create_invitation(c, u, t, r)
         \/ \E q \in Requests : request_to_join(c, u, q)
         \/ \E r \in Offered : add_project_member(c, u, r) \/ update_project_member_role(c, u, r)
         \/ remove_project_member(c, u)
    \/ \E q \in Requests : reject_join_request(c, q) \/ \E r \in Offered : approve_join_request(c, q, r)

Next == (\E c \in Calls : Read(c) \/ Commit(c)) \/ \E t \in Tokens : Expire(t)

Spec == Init /\ [][Next]_vars
-----------------------------------------------------------------------------
Row == Roles \union {Nothing}

CallType == [op : {"idle", "invite", "accept", "ask", "approve", "reject", "set", "remove"},
             by : People \union {Nothing}, user : People \union {Nothing}, to : Row,
             id : Tokens \union Requests \union {Nothing}, seen : Row, gone : BOOLEAN]

\* The types of the rows and of the calls in flight
TypeOK ==
    /\ role \in [People -> Row]
    /\ invited \in [Tokens -> Row]
    /\ minted \subseteq Tokens /\ expired \subseteq Tokens
    /\ asked \in [Requests -> People \union {Nothing}]
    /\ status \in [Requests -> {"pending", "approved", "rejected"}]
    /\ call \in [Calls -> CallType]
    /\ top \in 0..4

\* "the owner's own role row must stay "owner", or they lose edit/run rights on
\* their own project" (add_project_member): whatever calls race.
OwnerKeepsRole == role[Owner] = "owner"

\* "never to a role above their own": however invitations are passed on, and
\* inviters demoted or removed while theirs are open, nobody ranks above the
\* highest role the owner has handed out.
NoEscalation == \A u \in Users : Height(role[u]) <= top

\* Only the owner's calls change or remove a row that exists: "existing members
\* keep their role", also when they became members after the check; and an
\* invitation is used up only by somebody who joins with it.
OnlyOwnerChangesRoles ==
    [][/\ \A u \in People :
            role[u] # Nothing /\ role'[u] # role[u] =>
                \E c \in Calls : call[c].by = Owner /\ call[c].user = u /\ call'[c] # call[c]
       /\ \A t \in Tokens :
            invited[t] # Nothing /\ invited'[t] = Nothing =>
                \E u \in Users : role[u] = Nothing /\ role'[u] # Nothing]_vars
=============================================================================
