------------------------------ MODULE Workspace ------------------------------
(***************************************************************************)
(* The people of the workspace (the collaboration service of core and its  *)
(* routes): users, their memberships and what these permit, and the        *)
(* threads of a work item.  createUser checks inside its store write; the  *)
(* others check what they read before theirs, and requests run side by     *)
(* side.                                                                   *)
(*                                                                         *)
(* Nothing makes a membership or a user inactive, nothing removes either.  *)
(***************************************************************************)
EXTENDS Naturals, Sequences

CONSTANTS Requests,  \* the requests
          Users,     \* the ids users are given
          Names,     \* what logins are told apart by, but for upper case
          MaxCalls,  \* bound: requests altogether
          None       \* nothing

VARIABLES users,       \* the users, the owner not among them
          memberships, \* the memberships, oldest first
          listed,      \* which of a user's memberships the store lists first
          mode,        \* workspace.mode
          threads,     \* the threads of the work item, by the call that made it
          messages,    \* their messages
          call,        \* what each request is about to write
          calls,       \* how many requests there have been
          revoked      \* history: whose permission was taken last time

vars == <<users, memberships, listed, mode, threads, messages, call, calls, revoked>>

Owner == "owner"

Init ==
    /\ users = {}
    /\ memberships = <<[user |-> Owner, role |-> "primary", may |-> TRUE]>>
    /\ listed = [u \in Users \cup {Owner} |-> IF u = Owner THEN 1 ELSE 0]
    /\ mode = "single_user"
    /\ threads = {} /\ messages = {}
    /\ call = [q \in Requests |-> None]
    /\ calls = 0
    /\ revoked = {}

Logins == [name : Names, upper : BOOLEAN]

Active(u) == u = Owner \/ \E user \in users : user.id = u /\ user.status = "active"
MembershipsOf(u) == {i \in DOMAIN memberships : memberships[i].user = u}

\* requireActiveWorkspaceMember takes what find gives.
First(u) == listed[u]

\* Two overlapping requests may have added the user twice.
AddedOnce(u) == \A i, j \in MembershipsOf(u) : i = j

\* The owner, or whoever has an active primary membership.
MayManage(actor) ==
    \/ actor = Owner
    \/ \E i \in MembershipsOf(actor) : memberships[i].role = "primary"

\* requireWorkspacePermission
MayCollaborate(u) ==
    /\ MembershipsOf(u) # {} /\ Active(u)
    /\ memberships[First(u)].role = "primary" \/ memberships[First(u)].may

Request(q, op) ==
    /\ call[q] = None /\ calls < MaxCalls
    /\ calls' = calls + 1
    /\ call' = [call EXCEPT ![q] = op]
    /\ UNCHANGED <<users, memberships, listed, mode, threads, messages, revoked>>

---------------------------------------------------------------------------
(* The check of each request; one that is refused changes nothing. *)

AskCreateUser(q) ==
    \E u \in Users, login \in Logins, role \in {"primary", "supporting"},
       status \in {"active", "inactive"} :
        /\ \A user \in users : user.id # u
        /\ \A r \in Requests : call[r] # None /\ call[r].pc = "user" => call[r].user.id # u
        /\ Request(q, [pc |-> "user",
                       user |-> [id |-> u, login |-> login, role |-> role, status |-> status]])

\* A role of primary is refused, given or taken from the user.
CheckAdd(q) ==
    \E actor \in Users \cup {Owner}, u \in Users, may \in BOOLEAN :
        /\ MayManage(actor)
        /\ Active(u) /\ MembershipsOf(u) = {}
        /\ Request(q, [pc |-> "add", user |-> u, may |-> may])

CheckUpdate(q) ==
    \E actor \in Users \cup {Owner}, u \in Users, may \in BOOLEAN :
        /\ MayManage(actor)
        /\ MembershipsOf(u) # {} /\ memberships[First(u)].role = "supporting"
        /\ Request(q, [pc |-> "update", at |-> First(u), may |-> may])

CheckThread(q) ==
    \E u \in Users \cup {Owner} :
        /\ MayCollaborate(u)
        /\ Request(q, [pc |-> "message", thread |-> calls + 1, new |-> TRUE,
                       late |-> u \in revoked /\ AddedOnce(u)])

CheckPost(q) ==
    \E u \in Users \cup {Owner}, thread \in threads :
        /\ MayCollaborate(u)
        /\ Request(q, [pc |-> "message", thread |-> thread, new |-> FALSE,
                       late |-> u \in revoked /\ AddedOnce(u)])

---------------------------------------------------------------------------
(* The writes *)

At(q, pc) == call[q] # None /\ call[q].pc = pc
End(q) == call' = [call EXCEPT ![q] = None]

\* Mutant of SameLogin: upper and lower case differ.
SameSpelling(a, b) == a = b

SameLogin(a, b) == a.name = b.name

CreateUser(q) ==
    /\ At(q, "user")
    /\ LET user == call[q].user
           conflict == \/ \E other \in users : SameLogin(other.login, user.login)
                       \/ user.role = "primary"
       IN users' = IF conflict THEN users ELSE users \cup {user}
    /\ End(q)
    /\ UNCHANGED <<memberships, listed, mode, threads, messages, calls, revoked>>

\* In the JSON store a new membership comes last, in the Postgres store, which
\* lists by id, its random id may come before another of the same user.
AddMembership(q) ==
    /\ At(q, "add")
    /\ LET u == call[q].user  new == Len(memberships) + 1 IN
        \/ listed' = [listed EXCEPT ![u] = new]
        \/ listed[u] # 0 /\ UNCHANGED listed
    /\ memberships' = Append(memberships, [user |-> call[q].user, role |-> "supporting",
                                           may |-> call[q].may])
    /\ mode' = "collaborative"
    /\ End(q)
    /\ UNCHANGED <<users, threads, messages, calls, revoked>>

UpdatePermissions(q) ==
    /\ At(q, "update")
    /\ memberships' = [memberships EXCEPT ![call[q].at].may = call[q].may]
    /\ LET u == memberships[call[q].at].user IN
        revoked' = IF call[q].may THEN revoked \ {u} ELSE revoked \cup {u}
    /\ End(q)
    /\ UNCHANGED <<users, listed, mode, threads, messages, calls>>

WriteMessage(q) ==
    /\ At(q, "message")
    /\ messages' = messages \cup {[thread |-> call[q].thread, late |-> call[q].late]}
    /\ threads' = IF call[q].new THEN threads \cup {call[q].thread} ELSE threads
    /\ End(q)
    /\ UNCHANGED <<users, memberships, listed, mode, calls, revoked>>

Next ==
    \E q \in Requests :
        \/ AskCreateUser(q) \/ CheckAdd(q) \/ CheckUpdate(q) \/ CheckThread(q)
        \/ CheckPost(q) \/ CreateUser(q) \/ AddMembership(q)
        \/ UpdatePermissions(q) \/ WriteMessage(q)

Spec == Init /\ [][Next]_vars

-----------------------------------------------------------------------------
(***************************************************************************)
(* Whatever requests run side by side: no two users have one login, in     *)
(* whatever case it is written, and the owner stays the only primary user  *)
(* who is active; the workspace is collaborative exactly if it has         *)
(* supporting members; a message belongs to a thread that was stored; and  *)
(* nobody posts in a request that came after their permission was taken,   *)
(* unless they have been added twice: the permission may have been taken   *)
(* from one membership while the store lists the other first (core         *)
(* index.ts:5550-5824, 2723-2757).                                         *)
(***************************************************************************)
WorkspaceSound ==
    /\ \A a, b \in users : a.login.name = b.login.name => a = b
    /\ \A a \in users : ~(a.role = "primary" /\ a.status = "active")
    /\ mode = "collaborative" <=> \E i \in DOMAIN memberships :
                                        memberships[i].role = "supporting"
    /\ \A message \in messages : message.thread \in threads /\ ~message.late

=============================================================================
