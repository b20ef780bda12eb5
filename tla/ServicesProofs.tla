--------------------------- MODULE ServicesProofs ---------------------------
(***************************************************************************)
(* What holds of the services around a run whatever handlers, requests,    *)
(* processes and files there are and however their steps interleave.       *)
(***************************************************************************)
EXTENDS Services, Naturals, Sequences, FiniteSets, FiniteSetTheorems, SequenceTheorems, TLAPS

---------------------------------------------------------------------------
(* The workspace *)

Membership == [user : Users \cup {Ws!Owner}, role : {"primary", "supporting"}, may : BOOLEAN]

\* What a request that has checked may still write.
MayWrite(ms, ths, op) ==
    /\ op.pc = "add" => op.user \in Users /\ op.may \in BOOLEAN
    /\ op.pc = "update" =>
         /\ op.at \in DOMAIN ms /\ ms[op.at].role = "supporting"
         /\ op.may \in BOOLEAN
    /\ op.pc = "message" => ~op.late /\ (~op.new => op.thread \in ths)

\* A user whose permission was taken last has a membership without it; whoever
\* has one has one that is listed first.
WsInv ==
    /\ WorkspaceSound
    /\ memberships \in Seq(Membership)
    /\ DOMAIN wsCall = Requests
    /\ \A q \in Requests : wsCall[q] # None => MayWrite(memberships, threads, wsCall[q])
    /\ listed \in [Users \cup {Ws!Owner} -> {0} \cup DOMAIN memberships]
    /\ \A u \in DOMAIN listed :
         IF listed[u] = 0 THEN Ws!MembershipsOf(u) = {} ELSE memberships[listed[u]].user = u
    /\ \A u \in revoked :
         \E i \in DOMAIN memberships :
            /\ memberships[i].user = u
            /\ memberships[i].role = "supporting" /\ ~memberships[i].may

\* What a request that is checked sees of a user.
LEMMA FirstOf ==
  ASSUME WsInv, NEW u, Ws!MembershipsOf(u) # {}
  PROVE  Ws!First(u) \in DOMAIN memberships /\ memberships[Ws!First(u)].user = u
<1>1. PICK i \in DOMAIN memberships : memberships[i].user = u
  BY DEF Ws!MembershipsOf
<1>2. memberships[i] \in Membership
  BY DEF WsInv
<1>3. u \in Users \cup {Ws!Owner}
  BY <1>1, <1>2 DEF Membership
<1>. QED  BY <1>3 DEF WsInv, Ws!First

LEMMA RevokedMayNot ==
  ASSUME WsInv, NEW u \in revoked, Ws!AddedOnce(u)
  PROVE  ~Ws!MayCollaborate(u)
<1>1. PICK i \in DOMAIN memberships :
         /\ memberships[i].user = u
         /\ memberships[i].role = "supporting" /\ ~memberships[i].may
  BY DEF WsInv
<1>2. Ws!First(u) = i
  BY <1>1, FirstOf DEF Ws!AddedOnce, Ws!MembershipsOf
<1>. QED  BY <1>1, <1>2 DEF Ws!MayCollaborate

LEMMA WsInitially == Ws!Init => WsInv
<1> SUFFICES ASSUME Ws!Init PROVE WsInv
  OBVIOUS
<1> DEFINE owner == [user |-> Ws!Owner, role |-> "primary", may |-> TRUE]
<1>1. owner \in Membership
  BY DEF Membership
<1>2. memberships = <<owner>>
  BY DEF Ws!Init
<1> HIDE DEF owner
<1>3. memberships \in Seq(Membership) /\ DOMAIN memberships = {1} /\ memberships[1] = owner
  BY <1>1, <1>2
<1>4. memberships[1].role = "primary"
  BY <1>3 DEF owner
<1>5. WorkspaceSound
  BY <1>3, <1>4 DEF Ws!Init, WorkspaceSound, Ws!WorkspaceSound
<1>6. owner.user = Ws!Owner
  BY DEF owner
<1>7. listed = [u \in Users \cup {Ws!Owner} |-> IF u = Ws!Owner THEN 1 ELSE 0]
  BY DEF Ws!Init
<1>8. \A u \in Users \cup {Ws!Owner} :
        IF listed[u] = 0 THEN Ws!MembershipsOf(u) = {} ELSE memberships[listed[u]].user = u
  BY <1>3, <1>6, <1>7 DEF Ws!MembershipsOf
<1>. QED  BY <1>3, <1>5, <1>7, <1>8 DEF Ws!Init, WsInv

\* What a check leaves behind.
LEMMA Asked ==
  ASSUME WsInv, NEW q \in Requests, NEW op, Ws!Request(q, op), MayWrite(memberships, threads, op)
  PROVE  WsInv'
<1>1. UNCHANGED <<users, memberships, listed, mode, threads, messages, revoked>>
  BY DEF Ws!Request
<1>2. /\ DOMAIN wsCall' = Requests /\ wsCall'[q] = op
      /\ \A r \in Requests : r # q => wsCall'[r] = wsCall[r]
  BY DEF Ws!Request, WsInv
<1>3. \A r \in Requests : wsCall'[r] # None => MayWrite(memberships, threads, wsCall'[r])
  BY <1>2 DEF WsInv
<1>4. WorkspaceSound'
  BY <1>1 DEF WsInv, WorkspaceSound, Ws!WorkspaceSound
<1>. QED  BY <1>1, <1>2, <1>3, <1>4 DEF WsInv, Ws!MembershipsOf

LEMMA Checks ==
  ASSUME WsInv, NEW q \in Requests,
         \/ Ws!AskCreateUser(q) \/ Ws!CheckAdd(q) \/ Ws!CheckUpdate(q)
         \/ Ws!CheckThread(q) \/ Ws!CheckPost(q)
  PROVE  WsInv'
<1>1. CASE Ws!AskCreateUser(q)
  <2>1. PICK user : Ws!Request(q, [pc |-> "user", user |-> user])
    BY <1>1 DEF Ws!AskCreateUser
  <2>2. MayWrite(memberships, threads, [pc |-> "user", user |-> user])
    BY DEF MayWrite
  <2>. QED  BY <2>1, <2>2, Asked
<1>2. CASE Ws!CheckAdd(q)
  <2>1. PICK u \in Users, may \in BOOLEAN :
           Ws!Request(q, [pc |-> "add", user |-> u, may |-> may])
    BY <1>2 DEF Ws!CheckAdd
  <2>2. MayWrite(memberships, threads, [pc |-> "add", user |-> u, may |-> may])
    BY DEF MayWrite
  <2>. QED  BY <2>1, <2>2, Asked
<1>3. CASE Ws!CheckUpdate(q)
  <2>1. PICK u \in Users, may \in BOOLEAN :
          /\ Ws!MembershipsOf(u) # {} /\ memberships[Ws!First(u)].role = "supporting"
          /\ Ws!Request(q, [pc |-> "update", at |-> Ws!First(u), may |-> may])
    BY <1>3 DEF Ws!CheckUpdate
  <2>2. MayWrite(memberships, threads, [pc |-> "update", at |-> Ws!First(u), may |-> may])
    BY <2>1, FirstOf DEF MayWrite
  <2>. QED  BY <2>1, <2>2, Asked
<1>4. CASE Ws!CheckThread(q)
  <2>1. PICK u :
          /\ Ws!MayCollaborate(u)
          /\ Ws!Request(q, [pc |-> "message", thread |-> calls + 1, new |-> TRUE,
                            late |-> u \in revoked /\ Ws!AddedOnce(u)])
    BY <1>4 DEF Ws!CheckThread
  <2>2. ~(u \in revoked /\ Ws!AddedOnce(u))
    BY <2>1, RevokedMayNot
  <2>3. MayWrite(memberships, threads, [pc |-> "message", thread |-> calls + 1, new |-> TRUE,
                  late |-> u \in revoked /\ Ws!AddedOnce(u)])
    BY <2>2 DEF MayWrite
  <2>. QED  BY <2>1, <2>3, Asked
<1>5. CASE Ws!CheckPost(q)
  <2>1. PICK u \in Users \cup {Ws!Owner}, thread \in threads :
          /\ Ws!MayCollaborate(u)
          /\ Ws!Request(q, [pc |-> "message", thread |-> thread, new |-> FALSE,
                            late |-> u \in revoked /\ Ws!AddedOnce(u)])
    BY <1>5 DEF Ws!CheckPost
  <2>2. ~(u \in revoked /\ Ws!AddedOnce(u))
    BY <2>1, RevokedMayNot
  <2>3. MayWrite(memberships, threads, [pc |-> "message", thread |-> thread, new |-> FALSE,
                  late |-> u \in revoked /\ Ws!AddedOnce(u)])
    BY <2>2 DEF MayWrite
  <2>. QED  BY <2>1, <2>3, Asked
<1>. QED  BY <1>1, <1>2, <1>3, <1>4, <1>5

---------------------------------------------------------------------------
(* The writes of the workspace *)

\* A write ends its request; whoever is under way may still write what it
\* could, if memberships are only added and keep their roles.
LEMMA Written ==
  ASSUME WsInv, NEW q \in Requests, Ws!End(q),
         threads \subseteq threads',
         DOMAIN memberships \subseteq DOMAIN memberships',
         \A i \in DOMAIN memberships : memberships'[i].role = memberships[i].role
  PROVE  /\ DOMAIN wsCall' = Requests
         /\ \A r \in Requests : wsCall'[r] # None =>
                                  MayWrite(memberships', threads', wsCall'[r])
<1>1. \A op : MayWrite(memberships, threads, op) => MayWrite(memberships', threads', op)
  BY DEF MayWrite
<1>2. /\ DOMAIN wsCall' = Requests
      /\ \A r \in Requests : wsCall'[r] # None => wsCall'[r] = wsCall[r]
  BY DEF Ws!End, WsInv
<1>. QED  BY <1>1, <1>2 DEF WsInv

LEMMA CreateUserKeeps ==
  ASSUME WsInv, NEW q \in Requests, Ws!CreateUser(q)
  PROVE  WsInv'
<1>1. UNCHANGED <<memberships, listed, mode, threads, messages, revoked>> /\ Ws!End(q)
  BY DEF Ws!CreateUser
<1>2. /\ DOMAIN wsCall' = Requests
      /\ \A r \in Requests : wsCall'[r] # None =>
                               MayWrite(memberships', threads', wsCall'[r])
  BY <1>1, Written DEF WsInv
<1>3. /\ \A a, b \in users' : a.login.name = b.login.name => a = b
      /\ \A a \in users' : ~(a.role = "primary" /\ a.status = "active")
  <2> DEFINE user == wsCall[q].user
  <2>1. \/ users' = users
        \/ /\ users' = users \cup {user}
           /\ \A other \in users : other.login.name # user.login.name
           /\ user.role # "primary"
    BY DEF Ws!CreateUser, Ws!SameLogin
  <2>2. /\ \A a, b \in users : a.login.name = b.login.name => a = b
        /\ \A a \in users : ~(a.role = "primary" /\ a.status = "active")
    BY DEF WsInv, WorkspaceSound, Ws!WorkspaceSound
  <2> HIDE DEF user
  <2>. QED  BY <2>1, <2>2
<1>4. WorkspaceSound'
  BY <1>1, <1>3 DEF WsInv, WorkspaceSound, Ws!WorkspaceSound
<1>. QED  BY <1>1, <1>2, <1>4 DEF WsInv, Ws!MembershipsOf

LEMMA WriteMessageKeeps ==
  ASSUME WsInv, NEW q \in Requests, Ws!WriteMessage(q)
  PROVE  WsInv'
<1>1. UNCHANGED <<users, memberships, listed, mode, revoked>> /\ Ws!End(q)
  BY DEF Ws!WriteMessage
<1>2. threads \subseteq threads'
  BY DEF Ws!WriteMessage
<1>3. /\ DOMAIN wsCall' = Requests
      /\ \A r \in Requests : wsCall'[r] # None =>
                               MayWrite(memberships', threads', wsCall'[r])
  BY <1>1, <1>2, Written DEF WsInv
<1>4. \A message \in messages' : message.thread \in threads' /\ ~message.late
  <2> DEFINE new == [thread |-> wsCall[q].thread, late |-> wsCall[q].late]
  <2>1. messages' = messages \cup {new}
    BY DEF Ws!WriteMessage
  <2>2. MayWrite(memberships, threads, wsCall[q]) /\ wsCall[q].pc = "message"
    BY DEF Ws!WriteMessage, Ws!At, WsInv
  <2>3. new.thread \in threads' /\ ~new.late
    BY <1>2, <2>2 DEF Ws!WriteMessage, MayWrite
  <2>4. \A message \in messages : message.thread \in threads /\ ~message.late
    BY DEF WsInv, WorkspaceSound, Ws!WorkspaceSound
  <2> HIDE DEF new
  <2>. QED  BY <1>2, <2>1, <2>3, <2>4
<1>5. WorkspaceSound'
  BY <1>1, <1>4 DEF WsInv, WorkspaceSound, Ws!WorkspaceSound
<1>. QED  BY <1>1, <1>3, <1>5 DEF WsInv, Ws!MembershipsOf

LEMMA AddMembershipKeeps ==
  ASSUME WsInv, NEW q \in Requests, Ws!AddMembership(q)
  PROVE  WsInv'
<1> DEFINE new == [user |-> wsCall[q].user, role |-> "supporting", may |-> wsCall[q].may]
           n == Len(memberships) + 1
           u == wsCall[q].user
<1>1. /\ UNCHANGED <<users, threads, messages, revoked>> /\ Ws!End(q)
      /\ mode' = "collaborative" /\ memberships' = Append(memberships, new)
      /\ \/ listed' = [listed EXCEPT ![u] = n]
         \/ listed[u] # 0 /\ listed' = listed
  BY DEF Ws!AddMembership
<1>2. new \in Membership /\ u \in Users
  BY DEF Ws!AddMembership, Ws!At, WsInv, MayWrite, Membership
<1>3. memberships \in Seq(Membership)
  BY DEF WsInv
<1>4. new.role = "supporting" /\ new.user = u
  OBVIOUS
<1> HIDE DEF new, u
<1>5. /\ memberships' \in Seq(Membership)
      /\ DOMAIN memberships = 1..Len(memberships) /\ Len(memberships) \in Nat
      /\ DOMAIN memberships' = 1..n /\ memberships'[n] = new
      /\ \A i \in DOMAIN memberships : memberships'[i] = memberships[i]
  BY <1>1, <1>2, <1>3
<1>6. /\ DOMAIN wsCall' = Requests
      /\ \A r \in Requests : wsCall'[r] # None =>
                               MayWrite(memberships', threads', wsCall'[r])
  BY <1>1, <1>5, Written
<1>7. WorkspaceSound'
  BY <1>1, <1>4, <1>5 DEF WsInv, WorkspaceSound, Ws!WorkspaceSound
<1>8. /\ listed' \in [Users \cup {Ws!Owner} -> {0} \cup DOMAIN memberships']
      /\ \A v \in DOMAIN listed' :
           IF listed'[v] = 0 THEN Ws!MembershipsOf(v)' = {}
                             ELSE memberships'[listed'[v]].user = v
  <2>1. /\ listed \in [Users \cup {Ws!Owner} -> {0} \cup DOMAIN memberships]
        /\ \A v \in DOMAIN listed :
             IF listed[v] = 0 THEN Ws!MembershipsOf(v) = {} ELSE memberships[listed[v]].user = v
    BY DEF WsInv
  <2>2. listed' \in [Users \cup {Ws!Owner} -> {0} \cup DOMAIN memberships']
    BY <1>1, <1>2, <1>5, <2>1
  <2>3. listed'[u] # 0 /\ (listed'[u] = n \/ listed'[u] = listed[u])
    BY <1>1, <1>2, <1>5, <2>1
  <2>4. \A v \in Users \cup {Ws!Owner} : v # u =>
          /\ listed'[v] = listed[v]
          /\ Ws!MembershipsOf(v) = {} => Ws!MembershipsOf(v)' = {}
    BY <1>1, <1>2, <1>4, <1>5, <2>1 DEF Ws!MembershipsOf
  <2>5. memberships'[listed'[u]].user = u
    BY <1>2, <1>4, <1>5, <2>1, <2>3
  <2>. QED  BY <1>5, <2>1, <2>2, <2>3, <2>4, <2>5
<1>9. \A v \in revoked' :
        \E i \in DOMAIN memberships' :
          /\ memberships'[i].user = v
          /\ memberships'[i].role = "supporting" /\ ~memberships'[i].may
  BY <1>1, <1>5 DEF WsInv
<1>. QED  BY <1>5, <1>6, <1>7, <1>8, <1>9 DEF WsInv

LEMMA UpdatePermissionsKeeps ==
  ASSUME WsInv, NEW q \in Requests, Ws!UpdatePermissions(q)
  PROVE  WsInv'
<1> DEFINE a == wsCall[q].at
           u == memberships[a].user
           new == [memberships[a] EXCEPT !.may = wsCall[q].may]
<1>1. /\ UNCHANGED <<users, listed, mode, threads, messages>> /\ Ws!End(q)
      /\ memberships' = [memberships EXCEPT ![a] = new]
      /\ revoked' = IF wsCall[q].may THEN revoked \ {u} ELSE revoked \cup {u}
  BY Zenon DEF Ws!UpdatePermissions
<1>2. MayWrite(memberships, threads, wsCall[q]) /\ wsCall[q].pc = "update"
  BY DEF Ws!UpdatePermissions, Ws!At, WsInv
<1>3. /\ memberships \in Seq(Membership)
      /\ memberships[a].role = "supporting" /\ wsCall[q].may \in BOOLEAN
      /\ a \in DOMAIN memberships
  BY <1>2 DEF MayWrite, WsInv
<1>4. memberships[a] \in Membership
  BY <1>3
<1>5. /\ new \in Membership /\ new.user = u /\ new.role = "supporting"
      /\ new.may = wsCall[q].may
  BY <1>3, <1>4 DEF Membership
<1> HIDE DEF new, a
<1>6. /\ memberships' \in Seq(Membership)
      /\ DOMAIN memberships' = DOMAIN memberships
      /\ memberships'[a] = new
      /\ \A i \in DOMAIN memberships : i # a => memberships'[i] = memberships[i]
  BY <1>1, <1>3, <1>5, ExceptSeq
<1>7. \A i \in DOMAIN memberships :
        /\ memberships'[i].user = memberships[i].user
        /\ memberships'[i].role = memberships[i].role
  BY <1>3, <1>5, <1>6
<1>8. /\ DOMAIN wsCall' = Requests
      /\ \A r \in Requests : wsCall'[r] # None =>
                               MayWrite(memberships', threads', wsCall'[r])
  BY <1>1, <1>6, <1>7, Written
<1>9. WorkspaceSound'
  BY <1>1, <1>6, <1>7 DEF WsInv, WorkspaceSound, Ws!WorkspaceSound
<1>10. /\ listed' \in [Users \cup {Ws!Owner} -> {0} \cup DOMAIN memberships']
       /\ \A v \in DOMAIN listed' :
            IF listed'[v] = 0 THEN Ws!MembershipsOf(v)' = {}
                              ELSE memberships'[listed'[v]].user = v
  BY <1>1, <1>6, <1>7 DEF WsInv, Ws!MembershipsOf
<1>11. \A v \in revoked' :
         \E i \in DOMAIN memberships' :
           /\ memberships'[i].user = v
           /\ memberships'[i].role = "supporting" /\ ~memberships'[i].may
  <2> SUFFICES ASSUME NEW v \in revoked'
               PROVE  \E i \in DOMAIN memberships' :
                        /\ memberships'[i].user = v
                        /\ memberships'[i].role = "supporting" /\ ~memberships'[i].may
    OBVIOUS
  <2>1. CASE v = u
    <3>1. ~wsCall[q].may
      BY <1>1, <2>1
    <3>. QED  BY <1>3, <1>5, <1>6, <2>1, <3>1
  <2>2. CASE v # u
    <3>1. PICK i \in DOMAIN memberships :
            /\ memberships[i].user = v
            /\ memberships[i].role = "supporting" /\ ~memberships[i].may
      BY <1>1, <2>2 DEF WsInv
    <3>2. i # a
      BY <2>2, <3>1
    <3>. QED  BY <1>6, <3>1, <3>2
  <2>. QED  BY <2>1, <2>2
<1>. QED  BY <1>6, <1>8, <1>9, <1>10, <1>11 DEF WsInv

LEMMA WsStepwise == WsInv /\ [Ws!Next]_(Ws!vars) => WsInv'
<1> SUFFICES ASSUME WsInv, [Ws!Next]_(Ws!vars) PROVE WsInv'
  OBVIOUS
<1>1. CASE UNCHANGED Ws!vars
  BY <1>1 DEF Ws!vars, WsInv, WorkspaceSound, Ws!WorkspaceSound, Ws!MembershipsOf
<1>2. CASE Ws!Next
  BY <1>2, Checks, CreateUserKeeps, AddMembershipKeeps, UpdatePermissionsKeeps,
     WriteMessageKeeps DEF Ws!Next
<1>. QED  BY <1>1, <1>2

\* Whatever requests run side by side, logins stay apart, the owner stays the
\* only active primary user, the mode follows the members, and nobody who was
\* added once posts in a request that came after their permission was taken, or
\* anybody to a thread that is not stored.
THEOREM WorkspaceSoundHolds == Ws!Spec => []WorkspaceSound
<1>1. WsInv => WorkspaceSound
  BY DEF WsInv
<1>. QED  BY WsInitially, WsStepwise, <1>1, PTL DEF Ws!Spec

---------------------------------------------------------------------------
(* The event stream *)

\* The first n things sent are the first n events, in some order.
Lists(sent, n) ==
    /\ \A k, l \in 1..n : sent[k] = sent[l] => k = l
    /\ \A i \in 1..n : \E k \in 1..n : sent[k] = i

LEMMA StillLists ==
  ASSUME NEW n \in Nat, NEW sent, NEW more, Lists(sent, n), \A k \in 1..n : more[k] = sent[k]
  PROVE  Lists(more, n)
BY DEF Lists

\* What a connection has been sent by listeners, after what it read.
Follows ==
    /\ \A k \in DOMAIN got : k > since[1] => stored[got[k]] \in Local /\ got[k] \notin unsent
    /\ \A k, l \in DOMAIN got : since[1] < k /\ k < l => got[k] < got[l] /\ got[l] > since[1]
    /\ Len(got) > since[1] => \A i \in unsent : stored[i] \in Local => i > since[1]
    /\ \A i \in DOMAIN stored :
         i > since[2] /\ stored[i] \in Local /\ i \notin unsent =>
             \E k \in DOMAIN got : got[k] = i

\* An event of this process that listeners have not got is the last one this
\* process has stored, so what they get next comes after what they got.
StreamInv ==
    /\ stored \in Seq(Local \cup Remote)
    /\ unsent \subseteq DOMAIN stored
    /\ \A i \in unsent : stored[i] \in Local =>
         \A j \in DOMAIN stored : j > i => stored[j] \notin Local
    /\ got \in Seq(DOMAIN stored)
    /\ since \in Nat \X Nat
    /\ client \in {"reading", "listening"} =>
         /\ since[1] <= Len(got) /\ since[1] <= Len(stored)
         /\ Lists(got, since[1])
    /\ client = "reading" => Len(got) = since[1]
    /\ client = "listening" => Follows

LEMMA StreamInitially == Stream!Init => StreamInv
  BY DEF Stream!Init, StreamInv

LEMMA StreamWriteKeeps ==
  ASSUME StreamInv, NEW a \in Stream!Appenders, Stream!Write(a)
  PROVE  StreamInv'
<1> DEFINE n == Len(stored) + 1
<1>1. /\ UNCHANGED <<client, since, got>> /\ stored' = Append(stored, a)
      /\ unsent' = unsent \cup {n} /\ stored \in Seq(Local \cup Remote)
      /\ a \in Local \cup Remote
  BY DEF Stream!Write, StreamInv, Stream!Appenders
<1>2. /\ stored' \in Seq(Local \cup Remote)
      /\ DOMAIN stored = 1..Len(stored) /\ Len(stored) \in Nat
      /\ DOMAIN stored' = 1..n /\ Len(stored') = n /\ stored'[n] = a
      /\ \A i \in DOMAIN stored : stored'[i] = stored[i]
  BY <1>1
<1>3. \A i \in unsent : (stored[i] \in Local) # (a \in Local)
  BY DEF Stream!Write, Stream!MayWrite
<1>4. unsent' \subseteq DOMAIN stored'
  BY <1>1, <1>2 DEF StreamInv
<1>5. \A i \in unsent' : stored'[i] \in Local =>
         \A j \in DOMAIN stored' : j > i => stored'[j] \notin Local
  <2> SUFFICES ASSUME NEW i \in unsent', stored'[i] \in Local,
                      NEW j \in DOMAIN stored', j > i
               PROVE  stored'[j] \notin Local
    OBVIOUS
  <2>1. i \in unsent
    BY <1>1, <1>2
  <2>2. i \in DOMAIN stored /\ stored[i] \in Local
    BY <1>2, <2>1 DEF StreamInv
  <2>3. CASE j = n
    BY <1>2, <1>3, <2>1, <2>2, <2>3
  <2>4. CASE j # n
    BY <1>2, <2>1, <2>2, <2>4 DEF StreamInv
  <2>. QED  BY <2>3, <2>4
<1>6. got' \in Seq(DOMAIN stored')
  <2>1. got \in Seq(DOMAIN stored) /\ DOMAIN stored \subseteq DOMAIN stored'
    BY <1>2 DEF StreamInv
  <2>. QED  BY <1>1, <2>1
<1>7. client' = "listening" => Follows'
  <2> SUFFICES ASSUME client = "listening" PROVE Follows'
    BY <1>1
  <2>1. Follows /\ got \in Seq(DOMAIN stored)
    BY DEF StreamInv
  <2>2. \A k \in DOMAIN got : got[k] \in DOMAIN stored /\ got[k] # n
    BY <1>2, <2>1
  <2>3. since[1] \in Nat /\ since[1] <= Len(stored)
    BY DEF StreamInv
  <2>4. \A k \in DOMAIN got : k > since[1] => stored'[got[k]] \in Local /\ got[k] \notin unsent'
    BY <1>1, <1>2, <2>1, <2>2 DEF Follows
  <2>5. Len(got) > since[1] => \A i \in unsent' : stored'[i] \in Local => i > since[1]
    <3> SUFFICES ASSUME Len(got) > since[1], NEW i \in unsent', stored'[i] \in Local
                 PROVE  i > since[1]
      OBVIOUS
    <3>1. CASE i = n
      BY <1>2, <2>3, <3>1
    <3>2. CASE i # n
      <4>1. i \in unsent /\ i \in DOMAIN stored
        BY <1>1, <3>2 DEF StreamInv
      <4>. QED  BY <1>2, <2>1, <4>1 DEF Follows
    <3>. QED  BY <3>1, <3>2
  <2>6. \A i \in DOMAIN stored' :
          i > since[2] /\ stored'[i] \in Local /\ i \notin unsent' =>
            \E k \in DOMAIN got : got[k] = i
    <3> SUFFICES ASSUME NEW i \in DOMAIN stored',
                        i > since[2], stored'[i] \in Local, i \notin unsent'
                 PROVE  \E k \in DOMAIN got : got[k] = i
      OBVIOUS
    <3>1. i \in DOMAIN stored /\ i \notin unsent /\ stored[i] \in Local
      BY <1>1, <1>2
    <3>. QED  BY <2>1, <3>1 DEF Follows
  <2>. QED  BY <1>1, <2>1, <2>4, <2>5, <2>6 DEF Follows
<1>8. client' \in {"reading", "listening"} =>
         /\ since'[1] <= Len(got') /\ since'[1] <= Len(stored')
         /\ Lists(got', since'[1])
  <2>1. since \in Nat \X Nat
    BY DEF StreamInv
  <2>. QED  BY <1>1, <1>2, <2>1 DEF StreamInv
<1>9. since' \in Nat \X Nat /\ (client' = "reading" => Len(got') = since'[1])
  BY <1>1 DEF StreamInv
<1>. QED  BY <1>2, <1>4, <1>5, <1>6, <1>7, <1>8, <1>9 DEF StreamInv

LEMMA StreamEmitKeeps ==
  ASSUME StreamInv, NEW i \in DOMAIN stored, Stream!Emit(i)
  PROVE  StreamInv'
<1>1. /\ UNCHANGED <<stored, client, since>> /\ unsent' = unsent \ {i} /\ i \in unsent
      /\ got \in Seq(DOMAIN stored) /\ stored \in Seq(Local \cup Remote)
  BY DEF Stream!Emit, StreamInv
<1>2. CASE stored[i] \in Local /\ client = "listening"
  <2> DEFINE n == Len(got) + 1
  <2>1. got' = Append(got, i)
    BY <1>2 DEF Stream!Emit
  <2>2. /\ got' \in Seq(DOMAIN stored') /\ Len(got) \in Nat
        /\ DOMAIN got = 1..Len(got) /\ DOMAIN got' = 1..n /\ Len(got') = n
        /\ got'[n] = i /\ \A k \in DOMAIN got : got'[k] = got[k]
    BY <1>1, <2>1
  <2>3. Follows /\ since \in Nat \X Nat /\ since[1] <= Len(got)
    BY <1>2 DEF StreamInv
  <2>4. \A k \in DOMAIN got : k > since[1] => got[k] < i
    <3> SUFFICES ASSUME NEW k \in DOMAIN got, k > since[1] PROVE got[k] < i
      OBVIOUS
    <3>1. stored[got[k]] \in Local /\ got[k] # i /\ got[k] \in DOMAIN stored
      BY <1>1, <2>3 DEF Follows
    <3>2. ~(got[k] > i)
      BY <1>1, <1>2, <3>1 DEF StreamInv
    <3>. QED  BY <1>1, <3>1, <3>2
  <2>5. Follows'
    <3>0. ASSUME NEW j \in unsent', stored'[j] \in Local PROVE FALSE
      <4>1. j \in unsent /\ j # i /\ stored[j] \in Local /\ j \in DOMAIN stored
        BY <1>1, <3>0 DEF StreamInv
      <4>2. ~(j > i) /\ ~(i > j)
        BY <1>1, <1>2, <4>1 DEF StreamInv
      <4>. QED  BY <1>1, <4>1, <4>2
    <3>1. ASSUME NEW k \in DOMAIN got', k > since'[1]
          PROVE  stored'[got'[k]] \in Local /\ got'[k] \notin unsent'
      <4>1. CASE k = n
        BY <1>1, <1>2, <2>2, <4>1
      <4>2. CASE k # n
        <5>1. k \in DOMAIN got /\ k > since[1]
          BY <1>1, <2>2, <3>1, <4>2
        <5>2. stored[got[k]] \in Local /\ got[k] \notin unsent
          BY <2>3, <5>1 DEF Follows
        <5>. QED  BY <1>1, <2>2, <5>1, <5>2
      <4>. QED  BY <4>1, <4>2
    <3>4. ASSUME NEW k \in DOMAIN got', NEW l \in DOMAIN got', since'[1] < k, k < l
          PROVE  got'[k] < got'[l] /\ got'[l] > since'[1]
      <4>1. CASE l = n
        <5>1. k \in DOMAIN got /\ k > since[1] /\ Len(got) > since[1]
          BY <1>1, <2>2, <2>3, <3>4, <4>1
        <5>. QED  BY <1>1, <1>2, <2>2, <2>3, <2>4, <4>1, <5>1 DEF Follows
      <4>2. CASE l # n
        <5>1. k \in DOMAIN got /\ l \in DOMAIN got
          BY <2>2, <3>4, <4>2
        <5>. QED  BY <1>1, <2>2, <2>3, <3>4, <5>1 DEF Follows
      <4>. QED  BY <4>1, <4>2
    <3>2. ASSUME NEW j \in DOMAIN stored',
                 j > since'[2], stored'[j] \in Local, j \notin unsent'
          PROVE  \E k \in DOMAIN got' : got'[k] = j
      BY <1>1, <2>2, <2>3, <3>2 DEF Follows
    <3>. QED  BY <3>0, <3>1, <3>2, <3>4 DEF Follows
  <2>6. /\ since'[1] <= Len(got') /\ since'[1] <= Len(stored')
        /\ Lists(got', since'[1])
    <3>1. /\ since[1] <= Len(stored) /\ since[1] \in Nat
          /\ Lists(got, since[1])
      BY <1>2, <2>3 DEF StreamInv
    <3>2. \A k \in 1..since[1] : got'[k] = got[k]
      BY <2>2, <2>3, <3>1
    <3>3. since'[1] <= Len(got') /\ since'[1] <= Len(stored')
      BY <1>1, <2>2, <2>3, <3>1
    <3>4. Lists(got', since[1])
      BY <3>1, <3>2, StillLists
    <3>. QED  BY <1>1, <3>3, <3>4
  <2>7. /\ stored' \in Seq(Local \cup Remote) /\ since' \in Nat \X Nat
        /\ unsent' \subseteq DOMAIN stored'
        /\ \A j \in unsent' : stored'[j] \in Local =>
             \A k \in DOMAIN stored' : k > j => stored'[k] \notin Local
    BY <1>1 DEF StreamInv
  <2>. QED  BY <1>1, <1>2, <2>2, <2>5, <2>6, <2>7 DEF StreamInv
<1>3. CASE ~(stored[i] \in Local /\ client = "listening")
  <2>1. got' = got
    BY <1>3 DEF Stream!Emit
  <2>2. client = "listening" => Follows'
    BY <1>1, <1>3, <2>1 DEF StreamInv, Follows
  <2>. QED  BY <1>1, <2>1, <2>2 DEF StreamInv
<1>. QED  BY <1>2, <1>3

LEMMA StreamClientKeeps ==
  ASSUME StreamInv, Stream!Read \/ Stream!Subscribe \/ Stream!Close
  PROVE  StreamInv'
<1>1. CASE Stream!Read
  <2>1. /\ UNCHANGED <<stored, unsent>> /\ client' = "reading"
        /\ got' \in Stream!Listings /\ since' = <<Len(stored), 0>>
    BY <1>1 DEF Stream!Read
  <2>2. stored \in Seq(Local \cup Remote) /\ DOMAIN stored = 1..Len(stored) /\ Len(stored) \in Nat
    BY DEF StreamInv
  <2>3. /\ got' \in Seq(DOMAIN stored') /\ Len(got') = Len(stored)
        /\ Lists(got', Len(stored))
    <3>1. got' \in [1..Len(stored) -> DOMAIN stored]
      BY <2>1, <2>2 DEF Stream!Listings
    <3>2. Lists(got', Len(stored))
      BY <2>1, <2>2 DEF Stream!Listings, Lists
    <3>3. got' \in Seq(DOMAIN stored) /\ Len(got') = Len(stored)
      BY <2>2, <3>1
    <3>. QED  BY <2>1, <3>2, <3>3
  <2>4. since' \in Nat \X Nat /\ since'[1] = Len(stored)
    BY <2>1, <2>2
  <2>. QED  BY <2>1, <2>2, <2>3, <2>4 DEF StreamInv
<1>2. CASE Stream!Subscribe
  <2>1. /\ UNCHANGED <<stored, unsent, got>> /\ client = "reading" /\ client' = "listening"
        /\ since' = [since EXCEPT ![2] = Len(stored)]
    BY <1>2 DEF Stream!Subscribe
  <2>2. stored \in Seq(Local \cup Remote) /\ DOMAIN stored = 1..Len(stored) /\ Len(stored) \in Nat
    BY DEF StreamInv
  <2>3. since' = <<since[1], Len(stored)>> /\ since[1] \in Nat
    BY <2>1 DEF StreamInv
  <2>4. since' \in Nat \X Nat /\ since'[1] = since[1] /\ since'[2] = Len(stored)
    BY <2>2, <2>3
  <2>5. Len(got) = since[1] /\ got \in Seq(DOMAIN stored)
    BY <2>1 DEF StreamInv
  <2>6. Follows'
    BY <2>1, <2>2, <2>4, <2>5 DEF Follows
  <2>. QED  BY <2>1, <2>4, <2>6 DEF StreamInv
<1>3. CASE Stream!Close
  BY <1>3 DEF Stream!Close, StreamInv
<1>. QED  BY <1>1, <1>2, <1>3

LEMMA StreamStepwise == StreamInv /\ [Stream!Next]_(Stream!vars) => StreamInv'
<1> SUFFICES ASSUME StreamInv, [Stream!Next]_(Stream!vars) PROVE StreamInv'
  OBVIOUS
<1>1. CASE UNCHANGED Stream!vars
  BY <1>1 DEF Stream!vars, StreamInv, Follows
<1>2. CASE Stream!Next
  BY <1>2, StreamWriteKeeps, StreamEmitKeeps, StreamClientKeeps DEF Stream!Next
<1>. QED  BY <1>1, <1>2

\* Whoever appends, however often the client connects and however the store
\* lists its events: the client gets each event that was stored when it read, and
\* what this process stores from its registration on in the order of the store.
THEOREM StreamCompleteHolds == Stream!Spec => []StreamComplete
<1>1. StreamInv => StreamComplete
  <2> SUFFICES ASSUME StreamInv, client = "listening"
               PROVE  Stream!StreamComplete
    BY DEF StreamComplete, Stream!StreamComplete
  <2>1. /\ Follows /\ since[1] \in Nat /\ since[1] <= Len(got)
        /\ Lists(got, since[1])
        /\ DOMAIN got = 1..Len(got) /\ Len(got) \in Nat
        /\ DOMAIN stored = 1..Len(stored) /\ Len(stored) \in Nat
    BY DEF StreamInv
  <2>2. ASSUME NEW k \in (since[1] + 1)..Len(got), NEW l \in (since[1] + 1)..Len(got), k < l
        PROVE  got[k] < got[l] /\ got[l] > since[1]
    BY <2>1, <2>2 DEF Follows
  <2>3. ASSUME NEW i \in DOMAIN stored,
               i <= since[1] \/ (i > since[2] /\ stored[i] \in Local /\ i \notin unsent)
        PROVE  \E k \in DOMAIN got : got[k] = i
    <3>1. CASE i <= since[1]
      <4>1. PICK k \in 1..since[1] : got[k] = i
        BY <2>1, <3>1 DEF Lists
      <4>2. k \in DOMAIN got
        BY <2>1
      <4>. QED  BY <4>1, <4>2
    <3>2. CASE i > since[2] /\ stored[i] \in Local /\ i \notin unsent
      BY <2>1, <3>2 DEF Follows
    <3>. QED  BY <2>3, <3>1, <3>2
  <2>. QED  BY <2>1, <2>2, <2>3 DEF Stream!StreamComplete, Lists
<1>. QED  BY StreamInitially, StreamStepwise, <1>1, PTL DEF Stream!Spec

---------------------------------------------------------------------------
(* The release gate *)

\* While nothing is pending, everybody who booted had the prompts whose
\* signature is stored.
GateInv ==
    /\ proc \in [Procs -> [pc : {"down", "loaded", "up"}, prompts : Versions \cup {None}]]
    /\ DOMAIN eval = Procs
    /\ signature = None => booted = {}
    /\ ~pending => booted \subseteq {signature}
    /\ specs = signature
    /\ \A p \in Procs :
         /\ proc[p].pc = "loaded" => proc[p].prompts \in Versions
         /\ proc[p].pc = "up" => proc[p].prompts \in booted
    /\ top # None => top.id \in evidence
    /\ files \in Versions

LEMMA GateInitially == Gate!Init => GateInv
  BY DEF Gate!Init, GateInv

\* What a boot leaves in the store.
LEMMA SyncKeeps ==
  ASSUME GateInv, NEW p \in Procs, Gate!SyncStore(p)
  PROVE  GateInv'
<1> DEFINE v == proc[p].prompts
           new == [proc[p] EXCEPT !.pc = "up"]
<1>1. /\ UNCHANGED <<files, eval, evals, evidence, top>>
      /\ proc[p].pc = "loaded" /\ signature' = v /\ specs' = v
      /\ booted' = booted \cup {v}
      /\ proc' = [proc EXCEPT ![p] = new]
  BY Zenon DEF Gate!SyncStore
<1>2. pending' = (signature # None /\ (signature # v \/ pending))
  BY Zenon DEF Gate!SyncStore, Gate!PendingAfter
<1>3. v \in Versions /\ v # None
  BY <1>1, SignatureAssumption DEF GateInv
<1>4. ~pending' => booted' \subseteq {signature'}
  BY <1>1, <1>2 DEF GateInv
<1>5. /\ new \in [pc : {"down", "loaded", "up"}, prompts : Versions \cup {None}]
      /\ new.pc = "up" /\ new.prompts = v
  BY <1>3 DEF GateInv
<1> HIDE DEF new, v
<1>6. /\ proc' \in [Procs -> [pc : {"down", "loaded", "up"}, prompts : Versions \cup {None}]]
      /\ proc'[p] = new /\ \A r \in Procs : r # p => proc'[r] = proc[r]
  BY <1>1, <1>5 DEF GateInv
<1>7. \A r \in Procs :
        /\ proc'[r].pc = "loaded" => proc'[r].prompts \in Versions
        /\ proc'[r].pc = "up" => proc'[r].prompts \in booted'
  BY <1>1, <1>5, <1>6 DEF GateInv
<1>. QED  BY <1>1, <1>3, <1>4, <1>6, <1>7 DEF GateInv

LEMMA GateStepwise == GateInv /\ [Gate!Next]_(Gate!vars) => GateInv'
<1> SUFFICES ASSUME GateInv, [Gate!Next]_(Gate!vars) PROVE GateInv'
  OBVIOUS
<1>1. CASE UNCHANGED Gate!vars
  BY <1>1 DEF Gate!vars, GateInv
<1>2. CASE Gate!ChangeFiles
  BY <1>2 DEF Gate!ChangeFiles, Gate!store, GateInv
<1>3. ASSUME NEW p \in Procs, Gate!LoadPrompts(p) PROVE GateInv'
  BY <1>3 DEF Gate!LoadPrompts, Gate!store, GateInv
<1>4. ASSUME NEW p \in Procs, Gate!Down(p) PROVE GateInv'
  BY <1>4 DEF Gate!Down, Gate!store, GateInv
<1>5. ASSUME NEW p \in Procs, Gate!BeginEvaluation(p) PROVE GateInv'
  BY <1>5 DEF Gate!BeginEvaluation, Gate!store, GateInv
<1>6. ASSUME NEW p \in Procs, Gate!WriteEvidence(p) PROVE GateInv'
  BY <1>6 DEF Gate!WriteEvidence, Gate!store, GateInv
<1>7. ASSUME NEW p \in Procs, Gate!RecordEvaluation(p) \/ Gate!EvaluationFails(p)
      PROVE  GateInv'
  BY <1>7 DEF Gate!RecordEvaluation, Gate!EvaluationFails, Gate!store, GateInv
<1>. QED  BY <1>1, <1>2, <1>3, <1>4, <1>5, <1>6, <1>7, SyncKeeps DEF Gate!Next

\* However boots, changes of the prompts and evaluations interleave, the gate
\* of a process passes only if whoever booted had its prompts, the prompt specs
\* tell of them, and the evaluation listed first is retained and met all they
\* demand; and then it passes in every process that is up.
THEOREM GateHonestHolds == Gate!Spec => []GateHonest
<1>1. GateInv => GateHonest
  <2> SUFFICES ASSUME GateInv, NEW p \in Procs, proc[p].pc = "up", Gate!GatePassed(p)
               PROVE  /\ booted = {proc[p].prompts} /\ specs = proc[p].prompts
                      /\ \A q \in Procs : proc[q].pc = "up" => Gate!GatePassed(q)
                      /\ top.id \in evidence
                      /\ Thresholds[proc[p].prompts] \subseteq top.met
    BY DEF GateHonest, Gate!GateHonest
  <2>1. booted = {proc[p].prompts} /\ signature = proc[p].prompts
    BY DEF GateInv, Gate!GatePassed
  <2>2. top.id \in evidence
    BY DEF GateInv, Gate!GatePassed
  <2>3. \A domain \in Thresholds[proc[p].prompts] : domain \in top.met
    BY DEF Gate!GatePassed, Gate!ThresholdStatus
  <2>4. ASSUME NEW q \in Procs, proc[q].pc = "up" PROVE Gate!GatePassed(q)
    <3>1. proc[q].prompts = proc[p].prompts
      BY <2>1, <2>4 DEF GateInv
    <3>. QED  BY <3>1 DEF Gate!GatePassed
  <2>. QED  BY <2>1, <2>2, <2>3, <2>4 DEF GateInv
<1>. QED  BY GateInitially, GateStepwise, <1>1, PTL DEF Gate!Spec

---------------------------------------------------------------------------
(* The catalog *)

Seens == UNION {[S -> Nat] : S \in SUBSET Entries}
Steps == {"idle", "fetch", "reset", "write", "list", "ref", "read", "stored"}
CatCall == [pc : Steps, target : Nat, ref : Nat \cup {None}, after : Nat, seen : Seens]

\* A commit that was looked up after a sync was through is no older.
Later(after, commit, sync) ==
    after >= sync.at /\ commit # None /\ sync.commit # None => commit >= sync.commit

Honest ==
    {x \in [commit : Nat \cup {None}, entries : [Entries -> Nat], at : Nat, after : Nat] :
        Cat!NoOlder(x.entries, x.commit)}

\* The syncs that are stored, or queued to be.
Syncs == {queue[i].catalog : i \in DOMAIN queue} \cup ({catStored, pinned} \ {None})

\* Nothing in the checkout is older than HEAD, or newer than what was fetched.
CheckoutInv ==
    /\ main \in Nat /\ origin \in Nat /\ head \in Nat /\ tree \in [Entries -> Nat]
    /\ origin <= main /\ head <= origin
    /\ \A f \in Entries : head <= tree[f] /\ tree[f] <= origin

\* Whoever resets holds the lock, and resets to what is not older than any
\* file; whoever reads has read nothing older than the commit it looked up.
CallInv(c) ==
    /\ call[c].pc = "write" =>
         /\ lock = c
         /\ head <= call[c].target /\ call[c].target <= origin
         /\ \A f \in Entries : tree[f] <= call[c].target
    /\ call[c].pc \notin {"read", "stored"} => DOMAIN call[c].seen = {}
    /\ call[c].pc = "read" =>
         /\ call[c].after <= clock
         /\ \A x \in Syncs : Later(call[c].after, call[c].ref, x)
         /\ call[c].ref # None =>
              /\ call[c].ref <= head
              /\ \A f \in DOMAIN call[c].seen : call[c].seen[f] >= call[c].ref

\* The write that was queued last is of the catalog that is served.
QueueInv ==
    /\ queue \in Seq([by : Cat!Callers, catalog : Honest])
    /\ memory \in Honest \cup {None} /\ catStored \in Honest \cup {None}
    /\ queue # <<>> => queue[Len(queue)].catalog = memory
    /\ memory # None /\ queue = <<>> /\ ~failed => catStored = memory
    /\ pinned \in Honest \cup {None}

\* No commit is younger than HEAD, none older than that of a sync that was
\* through when it was looked up.
OrderInv ==
    /\ clock \in Nat
    /\ \A x \in Syncs :
         /\ x.at <= clock /\ x.after <= clock
         /\ x.commit # None => x.commit <= head
    /\ \A x, y \in Syncs : Later(y.after, y.commit, x)

CatInv ==
    /\ CheckoutInv
    /\ call \in [Cat!Callers -> CatCall]
    /\ \A c \in Cat!Callers : CallInv(c)
    /\ QueueInv
    /\ OrderInv

LEMMA IdleCall == Cat!Idle \in CatCall /\ DOMAIN Cat!Idle.seen = {} /\ Cat!Idle.pc = "idle"
<1>1. <<>> \in [{} -> Nat] /\ DOMAIN <<>> = {}
  OBVIOUS
<1>2. PICK none : none = <<>> /\ none \in Seens /\ DOMAIN none = {}
  BY <1>1 DEF Seens
<1>3. Cat!Idle = [pc |-> "idle", target |-> 0, ref |-> 0, after |-> 0, seen |-> none]
  BY <1>2 DEF Cat!Idle
<1>. QED  BY <1>2, <1>3 DEF CatCall, Steps

LEMMA CatInitially == Cat!Init => CatInv
<1> SUFFICES ASSUME Cat!Init PROVE CatInv
  OBVIOUS
<1>1. CheckoutInv
  BY DEF Cat!Init, CheckoutInv
<1>2. call \in [Cat!Callers -> CatCall] /\ \A c \in Cat!Callers : call[c] = Cat!Idle
  BY IdleCall DEF Cat!Init
<1>3. \A c \in Cat!Callers : CallInv(c)
  BY <1>2, IdleCall DEF CallInv
<1>4. QueueInv
  BY DEF Cat!Init, QueueInv
<1>5. OrderInv
  <2>1. Syncs = {} /\ clock = 0
    BY DEF Cat!Init, Syncs
  <2>. QED  BY <2>1 DEF OrderInv
<1>. QED  BY <1>1, <1>2, <1>3, <1>4, <1>5 DEF CatInv

\* Only one caller moves at a time, and what it does to the checkout is done
\* forwards and under the lock.
LEMMA CallerMoves ==
  ASSUME CatInv, NEW c \in Cat!Callers, NEW new \in CatCall,
         call' = [call EXCEPT ![c] = new],
         CheckoutInv', head <= head', origin <= origin',
         \A d \in Cat!Callers : d # c /\ lock = d =>
            lock' = lock /\ tree' = tree /\ head' = head,
         QueueInv', OrderInv', clock <= clock',
         \A x \in Syncs' : x \in Syncs \/ (x \in Honest /\ x.at > clock),
         CallInv(c)'
  PROVE  CatInv'
<1>1. /\ call' \in [Cat!Callers -> CatCall]
      /\ \A d \in Cat!Callers : d # c => call'[d] = call[d]
  BY DEF CatInv
<1>2. ASSUME NEW d \in Cat!Callers, d # c PROVE CallInv(d)'
  <2>1. call'[d] = call[d] /\ call[d] \in CatCall /\ CallInv(d)
    BY <1>1, <1>2 DEF CatInv
  <2>2. /\ call[d].target \in Nat /\ call[d].ref \in Nat \cup {None} /\ call[d].after \in Nat
        /\ clock \in Nat /\ clock' \in Nat
        /\ head \in Nat /\ origin \in Nat /\ head' \in Nat /\ origin' \in Nat
    BY <2>1 DEF CatInv, CheckoutInv, CatCall, OrderInv
  <2>3. CASE call[d].pc = "write"
    BY <1>2, <2>1, <2>2, <2>3 DEF CallInv
  <2>4. CASE call[d].pc = "read"
    <3>1. \A x \in Syncs' : Later(call[d].after, call[d].ref, x)
      <4>1. call[d].after <= clock /\ \A x \in Syncs : Later(call[d].after, call[d].ref, x)
        BY <2>1, <2>4 DEF CallInv
      <4>2. \A x : x \in Honest /\ x.at > clock => Later(call[d].after, call[d].ref, x)
        BY <2>2, <4>1 DEF Later, Honest
      <4>. QED  BY <4>1, <4>2
    <3>. QED  BY <2>1, <2>2, <2>4, <3>1 DEF CallInv
  <2>5. CASE call[d].pc \notin {"write", "read"}
    BY <2>1, <2>2, <2>5 DEF CallInv
  <2>. QED  BY <2>3, <2>4, <2>5
<1>. QED  BY <1>1, <1>2 DEF CatInv

LEMMA SyncsHonest == ASSUME CatInv PROVE \A x \in Syncs : x \in Honest
<1> DEFINE Writes == [by : Cat!Callers, catalog : Honest]
<1>1. queue \in Seq(Writes)
  BY DEF CatInv, QueueInv
<1>2. \A w \in Writes : w.catalog \in Honest
  OBVIOUS
<1> HIDE DEF Writes
<1>3. \A k \in DOMAIN queue : queue[k] \in Writes
  BY <1>1
<1>. QED  BY <1>2, <1>3 DEF Syncs, CatInv, QueueInv

\* A step that stores and queues nothing new, by which HEAD goes forward.
LEMMA OrderKept ==
  ASSUME CatInv, Syncs' \subseteq Syncs, clock' = clock, head' \in Nat, head <= head'
  PROVE  OrderInv' /\ clock <= clock' /\ \A x \in Syncs' : x \in Syncs \/ (x \in Honest /\ x.at > clock)
<1>1. OrderInv /\ head \in Nat /\ clock \in Nat
  BY DEF CatInv, CheckoutInv, OrderInv
<1>2. \A x \in Syncs : x \in Honest
  BY SyncsHonest
<1>3. \A x \in Syncs' : x.commit # None => x.commit <= head'
  BY <1>1, <1>2 DEF OrderInv, Honest
<1>. QED  BY <1>1, <1>3 DEF OrderInv, Later

\* What GoTo makes of a call.
LEMMA GoneTo ==
  ASSUME CatInv, NEW c \in Cat!Callers, NEW pc \in Steps, Cat!GoTo(c, pc)
  PROVE  \E new \in CatCall :
           /\ call' = [call EXCEPT ![c] = new] /\ call'[c] = new
           /\ new.pc = pc /\ new.target = call[c].target
           /\ new.ref = call[c].ref /\ new.after = call[c].after /\ new.seen = call[c].seen
<1> DEFINE new == [call[c] EXCEPT !.pc = pc]
<1>1. call[c] \in CatCall /\ call \in [Cat!Callers -> CatCall]
  BY DEF CatInv
<1>2. /\ new \in CatCall /\ new.pc = pc /\ new.target = call[c].target
      /\ new.ref = call[c].ref /\ new.after = call[c].after /\ new.seen = call[c].seen
  BY <1>1 DEF CatCall
<1>3. call' = [call EXCEPT ![c] = new]
  BY Zenon DEF Cat!GoTo
<1> HIDE DEF new
<1>. QED  BY <1>1, <1>2, <1>3

LEMMA Ended ==
  ASSUME CatInv, NEW c \in Cat!Callers, Cat!End(c)
  PROVE  /\ call' = [call EXCEPT ![c] = Cat!Idle] /\ call'[c] = Cat!Idle
         /\ CallInv(c)'
<1>1. call' = [call EXCEPT ![c] = Cat!Idle] /\ call'[c] = Cat!Idle
  BY DEF Cat!End, CatInv
<1>. QED  BY <1>1, IdleCall DEF CallInv

LEMMA FetchSteps ==
  ASSUME CatInv, NEW c \in Cat!Callers,
         Cat!BeginCheckout(c) \/ Cat!Fetch(c) \/ Cat!BeginSync(c)
  PROVE  CatInv'
<1>1. UNCHANGED <<memory, queue, catStored, pinned, clock, failed, main, tree, head, lock>>
  BY DEF Cat!BeginCheckout, Cat!Fetch, Cat!BeginSync, Cat!kept, Cat!checkout
<1>2. QueueInv'
  BY <1>1 DEF CatInv, QueueInv
<1>3. CheckoutInv' /\ origin <= origin' /\ head <= head'
  BY <1>1 DEF Cat!BeginCheckout, Cat!Fetch, Cat!BeginSync, Cat!checkout, CatInv, CheckoutInv
<1>4. PICK pc \in {"fetch", "reset", "ref"} : Cat!GoTo(c, pc)
  BY DEF Cat!BeginCheckout, Cat!Fetch, Cat!BeginSync
<1>5. call[c].pc \in {"idle", "fetch", "list"}
  BY DEF Cat!BeginCheckout, Cat!Fetch, Cat!BeginSync
<1>6. PICK new \in CatCall :
           /\ call' = [call EXCEPT ![c] = new] /\ call'[c] = new
           /\ new.pc = pc /\ new.target = call[c].target
           /\ new.ref = call[c].ref /\ new.after = call[c].after /\ new.seen = call[c].seen
  <2>1. pc \in Steps
    BY <1>4 DEF Steps
  <2>. QED  BY <1>4, <2>1, GoneTo, Zenon
<1>7. CallInv(c)'
  BY <1>4, <1>5, <1>6 DEF CatInv, CallInv
<1>8. Syncs' = Syncs /\ head' \in Nat
  BY <1>1 DEF Syncs, CatInv, CheckoutInv
<1>. QED  BY <1>1, <1>2, <1>3, <1>6, <1>7, <1>8, CallerMoves, OrderKept

LEMMA BeginResetKeeps ==
  ASSUME CatInv, NEW c \in Cat!Callers, Cat!BeginReset(c)
  PROVE  CatInv'
<1> DEFINE new == [call[c] EXCEPT !.pc = "write", !.target = origin]
<1>1. /\ UNCHANGED <<memory, queue, catStored, pinned, clock, failed, main, origin, tree, head>>
      /\ call[c].pc = "reset" /\ lock = None /\ lock' = c
  BY DEF Cat!BeginReset, Cat!kept
<1>2. call[c] \in CatCall /\ call \in [Cat!Callers -> CatCall] /\ CallInv(c) /\ CheckoutInv
  BY DEF CatInv
<1>3. /\ new \in CatCall /\ new.pc = "write" /\ new.target = origin
      /\ new.seen = call[c].seen
  BY <1>2 DEF CatCall, CheckoutInv, Steps
<1>4. call' = [call EXCEPT ![c] = new]
  BY DEF Cat!BeginReset
<1> HIDE DEF new
<1>5. call'[c] = new
  BY <1>2, <1>4
<1>6. CheckoutInv' /\ QueueInv' /\ origin <= origin' /\ head <= head'
  BY <1>1 DEF CatInv, CheckoutInv, QueueInv
<1>7. CallInv(c)'
  BY <1>1, <1>2, <1>3, <1>5 DEF CallInv, CheckoutInv
<1>8. \A d \in Cat!Callers : lock # d
  BY <1>1, CallersAssumption DEF Cat!Callers
<1>9. Syncs' = Syncs /\ head' \in Nat
  BY <1>1, <1>2 DEF Syncs, CheckoutInv
<1>. QED  BY <1>1, <1>3, <1>4, <1>6, <1>7, <1>8, <1>9, CallerMoves, OrderKept

LEMMA ResetFileKeeps ==
  ASSUME CatInv, NEW c \in Cat!Callers, Cat!ResetFile(c)
  PROVE  CatInv'
<1>1. PICK f \in Entries : tree' = [tree EXCEPT ![f] = call[c].target]
  BY DEF Cat!ResetFile
<1>2. /\ UNCHANGED <<memory, queue, catStored, pinned, clock, failed, main, origin, head, lock, call>>
      /\ call[c].pc = "write"
  BY DEF Cat!ResetFile, Cat!kept
<1>3. call[c] \in CatCall /\ call \in [Cat!Callers -> CatCall] /\ CallInv(c) /\ CheckoutInv
  BY DEF CatInv
<1>4. /\ lock = c /\ call[c].target \in Nat
      /\ head <= call[c].target /\ call[c].target <= origin
      /\ \A g \in Entries : tree[g] <= call[c].target
  BY <1>2, <1>3 DEF CallInv, CatCall
<1>5. CheckoutInv' /\ QueueInv' /\ origin <= origin' /\ head <= head'
  BY <1>1, <1>2, <1>4 DEF CatInv, CheckoutInv, QueueInv
<1>6. CallInv(c)'
  BY <1>1, <1>2, <1>3, <1>4 DEF CallInv, CheckoutInv
<1>7. call' = [call EXCEPT ![c] = call[c]]
  BY <1>2, <1>3
<1>8. Syncs' = Syncs /\ head' \in Nat
  BY <1>2, <1>3 DEF Syncs, CheckoutInv
<1>. QED  BY <1>2, <1>3, <1>4, <1>5, <1>6, <1>7, <1>8, CallerMoves, OrderKept

LEMMA MoveHeadKeeps ==
  ASSUME CatInv, NEW c \in Cat!Callers, Cat!MoveHead(c)
  PROVE  CatInv'
<1>1. /\ UNCHANGED <<memory, queue, catStored, pinned, clock, failed, main, origin, tree>>
      /\ call[c].pc = "write" /\ head' = call[c].target
      /\ \A f \in Entries : tree[f] = call[c].target
  BY DEF Cat!MoveHead, Cat!kept
<1>2. call[c] \in CatCall /\ CallInv(c) /\ CheckoutInv
  BY DEF CatInv
<1>3. /\ lock = c /\ call[c].target \in Nat
      /\ head <= call[c].target /\ call[c].target <= origin
  BY <1>1, <1>2 DEF CallInv, CatCall
<1>4. CheckoutInv' /\ QueueInv' /\ origin <= origin' /\ head <= head'
  BY <1>1, <1>2, <1>3 DEF CatInv, CheckoutInv, QueueInv
<1>7. Syncs' = Syncs /\ head' \in Nat
  BY <1>1, <1>3 DEF Syncs
<1>8. OrderInv' /\ clock <= clock' /\ \A x \in Syncs' : x \in Syncs \/ (x \in Honest /\ x.at > clock)
  BY <1>1, <1>4, <1>7, OrderKept
<1>5. CASE Cat!End(c)
  BY <1>3, <1>4, <1>5, <1>8, Ended, IdleCall, CallerMoves
<1>6. CASE Cat!GoTo(c, "list")
  <2>1. PICK new \in CatCall :
           /\ call' = [call EXCEPT ![c] = new] /\ call'[c] = new
           /\ new.pc = "list" /\ new.target = call[c].target
           /\ new.ref = call[c].ref /\ new.after = call[c].after /\ new.seen = call[c].seen
    <3>1. "list" \in Steps
      BY DEF Steps
    <3>. QED  BY <1>6, <3>1, GoneTo, Zenon
  <2>2. CallInv(c)'
    BY <1>1, <1>2, <2>1 DEF CallInv
  <2>. QED  BY <1>3, <1>4, <1>8, <2>1, <2>2, CallerMoves
<1>. QED  BY <1>5, <1>6 DEF Cat!MoveHead

LEMMA FailureKeeps ==
  ASSUME CatInv, NEW c \in Cat!Callers, Cat!CheckoutFails(c) \/ Cat!ReadFails(c)
  PROVE  CatInv'
<1>1. /\ UNCHANGED <<memory, queue, catStored, pinned, clock, failed, main, origin, tree, head>>
      /\ Cat!End(c) /\ (lock = c \/ lock' = lock)
  BY DEF Cat!CheckoutFails, Cat!ReadFails, Cat!kept, Cat!checkout
<1>2. CheckoutInv' /\ QueueInv' /\ origin <= origin' /\ head <= head'
  BY <1>1 DEF CatInv, CheckoutInv, QueueInv
<1>3. Syncs' = Syncs /\ head' \in Nat
  BY <1>1 DEF Syncs, CatInv, CheckoutInv
<1>. QED  BY <1>1, <1>2, <1>3, Ended, IdleCall, CallerMoves, OrderKept

LEMMA ResolveRefKeeps ==
  ASSUME CatInv, NEW c \in Cat!Callers, Cat!ResolveRef(c)
  PROVE  CatInv'
<1>0. PICK ref \in {head, None} :
        call' = [call EXCEPT ![c].pc = "read", ![c].ref = ref, ![c].after = clock]
  BY Zenon DEF Cat!ResolveRef
<1> DEFINE new == [call[c] EXCEPT !.pc = "read", !.ref = ref, !.after = clock]
<1>1. /\ UNCHANGED <<memory, queue, catStored, pinned, clock, failed, main, origin, tree, head, lock>>
      /\ call[c].pc = "ref"
  BY DEF Cat!ResolveRef, Cat!kept, Cat!checkout
<1>2. /\ call[c] \in CatCall /\ call \in [Cat!Callers -> CatCall] /\ CallInv(c) /\ CheckoutInv
      /\ OrderInv
  BY DEF CatInv
<1>3. /\ new \in CatCall /\ new.pc = "read" /\ new.ref = ref /\ new.after = clock
      /\ new.seen = call[c].seen
  BY <1>2 DEF CatCall, CheckoutInv, Steps, OrderInv
<1>4. call' = [call EXCEPT ![c] = new]
  BY <1>0
<1> HIDE DEF new
<1>5. call'[c] = new
  BY <1>2, <1>4
<1>6. CheckoutInv' /\ QueueInv' /\ origin <= origin' /\ head <= head'
  BY <1>1 DEF CatInv, CheckoutInv, QueueInv
<1>7. Syncs' = Syncs /\ head' \in Nat
  BY <1>1, <1>2 DEF Syncs, CheckoutInv
<1>8. \A x \in Syncs : Later(clock, ref, x)
  BY <1>2 DEF OrderInv, Later
<1>9. DOMAIN call[c].seen = {}
  BY <1>1, <1>2 DEF CallInv
<1>10. CallInv(c)'
  BY <1>1, <1>2, <1>3, <1>5, <1>7, <1>8, <1>9 DEF CallInv, CheckoutInv, OrderInv
<1>. QED  BY <1>1, <1>3, <1>4, <1>6, <1>7, <1>10, CallerMoves, OrderKept

LEMMA ReadFileKeeps ==
  ASSUME CatInv, NEW c \in Cat!Callers, Cat!ReadFile(c)
  PROVE  CatInv'
<1>1. PICK f \in Entries \ DOMAIN call[c].seen :
        call' = [call EXCEPT ![c].seen =
                    [g \in DOMAIN @ \cup {f} |-> IF g = f THEN tree[f] ELSE @[g]]]
  BY Zenon DEF Cat!ReadFile
<1> DEFINE old == call[c].seen
           seen == [g \in DOMAIN old \cup {f} |-> IF g = f THEN tree[f] ELSE old[g]]
           new == [call[c] EXCEPT !.seen = seen]
<1>2. /\ UNCHANGED <<memory, queue, catStored, pinned, clock, failed, main, origin, tree, head, lock>>
      /\ call[c].pc = "read"
  BY Zenon DEF Cat!ReadFile, Cat!kept, Cat!checkout
<1>3. call[c] \in CatCall /\ call \in [Cat!Callers -> CatCall] /\ CallInv(c) /\ CheckoutInv
  BY DEF CatInv
<1>4. old \in Seens /\ tree[f] \in Nat
  BY <1>3 DEF CatCall, CheckoutInv
<1>5. seen \in Seens
  <2>1. PICK S \in SUBSET Entries : old \in [S -> Nat]
    BY <1>4 DEF Seens
  <2>2. S \cup {f} \in SUBSET Entries /\ seen \in [S \cup {f} -> Nat]
    BY <1>4, <2>1
  <2> HIDE DEF seen
  <2>. QED  BY <2>2 DEF Seens
<1>6. \A g \in DOMAIN seen : (g = f /\ seen[g] = tree[f]) \/ (g \in DOMAIN old /\ seen[g] = old[g])
  OBVIOUS
<1> HIDE DEF seen, old
<1>7. /\ new \in CatCall /\ new.pc = "read" /\ new.ref = call[c].ref
      /\ new.after = call[c].after /\ new.seen = seen
  BY <1>2, <1>3, <1>5 DEF CatCall
<1>8. call' = [call EXCEPT ![c] = new]
  BY <1>1 DEF seen, old
<1> HIDE DEF new
<1>9. call'[c] = new
  BY <1>3, <1>8
<1>10. CheckoutInv' /\ QueueInv' /\ origin <= origin' /\ head <= head'
  BY <1>2 DEF CatInv, CheckoutInv, QueueInv
<1>11. call[c].ref # None =>
         call[c].ref <= head /\ \A g \in DOMAIN old : old[g] >= call[c].ref
  BY <1>2, <1>3 DEF CallInv, old
<1>12. head \in Nat /\ head <= tree[f] /\ call[c].ref \in Nat \cup {None}
  BY <1>3 DEF CatCall, CheckoutInv
<1>13. call[c].ref # None => \A g \in DOMAIN seen : seen[g] >= call[c].ref
  BY <1>4, <1>6, <1>11, <1>12
<1>15. Syncs' = Syncs /\ head' \in Nat
  BY <1>2, <1>12 DEF Syncs
<1>14. CallInv(c)'
  <2>1. /\ call[c].after <= clock
        /\ \A x \in Syncs : Later(call[c].after, call[c].ref, x)
    BY <1>2, <1>3 DEF CallInv
  <2>. QED  BY <1>2, <1>7, <1>9, <1>11, <1>13, <1>15, <2>1 DEF CallInv
<1>. QED  BY <1>2, <1>7, <1>8, <1>10, <1>14, <1>15, CallerMoves, OrderKept

LEMMA InstallKeeps ==
  ASSUME CatInv, NEW c \in Cat!Callers, Cat!Install(c)
  PROVE  CatInv'
<1> DEFINE made == [commit |-> call[c].ref, entries |-> call[c].seen, at |-> clock + 1,
                    after |-> call[c].after]
           entry == [by |-> c, catalog |-> made]
<1>1. /\ UNCHANGED <<catStored, pinned, failed, main, origin, tree, head, lock>>
      /\ call[c].pc = "read" /\ DOMAIN call[c].seen = Entries /\ Cat!GoTo(c, "stored")
      /\ clock' = clock + 1 /\ memory' = made /\ queue' = Append(queue, entry)
  BY DEF Cat!Install, Cat!CommitOf, Cat!checkout
<1>2. /\ call[c] \in CatCall /\ CallInv(c) /\ QueueInv /\ OrderInv
      /\ clock \in Nat /\ head \in Nat
  BY DEF CatInv, OrderInv, CheckoutInv
<1>3. made \in Honest
  <2>1. /\ call[c].seen \in [Entries -> Nat] /\ call[c].ref \in Nat \cup {None}
        /\ call[c].after \in Nat
    BY <1>1, <1>2 DEF CatCall, Seens
  <2>2. Cat!NoOlder(call[c].seen, call[c].ref)
    BY <1>1, <1>2 DEF CallInv, Cat!NoOlder
  <2>. QED  BY <1>2, <2>1, <2>2 DEF Honest
<1>10. /\ made.at = clock + 1 /\ made.after <= clock /\ made.after \in Nat
       /\ made.commit # None => made.commit <= head
       /\ \A x \in Syncs : Later(made.after, made.commit, x)
  BY <1>1, <1>2 DEF CallInv, CatCall
<1> HIDE DEF made
<1>4. entry \in [by : Cat!Callers, catalog : Honest] /\ entry.catalog = made
  BY <1>3
<1> HIDE DEF entry
<1>5. /\ queue' \in Seq([by : Cat!Callers, catalog : Honest]) /\ queue' # <<>>
      /\ queue'[Len(queue')] = entry
      /\ \A k \in DOMAIN queue' : (k \in DOMAIN queue /\ queue'[k] = queue[k]) \/ queue'[k] = entry
  BY <1>1, <1>2, <1>4 DEF QueueInv
<1>6. QueueInv'
  BY <1>1, <1>2, <1>3, <1>4, <1>5 DEF QueueInv
<1>7. CheckoutInv' /\ origin <= origin' /\ head <= head'
  BY <1>1 DEF CatInv, CheckoutInv
<1>11. \A x \in Syncs' : x \in Syncs \/ x = made
  BY <1>1, <1>4, <1>5 DEF Syncs
<1>12. \A x \in Syncs : x \in Honest
  BY SyncsHonest
<1>13. OrderInv'
  <2>1. \A x \in Syncs :
          /\ x.at \in Nat /\ x.after \in Nat /\ x.at <= clock /\ x.after <= clock
          /\ x.commit # None => x.commit <= head
    BY <1>2, <1>12 DEF OrderInv, Honest
  <2>2. ASSUME NEW x \in Syncs'
        PROVE  /\ x.at <= clock' /\ x.after <= clock' /\ x.after <= clock /\ x.after \in Nat
               /\ x.commit # None => x.commit <= head'
    <3>1. CASE x \in Syncs
      BY <1>1, <1>2, <2>1, <3>1
    <3>2. CASE x = made
      BY <1>1, <1>2, <1>10, <3>2
    <3>. QED  BY <1>11, <3>1, <3>2
  <2>3. \A y \in Syncs' : y.after <= clock /\ y.after \in Nat
    BY <2>2
  <2>4. \A y \in Syncs' : Later(y.after, y.commit, made)
    BY <1>2, <1>10, <2>3 DEF Later
  <2>5. \A x \in Syncs : \A y \in Syncs' : Later(y.after, y.commit, x)
    BY <1>2, <1>10, <1>11 DEF OrderInv
  <2>6. clock' \in Nat
    BY <1>1, <1>2
  <2>7. \A x, y \in Syncs' : Later(y.after, y.commit, x)
    BY <1>11, <2>4, <2>5
  <2>. QED  BY <2>2, <2>6, <2>7 DEF OrderInv
<1>8. PICK new \in CatCall :
           /\ call' = [call EXCEPT ![c] = new] /\ call'[c] = new
           /\ new.pc = "stored" /\ new.target = call[c].target
           /\ new.ref = call[c].ref /\ new.after = call[c].after /\ new.seen = call[c].seen
  <2>1. "stored" \in Steps
    BY DEF Steps
  <2>. QED  BY <1>1, <2>1, GoneTo, Zenon
<1>9. CallInv(c)'
  BY <1>8 DEF CallInv
<1>14. /\ clock <= clock'
       /\ \A x \in Syncs' : x \in Syncs \/ (x \in Honest /\ x.at > clock)
  BY <1>1, <1>2, <1>3, <1>10, <1>11
<1>. QED  BY <1>1, <1>6, <1>7, <1>8, <1>9, <1>13, <1>14, CallerMoves

LEMMA WriteStoreKeeps ==
  ASSUME CatInv, Cat!WriteStore
  PROVE  CatInv'
<1> DEFINE c == Head(queue).by
<1>1. /\ queue # <<>> /\ queue' = Tail(queue) /\ Cat!End(c)
      /\ \/ /\ catStored' = Head(queue).catalog
            /\ pinned' = catStored' \/ pinned' = pinned
         \/ failed' = TRUE /\ catStored' = catStored /\ pinned' = pinned
      /\ UNCHANGED <<main, origin, tree, head, lock, memory, clock>>
      /\ failed' \in {failed, TRUE}
  BY DEF Cat!WriteStore, Cat!checkout
<1>2. QueueInv
  BY DEF CatInv
<1> DEFINE Writes == [by : Cat!Callers, catalog : Honest]
<1>0. queue \in Seq(Writes) /\ queue # <<>>
  BY <1>1, <1>2 DEF QueueInv
<1> HIDE DEF Writes
<1>3. /\ Head(queue) = queue[1] /\ Head(queue) \in Writes /\ queue' \in Seq(Writes)
      /\ Len(queue) \in Nat /\ Len(queue) > 0 /\ Len(queue') = Len(queue) - 1
      /\ \A i \in 1..Len(queue') : queue'[i] = queue[i + 1]
  BY <1>0, <1>1
<1>4. queue' # <<>> => queue'[Len(queue')] = queue[Len(queue)]
  BY <1>3
<1>5. queue' = <<>> => Head(queue).catalog = memory
  <2>1. queue' = <<>> => Len(queue) = 1
    BY <1>3
  <2>2. queue[Len(queue)].catalog = memory
    BY <1>0, <1>2 DEF QueueInv
  <2>. QED  BY <1>3, <2>1, <2>2
<1>6. c \in Cat!Callers /\ Head(queue).catalog \in Honest
  BY <1>3 DEF Writes
<1>7. QueueInv'
  BY <1>0, <1>1, <1>2, <1>3, <1>4, <1>5, <1>6 DEF QueueInv, Writes
<1>8. CheckoutInv' /\ origin <= origin' /\ head <= head'
  BY <1>1 DEF CatInv, CheckoutInv
<1>9. Syncs' \subseteq Syncs /\ head' \in Nat
  <2>1. \A k \in DOMAIN queue' : \E l \in DOMAIN queue : queue'[k] = queue[l]
    BY <1>0, <1>3
  <2>2. Head(queue) = queue[1] /\ 1 \in DOMAIN queue
    BY <1>0, <1>3
  <2>3. Syncs' \subseteq Syncs
    BY <1>1, <2>1, <2>2 DEF Syncs
  <2>. QED  BY <1>1, <2>3 DEF CatInv, CheckoutInv
<1> HIDE DEF c
<1>. QED  BY <1>1, <1>6, <1>7, <1>8, <1>9, Ended, IdleCall, CallerMoves, OrderKept

LEMMA CrashKeeps == ASSUME CatInv, Cat!Crash PROVE CatInv'
<1>1. /\ UNCHANGED <<main, origin, tree, head, lock, catStored, pinned, clock>>
      /\ call' = [c \in Cat!Callers |-> Cat!Idle]
      /\ memory' = None /\ queue' = <<>>
  BY DEF Cat!Crash, Cat!checkout
<1>2. call' \in [Cat!Callers -> CatCall] /\ \A c \in Cat!Callers : call'[c] = Cat!Idle
  BY <1>1, IdleCall
<1>3. \A c \in Cat!Callers : CallInv(c)'
  BY <1>2, IdleCall DEF CallInv
<1>4. CheckoutInv' /\ QueueInv'
  BY <1>1 DEF CatInv, CheckoutInv, QueueInv
<1>5. Syncs' \subseteq Syncs /\ head' \in Nat /\ head <= head'
  BY <1>1 DEF Syncs, CatInv, CheckoutInv
<1>. QED  BY <1>1, <1>2, <1>3, <1>4, <1>5, OrderKept DEF CatInv

LEMMA PushKeeps == ASSUME CatInv, Cat!PushToMain PROVE CatInv'
<1>1. UNCHANGED <<memory, queue, catStored, pinned, clock, failed, origin, tree, head, lock, call>>
      /\ main' = main + 1
  BY DEF Cat!PushToMain, Cat!kept
<1>2. CheckoutInv' /\ QueueInv'
  BY <1>1 DEF CatInv, CheckoutInv, QueueInv
<1>4. Syncs' = Syncs /\ head' \in Nat /\ head <= head'
  BY <1>1 DEF Syncs, CatInv, CheckoutInv
<1>3. \A c \in Cat!Callers : CallInv(c)'
  BY <1>1, <1>4 DEF CatInv, CallInv
<1>. QED  BY <1>1, <1>2, <1>3, <1>4, OrderKept DEF CatInv

LEMMA CatStepwise == CatInv /\ [Cat!Next]_(Cat!vars) => CatInv'
<1> SUFFICES ASSUME CatInv, [Cat!Next]_(Cat!vars) PROVE CatInv'
  OBVIOUS
<1>1. CASE UNCHANGED Cat!vars
  <2>1. UNCHANGED <<main, origin, tree, head, lock, call, memory, queue, catStored, pinned,
                    clock, failed>>
    BY <1>1 DEF Cat!vars
  <2>2. Syncs' = Syncs /\ CheckoutInv' /\ QueueInv'
    BY <2>1 DEF Syncs, CatInv, CheckoutInv, QueueInv
  <2>3. OrderInv' /\ \A c \in Cat!Callers : CallInv(c)'
    BY <2>1, <2>2 DEF CatInv, OrderInv, CallInv
  <2>. QED  BY <2>1, <2>2, <2>3 DEF CatInv
<1>2. ASSUME NEW c \in Cat!Callers,
             \/ Cat!BeginCheckout(c) \/ Cat!Fetch(c) \/ Cat!BeginReset(c)
             \/ Cat!ResetFile(c) \/ Cat!MoveHead(c) \/ Cat!CheckoutFails(c)
             \/ Cat!BeginSync(c) \/ Cat!ResolveRef(c) \/ Cat!ReadFile(c)
             \/ Cat!ReadFails(c) \/ Cat!Install(c)
      PROVE  CatInv'
  BY <1>2, FetchSteps, BeginResetKeeps, ResetFileKeeps, MoveHeadKeeps, FailureKeeps,
     ResolveRefKeeps, ReadFileKeeps, InstallKeeps
<1>. QED  BY <1>1, <1>2, WriteStoreKeeps, CrashKeeps, PushKeeps DEF Cat!Next

\* However syncs, resets, failures and crashes interleave, no catalog that is
\* served or stored has content older than its commit, as long as no write has
\* failed the store has the catalog that is served once its write is over, and
\* its entries are no older than the commit runs are pinned to, unless their own
\* was looked up before the sync of that commit was through.
THEOREM CatalogHonestHolds == Cat!Spec => []CatalogHonest
<1>1. CatInv => CatalogHonest
  <2> SUFFICES ASSUME CatInv PROVE Cat!CatalogHonest
    BY DEF CatalogHonest
  <2>1. \A x \in {memory, catStored} \ {None} : x \in Honest /\ Cat!NoOlder(x.entries, x.commit)
    BY DEF CatInv, QueueInv, Honest
  <2>2. ASSUME pinned # None, catStored # None, catStored.commit # None,
               ~(catStored.after < pinned.at)
        PROVE  Cat!NoOlder(catStored.entries, pinned.commit)
    <3>1. pinned \in Syncs /\ catStored \in Syncs
      BY <2>2 DEF Syncs
    <3>2. pinned \in Honest /\ catStored \in Honest
      BY <3>1, SyncsHonest
    <3>3. Later(catStored.after, catStored.commit, pinned)
      BY <3>1 DEF CatInv, OrderInv
    <3>. QED  BY <2>2, <3>2, <3>3 DEF Later, Honest, Cat!NoOlder
  <2>. QED  BY <2>1, <2>2 DEF CatInv, QueueInv, Cat!CatalogHonest
<1>. QED  BY CatInitially, CatStepwise, <1>1, PTL DEF Cat!Spec

---------------------------------------------------------------------------
(* Materialization *)

Codes == {"invalid_manifest", "self_check_failed", "materialization_io_error"}
Outcome == [status : {"building", "ready", "failed"}, code : Codes \cup {None}]

\* How many files come before a step, or before the step that writes a file.
Place(x) ==
    CASE x \in {"idle", "workspace", "manifest", "manifest.yaml"} -> 0
      [] x \in {"contract", "provenance.json"} -> 1
      [] x = "instructions.md" -> 2
      [] x = "system-prompt.md" -> 3
      [] x = "runtime-bundle.json" -> 4
      [] x = "execution-contract.json" -> 5
      [] x = "io-contract.json" -> 6
      [] x \in {"checks", "startup-verification.json"} -> 7
      [] x = "failure-evidence.json" -> 8
      [] x = "package-manifest.json" -> 9
      [] x \in {"verdict", "validation.json"} -> 10
      [] x = "materialization.json" -> 11
      [] OTHER -> 12

OnDisk(file) == \E g \in disk : g.file = file

Places == Mat!Generated \cup {"idle", "workspace", "manifest", "contract", "checks",
                              "verdict", "store", "over"}

\* As long as nothing has failed no file was left out; the first code is kept.
FilesInv ==
    /\ disk \subseteq [file : Mat!Files, status : {"ready", "failed"}]
    /\ m.code = None /\ at # "over" =>
         \A file \in Mat!Files : Place(file) < Place(at) => OnDisk(file)
    /\ \A g \in disk : g.status = "failed" =>
         /\ m.code # None
         /\ g.file = "startup-verification.json" => m.code = "self_check_failed"

\* Only what the verdict follows is written after it; the startup checks are
\* reached only if nothing has failed.
VerdictInv ==
    /\ at \in Places
    /\ m \in [status : {"building", "ready", "failed"}, code : Codes \cup {None},
              parsed : BOOLEAN]
    /\ m.status = "ready" => m.code = None
    /\ m.status = "failed" => m.code # None
    /\ at # "over" =>
         (at \in {"validation.json", "materialization.json", "store"} <=> m.status # "building")
    /\ m.code = None => m.parsed \/ at \in {"idle", "workspace", "manifest", "over"}
    /\ at \in {"checks", "startup-verification.json"} => m.code \in {None, "self_check_failed"}
    /\ at = "idle" => m.code = None

\* What is recorded as ready or failed was recorded last.
RecordInv ==
    /\ record # None =>
         /\ record \in Outcome
         /\ record.status = "building" => record.code = None
         /\ record.status # "building" => at = "over" /\ record = Mat!Stored
         /\ record.status = "ready" => \A file \in Mat!Files : OnDisk(file)
    /\ loaded # "error"

MatInv == FilesInv /\ VerdictInv /\ RecordInv

LEMMA FilesPlaced ==
  /\ \A file \in Mat!Files : Place(file) \in 0..11
  /\ \A file, other \in Mat!Files : Place(file) = Place(other) => file = other
<1>1. \A file \in Mat!Files : Place(file) \in 0..11
  BY DEF Place, Mat!Files, Mat!Generated
<1>2. \A file, other \in Mat!Files : Place(file) = Place(other) => file = other
  BY DEF Place, Mat!Files, Mat!Generated
<1>. QED  BY <1>1, <1>2

LEMMA MatInitially == Mat!Init => MatInv
<1> SUFFICES ASSUME Mat!Init PROVE MatInv
  OBVIOUS
<1>1. Place(at) = 0 /\ disk = {}
  BY DEF Mat!Init, Place
<1>2. FilesInv
  BY <1>1, FilesPlaced DEF FilesInv
<1>3. VerdictInv
  BY DEF Mat!Init, VerdictInv, Places
<1>4. RecordInv
  BY CodesAssumption DEF Mat!Init, RecordInv
<1>. QED  BY <1>2, <1>3, <1>4 DEF MatInv

\* The next file is the one that comes after, as long as nothing has failed.
LEMMA NextPlace ==
  ASSUME NEW file \in Mat!Generated, m.code = None, m.parsed
  PROVE  /\ Mat!After(file) \in Places
         /\ Place(Mat!After(file)) = Place(file) + 1
         /\ \A other \in Mat!Files : Place(other) < Place(file) + 1 =>
               Place(other) < Place(file) \/ other = file
<1>1. Mat!After(file) \in Places
  BY DEF Mat!After, Mat!Generated, Places
<1>2. Place(Mat!After(file)) = Place(file) + 1
  <2>1. /\ file = "provenance.json" => Mat!After(file) = "instructions.md"
        /\ file = "instructions.md" => Mat!After(file) = "system-prompt.md"
        /\ file = "system-prompt.md" => Mat!After(file) = "runtime-bundle.json"
        /\ file = "runtime-bundle.json" => Mat!After(file) = "execution-contract.json"
        /\ file = "execution-contract.json" => Mat!After(file) = "io-contract.json"
        /\ file = "io-contract.json" => Mat!After(file) = "checks"
        /\ file = "startup-verification.json" => Mat!After(file) = "failure-evidence.json"
        /\ file = "failure-evidence.json" => Mat!After(file) = "package-manifest.json"
        /\ file = "package-manifest.json" => Mat!After(file) = "verdict"
        /\ file = "validation.json" => Mat!After(file) = "materialization.json"
        /\ file = "materialization.json" => Mat!After(file) = "store"
    BY DEF Mat!After
  <2>2. /\ Place("provenance.json") = 1 /\ Place("instructions.md") = 2
        /\ Place("system-prompt.md") = 3 /\ Place("runtime-bundle.json") = 4
        /\ Place("execution-contract.json") = 5 /\ Place("io-contract.json") = 6
        /\ Place("checks") = 7 /\ Place("startup-verification.json") = 7
        /\ Place("failure-evidence.json") = 8 /\ Place("package-manifest.json") = 9
        /\ Place("verdict") = 10 /\ Place("validation.json") = 10
        /\ Place("materialization.json") = 11 /\ Place("store") = 12
    BY DEF Place
  <2>. QED  BY <2>1, <2>2 DEF Mat!Generated
<1>3. file \in Mat!Files
  BY DEF Mat!Files
<1>. QED  BY <1>1, <1>2, <1>3, FilesPlaced

LEMMA AfterIsPlace ==
  ASSUME NEW file \in Mat!Generated
  PROVE  /\ Mat!After(file) \in Places \ {"idle", "workspace", "manifest", "over"}
         /\ Mat!After(file) \in {"validation.json", "materialization.json", "store"}
              <=> file \in {"validation.json", "materialization.json"}
         /\ Mat!After(file) = "checks" => m.code = None
         /\ Mat!After(file) # "startup-verification.json"
  BY DEF Mat!After, Mat!Generated, Places

\* What Failing makes of the materialization.
LEMMA FailingKeeps ==
  ASSUME VerdictInv, NEW code \in Codes
  PROVE  /\ Mat!Failing(code) \in [status : {"building", "ready", "failed"},
                                   code : Codes \cup {None}, parsed : BOOLEAN]
         /\ Mat!Failing(code).status = m.status
         /\ Mat!Failing(code).parsed = m.parsed
         /\ Mat!Failing(code).code = IF m.code = None THEN code ELSE m.code
         /\ Mat!Failing(code).code # None
<1>1. m \in [status : {"building", "ready", "failed"}, code : Codes \cup {None},
             parsed : BOOLEAN]
  BY DEF VerdictInv
<1>2. code # None
  BY CodesAssumption DEF Codes
<1>. QED  BY <1>1, <1>2 DEF Mat!Failing

LEMMA BeginKeeps == ASSUME MatInv, Mat!Begin PROVE MatInv'
<1>1. UNCHANGED <<m, disk, loaded>> /\ at = "idle" /\ at' \in {"workspace", "over"}
      /\ record' \in {None, Mat!Stored}
  BY DEF Mat!Begin
<1>2. m.status = "building" /\ m.code = None
  BY <1>1 DEF MatInv, VerdictInv
<1>3. FilesInv'
  BY <1>1 DEF MatInv, FilesInv, OnDisk, Place
<1>4. VerdictInv'
  BY <1>1 DEF MatInv, VerdictInv, Places
<1>5. RecordInv'
  BY <1>1, <1>2 DEF MatInv, RecordInv, OnDisk, Mat!Stored, Outcome
<1>. QED  BY <1>3, <1>4, <1>5 DEF MatInv

\* A step that fails, or finds nothing wrong, before the verdict.
LEMMA EarlySteps ==
  ASSUME MatInv, Mat!MakeWorkspace \/ Mat!RecordManifest \/ Mat!CheckContract \/ Mat!StartupCheck
  PROVE  MatInv'
<1>1. UNCHANGED <<record, loaded>> /\ at \in {"workspace", "manifest", "contract", "checks"}
      /\ at' \in {"manifest", "contract", "provenance.json", "checks", "startup-verification.json"}
  BY DEF Mat!MakeWorkspace, Mat!RecordManifest, Mat!CheckContract, Mat!StartupCheck
<1>2. record # None => record.status = "building"
  BY <1>1 DEF MatInv, RecordInv
<1>3. RecordInv'
  BY <1>1, <1>2 DEF MatInv, RecordInv
<1>4. CASE Mat!MakeWorkspace
  <2>1. FilesInv' /\ VerdictInv'
    BY <1>4 DEF Mat!MakeWorkspace, MatInv, FilesInv, VerdictInv, OnDisk, Place, Places
  <2>. QED  BY <1>3, <2>1 DEF MatInv
<1>5. CASE Mat!RecordManifest
  <2>1. at = "manifest" /\ at' = "contract"
    BY <1>5 DEF Mat!RecordManifest
  <2>2. \A file \in Mat!Files : Place(file) < Place("contract") => file = "manifest.yaml"
    BY DEF Place, Mat!Files, Mat!Generated
  <2>3. CASE /\ disk' = disk \cup {[file |-> "manifest.yaml", status |-> "ready"]}
             /\ m' = [m EXCEPT !.parsed = TRUE]
    <3>1. /\ m' \in [status : {"building", "ready", "failed"}, code : Codes \cup {None},
                     parsed : BOOLEAN]
          /\ m'.status = m.status /\ m'.code = m.code /\ m'.parsed
      BY <2>3 DEF MatInv, VerdictInv
    <3>2. FilesInv'
      <4> DEFINE written == [file |-> "manifest.yaml", status |-> "ready"]
      <4>1. /\ written \in [file : Mat!Files, status : {"ready", "failed"}]
            /\ written.file = "manifest.yaml" /\ written.status = "ready"
        BY DEF Mat!Files
      <4> HIDE DEF written
      <4>2. disk' = disk \cup {written}
        BY <2>3 DEF written
      <4>3. \A file \in Mat!Files : Place(file) < Place(at') => OnDisk(file)'
        BY <2>1, <2>2, <4>1, <4>2 DEF OnDisk
      <4>. QED  BY <3>1, <4>1, <4>2, <4>3 DEF MatInv, FilesInv
    <3>3. VerdictInv'
      BY <2>1, <3>1 DEF MatInv, VerdictInv, Places
    <3>. QED  BY <1>3, <3>2, <3>3 DEF MatInv
  <2>4. CASE /\ \E parsed \in BOOLEAN :
                  m' = [Mat!Failing("invalid_manifest") EXCEPT !.parsed = parsed]
             /\ UNCHANGED disk
    <3>1. PICK parsed \in BOOLEAN :
             m' = [Mat!Failing("invalid_manifest") EXCEPT !.parsed = parsed]
      BY <2>4
    <3> DEFINE failing == Mat!Failing("invalid_manifest")
    <3>2. /\ failing \in [status : {"building", "ready", "failed"},
                          code : Codes \cup {None}, parsed : BOOLEAN]
          /\ failing.status = m.status /\ failing.code # None
          /\ m.code # None => failing.code = m.code
      BY FailingKeeps DEF MatInv, Codes
    <3> HIDE DEF failing
    <3>3. /\ m' \in [status : {"building", "ready", "failed"}, code : Codes \cup {None},
                     parsed : BOOLEAN]
          /\ m'.status = m.status /\ m'.code # None
          /\ m.code # None => m'.code = m.code
      BY <3>1, <3>2 DEF failing
    <3>4. FilesInv'
      BY <2>4, <3>3 DEF MatInv, FilesInv
    <3>5. VerdictInv'
      BY <2>1, <3>3 DEF MatInv, VerdictInv, Places
    <3>. QED  BY <1>3, <3>4, <3>5 DEF MatInv
  <2>. QED  BY <1>5, <2>3, <2>4 DEF Mat!RecordManifest
<1>6. CASE Mat!CheckContract \/ Mat!StartupCheck
  <2>1. UNCHANGED disk /\ Place(at') = Place(at)
    BY <1>6 DEF Mat!CheckContract, Mat!StartupCheck, Place
  <2>2. PICK code \in Codes :
          /\ m' = m \/ m' = Mat!Failing(code)
          /\ at \in {"checks"} => code = "self_check_failed"
    BY <1>6 DEF Mat!CheckContract, Mat!StartupCheck, Codes
  <2>3. /\ m' \in [status : {"building", "ready", "failed"}, code : Codes \cup {None},
                   parsed : BOOLEAN]
        /\ m'.status = m.status /\ m'.parsed = m.parsed
        /\ m'.code = m.code \/ (m.code = None /\ m'.code = code /\ code # None)
    BY <2>2, FailingKeeps DEF MatInv, VerdictInv
  <2>4. FilesInv'
    BY <1>1, <2>1, <2>3 DEF MatInv, FilesInv, OnDisk
  <2>5. at' = "provenance.json" \/ at = "checks"
    BY <1>6 DEF Mat!CheckContract, Mat!StartupCheck
  <2>6. at = "contract" => at' = "provenance.json"
    BY <1>6 DEF Mat!CheckContract, Mat!StartupCheck
  <2>7. m.status = "building" /\ (m.code = None => m.parsed)
    <3>1. at \in {"contract", "checks"}
      BY <1>6 DEF Mat!CheckContract, Mat!StartupCheck
    <3>. QED  BY <3>1 DEF MatInv, VerdictInv
  <2>8. at' \in {"provenance.json", "checks", "startup-verification.json"}
    BY <1>6 DEF Mat!CheckContract, Mat!StartupCheck
  <2>9. at' # "provenance.json" => m'.code \in {None, "self_check_failed"}
    <3>1. at' # "provenance.json" => m.code \in {None, "self_check_failed"}
      BY <2>5 DEF MatInv, VerdictInv
    <3>. QED  BY <2>2, <2>3, <2>5, <3>1
  <2>10. VerdictInv'
    BY <2>3, <2>7, <2>8, <2>9 DEF VerdictInv, Places, Mat!Generated
  <2>. QED  BY <1>3, <2>4, <2>10 DEF MatInv
<1>. QED  BY <1>4, <1>5, <1>6

LEMMA WriteKeeps == ASSUME MatInv, Mat!Write PROVE MatInv'
<1> DEFINE told == IF m.status # "building" THEN m.status
                   ELSE IF m.code = None THEN "ready" ELSE "failed"
<1>1. UNCHANGED <<m, record, loaded>> /\ at \in Mat!Generated /\ at' = Mat!After(at)
      /\ disk' = disk \cup {[file |-> at, status |-> told]}
  BY DEF Mat!Write
<1>2. record # None => record.status = "building"
  BY <1>1 DEF MatInv, RecordInv, Mat!Generated
<1>3. RecordInv'
  BY <1>1, <1>2 DEF MatInv, RecordInv
<1>4. at # "over" /\ at \in Mat!Files /\ at \notin {"idle", "workspace", "manifest"}
  BY <1>1 DEF Mat!Generated, Mat!Files
<1>5. VerdictInv'
  <2>1. /\ at' \in Places \ {"idle", "workspace", "manifest", "over"}
        /\ at' \in {"validation.json", "materialization.json", "store"}
             <=> at \in {"validation.json", "materialization.json"}
        /\ at' = "checks" => m.code = None
        /\ at' # "startup-verification.json"
    BY <1>1, AfterIsPlace
  <2>2. at # "verdict" /\ at # "store"
    BY <1>1 DEF Mat!Generated
  <2>. QED  BY <1>1, <1>4, <2>1, <2>2 DEF MatInv, VerdictInv
<1>6. told \in {"ready", "failed"} /\ (told = "failed" => m.code # None)
  BY DEF MatInv, VerdictInv
<1>7. told = "failed" /\ at = "startup-verification.json" => m.code = "self_check_failed"
  BY <1>6 DEF MatInv, VerdictInv
<1> HIDE DEF told
<1>8. m.code = None /\ at' # "over" =>
         \A file \in Mat!Files : Place(file) < Place(at') => OnDisk(file)'
  <2> SUFFICES ASSUME m.code = None, NEW file \in Mat!Files, Place(file) < Place(at')
               PROVE  OnDisk(file)'
    OBVIOUS
  <2>1. m.parsed
    BY <1>4 DEF MatInv, VerdictInv
  <2>2. Place(file) < Place(at) \/ file = at
    BY <1>1, <2>1, NextPlace
  <2>3. CASE Place(file) < Place(at)
    BY <1>1, <1>4, <2>3 DEF MatInv, FilesInv, OnDisk
  <2>4. CASE file = at
    <3>1. [file |-> at, status |-> told] \in disk'
      BY <1>1
    <3>2. [file |-> at, status |-> told].file = file
      BY <2>4
    <3>. QED  BY <3>1, <3>2, Zenon DEF OnDisk
  <2>. QED  BY <2>2, <2>3, <2>4
<1>9. FilesInv'
  BY <1>1, <1>4, <1>6, <1>7, <1>8 DEF MatInv, FilesInv
<1>. QED  BY <1>3, <1>5, <1>9 DEF MatInv

LEMMA VerdictKeeps == ASSUME MatInv, Mat!Verdict \/ Mat!Fails PROVE MatInv'
<1>1. UNCHANGED <<disk, record, loaded>> /\ at \notin {"over", "idle"}
  BY DEF Mat!Verdict, Mat!Fails, Mat!Generated
<1>2. record # None => record.status = "building"
  BY <1>1 DEF MatInv, RecordInv
<1>3. RecordInv'
  BY <1>1, <1>2 DEF MatInv, RecordInv
<1>4. CASE Mat!Verdict
  <2>1. /\ at = "verdict" /\ at' = "validation.json"
        /\ m' = [m EXCEPT !.status = IF m.code = None THEN "ready" ELSE "failed"]
    BY <1>4 DEF Mat!Verdict
  <2>2. /\ m' \in [status : {"building", "ready", "failed"}, code : Codes \cup {None},
                   parsed : BOOLEAN]
        /\ m'.code = m.code /\ m'.parsed = m.parsed
        /\ m'.status = IF m.code = None THEN "ready" ELSE "failed"
    BY <2>1 DEF MatInv, VerdictInv
  <2>3. Place(at') = Place(at)
    BY <2>1 DEF Place
  <2>4. FilesInv'
    BY <1>1, <2>2, <2>3 DEF MatInv, FilesInv, OnDisk
  <2>5. VerdictInv'
    BY <2>1, <2>2 DEF MatInv, VerdictInv, Places, Mat!Generated
  <2>. QED  BY <1>3, <2>4, <2>5 DEF MatInv
<1>5. CASE Mat!Fails
  <2> DEFINE failing == Mat!Failing("materialization_io_error")
  <2>1. /\ failing \in [status : {"building", "ready", "failed"},
                        code : Codes \cup {None}, parsed : BOOLEAN]
        /\ failing.code # None /\ (m.code # None => failing.code = m.code)
    BY FailingKeeps DEF MatInv, Codes
  <2>2. at' = "store" /\ m' = [failing EXCEPT !.status = "failed"]
    BY <1>5 DEF Mat!Fails
  <2> HIDE DEF failing
  <2>3. /\ m' \in [status : {"building", "ready", "failed"}, code : Codes \cup {None},
                   parsed : BOOLEAN]
        /\ m'.status = "failed" /\ m'.code # None /\ (m.code # None => m'.code = m.code)
    BY <2>1, <2>2
  <2>4. FilesInv'
    BY <1>1, <2>3 DEF MatInv, FilesInv
  <2>5. VerdictInv'
    BY <2>2, <2>3 DEF MatInv, VerdictInv, Places
  <2>. QED  BY <1>3, <2>4, <2>5 DEF MatInv
<1>. QED  BY <1>4, <1>5

LEMMA StoreKeeps == ASSUME MatInv, Mat!Store \/ Mat!Crash \/ Mat!Load PROVE MatInv'
<1>1. UNCHANGED <<m, disk>> /\ (at' = "over" \/ at' = at)
  BY DEF Mat!Store, Mat!Crash, Mat!Load
<1>2. FilesInv' /\ VerdictInv'
  BY <1>1 DEF MatInv, FilesInv, VerdictInv, OnDisk, Places
<1>3. CASE Mat!Store
  <2>1. /\ at = "store" /\ at' = "over" /\ loaded' = loaded
        /\ record' = Mat!Stored \/ record' = record
    BY <1>3 DEF Mat!Store
  <2>2. Mat!Stored \in Outcome /\ Mat!Stored.status = m.status /\ m.status # "building"
    BY <2>1 DEF Mat!Stored, Outcome, MatInv, VerdictInv
  <2>3. \A file \in Mat!Files : Place(file) < Place("store")
    BY DEF Mat!Files, Mat!Generated, Place
  <2>4. m.status = "ready" => \A file \in Mat!Files : OnDisk(file)
    BY <2>1, <2>3 DEF MatInv, FilesInv, VerdictInv
  <2>5. Mat!Stored' = Mat!Stored /\ \A file : OnDisk(file)' <=> OnDisk(file)
    BY <1>1 DEF Mat!Stored, OnDisk
  <2>6. RecordInv'
    BY <2>1, <2>2, <2>4, <2>5 DEF MatInv, RecordInv
  <2>. QED  BY <1>2, <2>6 DEF MatInv
<1>4. CASE Mat!Crash
  <2>1. RecordInv'
    BY <1>4 DEF Mat!Crash, MatInv, RecordInv, OnDisk, Mat!Stored
  <2>. QED  BY <1>2, <2>1 DEF MatInv
<1>5. CASE Mat!Load
  <2>1. record.status = "ready" => Mat!Context \subseteq {g.file : g \in disk}
    BY <1>5 DEF Mat!Load, MatInv, RecordInv, OnDisk, Mat!Context, Mat!Files, Mat!Generated
  <2>2. loaded' # "error" /\ UNCHANGED <<at, m, disk, record>>
    BY <1>5, <2>1 DEF Mat!Load
  <2>3. RecordInv'
    BY <2>2 DEF MatInv, RecordInv, OnDisk, Mat!Stored
  <2>. QED  BY <1>2, <2>3 DEF MatInv
<1>. QED  BY <1>3, <1>4, <1>5

LEMMA MatStepwise == MatInv /\ [Mat!Next]_(Mat!vars) => MatInv'
<1> SUFFICES ASSUME MatInv, [Mat!Next]_(Mat!vars) PROVE MatInv'
  OBVIOUS
<1>1. CASE UNCHANGED Mat!vars
  BY <1>1 DEF Mat!vars, MatInv, FilesInv, VerdictInv, RecordInv, OnDisk, Mat!Stored
<1>2. CASE Mat!Next
  BY <1>2, BeginKeeps, EarlySteps, WriteKeeps, VerdictKeeps, StoreKeeps DEF Mat!Next
<1>. QED  BY <1>1, <1>2

\* Whichever steps fail and whenever the process goes down, what the store
\* calls ready has all its files and none of them tells of a failure; what it
\* calls failed has the code that its files blame.
THEOREM ReadyIsWholeHolds == Mat!Spec => []ReadyIsWhole
<1>1. MatInv => ReadyIsWhole
  <2> SUFFICES ASSUME MatInv PROVE ReadyIsWhole
    OBVIOUS
  <2> DEFINE whole == {f.file : f \in {g \in disk : g.status = "ready"}} = Mat!Files
             blamed == [file |-> "startup-verification.json", status |-> "failed"] \in disk
                          => record.code = "self_check_failed"
  <2>1. ASSUME record # None, record.status = "ready" PROVE whole
    <3>1. m.code = None
      BY <2>1 DEF MatInv, RecordInv, VerdictInv, Mat!Stored
    <3>2. \A g \in disk : g.status = "ready" /\ g.file \in Mat!Files
      BY <3>1 DEF MatInv, FilesInv
    <3>3. \A file \in Mat!Files : OnDisk(file)
      BY <2>1 DEF MatInv, RecordInv
    <3>. QED  BY <3>2, <3>3 DEF OnDisk
  <2>2. ASSUME record # None, record.status = "failed" PROVE record.code # None /\ blamed
    <3>1. record.code = m.code /\ m.status = "failed"
      BY <2>2 DEF MatInv, RecordInv, Mat!Stored
    <3>. QED  BY <3>1 DEF MatInv, FilesInv, VerdictInv
  <2>3. record # None => record.status \in {"building", "ready", "failed"}
    BY DEF MatInv, RecordInv, Outcome
  <2>4. record # None /\ record.status = "building" => record.code = None
    BY DEF MatInv, RecordInv
  <2>5. loaded # "error"
    BY DEF MatInv, RecordInv
  <2> HIDE DEF whole, blamed
  <2>6. record # None => CASE record.status = "ready" -> whole
                           [] record.status = "failed" -> record.code # None /\ blamed
                           [] OTHER -> record.code = None
    BY <2>1, <2>2, <2>3, <2>4
  <2>. QED  BY <2>5, <2>6 DEF ReadyIsWhole, Mat!ReadyIsWhole, whole, blamed
<1>. QED  BY MatInitially, MatStepwise, <1>1, PTL DEF Mat!Spec

---------------------------------------------------------------------------
(* The incidents of a run *)

Incident == [status : Inc!IncidentStatus]

\* What the incidents say once a change has brought them up to date.
Synced ==
    /\ Inc!Opens(status) => Inc!Unresolved # {}
    /\ single =>
         /\ Inc!AtMostOne
         /\ Inc!Opens(status) \/ status = "running" =>
              \A i \in Inc!Unresolved : incidents[i].status = Inc!Becomes(status)
         /\ status \in {"completed", "cancelled"} => Inc!Unresolved = {}

Busy(c) == caller[c].pc # "idle"
Wrote(c) == caller[c].pc \in {"find", "sync", "notify"}

IsHandler(r) ==
    /\ DOMAIN r = {"pc", "to", "prior", "found"}
    /\ r.pc \in {"idle", "write", "find", "sync", "notify"}
    /\ r.pc # "idle" => r.to \in Inc!RunStatus
    /\ r.pc = "sync" => Inc!Becomes(r.to) # ""

\* What a change that has no other beside it has read still stands.
AloneInv(c) ==
    /\ Wrote(c) => status = caller[c].to
    /\ caller[c].pc \in {"find", "sync"} /\ single => Inc!AtMostOne
    /\ caller[c].pc = "sync" => Inc!FirstListed(caller[c].found)

Undisturbed == lone /\ ~touched /\ ~cut

IncInv ==
    /\ incidents \in Seq(Incident)
    /\ DOMAIN caller = Updates
    /\ \A c \in Updates : IsHandler(caller[c])
    /\ down => cut \/ Inc!Quiet
    /\ lone => \A c, d \in Updates : Busy(c) /\ Busy(d) => c = d
    /\ Undisturbed =>
         /\ \A c \in Updates : AloneInv(c)
         /\ (\A c \in Updates : caller[c].pc \in {"idle", "notify"}) => Synced

LEMMA IdleHandler == IsHandler(Inc!Idle) /\ Inc!Idle.pc = "idle"
  BY DEF IsHandler, Inc!Idle

LEMMA IncInitially == Inc!Init => IncInv
<1> SUFFICES ASSUME Inc!Init PROVE IncInv
  OBVIOUS
<1>1. /\ DOMAIN caller = Updates
      /\ \A c \in Updates : caller[c] = Inc!Idle
  BY DEF Inc!Init
<1>2. \A c \in Updates : IsHandler(caller[c]) /\ caller[c].pc = "idle"
  BY <1>1, IdleHandler
<1>3. incidents = <<>> /\ Inc!Unresolved = {} /\ status = "queued" /\ ~down
  BY DEF Inc!Init, Inc!Unresolved
<1>4. Synced
  BY <1>3 DEF Synced, Inc!Opens, Inc!AtMostOne
<1>. QED  BY <1>1, <1>2, <1>3, <1>4 DEF IncInv, AloneInv, Busy, Wrote

\* A step of one handler.
LEMMA HandlerGoes ==
  ASSUME IncInv, NEW c \in Updates, NEW new, IsHandler(new),
         caller' = [caller EXCEPT ![c] = new]
  PROVE  /\ DOMAIN caller' = Updates /\ caller'[c] = new
         /\ \A d \in Updates : d # c => caller'[d] = caller[d]
         /\ \A d \in Updates : IsHandler(caller'[d])
  BY DEF IncInv

LEMMA ReadPriorKeeps ==
  ASSUME IncInv, NEW c \in Updates, NEW to \in Inc!RunStatus, Inc!ReadPrior(c, to)
  PROVE  IncInv'
<1> DEFINE new == [Inc!Idle EXCEPT !.pc = "write", !.to = to, !.prior = status]
<1>1. /\ UNCHANGED <<status, incidents, down, single, touched, cut>>
      /\ ~down /\ caller[c].pc = "idle" /\ lone' = Inc!Quiet
      /\ caller' = [caller EXCEPT ![c] = new]
  BY Zenon DEF Inc!ReadPrior
<1>2. IsHandler(new) /\ new.pc = "write" /\ new.to = to
  <2>1. DOMAIN Inc!Idle = {"pc", "to", "prior", "found"}
    BY DEF Inc!Idle
  <2>. QED  BY <2>1 DEF IsHandler
<1> HIDE DEF new
<1>3. /\ DOMAIN caller' = Updates /\ caller'[c] = new
      /\ \A d \in Updates : d # c => caller'[d] = caller[d]
      /\ \A d \in Updates : IsHandler(caller'[d])
  BY <1>1, <1>2, HandlerGoes
<1>4. lone' => \A d \in Updates : d # c => caller'[d].pc = "idle"
  BY <1>1, <1>3 DEF Inc!Quiet
<1>5. Undisturbed' => \A d \in Updates : AloneInv(d)'
  BY <1>2, <1>3, <1>4 DEF AloneInv, Wrote, Undisturbed
<1>. QED  BY <1>1, <1>2, <1>3, <1>4, <1>5 DEF IncInv, Busy

\* In a change without another beside it only that handler is busy.
LEMMA OnlyOne ==
  ASSUME IncInv, lone, NEW c \in Updates, Busy(c)
  PROVE  \A d \in Updates : d # c => caller[d].pc = "idle"
  BY DEF IncInv, Busy

LEMMA BusyIsCut == ASSUME IncInv, down, NEW c \in Updates, Busy(c) PROVE cut
  BY DEF IncInv, Busy, Inc!Quiet

LEMMA WriteStatusKeeps ==
  ASSUME IncInv, NEW c \in Updates, Inc!WriteStatus(c)
  PROVE  IncInv'
<1> DEFINE new == [caller[c] EXCEPT !.pc = "find"]
<1>1. /\ UNCHANGED <<incidents, down, lone>> /\ caller[c].pc = "write"
      /\ status' = caller[c].to /\ touched' = FALSE /\ cut' = down
      /\ single' = Inc!AtMostOne
      /\ caller' = [caller EXCEPT ![c] = new]
  BY Zenon DEF Inc!WriteStatus
<1>2. IsHandler(caller[c])
  BY DEF IncInv
<1>3. IsHandler(new) /\ new.pc = "find" /\ new.to = caller[c].to
  BY <1>1, <1>2 DEF IsHandler
<1> HIDE DEF new
<1>4. /\ DOMAIN caller' = Updates /\ caller'[c] = new
      /\ \A d \in Updates : d # c => caller'[d] = caller[d]
      /\ \A d \in Updates : IsHandler(caller'[d])
  BY <1>1, <1>3, HandlerGoes
<1>5. lone => \A d \in Updates : d # c => caller'[d].pc = "idle"
  BY <1>1, <1>4, OnlyOne DEF Busy
<1>6. Inc!AtMostOne' <=> Inc!AtMostOne
  BY <1>1 DEF Inc!AtMostOne, Inc!Unresolved, Inc!Active
<1>7. AloneInv(c)'
  BY <1>1, <1>3, <1>4, <1>6 DEF AloneInv, Wrote
<1>8. Undisturbed' => \A d \in Updates : AloneInv(d)'
  BY <1>1, <1>5, <1>7 DEF AloneInv, Wrote, Undisturbed
<1>. QED  BY <1>1, <1>3, <1>4, <1>5, <1>8 DEF IncInv, Busy

LEMMA FindKeeps ==
  ASSUME IncInv, NEW c \in Updates, Inc!Find(c)
  PROVE  IncInv'
<1> DEFINE to == caller[c].to
           syncs(i) == Inc!Becomes(to) # "" /\ (i # 0 \/ Inc!Opens(to))
<1>1. /\ UNCHANGED <<status, incidents, down, lone, single, touched, cut>>
      /\ caller[c].pc = "find"
  BY DEF Inc!Find, Inc!history
<1>2. PICK i \in DOMAIN incidents \cup {0} :
        /\ Inc!FirstListed(i)
        /\ caller' = [caller EXCEPT ![c].pc = IF syncs(i) THEN "sync" ELSE "notify",
                                    ![c].found = i]
  BY DEF Inc!Find
<1> DEFINE goes == IF syncs(i) THEN "sync" ELSE "notify"
           new == [caller[c] EXCEPT !.pc = goes, !.found = i]
<1>3. caller' = [caller EXCEPT ![c] = new]
  BY <1>2
<1>4. goes \in {"sync", "notify"} /\ (goes = "sync" <=> syncs(i))
  OBVIOUS
<1> HIDE DEF goes
<1>5. IsHandler(caller[c])
  BY DEF IncInv
<1>6. IsHandler(new) /\ new.pc = goes /\ new.to = to /\ new.found = i
  BY <1>1, <1>4, <1>5 DEF IsHandler
<1> HIDE DEF new
<1>7. /\ DOMAIN caller' = Updates /\ caller'[c] = new
      /\ \A d \in Updates : d # c => caller'[d] = caller[d]
      /\ \A d \in Updates : IsHandler(caller'[d])
  BY <1>3, <1>6, HandlerGoes
<1>8. /\ Inc!Unresolved' = Inc!Unresolved
      /\ Inc!AtMostOne' <=> Inc!AtMostOne
      /\ Inc!FirstListed(i)' <=> Inc!FirstListed(i)
      /\ Synced' <=> Synced
  BY <1>1 DEF Inc!Unresolved, Inc!Active, Inc!AtMostOne, Inc!FirstListed, Synced
<1>9. ASSUME Undisturbed
      PROVE  /\ \A d \in Updates : AloneInv(d)'
             /\ goes = "notify" => Synced
  <2>1. /\ AloneInv(c) /\ status = to /\ (single => Inc!AtMostOne)
        /\ \A d \in Updates : d # c => caller[d].pc = "idle"
    BY <1>1, <1>9, OnlyOne DEF IncInv, AloneInv, Wrote, Undisturbed, Busy
  <2>2. \A d \in Updates : AloneInv(d)'
    BY <1>1, <1>2, <1>4, <1>6, <1>7, <1>8, <2>1 DEF AloneInv, Wrote
  <2>3. ASSUME goes = "notify" PROVE Synced
    <3>1. ~syncs(i)
      BY <1>4, <2>3
    <3>2. ~Inc!Opens(to)
      BY <3>1 DEF Inc!Opens, Inc!Becomes
    <3>3. to \in {"running", "completed", "cancelled"} => i = 0
      BY <3>1 DEF Inc!Becomes
    <3>4. \A j \in Inc!Unresolved : j # 0
      BY DEF Inc!Unresolved, IncInv
    <3>5. to \in {"running", "completed", "cancelled"} => Inc!Unresolved = {}
      BY <1>2, <3>3, <3>4 DEF Inc!FirstListed
    <3>. QED  BY <2>1, <3>2, <3>5 DEF Synced
  <2>. QED  BY <2>2, <2>3
<1>10. Undisturbed' => Undisturbed
  BY <1>1 DEF Undisturbed
<1>11. Undisturbed' =>
         /\ \A d \in Updates : AloneInv(d)'
         /\ (\A d \in Updates : caller'[d].pc \in {"idle", "notify"}) => Synced'
  BY <1>4, <1>6, <1>7, <1>8, <1>9, <1>10
<1>12. down' => cut' \/ Inc!Quiet'
  BY <1>1, BusyIsCut DEF Busy
<1>13. lone' => \A d, e \in Updates : Busy(d)' /\ Busy(e)' => d = e
  BY <1>1, <1>7, OnlyOne DEF Busy
<1>. QED  BY <1>1, <1>7, <1>11, <1>12, <1>13 DEF IncInv

\* What becomes of the incidents in a change alone.
LEMMA SyncedAfter ==
  ASSUME IncInv, NEW c \in Updates, Inc!Sync(c), Undisturbed
  PROVE  Synced' /\ incidents' \in Seq(Incident)
<1> DEFINE to == Inc!Becomes(caller[c].to)
           i == caller[c].found
           n == Len(incidents) + 1
<1>1. /\ UNCHANGED <<status, down, lone, single, touched, cut>> /\ caller[c].pc = "sync"
      /\ incidents' = IF down THEN incidents
                      ELSE IF i = 0 THEN Append(incidents, [status |-> to])
                      ELSE [incidents EXCEPT ![i].status = to]
  BY Zenon DEF Inc!Sync, Inc!history
<1>2. /\ status = caller[c].to /\ Inc!FirstListed(i)
      /\ single => Inc!AtMostOne
      /\ IsHandler(caller[c]) /\ incidents \in Seq(Incident)
  BY <1>1 DEF IncInv, AloneInv, Wrote
<1>3. to # "" /\ status \in Inc!RunStatus
  BY <1>1, <1>2 DEF IsHandler
<1>4. to \in Inc!IncidentStatus
  BY <1>3 DEF Inc!Becomes, Inc!IncidentStatus
<1>5. ~down
  BY <1>1, BusyIsCut DEF Undisturbed, Busy
<1>6. Inc!Unresolved = {j \in DOMAIN incidents : incidents[j].status # "resolved"}
  BY DEF Inc!Unresolved, Inc!Active
<1>7. Inc!Unresolved' = {j \in DOMAIN incidents' : incidents'[j].status # "resolved"}
  BY DEF Inc!Unresolved, Inc!Active
<1>8. CASE i = 0
  <2> DEFINE added == [status |-> to]
  <2>1. added \in Incident /\ added.status = to
    BY <1>4 DEF Incident
  <2>2. incidents' = Append(incidents, added)
    BY <1>1, <1>5, <1>8
  <2> HIDE DEF added
  <2>3. /\ incidents' \in Seq(Incident) /\ DOMAIN incidents = 1..Len(incidents)
        /\ DOMAIN incidents' = 1..n /\ incidents'[n] = added /\ n \in Nat
        /\ \A j \in DOMAIN incidents : incidents'[j] = incidents[j]
    BY <1>2, <2>1, <2>2
  <2>4. Inc!Unresolved = {}
    BY <1>2, <1>6, <1>8, <2>3 DEF Inc!FirstListed
  <2>5. Inc!Unresolved' \subseteq {n}
    BY <1>6, <1>7, <2>3, <2>4
  <2>6. IF to = "resolved" THEN Inc!Unresolved' = {} ELSE n \in Inc!Unresolved'
    BY <1>7, <2>1, <2>3, <2>5
  <2>7. Inc!AtMostOne'
    BY <2>5 DEF Inc!AtMostOne
  <2>8. \A j \in Inc!Unresolved' : incidents'[j].status = to
    BY <2>1, <2>3, <2>5
  <2>. QED  BY <1>1, <1>2, <1>3, <2>3, <2>6, <2>7, <2>8 DEF Synced, Inc!Opens, Inc!Becomes
<1>9. CASE i # 0
  <2> DEFINE moved == [incidents[i] EXCEPT !.status = to]
  <2>1. i \in Inc!Unresolved /\ i \in DOMAIN incidents
    BY <1>2, <1>6, <1>9 DEF Inc!FirstListed
  <2>2. incidents' = [incidents EXCEPT ![i] = moved]
    BY <1>1, <1>5, <1>9, Zenon
  <2>3. incidents[i] \in Incident
    BY <1>2, <2>1
  <2>4. moved \in Incident /\ moved.status = to
    BY <1>4, <2>3 DEF Incident
  <2> HIDE DEF moved
  <2>5. /\ incidents' \in Seq(Incident)
        /\ DOMAIN incidents' = DOMAIN incidents /\ incidents'[i] = moved
        /\ \A j \in DOMAIN incidents : j # i => incidents'[j] = incidents[j]
    BY <1>2, <2>1, <2>2, <2>4, ExceptSeq
  <2>6. single => Inc!Unresolved = {i}
    BY <1>2, <2>1 DEF Inc!AtMostOne
  <2>7. single => Inc!Unresolved' \subseteq {i}
    BY <1>6, <1>7, <2>5, <2>6
  <2>8. IF to = "resolved" THEN i \notin Inc!Unresolved' ELSE i \in Inc!Unresolved'
    BY <1>7, <2>1, <2>4, <2>5
  <2>9. single => Inc!AtMostOne' /\ \A j \in Inc!Unresolved' : incidents'[j].status = to
    BY <2>4, <2>5, <2>7 DEF Inc!AtMostOne
  <2>10. single /\ to = "resolved" => Inc!Unresolved' = {}
    BY <2>7, <2>8
  <2>. QED  BY <1>1, <1>2, <1>3, <2>5, <2>8, <2>9, <2>10 DEF Synced, Inc!Opens, Inc!Becomes
<1>. QED  BY <1>8, <1>9

LEMMA SyncIncidentKeeps ==
  ASSUME IncInv, NEW c \in Updates, Inc!Sync(c)
  PROVE  IncInv'
<1> DEFINE to == Inc!Becomes(caller[c].to)
           i == caller[c].found
           new == [caller[c] EXCEPT !.pc = "notify"]
<1>1. /\ UNCHANGED <<status, down, lone, single, touched, cut>>
      /\ caller[c].pc = "sync" /\ caller' = [caller EXCEPT ![c] = new]
      /\ incidents' = IF down THEN incidents
                      ELSE IF i = 0 THEN Append(incidents, [status |-> to])
                      ELSE [incidents EXCEPT ![i].status = to]
  BY Zenon DEF Inc!Sync, Inc!history
<1>2. IsHandler(caller[c]) /\ incidents \in Seq(Incident)
  BY DEF IncInv
<1>3. IsHandler(new) /\ new.pc = "notify" /\ new.to = caller[c].to
  BY <1>1, <1>2 DEF IsHandler
<1>4. to \in Inc!IncidentStatus
  BY <1>1, <1>2 DEF IsHandler, Inc!Becomes, Inc!IncidentStatus
<1> HIDE DEF new
<1>5. /\ DOMAIN caller' = Updates /\ caller'[c] = new
      /\ \A d \in Updates : d # c => caller'[d] = caller[d]
      /\ \A d \in Updates : IsHandler(caller'[d])
  BY <1>1, <1>3, HandlerGoes
<1>6. incidents' \in Seq(Incident)
  <2> DEFINE opened == [status |-> to]
             moved == [incidents EXCEPT ![i].status = to]
  <2>1. opened \in Incident
    BY <1>4 DEF Incident
  <2> HIDE DEF opened
  <2>2. Append(incidents, opened) \in Seq(Incident)
    BY <1>2, <2>1
  <2>3. moved \in Seq(Incident)
    <3>1. CASE i \in DOMAIN incidents
      <4> DEFINE one == [incidents[i] EXCEPT !.status = to]
      <4>1. incidents[i] \in Incident
        BY <1>2, <3>1
      <4>2. one \in Incident
        BY <1>4, <4>1 DEF Incident
      <4>3. moved = [incidents EXCEPT ![i] = one]
        BY Zenon
      <4> HIDE DEF one, moved
      <4>. QED  BY <1>2, <3>1, <4>2, <4>3, ExceptSeq
    <3>2. CASE i \notin DOMAIN incidents
      <4>1. moved = incidents
        BY <1>2, <3>2
      <4>. QED  BY <1>2, <4>1 DEF moved
    <3>. QED  BY <3>1, <3>2
  <2>4. incidents' = incidents \/ incidents' = Append(incidents, opened) \/ incidents' = moved
    BY <1>1, Zenon DEF opened
  <2> HIDE DEF moved
  <2>. QED  BY <1>2, <2>2, <2>3, <2>4
<1>7. ASSUME Undisturbed PROVE Synced' /\ \A d \in Updates : AloneInv(d)'
  <2>1. /\ status = caller[c].to
        /\ \A d \in Updates : d # c => caller[d].pc = "idle"
    BY <1>1, <1>7, OnlyOne DEF IncInv, AloneInv, Wrote, Undisturbed, Busy
  <2>2. \A d \in Updates : AloneInv(d)'
    BY <1>1, <1>3, <1>5, <2>1 DEF AloneInv, Wrote
  <2>. QED  BY <1>7, <2>2, SyncedAfter
<1>8. Undisturbed' => Undisturbed
  BY <1>1 DEF Undisturbed
<1>9. down' => cut' \/ Inc!Quiet'
  BY <1>1, BusyIsCut DEF Busy
<1>10. lone' => \A d, e \in Updates : Busy(d)' /\ Busy(e)' => d = e
  BY <1>1, <1>5, OnlyOne DEF Busy
<1>. QED  BY <1>5, <1>6, <1>7, <1>8, <1>9, <1>10 DEF IncInv

LEMMA NotifyKeeps ==
  ASSUME IncInv, NEW c \in Updates, Inc!Notify(c)
  PROVE  IncInv'
<1>1. /\ UNCHANGED <<status, incidents, down, lone, single, touched, cut>>
      /\ caller[c].pc = "notify" /\ caller' = [caller EXCEPT ![c] = Inc!Idle]
  BY DEF Inc!Notify
<1>2. /\ DOMAIN caller' = Updates /\ caller'[c] = Inc!Idle
      /\ \A d \in Updates : d # c => caller'[d] = caller[d]
      /\ \A d \in Updates : IsHandler(caller'[d])
  BY <1>1, IdleHandler, HandlerGoes
<1>3. Synced' <=> Synced
  BY <1>1 DEF Synced, Inc!AtMostOne, Inc!Unresolved, Inc!Active
<1>4. ASSUME Undisturbed PROVE Synced /\ \A d \in Updates : AloneInv(d)'
  <2>1. \A d \in Updates : d # c => caller[d].pc = "idle"
    BY <1>1, <1>4, OnlyOne DEF Undisturbed, Busy
  <2>2. Synced
    BY <1>1, <1>4, <2>1 DEF IncInv
  <2>3. \A d \in Updates : AloneInv(d)'
    BY <1>2, <2>1, IdleHandler DEF AloneInv, Wrote
  <2>. QED  BY <2>2, <2>3
<1>5. Undisturbed' => Undisturbed
  BY <1>1 DEF Undisturbed
<1>6. down' => cut' \/ Inc!Quiet'
  BY <1>1, BusyIsCut DEF Busy
<1>7. lone' => \A d, e \in Updates : Busy(d)' /\ Busy(e)' => d = e
  BY <1>1, <1>2, OnlyOne, IdleHandler DEF Busy
<1>. QED  BY <1>1, <1>2, <1>3, <1>4, <1>5, <1>6, <1>7 DEF IncInv

\* Operators may open and move incidents whatever handlers do.
LEMMA OperatorKeeps ==
  ASSUME IncInv, Inc!OperatorOpens \/ Inc!OperatorMoves
  PROVE  IncInv'
<1>1. UNCHANGED <<status, caller, down, cut, lone>> /\ touched' = TRUE
  BY DEF Inc!OperatorOpens, Inc!OperatorMoves
<1>2. incidents' \in Seq(Incident)
  <2>1. incidents \in Seq(Incident)
    BY DEF IncInv
  <2>2. CASE Inc!OperatorOpens
    <3>1. [status |-> "open"] \in Incident
      BY DEF Incident, Inc!IncidentStatus
    <3>. QED  BY <2>1, <2>2, <3>1 DEF Inc!OperatorOpens
  <2>3. CASE Inc!OperatorMoves
    <3>1. PICK i \in DOMAIN incidents, to \in Inc!IncidentStatus :
             incidents' = [incidents EXCEPT ![i].status = to]
      BY <2>3 DEF Inc!OperatorMoves
    <3> DEFINE moved == [incidents[i] EXCEPT !.status = to]
    <3>2. incidents' = [incidents EXCEPT ![i] = moved]
      BY <3>1, Zenon
    <3>3. incidents[i] \in Incident
      BY <2>1
    <3>4. moved \in Incident
      BY <3>3 DEF Incident
    <3> HIDE DEF moved
    <3>. QED  BY <2>1, <3>2, <3>4, ExceptSeq
  <2>. QED  BY <2>2, <2>3
<1>. QED  BY <1>1, <1>2 DEF IncInv, Undisturbed, Busy, Inc!Quiet

LEMMA ProcessKeeps ==
  ASSUME IncInv, Inc!ShutDown \/ Inc!Boot
  PROVE  IncInv'
<1>1. UNCHANGED <<status, incidents, lone, single, touched>>
  BY DEF Inc!ShutDown, Inc!Boot
<1>2. /\ Inc!AtMostOne' <=> Inc!AtMostOne
      /\ Synced' <=> Synced
      /\ \A i : Inc!FirstListed(i)' <=> Inc!FirstListed(i)
  BY <1>1 DEF Inc!AtMostOne, Inc!FirstListed, Inc!Unresolved, Inc!Active, Synced
<1>3. CASE Inc!ShutDown
  <2>1. caller' = caller /\ cut' = (cut \/ ~Inc!Quiet)
    BY <1>3 DEF Inc!ShutDown
  <2>2. \A c \in Updates : AloneInv(c)' <=> AloneInv(c)
    BY <1>1, <1>2, <2>1 DEF AloneInv, Wrote
  <2>. QED  BY <1>1, <1>2, <2>1, <2>2 DEF IncInv, Undisturbed, Busy, Inc!Quiet
<1>4. CASE Inc!Boot
  <2>1. down /\ ~down' /\ cut' = cut /\ caller' = [c \in Updates |-> Inc!Idle]
    BY <1>4 DEF Inc!Boot
  <2>2. /\ DOMAIN caller' = Updates
        /\ \A c \in Updates : caller'[c].pc = "idle" /\ IsHandler(caller'[c])
    BY <2>1, IdleHandler
  <2>3. \A c \in Updates : AloneInv(c)'
    BY <2>2 DEF AloneInv, Wrote
  <2>4. Undisturbed' => Synced
    BY <1>1, <2>1 DEF IncInv, Undisturbed, Inc!Quiet
  <2>. QED  BY <1>1, <1>2, <2>1, <2>2, <2>3, <2>4 DEF IncInv, Busy
<1>. QED  BY <1>3, <1>4

LEMMA IncStepwise == IncInv /\ [Inc!Next]_(Inc!vars) => IncInv'
<1> SUFFICES ASSUME IncInv, [Inc!Next]_(Inc!vars) PROVE IncInv'
  OBVIOUS
<1>1. CASE UNCHANGED Inc!vars
  <2>1. UNCHANGED <<status, incidents, caller, down, lone, single, touched, cut>>
    BY <1>1 DEF Inc!vars, Inc!state, Inc!history
  <2>2. /\ Inc!AtMostOne' <=> Inc!AtMostOne
        /\ Synced' <=> Synced
        /\ \A i : Inc!FirstListed(i)' <=> Inc!FirstListed(i)
    BY <2>1 DEF Inc!AtMostOne, Inc!FirstListed, Inc!Unresolved, Inc!Active, Synced
  <2>3. \A c \in Updates : AloneInv(c)' <=> AloneInv(c)
    BY <2>1, <2>2 DEF AloneInv, Wrote
  <2>. QED  BY <2>1, <2>2, <2>3 DEF IncInv, Undisturbed, Busy, Inc!Quiet
<1>2. CASE Inc!Next
  BY <1>2, ReadPriorKeeps, WriteStatusKeeps, FindKeeps, SyncIncidentKeeps, NotifyKeeps,
     OperatorKeeps, ProcessKeeps DEF Inc!Next
<1>. QED  BY <1>1, <1>2

\* However changes of the run's status, operators and shutdowns interleave:
\* after a change that had no other beside it and was left alone, the incidents
\* say what the status does.
THEOREM IncidentTellsRunHolds == Inc!Spec => []IncidentTellsRun
<1>1. IncInv => IncidentTellsRun
  BY DEF IncInv, Undisturbed, Synced, Inc!Quiet, IncidentTellsRun, Inc!IncidentTellsRun
<1>. QED  BY IncInitially, IncStepwise, <1>1, PTL DEF Inc!Spec

---------------------------------------------------------------------------
(* What the parent of a delegated run is told *)

\* What a handler read or wrote the run has had.
HearInv ==
    /\ ParentHearsEnds
    /\ notices \in Seq(Inc!RunStatus)
    /\ status \in had
    /\ \A c \in Updates : Busy(c) => caller[c].prior \in had
    /\ \A c \in Updates : Wrote(c) => caller[c].to \in had

LEMMA HearInitially == Inc!Init => HearInv
<1> SUFFICES ASSUME Inc!Init PROVE HearInv
  OBVIOUS
<1>1. \A c \in Updates : caller[c].pc = "idle"
  BY DEF Inc!Init, Inc!Idle
<1>2. had \cap Inc!Terminal = {} /\ Inc!Told = {}
  BY DEF Inc!Init, Inc!Terminal, Inc!Told
<1>. QED  BY <1>1, <1>2
          DEF Inc!Init, HearInv, ParentHearsEnds, Inc!ParentHearsEnds, Busy, Wrote

\* A handler that is on its way to tell the parent goes on.
LEMMA OnTheWay ==
  ASSUME IncInv, HearInv, NEW c \in Updates,
         \A d \in Updates : d # c => caller'[d] = caller[d],
         ~Inc!Untold(c) \/ (Inc!Untold(c)' /\ caller'[c].to = caller[c].to),
         notices' = notices, missed \subseteq missed'
  PROVE  /\ Inc!Told' = Inc!Told
         /\ \A end \in had \cap Inc!Terminal :
              \/ end \in Inc!Told' \cup missed'
              \/ \E d \in Updates : Inc!Untold(d)' /\ caller'[d].to = end
<1>1. Inc!Told' = Inc!Told
  BY DEF Inc!Told
<1>2. \A d \in Updates : Inc!Untold(d) => Inc!Untold(d)' /\ caller'[d].to = caller[d].to
  BY DEF Inc!Untold
<1>. QED  BY <1>1, <1>2 DEF HearInv, ParentHearsEnds, Inc!ParentHearsEnds

LEMMA HearReadPrior ==
  ASSUME IncInv, HearInv, NEW c \in Updates, NEW to \in Inc!RunStatus, Inc!ReadPrior(c, to)
  PROVE  HearInv'
<1>1. /\ UNCHANGED <<status, notices, had, missed>> /\ caller[c].pc = "idle"
      /\ DOMAIN caller' = Updates
      /\ \A d \in Updates : d # c => caller'[d] = caller[d]
      /\ caller'[c].pc = "write" /\ caller'[c].prior = status
  BY DEF Inc!ReadPrior, IncInv, Inc!Idle
<1>2. ~Inc!Untold(c)
  BY <1>1 DEF Inc!Untold
<1>. QED  BY <1>1, <1>2, OnTheWay
          DEF HearInv, ParentHearsEnds, Inc!ParentHearsEnds, Busy, Wrote

LEMMA HearWriteStatus ==
  ASSUME IncInv, HearInv, NEW c \in Updates, Inc!WriteStatus(c)
  PROVE  HearInv'
<1>0. IsHandler(caller[c])
  BY DEF IncInv
<1>1. /\ UNCHANGED <<notices, missed>> /\ caller[c].pc = "write"
      /\ status' = caller[c].to /\ had' = had \cup {caller[c].to}
      /\ DOMAIN caller' = Updates
      /\ \A d \in Updates : d # c => caller'[d] = caller[d]
      /\ caller'[c].pc = "find" /\ caller'[c].prior = caller[c].prior
      /\ caller'[c].to = caller[c].to
  BY <1>0 DEF Inc!WriteStatus, IncInv, IsHandler
<1>2. ~Inc!Untold(c)
  BY <1>1 DEF Inc!Untold
<1>3. caller[c].prior \in had
  BY <1>1 DEF HearInv, Busy
<1>4. caller[c].to \notin had /\ caller[c].to \in Inc!Terminal => Inc!Untold(c)'
  BY <1>1, <1>3 DEF Inc!Untold, Inc!News
<1>5. /\ Inc!Told' = Inc!Told
      /\ \A end \in had \cap Inc!Terminal :
           \/ end \in Inc!Told' \cup missed'
           \/ \E d \in Updates : Inc!Untold(d)' /\ caller'[d].to = end
  BY <1>1, <1>2, OnTheWay
<1>6. \A end \in had' \cap Inc!Terminal :
           \/ end \in Inc!Told' \cup missed'
           \/ \E d \in Updates : Inc!Untold(d)' /\ caller'[d].to = end
  BY <1>1, <1>4, <1>5
<1>7. Inc!Told' \subseteq had' \cap Inc!Terminal
  BY <1>1, <1>5 DEF HearInv, ParentHearsEnds, Inc!ParentHearsEnds
<1>8. ParentHearsEnds'
  BY <1>6, <1>7 DEF ParentHearsEnds, Inc!ParentHearsEnds
<1>. QED  BY <1>1, <1>8 DEF HearInv, Busy, Wrote

LEMMA HearSync ==
  ASSUME IncInv, HearInv, NEW c \in Updates, Inc!Find(c) \/ Inc!Sync(c)
  PROVE  HearInv'
<1>0. IsHandler(caller[c])
  BY DEF IncInv
<1>1. /\ UNCHANGED <<status, notices, had, missed>> /\ Wrote(c)
      /\ DOMAIN caller' = Updates
      /\ \A d \in Updates : d # c => caller'[d] = caller[d]
      /\ caller'[c].prior = caller[c].prior /\ caller'[c].to = caller[c].to
      /\ caller'[c].pc \in {"sync", "notify"}
  <2>1. CASE Inc!Find(c)
    <3> DEFINE To(i) == IF Inc!Becomes(caller[c].to) # ""
                              /\ (i # 0 \/ Inc!Opens(caller[c].to))
                        THEN "sync" ELSE "notify"
    <3>1. PICK i : caller' = [caller EXCEPT ![c].pc = To(i), ![c].found = i]
      BY <2>1, Zenon DEF Inc!Find
    <3>2. To(i) \in {"sync", "notify"}
      OBVIOUS
    <3> HIDE DEF To
    <3>. QED  BY <1>0, <2>1, <3>1, <3>2 DEF Inc!Find, Inc!history, IncInv, IsHandler, Wrote
  <2>2. CASE Inc!Sync(c)
    BY <1>0, <2>2 DEF Inc!Sync, Inc!history, IncInv, IsHandler, Wrote
  <2>. QED  BY <2>1, <2>2
<1>2. Inc!Untold(c) => Inc!Untold(c)'
  BY <1>1 DEF Inc!Untold
<1>. QED  BY <1>1, <1>2, OnTheWay
          DEF HearInv, ParentHearsEnds, Inc!ParentHearsEnds, Busy, Wrote

LEMMA HearNotify ==
  ASSUME IncInv, HearInv, NEW c \in Updates, Inc!Notify(c)
  PROVE  HearInv'
<1> DEFINE end == caller[c].to
<1>1. /\ UNCHANGED <<status, had>> /\ caller[c].pc = "notify"
      /\ notices' = IF Inc!Untold(c) /\ ~down THEN Append(notices, end) ELSE notices
      /\ missed' = IF Inc!Untold(c) /\ down THEN missed \cup {end} ELSE missed
      /\ caller' = [caller EXCEPT ![c] = Inc!Idle]
  BY DEF Inc!Notify
<1>2. /\ DOMAIN caller' = Updates /\ caller'[c].pc = "idle"
      /\ \A d \in Updates : d # c => caller'[d] = caller[d]
  BY <1>1, IdleHandler DEF IncInv
<1>3. end \in had /\ end \in Inc!RunStatus /\ notices \in Seq(Inc!RunStatus)
  BY <1>1 DEF HearInv, IncInv, IsHandler, Wrote
<1>4. notices' \in Seq(Inc!RunStatus)
      /\ Inc!Told' = IF Inc!Untold(c) /\ ~down THEN Inc!Told \cup {end} ELSE Inc!Told
  <2>1. CASE Inc!Untold(c) /\ ~down
    <3>1. /\ notices' \in Seq(Inc!RunStatus) /\ Len(notices) \in Nat
          /\ DOMAIN notices = 1..Len(notices) /\ DOMAIN notices' = 1..(Len(notices) + 1)
          /\ notices'[Len(notices) + 1] = end
          /\ \A k \in DOMAIN notices : notices'[k] = notices[k]
      BY <1>1, <1>3, <2>1
    <3>2. Inc!Told' \subseteq Inc!Told \cup {end} /\ Inc!Told \cup {end} \subseteq Inc!Told'
      BY <3>1 DEF Inc!Told
    <3>. QED  BY <2>1, <3>1, <3>2
  <2>2. CASE ~(Inc!Untold(c) /\ ~down)
    BY <1>1, <1>3, <2>2 DEF Inc!Told
  <2>. QED  BY <2>1, <2>2
<1>5. Inc!Untold(c) => end \in Inc!Terminal
  BY DEF Inc!Untold, Inc!News
<1>6. \A d \in Updates : d # c /\ Inc!Untold(d) => Inc!Untold(d)' /\ caller'[d].to = caller[d].to
  BY <1>2 DEF Inc!Untold
<1>7. Inc!Untold(c) => end \in Inc!Told' \cup missed'
  BY <1>1, <1>4
<1>8. missed \subseteq missed' /\ Inc!Told \subseteq Inc!Told'
  BY <1>1, <1>4
<1>9. \A e \in had' \cap Inc!Terminal :
           \/ e \in Inc!Told' \cup missed'
           \/ \E d \in Updates : Inc!Untold(d)' /\ caller'[d].to = e
  <2> SUFFICES ASSUME NEW e \in had \cap Inc!Terminal, e \notin Inc!Told' \cup missed'
               PROVE  \E d \in Updates : Inc!Untold(d)' /\ caller'[d].to = e
    BY <1>1
  <2>1. PICK d \in Updates : Inc!Untold(d) /\ caller[d].to = e
    BY <1>8 DEF HearInv, ParentHearsEnds, Inc!ParentHearsEnds
  <2>2. d # c
    BY <1>7, <2>1
  <2>. QED  BY <1>6, <2>1, <2>2
<1>10. Inc!Told' \subseteq had' \cap Inc!Terminal
  BY <1>1, <1>3, <1>4, <1>5 DEF HearInv, ParentHearsEnds, Inc!ParentHearsEnds
<1>11. ParentHearsEnds'
  BY <1>9, <1>10 DEF ParentHearsEnds, Inc!ParentHearsEnds
<1>. QED  BY <1>1, <1>2, <1>4, <1>11 DEF HearInv, Busy, Wrote

LEMMA HearProcess ==
  ASSUME IncInv, HearInv,
         Inc!OperatorOpens \/ Inc!OperatorMoves \/ Inc!ShutDown \/ Inc!Boot
  PROVE  HearInv'
<1>1. CASE Inc!OperatorOpens \/ Inc!OperatorMoves \/ Inc!ShutDown
  BY <1>1 DEF Inc!OperatorOpens, Inc!OperatorMoves, Inc!ShutDown, HearInv, ParentHearsEnds,
              Inc!ParentHearsEnds, Inc!Told, Inc!Untold, Busy, Wrote
<1>2. CASE Inc!Boot
  <2>1. /\ UNCHANGED <<status, notices, had>>
        /\ missed' = missed \cup {caller[c].to : c \in {d \in Updates : Inc!Untold(d)}}
        /\ caller' = [c \in Updates |-> Inc!Idle]
    BY <1>2 DEF Inc!Boot
  <2>2. \A c \in Updates : caller'[c].pc = "idle"
    BY <2>1, IdleHandler
  <2>3. \A c \in Updates : Inc!Untold(c) => caller[c].to \in missed'
    BY <2>1
  <2>4. Inc!Told' = Inc!Told
    BY <2>1 DEF Inc!Told
  <2>5. ParentHearsEnds'
    BY <2>1, <2>3, <2>4 DEF HearInv, ParentHearsEnds, Inc!ParentHearsEnds
  <2>. QED  BY <2>1, <2>2, <2>5 DEF HearInv, Busy, Wrote
<1>. QED  BY <1>1, <1>2

LEMMA HearStepwise == IncInv /\ HearInv /\ [Inc!Next]_(Inc!vars) => HearInv'
<1> SUFFICES ASSUME IncInv, HearInv, [Inc!Next]_(Inc!vars) PROVE HearInv'
  OBVIOUS
<1>1. CASE UNCHANGED Inc!vars
  <2>1. UNCHANGED <<status, caller, notices, had, missed>>
    BY <1>1 DEF Inc!vars, Inc!state, Inc!history
  <2>. QED  BY <2>1 DEF HearInv, ParentHearsEnds, Inc!ParentHearsEnds, Inc!Told, Inc!Untold,
                        Busy, Wrote
<1>2. CASE Inc!Next
  BY <1>2, HearReadPrior, HearWriteStatus, HearSync, HearNotify, HearProcess DEF Inc!Next
<1>. QED  BY <1>1, <1>2

\* However changes of a delegated run, operators and shutdowns interleave, its
\* parent hears of the ends the run has had and of no others; one it has not
\* heard of a handler is about to tell it, or a shutdown kept from it.
THEOREM ParentHearsEndsHolds == Inc!Spec => []ParentHearsEnds
<1>1. HearInv => ParentHearsEnds
  BY DEF HearInv
<1>. QED  BY IncInitially, IncStepwise, HearInitially, HearStepwise, <1>1, PTL DEF Inc!Spec

---------------------------------------------------------------------------
(* The plan of the tasks *)

\* R puts the elements of S in one line.
Lines(R, S) ==
    /\ \A x \in S : <<x, x>> \notin R
    /\ \A x, y \in S : x # y => <<x, y>> \in R \/ <<y, x>> \in R
    /\ \A x, y, z \in S : <<x, y>> \in R /\ <<y, z>> \in R => <<x, z>> \in R

LEMMA Counts == \A S : Plan!Cardinality(S) = Cardinality(S)
BY Zenon DEF Plan!Cardinality, Cardinality, Plan!IsFiniteSet, IsFiniteSet

\* A finite set that is in line is so in a sequence: each element stands where
\* the number of those up to it says.
LEMMA InLine ==
    ASSUME NEW S, IsFiniteSet(S), NEW R, Lines(R, S)
    PROVE  \E s \in Plan!SetToSeqs(S) :
             \A i, j \in DOMAIN s : i < j => <<s[i], s[j]>> \in R
<1> DEFINE n == Cardinality(S)
           UpTo(x) == {y \in S : y = x \/ <<y, x>> \in R}
           place == [x \in S |-> Cardinality(UpTo(x))]
<1>1. n \in Nat
  BY FS_CardinalityType
<1>2. ASSUME NEW x \in S PROVE IsFiniteSet(UpTo(x)) /\ place[x] \in 1..n
  <2>1. IsFiniteSet(UpTo(x)) /\ Cardinality(UpTo(x)) <= n
    BY FS_Subset
  <2>2. Cardinality(UpTo(x)) \in Nat /\ Cardinality(UpTo(x)) # 0
    <3>1. x \in UpTo(x)
      OBVIOUS
    <3>. QED  BY <2>1, <3>1, FS_CardinalityType, FS_EmptySet
  <2>. QED  BY <1>1, <2>1, <2>2
<1>3. ASSUME NEW x \in S, NEW y \in S, <<x, y>> \in R PROVE place[x] < place[y]
  <2>1. UpTo(x) \subseteq UpTo(y) /\ y \in UpTo(y) /\ y \notin UpTo(x)
    BY <1>3 DEF Lines
  <2>2. Cardinality(UpTo(x)) <= Cardinality(UpTo(y))
        /\ Cardinality(UpTo(x)) # Cardinality(UpTo(y))
    BY <1>2, <2>1, FS_Subset
  <2>3. Cardinality(UpTo(x)) \in Nat /\ Cardinality(UpTo(y)) \in Nat
    BY <1>2, FS_CardinalityType
  <2>. QED  BY <2>2, <2>3
<1> HIDE DEF UpTo, place, n
<1>4. place \in Injection(S, 1..n)
  <2>1. place \in [S -> 1..n]
    BY <1>2 DEF place
  <2>2. \A x, y \in S : place[x] = place[y] => x = y
    <3> SUFFICES ASSUME NEW x \in S, NEW y \in S, place[x] = place[y], x # y PROVE FALSE
      OBVIOUS
    <3>1. place[x] \in Int /\ place[y] \in Int
      BY <1>2
    <3>2. <<x, y>> \in R \/ <<y, x>> \in R
      BY DEF Lines
    <3>3. place[x] < place[y] \/ place[y] < place[x]
      BY <1>3, <3>2
    <3>. QED  BY <3>1, <3>3
  <2>. QED  BY <2>1, <2>2 DEF Injection, IsInjective
<1>5. \A i \in 1..n : \E x \in S : place[x] = i
  <2>1. IsFiniteSet(1..n) /\ Cardinality(1..n) = n
    BY <1>1, FS_Interval
  <2>2. place \in Surjection(S, 1..n)
    BY <1>4, <2>1, FS_Injection DEF n
  <2>. QED  BY <2>2 DEF Surjection
<1> DEFINE s == [i \in 1..n |-> CHOOSE x \in S : place[x] = i]
<1>6. ASSUME NEW i \in 1..n PROVE s[i] \in S /\ place[s[i]] = i
  <2>. QED  BY <1>5
<1>7. s \in [1..n -> S] /\ DOMAIN s = 1..n
  <2>1. \A i \in 1..n : s[i] \in S
    BY <1>6
  <2>. QED  BY <2>1
<1> HIDE DEF s
<1>8. s \in Plan!SetToSeqs(S)
  <2>1. \A i, j \in 1..n : i # j => s[i] # s[j]
    BY <1>6
  <2>. QED  BY <1>7, <2>1, Counts DEF Plan!SetToSeqs, n
<1>9. ASSUME NEW i \in 1..n, NEW j \in 1..n, i < j PROVE <<s[i], s[j]>> \in R
  <2>1. s[i] \in S /\ s[j] \in S /\ place[s[i]] = i /\ place[s[j]] = j
    BY <1>6
  <2>2. s[i] # s[j] /\ <<s[j], s[i]>> \notin R
    BY <1>3, <1>9, <2>1
  <2>. QED  BY <2>1, <2>2 DEF Lines
<1>. QED  BY <1>7, <1>8, <1>9

\* One of them is the first.
LEMMA InLineFirst ==
    ASSUME NEW S, IsFiniteSet(S), S # {}, NEW R, Lines(R, S)
    PROVE  \E x \in S : \A y \in S \ {x} : <<x, y>> \in R
<1>1. PICK s \in Plan!SetToSeqs(S) : \A i, j \in DOMAIN s : i < j => <<s[i], s[j]>> \in R
  BY InLine
<1> DEFINE n == Cardinality(S)
<1>2. n \in Nat /\ n # 0
  BY FS_CardinalityType, FS_EmptySet
<1>3. s \in [1..n -> S] /\ \A i, j \in 1..n : i # j => s[i] # s[j]
  BY Counts DEF Plan!SetToSeqs
<1>4. \A y \in S : \E i \in 1..n : s[i] = y
  <2>1. IsFiniteSet(1..n) /\ Cardinality(1..n) = n
    BY <1>2, FS_Interval
  <2>2. s \in Injection(1..n, S)
    BY <1>3 DEF Injection, IsInjective
  <2>3. s \in Surjection(1..n, S)
    BY <2>1, <2>2, FS_Injection
  <2>. QED  BY <2>3 DEF Surjection
<1>5. s[1] \in S
  BY <1>2, <1>3
<1>6. ASSUME NEW y \in S, y # s[1] PROVE <<s[1], y>> \in R
  <2>1. PICK i \in 1..n : s[i] = y
    BY <1>4
  <2>. QED  BY <1>1, <1>2, <1>3, <1>6, <2>1
<1>. QED  BY <1>5, <1>6

\* The latest run has the tasks and the decisions of its selection.
Planned ==
    /\ \E number \in Plan!SelectionsOf(DOMAIN selection) :
         Len(number) = Len(selection) /\ tasks = Plan!Tasks(selection, number)
    /\ decisions = Plan!Decisions(selection)

\* What is executed came in order: the analysis first, and with the summary all
\* is done.
ExecutedInv ==
    /\ executed \in Seq(tasks)
    /\ \A i, j \in DOMAIN executed : executed[i] = executed[j] => i = j
    /\ \A i \in DOMAIN executed :
         /\ executed[i].name = "analyze_request" <=> i = 1
         /\ executed[i].name = "summarize_outcome" =>
              i = Len(executed) /\ tasks = Plan!ToSet(executed)

\* The selection is what the catalog has left of the first, or more, and leads
\* with the same specialist while this one is there.
SelectionInv ==
    /\ selection \in Plan!SelectionsOf(Specialists)
    /\ catalog \subseteq Specialists
    /\ Plan!ToSet(selection) \subseteq Plan!ToSet(first)
    /\ catalog \cap Plan!ToSet(first) \subseteq Plan!ToSet(selection)
    /\ first # <<>> /\ first[1] \in catalog => selection # <<>> /\ selection[1] = first[1]

PlanInv ==
    /\ runs \in Nat
    /\ IF runs = 0 THEN tasks = {} /\ decisions = {} /\ executed = <<>> ELSE Planned
    /\ ExecutedInv
    /\ SelectionInv

LEMMA SelectionType ==
    ASSUME NEW S, NEW s \in Plan!SelectionsOf(S)
    PROVE  /\ s \in Seq(S) /\ Len(s) \in Nat /\ DOMAIN s = 1..Len(s)
           /\ \A i \in 1..Len(s) : s[i] \in S
           /\ \A i, j \in 1..Len(s) : s[i] = s[j] => i = j
<1>1. PICK n \in 0..Plan!Cardinality(S) :
         s \in [1..n -> S] /\ \A i, j \in 1..n : s[i] = s[j] => i = j
  BY DEF Plan!SelectionsOf
<1>2. n \in Nat
  OBVIOUS
<1>3. s \in Seq(S) /\ Len(s) = n
  BY <1>1, <1>2
<1>. QED  BY <1>1, <1>2, <1>3

\* The tasks by their names: what a rank is given for, and what tells two
\* contributions apart.
Contribution(t) ==
    /\ t.name = "specialist_contribution" /\ Plan!Rank(t) = 2
    /\ t.label \in Nat /\ t.id \in Nat
    /\ \E i \in 2..Len(selection) : t.agent = selection[i]
    /\ t.agent \in Careful => t.approval

LEMMA TasksByName ==
    ASSUME Planned, selection \in Plan!SelectionsOf(Specialists)
    PROVE  \A t \in tasks :
             /\ t.label \in Nat /\ t.id \in Nat
             /\ \/ /\ t.name = "analyze_request" /\ Plan!Rank(t) = 0
                   /\ t.agent = Plan!Lead(selection)
                \/ /\ t.name = "execute_planned_work" /\ Plan!Rank(t) = 1
                   /\ t.agent = Plan!Lead(selection)
                   /\ t.agent \in Careful => t.approval
                \/ /\ t.name = "summarize_outcome" /\ Plan!Rank(t) = 4
                   /\ t.agent = None
                \/ Contribution(t)
<1>1. PICK number \in Plan!SelectionsOf(DOMAIN selection) :
        Len(number) = Len(selection) /\ tasks = Plan!Tasks(selection, number)
  BY DEF Planned
<1>2. /\ Len(selection) \in Nat
      /\ \A i \in 1..Len(selection) : selection[i] \in Specialists
      /\ DOMAIN selection = 1..Len(selection)
  BY SelectionType
<1>3. \A i \in 1..Len(selection) : number[i] \in Nat
  <2>1. \A i \in 1..Len(selection) : number[i] \in DOMAIN selection
    BY <1>1, SelectionType
  <2>. QED  BY <1>2, <2>1
<1> SUFFICES ASSUME NEW t \in tasks
             PROVE  /\ t.label \in Nat /\ t.id \in Nat
                    /\ \/ /\ t.name = "analyze_request" /\ Plan!Rank(t) = 0
                          /\ t.agent = Plan!Lead(selection)
                       \/ /\ t.name = "execute_planned_work" /\ Plan!Rank(t) = 1
                          /\ t.agent = Plan!Lead(selection)
                          /\ t.agent \in Careful => t.approval
                       \/ /\ t.name = "summarize_outcome" /\ Plan!Rank(t) = 4
                          /\ t.agent = None
                       \/ Contribution(t)
  OBVIOUS
<1> DEFINE lead == Plan!Lead(selection)
<1>4. CASE t = Plan!Task("analyze_request", "operational", lead, FALSE, 0)
  BY <1>4 DEF Plan!Task, Plan!Rank
<1>5. CASE t = Plan!Task("execute_planned_work", "plan_step", lead,
                         risky \/ lead \in Careful, 0)
  BY <1>5 DEF Plan!Task, Plan!Rank
<1>6. CASE t = Plan!Task("summarize_outcome", "cleanup", None, FALSE, 0)
  BY <1>6 DEF Plan!Task, Plan!Rank
<1>7. ASSUME NEW i \in 2..Len(selection),
             t = Plan!Task("specialist_contribution", "operational", selection[i],
                           selection[i] \in Careful, number[i])
      PROVE  Contribution(t) /\ t.label \in Nat /\ t.id \in Nat
  <2>1. selection[i] \in Specialists /\ number[i] \in Nat
    BY <1>2, <1>3
  <2>2. Label[selection[i]] \in Nat
    BY <2>1, SpecialistsAssumption
  <2>. QED  BY <1>7, <2>1, <2>2 DEF Plan!Task, Plan!Rank, Contribution
<1>. QED  BY <1>1, <1>4, <1>5, <1>6, <1>7 DEF Plan!Tasks

\* A template gives one task; label and id tell a contribution from the others.
LEMMA TasksDiffer ==
    ASSUME Planned, selection \in Plan!SelectionsOf(Specialists),
           NEW t \in tasks, NEW u \in tasks,
           t.name = u.name,
           t.name # "specialist_contribution" \/ (t.label = u.label /\ t.id = u.id)
    PROVE  t = u
<1>1. PICK number \in Plan!SelectionsOf(DOMAIN selection) :
        Len(number) = Len(selection) /\ tasks = Plan!Tasks(selection, number)
  BY DEF Planned
<1>2. \A i, j \in 2..Len(selection) : number[i] = number[j] => i = j
  <2>1. Len(selection) \in Nat
    BY SelectionType
  <2>. QED  BY <1>1, <2>1, SelectionType
<1> DEFINE lead == Plan!Lead(selection)
           Own(i) == Plan!Task("specialist_contribution", "operational", selection[i],
                               selection[i] \in Careful, number[i])
           a == Plan!Task("analyze_request", "operational", lead, FALSE, 0)
           b == Plan!Task("execute_planned_work", "plan_step", lead,
                          risky \/ lead \in Careful, 0)
           c == Plan!Task("summarize_outcome", "cleanup", None, FALSE, 0)
<1>3. /\ a.name = "analyze_request" /\ b.name = "execute_planned_work"
      /\ c.name = "summarize_outcome"
      /\ \A i \in 2..Len(selection) :
           Own(i).name = "specialist_contribution" /\ Own(i).id = number[i]
  BY DEF Plan!Task
<1> HIDE DEF Own, a, b, c
<1>4. \A v \in tasks : v \in {a, b, c} \/ \E i \in 2..Len(selection) : v = Own(i)
  BY <1>1 DEF Plan!Tasks, Own, a, b, c
<1>5. CASE t.name = "specialist_contribution"
  <2>1. PICK i \in 2..Len(selection) : t = Own(i)
    BY <1>3, <1>4, <1>5
  <2>2. PICK j \in 2..Len(selection) : u = Own(j)
    BY <1>3, <1>4, <1>5
  <2>. QED  BY <1>2, <1>3, <2>1, <2>2
<1>6. CASE t.name # "specialist_contribution"
  BY <1>3, <1>4, <1>6
<1>. QED  BY <1>5, <1>6

\* There is an analysis by the lead, a summary, and a task of each specialist.
LEMMA TasksThere ==
    ASSUME Planned, selection \in Plan!SelectionsOf(Specialists)
    PROVE  /\ \E t \in tasks : t.name = "analyze_request"
           /\ \E t \in tasks : t.name = "summarize_outcome"
           /\ \A i \in 1..Len(selection) : \E t \in tasks : t.agent = selection[i]
<1>1. PICK number \in Plan!SelectionsOf(DOMAIN selection) :
        Len(number) = Len(selection) /\ tasks = Plan!Tasks(selection, number)
  BY DEF Planned
<1> DEFINE lead == Plan!Lead(selection)
           analysis == Plan!Task("analyze_request", "operational", lead, FALSE, 0)
           Own(i) == Plan!Task("specialist_contribution", "operational", selection[i],
                               selection[i] \in Careful, number[i])
<1>2. analysis \in tasks /\ analysis.name = "analyze_request" /\ analysis.agent = lead
  BY <1>1 DEF Plan!Tasks, Plan!Task
<1>3. Plan!Task("summarize_outcome", "cleanup", None, FALSE, 0) \in tasks
  BY <1>1 DEF Plan!Tasks
<1>4. ASSUME NEW i \in 1..Len(selection) PROVE \E t \in tasks : t.agent = selection[i]
  <2>1. CASE i = 1
    <3>1. selection # <<>>
      BY SelectionType
    <3>. QED  BY <1>2, <2>1, <3>1 DEF Plan!Lead
  <2>2. CASE i # 1
    <3>1. i \in 2..Len(selection)
      BY <2>2, SelectionType
    <3>2. Own(i) \in tasks
      BY <1>1, <3>1 DEF Plan!Tasks
    <3>3. Own(i).agent = selection[i]
      BY DEF Plan!Task
    <3>. QED  BY <3>2, <3>3
  <2>. QED  BY <2>1, <2>2
<1>. QED  BY <1>2, <1>3, <1>4 DEF Plan!Task

LEMMA TasksFinite ==
    ASSUME Planned, selection \in Plan!SelectionsOf(Specialists)
    PROVE  IsFiniteSet(tasks)
<1>1. PICK number \in Plan!SelectionsOf(DOMAIN selection) :
        Len(number) = Len(selection) /\ tasks = Plan!Tasks(selection, number)
  BY DEF Planned
<1> DEFINE lead == Plan!Lead(selection)
           own == [i \in 2..Len(selection) |->
                     Plan!Task("specialist_contribution", "operational", selection[i],
                               selection[i] \in Careful, number[i])]
           Owns == {own[i] : i \in 2..Len(selection)}
           a == Plan!Task("analyze_request", "operational", lead, FALSE, 0)
           b == Plan!Task("execute_planned_work", "plan_step", lead,
                          risky \/ lead \in Careful, 0)
           c == Plan!Task("summarize_outcome", "cleanup", None, FALSE, 0)
<1>2. IsFiniteSet(Owns)
  <2>1. IsFiniteSet(2..Len(selection))
    BY SelectionType, FS_Interval
  <2> HIDE DEF own
  <2>2. own \in [2..Len(selection) -> Owns]
    BY DEF own
  <2>3. own \in Surjection(2..Len(selection), Owns)
    BY <2>2 DEF Surjection
  <2>. QED  BY <2>1, <2>3, FS_Surjection
<1>3. tasks = Owns \cup {a} \cup {b} \cup {c}
  BY <1>1 DEF Plan!Tasks
<1> HIDE DEF Owns, a, b, c
<1>4. IsFiniteSet(Owns \cup {a} \cup {b} \cup {c})
  BY <1>2, FS_AddElement
<1>. QED  BY <1>3, <1>4

Precedes == {p \in tasks \X tasks : Plan!Before(p[1], p[2])}

\* Rank, name and id put the tasks of a run in one line.
LEMMA TasksInLine ==
    ASSUME Planned, selection \in Plan!SelectionsOf(Specialists)
    PROVE  Lines(Precedes, tasks)
<1>1. \A t, u \in tasks : <<t, u>> \in Precedes <=> Plan!Before(t, u)
  BY DEF Precedes
<1>2. \A t \in tasks :
        /\ t.label \in Nat /\ t.id \in Nat /\ Plan!Rank(t) \in Nat
        /\ \/ t.name = "analyze_request" /\ Plan!Rank(t) = 0
           \/ t.name = "execute_planned_work" /\ Plan!Rank(t) = 1
           \/ t.name = "summarize_outcome" /\ Plan!Rank(t) = 4
           \/ t.name = "specialist_contribution" /\ Plan!Rank(t) = 2
  BY TasksByName DEF Contribution
<1>3. \A t \in tasks : <<t, t>> \notin Precedes
  BY <1>1, <1>2 DEF Plan!Before
<1>4. ASSUME NEW t \in tasks, NEW u \in tasks, t # u
      PROVE  <<t, u>> \in Precedes \/ <<u, t>> \in Precedes
  <2>1. CASE Plan!Rank(t) # Plan!Rank(u)
    BY <1>1, <1>2, <2>1 DEF Plan!Before
  <2>2. CASE Plan!Rank(t) = Plan!Rank(u)
    <3>1. t.name = u.name
      BY <1>2, <2>2
    <3>2. t.label # u.label \/ t.id # u.id
      BY <1>4, <3>1, TasksDiffer
    <3>. QED  BY <1>1, <1>2, <2>2, <3>2 DEF Plan!Before
  <2>. QED  BY <2>1, <2>2
<1>5. ASSUME NEW t \in tasks, NEW u \in tasks, NEW v \in tasks,
             <<t, u>> \in Precedes, <<u, v>> \in Precedes
      PROVE  <<t, v>> \in Precedes
  <2>1. Plan!Before(t, u) /\ Plan!Before(u, v)
    BY <1>1, <1>5
  <2>. QED  BY <1>1, <1>2, <2>1 DEF Plan!Before
<1>. QED  BY <1>3, <1>4, <1>5 DEF Lines

\* There is a first one among any of them.
LEMMA FirstIsFirst ==
    ASSUME Planned, selection \in Plan!SelectionsOf(Specialists),
           NEW S, S \subseteq tasks, S # {}
    PROVE  /\ Plan!First(S) \in S
           /\ \A u \in S : u # Plan!First(S) => Plan!Before(Plan!First(S), u)
<1>1. IsFiniteSet(S)
  BY TasksFinite, FS_Subset
<1>2. Lines(Precedes, S)
  BY TasksInLine DEF Lines
<1>3. PICK t \in S : \A u \in S \ {t} : <<t, u>> \in Precedes
  BY <1>1, <1>2, InLineFirst
<1>4. \A u \in S \ {t} : Plan!Before(t, u)
  BY <1>3 DEF Precedes
<1>. QED  BY <1>3, <1>4 DEF Plan!First

Agents == {t.agent : t \in tasks}
Mention(agent) == Plan!First({t \in tasks : t.agent = agent})
MentionedBefore == {p \in Agents \X Agents : Plan!Before(Mention(p[1]), Mention(p[2]))}

LEMMA MentionsInLine ==
    ASSUME Planned, selection \in Plan!SelectionsOf(Specialists)
    PROVE  Lines(MentionedBefore, Agents)
<1>1. ASSUME NEW a \in Agents PROVE Mention(a) \in tasks /\ Mention(a).agent = a
  <2> DEFINE S == {t \in tasks : t.agent = a}
  <2>1. S # {} /\ S \subseteq tasks
    BY DEF Agents
  <2>2. Plan!First(S) \in S
    BY <2>1, FirstIsFirst
  <2>. QED  BY <2>2 DEF Mention
<1>2. \A a, b \in Agents :
        <<a, b>> \in MentionedBefore <=> <<Mention(a), Mention(b)>> \in Precedes
  BY <1>1 DEF MentionedBefore, Precedes
<1>3. Lines(Precedes, tasks)
  BY TasksInLine
<1> HIDE DEF Mention
<1>4. \A a \in Agents : <<a, a>> \notin MentionedBefore
  BY <1>1, <1>2, <1>3 DEF Lines
<1>5. \A a, b \in Agents :
        a # b => <<a, b>> \in MentionedBefore \/ <<b, a>> \in MentionedBefore
  BY <1>1, <1>2, <1>3 DEF Lines
<1>6. \A a, b, c \in Agents :
        <<a, b>> \in MentionedBefore /\ <<b, c>> \in MentionedBefore =>
        <<a, c>> \in MentionedBefore
  BY <1>1, <1>2, <1>3 DEF Lines
<1>. QED  BY <1>4, <1>5, <1>6 DEF Lines

\* Whoever stays selected for a rerun is selected in the order of the tasks.
LEMMA RerunInOrder ==
    ASSUME Planned, selection \in Plan!SelectionsOf(Specialists)
    PROVE  /\ Plan!SelectionForRerun \in Plan!SetToSeqs(Agents \cap catalog)
           /\ \A i, j \in DOMAIN Plan!SelectionForRerun : i < j =>
                Plan!Before(Mention(Plan!SelectionForRerun[i]),
                            Mention(Plan!SelectionForRerun[j]))
<1> DEFINE S == Agents \cap catalog
<1>1. IsFiniteSet(S)
  <2> DEFINE agent == [t \in tasks |-> t.agent]
  <2>1. agent \in Surjection(tasks, Agents)
    BY DEF Surjection, Agents
  <2>2. IsFiniteSet(Agents)
    BY <2>1, TasksFinite, FS_Surjection
  <2>. QED  BY <2>2, FS_Subset
<1>2. Lines(MentionedBefore, S)
  BY MentionsInLine DEF Lines
<1>3. PICK s \in Plan!SetToSeqs(S) :
        \A i, j \in DOMAIN s : i < j => <<s[i], s[j]>> \in MentionedBefore
  BY <1>1, <1>2, InLine
<1>4. \A i, j \in DOMAIN s : i < j => Plan!Before(Mention(s[i]), Mention(s[j]))
  BY <1>3 DEF MentionedBefore
<1> DEFINE Ordered(q) ==
             \A i, j \in DOMAIN q : i < j => Plan!Before(Mention(q[i]), Mention(q[j]))
<1>5. Plan!SelectionForRerun = CHOOSE q \in Plan!SetToSeqs(S) : Ordered(q)
  BY DEF Plan!SelectionForRerun, Mention, Agents
<1> HIDE DEF Ordered
<1>6. Ordered(Plan!SelectionForRerun) /\ Plan!SelectionForRerun \in Plan!SetToSeqs(S)
  <2>1. Ordered(s)
    BY <1>4 DEF Ordered
  <2>. QED  BY <1>3, <1>5, <2>1
<1>. QED  BY <1>6 DEF Ordered

\* A rerun keeps whom the catalog still has, and their lead.
LEMMA RerunKeeps ==
    ASSUME PlanInv, runs # 0
    PROVE  /\ Plan!SelectionForRerun \in Plan!SelectionsOf(Specialists)
           /\ Plan!ToSet(Plan!SelectionForRerun) = Plan!ToSet(selection) \cap catalog
           /\ selection # <<>> /\ selection[1] \in catalog =>
                /\ Plan!SelectionForRerun # <<>>
                /\ Plan!SelectionForRerun[1] = selection[1]
<1> DEFINE s == Plan!SelectionForRerun
           S == Agents \cap catalog
<1>1. Planned /\ selection \in Plan!SelectionsOf(Specialists) /\ catalog \subseteq Specialists
  BY DEF PlanInv, SelectionInv
<1>2. /\ s \in Plan!SetToSeqs(S)
      /\ \A i, j \in DOMAIN s : i < j => Plan!Before(Mention(s[i]), Mention(s[j]))
  BY <1>1, RerunInOrder
<1>3. IsFiniteSet(S) /\ Cardinality(S) <= Cardinality(Specialists)
  BY <1>1, FS_Subset, SpecialistsAssumption
<1> DEFINE n == Cardinality(S)
<1>4. n \in Nat /\ Cardinality(Specialists) \in Nat
  BY <1>3, FS_CardinalityType, SpecialistsAssumption
<1> HIDE DEF s, S
<1>5. s \in [1..n -> S] /\ \A i, j \in 1..n : s[i] = s[j] => i = j
  BY <1>2, Counts DEF Plan!SetToSeqs
<1>6. \A a \in S : \E i \in 1..n : s[i] = a
  <2>1. IsFiniteSet(1..n) /\ Cardinality(1..n) = n
    BY <1>4, FS_Interval
  <2>2. s \in Injection(1..n, S)
    BY <1>5 DEF Injection, IsInjective
  <2>3. s \in Surjection(1..n, S)
    BY <1>3, <2>1, <2>2, FS_Injection
  <2>. QED  BY <2>3 DEF Surjection
<1>7. s \in Plan!SelectionsOf(Specialists)
  <2>1. s \in [1..n -> Specialists]
    BY <1>1, <1>5 DEF S
  <2>2. n \in 0..Plan!Cardinality(Specialists)
    BY <1>3, <1>4, Counts
  <2> HIDE DEF n
  <2>. QED  BY <1>5, <2>1, <2>2 DEF Plan!SelectionsOf
<1>8. S = Plan!ToSet(selection) \cap catalog
  <2>1. DOMAIN selection = 1..Len(selection) /\ Len(selection) \in Nat
    BY <1>1, SelectionType
  <2>2. ASSUME NEW a \in S PROVE a \in Plan!ToSet(selection)
    <3>1. PICK t \in tasks : t.agent = a
      BY DEF S, Agents
    <3>2. a # None
      BY <1>1, SpecialistsAssumption DEF S
    <3>3. a = Plan!Lead(selection) \/ \E i \in 2..Len(selection) : a = selection[i]
      BY <1>1, <3>1, <3>2, TasksByName DEF Contribution
    <3>4. Plan!Lead(selection) # None => 1 \in DOMAIN selection
                                         /\ Plan!Lead(selection) = selection[1]
      BY <1>1, <2>1, SelectionType DEF Plan!Lead
    <3>. QED  BY <2>1, <3>2, <3>3, <3>4 DEF Plan!ToSet
  <2>3. ASSUME NEW a \in Plan!ToSet(selection) \cap catalog PROVE a \in S
    <3>1. PICK i \in 1..Len(selection) : a = selection[i]
      BY <2>1 DEF Plan!ToSet
    <3>2. \E t \in tasks : t.agent = a
      BY <1>1, <3>1, TasksThere
    <3>. QED  BY <2>3, <3>2 DEF S, Agents
  <2>. QED  BY <2>2, <2>3 DEF S
<1>9. Plan!ToSet(s) = S
  BY <1>5, <1>6 DEF Plan!ToSet
<1>10. ASSUME selection # <<>>, selection[1] \in catalog
       PROVE  s # <<>> /\ s[1] = selection[1]
  <2>1. /\ selection \in Seq(Specialists) /\ DOMAIN selection = 1..Len(selection)
        /\ Len(selection) \in Nat
    BY <1>1, SelectionType
  <2>2. selection[1] \in S
    BY <1>8, <1>10, <2>1 DEF Plan!ToSet
  <2>3. PICK i \in 1..n : s[i] = selection[1]
    BY <1>6, <2>2
  <2>4. DOMAIN s = 1..n /\ 1 \in 1..n
    BY <1>4, <1>5, <2>3
  <2>5. PICK t \in tasks : t.name = "analyze_request"
    BY <1>1, TasksThere
  <2>6. t.agent = selection[1]
    BY <1>1, <1>10, <2>5, TasksByName DEF Plan!Lead, Contribution
  <2>7. ASSUME i # 1 PROVE FALSE
    <3>1. Plan!Before(Mention(s[1]), Mention(s[i]))
      BY <1>2, <2>3, <2>4, <2>7
    <3> DEFINE Of(a) == {u \in tasks : u.agent = a}
    <3>2. t \in Of(s[i]) /\ Of(s[i]) \subseteq tasks
      BY <2>3, <2>6
    <3>3. Mention(s[i]) \in Of(s[i]) /\ (t # Mention(s[i]) => Plan!Before(Mention(s[i]), t))
      BY <1>1, <3>2, FirstIsFirst DEF Mention
    <3>4. Of(s[1]) # {} /\ Of(s[1]) \subseteq tasks
      BY <1>5, <2>4 DEF S, Agents
    <3>5. Mention(s[1]) \in Of(s[1])
      BY <1>1, <3>4, FirstIsFirst DEF Mention
    <3>6. s[1] # s[i]
      BY <1>5, <2>4, <2>7
    <3> HIDE DEF Mention
    <3>7. /\ Mention(s[1]) \in tasks /\ Mention(s[i]) \in tasks
          /\ Mention(s[1]) # t
      BY <2>3, <2>6, <3>3, <3>5, <3>6
    <3>8. Plan!Before(Mention(s[1]), t)
      <4>1. <<Mention(s[1]), Mention(s[i])>> \in Precedes
        BY <3>1, <3>7 DEF Precedes
      <4>2. t # Mention(s[i]) => <<Mention(s[i]), t>> \in Precedes
        BY <3>3, <3>7 DEF Precedes
      <4>3. <<Mention(s[1]), t>> \in Precedes
        BY <1>1, <3>7, <4>1, <4>2, TasksInLine DEF Lines
      <4>. QED  BY <4>3 DEF Precedes
    <3>9. Plan!Rank(t) = 0 /\ Plan!Rank(Mention(s[1])) \in Nat
      BY <1>1, <2>5, <3>7, TasksByName DEF Contribution
    <3>10. Plan!Rank(Mention(s[1])) = 0
      BY <3>8, <3>9 DEF Plan!Before
    <3>11. Mention(s[1]).name = t.name
      BY <1>1, <2>5, <3>7, <3>10, TasksByName DEF Contribution
    <3>. QED  BY <1>1, <2>5, <3>7, <3>11, TasksDiffer
  <2>8. s # <<>>
    <3>1. s \in Seq(S) /\ Len(s) = n
      BY <1>4, <1>5
    <3>. QED  BY <2>4, <3>1
  <2>. QED  BY <2>3, <2>7, <2>8
<1>. QED  BY <1>7, <1>8, <1>9, <1>10 DEF s

\* Whatever is selected, createRunFromRequest makes the tasks and decisions of it.
LEMMA CreateKeeps ==
    ASSUME NEW chosen, Plan!Create(chosen), selection' = chosen, UNCHANGED risky,
           runs \in Nat
    PROVE  runs' \in Nat \ {0} /\ Planned' /\ ExecutedInv'
<1>1. runs' \in Nat \ {0} /\ executed' = <<>>
  BY DEF Plan!Create
<1>2. PICK number \in Plan!SelectionsOf(DOMAIN chosen) :
        Len(number) = Len(chosen) /\ tasks' = Plan!Tasks(chosen, number)
  BY DEF Plan!Create
<1>3. Planned'
  <2>1. (Plan!Tasks(selection, number))' = Plan!Tasks(chosen, number)
    BY DEF Plan!Tasks, Plan!Lead, Plan!Task
  <2>2. (Plan!Decisions(selection))' = Plan!Decisions(chosen)
    BY DEF Plan!Decisions
  <2>3. decisions' = Plan!Decisions(chosen)
    BY DEF Plan!Create
  <2>4. (Plan!SelectionsOf(DOMAIN selection))' = Plan!SelectionsOf(DOMAIN chosen)
    BY DEF Plan!SelectionsOf
  <2>. QED  BY <1>2, <2>1, <2>2, <2>3, <2>4 DEF Planned
<1>4. ExecutedInv'
  BY <1>1 DEF ExecutedInv
<1>. QED  BY <1>1, <1>3, <1>4

LEMMA ExecuteKeeps ==
    ASSUME PlanInv, Plan!ExecuteNext
    PROVE  ExecutedInv'
<1> DEFINE queued == tasks \ Plan!ToSet(executed)
           t == Plan!First(queued)
<1>1. queued # {} /\ executed' = Append(executed, t) /\ tasks' = tasks
  BY DEF Plan!ExecuteNext
<1>2. Planned /\ selection \in Plan!SelectionsOf(Specialists) /\ ExecutedInv
  BY <1>1 DEF PlanInv, SelectionInv
<1>3. /\ t \in queued
      /\ \A u \in queued : u # t => Plan!Before(t, u)
  BY <1>1, <1>2, FirstIsFirst
<1>4. executed \in Seq(tasks) /\ Plan!ToSet(executed) = {executed[i] : i \in 1..Len(executed)}
  BY <1>2 DEF ExecutedInv, Plan!ToSet
<1> HIDE DEF t
<1>5. /\ executed' \in Seq(tasks) /\ Len(executed') = Len(executed) + 1
      /\ DOMAIN executed' = 1..(Len(executed) + 1) /\ DOMAIN executed = 1..Len(executed)
      /\ \A i \in 1..Len(executed) : executed'[i] = executed[i]
      /\ executed'[Len(executed) + 1] = t
      /\ Len(executed) \in Nat
  BY <1>1, <1>3, <1>4
<1>6. t \in tasks /\ \A i \in 1..Len(executed) : executed[i] # t
  BY <1>3, <1>4
<1>7. \A i, j \in DOMAIN executed' : executed'[i] = executed'[j] => i = j
  BY <1>2, <1>5, <1>6 DEF ExecutedInv
<1>8. \A u \in tasks : Plan!Rank(u) \in Nat
  BY <1>2, TasksByName DEF Contribution
<1>9. t.name = "analyze_request" <=> Len(executed) = 0
  <2>1. PICK a \in tasks : a.name = "analyze_request"
    BY <1>2, TasksThere
  <2>2. CASE Len(executed) = 0
    <3>1. a \in queued
      BY <1>4, <2>2
    <3>2. Plan!Rank(a) = 0
      BY <1>2, <2>1, TasksByName DEF Contribution
    <3>3. t = a \/ Plan!Rank(t) = 0
      BY <1>3, <1>6, <1>8, <3>1, <3>2 DEF Plan!Before
    <3>. QED  BY <1>2, <1>6, <2>1, <2>2, <3>3, TasksByName DEF Contribution
  <2>3. CASE Len(executed) # 0
    <3>1. executed[1].name = "analyze_request" /\ executed[1] \in tasks /\ executed[1] # t
      BY <1>2, <1>4, <1>5, <1>6, <2>3 DEF ExecutedInv
    <3>. QED  BY <1>2, <1>6, <2>3, <3>1, TasksDiffer
  <2>. QED  BY <2>2, <2>3
<1>10. \A i \in 1..Len(executed) : executed[i].name # "summarize_outcome"
  BY <1>1, <1>2, <1>5 DEF ExecutedInv
<1>11. ASSUME t.name = "summarize_outcome" PROVE tasks = (Plan!ToSet(executed))'
  <2>1. ASSUME NEW u \in queued PROVE u = t
    <3>1. SUFFICES ASSUME u # t PROVE FALSE
      OBVIOUS
    <3>2. Plan!Before(t, u) /\ u \in tasks
      BY <1>3, <2>1, <3>1
    <3>3. Plan!Rank(t) = 4
      BY <1>2, <1>6, <1>11, TasksByName DEF Contribution
    <3>4. Plan!Rank(u) >= 4
      BY <1>8, <3>2, <3>3 DEF Plan!Before
    <3>5. u.name = "summarize_outcome"
      BY <1>2, <3>2, <3>4, TasksByName DEF Contribution
    <3>. QED  BY <1>2, <1>6, <1>11, <3>1, <3>2, <3>5, TasksDiffer
  <2>2. (Plan!ToSet(executed))' = {executed'[i] : i \in 1..(Len(executed) + 1)}
    BY <1>5 DEF Plan!ToSet
  <2>3. ASSUME NEW u \in tasks PROVE u \in (Plan!ToSet(executed))'
    <3>1. CASE u \in queued
      BY <1>5, <2>1, <2>2, <3>1
    <3>2. CASE u \notin queued
      <4>1. PICK i \in 1..Len(executed) : u = executed[i]
        BY <1>4, <3>2
      <4>. QED  BY <1>5, <2>2, <4>1
    <3>. QED  BY <3>1, <3>2
  <2>4. ASSUME NEW u \in (Plan!ToSet(executed))' PROVE u \in tasks
    BY <1>5, <2>2, <2>4
  <2>. QED  BY <2>3, <2>4
<1>12. \A i \in DOMAIN executed' :
         /\ executed'[i].name = "analyze_request" <=> i = 1
         /\ executed'[i].name = "summarize_outcome" =>
              i = Len(executed') /\ tasks = (Plan!ToSet(executed))'
  <2> SUFFICES ASSUME NEW i \in DOMAIN executed'
               PROVE  /\ executed'[i].name = "analyze_request" <=> i = 1
                      /\ executed'[i].name = "summarize_outcome" =>
                           i = Len(executed') /\ tasks = (Plan!ToSet(executed))'
    OBVIOUS
  <2>1. CASE i = Len(executed) + 1
    BY <1>5, <1>9, <1>11, <2>1
  <2>2. CASE i \in 1..Len(executed)
    BY <1>2, <1>5, <1>10, <2>2 DEF ExecutedInv
  <2>. QED  BY <1>5, <2>1, <2>2
<1>. QED  BY <1>1, <1>5, <1>7, <1>12 DEF ExecutedInv

LEMMA PlanInitially == Plan!Init => PlanInv
<1> SUFFICES ASSUME Plan!Init PROVE PlanInv
  OBVIOUS
<1>1. ExecutedInv
  BY DEF Plan!Init, ExecutedInv
<1>2. SelectionInv
  <2>1. selection \in Plan!SelectionsOf(Specialists) /\ first = selection
        /\ catalog = Specialists
    BY DEF Plan!Init
  <2>. QED  BY <2>1 DEF SelectionInv
<1>. QED  BY <1>1, <1>2 DEF Plan!Init, PlanInv

LEMMA PlanStepwise == PlanInv /\ [Plan!Next]_(Plan!vars) => PlanInv'
<1> SUFFICES ASSUME PlanInv, [Plan!Next]_(Plan!vars) PROVE PlanInv'
  OBVIOUS
<1>1. ASSUME UNCHANGED <<selection, first, risky, tasks, decisions, runs>>
      PROVE  /\ Planned' <=> Planned
             /\ (selection \in Plan!SelectionsOf(Specialists))' <=>
                selection \in Plan!SelectionsOf(Specialists)
  BY <1>1 DEF Planned, Plan!Tasks, Plan!Lead, Plan!Task, Plan!Decisions, Plan!SelectionsOf
<1>2. CASE UNCHANGED Plan!vars
  BY <1>1, <1>2 DEF Plan!vars, PlanInv, ExecutedInv, SelectionInv, Plan!ToSet
<1>3. CASE Plan!CreateRun
  <2>1. runs' \in Nat \ {0} /\ Planned' /\ ExecutedInv'
    BY <1>3, CreateKeeps DEF Plan!CreateRun, PlanInv
  <2>2. SelectionInv'
    BY <1>3 DEF Plan!CreateRun, PlanInv, SelectionInv, Plan!ToSet, Plan!SelectionsOf
  <2>. QED  BY <2>1, <2>2 DEF PlanInv
<1>4. CASE Plan!ExecuteNext
  <2>1. ExecutedInv'
    BY <1>4, ExecuteKeeps
  <2>2. SelectionInv'
    BY <1>1, <1>4 DEF Plan!ExecuteNext, PlanInv, SelectionInv, Plan!ToSet
  <2>3. runs' \in Nat /\ runs' # 0 /\ Planned'
    BY <1>1, <1>4 DEF Plan!ExecuteNext, PlanInv
  <2>. QED  BY <2>1, <2>2, <2>3 DEF PlanInv
<1>5. CASE Plan!CatalogLoses
  <2>1. ExecutedInv'
    BY <1>5 DEF Plan!CatalogLoses, PlanInv, ExecutedInv, Plan!ToSet
  <2>2. SelectionInv'
    BY <1>1, <1>5 DEF Plan!CatalogLoses, PlanInv, SelectionInv, Plan!ToSet
  <2>. QED  BY <1>1, <1>5, <2>1, <2>2 DEF Plan!CatalogLoses, PlanInv
<1>6. CASE Plan!Rerun
  <2> DEFINE s == Plan!SelectionForRerun
  <2>1. /\ runs # 0 /\ selection' = s /\ Plan!Create(s)
        /\ UNCHANGED <<first, risky, catalog>>
    BY <1>6 DEF Plan!Rerun
  <2>2. runs' \in Nat \ {0} /\ Planned' /\ ExecutedInv'
    BY <2>1, CreateKeeps DEF PlanInv
  <2>3. /\ s \in Plan!SelectionsOf(Specialists)
        /\ Plan!ToSet(s) = Plan!ToSet(selection) \cap catalog
        /\ selection # <<>> /\ selection[1] \in catalog => s # <<>> /\ s[1] = selection[1]
    BY <2>1, RerunKeeps
  <2> HIDE DEF s
  <2>4. SelectionInv
    BY DEF PlanInv
  <2>5. /\ (selection \in Plan!SelectionsOf(Specialists))'
        /\ (Plan!ToSet(selection))' = Plan!ToSet(s)
        /\ (Plan!ToSet(first))' = Plan!ToSet(first)
    BY <2>1, <2>3 DEF Plan!SelectionsOf, Plan!ToSet
  <2>6. SelectionInv'
    BY <2>1, <2>3, <2>4, <2>5 DEF SelectionInv
  <2>. QED  BY <2>2, <2>6 DEF PlanInv
<1>. QED  BY <1>2, <1>3, <1>4, <1>5, <1>6 DEF Plan!Next

\* Whatever names and ids the tasks have, the lead analyses first, the summary
\* comes when everybody of the decisions has had a part, what requires approval
\* has it, and a rerun keeps the specialists that are left, and their lead.
THEOREM PlanKeptHolds == Plan!Spec => []PlanKept
<1>1. PlanInv => PlanKept
  <2> SUFFICES ASSUME PlanInv PROVE PlanKept
    OBVIOUS
  <2>1. ASSUME NEW i \in DOMAIN executed
        PROVE  /\ executed[i].name = "analyze_request" <=> i = 1
               /\ executed[i].name = "summarize_outcome" =>
                    /\ i = Plan!Cardinality(tasks)
                    /\ {d.agent : d \in decisions} =
                          {executed[j].agent : j \in 1..i} \ {None}
               /\ i > 1 /\ executed[i].agent \in Careful => executed[i].approval
    <3>1. ExecutedInv /\ executed # <<>>
      BY DEF PlanInv
    <3>2. Planned /\ selection \in Plan!SelectionsOf(Specialists)
      BY <3>1 DEF PlanInv, SelectionInv
    <3>3. /\ executed \in Seq(tasks) /\ Len(executed) \in Nat
          /\ DOMAIN executed = 1..Len(executed) /\ executed[i] \in tasks
      BY <3>1 DEF ExecutedInv
    <3>4. ASSUME i > 1, executed[i].agent \in Careful PROVE executed[i].approval
      <4>1. executed[i].name # "analyze_request"
        BY <3>1, <3>4 DEF ExecutedInv
      <4>2. None \notin Careful
        BY SpecialistsAssumption
      <4>. QED  BY <3>2, <3>3, <3>4, <4>1, <4>2, TasksByName DEF Contribution
    <3>5. ASSUME executed[i].name = "summarize_outcome"
          PROVE  /\ i = Plan!Cardinality(tasks)
                 /\ {d.agent : d \in decisions} =
                       {executed[j].agent : j \in 1..i} \ {None}
      <4>1. i = Len(executed) /\ tasks = {executed[j] : j \in 1..i}
        BY <3>1, <3>3, <3>5 DEF ExecutedInv, Plan!ToSet
      <4>2. Cardinality(tasks) = i
        <5>1. executed \in Bijection(1..i, tasks)
          <6>1. executed \in [1..i -> tasks]
            BY <3>3, <4>1
          <6>2. \A j, k \in 1..i : executed[j] = executed[k] => j = k
            BY <3>1, <3>3, <4>1 DEF ExecutedInv
          <6>3. \A t \in tasks : \E j \in 1..i : executed[j] = t
            BY <4>1
          <6>. QED  BY <6>1, <6>2, <6>3 DEF Bijection, Injection, IsInjective, Surjection
        <5>. QED  BY <3>3, <4>1, <5>1, FS_CountingElements DEF ExistsBijection
      <4>3. /\ DOMAIN selection = 1..Len(selection) /\ Len(selection) \in Nat
            /\ \A j \in 1..Len(selection) : selection[j] \in Specialists
        BY <3>2, SelectionType
      <4>4. {d.agent : d \in decisions} = {selection[j] : j \in 1..Len(selection)}
        <5>1. decisions = Plan!Decisions(selection)
          BY <3>2 DEF Planned
        <5>2. \A d \in decisions : \E j \in 1..Len(selection) : d.agent = selection[j]
          BY <4>3, <5>1 DEF Plan!Decisions
        <5>3. ASSUME NEW j \in 1..Len(selection)
              PROVE  \E d \in decisions : d.agent = selection[j]
          <6> DEFINE d == [agent |-> selection[j],
                           role |-> IF j = 1 THEN "lead" ELSE "contributor"]
          <6>1. d \in decisions
            BY <4>3, <5>1 DEF Plan!Decisions
          <6>. QED  BY <6>1
        <5>. QED  BY <5>2, <5>3
      <4>5. {executed[j].agent : j \in 1..i} = {t.agent : t \in tasks}
        BY <4>1
      <4>6. ASSUME NEW t \in tasks, t.agent # None
            PROVE  t.agent \in {selection[j] : j \in 1..Len(selection)}
        <5>1. t.agent = Plan!Lead(selection) \/ \E j \in 2..Len(selection) : t.agent = selection[j]
          BY <3>2, <4>6, TasksByName DEF Contribution
        <5>2. Plan!Lead(selection) # None =>
                1 \in DOMAIN selection /\ Plan!Lead(selection) = selection[1]
          BY <3>2, SelectionType DEF Plan!Lead
        <5>. QED  BY <4>3, <4>6, <5>1, <5>2
      <4>7. \A j \in 1..Len(selection) : \E t \in tasks : t.agent = selection[j]
        BY <3>2, TasksThere
      <4>8. \A j \in 1..Len(selection) : selection[j] # None
        BY <4>3, SpecialistsAssumption
      <4>9. {selection[j] : j \in 1..Len(selection)} = {t.agent : t \in tasks} \ {None}
        BY <4>6, <4>7, <4>8
      <4>. QED  BY <4>1, <4>2, <4>4, <4>5, <4>9, Counts
    <3>. QED  BY <3>1, <3>4, <3>5 DEF ExecutedInv
  <2>2. Plan!Cardinality({d \in decisions : d.role = "lead"}) <= 1
    <3> DEFINE L == {d \in decisions : d.role = "lead"}
               lead == [agent |-> selection[1], role |-> "lead"]
    <3>1. L \subseteq {lead}
      BY DEF PlanInv, Planned, Plan!Decisions
    <3> HIDE DEF L, lead
    <3>2. IsFiniteSet({lead}) /\ Cardinality({lead}) = 1
      BY FS_Singleton
    <3>3. Cardinality(L) <= 1
      BY <3>1, <3>2, FS_Subset
    <3>. QED  BY <3>3, Counts DEF L
  <2>3. SelectionInv
    BY DEF PlanInv
  <2>. QED  BY <2>1, <2>2, <2>3 DEF PlanKept, Plan!PlanKept, SelectionInv
<1>. QED  BY PlanInitially, PlanStepwise, <1>1, PTL DEF Plan!Spec

=============================================================================
