--------------------------- MODULE IntakeProofs ---------------------------
(***************************************************************************)
(* What holds of a session of Intake for any number of messages, threads,  *)
(* plans and runs, whatever the provider answers and wherever crew-api     *)
(* goes down: of its requests, however the handlers interleave, and of     *)
(* reruns and of the status of the session as long as its messages are     *)
(* handled one at a time.                                                  *)
(***************************************************************************)
EXTENDS Intake, SequenceTheorems, WellFoundedInduction, TLAPS

---------------------------------------------------------------------------
(* Types *)

SessionStatus == {"active", "awaiting_clarification"}
RequestStatus == {"accepted", "clarification_required"}
PlanStatus == {"draft", "locked", "awaiting_clarification"}
PlanBefore == PlanStatus \cup {""}
RunStatus == {"queued", "running", "blocked", "completed", "failed"}
Pcs == {"close", "restore", "store", "resolve", "decide", "ask", "thread", "open",
        "chat", "planning", "execution", "draft", "reply"} \cup Over

RequestRec == [msg : Msgs, status : RequestStatus]
ClarRec == [request : Nat, status : {"pending", "resolved"}, content : SUBSET Msgs,
            answer : SUBSET Msgs]
ThreadRec ==
    { thread \in [status : {"open", "resolved"}, before : SessionStatus,
                  plan : Nat, planBefore : PlanBefore] :
        thread.plan # 0 => thread.planBefore \in PlanStatus }
PlanRec == [status : PlanStatus, version : Nat]
RunRec == [request : Nat, content : SUBSET Msgs, plan : Nat, source : Nat,
           status : RunStatus, held : BOOLEAN, making : BOOLEAN]
HandRec == [pc : Pcs, clar : Nat, thread : Nat, request : Nat,
            type : RequestTypes \cup {""}, content : SUBSET Msgs,
            reason : BOOLEAN, kept : Nat]

TypeOK ==
    /\ session \in SessionStatus
    /\ requests \in Seq(RequestRec)
    /\ clars \in Seq(ClarRec)
    /\ threads \in Seq(ThreadRec)
    /\ plans \in Seq(PlanRec)
    /\ runs \in Seq(RunRec)
    /\ hand \in [Msgs -> HandRec]

\* The records a record names are there.
Named ==
    /\ \A i \in DOMAIN clars : clars[i].request \in DOMAIN requests
    /\ \A r \in DOMAIN runs : runs[r].request \in DOMAIN requests

NothingPending == \A i \in DOMAIN clars : ~Pending(clars[i])
NoRunOf(request) == \A r \in DOMAIN runs : runs[r].request # request

\* What a handler goes on with is there.
Refs(m) ==
    /\ hand[m].pc \in {"close", "restore"} => hand[m].thread \in DOMAIN threads
    /\ hand[m].pc \in {"close", "restore", "store", "resolve"} =>
         \/ hand[m].clar = 0 /\ hand[m].pc # "resolve"
         \/ hand[m].clar \in DOMAIN clars
    /\ \/ hand[m].pc = "decide" /\ hand[m].clar # 0
       \/ hand[m].pc \in {"ask", "execution"}
       => hand[m].request \in DOMAIN requests

Intact == TypeOK /\ Named /\ \A m \in Msgs : Refs(m)

---------------------------------------------------------------------------
(* The newest record *)

\* A set of positions has a last one.
LEMMA LastExists ==
  ASSUME NEW n \in Nat, NEW F \in SUBSET (1..n), F # {}
  PROVE  \E i \in F : \A j \in F : j <= i
<1> DEFINE T == {x \in Nat : n - x \in F}
<1>1. T \subseteq Nat /\ \A i \in F : n - i \in T
  OBVIOUS
<1>2. PICK x \in T : \A y \in T : ~(<<y, x>> \in OpToRel(<, Nat))
  <2>1. T # {}
    BY <1>1
  <2> HIDE DEF T
  <2> QED
    BY <1>1, <2>1, NatLessThanWellFounded, WFMin
<1>3. \A y \in T : ~(y < x)
  <2> HIDE DEF T
  <2> QED
    BY <1>1, <1>2 DEF OpToRel
<1>4. n - x \in F /\ x \in Nat
  OBVIOUS
<1>5. \A j \in F : j <= n - x
  <2> SUFFICES ASSUME NEW j \in F PROVE j <= n - x
    OBVIOUS
  <2>1. ~(n - j < x)
    BY <1>1, <1>3
  <2> QED
    BY <2>1, <1>4
<1> QED
  BY <1>4, <1>5

LEMMA NewestOf ==
  ASSUME NEW n \in Nat, NEW F \in SUBSET (1..n), F # {}
  PROVE  (CHOOSE i \in F : \A j \in F : j <= i) \in F
  BY LastExists

LEMMA ListedPending ==
  ASSUME TypeOK, NEW c \in FirstListed(clars, Pending)
  PROVE  \/ c = 0 /\ \A i \in DOMAIN clars : ~Pending(clars[i])
         \/ c \in DOMAIN clars /\ Pending(clars[c])
  BY DEF FirstListed

LEMMA ListedOpen ==
  ASSUME TypeOK, NEW t \in FirstListed(threads, Open)
  PROVE  \/ t = 0 /\ \A i \in DOMAIN threads : ~Open(threads[i])
         \/ t \in DOMAIN threads /\ Open(threads[t])
  BY DEF FirstListed

LEMMA ListedLocked ==
  ASSUME TypeOK, NEW p \in FirstListed(plans, IsLocked)
  PROVE  p \in Nat
<1>1. DOMAIN plans = 1..Len(plans) /\ Len(plans) \in Nat
  BY LenProperties DEF TypeOK
<1>2. p = 0 \/ p \in DOMAIN plans
  BY DEF FirstListed
<1> QED
  BY <1>1, <1>2

LEMMA RerunContent ==
  ASSUME TypeOK, NEW q \in DOMAIN requests
  PROVE  ContentForRerun(q) \in SUBSET Msgs
<1> DEFINE F == {i \in DOMAIN clars : clars[i].request = q /\ clars[i].status = "resolved"}
<1> DEFINE last == IF F = {} THEN 0 ELSE CHOOSE i \in F : \A j \in F : j <= i
<1>1. Len(clars) \in Nat /\ DOMAIN clars = 1..Len(clars)
  BY LenProperties DEF TypeOK
<1>2. ContentForRerun(q) = IF last # 0 THEN clars[last].content \cup clars[last].answer
                           ELSE {requests[q].msg}
  BY DEF ContentForRerun, Newest
<1>3. F \in SUBSET (1..Len(clars))
  BY <1>1
<1>4. F # {} => (CHOOSE i \in F : \A j \in F : j <= i) \in F
  <2> HIDE DEF F
  <2> QED
    BY <1>1, <1>3, NewestOf
<1>5. last # 0 => clars[last] \in ClarRec
  BY <1>1, <1>4, ElementOfSeq DEF TypeOK
<1>6. requests[q] \in RequestRec
  BY LenProperties, ElementOfSeq DEF TypeOK
<1> QED
  <2> HIDE DEF last
  <2> QED
    BY <1>2, <1>5, <1>6 DEF ClarRec, RequestRec

---------------------------------------------------------------------------
(* Updates *)

LEMMA Appended ==
  ASSUME NEW S, NEW s \in Seq(S), NEW e \in S
  PROVE  /\ Append(s, e) \in Seq(S)
         /\ Len(s) \in Nat
         /\ DOMAIN s = 1..Len(s)
         /\ DOMAIN Append(s, e) = 1..(Len(s) + 1)
         /\ \A i \in 1..Len(s) : Append(s, e)[i] = s[i]
         /\ Append(s, e)[Len(s) + 1] = e
  BY AppendProperties, LenProperties

LEMMA DomainGrows ==
  ASSUME NEW S, NEW s \in Seq(S), NEW e \in S
  PROVE  DOMAIN s \subseteq DOMAIN Append(s, e)
  BY Appended

LEMMA IdleIs == Idle \in HandRec
  BY DEF Idle, HandRec, Pcs, Over

LEMMA GoToIs ==
  ASSUME TypeOK, NEW m \in Msgs, NEW pc \in Pcs, GoTo(m, pc)
  PROVE  /\ hand' \in [Msgs -> HandRec]
         /\ \A n \in Msgs \ {m} : hand'[n] = hand[n]
         /\ hand'[m].pc = pc
         /\ pc \notin Over => /\ hand'[m].clar = hand[m].clar
                              /\ hand'[m].request = hand[m].request
                              /\ hand'[m].thread = hand[m].thread
                              /\ hand'[m].content = hand[m].content
<1>1. hand[m] \in HandRec
  BY DEF TypeOK
<1>2. [Idle EXCEPT !.pc = pc] \in HandRec /\ [Idle EXCEPT !.pc = pc].pc = pc
  BY IdleIs DEF HandRec
<1>3. /\ [hand[m] EXCEPT !.pc = pc] \in HandRec
      /\ [hand[m] EXCEPT !.pc = pc].pc = pc
      /\ [hand[m] EXCEPT !.pc = pc].clar = hand[m].clar
      /\ [hand[m] EXCEPT !.pc = pc].request = hand[m].request
      /\ [hand[m] EXCEPT !.pc = pc].thread = hand[m].thread
      /\ [hand[m] EXCEPT !.pc = pc].content = hand[m].content
  BY <1>1 DEF HandRec
<1>4. hand' = [hand EXCEPT ![m] = IF pc \in Over THEN [Idle EXCEPT !.pc = pc]
                                  ELSE [hand[m] EXCEPT !.pc = pc]]
  BY DEF GoTo
<1> HIDE DEF HandRec
<1> QED
  BY <1>2, <1>3, <1>4 DEF TypeOK

\* Only m's handler moves on.
Moves(m) ==
    /\ hand' \in [Msgs -> HandRec]
    /\ \A n \in Msgs \ {m} : hand'[n] = hand[n]

\* Records are added, and none is taken away.
Growing ==
    /\ DOMAIN requests \subseteq DOMAIN requests'
    /\ DOMAIN clars \subseteq DOMAIN clars'
    /\ DOMAIN threads \subseteq DOMAIN threads'

\* The status of runs is not what the requests and questions hang on.
RunsAlike ==
    /\ DOMAIN runs' = DOMAIN runs
    /\ \A r \in DOMAIN runs : runs'[r].request = runs[r].request

\* Nothing but the status of runs is changed in the records.
RecordsKept == RunsAlike /\ UNCHANGED <<requests, clars>>

LEMMA ThreadAt ==
  ASSUME TypeOK, NEW t \in DOMAIN threads
  PROVE  threads[t] \in ThreadRec /\ t \in 1..Len(threads)
  BY LenProperties, ElementOfSeq DEF TypeOK

LEMMA PlanAt ==
  ASSUME TypeOK, NEW p \in DOMAIN plans
  PROVE  plans[p] \in PlanRec /\ p \in 1..Len(plans)
  BY LenProperties, ElementOfSeq DEF TypeOK

LEMMA RunAt ==
  ASSUME TypeOK, NEW r \in DOMAIN runs
  PROVE  runs[r] \in RunRec /\ r \in 1..Len(runs)
  BY LenProperties, ElementOfSeq DEF TypeOK

LEMMA PlansListed ==
  ASSUME TypeOK, NEW r \in DOMAIN runs, NEW p \in PlansForRerun(runs[r])
  PROVE  p \in Nat
  BY RunAt, ListedLocked DEF PlansForRerun, RunRec

LEMMA RequestAt ==
  ASSUME TypeOK
  PROVE  /\ Len(requests) \in Nat /\ DOMAIN requests = 1..Len(requests)
         /\ \A q \in DOMAIN requests : requests[q] \in RequestRec
  BY LenProperties, ElementOfSeq DEF TypeOK

LEMMA ClarAt ==
  ASSUME TypeOK
  PROVE  /\ Len(clars) \in Nat /\ DOMAIN clars = 1..Len(clars) /\ 0 \notin DOMAIN clars
         /\ \A c \in DOMAIN clars : clars[c] \in ClarRec
  BY LenProperties, ElementOfSeq DEF TypeOK

LEMMA PlanSet ==
  ASSUME TypeOK, NEW p \in DOMAIN plans, NEW status \in PlanStatus
  PROVE  [plans EXCEPT ![p].status = status] \in Seq(PlanRec)
<1>1. [plans[p] EXCEPT !.status = status] \in PlanRec
  BY PlanAt DEF PlanRec
<1> QED
  BY <1>1, PlanAt, ExceptSeq DEF TypeOK

LEMMA ThreadClosed ==
  ASSUME TypeOK, NEW t \in DOMAIN threads
  PROVE  /\ [threads EXCEPT ![t].status = "resolved"] \in Seq(ThreadRec)
         /\ DOMAIN [threads EXCEPT ![t].status = "resolved"] = DOMAIN threads
<1>1. [threads[t] EXCEPT !.status = "resolved"] \in ThreadRec
  BY ThreadAt DEF ThreadRec
<1> QED
  BY <1>1, ThreadAt, ExceptSeq DEF TypeOK

LEMMA RequestSet ==
  ASSUME TypeOK, NEW q \in DOMAIN requests, NEW status \in RequestStatus,
         requests' = [requests EXCEPT ![q].status = status]
  PROVE  /\ requests' \in Seq(RequestRec)
         /\ DOMAIN requests' = DOMAIN requests
         /\ requests'[q].status = status
         /\ \A j \in DOMAIN requests : j # q => requests'[j] = requests[j]
<1>1. [requests[q] EXCEPT !.status = status] \in RequestRec
  BY RequestAt DEF RequestRec
<1>2. requests' \in Seq(RequestRec) /\ DOMAIN requests' = DOMAIN requests
  BY <1>1, RequestAt, ExceptSeq DEF TypeOK
<1>3. requests[q] \in RequestRec
  BY RequestAt
<1>4. requests'[q] = [requests[q] EXCEPT !.status = status]
  OBVIOUS
<1>5. requests'[q].status = status
  BY <1>3, <1>4 DEF RequestRec
<1> QED
  BY <1>2, <1>5

---------------------------------------------------------------------------
(* What each step does, however the handlers interleave *)

LEMMA CloseIs ==
  ASSUME Intact, NEW m \in Msgs, Close(m)
  PROVE  /\ TypeOK' /\ Moves(m) /\ RecordsKept /\ raced' = raced
         /\ hand'[m].pc = "restore" /\ hand[m].pc = "close"
         /\ hand'[m].clar = hand[m].clar /\ hand'[m].thread = hand[m].thread
         /\ hand[m].thread \in DOMAIN threads /\ DOMAIN threads' = DOMAIN threads
<1>1. TypeOK /\ hand[m].pc = "close" /\ hand[m].thread \in DOMAIN threads
  BY DEF Intact, Refs, Close
<1>2. GoTo(m, "restore") /\ "restore" \in Pcs /\ "restore" \notin Over
  BY DEF Close, Pcs, Over
<1>3. /\ Moves(m) /\ hand'[m].pc = "restore"
      /\ hand'[m].clar = hand[m].clar /\ hand'[m].thread = hand[m].thread
  BY <1>1, <1>2, GoToIs DEF Moves
<1>4. threads' \in Seq(ThreadRec) /\ DOMAIN threads' = DOMAIN threads
  BY <1>1, ThreadClosed DEF Close
<1>5. TypeOK'
  BY <1>1, <1>3, <1>4 DEF Close, TypeOK, Moves
<1> QED
  BY <1>1, <1>3, <1>4, <1>5 DEF Close, RecordsKept, RunsAlike

LEMMA RestoreIs ==
  ASSUME Intact, NEW m \in Msgs, Restore(m)
  PROVE  /\ TypeOK' /\ Moves(m) /\ RecordsKept /\ UNCHANGED <<threads, raced>>
         /\ hand'[m].pc = IF hand[m].clar # 0 THEN "resolve" ELSE "reply"
         /\ hand[m].pc = "restore" /\ hand'[m].clar = hand[m].clar
<1>1. TypeOK /\ hand[m].pc = "restore" /\ hand[m].thread \in DOMAIN threads
  BY DEF Intact, Refs, Restore
<1> DEFINE pc == IF hand[m].clar # 0 THEN "resolve" ELSE "reply"
<1>2. GoTo(m, pc) /\ pc \in Pcs /\ pc \notin Over
  BY DEF Restore, Pcs, Over
<1>3. Moves(m) /\ hand'[m].pc = pc /\ hand'[m].clar = hand[m].clar
  <2> HIDE DEF pc
  <2> QED
    BY <1>1, <1>2, GoToIs DEF Moves
<1>4. TypeOK'
  BY <1>1, <1>3, ThreadAt DEF Restore, TypeOK, ThreadRec, Moves
<1> QED
  BY <1>1, <1>3, <1>4 DEF Restore, RecordsKept, RunsAlike

LEMMA StoreIs ==
  ASSUME Intact, NEW m \in Msgs, Store(m)
  PROVE  /\ TypeOK' /\ Moves(m) /\ RecordsKept /\ UNCHANGED <<threads, raced>>
         /\ hand'[m].pc = IF hand[m].clar # 0 THEN "resolve" ELSE "decide"
         /\ hand[m].pc = "store" /\ hand'[m].clar = hand[m].clar
<1>1. TypeOK /\ hand[m].pc = "store" /\ UNCHANGED store
  BY DEF Intact, Store
<1> DEFINE pc == IF hand[m].clar # 0 THEN "resolve" ELSE "decide"
<1>2. GoTo(m, pc) /\ pc \in Pcs /\ pc \notin Over
  BY DEF Store, Pcs, Over
<1>3. Moves(m) /\ hand'[m].pc = pc /\ hand'[m].clar = hand[m].clar
  <2> HIDE DEF pc
  <2> QED
    BY <1>1, <1>2, GoToIs DEF Moves
<1>4. TypeOK'
  BY <1>1, <1>3 DEF store, TypeOK, Moves
<1> QED
  BY <1>1, <1>3, <1>4 DEF store, Store, RecordsKept, RunsAlike

\* A point where the handler relies on nothing.
CarefreePcs == {"thread", "open", "chat", "planning", "draft", "reply"} \cup Over

\* A step to such a point that leaves the records as they are.
Carefree(m) ==
    /\ TypeOK' /\ Moves(m) /\ RecordsKept /\ raced' = raced
    /\ DOMAIN threads \subseteq DOMAIN threads'
    /\ hand[m].pc \notin Over /\ hand'[m].pc \in CarefreePcs

LEMMA WarnFailReplyAre ==
  ASSUME TypeOK, NEW m \in Msgs, Warn(m) \/ Fail(m) \/ Reply(m)
  PROVE  Carefree(m)
<1>1. PICK pc \in CarefreePcs : GoTo(m, pc)
  BY DEF Warn, Fail, Reply, CarefreePcs, Over
<1>2. hand[m].pc \notin Over /\ UNCHANGED <<store, raced>>
  BY DEF Warn, Fail, Reply, Over
<1>3. pc \in Pcs
  BY DEF Pcs, CarefreePcs
<1>4. Moves(m) /\ hand'[m].pc = pc
  BY <1>1, <1>3, GoToIs DEF Moves
<1>5. TypeOK'
  BY <1>2, <1>4 DEF TypeOK, store, Moves
<1> QED
  BY <1>2, <1>4, <1>5 DEF Carefree, store, RecordsKept, RunsAlike

\* What opening a thread does to the threads and to the session.
LEMMA OpenedIs ==
  ASSUME TypeOK, NEW before \in SessionStatus, NEW plan \in Nat,
         NEW planBefore \in PlanBefore,
         plan # 0 => planBefore \in PlanStatus,
         Opened(before, plan, planBefore)
  PROVE  /\ threads' \in Seq(ThreadRec) /\ session' \in SessionStatus
         /\ DOMAIN threads \subseteq DOMAIN threads'
<1> DEFINE t == [status |-> "open", before |-> before, plan |-> plan,
                 planBefore |-> planBefore]
<1>1. t \in ThreadRec
  BY DEF ThreadRec, PlanBefore
<1>2. threads' = Append(threads, t) /\ session' = "awaiting_clarification"
  BY DEF Opened
<1> HIDE DEF t
<1>3. threads' \in Seq(ThreadRec)
  BY <1>1, <1>2, Appended DEF TypeOK
<1>4. DOMAIN threads \subseteq DOMAIN threads'
  BY <1>1, <1>2, DomainGrows DEF TypeOK
<1>5. session' \in SessionStatus
  BY <1>2 DEF SessionStatus
<1> QED
  BY <1>3, <1>4, <1>5

LEMMA OpenThreadIs ==
  ASSUME TypeOK, NEW m \in Msgs, OpenThread(m)
  PROVE  Carefree(m)
<1>1. /\ threads' \in Seq(ThreadRec) /\ session' \in SessionStatus
      /\ DOMAIN threads \subseteq DOMAIN threads'
  BY OpenedIs DEF OpenThread, SessionStatus, PlanBefore
<1>2. "answered" \in Pcs /\ GoTo(m, "answered")
  BY DEF OpenThread, Pcs, Over
<1>3. Moves(m) /\ hand'[m].pc = "answered"
  BY <1>2, GoToIs DEF Moves
<1>4. TypeOK'
  BY <1>1, <1>3 DEF OpenThread, TypeOK, Moves
<1> QED
  BY <1>1, <1>3, <1>4 DEF Carefree, CarefreePcs, Over, OpenThread, RecordsKept, RunsAlike

LEMMA DraftIs ==
  ASSUME TypeOK, NEW m \in Msgs, Draft(m)
  PROVE  Carefree(m)
<1>1. [status |-> "draft", version |-> hand[m].kept + 1] \in PlanRec
  <2>1. hand[m].kept \in Nat
    BY DEF TypeOK, HandRec
  <2> QED
    BY <2>1 DEF PlanRec, PlanStatus
<1>2. plans' \in Seq(PlanRec)
  BY <1>1, Appended DEF Draft, TypeOK
<1>3. "reply" \in Pcs /\ GoTo(m, "reply")
  BY DEF Draft, Pcs
<1>4. Moves(m) /\ hand'[m].pc = "reply"
  BY <1>3, GoToIs DEF Moves
<1>5. TypeOK'
  BY <1>2, <1>4 DEF Draft, TypeOK, Moves
<1> QED
  BY <1>4, <1>5 DEF Carefree, CarefreePcs, Over, Draft, RecordsKept, RunsAlike

LEMMA ReadSessionIs ==
  ASSUME TypeOK, NEW m \in Msgs, ReadSession(m)
  PROVE  Carefree(m)
<1>1. hand[m] \in HandRec /\ hand[m].pc = "thread" /\ UNCHANGED <<store, raced>>
  BY DEF ReadSession, TypeOK
<1> DEFINE h == [hand[m] EXCEPT !.pc = "open",
                                !.thread = IF session = "active" THEN 1 ELSE 2]
<1>2. h \in HandRec /\ h.pc = "open"
  BY <1>1 DEF HandRec, Pcs
<1>3. hand' = [hand EXCEPT ![m] = h]
  BY DEF ReadSession
<1>4. Moves(m) /\ hand'[m].pc = "open"
  <2> HIDE DEF h
  <2> QED
    BY <1>2, <1>3 DEF TypeOK, Moves
<1>5. TypeOK'
  BY <1>1, <1>4 DEF TypeOK, store, Moves
<1> QED
  BY <1>1, <1>4, <1>5 DEF Carefree, CarefreePcs, Over, store, RecordsKept, RunsAlike

LEMMA CountPlansIs ==
  ASSUME TypeOK, NEW m \in Msgs, CountPlans(m)
  PROVE  Carefree(m)
<1>1. hand[m] \in HandRec /\ hand[m].pc = "planning" /\ UNCHANGED <<store, raced>>
  BY DEF CountPlans, TypeOK
<1> DEFINE h == [hand[m] EXCEPT !.pc = "draft", !.kept = Len(plans)]
<1>2. Len(plans) \in Nat
  BY LenProperties DEF TypeOK
<1>3. h \in HandRec /\ h.pc = "draft"
  BY <1>1, <1>2 DEF HandRec, Pcs
<1>4. hand' = [hand EXCEPT ![m] = h]
  BY DEF CountPlans
<1>5. Moves(m) /\ hand'[m].pc = "draft"
  <2> HIDE DEF h
  <2> QED
    BY <1>3, <1>4 DEF TypeOK, Moves
<1>6. TypeOK'
  BY <1>1, <1>5 DEF TypeOK, store, Moves
<1> QED
  BY <1>1, <1>5, <1>6 DEF Carefree, CarefreePcs, Over, store, RecordsKept, RunsAlike

\* A message reads an open thread and a pending question, if there are any.
LEMMA PostIs ==
  ASSUME TypeOK, NEW m \in Msgs, Post(m)
  PROVE  /\ TypeOK' /\ Moves(m) /\ UNCHANGED store /\ hand[m].pc = "idle"
         /\ hand'[m].pc \in {"close", "store"}
         /\ hand'[m].pc = "close" => hand'[m].thread \in DOMAIN threads
         /\ \/ hand'[m].clar = 0 /\ NothingPending
            \/ hand'[m].clar \in DOMAIN clars /\ Pending(clars[hand'[m].clar])
<1>0. PICK thread \in FirstListed(threads, Open), clar \in FirstListed(clars, Pending) :
        hand' = [hand EXCEPT ![m] =
                  [hand[m] EXCEPT !.pc = IF thread # 0 THEN "close" ELSE "store",
                                  !.thread = thread, !.clar = clar, !.content = {m}]]
  BY DEF Post
<1> DEFINE pc == IF thread # 0 THEN "close" ELSE "store"
           h == [hand[m] EXCEPT !.pc = pc, !.thread = thread, !.clar = clar,
                                !.content = {m}]
<1>1. hand[m] \in HandRec /\ UNCHANGED store /\ hand[m].pc = "idle"
  BY DEF Post, TypeOK
<1>2. thread \in {0} \cup DOMAIN threads /\ thread \in Nat
  <2>1. thread = 0 \/ thread \in DOMAIN threads
    BY ListedOpen
  <2>2. Len(threads) \in Nat /\ DOMAIN threads = 1..Len(threads)
    BY LenProperties DEF TypeOK
  <2> QED
    BY <2>1, <2>2
<1>3. /\ clar \in Nat
      /\ \/ clar = 0 /\ NothingPending
         \/ clar \in DOMAIN clars /\ Pending(clars[clar])
  <2>1. \/ clar = 0 /\ NothingPending
        \/ clar \in DOMAIN clars /\ Pending(clars[clar])
    BY ListedPending DEF NothingPending
  <2>2. Len(clars) \in Nat /\ DOMAIN clars = 1..Len(clars)
    BY ClarAt
  <2> QED
    BY <2>1, <2>2
<1>4. hand' = [hand EXCEPT ![m] = h]
  BY <1>0
<1>5. pc \in Pcs /\ pc \in {"close", "store"} /\ (pc = "close" => thread # 0)
  BY DEF Pcs
<1>6. h \in HandRec /\ h.pc = pc /\ h.thread = thread /\ h.clar = clar
  <2> HIDE DEF pc
  <2> QED
    BY <1>1, <1>2, <1>3, <1>5 DEF HandRec
<1>7. /\ Moves(m)
      /\ hand'[m].pc = pc /\ hand'[m].thread = thread /\ hand'[m].clar = clar
  <2> HIDE DEF h, pc
  <2> QED
    BY <1>1, <1>4, <1>6 DEF TypeOK, Moves
<1>8. TypeOK'
  BY <1>1, <1>7 DEF TypeOK, store, Moves
<1> HIDE DEF pc, h
<1> QED
  BY <1>1, <1>2, <1>3, <1>5, <1>7, <1>8

\* The question the message has read is settled.
LEMMA ResolveIs ==
  ASSUME Intact, NEW m \in Msgs, Resolve(m),
         NEW c, c = hand[m].clar, NEW q, q = clars[c].request
  PROVE  /\ TypeOK' /\ Moves(m) /\ Named' /\ UNCHANGED <<threads, plans, runs, raced>>
         /\ hand[m].pc = "resolve" /\ c \in DOMAIN clars /\ q \in DOMAIN requests
         /\ hand'[m].pc = "decide" /\ hand'[m].request = q /\ hand'[m].clar = c
         /\ DOMAIN clars' = DOMAIN clars /\ ~Pending(clars'[c]) /\ clars'[c].request = q
         /\ \A j \in DOMAIN clars : j # c => clars'[j] = clars[j]
         /\ DOMAIN requests' = DOMAIN requests
         /\ \A j \in DOMAIN requests : j # q => requests'[j] = requests[j]
<1> DEFINE h == [hand[m] EXCEPT !.pc = "decide", !.request = q,
                                !.content = clars[c].content \cup {m}]
           a == [clars[c] EXCEPT !.status = "resolved", !.answer = {m}]
<1>1. TypeOK /\ hand[m] \in HandRec /\ hand[m].pc = "resolve"
  BY DEF Intact, Resolve, TypeOK
<1>2. c \in DOMAIN clars /\ clars[c] \in ClarRec
  BY <1>1, ClarAt DEF Intact, Refs
<1>3. q \in DOMAIN requests /\ q \in Nat
  BY <1>2 DEF Intact, Named, ClarRec
<1>4. h \in HandRec /\ h.pc = "decide" /\ h.request = q /\ h.clar = c
  BY <1>1, <1>2, <1>3 DEF HandRec, ClarRec, Pcs
<1>5. a \in ClarRec /\ a.status = "resolved" /\ a.request = q
  BY <1>2 DEF ClarRec
<1>6. /\ hand' = [hand EXCEPT ![m] = h]
      /\ clars' = [clars EXCEPT ![c] = a]
      /\ requests' = [requests EXCEPT ![q].status = "accepted"]
      /\ session' = "active" /\ UNCHANGED <<threads, plans, runs, raced>>
  BY DEF Resolve
<1>7. /\ requests' \in Seq(RequestRec) /\ DOMAIN requests' = DOMAIN requests
      /\ \A j \in DOMAIN requests : j # q => requests'[j] = requests[j]
  BY <1>1, <1>3, <1>6, RequestSet DEF RequestStatus
<1>8. /\ clars' \in Seq(ClarRec) /\ DOMAIN clars' = DOMAIN clars
      /\ clars'[c] = a
      /\ \A j \in DOMAIN clars : j # c => clars'[j] = clars[j]
  <2> HIDE DEF a
  <2> QED
    BY <1>1, <1>2, <1>5, <1>6, ClarAt, ExceptSeq DEF TypeOK
<1>9. Moves(m) /\ hand'[m] = h
  <2> HIDE DEF h
  <2> QED
    BY <1>1, <1>4, <1>6 DEF TypeOK, Moves
<1> HIDE DEF h, a
<1>10. TypeOK'
  BY <1>1, <1>6, <1>7, <1>8, <1>9 DEF TypeOK, SessionStatus, Moves
<1>11. Named'
  <2>1. \A i \in DOMAIN clars' : clars'[i].request \in DOMAIN requests'
    BY <1>2, <1>3, <1>5, <1>7, <1>8 DEF Intact, Named
  <2> QED
    BY <1>6, <1>7, <2>1 DEF Intact, Named
<1>12. ~Pending(clars'[c])
  BY <1>5, <1>8 DEF Pending
<1> QED
  BY <1>1, <1>2, <1>3, <1>4, <1>5, <1>6, <1>7, <1>8, <1>9, <1>10, <1>11, <1>12

\* A new message gets a request that nothing refers to yet, and an answer keeps
\* the one it has.
LEMMA DecideIs ==
  ASSUME Intact, NEW m \in Msgs, Decide(m)
  PROVE  /\ TypeOK' /\ Moves(m) /\ Named' /\ Growing
         /\ UNCHANGED <<session, clars, threads, plans, runs, raced>>
         /\ hand[m].pc = "decide" /\ hand'[m].clar = hand[m].clar
         /\ hand'[m].pc \in {"ask", "chat", "planning", "execution"}
         /\ \A q \in DOMAIN requests : requests'[q] = requests[q]
         /\ hand'[m].request \in DOMAIN requests'
         /\ hand[m].clar # 0 => /\ requests' = requests
                                /\ hand'[m].request = hand[m].request
         /\ hand[m].clar = 0 =>
              /\ hand'[m].request \notin DOMAIN requests
              /\ hand'[m].pc = "ask" =>
                   requests'[hand'[m].request].status = "clarification_required"
<1>1. TypeOK /\ hand[m] \in HandRec /\ hand[m].pc = "decide"
  BY DEF Intact, Decide, TypeOK
<1>2. PICK type \in RequestTypes, need \in BOOLEAN, reason \in BOOLEAN :
        /\ requests' =
             IF ~(hand[m].clar = 0) THEN requests
             ELSE Append(requests,
                    [msg |-> m,
                     status |-> IF need THEN "clarification_required"
                                ELSE "accepted"])
        /\ hand' = [hand EXCEPT ![m] =
             [hand[m] EXCEPT !.pc = IF need THEN "ask" ELSE type,
                             !.type = type, !.reason = reason,
                             !.request = IF hand[m].clar = 0 THEN Len(requests) + 1
                                         ELSE hand[m].request]]
  BY DEF Decide
<1> DEFINE new == hand[m].clar = 0
           pc == IF need THEN "ask" ELSE type
           r == [msg |-> m, status |-> IF need THEN "clarification_required" ELSE "accepted"]
           q == IF new THEN Len(requests) + 1 ELSE hand[m].request
           h == [hand[m] EXCEPT !.pc = pc, !.type = type, !.reason = reason,
                                !.request = q]
<1>3. Len(requests) \in Nat /\ DOMAIN requests = 1..Len(requests)
  BY <1>1, RequestAt
<1>4. UNCHANGED <<session, clars, threads, plans, runs, raced>>
  BY DEF Decide
<1>5. pc \in Pcs /\ q \in Nat /\ pc \in {"ask", "chat", "planning", "execution"}
  <2>1. hand[m].request \in Nat
    BY <1>1 DEF HandRec
  <2> QED
    BY <1>3, <2>1 DEF Pcs, RequestTypes
<1>6. /\ h \in HandRec /\ h.pc = pc /\ h.request = q /\ h.clar = hand[m].clar
  <2> HIDE DEF q, pc
  <2> QED
    BY <1>1, <1>5 DEF HandRec
<1>7. /\ Moves(m)
      /\ hand'[m].pc = pc /\ hand'[m].request = q /\ hand'[m].clar = hand[m].clar
  <2>1. hand' = [hand EXCEPT ![m] = h]
    BY <1>2
  <2> HIDE DEF h, q, pc
  <2> QED
    BY <1>1, <1>6, <2>1 DEF TypeOK, Moves
<1>8. r \in RequestRec
  BY DEF RequestRec, RequestStatus
<1>9. CASE new
  <2>1. requests' = Append(requests, r)
    BY <1>2, <1>9
  <2>2. /\ requests' \in Seq(RequestRec)
        /\ DOMAIN requests' = 1..(Len(requests) + 1)
        /\ \A i \in DOMAIN requests : requests'[i] = requests[i]
        /\ requests'[q] = r /\ q \in DOMAIN requests' /\ q \notin DOMAIN requests
    <3> HIDE DEF r
    <3> QED
      BY <1>1, <1>3, <1>8, <1>9, <2>1, Appended DEF TypeOK
  <2>3. pc = "ask" => r.status = "clarification_required"
    BY DEF RequestTypes
  <2> HIDE DEF pc, q, r
  <2>4. TypeOK'
    BY <1>1, <1>4, <1>7, <2>2 DEF TypeOK, Moves
  <2>5. Growing /\ Named'
    BY <1>3, <1>4, <2>2 DEF Growing, Intact, Named
  <2> QED
    BY <1>1, <1>4, <1>5, <1>7, <1>9, <2>2, <2>3, <2>4, <2>5
<1>10. CASE ~new
  <2>1. requests' = requests /\ q = hand[m].request
    BY <1>2, <1>10
  <2>2. TypeOK'
    BY <1>1, <1>4, <1>7, <2>1 DEF TypeOK, Moves
  <2>3. q \in DOMAIN requests
    BY <1>1, <1>10, <2>1 DEF Intact, Refs
  <2>4. Growing /\ Named'
    BY <1>4, <2>1 DEF Growing, Intact, Named
  <2> HIDE DEF pc, q
  <2> QED
    BY <1>1, <1>4, <1>5, <1>7, <1>10, <2>1, <2>2, <2>3, <2>4
<1> QED
  BY <1>9, <1>10

\* A question about the request is added.
LEMMA AskIs ==
  ASSUME Intact, NEW m \in Msgs, Ask(m), NEW q, q = hand[m].request,
         NEW c, c = Len(clars) + 1
  PROVE  /\ TypeOK' /\ Moves(m) /\ Named' /\ Growing
         /\ UNCHANGED <<threads, plans, runs, raced>>
         /\ hand[m].pc = "ask" /\ q \in DOMAIN requests /\ hand'[m].pc \in CarefreePcs
         /\ DOMAIN clars' = DOMAIN clars \cup {c} /\ c \notin DOMAIN clars
         /\ Pending(clars'[c]) /\ clars'[c].request = q
         /\ \A i \in DOMAIN clars : clars'[i] = clars[i]
         /\ DOMAIN requests' = DOMAIN requests
         /\ \A j \in DOMAIN requests : j # q => requests'[j] = requests[j]
         /\ \/ requests'[q].status = "clarification_required"
            \/ hand[m].clar = 0 /\ requests' = requests
<1> DEFINE e == [request |-> q, status |-> "pending", content |-> hand[m].content,
                 answer |-> {}]
           pc == IF hand[m].type = "execution" /\ hand[m].reason
                 THEN "thread" ELSE "answered"
<1>1. /\ TypeOK /\ hand[m] \in HandRec /\ hand[m].pc = "ask" /\ q \in DOMAIN requests
  BY DEF Intact, Ask, TypeOK, Refs
<1>2. e \in ClarRec /\ Pending(e) /\ e.request = q
  BY <1>1 DEF HandRec, ClarRec, Pending
<1>3. pc \in CarefreePcs /\ pc \in Pcs /\ GoTo(m, pc)
  BY DEF CarefreePcs, Over, Pcs, Ask
<1>4. /\ clars' = Append(clars, e)
      /\ session' = IF hand[m].clar # 0 THEN "awaiting_clarification" ELSE session
      /\ requests' = IF hand[m].clar # 0
                     THEN [requests EXCEPT ![q].status = "clarification_required"]
                     ELSE requests
      /\ UNCHANGED <<threads, plans, runs, raced>>
  BY DEF Ask
<1>5. Moves(m) /\ hand'[m].pc = pc
  <2> HIDE DEF pc
  <2> QED
    BY <1>1, <1>3, GoToIs DEF Moves
<1>6. /\ clars' \in Seq(ClarRec)
      /\ DOMAIN clars = 1..Len(clars) /\ Len(clars) \in Nat
      /\ DOMAIN clars' = 1..(Len(clars) + 1)
      /\ \A i \in DOMAIN clars : clars'[i] = clars[i]
      /\ clars'[Len(clars) + 1] = e
  <2> HIDE DEF e
  <2> QED
    BY <1>1, <1>2, <1>4, Appended DEF TypeOK
<1>7. /\ requests' \in Seq(RequestRec) /\ DOMAIN requests' = DOMAIN requests
      /\ \A j \in DOMAIN requests : j # q => requests'[j] = requests[j]
      /\ \/ requests'[q].status = "clarification_required"
         \/ hand[m].clar = 0 /\ requests' = requests
  <2>1. CASE hand[m].clar # 0
    BY <1>1, <1>4, <2>1, RequestSet DEF RequestStatus
  <2>2. CASE hand[m].clar = 0
    BY <1>1, <1>4, <2>2 DEF TypeOK
  <2> QED
    BY <2>1, <2>2
<1> HIDE DEF e, pc
<1>8. TypeOK'
  BY <1>1, <1>4, <1>5, <1>6, <1>7 DEF TypeOK, SessionStatus, Moves
<1>9. DOMAIN clars' = DOMAIN clars \cup {c} /\ c \notin DOMAIN clars
  BY <1>6
<1>10. Named' /\ Growing
  BY <1>1, <1>2, <1>4, <1>6, <1>7, <1>9 DEF Intact, Named, Growing
<1> QED
  BY <1>1, <1>2, <1>3, <1>4, <1>5, <1>6, <1>7, <1>8, <1>9, <1>10

\* A run of the request is added.
LEMMA CreateRunIs ==
  ASSUME Intact, NEW m \in Msgs, CreateRun(m), NEW q, q = hand[m].request,
         NEW r, r = Len(runs) + 1
  PROVE  /\ TypeOK' /\ Moves(m) /\ Named'
         /\ UNCHANGED <<session, requests, clars, threads, plans, raced>>
         /\ hand[m].pc = "execution" /\ q \in DOMAIN requests /\ hand'[m].pc = "reply"
         /\ DOMAIN runs' = DOMAIN runs \cup {r} /\ r \notin DOMAIN runs
         /\ runs'[r].request = q
         /\ \A i \in DOMAIN runs : runs'[i] = runs[i]
<1>0. PICK p \in FirstListed(plans, IsLocked) :
        runs' = Append(runs, NewRun(hand[m].request, hand[m].content, p, 0))
  BY DEF CreateRun
<1> DEFINE run == NewRun(q, hand[m].content, p, 0)
           h == [hand[m] EXCEPT !.pc = "reply", !.kept = Len(runs) + 1]
<1>1. TypeOK /\ hand[m] \in HandRec /\ hand[m].pc = "execution" /\ q \in DOMAIN requests
  BY DEF Intact, CreateRun, TypeOK, Refs
<1>2. /\ runs' = Append(runs, run)
      /\ hand' = [hand EXCEPT ![m] = h]
      /\ UNCHANGED <<session, requests, clars, threads, plans, raced>>
  BY <1>0 DEF CreateRun
<1>3. run \in RunRec /\ run.request = q
  <2>1. p \in Nat
    BY <1>1, ListedLocked
  <2>2. q \in Nat /\ hand[m].content \in SUBSET Msgs
    BY <1>1 DEF HandRec
  <2>3. NewRun(q, hand[m].content, p, 0) \in RunRec
        /\ NewRun(q, hand[m].content, p, 0).request = q
    BY <2>1, <2>2 DEF NewRun, RunRec, RunStatus
  <2> QED
    BY <2>3
<1> HIDE DEF run
<1>4. /\ runs' \in Seq(RunRec) /\ Len(runs) \in Nat
      /\ DOMAIN runs = 1..Len(runs) /\ DOMAIN runs' = 1..(Len(runs) + 1)
      /\ \A i \in DOMAIN runs : runs'[i] = runs[i]
      /\ runs'[Len(runs) + 1] = run
  BY <1>1, <1>2, <1>3, Appended DEF TypeOK
<1>5. h \in HandRec /\ h.pc = "reply"
  <2>1. Len(runs) + 1 \in Nat /\ "reply" \in Pcs /\ hand[m] \in HandRec
    BY <1>1, <1>4 DEF Pcs
  <2> QED
    BY <2>1 DEF HandRec
<1>6. Moves(m) /\ hand'[m].pc = "reply"
  <2> HIDE DEF h
  <2> QED
    BY <1>1, <1>2, <1>5 DEF TypeOK, Moves
<1> HIDE DEF h
<1>7. TypeOK'
  BY <1>1, <1>2, <1>4, <1>6 DEF TypeOK, Moves
<1>8. DOMAIN runs' = DOMAIN runs \cup {r} /\ r \notin DOMAIN runs
  BY <1>4
<1>9. Named'
  BY <1>1, <1>2, <1>3, <1>4, <1>8 DEF Intact, Named
<1> QED
  BY <1>1, <1>2, <1>3, <1>4, <1>6, <1>7, <1>8, <1>9

\* A rerun is of a request of its own, which nothing refers to yet.
LEMMA RerunIs ==
  ASSUME Intact, Rerun, NEW r, r = Len(runs) + 1, NEW q, q = Len(requests) + 1
  PROVE  /\ TypeOK' /\ Named' /\ Growing
         /\ UNCHANGED <<session, clars, threads, plans, hand, raced>>
         /\ q \notin DOMAIN requests
         /\ \A i \in DOMAIN requests : requests'[i] = requests[i]
         /\ DOMAIN runs' = DOMAIN runs \cup {r} /\ r \notin DOMAIN runs
         /\ runs'[r].request = q
         /\ \A i \in DOMAIN runs : runs'[i] = runs[i]
<1>1. TypeOK
  BY DEF Intact
<1>2. PICK s \in DOMAIN runs : \E p \in PlansForRerun(runs[s]) :
        LET f == runs[s].request IN
          /\ requests' = Append(requests, [requests[f] EXCEPT !.status = "accepted"])
          /\ runs' = Append(runs, NewRun(Len(requests) + 1, ContentForRerun(f), p, s))
  BY DEF Rerun
<1>0. PICK p \in PlansForRerun(runs[s]) :
        LET f == runs[s].request IN
          /\ requests' = Append(requests, [requests[f] EXCEPT !.status = "accepted"])
          /\ runs' = Append(runs, NewRun(Len(requests) + 1, ContentForRerun(f), p, s))
  BY <1>2
<1> DEFINE f == runs[s].request
           run == NewRun(q, ContentForRerun(f), p, s)
           a == [requests[f] EXCEPT !.status = "accepted"]
<1>3. f \in DOMAIN requests /\ runs[s] \in RunRec /\ s \in Nat
  BY <1>1, RunAt, LenProperties DEF Intact, Named, TypeOK
<1>4. a \in RequestRec
  BY <1>1, <1>3, RequestAt DEF RequestRec, RequestStatus
<1>5. /\ Len(requests) \in Nat /\ DOMAIN requests = 1..Len(requests)
  BY <1>1, RequestAt
<1>6. run \in RunRec /\ run.request = q
  <2>1. ContentForRerun(f) \in SUBSET Msgs /\ p \in Nat
    BY <1>1, <1>3, RerunContent, PlansListed
  <2> HIDE DEF f
  <2> QED
    BY <1>3, <1>5, <2>1 DEF NewRun, RunRec, RunStatus
<1>7. /\ requests' = Append(requests, a) /\ runs' = Append(runs, run)
      /\ UNCHANGED <<session, clars, threads, plans, hand, raced>>
  BY <1>0 DEF Rerun
<1> HIDE DEF run, a
<1>8. /\ requests' \in Seq(RequestRec) /\ DOMAIN requests' = 1..(Len(requests) + 1)
      /\ \A i \in DOMAIN requests : requests'[i] = requests[i]
  BY <1>1, <1>4, <1>5, <1>7, Appended DEF TypeOK
<1>9. /\ runs' \in Seq(RunRec) /\ Len(runs) \in Nat
      /\ DOMAIN runs = 1..Len(runs) /\ DOMAIN runs' = 1..(Len(runs) + 1)
      /\ \A i \in DOMAIN runs : runs'[i] = runs[i]
      /\ runs'[Len(runs) + 1] = run
  BY <1>1, <1>6, <1>7, Appended DEF TypeOK
<1>10. DOMAIN runs' = DOMAIN runs \cup {r} /\ r \notin DOMAIN runs
  BY <1>9
<1>11. TypeOK'
  BY <1>1, <1>7, <1>8, <1>9 DEF TypeOK
<1>12. Named' /\ Growing
  BY <1>5, <1>6, <1>7, <1>8, <1>9, <1>10 DEF Intact, Named, Growing
<1> QED
  BY <1>5, <1>6, <1>7, <1>8, <1>9, <1>10, <1>11, <1>12

\* What leaves the handlers and the records as they are.
Aside ==
    /\ TypeOK' /\ RecordsKept /\ UNCHANGED <<hand, raced>>
    /\ DOMAIN threads \subseteq DOMAIN threads'

LEMMA CreateThreadIs ==
  ASSUME TypeOK, CreateThread
  PROVE  Aside
<1>1. TypeOK
  OBVIOUS
<1>2. PICK p \in {0} \cup DOMAIN plans :
        /\ Opened(session, p, IF p = 0 THEN "" ELSE plans[p].status)
        /\ plans' = IF p = 0 THEN plans
                    ELSE [plans EXCEPT ![p].status = "awaiting_clarification"]
  BY DEF CreateThread
<1> DEFINE before == IF p = 0 THEN "" ELSE plans[p].status
<1>3. /\ p \in Nat /\ before \in PlanBefore
      /\ p # 0 => p \in DOMAIN plans /\ before \in PlanStatus
  <2>1. CASE p = 0
    BY <2>1 DEF PlanBefore
  <2>2. CASE p # 0
    <3>1. p \in DOMAIN plans /\ p \in 1..Len(plans) /\ plans[p] \in PlanRec
      BY <1>1, <2>2, PlanAt
    <3>2. plans[p].status \in PlanStatus
      BY <3>1 DEF PlanRec
    <3>3. before = plans[p].status
      BY <2>2
    <3>4. p \in Nat
      BY <3>1
    <3> HIDE DEF before
    <3> QED
      BY <3>1, <3>2, <3>3, <3>4 DEF PlanBefore
  <2> QED
    BY <2>1, <2>2
<1>4. /\ threads' \in Seq(ThreadRec) /\ session' \in SessionStatus
      /\ DOMAIN threads \subseteq DOMAIN threads'
  <2>1. Opened(session, p, before) /\ session \in SessionStatus
    BY <1>1, <1>2 DEF TypeOK
  <2> HIDE DEF before
  <2> QED
    BY <1>1, <1>3, <2>1, OpenedIs
<1>5. plans' \in Seq(PlanRec)
  BY <1>1, <1>2, <1>3, PlanSet DEF TypeOK, PlanStatus
<1>6. UNCHANGED <<requests, clars, runs, hand, raced>>
  BY DEF CreateThread
<1> HIDE DEF before
<1>7. TypeOK'
  BY <1>1, <1>4, <1>5, <1>6 DEF TypeOK
<1> QED
  BY <1>4, <1>6, <1>7 DEF Aside, RecordsKept, RunsAlike

LEMMA ResolveThreadIs ==
  ASSUME TypeOK, ResolveThread
  PROVE  Aside
<1>1. TypeOK
  OBVIOUS
<1>2. PICK t \in DOMAIN threads :
        /\ threads' = [threads EXCEPT ![t].status = "resolved"]
        /\ session' = IF session = "awaiting_clarification"
                      THEN threads[t].before ELSE session
        /\ LET p == threads[t].plan IN
           plans' = IF p # 0 /\ plans[p].status = "awaiting_clarification"
                    THEN [plans EXCEPT ![p].status = threads[t].planBefore]
                    ELSE plans
  BY DEF ResolveThread
<1> DEFINE p == threads[t].plan
<1>3. threads[t] \in ThreadRec
  BY <1>1, ThreadAt
<1>4. threads' \in Seq(ThreadRec) /\ DOMAIN threads' = DOMAIN threads
  BY <1>1, <1>2, ThreadClosed
<1>5. session' \in SessionStatus
  BY <1>1, <1>2, <1>3 DEF TypeOK, ThreadRec
<1>6. plans' \in Seq(PlanRec)
  <2>1. CASE p # 0 /\ p \in DOMAIN plans
    <3>1. threads[t].planBefore \in PlanStatus
      BY <1>3, <2>1 DEF ThreadRec
    <3> QED
      BY <1>1, <1>2, <3>1, <2>1, PlanSet DEF TypeOK
  <2>2. CASE p = 0
    BY <1>1, <1>2, <2>2 DEF TypeOK
  <2>3. CASE p \notin DOMAIN plans
    <3>1. [plans EXCEPT ![p].status = threads[t].planBefore] = plans
      BY <1>1, <2>3, LenProperties DEF TypeOK
    <3> QED
      BY <1>1, <1>2, <3>1 DEF TypeOK
  <2> QED
    BY <2>1, <2>2, <2>3
<1>7. UNCHANGED <<requests, clars, runs, hand, raced>>
  BY DEF ResolveThread
<1> HIDE DEF p
<1>8. TypeOK'
  BY <1>1, <1>4, <1>5, <1>6, <1>7 DEF TypeOK
<1> QED
  BY <1>4, <1>7, <1>8 DEF Aside, RecordsKept, RunsAlike

LEMMA LockPlanIs ==
  ASSUME TypeOK, LockPlan
  PROVE  Aside
<1>1. plans' \in Seq(PlanRec)
  BY PlanSet DEF LockPlan, PlanStatus
<1>2. TypeOK'
  BY <1>1 DEF TypeOK, LockPlan
<1> QED
  BY <1>2 DEF LockPlan, Aside, RecordsKept, RunsAlike

\* A step that changes how a run is getting on.
LEMMA RunSet ==
  ASSUME TypeOK, NEW r \in DOMAIN runs, NEW run \in RunRec,
         run.request = runs[r].request, runs' = [runs EXCEPT ![r] = run],
         UNCHANGED <<session, requests, clars, threads, plans, hand, raced>>
  PROVE  Aside
<1>1. /\ runs' \in Seq(RunRec) /\ DOMAIN runs' = DOMAIN runs
      /\ \A s \in DOMAIN runs : runs'[s] = IF s = r THEN run ELSE runs[s]
  BY RunAt, ExceptSeq DEF TypeOK
<1>2. TypeOK' /\ RunsAlike
  BY <1>1 DEF TypeOK, RunsAlike
<1> QED
  BY <1>2 DEF Aside, RecordsKept

LEMMA MaterializedIs ==
  ASSUME TypeOK, NEW r \in DOMAIN runs, Materialized(r)
  PROVE  Aside
<1>1. PICK failed \in BOOLEAN :
        runs' = [runs EXCEPT ![r].making = FALSE,
                             ![r].status = IF failed THEN "blocked" ELSE @]
  BY DEF Materialized
<1> DEFINE run == [runs[r] EXCEPT !.making = FALSE,
                     !.status = IF failed THEN "blocked" ELSE runs[r].status]
<1>2. runs[r] \in RunRec
  BY RunAt
<1>3. run \in RunRec /\ run.request = runs[r].request
  BY <1>2 DEF RunRec, RunStatus
<1>4. runs' = [runs EXCEPT ![r] = run]
  BY <1>1, <1>2, RunAt DEF TypeOK, RunRec
<1> HIDE DEF run
<1> QED
  BY <1>3, <1>4, RunSet DEF Materialized

LEMMA ClaimEndAre ==
  ASSUME TypeOK, Claim \/ End
  PROVE  Aside
<1>1. PICK r \in DOMAIN runs, status \in RunStatus, held \in BOOLEAN :
        runs' = [runs EXCEPT ![r].status = status, ![r].held = held]
  BY DEF Claim, End, RunStatus
<1> DEFINE run == [runs[r] EXCEPT !.status = status, !.held = held]
<1>2. runs[r] \in RunRec
  BY RunAt
<1>3. run \in RunRec /\ run.request = runs[r].request
  BY <1>2 DEF RunRec
<1>4. runs' = [runs EXCEPT ![r] = run]
  BY <1>1, <1>2, RunAt DEF TypeOK, RunRec
<1> HIDE DEF run
<1> QED
  BY <1>3, <1>4, RunSet DEF Claim, End

LEMMA StutterIs ==
  ASSUME TypeOK, UNCHANGED vars
  PROVE  Aside
<1>1. TypeOK' /\ RunsAlike
  BY DEF vars, TypeOK, RunsAlike
<1> QED
  BY <1>1 DEF vars, Aside, RecordsKept

LEMMA CrashIs ==
  ASSUME TypeOK, Crash
  PROVE  /\ TypeOK' /\ RecordsKept /\ UNCHANGED <<threads, raced>>
         /\ \A m \in Msgs : hand'[m].pc \in Over
<1>1. TypeOK
  OBVIOUS
<1>2. \A m \in Msgs : hand'[m] \in HandRec /\ hand'[m].pc \in Over
  <2>1. [Idle EXCEPT !.pc = "dead"] \in HandRec /\ [Idle EXCEPT !.pc = "dead"].pc = "dead"
    BY IdleIs DEF HandRec, Pcs, Over
  <2> HIDE DEF HandRec
  <2> QED
    BY <1>1, <2>1 DEF Crash, Busy, TypeOK, Over
<1>3. hand' \in [Msgs -> HandRec]
  BY <1>2 DEF Crash
<1>4. \A r \in DOMAIN runs : /\ [runs[r] EXCEPT !.making = FALSE] \in RunRec
                              /\ [runs[r] EXCEPT !.making = FALSE].request = runs[r].request
  BY <1>1, RunAt DEF RunRec
<1>5. /\ Len(runs) \in Nat /\ DOMAIN runs = 1..Len(runs)
      /\ runs' = [r \in 1..Len(runs) |-> [runs[r] EXCEPT !.making = FALSE]]
  BY <1>1, LenProperties DEF Crash, TypeOK
<1> DEFINE e(r) == [runs[r] EXCEPT !.making = FALSE]
<1>6. runs' \in Seq(RunRec) /\ RunsAlike
  <2>1. \A r \in 1..Len(runs) : e(r) \in RunRec /\ e(r).request = runs[r].request
    BY <1>4, <1>5
  <2>2. runs' = [r \in 1..Len(runs) |-> e(r)]
    BY <1>5
  <2> HIDE DEF e
  <2>3. runs' \in [1..Len(runs) -> RunRec]
    BY <2>1, <2>2
  <2>4. runs' \in Seq(RunRec)
    BY <1>5, <2>3
  <2> QED
    BY <1>5, <2>1, <2>2, <2>4 DEF RunsAlike
<1>7. TypeOK' /\ UNCHANGED <<requests, clars, threads, raced>>
  BY <1>1, <1>3, <1>6 DEF Crash, TypeOK
<1> QED
  BY <1>2, <1>6, <1>7 DEF RecordsKept

---------------------------------------------------------------------------
(* Requests, however the handlers interleave *)

\* A handler that is going to ask about its request or to execute it.
Works(m) ==
    \/ hand[m].pc = "decide" /\ hand[m].clar # 0
    \/ hand[m].pc \in {"ask", "execution"}

\* The question that a message is answering is pending, and no other message is
\* answering it.
AnswersAlone ==
    \A m \in Msgs, c \in DOMAIN clars :
        Answers(m, c) /\ clars[c].request \notin raced =>
            /\ Pending(clars[c])
            /\ \A n \in Msgs : Answers(n, c) => n = m

\* A request that a handler works on has no run, no open question and no other
\* handler that works on it.
WorksAlone ==
    \A m \in Msgs :
        Works(m) /\ hand[m].request \notin raced =>
            /\ NoRunOf(hand[m].request)
            /\ \A i \in DOMAIN clars :
                 Pending(clars[i]) => clars[i].request # hand[m].request
            /\ \A n \in Msgs :
                 Works(n) /\ hand[n].request = hand[m].request => n = m
            /\ hand[m].pc = "ask" /\ hand[m].clar = 0 =>
                 requests[hand[m].request].status = "clarification_required"

\* The inductive invariant of requests: an answer passes from the one message
\* that has read the question to the one handler that works on the request, and
\* from that to the next question or to the run.
RequestInv ==
    /\ Intact
    /\ AnswersAlone
    /\ WorksAlone
    /\ QuestionHoldsRequest
    /\ OneRunPerRequest

LEMMA RequestInit == Init => RequestInv
<1> SUFFICES ASSUME Init PROVE RequestInv
  OBVIOUS
<1>1. TypeOK
  BY EmptySeq, IdleIs DEF Init, TypeOK, SessionStatus
<1>2. \A m \in Msgs : hand[m].pc = "idle"
  BY DEF Init, Idle
<1>3. DOMAIN clars = {} /\ DOMAIN runs = {}
  BY DEF Init
<1>4. Intact
  BY <1>1, <1>2, <1>3 DEF Intact, Named, Refs
<1>5. AnswersAlone /\ WorksAlone
  BY <1>2, <1>3 DEF AnswersAlone, WorksAlone, Works
<1> QED
  BY <1>3, <1>4, <1>5 DEF RequestInv, QuestionHoldsRequest, OneRunPerRequest

\* The handlers that do not move still find what they go on with.
LEMMA IntactBy ==
  ASSUME Intact, Growing, NEW m \in Msgs, Moves(m), TypeOK', Named', Refs(m)'
  PROVE  Intact'
<1>1. ASSUME NEW n \in Msgs \ {m}
      PROVE  Refs(n)'
  BY DEF Moves, Intact, Growing, Refs
<1> QED
  BY <1>1 DEF Intact

LEMMA AsideIntact ==
  ASSUME Intact, RecordsKept, TypeOK', hand' = hand, DOMAIN threads \subseteq DOMAIN threads'
  PROVE  Intact'
<1>1. \A n \in Msgs : Refs(n)'
  BY DEF Intact, Refs, RecordsKept
<1> QED
  BY <1>1 DEF Intact, Named, RecordsKept, RunsAlike

\* No message comes to answer a question, and no handler to work on a request.
Calm ==
    \A n \in Msgs :
        /\ \A c \in DOMAIN clars : Answers(n, c)' => Answers(n, c)
        /\ Works(n)' => /\ Works(n) /\ hand'[n].request = hand[n].request
                        /\ hand'[n].pc = hand[n].pc /\ hand'[n].clar = hand[n].clar

LEMMA CalmKeeps ==
  ASSUME RequestInv, Calm, RecordsKept, raced' = raced, Intact'
  PROVE  RequestInv'
<1>1. /\ \A q : NoRunOf(q)' <=> NoRunOf(q)
      /\ UNCHANGED <<requests, clars, raced>>
  BY DEF RecordsKept, RunsAlike, NoRunOf
<1>2. AnswersAlone'
  BY <1>1 DEF RequestInv, AnswersAlone, Calm, Pending
<1>3. WorksAlone'
  BY <1>1 DEF RequestInv, WorksAlone, Calm, Pending
<1>4. QuestionHoldsRequest'
  BY DEF RequestInv, QuestionHoldsRequest, Pending, RecordsKept, RunsAlike
<1>5. OneRunPerRequest'
  BY DEF RequestInv, OneRunPerRequest, RecordsKept, RunsAlike
<1> QED
  BY <1>2, <1>3, <1>4, <1>5 DEF RequestInv

LEMMA CalmBy ==
  ASSUME NEW m \in Msgs, Moves(m),
         \/ /\ hand[m].pc \in {"close", "restore", "store"}
            /\ hand'[m].pc \in {"restore", "resolve"} /\ hand'[m].clar = hand[m].clar
         \/ hand'[m].pc = "decide" /\ hand'[m].clar = 0
         \/ hand'[m].pc \in CarefreePcs
  PROVE  Calm
<1>1. /\ \A c \in DOMAIN clars : Answers(m, c)' => Answers(m, c)
      /\ ~Works(m)'
  BY DEF Answers, Works, CarefreePcs, Over
<1>2. ASSUME NEW n \in Msgs \ {m}
      PROVE  /\ \A c \in DOMAIN clars : Answers(n, c)' => Answers(n, c)
             /\ Works(n)' <=> Works(n)
             /\ hand'[n] = hand[n]
  BY DEF Answers, Works, Moves
<1> QED
  BY <1>1, <1>2 DEF Calm

\* The steps of a handler on its way to the question, or past its request.
LEMMA CalmSteps ==
  ASSUME RequestInv, NEW m \in Msgs,
         Close(m) \/ Restore(m) \/ Store(m) \/ Carefree(m)
  PROVE  RequestInv'
<1>1. TypeOK /\ Intact
  BY DEF RequestInv, Intact
<1>2. /\ TypeOK' /\ Moves(m) /\ RecordsKept /\ raced' = raced
      /\ DOMAIN threads \subseteq DOMAIN threads'
      /\ \/ /\ hand[m].pc \in {"close", "restore", "store"}
            /\ hand'[m].pc \in {"restore", "resolve"} /\ hand'[m].clar = hand[m].clar
         \/ hand'[m].pc = "decide" /\ hand'[m].clar = 0
         \/ hand'[m].pc \in CarefreePcs
      /\ Refs(m)'
  <2>1. CASE Close(m)
    <3>1. /\ TypeOK' /\ Moves(m) /\ RecordsKept /\ raced' = raced
          /\ hand'[m].pc = "restore" /\ hand[m].pc = "close"
          /\ hand'[m].clar = hand[m].clar /\ hand'[m].thread = hand[m].thread
          /\ hand[m].thread \in DOMAIN threads /\ DOMAIN threads' = DOMAIN threads
      BY <1>1, <2>1, CloseIs
    <3>2. Refs(m)
      BY <1>1 DEF Intact
    <3> QED
      BY <3>1, <3>2 DEF Refs, RecordsKept
  <2>2. CASE Restore(m)
    <3>1. /\ TypeOK' /\ Moves(m) /\ RecordsKept /\ UNCHANGED <<threads, raced>>
          /\ hand'[m].pc = IF hand[m].clar # 0 THEN "resolve" ELSE "reply"
          /\ hand[m].pc = "restore" /\ hand'[m].clar = hand[m].clar
      BY <1>1, <2>2, RestoreIs
    <3>2. Refs(m)
      BY <1>1 DEF Intact
    <3> QED
      BY <3>1, <3>2 DEF Refs, RecordsKept, CarefreePcs
  <2>3. CASE Store(m)
    <3>1. /\ TypeOK' /\ Moves(m) /\ RecordsKept /\ UNCHANGED <<threads, raced>>
          /\ hand'[m].pc = IF hand[m].clar # 0 THEN "resolve" ELSE "decide"
          /\ hand[m].pc = "store" /\ hand'[m].clar = hand[m].clar
      BY <1>1, <2>3, StoreIs
    <3>2. Refs(m)
      BY <1>1 DEF Intact
    <3> QED
      BY <3>1, <3>2 DEF Refs, RecordsKept
  <2>4. CASE Carefree(m)
    BY <2>4 DEF Carefree, Refs, CarefreePcs, Over
  <2> QED
    BY <2>1, <2>2, <2>3, <2>4
<1>3. Calm
  BY <1>2, CalmBy
<1>4. Growing /\ Named'
  BY <1>1, <1>2 DEF Growing, Named, Intact, RecordsKept, RunsAlike
<1>5. Intact'
  BY <1>1, <1>2, <1>4, IntactBy
<1> QED
  BY <1>2, <1>3, <1>5, CalmKeeps

LEMMA AsideCalm ==
  ASSUME RequestInv, Aside
  PROVE  RequestInv'
<1>1. Calm
  BY DEF Aside, Calm, Answers, Works
<1>2. Intact'
  BY AsideIntact DEF RequestInv, Aside
<1> QED
  BY <1>1, <1>2, CalmKeeps DEF Aside

LEMMA CrashCalm ==
  ASSUME RequestInv, Crash
  PROVE  RequestInv'
<1>1. /\ TypeOK' /\ RecordsKept /\ UNCHANGED <<threads, raced>>
      /\ \A m \in Msgs : hand'[m].pc \in Over
  BY CrashIs DEF RequestInv, Intact
<1>2. Calm
  BY <1>1 DEF Calm, Answers, Works, Over
<1>3. \A m \in Msgs : Refs(m)'
  BY <1>1 DEF Refs, Over
<1>4. Named'
  BY <1>1 DEF RequestInv, Intact, Named, RecordsKept, RunsAlike
<1> QED
  BY <1>1, <1>2, <1>3, <1>4, CalmKeeps DEF Intact

\* A message that reads a question which another message is answering makes its
\* request one of those that are left out; otherwise it is alone with it.
LEMMA PostKeepsRequests ==
  ASSUME RequestInv, NEW m \in Msgs, Post(m)
  PROVE  RequestInv'
<1> DEFINE c == hand'[m].clar
<1>1. /\ TypeOK' /\ Moves(m) /\ UNCHANGED store /\ hand[m].pc = "idle"
      /\ hand'[m].pc \in {"close", "store"}
      /\ hand'[m].pc = "close" => hand'[m].thread \in DOMAIN threads
      /\ \/ c = 0 /\ NothingPending
         \/ c \in DOMAIN clars /\ Pending(clars[c])
  BY PostIs DEF RequestInv, Intact
<1>2. /\ raced \subseteq raced'
      /\ c # 0 /\ (\E n \in Msgs : Answers(n, c)) => clars[c].request \in raced'
  BY <1>1 DEF Post
<1> HIDE DEF c
<1>3. UNCHANGED <<requests, clars, threads, runs>> /\ Named'
  BY <1>1 DEF store, RequestInv, Intact, Named
<1>4. Intact'
  <2>1. Refs(m)'
    BY <1>1, <1>3 DEF Refs, c
  <2>2. Growing
    BY <1>3 DEF Growing
  <2> QED
    BY <1>1, <1>3, <2>1, <2>2, IntactBy DEF RequestInv
<1>5. 0 \notin DOMAIN clars
  BY ClarAt DEF RequestInv, Intact
<1>6. ASSUME NEW n \in Msgs, NEW d \in DOMAIN clars
      PROVE  Answers(n, d)' => Answers(n, d) \/ (n = m /\ d = c)
  BY <1>1 DEF Answers, c, Moves
<1>7. AnswersAlone'
  <2> SUFFICES ASSUME NEW n \in Msgs, NEW d \in DOMAIN clars,
                      Answers(n, d)', clars[d].request \notin raced'
               PROVE  /\ Pending(clars[d])
                      /\ \A o \in Msgs : Answers(o, d)' => o = n
    BY <1>3 DEF AnswersAlone, Pending
  <2>1. CASE d = c
    <3>1. \A o \in Msgs : ~Answers(o, d)
      BY <1>2, <1>5, <2>1
    <3> QED
      BY <1>1, <1>5, <1>6, <2>1, <3>1
  <2>2. CASE d # c
    BY <1>2, <1>6, <2>2 DEF RequestInv, AnswersAlone
  <2> QED
    BY <2>1, <2>2
<1>8. WorksAlone'
  <2>1. ~Works(m)'
    BY <1>1 DEF Works
  <2>2. \A n \in Msgs \ {m} : (Works(n)' <=> Works(n)) /\ hand'[n] = hand[n]
    BY <1>1 DEF Works, Moves
  <2>3. \A q : NoRunOf(q)' <=> NoRunOf(q)
    BY <1>3 DEF NoRunOf
  <2> QED
    BY <1>2, <1>3, <2>1, <2>2, <2>3 DEF RequestInv, WorksAlone, Pending
<1>9. QuestionHoldsRequest' /\ OneRunPerRequest'
  BY <1>2, <1>3 DEF RequestInv, QuestionHoldsRequest, OneRunPerRequest, Pending
<1> QED
  BY <1>4, <1>7, <1>8, <1>9 DEF RequestInv

\* The message that answered alone is the one that works on the request.
LEMMA ResolveKeepsRequests ==
  ASSUME RequestInv, NEW m \in Msgs, Resolve(m)
  PROVE  RequestInv'
<1> DEFINE c == hand[m].clar
           q == clars[c].request
<1>1. /\ TypeOK' /\ Moves(m) /\ Named' /\ UNCHANGED <<threads, plans, runs, raced>>
      /\ hand[m].pc = "resolve" /\ c \in DOMAIN clars /\ q \in DOMAIN requests
      /\ hand'[m].pc = "decide" /\ hand'[m].request = q /\ hand'[m].clar = c
      /\ DOMAIN clars' = DOMAIN clars /\ ~Pending(clars'[c]) /\ clars'[c].request = q
      /\ \A j \in DOMAIN clars : j # c => clars'[j] = clars[j]
      /\ DOMAIN requests' = DOMAIN requests
      /\ \A j \in DOMAIN requests : j # q => requests'[j] = requests[j]
  BY ResolveIs DEF RequestInv
<1> HIDE DEF q
<1>2. Answers(m, c)
  BY <1>1 DEF Answers
<1> HIDE DEF c
<1>3. Intact'
  <2>1. Refs(m)'
    BY <1>1 DEF Refs
  <2>2. Growing
    BY <1>1 DEF Growing
  <2> QED
    BY <1>1, <2>1, <2>2, IntactBy DEF RequestInv
<1>4. q \notin raced =>
        /\ NoRunOf(q)
        /\ \A i \in DOMAIN clars : Pending(clars[i]) /\ clars[i].request = q => i = c
        /\ \A n \in Msgs : Works(n) => hand[n].request # q
        /\ \A n \in Msgs : Answers(n, c) => n = m
  <2> SUFFICES ASSUME q \notin raced
               PROVE  /\ NoRunOf(q)
                      /\ \A i \in DOMAIN clars :
                           Pending(clars[i]) /\ clars[i].request = q => i = c
                      /\ \A n \in Msgs : Works(n) => hand[n].request # q
                      /\ \A n \in Msgs : Answers(n, c) => n = m
    OBVIOUS
  <2>1. Pending(clars[c]) /\ \A n \in Msgs : Answers(n, c) => n = m
    BY <1>1, <1>2 DEF RequestInv, AnswersAlone, q
  <2>2. /\ NoRunOf(q)
        /\ \A i \in DOMAIN clars : Pending(clars[i]) /\ clars[i].request = q => i = c
    BY <1>1, <2>1 DEF RequestInv, QuestionHoldsRequest, NoRunOf, q
  <2>3. \A n \in Msgs : Works(n) => hand[n].request # q
    BY <1>1, <2>1 DEF RequestInv, WorksAlone, q
  <2> QED
    BY <2>1, <2>2, <2>3
<1>5. /\ \A i \in DOMAIN clars : clars'[i].request = clars[i].request
      /\ \A i \in DOMAIN clars : Pending(clars'[i]) => i # c /\ Pending(clars[i])
  BY <1>1 DEF q
<1>6. \A r : NoRunOf(r)' <=> NoRunOf(r)
  BY <1>1 DEF NoRunOf
<1>7. AnswersAlone'
  <2>1. ASSUME NEW n \in Msgs, NEW d \in DOMAIN clars, Answers(n, d)'
        PROVE  Answers(n, d) /\ n # m
    BY <1>1, <2>1 DEF Answers, Moves
  <2> SUFFICES ASSUME NEW n \in Msgs, NEW d \in DOMAIN clars,
                      Answers(n, d)', clars[d].request \notin raced
               PROVE  /\ Pending(clars'[d])
                      /\ \A o \in Msgs : Answers(o, d)' => o = n
    BY <1>1, <1>5 DEF AnswersAlone
  <2>2. d # c
    BY <1>4, <2>1 DEF q
  <2>3. clars'[d] = clars[d]
    BY <1>1, <2>2
  <2> QED
    BY <2>1, <2>3 DEF RequestInv, AnswersAlone
<1>8. WorksAlone'
  <2> SUFFICES ASSUME NEW n \in Msgs, Works(n)', hand'[n].request \notin raced
               PROVE  /\ NoRunOf(hand'[n].request)
                      /\ \A i \in DOMAIN clars :
                           Pending(clars'[i]) => clars'[i].request # hand'[n].request
                      /\ \A o \in Msgs :
                           Works(o)' /\ hand'[o].request = hand'[n].request => o = n
                      /\ hand'[n].pc = "ask" /\ hand'[n].clar = 0 =>
                           requests'[hand'[n].request].status = "clarification_required"
    BY <1>1, <1>6 DEF WorksAlone
  <2>1. \A o \in Msgs \ {m} : (Works(o)' <=> Works(o)) /\ hand'[o] = hand[o]
    BY <1>1 DEF Works, Moves
  <2>2. CASE n = m
    BY <1>1, <1>4, <1>5, <2>1, <2>2
  <2>3. CASE n # m
    <3>1. Works(n) /\ hand'[n] = hand[n]
      BY <2>1, <2>3
    <3>2. hand[n].request # q
      BY <1>4, <3>1
    <3>3. hand[n].request \in DOMAIN requests
      BY <3>1 DEF RequestInv, Intact, Refs, Works
    <3>4. requests'[hand[n].request] = requests[hand[n].request]
      BY <1>1, <3>2, <3>3
    <3>5. /\ NoRunOf(hand[n].request)
          /\ \A i \in DOMAIN clars : Pending(clars[i]) => clars[i].request # hand[n].request
          /\ \A o \in Msgs : Works(o) /\ hand[o].request = hand[n].request => o = n
          /\ hand[n].pc = "ask" /\ hand[n].clar = 0 =>
               requests[hand[n].request].status = "clarification_required"
      BY <1>1, <3>1 DEF RequestInv, WorksAlone
    <3> QED
      BY <1>1, <1>5, <2>1, <3>1, <3>2, <3>4, <3>5
  <2> QED
    BY <2>2, <2>3
<1>9. QuestionHoldsRequest'
  <2> SUFFICES ASSUME NEW i \in DOMAIN clars, Pending(clars'[i]),
                      clars[i].request \notin raced
               PROVE  /\ requests'[clars[i].request].status = "clarification_required"
                      /\ \A r \in DOMAIN runs : runs[r].request # clars[i].request
                      /\ \A j \in DOMAIN clars :
                           Pending(clars'[j]) /\ clars[j].request = clars[i].request => i = j
    BY <1>1, <1>5 DEF QuestionHoldsRequest
  <2>1. Pending(clars[i]) /\ i # c
    BY <1>5
  <2>2. clars[i].request # q /\ clars[i].request \in DOMAIN requests
    BY <1>4, <2>1 DEF RequestInv, Intact, Named
  <2>3. requests'[clars[i].request] = requests[clars[i].request]
    BY <1>1, <2>2
  <2> QED
    BY <1>5, <2>1, <2>3 DEF RequestInv, QuestionHoldsRequest
<1>10. OneRunPerRequest'
  BY <1>1 DEF RequestInv, OneRunPerRequest
<1> QED
  BY <1>3, <1>7, <1>8, <1>9, <1>10 DEF RequestInv

LEMMA DecideKeepsRequests ==
  ASSUME RequestInv, NEW m \in Msgs, Decide(m)
  PROVE  RequestInv'
<1> DEFINE q == hand'[m].request
<1>1. /\ TypeOK' /\ Moves(m) /\ Named' /\ Growing
      /\ UNCHANGED <<session, clars, threads, plans, runs, raced>>
      /\ hand[m].pc = "decide" /\ hand'[m].clar = hand[m].clar
      /\ hand'[m].pc \in {"ask", "chat", "planning", "execution"}
      /\ \A j \in DOMAIN requests : requests'[j] = requests[j]
      /\ q \in DOMAIN requests'
      /\ hand[m].clar # 0 => requests' = requests /\ q = hand[m].request
      /\ hand[m].clar = 0 =>
           /\ q \notin DOMAIN requests
           /\ hand'[m].pc = "ask" => requests'[q].status = "clarification_required"
  BY DecideIs DEF RequestInv
<1>2. Intact'
  <2>1. Refs(m)'
    BY <1>1 DEF Refs
  <2> QED
    BY <1>1, <2>1, IntactBy DEF RequestInv
<1> HIDE DEF q
<1>3. \A r : NoRunOf(r)' <=> NoRunOf(r)
  BY <1>1 DEF NoRunOf
<1>4. \A n \in Msgs \ {m} : (Works(n)' <=> Works(n)) /\ hand'[n] = hand[n]
  BY <1>1 DEF Works, Moves
<1>5. AnswersAlone'
  <2>1. ASSUME NEW n \in Msgs, NEW d \in DOMAIN clars, Answers(n, d)'
        PROVE  Answers(n, d)
    BY <1>1, <2>1 DEF Answers, Moves
  <2> QED
    BY <1>1, <2>1 DEF RequestInv, AnswersAlone
<1>6. WorksAlone'
  <2> SUFFICES ASSUME NEW n \in Msgs, Works(n)', hand'[n].request \notin raced
               PROVE  /\ NoRunOf(hand'[n].request)
                      /\ \A i \in DOMAIN clars :
                           Pending(clars[i]) => clars[i].request # hand'[n].request
                      /\ \A o \in Msgs :
                           Works(o)' /\ hand'[o].request = hand'[n].request => o = n
                      /\ hand'[n].pc = "ask" /\ hand'[n].clar = 0 =>
                           requests'[hand'[n].request].status = "clarification_required"
    BY <1>1, <1>3 DEF WorksAlone
  <2>1. \A o \in Msgs : Works(o) => hand[o].request \in DOMAIN requests
    BY DEF RequestInv, Intact, Refs, Works
  <2>2. CASE n = m /\ hand[m].clar = 0
    <3>1. hand'[n].request = q /\ q \notin DOMAIN requests
      BY <1>1, <2>2 DEF q
    <3>2. NoRunOf(q) /\ \A i \in DOMAIN clars : clars[i].request # q
      BY <3>1 DEF RequestInv, Intact, Named, NoRunOf
    <3>3. \A o \in Msgs : Works(o)' /\ hand'[o].request = q => o = m
      BY <1>4, <2>1, <3>1
    <3> QED
      BY <1>1, <2>2, <3>1, <3>2, <3>3
  <2>3. CASE n = m /\ hand[m].clar # 0
    <3>1. Works(m) /\ hand'[n].request = hand[m].request
      BY <1>1, <2>3 DEF Works, q
    <3>2. /\ NoRunOf(hand[m].request)
          /\ \A i \in DOMAIN clars : Pending(clars[i]) => clars[i].request # hand[m].request
          /\ \A o \in Msgs : Works(o) /\ hand[o].request = hand[m].request => o = m
      BY <3>1 DEF RequestInv, WorksAlone
    <3> QED
      BY <1>1, <1>4, <2>3, <3>1, <3>2
  <2>4. CASE n # m
    <3>1. Works(n) /\ hand'[n] = hand[n] /\ hand[n].request \in DOMAIN requests
      BY <1>4, <2>1, <2>4
    <3>2. /\ NoRunOf(hand[n].request)
          /\ \A i \in DOMAIN clars : Pending(clars[i]) => clars[i].request # hand[n].request
          /\ \A o \in Msgs : Works(o) /\ hand[o].request = hand[n].request => o = n
          /\ hand[n].pc = "ask" /\ hand[n].clar = 0 =>
               requests[hand[n].request].status = "clarification_required"
      BY <3>1 DEF RequestInv, WorksAlone
    <3>3. ASSUME Works(m)', hand'[m].request = hand[n].request
          PROVE  FALSE
      <4>1. hand[m].clar # 0 /\ q = hand[m].request
        BY <1>1, <3>1, <3>3 DEF q
      <4>2. Works(m) /\ hand[m].request = hand[n].request
        BY <1>1, <3>3, <4>1 DEF Works, q
      <4> QED
        BY <2>4, <3>2, <4>2
    <3> QED
      BY <1>1, <1>4, <3>1, <3>2, <3>3
  <2> QED
    BY <2>2, <2>3, <2>4
<1>7. QuestionHoldsRequest'
  <2>1. \A i \in DOMAIN clars : requests'[clars[i].request] = requests[clars[i].request]
    BY <1>1 DEF RequestInv, Intact, Named
  <2> QED
    BY <1>1, <2>1 DEF RequestInv, QuestionHoldsRequest
<1>8. OneRunPerRequest'
  BY <1>1 DEF RequestInv, OneRunPerRequest
<1> QED
  BY <1>2, <1>5, <1>6, <1>7, <1>8 DEF RequestInv

\* The handler that asks was the only one to work on the request.
LEMMA AskKeepsRequests ==
  ASSUME RequestInv, NEW m \in Msgs, Ask(m)
  PROVE  RequestInv'
<1> DEFINE q == hand[m].request
           c == Len(clars) + 1
<1>1. /\ TypeOK' /\ Moves(m) /\ Named' /\ Growing
      /\ UNCHANGED <<threads, plans, runs, raced>>
      /\ hand[m].pc = "ask" /\ q \in DOMAIN requests /\ hand'[m].pc \in CarefreePcs
      /\ DOMAIN clars' = DOMAIN clars \cup {c} /\ c \notin DOMAIN clars
      /\ Pending(clars'[c]) /\ clars'[c].request = q
      /\ \A i \in DOMAIN clars : clars'[i] = clars[i]
      /\ DOMAIN requests' = DOMAIN requests
      /\ \A j \in DOMAIN requests : j # q => requests'[j] = requests[j]
      /\ \/ requests'[q].status = "clarification_required"
         \/ hand[m].clar = 0 /\ requests' = requests
  BY AskIs DEF RequestInv
<1>2. q \notin raced =>
        /\ NoRunOf(q)
        /\ \A i \in DOMAIN clars : Pending(clars[i]) => clars[i].request # q
        /\ \A n \in Msgs : Works(n) /\ hand[n].request = q => n = m
        /\ requests'[q].status = "clarification_required"
  <2>1. Works(m)
    BY <1>1 DEF Works
  <2> QED
    BY <1>1, <2>1 DEF RequestInv, WorksAlone
<1> HIDE DEF q, c
<1>3. Intact'
  <2>1. Refs(m)'
    BY <1>1 DEF Refs, CarefreePcs, Over
  <2> QED
    BY <1>1, <2>1, IntactBy DEF RequestInv
<1>4. \A r : NoRunOf(r)' <=> NoRunOf(r)
  BY <1>1 DEF NoRunOf
<1>5. ~Works(m)' /\ \A n \in Msgs \ {m} : (Works(n)' <=> Works(n)) /\ hand'[n] = hand[n]
  BY <1>1 DEF Works, Moves, CarefreePcs, Over
<1>6. AnswersAlone'
  <2>1. ASSUME NEW n \in Msgs, NEW d \in DOMAIN clars', Answers(n, d)'
        PROVE  Answers(n, d) /\ d \in DOMAIN clars
    <3>1. n # m /\ hand'[n] = hand[n]
      BY <1>1, <2>1 DEF Answers, Moves, CarefreePcs, Over
    <3>2. Answers(n, d)
      BY <2>1, <3>1 DEF Answers
    <3>3. Refs(n) /\ 0 \notin DOMAIN clars'
      BY <1>3, ClarAt DEF RequestInv, Intact, TypeOK
    <3>4. hand[n].clar # 0
      <4>1. d # 0
        BY <2>1, <3>3
      <4> QED
        BY <3>2, <4>1 DEF Answers
    <3> QED
      BY <3>2, <3>3, <3>4 DEF Answers, Refs
  <2> QED
    BY <1>1, <2>1 DEF RequestInv, AnswersAlone
<1>7. WorksAlone'
  <2> SUFFICES ASSUME NEW n \in Msgs, Works(n)', hand'[n].request \notin raced
               PROVE  /\ NoRunOf(hand'[n].request)
                      /\ \A i \in DOMAIN clars' :
                           Pending(clars'[i]) => clars'[i].request # hand'[n].request
                      /\ \A o \in Msgs :
                           Works(o)' /\ hand'[o].request = hand'[n].request => o = n
                      /\ hand'[n].pc = "ask" /\ hand'[n].clar = 0 =>
                           requests'[hand'[n].request].status = "clarification_required"
    BY <1>1, <1>4 DEF WorksAlone
  <2>1. n # m /\ Works(n) /\ hand'[n] = hand[n]
    BY <1>5
  <2>2. /\ NoRunOf(hand[n].request)
        /\ \A i \in DOMAIN clars : Pending(clars[i]) => clars[i].request # hand[n].request
        /\ \A o \in Msgs : Works(o) /\ hand[o].request = hand[n].request => o = n
        /\ hand[n].pc = "ask" /\ hand[n].clar = 0 =>
             requests[hand[n].request].status = "clarification_required"
    BY <1>1, <2>1 DEF RequestInv, WorksAlone
  <2>3. hand[n].request # q
    BY <1>1, <1>2, <2>1
  <2>4. requests'[hand[n].request] = requests[hand[n].request]
    <3>1. hand[n].request \in DOMAIN requests
      BY <2>1 DEF RequestInv, Intact, Refs, Works
    <3> QED
      BY <1>1, <2>3, <3>1
  <2>5. \A i \in DOMAIN clars' : Pending(clars'[i]) => clars'[i].request # hand[n].request
    BY <1>1, <2>2, <2>3
  <2> QED
    BY <1>5, <2>1, <2>2, <2>4, <2>5
<1>8. QuestionHoldsRequest'
  <2> SUFFICES ASSUME NEW i \in DOMAIN clars', Pending(clars'[i]),
                      clars'[i].request \notin raced
               PROVE  /\ requests'[clars'[i].request].status = "clarification_required"
                      /\ \A r \in DOMAIN runs : runs[r].request # clars'[i].request
                      /\ \A j \in DOMAIN clars' :
                           Pending(clars'[j]) /\ clars'[j].request = clars'[i].request => i = j
    BY <1>1 DEF QuestionHoldsRequest
  <2>1. CASE i = c
    BY <1>1, <1>2, <2>1 DEF NoRunOf
  <2>2. CASE i # c
    <3>1. i \in DOMAIN clars /\ clars'[i] = clars[i] /\ Pending(clars[i])
      BY <1>1, <2>2
    <3>2. clars[i].request # q /\ clars[i].request \in DOMAIN requests
      BY <1>1, <1>2, <3>1 DEF RequestInv, Intact, Named
    <3>3. requests'[clars[i].request] = requests[clars[i].request]
      BY <1>1, <3>2
    <3>4. /\ requests[clars[i].request].status = "clarification_required"
          /\ \A r \in DOMAIN runs : runs[r].request # clars[i].request
          /\ \A j \in DOMAIN clars :
               Pending(clars[j]) /\ clars[j].request = clars[i].request => i = j
      BY <1>1, <3>1 DEF RequestInv, QuestionHoldsRequest
    <3> QED
      BY <1>1, <3>1, <3>2, <3>3, <3>4
  <2> QED
    BY <2>1, <2>2
<1>9. OneRunPerRequest'
  BY <1>1 DEF RequestInv, OneRunPerRequest
<1> QED
  BY <1>3, <1>6, <1>7, <1>8, <1>9 DEF RequestInv

\* The run is the first of its request, and no question about it is open.
LEMMA CreateRunKeepsRequests ==
  ASSUME RequestInv, NEW m \in Msgs, CreateRun(m)
  PROVE  RequestInv'
<1> DEFINE q == hand[m].request
           r == Len(runs) + 1
<1>1. /\ TypeOK' /\ Moves(m) /\ Named'
      /\ UNCHANGED <<session, requests, clars, threads, plans, raced>>
      /\ hand[m].pc = "execution" /\ q \in DOMAIN requests /\ hand'[m].pc = "reply"
      /\ DOMAIN runs' = DOMAIN runs \cup {r} /\ r \notin DOMAIN runs
      /\ runs'[r].request = q
      /\ \A i \in DOMAIN runs : runs'[i] = runs[i]
  BY CreateRunIs DEF RequestInv
<1>2. q \notin raced =>
        /\ NoRunOf(q)
        /\ \A i \in DOMAIN clars : Pending(clars[i]) => clars[i].request # q
        /\ \A n \in Msgs : Works(n) /\ hand[n].request = q => n = m
  <2>1. Works(m)
    BY <1>1 DEF Works
  <2> QED
    BY <2>1 DEF RequestInv, WorksAlone
<1> HIDE DEF q, r
<1>3. Intact'
  <2>1. Refs(m)' /\ Growing
    BY <1>1 DEF Refs, Growing
  <2> QED
    BY <1>1, <2>1, IntactBy DEF RequestInv
<1>4. \A p : NoRunOf(p) /\ p # q => NoRunOf(p)'
  BY <1>1 DEF NoRunOf
<1>5. ~Works(m)' /\ \A n \in Msgs \ {m} : (Works(n)' <=> Works(n)) /\ hand'[n] = hand[n]
  BY <1>1 DEF Works, Moves
<1>6. AnswersAlone'
  <2>1. ASSUME NEW n \in Msgs, NEW d \in DOMAIN clars, Answers(n, d)'
        PROVE  Answers(n, d)
    BY <1>1, <2>1 DEF Answers, Moves
  <2> QED
    BY <1>1, <2>1 DEF RequestInv, AnswersAlone
<1>7. WorksAlone'
  <2>1. ASSUME NEW n \in Msgs, Works(n)', hand'[n].request \notin raced
        PROVE  Works(n) /\ hand'[n] = hand[n] /\ hand[n].request # q
    BY <1>1, <1>2, <1>5, <2>1
  <2> QED
    BY <1>1, <1>4, <1>5, <2>1 DEF RequestInv, WorksAlone
<1>8. QuestionHoldsRequest'
  <2>1. \A i \in DOMAIN clars : Pending(clars[i]) /\ clars[i].request \notin raced =>
          clars[i].request # q
    BY <1>2
  <2> QED
    BY <1>1, <2>1 DEF RequestInv, QuestionHoldsRequest
<1>9. OneRunPerRequest'
  <2>1. q \notin raced => \A i \in DOMAIN runs : runs[i].request # q
    BY <1>2 DEF NoRunOf
  <2> QED
    BY <1>1, <2>1 DEF RequestInv, OneRunPerRequest
<1> QED
  BY <1>3, <1>6, <1>7, <1>8, <1>9 DEF RequestInv

LEMMA RerunKeepsRequests ==
  ASSUME RequestInv, Rerun
  PROVE  RequestInv'
<1> DEFINE q == Len(requests) + 1
           r == Len(runs) + 1
<1>1. /\ TypeOK' /\ Named' /\ Growing
      /\ UNCHANGED <<session, clars, threads, plans, hand, raced>>
      /\ q \notin DOMAIN requests
      /\ \A i \in DOMAIN requests : requests'[i] = requests[i]
      /\ DOMAIN runs' = DOMAIN runs \cup {r} /\ r \notin DOMAIN runs
      /\ runs'[r].request = q
      /\ \A i \in DOMAIN runs : runs'[i] = runs[i]
  BY RerunIs DEF RequestInv
<1> HIDE DEF q, r
<1>2. Intact'
  <2>1. \A n \in Msgs : Refs(n)'
    BY <1>1 DEF RequestInv, Intact, Refs, Growing
  <2> QED
    BY <1>1, <2>1 DEF Intact
<1>3. /\ \A i \in DOMAIN clars : clars[i].request \in DOMAIN requests
      /\ \A i \in DOMAIN runs : runs[i].request \in DOMAIN requests
      /\ \A n \in Msgs : Works(n) => hand[n].request \in DOMAIN requests
  BY DEF RequestInv, Intact, Named, Refs, Works
<1>4. \A p \in DOMAIN requests : NoRunOf(p) => NoRunOf(p)'
  BY <1>1 DEF NoRunOf
<1>5. AnswersAlone'
  BY <1>1 DEF RequestInv, AnswersAlone, Answers
<1>6. WorksAlone'
  <2>1. \A n \in Msgs : Works(n)' <=> Works(n)
    BY <1>1 DEF Works
  <2> QED
    BY <1>1, <1>3, <1>4, <2>1 DEF RequestInv, WorksAlone
<1>7. QuestionHoldsRequest'
  <2>1. \A i \in DOMAIN clars : /\ requests'[clars[i].request] = requests[clars[i].request]
                                /\ clars[i].request # q
    BY <1>1, <1>3
  <2> QED
    BY <1>1, <2>1 DEF RequestInv, QuestionHoldsRequest
<1>8. OneRunPerRequest'
  BY <1>1, <1>3 DEF RequestInv, OneRunPerRequest
<1> QED
  BY <1>2, <1>5, <1>6, <1>7, <1>8 DEF RequestInv

LEMMA RequestStep == RequestInv /\ [Next]_vars => RequestInv'
<1> SUFFICES ASSUME RequestInv, [Next]_vars PROVE RequestInv'
  OBVIOUS
<1>1. TypeOK
  BY DEF RequestInv, Intact
<1>2. ASSUME NEW m \in Msgs, Post(m) \/ HandlerStep(m)
      PROVE  RequestInv'
  <2>1. CASE \/ Warn(m) \/ Fail(m) \/ Reply(m) \/ OpenThread(m) \/ Draft(m)
             \/ ReadSession(m) \/ CountPlans(m)
    <3>1. Carefree(m)
      BY <1>1, <2>1, WarnFailReplyAre, OpenThreadIs, DraftIs, ReadSessionIs, CountPlansIs
    <3> QED
      BY <3>1, CalmSteps
  <2> QED
    BY <1>2, <2>1, CalmSteps, PostKeepsRequests, ResolveKeepsRequests,
       DecideKeepsRequests, AskKeepsRequests, CreateRunKeepsRequests DEF HandlerStep
<1>3. CASE \/ CreateThread \/ ResolveThread \/ LockPlan \/ Claim \/ End \/ UNCHANGED vars
           \/ \E r \in DOMAIN runs : Materialized(r)
  <2>1. Aside
    BY <1>1, <1>3, CreateThreadIs, ResolveThreadIs, LockPlanIs, ClaimEndAre, StutterIs,
       MaterializedIs
  <2> QED
    BY <2>1, AsideCalm
<1> QED
  BY <1>2, <1>3, RerunKeepsRequests, CrashCalm DEF Next

\* A request is executed once (core index.ts:5015-5137, 5355-5415), for any
\* number of messages, questions and reruns, however the handlers interleave and
\* wherever crew-api goes down, but for a request whose question two messages are
\* answering at the same time.
THEOREM OneRunPerRequestHolds == Spec => []OneRunPerRequest
<1>1. RequestInv => OneRunPerRequest
  BY DEF RequestInv
<1> QED
  BY <1>1, RequestInit, RequestStep, PTL DEF Spec

\* A request with an open question waits for the answer, has no other one and is
\* not being executed (core index.ts:5021-5118, 5355-5393), under every
\* interleaving as well.
THEOREM QuestionHoldsRequestHolds == Spec => []QuestionHoldsRequest
<1>1. RequestInv => QuestionHoldsRequest
  BY DEF RequestInv
<1> QED
  BY <1>1, RequestInit, RequestStep, PTL DEF Spec

---------------------------------------------------------------------------
(* A session whose messages are handled one at a time *)

\* One message is handled at a time.
Alone == \A m, n \in Msgs : Busy(m) /\ Busy(n) => m = n

\* Nothing is pending when a new message gets its request, nor from the time a
\* question is settled until the next one is asked.
Settled(m) ==
    /\ hand[m].pc \in {"close", "restore", "store"} /\ hand[m].clar = 0 =>
         NothingPending
    /\ hand[m].pc \in {"decide", "ask", "execution"} => NothingPending

OnePending ==
    \A i, j \in DOMAIN clars : Pending(clars[i]) /\ Pending(clars[j]) => i = j

\* The inductive invariant of such a session.
SerialInv ==
    /\ RequestInv
    /\ raced = {}
    /\ Alone
    /\ \A m \in Msgs : Settled(m)
    /\ OnePending

\* What it comes to. What a handler has found still stands when it goes on: until
\* it settles the question, the one it read is the one that is pending; from then
\* on until it asks or creates the run, nothing is pending and its request has no
\* run.
Holds(m) ==
    /\ hand[m].pc \in {"close", "restore"} => hand[m].thread \in DOMAIN threads
    /\ hand[m].pc \in {"close", "restore", "store", "resolve"} =>
         \/ hand[m].clar = 0 /\ hand[m].pc # "resolve" /\ NothingPending
         \/ hand[m].clar \in DOMAIN clars /\ Pending(clars[hand[m].clar])
    /\ hand[m].pc \in {"decide", "ask", "execution"} => NothingPending
    /\ \/ hand[m].pc = "decide" /\ hand[m].clar # 0
       \/ hand[m].pc \in {"ask", "execution"}
       => hand[m].request \in DOMAIN requests /\ NoRunOf(hand[m].request)

\* One question is open, and its request has no run.
OneQuestion ==
    \A i \in DOMAIN clars : Pending(clars[i]) =>
        /\ \A r \in DOMAIN runs : runs[r].request # clars[i].request
        /\ \A j \in DOMAIN clars : Pending(clars[j]) => i = j

SessionInv ==
    /\ TypeOK
    /\ Named
    /\ Alone
    /\ \A m \in Msgs : Holds(m)
    /\ OneQuestion

LEMMA SessionFacts == SerialInv => SessionInv
<1> SUFFICES ASSUME SerialInv PROVE SessionInv
  OBVIOUS
<1>1. TypeOK /\ Named /\ Alone /\ raced = {} /\ \A m \in Msgs : Refs(m) /\ Settled(m)
  BY DEF SerialInv, RequestInv, Intact
<1>2. ASSUME NEW m \in Msgs
      PROVE  Holds(m)
  <2>1. hand[m].pc \in {"close", "restore", "store", "resolve"} /\ hand[m].clar # 0 =>
          hand[m].clar \in DOMAIN clars /\ Pending(clars[hand[m].clar])
    BY <1>1 DEF Refs, SerialInv, RequestInv, AnswersAlone, Answers
  <2>2. Works(m) => hand[m].request \in DOMAIN requests /\ NoRunOf(hand[m].request)
    BY <1>1 DEF Refs, Works, SerialInv, RequestInv, WorksAlone
  <2> QED
    <3>1. Refs(m) /\ Settled(m) /\ 0 \notin DOMAIN clars
      BY <1>1, ClarAt
    <3> QED
      BY <2>1, <2>2, <3>1 DEF Refs, Settled, Works, Holds
<1>3. OneQuestion
  BY <1>1 DEF SerialInv, RequestInv, QuestionHoldsRequest, OnePending, OneQuestion
<1> QED
  BY <1>1, <1>2, <1>3 DEF SessionInv

LEMMA SerialInit == Init => SerialInv
<1> SUFFICES ASSUME Init PROVE SerialInv
  OBVIOUS
<1>1. \A m \in Msgs : hand[m].pc = "idle"
  BY DEF Init, Idle
<1>2. DOMAIN clars = {} /\ raced = {}
  BY DEF Init
<1> QED
  BY <1>1, <1>2, RequestInit DEF SerialInv, Alone, Busy, Over, Settled, OnePending

LEMMA OthersIdle ==
  ASSUME SessionInv, NEW m \in Msgs, hand[m].pc \notin Over
  PROVE  \A n \in Msgs \ {m} : ~Busy(n)
  BY DEF SessionInv, Alone, Busy

\* The steps of m's handler leave the others alone.
LEMMA SerialBy ==
  ASSUME RequestInv', raced' = {}, NEW m \in Msgs, Moves(m),
         \A n \in Msgs \ {m} : ~Busy(n), Settled(m)', OnePending'
  PROVE  SerialInv'
<1>1. \A n \in Msgs \ {m} : hand'[n].pc \in Over
  BY DEF Busy, Moves
<1>2. \A n \in Msgs : Settled(n)'
  BY <1>1 DEF Over, Settled
<1>3. Alone'
  BY <1>1 DEF Alone, Busy
<1> QED
  BY <1>2, <1>3 DEF SerialInv

LEMMA PostSerial ==
  ASSUME ~mixed', SerialInv, NEW m \in Msgs, Post(m)
  PROVE  raced' = {} /\ (\A n \in Msgs : ~Busy(n)) /\ Settled(m)' /\ OnePending'
<1>1. \A n \in Msgs : ~Busy(n)
  BY DEF Post, Begins, Quiet
<1>2. /\ UNCHANGED store /\ hand'[m].pc \in {"close", "store"}
      /\ \/ hand'[m].clar = 0 /\ NothingPending
         \/ hand'[m].clar \in DOMAIN clars /\ Pending(clars[hand'[m].clar])
  BY PostIs DEF SerialInv, RequestInv, Intact
<1>3. raced' = raced
  <2>1. \A n \in Msgs : \A c : ~Answers(n, c)
    BY <1>1 DEF Answers, Busy, Over
  <2> QED
    BY <2>1 DEF Post
<1>4. 0 \notin DOMAIN clars
  BY ClarAt DEF SerialInv, RequestInv, Intact
<1>5. NothingPending' <=> NothingPending
  BY <1>2 DEF NothingPending, store
<1>6. Settled(m)'
  BY <1>2, <1>4, <1>5 DEF Settled
<1>7. OnePending'
  BY <1>2 DEF SerialInv, OnePending, store
<1> QED
  BY <1>1, <1>3, <1>6, <1>7 DEF SerialInv

LEMMA HandlerSerial ==
  ASSUME SerialInv, NEW m \in Msgs, HandlerStep(m)
  PROVE  raced' = {} /\ Moves(m) /\ hand[m].pc \notin Over /\ Settled(m)' /\ OnePending'
<1>1. /\ RequestInv /\ Intact /\ TypeOK /\ Settled(m) /\ raced = {} /\ OnePending
  BY DEF SerialInv, RequestInv, Intact
<1>2. ASSUME clars' = clars
      PROVE  OnePending' /\ (NothingPending' <=> NothingPending)
  BY <1>1, <1>2 DEF OnePending, NothingPending
<1>3. CASE Close(m) \/ Restore(m) \/ Store(m)
  <2>1. /\ Moves(m) /\ clars' = clars /\ raced' = raced
        /\ hand[m].pc \in {"close", "restore", "store"} /\ hand'[m].clar = hand[m].clar
        /\ hand'[m].pc = "decide" => hand[m].clar = 0
        /\ hand'[m].pc \in {"restore", "resolve", "decide", "reply"}
    BY <1>1, <1>3, CloseIs, RestoreIs, StoreIs DEF RecordsKept
  <2> QED
    BY <1>1, <1>2, <2>1 DEF Settled, Over
<1>4. CASE \/ Warn(m) \/ Fail(m) \/ Reply(m) \/ OpenThread(m) \/ Draft(m)
           \/ ReadSession(m) \/ CountPlans(m)
  <2>1. Carefree(m)
    BY <1>1, <1>4, WarnFailReplyAre, OpenThreadIs, DraftIs, ReadSessionIs, CountPlansIs
  <2> QED
    BY <1>1, <1>2, <2>1 DEF Carefree, CarefreePcs, Over, Settled, RecordsKept
<1>5. CASE Resolve(m)
  <2> DEFINE c == hand[m].clar
             q == clars[c].request
  <2>1. /\ Moves(m) /\ raced' = raced
        /\ hand[m].pc = "resolve" /\ c \in DOMAIN clars
        /\ DOMAIN clars' = DOMAIN clars /\ ~Pending(clars'[c])
        /\ \A j \in DOMAIN clars : j # c => clars'[j] = clars[j]
    BY <1>1, <1>5, ResolveIs
  <2>2. Pending(clars[c])
    BY <1>1, <2>1 DEF RequestInv, AnswersAlone, Answers
  <2> HIDE DEF c
  <2>3. NothingPending'
    BY <1>1, <2>1, <2>2 DEF NothingPending, OnePending
  <2> QED
    BY <1>1, <2>1, <2>3 DEF NothingPending, OnePending, Settled, Over
<1>6. CASE Decide(m)
  <2>1. Moves(m) /\ UNCHANGED <<clars, raced>> /\ hand[m].pc = "decide"
    BY <1>1, <1>6, DecideIs
  <2> QED
    BY <1>1, <1>2, <2>1 DEF Settled, Over
<1>7. CASE Ask(m)
  <2> DEFINE c == Len(clars) + 1
             q == hand[m].request
  <2>1. /\ Moves(m) /\ raced' = raced /\ hand[m].pc = "ask" /\ hand'[m].pc \in CarefreePcs
        /\ DOMAIN clars' = DOMAIN clars \cup {c}
        /\ \A i \in DOMAIN clars : clars'[i] = clars[i]
    BY <1>1, <1>7, AskIs
  <2> HIDE DEF c
  <2>2. OnePending'
    BY <1>1, <2>1 DEF Settled, NothingPending, OnePending
  <2> QED
    BY <1>1, <2>1, <2>2 DEF Settled, CarefreePcs, Over
<1>8. CASE CreateRun(m)
  <2> DEFINE r == Len(runs) + 1
             q == hand[m].request
  <2>1. Moves(m) /\ UNCHANGED <<clars, raced>> /\ hand[m].pc = "execution"
        /\ hand'[m].pc = "reply"
    BY <1>1, <1>8, CreateRunIs
  <2> QED
    BY <1>1, <1>2, <2>1 DEF Settled, Over
<1> QED
  BY <1>3, <1>4, <1>5, <1>6, <1>7, <1>8 DEF HandlerStep

\* What has begun while a handler was under way is not forgotten.
LEMMA MixedStays == [Next]_vars /\ ~mixed' => ~mixed
  BY DEF Next, HandlerStep, vars, Post, Close, Restore, Store, Resolve, Decide, Warn, Ask,
         ReadSession, OpenThread, Opened, CountPlans, Draft, Fail, CreateRun, Reply, Begins,
         CreateThread, ResolveThread, LockPlan, Materialized, Claim, End, Rerun, Crash

LEMMA SerialStep == SerialInv /\ [Next]_vars /\ ~mixed' => SerialInv'
<1> SUFFICES ASSUME SerialInv, [Next]_vars, ~mixed' PROVE SerialInv'
  OBVIOUS
<1>1. RequestInv' /\ TypeOK /\ Intact
  BY RequestStep DEF SerialInv, RequestInv, Intact
<1>2. ASSUME NEW m \in Msgs, Post(m)
      PROVE  SerialInv'
  <2>1. Moves(m)
    BY <1>1, <1>2, PostIs
  <2> QED
    BY <1>1, <1>2, <2>1, PostSerial, SerialBy
<1>3. ASSUME NEW m \in Msgs, HandlerStep(m)
      PROVE  SerialInv'
  <2>1. raced' = {} /\ Moves(m) /\ hand[m].pc \notin Over /\ Settled(m)' /\ OnePending'
    BY <1>3, HandlerSerial
  <2>2. \A n \in Msgs \ {m} : ~Busy(n)
    BY <2>1, SessionFacts, OthersIdle
  <2> QED
    BY <1>1, <2>1, <2>2, SerialBy
<1>4. ASSUME UNCHANGED <<clars, raced>>, \A m \in Msgs : hand'[m] = hand[m] \/ hand'[m].pc \in Over
      PROVE  SerialInv'
  <2>1. \A m \in Msgs : Settled(m)'
    BY <1>4 DEF SerialInv, Settled, NothingPending, Over
  <2>2. Alone' /\ OnePending'
    BY <1>4 DEF SerialInv, Alone, Busy, OnePending
  <2> QED
    BY <1>1, <1>4, <2>1, <2>2 DEF SerialInv
<1>5. CASE \/ CreateThread \/ ResolveThread \/ LockPlan \/ Claim \/ End \/ UNCHANGED vars
           \/ Rerun \/ \E r \in DOMAIN runs : Materialized(r)
  <2>1. UNCHANGED <<clars, raced, hand>>
    BY <1>5 DEF CreateThread, ResolveThread, LockPlan, Claim, End, vars, Rerun, Materialized
  <2> QED
    BY <1>4, <2>1
<1>6. CASE Crash
  <2>1. /\ RecordsKept /\ raced' = raced /\ \A m \in Msgs : hand'[m].pc \in Over
    BY <1>1, <1>6, CrashIs
  <2> QED
    BY <1>4, <2>1 DEF RecordsKept
<1> QED
  BY <1>2, <1>3, <1>5, <1>6 DEF Next

---------------------------------------------------------------------------
(* What a rerun is given *)

\* The settled questions about a request, and the last of a set of positions.
AnswersOf(q) ==
    {i \in DOMAIN clars : clars[i].request = q /\ clars[i].status = "resolved"}
LastOf(F) == IF F = {} THEN 0 ELSE CHOOSE i \in F : \A j \in F : j <= i

\* What a handler has put together is what a rerun of its request would find:
\* the message itself while there is no request, and from then on the last
\* settled question with its answer.
Heard(m) ==
    /\ hand[m].pc \in {"store", "decide"} /\ hand[m].clar = 0 => hand[m].content = {m}
    /\ \/ hand[m].pc = "decide" /\ hand[m].clar # 0
       \/ hand[m].pc = "execution"
       => \A q \in DOMAIN requests :
            hand[m].request = q => hand[m].content = ContentForRerun(q)

\* RerunKeepsAnswers as long as nothing is mixed.
RerunsAgree ==
    \A r \in DOMAIN runs :
        LET s == runs[r].source IN
        s # 0 /\ runs[s].source = 0 => runs[r].content = runs[s].content

\* The invariant of reruns: a pending question is the newest one, so settling
\* it makes it the last of its request; and a run that came from a message has
\* the content a rerun would be given now.
AnswerInv ==
    /\ \A i \in DOMAIN clars : Pending(clars[i]) => i = Len(clars)
    /\ \A m \in Msgs : Heard(m)
    /\ \A r \in DOMAIN runs : runs[r].source \in {0} \cup DOMAIN runs
    /\ \A r \in DOMAIN runs, q \in DOMAIN requests :
         runs[r].source = 0 /\ runs[r].request = q => runs[r].content = ContentForRerun(q)
    /\ RerunsAgree

LEMMA LastOfIs ==
  ASSUME NEW n \in Nat, NEW F \in SUBSET (1..n)
  PROVE  \/ F = {} /\ LastOf(F) = 0
         \/ LastOf(F) \in F /\ \A j \in F : j <= LastOf(F)
  BY LastExists DEF LastOf

LEMMA ContentIs ==
  ASSUME NEW q
  PROVE  ContentForRerun(q) =
           IF LastOf(AnswersOf(q)) # 0
           THEN clars[LastOf(AnswersOf(q))].content \cup clars[LastOf(AnswersOf(q))].answer
           ELSE {requests[q].msg}
  BY DEF ContentForRerun, Newest, LastOf, AnswersOf

LEMMA ContentIsNext ==
  ASSUME NEW q
  PROVE  ContentForRerun(q)' =
           IF LastOf(AnswersOf(q)') # 0
           THEN clars'[LastOf(AnswersOf(q)')].content \cup clars'[LastOf(AnswersOf(q)')].answer
           ELSE {requests'[q].msg}
  BY DEF ContentForRerun, Newest, LastOf, AnswersOf

LEMMA AnswersAt ==
  ASSUME TypeOK, NEW q
  PROVE  AnswersOf(q) \in SUBSET (1..Len(clars)) /\ Len(clars) \in Nat
  BY ClarAt DEF AnswersOf

\* A rerun would find the same as before if the settled questions are the same.
LEMMA ContentKept ==
  ASSUME TypeOK, NEW q, AnswersOf(q)' = AnswersOf(q),
         \A i \in AnswersOf(q) : clars'[i] = clars[i],
         requests'[q].msg = requests[q].msg
  PROVE  ContentForRerun(q)' = ContentForRerun(q)
<1> DEFINE F == AnswersOf(q)
<1>1. \/ F = {} /\ LastOf(F) = 0
      \/ LastOf(F) \in F
  BY AnswersAt, LastOfIs
<1>2. 0 \notin F
  BY AnswersAt
<1> QED
  BY <1>1, <1>2, ContentIs, ContentIsNext

\* A step that settles no question and takes no request away.
RequestsKept ==
    /\ DOMAIN requests \subseteq DOMAIN requests'
    /\ \A q \in DOMAIN requests : requests'[q].msg = requests[q].msg

LEMMA RequestAdded ==
  ASSUME TypeOK, NEW r \in RequestRec, requests' = Append(requests, r)
  PROVE  RequestsKept /\ \A q \in DOMAIN requests' : q \in DOMAIN requests \/ q = Len(requests) + 1
  BY Appended, RequestAt DEF TypeOK, RequestsKept

LEMMA RequestStatusSet ==
  ASSUME TypeOK, NEW q \in DOMAIN requests, NEW status \in RequestStatus,
         requests' = [requests EXCEPT ![q].status = status]
  PROVE  RequestsKept /\ DOMAIN requests' = DOMAIN requests
<1>1. requests[q] \in RequestRec
  BY RequestAt
<1>2. requests'[q] = [requests[q] EXCEPT !.status = status]
  OBVIOUS
<1>3. requests'[q].msg = requests[q].msg
  BY <1>1, <1>2 DEF RequestRec
<1> QED
  BY <1>3 DEF RequestsKept

\* The settled questions stay those they are.
LEMMA ContentsKept ==
  ASSUME TypeOK, RequestsKept,
         \A q : AnswersOf(q)' = AnswersOf(q) /\ \A i \in AnswersOf(q) : clars'[i] = clars[i]
  PROVE  \A q \in DOMAIN requests : ContentForRerun(q)' = ContentForRerun(q)
  BY ContentKept DEF RequestsKept

LEMMA HeardByAll ==
  ASSUME NEW m \in Msgs, \A n \in Msgs \ {m} : ~Busy(n) /\ hand'[n] = hand[n],
         Heard(m)'
  PROVE  \A n \in Msgs : Heard(n)'
<1>1. \A n \in Msgs \ {m} : hand'[n].pc \in Over
  BY DEF Busy
<1> QED
  BY <1>1 DEF Over, Heard

\* Runs that get on.
ContentsAlike ==
    /\ DOMAIN runs' = DOMAIN runs
    /\ \A r \in DOMAIN runs : /\ runs'[r].request = runs[r].request
                              /\ runs'[r].content = runs[r].content
                              /\ runs'[r].source = runs[r].source

\* The part of the invariant that is about runs, when none is added.
LEMMA RunsKeepAnswers ==
  ASSUME SessionInv, AnswerInv, ContentsAlike,
         \A q \in DOMAIN requests : (\E r \in DOMAIN runs : runs[r].request = q) =>
             ContentForRerun(q)' = ContentForRerun(q)
  PROVE  /\ \A r \in DOMAIN runs' : runs'[r].source \in {0} \cup DOMAIN runs'
         /\ \A r \in DOMAIN runs', q \in DOMAIN requests' :
              runs'[r].source = 0 /\ runs'[r].request = q =>
                  runs'[r].content = ContentForRerun(q)'
         /\ RerunsAgree'
<1>1. \A r \in DOMAIN runs : runs'[r].source \in {0} \cup DOMAIN runs'
  BY DEF ContentsAlike, AnswerInv
<1>2. ASSUME NEW r \in DOMAIN runs, NEW q \in DOMAIN requests',
             runs'[r].source = 0, runs'[r].request = q
      PROVE  runs'[r].content = ContentForRerun(q)'
  <2>1. runs[r].request = q /\ q \in DOMAIN requests /\ runs[r].source = 0
    BY <1>2 DEF ContentsAlike, SessionInv, Named
  <2> QED
    BY <2>1 DEF ContentsAlike, AnswerInv
<1>3. RerunsAgree'
  BY DEF ContentsAlike, AnswerInv, RerunsAgree
<1> QED
  BY <1>1, <1>2, <1>3 DEF ContentsAlike

\* Steps that change no question and no request.
LEMMA AnswersAside ==
  ASSUME SessionInv, AnswerInv, ContentsAlike, UNCHANGED <<requests, clars>>,
         \A m \in Msgs : Heard(m)'
  PROVE  AnswerInv'
<1>1. \A q \in DOMAIN requests : ContentForRerun(q)' = ContentForRerun(q)
  BY ContentsKept DEF SessionInv, RequestsKept, AnswersOf
<1> QED
  BY <1>1, RunsKeepAnswers DEF AnswerInv, Pending

LEMMA AnswersIdle ==
  ASSUME SessionInv, AnswerInv, ContentsAlike, UNCHANGED <<requests, clars, hand>>
  PROVE  AnswerInv'
<1>1. \A q \in DOMAIN requests : ContentForRerun(q)' = ContentForRerun(q)
  BY ContentsKept DEF SessionInv, RequestsKept, AnswersOf
<1>2. \A m \in Msgs : Heard(m)'
  BY <1>1 DEF AnswerInv, Heard
<1> QED
  BY <1>2, AnswersAside

LEMMA AnswerInit == Init => AnswerInv
<1> SUFFICES ASSUME Init PROVE AnswerInv
  OBVIOUS
<1>1. \A m \in Msgs : hand[m].pc = "idle"
  BY DEF Init, Idle
<1>2. DOMAIN clars = {} /\ DOMAIN runs = {}
  BY DEF Init
<1> QED
  BY <1>1, <1>2 DEF AnswerInv, Heard, RerunsAgree

\* The steps of a handler that change no question, no request and no run.
LEMMA HandlerKeepsAnswers ==
  ASSUME SessionInv, AnswerInv, NEW m \in Msgs,
         Close(m) \/ Restore(m) \/ Store(m) \/ Warn(m) \/ ReadSession(m)
           \/ OpenThread(m) \/ CountPlans(m) \/ Draft(m) \/ Fail(m) \/ Reply(m)
  PROVE  AnswerInv'
<1>1. TypeOK /\ hand[m].pc \notin Over /\ UNCHANGED <<requests, clars, runs>>
  BY DEF SessionInv, Close, Restore, Store, Warn, ReadSession, OpenThread, CountPlans,
         Draft, Fail, Reply, store, Over
<1>2. (\A n \in Msgs \ {m} : hand'[n] = hand[n]) /\ Heard(m)'
  <2>1. CASE Store(m)
    <3> DEFINE pc == IF hand[m].clar # 0 THEN "resolve" ELSE "decide"
    <3>1. GoTo(m, pc) /\ pc \in Pcs /\ pc \notin Over /\ hand[m].pc = "store"
      BY <2>1 DEF Store, Pcs, Over
    <3>2. /\ \A n \in Msgs \ {m} : hand'[n] = hand[n]
          /\ hand'[m].pc = pc /\ hand'[m].clar = hand[m].clar
          /\ hand'[m].content = hand[m].content
      <4> HIDE DEF pc
      <4> QED
        BY <1>1, <3>1, GoToIs
    <3> QED
      BY <3>1, <3>2 DEF AnswerInv, Heard
  <2>2. CASE ReadSession(m) \/ CountPlans(m)
    <3>1. /\ \A n \in Msgs \ {m} : hand'[n] = hand[n]
          /\ hand'[m].pc \in {"open", "draft"}
      BY <1>1, <2>2 DEF ReadSession, CountPlans, TypeOK, HandRec
    <3> QED
      BY <3>1 DEF Heard
  <2>3. CASE ~(Store(m) \/ ReadSession(m) \/ CountPlans(m))
    <3>1. PICK pc \in CarefreePcs \cup {"restore", "resolve"} : GoTo(m, pc)
      BY <2>3 DEF Close, Restore, Warn, OpenThread, Draft, Fail, Reply, CarefreePcs, Over
    <3>2. pc \in Pcs
      BY DEF CarefreePcs, Pcs
    <3>3. (\A n \in Msgs \ {m} : hand'[n] = hand[n]) /\ hand'[m].pc = pc
      BY <1>1, <3>1, <3>2, GoToIs
    <3> QED
      BY <3>3 DEF Heard, CarefreePcs, Over
  <2> QED
    BY <2>1, <2>2, <2>3
<1>3. \A n \in Msgs : Heard(n)'
  BY <1>1, <1>2, OthersIdle, HeardByAll
<1> QED
  BY <1>1, <1>3, AnswersAside DEF ContentsAlike

LEMMA PostKeepsAnswers ==
  ASSUME SessionInv, AnswerInv, ~mixed', NEW m \in Msgs, Post(m)
  PROVE  AnswerInv'
<1>1. TypeOK /\ hand[m] \in HandRec /\ UNCHANGED store /\ \A n \in Msgs : ~Busy(n)
  BY DEF SessionInv, Post, Begins, TypeOK, Quiet
<1>2. /\ \A n \in Msgs \ {m} : hand'[n] = hand[n]
      /\ hand'[m].pc \in {"close", "store"} /\ hand'[m].content = {m}
  <2>1. PICK thread \in FirstListed(threads, Open), clar \in FirstListed(clars, Pending) :
          hand' = [hand EXCEPT ![m] =
                   [hand[m] EXCEPT !.pc = IF thread # 0 THEN "close" ELSE "store",
                                   !.thread = thread, !.clar = clar, !.content = {m}]]
    BY DEF Post
  <2> QED
    BY <1>1, <2>1 DEF TypeOK, HandRec
<1>3. \A n \in Msgs : Heard(n)'
  BY <1>1, <1>2, HeardByAll DEF Heard
<1> QED
  BY <1>1, <1>3, AnswersAside DEF ContentsAlike, store

\* The question is the newest of all, so what is put together from it is what a
\* rerun finds from now on; no run is of its request yet.
LEMMA ResolveKeepsAnswers ==
  ASSUME SessionInv, AnswerInv, NEW m \in Msgs, Resolve(m)
  PROVE  AnswerInv'
<1>1. TypeOK /\ hand[m] \in HandRec /\ hand[m].pc = "resolve"
  BY DEF SessionInv, Resolve, TypeOK
<1>2. PICK c \in DOMAIN clars :
        /\ c = hand[m].clar /\ Pending(clars[c]) /\ clars[c] \in ClarRec
        /\ c = Len(clars) /\ Len(clars) \in Nat
  BY <1>1, ClarAt DEF SessionInv, AnswerInv, Holds
<1>3. PICK q \in DOMAIN requests : q = clars[c].request /\ NoRunOf(q)
  BY <1>2 DEF SessionInv, Named, OneQuestion, NoRunOf
<1> DEFINE a == [clars[c] EXCEPT !.status = "resolved", !.answer = {m}]
<1>4. \A j \in DOMAIN clars : Pending(clars[j]) => j = c
  BY <1>2 DEF SessionInv, OneQuestion
<1>5. /\ a \in ClarRec /\ a.status = "resolved" /\ a.request = q
      /\ a.content = clars[c].content /\ a.answer = {m}
  BY <1>2, <1>3 DEF ClarRec
<1>6. /\ clars' = [clars EXCEPT ![c] = a]
      /\ requests' = [requests EXCEPT ![q].status = "accepted"]
      /\ hand' = [hand EXCEPT ![m] = [hand[m] EXCEPT !.pc = "decide", !.request = q,
                                        !.content = clars[c].content \cup {m}]]
      /\ runs' = runs
  BY <1>2, <1>3 DEF Resolve
<1>7. /\ DOMAIN clars' = DOMAIN clars /\ clars' \in Seq(ClarRec) /\ clars'[c] = a
      /\ \A j \in DOMAIN clars : j # c => clars'[j] = clars[j]
  <2> HIDE DEF a
  <2> QED
    BY <1>1, <1>2, <1>5, <1>6, ClarAt, ExceptSeq DEF TypeOK
<1>8. /\ \A n \in Msgs \ {m} : hand'[n] = hand[n]
      /\ hand'[m].pc = "decide" /\ hand'[m].request = q /\ hand'[m].clar = c
      /\ hand'[m].content = clars[c].content \cup {m}
  BY <1>1, <1>2, <1>6 DEF TypeOK, HandRec
<1>9. RequestsKept /\ DOMAIN requests' = DOMAIN requests
  BY <1>1, <1>3, <1>6, RequestStatusSet DEF RequestStatus
<1> HIDE DEF a
<1>10. c \in AnswersOf(q)'
  BY <1>2, <1>5, <1>7 DEF AnswersOf
<1>11. ContentForRerun(q)' = clars[c].content \cup {m}
  <2> DEFINE F == AnswersOf(q)'
  <2>1. F \in SUBSET (1..Len(clars))
    BY <1>1, <1>7, ClarAt DEF AnswersOf
  <2>2. LastOf(F) = c
    <3> HIDE DEF F
    <3>1. c \in F
      BY <1>10 DEF F
    <3>2. LastOf(F) \in F /\ c <= LastOf(F)
      BY <1>2, <2>1, <3>1, LastOfIs
    <3>3. LastOf(F) \in 1..c
      BY <1>2, <2>1, <3>2
    <3> DEFINE l == LastOf(F)
    <3> HIDE DEF l
    <3>4. l \in 1..c /\ c <= l /\ c \in Nat
      BY <1>2, <3>2, <3>3 DEF l
    <3>5. l = c
      BY <3>4
    <3> QED
      BY <3>5 DEF l
  <2>3. c # 0
    BY <1>1, <1>2, ClarAt
  <2>4. ContentForRerun(q)' = clars'[c].content \cup clars'[c].answer
    BY <2>2, <2>3, ContentIsNext
  <2> QED
    BY <1>5, <1>7, <2>4
<1>12. ASSUME NEW p \in DOMAIN requests, p # q
       PROVE  ContentForRerun(p)' = ContentForRerun(p)
  <2>1. AnswersOf(p)' = AnswersOf(p) /\ \A i \in AnswersOf(p) : clars'[i] = clars[i]
    BY <1>3, <1>5, <1>7, <1>12 DEF AnswersOf
  <2> QED
    BY <1>1, <1>9, <2>1, ContentKept DEF RequestsKept
<1>13. Heard(m)'
  BY <1>1, <1>2, <1>8, <1>11, ClarAt DEF Heard
<1>14. \A n \in Msgs : Heard(n)'
  BY <1>1, <1>8, <1>13, OthersIdle, HeardByAll DEF Over
<1>15. \A i \in DOMAIN clars' : Pending(clars'[i]) => i = Len(clars')
  BY <1>4, <1>5, <1>7 DEF Pending
<1>16. \A p \in DOMAIN requests : (\E r \in DOMAIN runs : runs[r].request = p) =>
           ContentForRerun(p)' = ContentForRerun(p)
  BY <1>3, <1>12 DEF NoRunOf
<1>17. ContentsAlike
  BY <1>6 DEF ContentsAlike
<1> QED
  BY <1>14, <1>15, <1>16, <1>17, RunsKeepAnswers DEF AnswerInv

\* A new request has no question yet, so a rerun would be given the message.
LEMMA DecideKeepsAnswers ==
  ASSUME SessionInv, AnswerInv, NEW m \in Msgs, Decide(m)
  PROVE  AnswerInv'
<1>1. TypeOK /\ hand[m] \in HandRec /\ hand[m].pc = "decide" /\ Heard(m)
  BY DEF SessionInv, AnswerInv, Decide, TypeOK
<1>2. PICK type \in RequestTypes, need \in BOOLEAN, reason \in BOOLEAN :
        /\ requests' =
             IF ~(hand[m].clar = 0) THEN requests
             ELSE Append(requests,
                    [msg |-> m,
                     status |-> IF need THEN "clarification_required"
                                ELSE "accepted"])
        /\ hand' = [hand EXCEPT ![m] =
             [hand[m] EXCEPT !.pc = IF need THEN "ask" ELSE type,
                             !.type = type, !.reason = reason,
                             !.request = IF hand[m].clar = 0 THEN Len(requests) + 1
                                         ELSE hand[m].request]]
  BY DEF Decide
<1> DEFINE r == [msg |-> m,
                 status |-> IF need THEN "clarification_required" ELSE "accepted"]
           pc == IF need THEN "ask" ELSE type
           q == IF hand[m].clar = 0 THEN Len(requests) + 1 ELSE hand[m].request
<1>3. UNCHANGED <<clars, runs>>
  BY DEF Decide
<1>4. /\ \A n \in Msgs \ {m} : hand'[n] = hand[n]
      /\ hand'[m].pc = pc /\ hand'[m].request = q /\ hand'[m].clar = hand[m].clar
      /\ hand'[m].content = hand[m].content
  <2>1. hand' = [hand EXCEPT ![m] = [hand[m] EXCEPT !.pc = pc, !.type = type,
                                       !.reason = reason, !.request = q]]
    BY <1>2
  <2> HIDE DEF pc, q
  <2> QED
    BY <1>1, <2>1 DEF TypeOK, HandRec
<1>5. pc \notin {"store", "decide"}
  BY DEF RequestTypes
<1> HIDE DEF pc
<1>6. r \in RequestRec /\ r.msg = m
  BY DEF RequestRec, RequestStatus
<1>7. \A p : AnswersOf(p)' = AnswersOf(p)
  BY <1>3 DEF AnswersOf
<1>8. RequestsKept /\ Heard(m)'
  <2>1. CASE hand[m].clar = 0
    <3>1. requests' = Append(requests, r) /\ q = Len(requests) + 1
      BY <1>2, <2>1
    <3> HIDE DEF r, q
    <3>2. RequestsKept
      BY <1>1, <1>6, <3>1, RequestAdded
    <3>3. requests'[Len(requests) + 1] = r
      BY <1>1, <1>6, <3>1, Appended DEF TypeOK
    <3>4. ASSUME NEW p \in DOMAIN requests', p = q
          PROVE  ContentForRerun(p)' = {m}
      <4>1. AnswersOf(p)' = {}
        <5>1. p \notin DOMAIN requests
          BY <1>1, <3>1, <3>4, RequestAt
        <5> QED
          BY <1>3, <5>1 DEF AnswersOf, SessionInv, Named
      <4>2. LastOf(AnswersOf(p)') = 0
        BY <4>1 DEF LastOf
      <4> QED
        BY <1>6, <3>1, <3>3, <3>4, <4>2, ContentIsNext
    <3>5. hand[m].content = {m}
      BY <1>1, <2>1 DEF Heard
    <3> QED
      BY <1>4, <1>5, <2>1, <3>2, <3>4, <3>5 DEF Heard
  <2>2. CASE hand[m].clar # 0
    <3>1. requests' = requests /\ q = hand[m].request
      BY <1>2, <2>2
    <3> HIDE DEF q
    <3>2. RequestsKept
      BY <3>1 DEF RequestsKept
    <3>3. \A p \in DOMAIN requests : ContentForRerun(p)' = ContentForRerun(p)
      BY <1>1, <1>3, <1>7, <3>2, ContentsKept
    <3> QED
      BY <1>1, <1>4, <1>5, <2>2, <3>1, <3>2, <3>3 DEF Heard
  <2> QED
    BY <2>1, <2>2
<1>9. \A n \in Msgs : Heard(n)'
  BY <1>1, <1>4, <1>8, OthersIdle, HeardByAll DEF Over
<1>10. \A p \in DOMAIN requests : ContentForRerun(p)' = ContentForRerun(p)
  BY <1>1, <1>3, <1>7, <1>8, ContentsKept
<1> QED
  BY <1>3, <1>9, <1>10, RunsKeepAnswers DEF AnswerInv, ContentsAlike, Pending

\* A question that is asked is the newest, and not settled.
LEMMA AskKeepsAnswers ==
  ASSUME SessionInv, AnswerInv, NEW m \in Msgs, Ask(m)
  PROVE  AnswerInv'
<1> DEFINE c == [request |-> hand[m].request, status |-> "pending",
                 content |-> hand[m].content, answer |-> {}]
           pc == IF hand[m].type = "execution" /\ hand[m].reason
                 THEN "thread" ELSE "answered"
<1>1. /\ TypeOK /\ hand[m] \in HandRec /\ hand[m].pc = "ask" /\ NothingPending
      /\ hand[m].request \in DOMAIN requests
  BY DEF SessionInv, Ask, TypeOK, Holds
<1>2. c \in ClarRec /\ c.status = "pending"
  BY <1>1 DEF ClarRec, HandRec
<1>3. clars' = Append(clars, c) /\ GoTo(m, pc) /\ runs' = runs
  BY DEF Ask
<1>4. RequestsKept
  BY <1>1, RequestStatusSet DEF Ask, RequestStatus, RequestsKept
<1> HIDE DEF c
<1>5. /\ DOMAIN clars = 1..Len(clars) /\ Len(clars) \in Nat
      /\ DOMAIN clars' = 1..(Len(clars) + 1) /\ Len(clars') = Len(clars) + 1
      /\ \A i \in DOMAIN clars : clars'[i] = clars[i]
      /\ clars'[Len(clars) + 1] = c
  BY <1>1, <1>2, <1>3, Appended, AppendProperties DEF TypeOK
<1>6. \A p : AnswersOf(p)' = AnswersOf(p) /\ \A i \in AnswersOf(p) : clars'[i] = clars[i]
  BY <1>2, <1>5 DEF AnswersOf
<1>7. \A p \in DOMAIN requests : ContentForRerun(p)' = ContentForRerun(p)
  BY <1>1, <1>4, <1>6, ContentsKept
<1>8. \A i \in DOMAIN clars' : Pending(clars'[i]) => i = Len(clars')
  BY <1>1, <1>5 DEF NothingPending
<1>9. pc \in {"thread", "answered"} /\ pc \in Pcs
  BY DEF Pcs, Over
<1> HIDE DEF pc
<1>10. (\A n \in Msgs \ {m} : hand'[n] = hand[n]) /\ hand'[m].pc = pc
  BY <1>1, <1>3, <1>9, GoToIs
<1>11. \A n \in Msgs : Heard(n)'
  BY <1>1, <1>9, <1>10, OthersIdle, HeardByAll DEF Heard, Over
<1> QED
  BY <1>3, <1>7, <1>8, <1>11, RunsKeepAnswers DEF AnswerInv, ContentsAlike

\* A run that is added.
LEMMA RunAddsAnswer ==
  ASSUME SessionInv, AnswerInv, NEW run \in RunRec, runs' = Append(runs, run),
         RequestsKept, UNCHANGED clars, \A m \in Msgs : Heard(m)',
         run.source \in {0} \cup DOMAIN runs,
         \A q \in DOMAIN requests' :
             run.source = 0 /\ run.request = q => run.content = ContentForRerun(q)',
         run.source # 0 /\ runs[run.source].source = 0
             => run.content = runs[run.source].content
  PROVE  AnswerInv'
<1>1. /\ Len(runs) \in Nat
      /\ DOMAIN runs = 1..Len(runs) /\ DOMAIN runs' = 1..(Len(runs) + 1)
      /\ \A i \in DOMAIN runs : runs'[i] = runs[i]
      /\ runs'[Len(runs) + 1] = run
  BY Appended DEF SessionInv, TypeOK
<1>2. \A r \in DOMAIN runs' : r \in DOMAIN runs \/ r = Len(runs) + 1
  BY <1>1
<1>3. \A q \in DOMAIN requests : ContentForRerun(q)' = ContentForRerun(q)
  BY ContentsKept DEF SessionInv, AnswersOf
<1>4. \A r \in DOMAIN runs' : runs'[r].source \in {0} \cup DOMAIN runs
  BY <1>1, <1>2 DEF AnswerInv
<1>5. \A r \in DOMAIN runs' : runs'[r].source \in {0} \cup DOMAIN runs'
  BY <1>1, <1>4
<1>6. ASSUME NEW r \in DOMAIN runs', NEW q \in DOMAIN requests',
             runs'[r].source = 0, runs'[r].request = q
      PROVE  runs'[r].content = ContentForRerun(q)'
  <2>1. CASE r \in DOMAIN runs
    <3>1. runs[r].source = 0 /\ runs[r].request = q /\ q \in DOMAIN requests
      BY <1>1, <1>6, <2>1 DEF SessionInv, Named
    <3> QED
      BY <1>1, <1>3, <2>1, <3>1 DEF AnswerInv
  <2>2. CASE r = Len(runs) + 1
    BY <1>1, <1>6, <2>2
  <2> QED
    BY <1>2, <2>1, <2>2
<1>7. RerunsAgree'
  <2> SUFFICES ASSUME NEW r \in DOMAIN runs', runs'[r].source # 0,
                      runs'[runs'[r].source].source = 0
               PROVE  runs'[r].content = runs'[runs'[r].source].content
    BY DEF RerunsAgree
  <2>1. PICK s \in DOMAIN runs : s = runs'[r].source
    BY <1>4
  <2>2. runs'[s] = runs[s] /\ runs[s].source = 0 /\ s # 0
    BY <1>1, <2>1
  <2>3. CASE r \in DOMAIN runs
    BY <1>1, <2>1, <2>2, <2>3 DEF AnswerInv, RerunsAgree
  <2>4. CASE r = Len(runs) + 1
    BY <1>1, <2>1, <2>2, <2>4
  <2> QED
    BY <1>2, <2>3, <2>4
<1> QED
  BY <1>5, <1>6, <1>7 DEF AnswerInv

LEMMA CreateRunKeepsAnswers ==
  ASSUME SessionInv, AnswerInv, NEW m \in Msgs, CreateRun(m)
  PROVE  AnswerInv'
<1>0. PICK p \in FirstListed(plans, IsLocked) :
        runs' = Append(runs, NewRun(hand[m].request, hand[m].content, p, 0))
  BY DEF CreateRun
<1> DEFINE run == NewRun(hand[m].request, hand[m].content, p, 0)
<1>1. /\ TypeOK /\ hand[m] \in HandRec /\ hand[m].pc = "execution" /\ Heard(m)
      /\ hand[m].request \in DOMAIN requests
  BY DEF SessionInv, AnswerInv, CreateRun, TypeOK, Holds
<1>2. /\ runs' = Append(runs, run) /\ UNCHANGED <<requests, clars>>
      /\ hand' = [hand EXCEPT ![m] = [hand[m] EXCEPT !.pc = "reply",
                                                     !.kept = Len(runs) + 1]]
  BY <1>0 DEF CreateRun
<1>3. p \in Nat
  BY <1>1, ListedLocked
<1>4. /\ run \in RunRec /\ run.source = 0
      /\ run.request = hand[m].request /\ run.content = hand[m].content
  BY <1>1, <1>3 DEF NewRun, RunRec, RunStatus, HandRec
<1> HIDE DEF run
<1>5. (\A n \in Msgs \ {m} : hand'[n] = hand[n]) /\ hand'[m].pc = "reply"
  BY <1>1, <1>2 DEF TypeOK, HandRec
<1>6. \A n \in Msgs : Heard(n)'
  BY <1>1, <1>5, OthersIdle, HeardByAll DEF Heard, Over
<1>7. RequestsKept
  BY <1>2 DEF RequestsKept
<1>8. \A q \in DOMAIN requests : ContentForRerun(q)' = ContentForRerun(q)
  BY <1>1, <1>2, <1>7, ContentsKept DEF AnswersOf
<1>9. \A q \in DOMAIN requests' : run.request = q => run.content = ContentForRerun(q)'
  BY <1>1, <1>2, <1>4, <1>8 DEF Heard
<1> QED
  BY <1>2, <1>4, <1>6, <1>7, <1>9, RunAddsAnswer

LEMMA RerunKeepsAll ==
  ASSUME SessionInv, AnswerInv, ~mixed', Rerun
  PROVE  AnswerInv'
<1>1. TypeOK /\ \A m \in Msgs : hand[m].pc \in Over
  BY DEF SessionInv, Rerun, Begins, Quiet, Busy
<1>2. PICK s \in DOMAIN runs : \E p \in PlansForRerun(runs[s]) :
        /\ requests' = Append(requests, [requests[runs[s].request] EXCEPT !.status = "accepted"])
        /\ runs' = Append(runs, NewRun(Len(requests) + 1, ContentForRerun(runs[s].request),
                                       p, s))
  BY DEF Rerun
<1>0. PICK p \in PlansForRerun(runs[s]) :
        /\ requests' = Append(requests, [requests[runs[s].request] EXCEPT !.status = "accepted"])
        /\ runs' = Append(runs, NewRun(Len(requests) + 1, ContentForRerun(runs[s].request),
                                       p, s))
  BY <1>2
<1>3. PICK q \in DOMAIN requests : q = runs[s].request
  BY DEF SessionInv, Named
<1> DEFINE a == [requests[q] EXCEPT !.status = "accepted"]
           run == NewRun(Len(requests) + 1, ContentForRerun(q), p, s)
<1>4. /\ requests' = Append(requests, a) /\ runs' = Append(runs, run)
      /\ UNCHANGED <<clars, hand>>
  BY <1>0, <1>3 DEF Rerun
<1>5. a \in RequestRec
  BY <1>1, RequestAt DEF RequestRec, RequestStatus
<1>6. /\ run \in RunRec /\ run.source = s /\ s \in Nat \ {0}
      /\ run.content = ContentForRerun(q)
  <2>1. ContentForRerun(q) \in SUBSET Msgs /\ p \in Nat
    BY <1>1, RerunContent, PlansListed
  <2>2. Len(requests) + 1 \in Nat /\ s \in Nat \ {0}
    BY <1>1, RequestAt, RunAt, LenProperties DEF TypeOK
  <2> QED
    BY <2>1, <2>2 DEF NewRun, RunRec, RunStatus
<1> HIDE DEF a, run
<1>7. RequestsKept
  BY <1>1, <1>4, <1>5, RequestAdded
<1>8. \A m \in Msgs : Heard(m)'
  BY <1>1, <1>4 DEF Heard, Over
<1>9. runs[s].source = 0 => run.content = runs[s].content
  BY <1>3, <1>6 DEF AnswerInv
<1> QED
  BY <1>4, <1>6, <1>7, <1>8, <1>9, RunAddsAnswer

\* The steps that are no message's, and a crash.
LEMMA OthersKeepAnswers ==
  ASSUME SessionInv, AnswerInv,
         \/ CreateThread \/ ResolveThread \/ LockPlan \/ Claim \/ End \/ Crash
         \/ \E r \in DOMAIN runs : Materialized(r)
         \/ UNCHANGED vars
  PROVE  AnswerInv'
<1>1. TypeOK /\ UNCHANGED <<requests, clars>>
  BY DEF SessionInv, CreateThread, ResolveThread, LockPlan, Claim, End, Crash,
         Materialized, vars
<1>2. \A r \in DOMAIN runs : runs[r] \in RunRec
  BY <1>1, RunAt
<1>3. ContentsAlike
  <2>1. CASE Claim \/ End
    <3>1. PICK r \in DOMAIN runs, status \in RunStatus, held \in BOOLEAN :
            runs' = [runs EXCEPT ![r].status = status, ![r].held = held]
      BY <2>1 DEF Claim, End, RunStatus
    <3> QED
      BY <1>2, <3>1 DEF ContentsAlike, RunRec
  <2>2. CASE \E r \in DOMAIN runs : Materialized(r)
    <3>1. PICK r \in DOMAIN runs, status \in RunStatus :
            runs' = [runs EXCEPT ![r].making = FALSE, ![r].status = status]
      <4>1. PICK r \in DOMAIN runs : Materialized(r)
        BY <2>2
      <4>2. PICK failed \in BOOLEAN :
              runs' = [runs EXCEPT ![r].making = FALSE,
                         ![r].status = IF failed THEN "blocked" ELSE @]
        BY <4>1 DEF Materialized
      <4>3. runs[r] \in RunRec
        BY <1>2
      <4>4. runs' = [runs EXCEPT ![r].making = FALSE,
                       ![r].status = IF failed THEN "blocked" ELSE runs[r].status]
        BY <4>2, <4>3 DEF RunRec
      <4>5. (IF failed THEN "blocked" ELSE runs[r].status) \in RunStatus
        BY <4>3 DEF RunRec, RunStatus
      <4> QED
        BY <4>4, <4>5
    <3> QED
      BY <1>2, <3>1 DEF ContentsAlike, RunRec
  <2>3. CASE Crash
    BY <1>2, <2>3 DEF Crash, ContentsAlike, RunRec
  <2>4. CASE CreateThread \/ ResolveThread \/ LockPlan \/ UNCHANGED vars
    BY <2>4 DEF CreateThread, ResolveThread, LockPlan, vars, ContentsAlike
  <2> QED
    BY <2>1, <2>2, <2>3, <2>4
<1>4. CASE Crash
  <2>1. \A m \in Msgs : hand'[m].pc \in Over
    BY <1>4 DEF Crash, Busy, Over, Idle
  <2>2. \A m \in Msgs : Heard(m)'
    BY <2>1 DEF Heard, Over
  <2> QED
    BY <1>1, <1>3, <2>2, AnswersAside
<1>5. CASE ~Crash
  <2>1. hand' = hand
    BY <1>5 DEF CreateThread, ResolveThread, LockPlan, Claim, End, Materialized, vars
  <2> QED
    BY <1>1, <1>3, <2>1, AnswersIdle
<1> QED
  BY <1>4, <1>5

LEMMA AnswerStep ==
  SessionInv /\ AnswerInv /\ [Next]_vars /\ ~mixed' => AnswerInv'
<1> SUFFICES ASSUME SessionInv, AnswerInv, [Next]_vars, ~mixed'
             PROVE  AnswerInv'
  OBVIOUS
<1>1. ASSUME NEW m \in Msgs, Post(m) \/ HandlerStep(m)
      PROVE  AnswerInv'
  BY <1>1, PostKeepsAnswers, HandlerKeepsAnswers, ResolveKeepsAnswers, DecideKeepsAnswers,
     AskKeepsAnswers, CreateRunKeepsAnswers DEF HandlerStep
<1> QED
  BY <1>1, RerunKeepsAll, OthersKeepAnswers DEF Next

\* A rerun executes what its run did, with the answers of all rounds of
\* questions (core index.ts:1028-1047, 5884-6002), for any number of messages,
\* questions and reruns; the property itself is given up once something began
\* while a handler was under way.
THEOREM RerunKeepsAnswersHolds == Spec => []RerunKeepsAnswers
<1> DEFINE Inv == ~mixed => SerialInv /\ AnswerInv
<1>1. Init => Inv
  BY SerialInit, AnswerInit
<1>2. Inv /\ [Next]_vars => Inv'
  BY SerialStep, SessionFacts, AnswerStep, MixedStays
<1>3. Inv => RerunKeepsAnswers
  BY DEF AnswerInv, RerunsAgree, RerunKeepsAnswers
<1> QED
  BY <1>1, <1>2, <1>3, PTL DEF Spec

---------------------------------------------------------------------------
(* What the session waits for *)

NothingOpen == \A t \in DOMAIN threads : ~Open(threads[t])
Waiting == session = "awaiting_clarification"
NoneDead == \A m \in Msgs : hand[m].pc # "dead"

\* A handler that has an open thread to close still has it; whatever status it
\* will restore or leave behind, a session that waits has been asked.
Asked(m) ==
    /\ hand[m].pc = "close" => Open(threads[hand[m].thread])
    /\ hand[m].pc = "restore"
         /\ threads[hand[m].thread].before = "awaiting_clarification" => ~NothingPending
    /\ Busy(m) /\ hand[m].pc # "close" => NothingOpen
    /\ Busy(m) /\ hand[m].pc \notin {"close", "restore"} /\ Waiting => ~NothingPending
    /\ hand[m].pc \in {"thread", "open"} => ~NothingPending

\* The invariant of the session's status: one thread is open at most, and one
\* that was opened while the session waited, was opened while a question waited,
\* which still does.
WaitInv ==
    /\ \A t, u \in DOMAIN threads : Open(threads[t]) /\ Open(threads[u]) => t = u
    /\ \A t \in DOMAIN threads :
         Open(threads[t]) /\ threads[t].before = "awaiting_clarification" => ~NothingPending
    /\ (\A m \in Msgs : ~Busy(m)) =>
         /\ Waiting => ~NothingOpen \/ ~NothingPending
         /\ ~NothingOpen => Waiting
    /\ \A m \in Msgs : Asked(m)

\* It is given up once a thread was opened while one was open, or a crash has
\* ended a handler.
CauseInv == ~nested /\ NoneDead => WaitInv

LEMMA CauseInit == Init => CauseInv
<1> SUFFICES ASSUME Init PROVE WaitInv
  BY DEF CauseInv
<1>1. \A m \in Msgs : hand[m].pc = "idle"
  BY DEF Init, Idle
<1>2. DOMAIN threads = {} /\ session = "active"
  BY DEF Init
<1> QED
  BY <1>1, <1>2 DEF WaitInv, Asked, Busy, Over, Waiting, NothingOpen

\* The others handle nothing.
LEMMA AskedAll ==
  ASSUME NEW m \in Msgs, \A n \in Msgs \ {m} : ~Busy(n) /\ hand'[n] = hand[n],
         Asked(m)'
  PROVE  \A n \in Msgs : Asked(n)'
<1>1. \A n \in Msgs \ {m} : hand'[n].pc \in Over
  BY DEF Busy
<1> QED
  BY <1>1 DEF Asked, Busy, Over

\* A handler's step after which no thread is open, and a session that waits has
\* been asked.
LEMMA HandlerKeepsCause ==
  ASSUME SessionInv, NEW m \in Msgs, hand[m].pc \notin Over,
         \A n \in Msgs \ {m} : hand'[n] = hand[n],
         hand'[m].pc \notin {"close", "restore"},
         NothingOpen', Waiting' => ~NothingPending',
         hand'[m].pc \in {"thread", "open"} => ~NothingPending'
  PROVE  WaitInv'
<1>1. Asked(m)'
  BY DEF Asked
<1>2. \A n \in Msgs : Asked(n)'
  BY <1>1, OthersIdle, AskedAll
<1> QED
  BY <1>2 DEF WaitInv, NothingOpen

LEMMA PostKeepsCause ==
  ASSUME SessionInv, WaitInv, ~mixed', NEW m \in Msgs, Post(m)
  PROVE  WaitInv'
<1>0. PICK thread \in FirstListed(threads, Open), clar \in FirstListed(clars, Pending) :
        hand' = [hand EXCEPT ![m] =
                  [hand[m] EXCEPT !.pc = IF thread # 0 THEN "close" ELSE "store",
                                  !.thread = thread, !.clar = clar, !.content = {m}]]
  BY DEF Post
<1>1. /\ TypeOK /\ hand[m] \in HandRec /\ UNCHANGED <<session, clars, threads>>
      /\ \A n \in Msgs : ~Busy(n)
  BY DEF SessionInv, Post, Begins, TypeOK, Quiet, store
<1>2. /\ \A n \in Msgs \ {m} : hand'[n] = hand[n]
      /\ hand'[m].pc = IF thread # 0 THEN "close" ELSE "store"
      /\ hand'[m].thread = thread
  BY <1>0, <1>1 DEF TypeOK, HandRec
<1>3. \/ thread = 0 /\ NothingOpen
      \/ thread \in DOMAIN threads /\ Open(threads[thread]) /\ thread # 0
  <2>1. 0 \notin DOMAIN threads
    BY <1>1, LenProperties DEF TypeOK
  <2> QED
    BY <1>1, <2>1, ListedOpen DEF NothingOpen
<1>4. (Waiting' <=> Waiting) /\ (NothingOpen' <=> NothingOpen)
      /\ (NothingPending' <=> NothingPending)
  BY <1>1 DEF Waiting, NothingOpen, NothingPending
<1>5. Asked(m)'
  BY <1>1, <1>2, <1>3, <1>4 DEF WaitInv, Asked, Busy
<1>6. \A n \in Msgs : Asked(n)'
  BY <1>1, <1>2, <1>5, AskedAll
<1>7. Busy(m)'
  BY <1>2 DEF Busy, Over
<1> QED
  BY <1>1, <1>4, <1>6, <1>7 DEF WaitInv

LEMMA CloseKeepsCause ==
  ASSUME SessionInv, WaitInv, NEW m \in Msgs, Close(m)
  PROVE  WaitInv'
<1>1. PICK t \in DOMAIN threads :
        /\ t = hand[m].thread /\ Open(threads[t]) /\ threads[t] \in ThreadRec
  BY ThreadAt DEF SessionInv, Holds, WaitInv, Asked, Close
<1>2. hand[m].pc = "close" /\ TypeOK /\ GoTo(m, "restore") /\ clars' = clars
      /\ threads' = [threads EXCEPT ![t].status = "resolved"]
  BY <1>1 DEF SessionInv, Close
<1>3. /\ \A n \in Msgs \ {m} : hand'[n] = hand[n]
      /\ hand'[m].pc = "restore" /\ hand'[m].thread = t
  BY <1>1, <1>2, GoToIs DEF Pcs, Over
<1>4. /\ DOMAIN threads' = DOMAIN threads
      /\ threads'[t].status = "resolved" /\ threads'[t].before = threads[t].before
      /\ \A u \in DOMAIN threads : u # t => threads'[u] = threads[u]
  BY <1>1, <1>2 DEF ThreadRec
<1>5. NothingOpen'
  BY <1>1, <1>4 DEF NothingOpen, WaitInv, Open
<1>6. NothingPending' <=> NothingPending
  BY <1>2 DEF NothingPending
<1>7. Asked(m)'
  BY <1>1, <1>3, <1>4, <1>5, <1>6 DEF Asked, WaitInv
<1>8. \A n \in Msgs : Asked(n)'
  BY <1>2, <1>3, <1>7, OthersIdle, AskedAll DEF Over
<1>9. Busy(m)'
  BY <1>3 DEF Busy, Over
<1> QED
  BY <1>5, <1>8, <1>9 DEF WaitInv, NothingOpen

LEMMA RestoreKeepsCause ==
  ASSUME SessionInv, WaitInv, NEW m \in Msgs, Restore(m)
  PROVE  WaitInv'
<1>1. hand[m].pc = "restore" /\ TypeOK /\ UNCHANGED <<clars, threads>>
      /\ session' = threads[hand[m].thread].before
  BY DEF SessionInv, Restore
<1> DEFINE pc == IF hand[m].clar # 0 THEN "resolve" ELSE "reply"
<1>2. GoTo(m, pc) /\ pc \in Pcs /\ pc \in {"resolve", "reply"}
  BY DEF Restore, Pcs
<1> HIDE DEF pc
<1>3. (\A n \in Msgs \ {m} : hand'[n] = hand[n]) /\ hand'[m].pc = pc
  BY <1>1, <1>2, GoToIs
<1>4. NothingOpen' /\ (Waiting' => ~NothingPending')
  BY <1>1 DEF WaitInv, Asked, Busy, Over, NothingOpen, NothingPending, Waiting
<1> QED
  BY <1>1, <1>2, <1>3, <1>4, HandlerKeepsCause DEF Over

\* The steps that leave the session, the questions and the threads alone.
LEMMA PlainKeepsCause ==
  ASSUME SessionInv, WaitInv, NEW m \in Msgs,
         \/ Store(m) \/ Decide(m) \/ Warn(m) \/ ReadSession(m) \/ CountPlans(m)
         \/ Draft(m) \/ Fail(m) \/ CreateRun(m) \/ Reply(m)
  PROVE  WaitInv'
<1>1. /\ TypeOK /\ hand[m] \in HandRec /\ UNCHANGED <<session, clars, threads>>
      /\ hand[m].pc \notin Over \cup {"close", "restore"}
      /\ ReadSession(m) => hand[m].pc = "thread"
  BY DEF SessionInv, TypeOK, store, Over, Store, Decide, Warn, ReadSession, CountPlans,
         Draft, Fail, CreateRun, Reply
<1>2. /\ \A n \in Msgs \ {m} : hand'[n] = hand[n]
      /\ hand'[m].pc \notin {"close", "restore", "thread"}
      /\ hand'[m].pc = "open" => ReadSession(m)
  <2>1. CASE Decide(m)
    <3>1. PICK h : hand' = [hand EXCEPT ![m] = h]
                   /\ h.pc \in {"ask", "chat", "planning", "execution"}
      <4>1. PICK type \in RequestTypes, need \in BOOLEAN, reason \in BOOLEAN :
              hand' = [hand EXCEPT ![m] =
                [hand[m] EXCEPT !.pc = IF need THEN "ask" ELSE type,
                                !.type = type, !.reason = reason,
                                !.request = IF hand[m].clar = 0 THEN Len(requests) + 1
                                            ELSE hand[m].request]]
        BY <2>1 DEF Decide
      <4> DEFINE pc == IF need THEN "ask" ELSE type
                 q == IF hand[m].clar = 0 THEN Len(requests) + 1 ELSE hand[m].request
                 h == [hand[m] EXCEPT !.pc = pc, !.type = type, !.reason = reason,
                                      !.request = q]
      <4>2. pc \in {"ask", "chat", "planning", "execution"}
        BY DEF RequestTypes
      <4>3. hand' = [hand EXCEPT ![m] = h]
        BY <4>1
      <4>4. h.pc = pc
        <5> HIDE DEF pc, q
        <5> QED
          BY <1>1 DEF HandRec
      <4> HIDE DEF h, pc
      <4> QED
        BY <4>2, <4>3, <4>4
    <3> QED
      BY <1>1, <3>1 DEF TypeOK
  <2>2. CASE ReadSession(m) \/ CountPlans(m) \/ CreateRun(m)
    <3>1. CASE ReadSession(m)
      <4>1. hand' = [hand EXCEPT ![m] = [hand[m] EXCEPT !.pc = "open",
                       !.thread = IF session = "active" THEN 1 ELSE 2]]
        BY <3>1 DEF ReadSession
      <4> QED
        BY <1>1, <3>1, <4>1 DEF TypeOK, HandRec
    <3>2. CASE CountPlans(m)
      BY <1>1, <3>2 DEF CountPlans, TypeOK, HandRec
    <3>3. CASE CreateRun(m)
      BY <1>1, <3>3 DEF CreateRun, TypeOK, HandRec
    <3> QED
      BY <2>2, <3>1, <3>2, <3>3
  <2>3. CASE Store(m) \/ Warn(m) \/ Draft(m) \/ Fail(m) \/ Reply(m)
    <3>1. PICK pc \in {"resolve", "decide", "answered", "reply", "refused"} : GoTo(m, pc)
      BY <2>3 DEF Store, Warn, Draft, Fail, Reply
    <3>2. pc \in Pcs
      BY DEF Pcs, Over
    <3> QED
      BY <1>1, <3>1, <3>2, GoToIs
  <2> QED
    BY <2>1, <2>2, <2>3
<1>3. NothingOpen' /\ (Waiting' => ~NothingPending')
  BY <1>1 DEF WaitInv, Asked, Busy, NothingOpen, NothingPending, Waiting
<1>4. hand'[m].pc \in {"thread", "open"} => ~NothingPending'
  BY <1>1, <1>2 DEF WaitInv, Asked, NothingPending
<1> QED
  BY <1>1, <1>2, <1>3, <1>4, HandlerKeepsCause DEF Over

LEMMA ResolveKeepsCause ==
  ASSUME SessionInv, WaitInv, NEW m \in Msgs, Resolve(m)
  PROVE  WaitInv'
<1>1. hand[m].pc = "resolve" /\ TypeOK /\ hand[m] \in HandRec /\ threads' = threads
      /\ session' = "active"
  BY DEF SessionInv, Resolve, TypeOK
<1>2. (\A n \in Msgs \ {m} : hand'[n] = hand[n]) /\ hand'[m].pc = "decide"
  BY <1>1 DEF Resolve, TypeOK, HandRec
<1>3. NothingOpen' /\ ~Waiting'
  BY <1>1 DEF WaitInv, Asked, Busy, Over, NothingOpen, Waiting
<1> QED
  BY <1>1, <1>2, <1>3, HandlerKeepsCause DEF Over

LEMMA AskKeepsCause ==
  ASSUME SessionInv, WaitInv, NEW m \in Msgs, Ask(m)
  PROVE  WaitInv'
<1> DEFINE c == [request |-> hand[m].request, status |-> "pending",
                 content |-> hand[m].content, answer |-> {}]
           pc == IF hand[m].type = "execution" /\ hand[m].reason
                 THEN "thread" ELSE "answered"
<1>1. /\ TypeOK /\ hand[m] \in HandRec /\ hand[m].pc = "ask" /\ threads' = threads
      /\ clars' = Append(clars, c) /\ GoTo(m, pc)
  BY DEF SessionInv, Ask, TypeOK
<1>2. c \in ClarRec /\ Pending(c)
  BY <1>1 DEF ClarRec, HandRec, SessionInv, Holds, Pending
<1> HIDE DEF c
<1>3. ~NothingPending'
  <2>1. Len(clars) + 1 \in DOMAIN clars' /\ clars'[Len(clars) + 1] = c
    BY <1>1, <1>2, Appended DEF TypeOK
  <2> QED
    BY <1>2, <2>1 DEF NothingPending
<1>4. pc \in Pcs /\ pc \in {"thread", "answered"}
  BY DEF Pcs, Over
<1> HIDE DEF pc
<1>5. (\A n \in Msgs \ {m} : hand'[n] = hand[n]) /\ hand'[m].pc = pc
  BY <1>1, <1>4, GoToIs
<1>6. NothingOpen'
  BY <1>1 DEF WaitInv, Asked, Busy, Over, NothingOpen
<1> QED
  BY <1>1, <1>3, <1>4, <1>5, <1>6, HandlerKeepsCause DEF Over

\* A thread that is opened while none is open.
LEMMA OpenedKeepsCause ==
  ASSUME TypeOK, NothingOpen, NEW before \in SessionStatus, NEW plan \in Nat,
         NEW planBefore \in PlanBefore, plan # 0 => planBefore \in PlanStatus,
         Opened(before, plan, planBefore), clars' = clars,
         before = "awaiting_clarification" => ~NothingPending,
         \A n \in Msgs : hand'[n].pc \in Over
  PROVE  WaitInv'
<1> DEFINE t == [status |-> "open", before |-> before, plan |-> plan,
                 planBefore |-> planBefore]
<1>1. t \in ThreadRec /\ t.before = before
  BY DEF ThreadRec, PlanBefore
<1>2. threads' = Append(threads, t) /\ session' = "awaiting_clarification"
  BY DEF Opened
<1>3. Open(t)
  BY DEF Open
<1> HIDE DEF t
<1>4. /\ threads' \in Seq(ThreadRec) /\ Len(threads) \in Nat
      /\ DOMAIN threads = 1..Len(threads) /\ DOMAIN threads' = 1..(Len(threads) + 1)
      /\ \A i \in DOMAIN threads : threads'[i] = threads[i]
      /\ threads'[Len(threads) + 1] = t
  BY <1>1, <1>2, Appended DEF TypeOK
<1>5. \A u \in DOMAIN threads' : Open(threads'[u]) => u = Len(threads) + 1
  <2>1. \A u \in DOMAIN threads' : u \in DOMAIN threads \/ u = Len(threads) + 1
    BY <1>4
  <2> QED
    BY <1>4, <2>1 DEF NothingOpen
<1>6. \A u \in DOMAIN threads' :
        Open(threads'[u]) /\ threads'[u].before = "awaiting_clarification" => ~NothingPending'
  BY <1>1, <1>4, <1>5 DEF NothingPending
<1>7. ~NothingOpen' /\ Waiting'
  <2>1. Len(threads) + 1 \in DOMAIN threads'
    BY <1>4
  <2> QED
    BY <1>2, <1>3, <1>4, <2>1 DEF NothingOpen, Waiting
<1>8. \A n \in Msgs : Asked(n)'
  BY DEF Asked, Busy, Over
<1> QED
  BY <1>5, <1>6, <1>7, <1>8 DEF WaitInv

LEMMA OpenThreadKeepsCause ==
  ASSUME SessionInv, WaitInv, NEW m \in Msgs, OpenThread(m)
  PROVE  WaitInv'
<1>1. hand[m].pc = "open" /\ TypeOK /\ clars' = clars /\ GoTo(m, "answered")
  BY DEF SessionInv, OpenThread
<1>2. NothingOpen /\ ~NothingPending
  BY <1>1 DEF WaitInv, Asked, Busy, Over
<1>3. \A n \in Msgs : hand'[n].pc \in Over
  <2>1. (\A n \in Msgs \ {m} : hand'[n] = hand[n]) /\ hand'[m].pc = "answered"
    BY <1>1, GoToIs DEF Pcs, Over
  <2> QED
    BY <1>1, <2>1, OthersIdle DEF Busy, Over
<1> DEFINE before == IF hand[m].thread = 1 THEN "active" ELSE "awaiting_clarification"
<1>4. Opened(before, 0, "") /\ before \in SessionStatus
  BY DEF OpenThread, SessionStatus
<1> HIDE DEF before
<1> QED
  BY <1>1, <1>2, <1>3, <1>4, OpenedKeepsCause DEF PlanBefore

LEMMA CreateThreadKeepsCause ==
  ASSUME SessionInv, WaitInv, ~mixed', CreateThread, ~nested'
  PROVE  WaitInv'
<1>1. /\ TypeOK /\ clars' = clars /\ hand' = hand /\ session \in SessionStatus
      /\ \A n \in Msgs : ~Busy(n)
  BY DEF SessionInv, CreateThread, Begins, Quiet, TypeOK
<1>2. PICK p \in {0} \cup DOMAIN plans :
        Opened(session, p, IF p = 0 THEN "" ELSE plans[p].status)
  BY DEF CreateThread
<1> DEFINE before == IF p = 0 THEN "" ELSE plans[p].status
<1>3. p \in Nat /\ before \in PlanBefore /\ (p # 0 => before \in PlanStatus)
  <2>1. CASE p = 0
    BY <2>1 DEF PlanBefore
  <2>2. CASE p # 0
    <3>1. p \in DOMAIN plans /\ p \in 1..Len(plans) /\ plans[p] \in PlanRec
      BY <1>1, <2>2, PlanAt
    <3>2. plans[p].status \in PlanStatus /\ p \in Nat
      BY <3>1, LenProperties DEF PlanRec, TypeOK
    <3>3. before = plans[p].status
      BY <2>2
    <3> HIDE DEF before
    <3> QED
      BY <3>2, <3>3 DEF PlanBefore
  <2> QED
    BY <2>1, <2>2
<1>4. NothingOpen
  BY <1>2 DEF Opened, NothingOpen
<1>5. session = "awaiting_clarification" => ~NothingPending
  BY <1>1, <1>4 DEF WaitInv, Waiting
<1>6. \A n \in Msgs : hand'[n].pc \in Over
  BY <1>1 DEF Busy
<1>7. Opened(session, p, before)
  BY <1>2
<1> HIDE DEF before
<1> QED
  BY <1>1, <1>3, <1>4, <1>5, <1>6, <1>7, OpenedKeepsCause

LEMMA ResolveThreadKeepsCause ==
  ASSUME SessionInv, WaitInv, ~mixed', ResolveThread
  PROVE  WaitInv'
<1>1. /\ TypeOK /\ clars' = clars /\ hand' = hand /\ \A n \in Msgs : ~Busy(n)
  BY DEF SessionInv, ResolveThread, Begins, Quiet
<1>2. PICK t \in DOMAIN threads :
        /\ Open(threads[t]) /\ threads' = [threads EXCEPT ![t].status = "resolved"]
        /\ session' = IF session = "awaiting_clarification"
                      THEN threads[t].before ELSE session
  BY DEF ResolveThread
<1>3. threads[t] \in ThreadRec
  BY <1>1, ThreadAt
<1>4. /\ DOMAIN threads' = DOMAIN threads /\ threads'[t].status = "resolved"
      /\ \A u \in DOMAIN threads : u # t => threads'[u] = threads[u]
  BY <1>2, <1>3 DEF ThreadRec
<1>5. NothingOpen'
  BY <1>2, <1>4 DEF NothingOpen, WaitInv, Open
<1>6. Waiting' => ~NothingPending'
  BY <1>1, <1>2 DEF WaitInv, Waiting, NothingPending
<1>7. \A n \in Msgs : Asked(n)'
  BY <1>1 DEF Asked, Busy, Over
<1> QED
  BY <1>5, <1>6, <1>7 DEF WaitInv, NothingOpen

\* The steps that leave the session, questions, threads and handlers alone.
LEMMA OthersKeepCause ==
  ASSUME SessionInv, WaitInv, UNCHANGED <<session, clars, threads, hand>>
  PROVE  WaitInv'
<1>1. /\ Waiting' <=> Waiting
      /\ NothingOpen' <=> NothingOpen
      /\ NothingPending' <=> NothingPending
      /\ \A m \in Msgs : Busy(m)' <=> Busy(m)
  BY DEF Waiting, NothingOpen, NothingPending, Busy
<1>2. \A m \in Msgs : Asked(m)'
  BY <1>1 DEF WaitInv, Asked
<1>3. \A t \in DOMAIN threads' :
        Open(threads'[t]) /\ threads'[t].before = "awaiting_clarification" => ~NothingPending'
  BY <1>1 DEF WaitInv
<1>4. (\A m \in Msgs : ~Busy(m)') =>
        /\ Waiting' => ~NothingOpen' \/ ~NothingPending'
        /\ ~NothingOpen' => Waiting'
  BY <1>1 DEF WaitInv
<1> QED
  BY <1>2, <1>3, <1>4 DEF WaitInv

\* Nested openings and deaths are not forgotten.
LEMMA TroubleStays ==
  ASSUME SessionInv, [Next]_vars, ~nested', NoneDead'
  PROVE  ~nested /\ NoneDead
<1>1. ~nested
  BY DEF Next, HandlerStep, vars, Post, Close, Restore, Store, Resolve, Decide, Warn, Ask,
         ReadSession, OpenThread, Opened, CountPlans, Draft, Fail, CreateRun, Reply,
         CreateThread, ResolveThread, LockPlan, Materialized, Claim, End, Rerun, Crash
<1>2. ASSUME NEW m \in Msgs, hand[m].pc = "dead"
      PROVE  hand'[m].pc = "dead"
  <2>1. TypeOK /\ ~Busy(m)
    BY <1>2 DEF SessionInv, Busy, Over
  <2>2. ASSUME NEW n \in Msgs, Post(n) \/ HandlerStep(n)
        PROVE  hand'[m] = hand[m]
    <3>1. n # m
      BY <1>2, <2>2 DEF HandlerStep, Post, Close, Restore, Store, Resolve, Decide, Warn,
            Ask, ReadSession, OpenThread, CountPlans, Draft, Fail, CreateRun, Reply
    <3> QED
      BY <2>1, <2>2, <3>1 DEF HandlerStep, Post, Close, Restore, Store, Resolve, Decide,
            Warn, Ask, ReadSession, OpenThread, CountPlans, Draft, Fail, CreateRun, Reply,
            GoTo, TypeOK
  <2>3. CASE Crash
    BY <1>2, <2>1, <2>3 DEF Crash
  <2>4. CASE \/ CreateThread \/ ResolveThread \/ LockPlan \/ Claim \/ End \/ Rerun
             \/ (\E r \in DOMAIN runs : Materialized(r)) \/ UNCHANGED vars
    BY <1>2, <2>4 DEF CreateThread, ResolveThread, LockPlan, Claim, End, Rerun,
          Materialized, vars
  <2> QED
    BY <1>2, <2>2, <2>3, <2>4 DEF Next
<1> QED
  BY <1>1, <1>2 DEF NoneDead

LEMMA CauseStep ==
  SessionInv /\ CauseInv /\ [Next]_vars /\ ~mixed' => CauseInv'
<1> SUFFICES ASSUME SessionInv, CauseInv, [Next]_vars, ~mixed', ~nested', NoneDead'
             PROVE  WaitInv'
  BY DEF CauseInv
<1>1. WaitInv
  BY TroubleStays DEF CauseInv
<1>2. ASSUME NEW m \in Msgs, Post(m) \/ HandlerStep(m)
      PROVE  WaitInv'
  BY <1>1, <1>2, PostKeepsCause, CloseKeepsCause, RestoreKeepsCause, PlainKeepsCause,
     ResolveKeepsCause, AskKeepsCause, OpenThreadKeepsCause DEF HandlerStep
<1>3. CASE CreateThread
  BY <1>1, <1>3, CreateThreadKeepsCause
<1>4. CASE ResolveThread
  BY <1>1, <1>4, ResolveThreadKeepsCause
<1>5. CASE \/ LockPlan \/ Claim \/ End \/ Rerun \/ UNCHANGED vars
           \/ \E r \in DOMAIN runs : Materialized(r)
  BY <1>1, <1>5, OthersKeepCause DEF LockPlan, Claim, End, Rerun, Materialized, vars
<1>6. CASE Crash
  \* Only runs were in the making: otherwise a handler would be dead now.
  <2>1. \A m \in Msgs : ~Busy(m)
    BY <1>6 DEF Crash, NoneDead, Idle
  <2>2. hand' = hand
    <3>1. hand' = [m \in Msgs |-> hand[m]] /\ hand \in [Msgs -> HandRec]
      BY <1>6, <2>1 DEF Crash, SessionInv, TypeOK
    <3> QED
      BY <3>1
  <2> QED
    BY <1>1, <1>6, <2>2, OthersKeepCause DEF Crash
<1> QED
  BY <1>2, <1>3, <1>4, <1>5, <1>6 DEF Next

\* Between messages a session that waits for an answer has been asked, and one
\* that was asked in a thread waits (core index.ts:3680-3745, 5227-5257,
\* 6364-6447), for any number of messages, questions and threads; the property
\* itself leaves out nested threads, killed handlers and what began while a
\* handler was under way.
THEOREM SessionWaitsForCauseHolds == Spec => []SessionWaitsForCause
<1> DEFINE Inv == ~mixed => SerialInv /\ CauseInv
<1>1. Init => Inv
  BY SerialInit, CauseInit
<1>2. Inv /\ [Next]_vars => Inv'
  BY SerialStep, SessionFacts, CauseStep, MixedStays
<1>3. Inv => SessionWaitsForCause
  BY DEF CauseInv, NoneDead, WaitInv, SessionWaitsForCause, Quiet, Waiting, NothingOpen,
         NothingPending
<1> QED
  BY <1>1, <1>2, <1>3, PTL DEF Spec

=============================================================================
