------------------------------- MODULE Intake -------------------------------
(***************************************************************************)
(* One session: how its messages become requests, questions, plans and     *)
(* runs (postMessage and what it calls in packages/core/src/index.ts), and *)
(* what clients and operators do to its threads, plans and runs meanwhile. *)
(*                                                                         *)
(* A message's handler is a chain of store accesses, one per action. With  *)
(* Overlap, a message may be posted while another's handler is under way.  *)
(* Records are numbered in the order in which they are created; 0 is none. *)
(* A content is the set of the messages it was put together from.          *)
(***************************************************************************)
EXTENDS Naturals, Sequences, FiniteSets

CONSTANTS Msgs,        \* the messages that are posted
          Overlap,     \* whether two handlers may be under way
          MayCrash,    \* whether crew-api may go down
          MaxThreads,  \* bound: threads ever opened
          MaxPlans,    \* bound: plans ever drafted
          MaxRuns      \* bound: runs ever created

VARIABLES session,   \* SessionRecord.status
          requests,  \* the RequestRecords
          clars,     \* the ClarificationRecords
          threads,   \* the ClarificationThreadRecords, none of them of a run
          plans,     \* the status and version of the PlanRecords
          runs,      \* the runs, each with its job
          hand,      \* the handler of each message
          nested,    \* history: a thread was opened while one was open
          mixed,     \* history: something began while a handler was under way
          raced      \* history: the requests whose question two messages answer

store == <<session, requests, clars, threads, plans, runs>>
vars == <<session, requests, clars, threads, plans, runs, hand, nested, mixed, raced>>

RequestTypes == {"chat", "planning", "execution"}

\* What find may give, or 0: the newest record in the JSON store, the one with
\* the lowest id, a random one, in the Postgres store.
FirstListed(seq, Cond(_)) ==
    LET found == {i \in DOMAIN seq : Cond(seq[i])} IN
    IF found = {} THEN {0} ELSE found

\* The newest record that satisfies a condition, or 0.
Newest(seq, Cond(_)) ==
    LET found == {i \in DOMAIN seq : Cond(seq[i])} IN
    IF found = {} THEN 0 ELSE CHOOSE i \in found : \A j \in found : j <= i

Pending(clar) == clar.status = "pending"
Open(thread) == thread.status = "open"
IsLocked(plan) == plan.status = "locked"

Idle == [pc |-> "idle", clar |-> 0, thread |-> 0, request |-> 0, type |-> "",
         content |-> {}, reason |-> FALSE, kept |-> 0]

Over == {"idle", "answered", "refused", "dead"}
Busy(m) == hand[m].pc \notin Over
Quiet == (\A m \in Msgs : ~Busy(m)) /\ \A r \in DOMAIN runs : ~runs[r].making

Init ==
    /\ session = "active"
    /\ requests = <<>> /\ clars = <<>> /\ threads = <<>>
    /\ plans = <<>> /\ runs = <<>>
    /\ hand = [m \in Msgs |-> Idle]
    /\ nested = FALSE /\ mixed = FALSE
    /\ raced = {}

\* What does not continue a handler begins, while one is under way or not.
Begins ==
    /\ Overlap \/ Quiet
    /\ mixed' = (mixed \/ ~Quiet)

GoTo(m, pc) ==
    hand' = [hand EXCEPT ![m] = IF pc \in Over THEN [Idle EXCEPT !.pc = pc]
                                ELSE [@ EXCEPT !.pc = pc]]

---------------------------------------------------------------------------
(* postMessage *)

\* A message has read the pending question c and not settled it yet.
Answers(n, c) ==
    hand[n].clar = c /\ hand[n].pc \in {"close", "restore", "store", "resolve"}

Post(m) ==
    /\ hand[m].pc = "idle"
    /\ Begins
    /\ \E thread \in FirstListed(threads, Open), clar \in FirstListed(clars, Pending) :
         /\ hand' = [hand EXCEPT ![m] =
                       [@ EXCEPT !.pc = IF thread # 0 THEN "close" ELSE "store",
                                 !.thread = thread, !.clar = clar,
                                 !.content = {m}]]
         /\ raced' = IF clar # 0 /\ \E n \in Msgs : Answers(n, clar)
                     THEN raced \cup {clars[clar].request} ELSE raced
    /\ UNCHANGED <<store, nested>>

\* closeClarificationThread
Close(m) ==
    /\ hand[m].pc = "close"
    /\ threads' = [threads EXCEPT ![hand[m].thread].status = "resolved"]
    /\ GoTo(m, "restore")
    /\ UNCHANGED <<session, requests, clars, plans, runs, nested, mixed, raced>>

\* Mutant of Restore: the thread is closed and the session goes on waiting.
RestoreNothing(m) ==
    /\ hand[m].pc = "restore"
    /\ GoTo(m, IF hand[m].clar # 0 THEN "resolve" ELSE "reply")
    /\ UNCHANGED <<store, nested, mixed, raced>>

Restore(m) ==
    /\ hand[m].pc = "restore"
    /\ session' = threads[hand[m].thread].before
    /\ GoTo(m, IF hand[m].clar # 0 THEN "resolve" ELSE "reply")
    /\ UNCHANGED <<requests, clars, threads, plans, runs, nested, mixed, raced>>

\* The message is stored, and nothing that other steps look at.
Store(m) ==
    /\ hand[m].pc = "store"
    /\ GoTo(m, IF hand[m].clar # 0 THEN "resolve" ELSE "decide")
    /\ UNCHANGED <<store, nested, mixed, raced>>

\* Mutant of Resolve: the answer is used, and the question stays open.
ResolveLeavesOpen(m) ==
    /\ hand[m].pc = "resolve"
    /\ LET c == hand[m].clar  q == clars[c].request IN
        /\ requests' = [requests EXCEPT ![q].status = "accepted"]
        /\ hand' = [hand EXCEPT ![m].pc = "decide", ![m].request = q,
                                ![m].content = clars[c].content \cup {m}]
    /\ session' = "active"
    /\ UNCHANGED <<clars, threads, plans, runs, nested, mixed, raced>>

\* resolveClarification: the first write.
Resolve(m) ==
    /\ hand[m].pc = "resolve"
    /\ LET c == hand[m].clar  q == clars[c].request IN
        /\ clars' = [clars EXCEPT ![c].status = "resolved", ![c].answer = {m}]
        /\ requests' = [requests EXCEPT ![q].status = "accepted"]
        /\ hand' = [hand EXCEPT ![m].pc = "decide", ![m].request = q,
                                ![m].content = clars[c].content \cup {m}]
    /\ session' = "active"
    /\ UNCHANGED <<threads, plans, runs, nested, mixed, raced>>

\* decideIntake: the provider's decision; a new message gets its request.
Decide(m) ==
    /\ hand[m].pc = "decide"
    /\ \E type \in RequestTypes, need, reason \in BOOLEAN :
        /\ need => type # "chat"
        /\ reason => need
        /\ LET new == hand[m].clar = 0 IN
            /\ requests' =
                 IF ~new THEN requests
                 ELSE Append(requests,
                        [msg |-> m,
                         status |-> IF need THEN "clarification_required"
                                    ELSE "accepted"])
            /\ hand' = [hand EXCEPT ![m] =
                 [@ EXCEPT !.pc = IF need THEN "ask" ELSE type,
                           !.type = type, !.reason = reason,
                           !.request = IF new THEN Len(requests) + 1
                                      ELSE hand[m].request]]
    /\ UNCHANGED <<session, clars, threads, plans, runs, nested, mixed, raced>>

\* The provider fails, here or in answerChat: a warning is stored.
Warn(m) ==
    /\ hand[m].pc \in {"decide", "chat"}
    /\ GoTo(m, "answered")
    /\ UNCHANGED <<store, nested, mixed, raced>>

\* Mutant of Ask: a second question leaves the request accepted.
AskTwiceAlike(m) ==
    /\ hand[m].pc = "ask"
    /\ clars' = Append(clars, [request |-> hand[m].request, status |-> "pending",
                               content |-> hand[m].content, answer |-> {}])
    /\ GoTo(m, IF hand[m].type = "execution" /\ hand[m].reason
               THEN "thread" ELSE "answered")
    /\ UNCHANGED <<session, requests, threads, plans, runs, nested, mixed, raced>>

\* The question; the second one about a request changes the session as well.
Ask(m) ==
    /\ hand[m].pc = "ask"
    /\ clars' = Append(clars, [request |-> hand[m].request, status |-> "pending",
                               content |-> hand[m].content, answer |-> {}])
    /\ LET again == hand[m].clar # 0 IN
        /\ session' = IF again THEN "awaiting_clarification" ELSE session
        /\ requests' =
             IF again THEN [requests EXCEPT ![hand[m].request].status =
                                "clarification_required"]
             ELSE requests
    /\ GoTo(m, IF hand[m].type = "execution" /\ hand[m].reason
               THEN "thread" ELSE "answered")
    /\ UNCHANGED <<threads, plans, runs, nested, mixed, raced>>

\* createClarificationThread: it reads the session and then writes.
ReadSession(m) ==
    /\ hand[m].pc = "thread"
    /\ Len(threads) < MaxThreads
    /\ hand' = [hand EXCEPT ![m].pc = "open",
                    ![m].thread = IF session = "active" THEN 1 ELSE 2]
    /\ UNCHANGED <<store, nested, mixed, raced>>

Opened(before, plan, planBefore) ==
    /\ threads' = Append(threads, [status |-> "open", before |-> before,
                                   plan |-> plan, planBefore |-> planBefore])
    /\ nested' = (nested \/ \E i \in DOMAIN threads : Open(threads[i]))
    /\ session' = "awaiting_clarification"

OpenThread(m) ==
    /\ hand[m].pc = "open"
    /\ Opened(IF hand[m].thread = 1 THEN "active" ELSE "awaiting_clarification",
              0, "")
    /\ GoTo(m, "answered")
    /\ UNCHANGED <<requests, clars, plans, runs, mixed, raced>>

\* createPlan: the version is counted before the provider drafts the plan.
CountPlans(m) ==
    /\ hand[m].pc = "planning"
    /\ Len(plans) < MaxPlans
    /\ hand' = [hand EXCEPT ![m].pc = "draft", ![m].kept = Len(plans)]
    /\ UNCHANGED <<store, nested, mixed, raced>>

Draft(m) ==
    /\ hand[m].pc = "draft"
    /\ plans' = Append(plans, [status |-> "draft", version |-> hand[m].kept + 1])
    /\ GoTo(m, "reply")
    /\ UNCHANGED <<session, requests, clars, threads, runs, nested, mixed, raced>>

\* No draft, or no run: an answered question gets a warning, a new message
\* an error and no answer.
Fail(m) ==
    /\ hand[m].pc \in {"draft", "execution"}
    /\ GoTo(m, IF hand[m].clar # 0 THEN "answered" ELSE "refused")
    /\ UNCHANGED <<store, nested, mixed, raced>>

\* createRunFromRequest: the run is queued before its specialists are
\* materialized, and blocked if that fails, whatever has become of it.
NewRun(request, content, plan, source) ==
    [request |-> request, content |-> content, plan |-> plan,
     source |-> source, status |-> "queued", held |-> FALSE, making |-> TRUE]

CreateRun(m) ==
    /\ hand[m].pc = "execution"
    /\ Len(runs) < MaxRuns
    /\ \E plan \in FirstListed(plans, IsLocked) :
         runs' = Append(runs, NewRun(hand[m].request, hand[m].content, plan, 0))
    /\ hand' = [hand EXCEPT ![m].pc = "reply", ![m].kept = Len(runs) + 1]
    /\ UNCHANGED <<session, requests, clars, threads, plans, nested, mixed, raced>>

Materialized(r) ==
    /\ runs[r].making
    /\ \E failed \in BOOLEAN :
        runs' = [runs EXCEPT ![r].making = FALSE,
                             ![r].status = IF failed THEN "blocked" ELSE @]
    /\ UNCHANGED <<session, requests, clars, threads, plans, hand, nested, mixed, raced>>

Reply(m) ==
    /\ hand[m].pc \in {"reply", "chat"}
    /\ hand[m].type = "execution" /\ hand[m].kept # 0 =>
         ~runs[hand[m].kept].making
    /\ GoTo(m, "answered")
    /\ UNCHANGED <<store, nested, mixed, raced>>

---------------------------------------------------------------------------
(* What else changes the session: single writes on what a read found, made
   while no handler is under way unless Overlap. *)

\* clarifications.create, about a plan or about nothing
CreateThread ==
    /\ Begins
    /\ Len(threads) < MaxThreads
    /\ \E p \in {0} \cup DOMAIN plans :
        /\ Opened(session, p, IF p = 0 THEN "" ELSE plans[p].status)
        /\ plans' = IF p = 0 THEN plans
                    ELSE [plans EXCEPT ![p].status = "awaiting_clarification"]
    /\ UNCHANGED <<requests, clars, runs, hand, raced>>

\* clarifications.resolve
ResolveThread ==
    /\ Begins
    /\ \E t \in DOMAIN threads :
        /\ Open(threads[t])
        /\ threads' = [threads EXCEPT ![t].status = "resolved"]
        /\ session' = IF session = "awaiting_clarification"
                      THEN threads[t].before ELSE session
        /\ LET p == threads[t].plan IN
           plans' = IF p # 0 /\ plans[p].status = "awaiting_clarification"
                    THEN [plans EXCEPT ![p].status = threads[t].planBefore]
                    ELSE plans
    /\ UNCHANGED <<requests, clars, runs, hand, nested, raced>>

\* plans.lock
LockPlan ==
    /\ Begins
    /\ \E p \in DOMAIN plans :
        plans' = [plans EXCEPT ![p].status = "locked"]
    /\ UNCHANGED <<session, requests, clars, threads, runs, hand, nested, raced>>

\* A runner claims the run's job and executes it (see RunLifecycle).
Claim ==
    /\ \E r \in DOMAIN runs :
        /\ runs[r].status = "queued"
        /\ runs' = [runs EXCEPT ![r].status = "running", ![r].held = TRUE]
    /\ UNCHANGED <<session, requests, clars, threads, plans, hand, nested, mixed, raced>>

End ==
    /\ \E r \in DOMAIN runs, outcome \in {"completed", "failed"} :
        /\ runs[r].held
        /\ runs' = [runs EXCEPT ![r].status = outcome, ![r].held = FALSE]
    /\ UNCHANGED <<session, requests, clars, threads, plans, hand, nested, mixed, raced>>

\* Mutant of ContentForRerun: the first answer is taken, not the last.
ContentOfFirstAnswer(request) ==
    LET answers == {i \in DOMAIN clars :
                      clars[i].request = request /\ clars[i].status = "resolved"}
        first == CHOOSE i \in answers : \A j \in answers : i <= j
    IN IF answers # {} THEN clars[first].content \cup clars[first].answer
       ELSE {requests[request].msg}

\* resolveRequestContentForRerun
ContentForRerun(request) ==
    LET AnswerOf(clar) == clar.request = request /\ clar.status = "resolved"
        last == Newest(clars, AnswerOf)
    IN IF last # 0 THEN clars[last].content \cup clars[last].answer
       ELSE {requests[request].msg}

PlansForRerun(run) ==
    IF run.plan # 0 THEN {run.plan} ELSE FirstListed(plans, IsLocked)

\* runs.rerun, on a failed or blocked run
Rerun ==
    /\ Begins
    /\ Len(runs) < MaxRuns
    /\ \E r \in DOMAIN runs : \E plan \in PlansForRerun(runs[r]) :
        /\ runs[r].status \in {"failed", "blocked"}
        /\ LET q == runs[r].request IN
            /\ requests' = Append(requests, [requests[q] EXCEPT !.status = "accepted"])
            /\ runs' = Append(runs, NewRun(Len(requests) + 1, ContentForRerun(q), plan, r))
    /\ UNCHANGED <<session, clars, threads, plans, hand, nested, raced>>

Crash ==
    /\ MayCrash
    /\ ~Quiet
    /\ hand' = [m \in Msgs |->
                  IF Busy(m) THEN [Idle EXCEPT !.pc = "dead"] ELSE hand[m]]
    /\ runs' = [r \in DOMAIN runs |-> [runs[r] EXCEPT !.making = FALSE]]
    /\ UNCHANGED <<session, requests, clars, threads, plans, nested, mixed, raced>>

---------------------------------------------------------------------------
HandlerStep(m) ==
    \/ Close(m) \/ Restore(m) \/ Store(m) \/ Resolve(m) \/ Decide(m) \/ Warn(m)
    \/ Ask(m) \/ ReadSession(m) \/ OpenThread(m) \/ CountPlans(m) \/ Draft(m)
    \/ Fail(m) \/ CreateRun(m) \/ Reply(m)

Next ==
    \/ \E m \in Msgs : Post(m) \/ HandlerStep(m)
    \/ CreateThread \/ ResolveThread \/ LockPlan
    \/ \E r \in DOMAIN runs : Materialized(r)
    \/ Claim \/ End \/ Rerun \/ Crash

Spec == Init /\ [][Next]_vars

---------------------------------------------------------------------------
(***************************************************************************)
(* A request is executed once, however the handlers of a session, its      *)
(* threads, plans and runs interleave and wherever crew-api goes down: an  *)
(* answer settles one question, and no second round of questions gives the *)
(* request a second run. Only a message that is posted while another one   *)
(* is answering the same question can (core index.ts:5015-5137,            *)
(* 5355-5415).                                                             *)
(***************************************************************************)
OneRunPerRequest ==
    \A r, s \in DOMAIN runs :
        runs[r].request = runs[s].request => r = s \/ runs[r].request \in raced

(***************************************************************************)
(* A request with an open question waits for its answer, has no other open *)
(* question and is not being executed: what is asked is settled before     *)
(* anything is made of it, but by two messages that answer the question at *)
(* the same time (core index.ts:5021-5118, 5355-5393).                     *)
(***************************************************************************)
QuestionHoldsRequest ==
    \A i \in DOMAIN clars :
        LET q == clars[i].request IN
        Pending(clars[i]) /\ q \notin raced =>
            /\ requests[q].status = "clarification_required"
            /\ \A r \in DOMAIN runs : runs[r].request # q
            /\ \A j \in DOMAIN clars :
                 Pending(clars[j]) /\ clars[j].request = q => i = j

(***************************************************************************)
(* Between messages, a session that waits for an answer has been asked,    *)
(* and one that was asked in a thread waits: unless a thread was opened    *)
(* while another was open, when the statuses kept in them can be restored  *)
(* in the wrong order, or something began while a handler was under way    *)
(* (core index.ts:3680-3745, 5227-5257, 6364-6447).                        *)
(***************************************************************************)
SessionWaitsForCause ==
    (Quiet /\ ~nested /\ ~mixed /\ \A m \in Msgs : hand[m].pc # "dead") =>
        /\ session = "awaiting_clarification" =>
             \/ \E t \in DOMAIN threads : Open(threads[t])
             \/ \E i \in DOMAIN clars : Pending(clars[i])
        /\ (\E t \in DOMAIN threads : Open(threads[t])) =>
             session = "awaiting_clarification"

(***************************************************************************)
(* The rerun of a run that came from a message executes what that run did, *)
(* the answers to all rounds of questions included, as long as nothing     *)
(* begins while a handler is under way (core index.ts:1028-1047,           *)
(* 5884-6002).                                                             *)
(***************************************************************************)
RerunKeepsAnswers ==
    ~mixed => \A r \in DOMAIN runs :
        LET s == runs[r].source IN
        s # 0 /\ runs[s].source = 0 => runs[r].content = runs[s].content

=============================================================================
