--------------------------- MODULE RunLifecycle ---------------------------
(***************************************************************************)
(* The life of one run of commons-crew: its status, its tasks, its runner  *)
(* job, the approvals and the clarification threads attached to it, and    *)
(* the handlers of packages/core/src/index.ts that read and write them.    *)
(*                                                                         *)
(* The code keeps everything in a store shared by two processes (crew-api  *)
(* and crew-runner).  A store read and a store write are atomic, nothing   *)
(* longer is: a handler is a chain of awaited reads and writes, and what   *)
(* it wrote last may rest on what it read first.  Here a thread carries a  *)
(* script, the store accesses its handler still has to make; one action    *)
(* performs the first of them.  A read that decides something replaces     *)
(* the rest of the script by what the code does in that case.              *)
(***************************************************************************)
EXTENDS Naturals, Sequences, FiniteSets

CONSTANTS
  NTasks,         \* the run's tasks are 1..NTasks, in execution order
  NeedsApproval,  \* the tasks created with approvalRequired
  Procs,          \* the processes sharing the store
  Runners,        \* those that drain the queue (crew-runner)
  Threads,        \* the requests and executions in flight, at most
  Home,           \* the process of a thread
  RunnerId,       \* the id a runner process claims jobs with
  Env,            \* what the surroundings may do, see EnvEvents
  Overlap,        \* whether accesses of two handlers may interleave
  Fragile,        \* the processes that may go down
  MaxApprovals,   \* bound: approvals proposed on top of the gates
  MaxQuestions,   \* bound: clarification threads ever opened
  MaxCrashes      \* bound: crashes and shutdowns, taken together

EnvEvents ==
  { "pause", "resume", "cancel",            \* runs.control
    "decide", "redecide",                   \* approvals.decide, on a pending
                                            \* and on a decided approval
    "report_failure",                       \* runner.fail
    "ask_user", "resolve", "reply",         \* clarifications, postMessage
    "propose",                              \* an action proposed, by a task
                                            \* or by a client
    "expire",                               \* actions.execute, too late
    "provider_invalid", "provider_throw", "task_error",
    "crash", "shutdown" }

NoRunner == "no runner"
Keep     == "as read"

Tasks     == 1..NTasks
Clients   == Procs \ Runners
RunnerIds == { RunnerId[p] : p \in Runners }

ASSUME TasksAssumption  == NTasks \in Nat \ {0} /\ NeedsApproval \subseteq Tasks
ASSUME ProcsAssumption  == Runners \subseteq Procs /\ Fragile \subseteq Procs
                           /\ Home \in [Threads -> Procs]
ASSUME RunnerAssumption == NoRunner \notin RunnerIds /\ Keep \notin RunnerIds
ASSUME EnvAssumption    == Env \subseteq EnvEvents /\ Overlap \in BOOLEAN
ASSUME BoundsAssumption == {MaxApprovals, MaxQuestions, MaxCrashes} \subseteq Nat

VARIABLES
  run,        \* RunRecord.status
  task,       \* TaskRecord.status of each task
  job,        \* RunnerJobRecord.status and .runnerId
  approvals,  \* the ApprovalRecords of the run, oldest first
  granted,    \* history: the tasks for which an approval was ever approved
  questions,  \* the ClarificationThreadRecords of the run, oldest first
  script,     \* what each thread still has to do
  proc,       \* the state of each process
  crashes     \* how often a process went down

store == <<run, task, job, approvals, granted, questions>>
vars  == <<run, task, job, approvals, granted, questions, script, proc, crashes>>

---------------------------------------------------------------------------
(* Statuses *)

RunStatus == { "queued", "running", "blocked", "awaiting_clarification",
               "completed", "failed", "cancelled", "paused" }
TaskStatus == { "queued", "running", "blocked", "completed", "failed", "cancelled" }
JobStatus == { "queued", "claimed", "running", "blocked", "paused",
               "completed", "failed", "cancelled" }
ApprovalStatus == { "pending", "approved", "denied", "expired" }
Terminal == { "completed", "failed", "cancelled" }

\* RUNNER_JOB_STATUS_TRANSITIONS
JobMoves ==
  [ queued    |-> { "claimed", "paused", "cancelled" },
    claimed   |-> { "running", "paused", "failed", "cancelled" },
    running   |-> { "blocked", "paused", "completed", "failed", "cancelled" },
    blocked   |-> { "queued", "failed", "cancelled" },
    paused    |-> { "queued", "cancelled" },
    completed |-> {},
    failed    |-> {},
    cancelled |-> {} ]

\* Variant: the table is not consulted.
CanTransitionAnywhere(from, to) == TRUE

CanTransition(from, to) == to \in JobMoves[from]

---------------------------------------------------------------------------
(* Scripts.  "bail": the code returns here when the process shuts down.    *)
(* "must": the handler ends when the job transition is refused.            *)

Op(kind, arg, to, runner, bail, must) ==
  [ op |-> kind, arg |-> arg, to |-> to, runner |-> runner,
    bail |-> bail, must |-> must ]

SetRun(status, bail)       == Op("run", 0, status, Keep, bail, FALSE)
SetTask(t, status, bail)   == Op("task", t, status, Keep, bail, FALSE)
SetJob(status, runner)     == Op("job", 0, status, runner, FALSE, FALSE)
MustSetJob(status, runner) == Op("job", 0, status, runner, FALSE, TRUE)
Execute(after)             == Op("exec", after, "", Keep, TRUE, FALSE)
FailRun(t)                 == Op("fail", t, "", Keep, FALSE, FALSE)
Then(kind, arg, to)        == Op(kind, arg, to, Keep, FALSE, FALSE)

\* Every access a script can hold, by kind.
Ops ==
  LET Of(kinds, args, tos, runners) ==
        [ op : kinds, arg : args, to : tos, runner : runners,
          bail : BOOLEAN, must : BOOLEAN ]
  IN Of({"run", "open"}, {0}, RunStatus, {Keep})
     \cup Of({"task"}, Tasks, TaskStatus, {Keep})
     \cup Of({"job"}, {0}, JobStatus, RunnerIds \cup {NoRunner, Keep})
     \cup Of({"save"}, {0}, JobStatus, RunnerIds \cup {NoRunner})
     \cup Of({"ask", "decided"}, Tasks, ApprovalStatus, {Keep})
     \cup Of({"work", "recheck"}, Tasks, {""}, {Keep})
     \cup Of({"exec", "fail"}, Tasks \cup {0}, {""}, {Keep})
     \cup Of({"synthesize"}, Tasks \cup {0}, {""}, RunnerIds \cup {NoRunner})
     \cup Of({"resolve"}, Nat, RunStatus, {Keep})
     \cup Of({"close", "expire"}, Nat, {""}, {Keep})
     \cup Of({"start", "resolved", "closed", "replied"}, {0}, {""}, {Keep})

Idle(th)     == script[th] = <<>>
At(th, kind) == ~Idle(th) /\ Head(script[th]).op = kind
Arg(th)      == Head(script[th]).arg
To(th)       == Head(script[th]).to
Stopping(th) == proc[Home[th]] = "stopping"

\* A thread whose next store access comes after a wait of any length: for
\* its next request, for the runner's next call, for an answer of the model.
Parked(th) == ~Idle(th) => Head(script[th]).op \in {"start", "work", "synthesize"}

\* Without Overlap, the short chains of store accesses run one at a time.
MayRun(th) ==
  /\ proc[Home[th]] # "down"
  /\ ~Overlap => \A u \in Threads \ {th} : Parked(u)

Does(th, rest)   == script' = [script EXCEPT ![th] = rest]
Follow(th, rest) == Does(th, rest \o Tail(script[th]))

---------------------------------------------------------------------------
(* Store accesses shared by the handlers *)

\* setRunStatus: overwrites whatever the status is by now.
RunWrite(th) ==
  /\ At(th, "run") /\ MayRun(th)
  /\ Stopping(th) => ~Head(script[th]).bail
  /\ run' = IF Stopping(th) THEN run ELSE To(th)
  /\ Follow(th, <<>>)
  /\ UNCHANGED <<task, job, approvals, granted, questions, proc, crashes>>

\* setTaskStatus
TaskWrite(th) ==
  /\ At(th, "task") /\ MayRun(th)
  /\ Stopping(th) => ~Head(script[th]).bail
  /\ task' = IF Stopping(th) THEN task ELSE [task EXCEPT ![Arg(th)] = To(th)]
  /\ Follow(th, <<>>)
  /\ UNCHANGED <<run, job, approvals, granted, questions, proc, crashes>>

\* Variant: an option that was not given is stored as it is.
NextJobAsGiven(to, runner) ==
  [ status |-> to, runner |-> IF to = "queued" THEN NoRunner ELSE runner ]

\* The record transitionRunnerJob builds from the job it has read.
NextJob(to, runner) ==
  [ status |-> to,
    runner |-> IF to = "queued" THEN NoRunner
               ELSE IF runner = Keep THEN job.runner ELSE runner ]

\* transitionRunnerJob, its read: the move must be allowed from here.
JobRead(th) ==
  /\ At(th, "job") /\ MayRun(th)
  /\ LET o    == Head(script[th])
         next == NextJob(o.to, o.runner)
     IN \/ /\ o.to = job.status \/ CanTransition(job.status, o.to)
           /\ Follow(th, << Op("save", 0, next.status, next.runner, FALSE, FALSE) >>)
        \/ /\ ~(o.to = job.status \/ CanTransition(job.status, o.to))
           /\ IF o.must THEN Does(th, <<>>) ELSE Follow(th, <<>>)
  /\ UNCHANGED <<store, proc, crashes>>

\* transitionRunnerJob, its write: the record read before is put back whole.
JobWrite(th) ==
  /\ At(th, "save") /\ MayRun(th)
  /\ job' = [status |-> To(th), runner |-> Head(script[th]).runner]
  /\ Follow(th, <<>>)
  /\ UNCHANGED <<run, task, approvals, granted, questions, proc, crashes>>

\* "if (shuttingDown) return": the chain is left where it is.
Bail(th) ==
  /\ ~Idle(th) /\ Head(script[th]).bail /\ Stopping(th) /\ MayRun(th)
  /\ Does(th, <<>>)
  /\ UNCHANGED <<store, proc, crashes>>

\* failRun: the task given, or some task that is not over, fails; then the
\* run; then the job, if the table allows it.
Failing(th) ==
  LET active == { t \in Tasks : task[t] \in {"running", "blocked", "queued"} }
      rest   == << SetRun("failed", FALSE), SetJob("failed", Keep) >>
  IN /\ At(th, "fail") /\ MayRun(th)
     /\ \/ /\ Arg(th) # 0
           /\ Follow(th, << SetTask(Arg(th), "failed", FALSE) >> \o rest)
        \/ /\ Arg(th) = 0
           /\ \E t \in active : Follow(th, << SetTask(t, "failed", FALSE) >> \o rest)
        \/ /\ Arg(th) = 0 /\ active = {}
           /\ Follow(th, rest)
     /\ UNCHANGED <<store, proc, crashes>>

---------------------------------------------------------------------------
(* The runner: drainQueue claims and starts, one job at a time *)

\* The thread is between claimNext's read and the end of start.
Taking(th) ==
  \E i \in DOMAIN script[th] :
    \/ script[th][i].op = "start"
    \/ script[th][i].op \in {"job", "save"} /\ script[th][i].to = "running"

\* Variant: drainQueue without its flag.
DrainingUnmarked(p) == FALSE

\* drainQueue returns at once while it is already draining.
Draining(p) == \E th \in Threads : Home[th] = p /\ Taking(th)

\* runner.claimNext
Claim(th) ==
  LET p == Home[th] IN
  /\ p \in Runners /\ proc[p] = "up" /\ ~Draining(p)
  /\ Idle(th) /\ MayRun(th)
  /\ job.status = "queued" /\ run = "queued"
  /\ Does(th, << MustSetJob("claimed", RunnerId[p]), Then("start", 0, "") >>)
  /\ UNCHANGED <<store, proc, crashes>>

\* Variant: start without its check of the job.
StartUnchecked(th) ==
  /\ At(th, "start") /\ MayRun(th)
  /\ Does(th, << SetRun("running", FALSE), MustSetJob("running", RunnerId[Home[th]]),
                 Execute(0) >>)
  /\ UNCHANGED <<store, proc, crashes>>

\* runner.start: the run is marked running before the job is.
Start(th) ==
  /\ At(th, "start") /\ MayRun(th)
  /\ IF job = [status |-> "claimed", runner |-> RunnerId[Home[th]]]
     THEN Does(th, << SetRun("running", FALSE),
                      MustSetJob("running", RunnerId[Home[th]]),
                      Execute(0) >>)
     ELSE Does(th, <<>>)
  /\ UNCHANGED <<store, proc, crashes>>

---------------------------------------------------------------------------
(* executeRun *)

HasApproval(t, status) ==
  \E i \in DOMAIN approvals : approvals[i] = [task |-> t, status |-> status]

\* Variant: everything but what is being worked on counts as waiting.
WaitingUnlessRunning == { t \in Tasks : task[t] # "running" }

Waiting == { t \in Tasks : task[t] \in {"queued", "blocked"} }
IsNext(t) == t \in Waiting /\ \A u \in Waiting : t <= u

\* Variant: the gate opens unless somebody has to decide or said no.
GateOpenUnlessRefused(t) == ~HasApproval(t, "pending") /\ ~HasApproval(t, "denied")

\* The states of the approvals, as read with the run, that let task t start.
GateOpen(t) ==
  \/ t \notin NeedsApproval
  \/ /\ HasApproval(t, "approved")
     /\ ~HasApproval(t, "pending") /\ ~HasApproval(t, "denied")

Executing(th) ==
  /\ At(th, "exec") /\ MayRun(th) /\ ~Stopping(th)
  /\ UNCHANGED <<store, proc, crashes>>

Proceeding(th) ==
  Executing(th) /\ run \notin Terminal \cup {"awaiting_clarification", "paused"}

\* A rejected executeRun: called from a task's job it fails that task and
\* the run; called from runner.start it is only logged.
Rejected(after) == IF after = 0 THEN <<>> ELSE << FailRun(after) >>

ExecReturn(th) ==
  /\ Executing(th)
  /\ run \in Terminal \cup {"awaiting_clarification", "paused"}
  /\ Does(th, <<>>)

ExecNoTaskLeft(th) ==
  /\ Proceeding(th) /\ Waiting = {}
  /\ Does(th, << Op("synthesize", Arg(th), "", job.runner, TRUE, FALSE) >>)

ExecProviderInvalid(th) ==
  /\ "provider_invalid" \in Env /\ Proceeding(th)
  /\ \E t \in Tasks : IsNext(t) /\ Does(th, << FailRun(t) >>)

ExecProviderThrows(th) ==
  /\ "provider_throw" \in Env /\ Proceeding(th) /\ Waiting # {}
  /\ Does(th, Rejected(Arg(th)))

\* What follows once the task waits for a decision; for a denied approval the
\* code does not look at shuttingDown on the way.
Hold(t, bail) ==
  << SetTask(t, "blocked", bail), SetRun("blocked", bail),
     SetJob("blocked", job.runner) >>

ExecHeld(th) ==
  /\ Proceeding(th)
  /\ \E t \in NeedsApproval :
       /\ IsNext(t)
       /\ \/ HasApproval(t, "pending") /\ Does(th, Hold(t, TRUE))
          \/ /\ ~HasApproval(t, "pending") /\ HasApproval(t, "denied")
             /\ Does(th, Hold(t, FALSE))

ExecAsks(th) ==
  /\ Proceeding(th)
  /\ \E t \in NeedsApproval :
       /\ IsNext(t)
       /\ \A status \in {"pending", "approved", "denied"} : ~HasApproval(t, status)
       /\ Does(th, << Then("ask", t, "pending") >> \o Hold(t, TRUE))

ExecBegins(th) ==
  /\ Proceeding(th)
  /\ \E t \in Tasks :
       /\ IsNext(t) /\ GateOpen(t)
       /\ Does(th, << SetRun("running", TRUE), SetTask(t, "running", TRUE),
                      Op("work", t, "", Keep, TRUE, FALSE) >>)

\* The new ApprovalRecord is written.
Ask(th) ==
  /\ At(th, "ask") /\ MayRun(th)
  /\ approvals' = Append(approvals, [task |-> Arg(th), status |-> "pending"])
  /\ Follow(th, <<>>)
  /\ UNCHANGED <<run, task, job, granted, questions, proc, crashes>>

\* The task's execution (executeTaskWithAutonomousTools) returned.
WorkDone(th) ==
  /\ At(th, "work") /\ MayRun(th) /\ ~Stopping(th)
  /\ Does(th, << SetTask(Arg(th), "completed", FALSE),
                 Op("recheck", Arg(th), "", Keep, TRUE, FALSE) >>)
  /\ UNCHANGED <<store, proc, crashes>>

\* Variant: the task fails and the run goes on.
WorkFailsAlone(th) ==
  /\ "task_error" \in Env /\ At(th, "work") /\ MayRun(th)
  /\ Does(th, << SetTask(Arg(th), "failed", FALSE), Execute(Arg(th)) >>)
  /\ UNCHANGED <<store, proc, crashes>>

\* It was rejected; this path does not look at shuttingDown.
WorkFails(th) ==
  /\ "task_error" \in Env /\ At(th, "work") /\ MayRun(th)
  /\ Does(th, << FailRun(Arg(th)) >>)
  /\ UNCHANGED <<store, proc, crashes>>

\* During its execution the task proposes an action that needs an approval
\* (propose_spec_correction); createProposal seeds one for the same task.
WorkProposes(th) ==
  /\ "propose" \in Env /\ At(th, "work") /\ MayRun(th)
  /\ Len(approvals) < MaxApprovals /\ ~HasApproval(Arg(th), "denied")
  /\ Does(th, << Then("ask", Arg(th), "pending") >> \o script[th])
  /\ UNCHANGED <<store, proc, crashes>>

\* Variant: the execution ends after one task.
RecheckEnds(th) ==
  /\ At(th, "recheck") /\ MayRun(th) /\ ~Stopping(th)
  /\ Does(th, <<>>)
  /\ UNCHANGED <<store, proc, crashes>>

\* The run is read again before the next task is looked for.
Recheck(th) ==
  /\ At(th, "recheck") /\ MayRun(th) /\ ~Stopping(th)
  /\ Does(th, IF run \in Terminal \cup {"paused"} THEN <<>> ELSE << Execute(Arg(th)) >>)
  /\ UNCHANGED <<store, proc, crashes>>

\* The provider's synthesis came back: the job is completed, with the runner
\* executeRun read before, then the run.
Synthesized(th) ==
  /\ At(th, "synthesize") /\ MayRun(th) /\ ~Stopping(th)
  /\ Does(th, << Op("job", 0, "completed", Head(script[th]).runner, TRUE, FALSE),
                 SetRun("completed", TRUE) >>)
  /\ UNCHANGED <<store, proc, crashes>>

SynthesisThrows(th) ==
  /\ "provider_throw" \in Env /\ At(th, "synthesize") /\ MayRun(th)
  /\ Does(th, Rejected(Arg(th)))
  /\ UNCHANGED <<store, proc, crashes>>

---------------------------------------------------------------------------
(* Requests *)

Request(th, event) ==
  /\ event \in Env
  /\ Home[th] \in Clients /\ proc[Home[th]] = "up"
  /\ Idle(th) /\ MayRun(th)

\* Variant: whatever the run is doing, it can be paused.
PauseAnything(th) ==
  /\ Request(th, "pause") /\ run # "paused"
  /\ Does(th, << SetRun("paused", FALSE) >>
              \o IF job.status \in {"queued", "claimed", "running"}
                 THEN << SetJob("paused", job.runner) >> ELSE <<>>)
  /\ UNCHANGED <<store, proc, crashes>>

\* runs.control
Pause(th) ==
  /\ Request(th, "pause") /\ run \in {"queued", "running"}
  /\ Does(th, << SetRun("paused", FALSE) >>
              \o IF job.status \in {"queued", "claimed", "running"}
                 THEN << SetJob("paused", job.runner) >> ELSE <<>>)
  /\ UNCHANGED <<store, proc, crashes>>

Resume(th) ==
  /\ Request(th, "resume") /\ run = "paused"
  /\ Does(th, << SetRun("queued", FALSE) >>
              \o IF job.status = "paused" THEN << SetJob("queued", Keep) >> ELSE <<>>)
  /\ UNCHANGED <<store, proc, crashes>>

Cancel(th) ==
  /\ Request(th, "cancel") /\ run \notin Terminal
  /\ Does(th, << SetRun("cancelled", FALSE) >>
              \o IF job.status \notin Terminal
                 THEN << SetJob("cancelled", job.runner) >> ELSE <<>>)
  /\ UNCHANGED <<store, proc, crashes>>

\* approvals.decide up to its write; it never looks at the approval's status.
Decide(th) ==
  \E i \in DOMAIN approvals, verdict \in {"approved", "denied"} :
    /\ Request(th, IF approvals[i].status = "pending" THEN "decide" ELSE "redecide")
    /\ approvals' = [approvals EXCEPT ![i].status = verdict]
    /\ granted' = IF verdict = "approved" THEN granted \cup {approvals[i].task}
                                          ELSE granted
    /\ Does(th, << Then("decided", approvals[i].task, verdict) >>)
    /\ UNCHANGED <<run, task, job, questions, proc, crashes>>

\* Variant: an approval requeues the run and its task, not the job.
DecidedWithoutJob(th) ==
  /\ At(th, "decided") /\ MayRun(th)
  /\ Does(th, IF To(th) = "approved"
              THEN << SetRun("queued", FALSE), SetTask(Arg(th), "queued", FALSE) >>
              ELSE << FailRun(Arg(th)) >>)
  /\ UNCHANGED <<store, proc, crashes>>

\* Variant: an approval requeues the job alone.
DecidedJobAlone(th) ==
  /\ At(th, "decided") /\ MayRun(th)
  /\ Does(th, IF To(th) = "approved" THEN << SetJob("queued", Keep) >>
                                     ELSE << FailRun(Arg(th)) >>)
  /\ UNCHANGED <<store, proc, crashes>>

\* Variant: a denial leaves the run blocked.
DecidedDenialWaits(th) ==
  /\ At(th, "decided") /\ MayRun(th)
  /\ Does(th, IF To(th) = "approved"
              THEN << SetRun("queued", FALSE), SetTask(Arg(th), "queued", FALSE),
                      SetJob("queued", Keep) >>
              ELSE << SetRun("blocked", FALSE) >>)
  /\ UNCHANGED <<store, proc, crashes>>

\* approvals.decide after its write: the job is read only now, the run's own
\* status is not looked at.
Decided(th) ==
  /\ At(th, "decided") /\ MayRun(th)
  /\ \/ /\ To(th) = "approved"
        /\ Does(th, << SetRun("queued", FALSE), SetTask(Arg(th), "queued", FALSE) >>
                    \o IF job.status = "blocked" THEN << SetJob("queued", Keep) >>
                                                 ELSE <<>>)
     \/ /\ To(th) = "denied"
        /\ Does(th, << FailRun(Arg(th)) >>)
  /\ UNCHANGED <<store, proc, crashes>>

\* actions.createProposal on behalf of a client, for any task of the run
Propose(th) ==
  /\ Request(th, "propose") /\ Len(approvals) < MaxApprovals
  /\ \E t \in Tasks : /\ ~HasApproval(t, "denied")
                      /\ Does(th, << Then("ask", t, "pending") >>)
  /\ UNCHANGED <<store, proc, crashes>>

\* actions.execute finding the approval it is bound to approved but too old;
\* its write does not look at the status again.
Expire(th) ==
  /\ Request(th, "expire") /\ Len(approvals) < MaxApprovals
  /\ \E i \in DOMAIN approvals : /\ approvals[i].status = "approved"
                                 /\ Does(th, << Then("expire", i, "") >>)
  /\ UNCHANGED <<store, proc, crashes>>

ExpireWrite(th) ==
  /\ At(th, "expire") /\ MayRun(th)
  /\ approvals' = [approvals EXCEPT ![Arg(th)].status = "expired"]
  /\ Follow(th, <<>>)
  /\ UNCHANGED <<run, task, job, granted, questions, proc, crashes>>

\* runner.fail, for a job in flight that names the reporting runner
ReportFailure(th) ==
  /\ Request(th, "report_failure")
  /\ job.status \in {"claimed", "running", "blocked", "paused"}
  /\ job.runner # NoRunner
  /\ Does(th, << FailRun(0) >>)
  /\ UNCHANGED <<store, proc, crashes>>

---------------------------------------------------------------------------
(* Clarification threads *)

\* clarifications.create keeps the status it has read, to restore it later.
AskUser(th) ==
  /\ Request(th, "ask_user") /\ Len(questions) < MaxQuestions
  /\ Does(th, << Then("open", 0, run) >>)
  /\ UNCHANGED <<store, proc, crashes>>

OpenQuestion(th) ==
  /\ At(th, "open") /\ MayRun(th)
  /\ questions' = Append(questions, [open |-> TRUE, before |-> To(th)])
  /\ run' = "awaiting_clarification"
  /\ Follow(th, <<>>)
  /\ UNCHANGED <<task, job, approvals, granted, proc, crashes>>

Open == { i \in DOMAIN questions : questions[i].open }

\* clarifications.resolve
Resolve(th) ==
  /\ Request(th, "resolve")
  /\ \E i \in Open : Does(th, << Then("resolve", i, questions[i].before) >>)
  /\ UNCHANGED <<store, proc, crashes>>

ResolveWrite(th) ==
  /\ At(th, "resolve") /\ MayRun(th)
  /\ questions' = [questions EXCEPT ![Arg(th)].open = FALSE]
  /\ run' = IF run = "awaiting_clarification" THEN To(th) ELSE run
  /\ Follow(th, IF To(th) \in {"queued", "running", "blocked", "awaiting_clarification"}
                THEN << Then("resolved", 0, "") >> ELSE <<>>)
  /\ UNCHANGED <<task, job, approvals, granted, proc, crashes>>

Resolved(th) ==
  /\ At(th, "resolved") /\ MayRun(th)
  /\ Does(th, IF job.status \in {"blocked", "paused"} THEN << SetJob("queued", Keep) >>
                                                      ELSE <<>>)
  /\ UNCHANGED <<store, proc, crashes>>

\* pa.postMessage while a thread is open: the first one found is closed; the
\* JSON store lists the newest first, Postgres sorts them by random ids.
Reply(th) ==
  /\ Request(th, "reply")
  /\ \E i \in Open : Does(th, << Then("close", i, "") >>)
  /\ UNCHANGED <<store, proc, crashes>>

CloseQuestion(th) ==
  /\ At(th, "close") /\ MayRun(th)
  /\ questions' = [questions EXCEPT ![Arg(th)].open = FALSE]
  /\ Follow(th, << Then("closed", 0, "") >>)
  /\ UNCHANGED <<run, task, job, approvals, granted, proc, crashes>>

Closed(th) ==
  /\ At(th, "closed") /\ MayRun(th)
  /\ Does(th, IF run \in {"blocked", "awaiting_clarification"}
              THEN << SetRun("queued", FALSE), Then("replied", 0, "") >> ELSE <<>>)
  /\ UNCHANGED <<store, proc, crashes>>

Replied(th) ==
  /\ At(th, "replied") /\ MayRun(th)
  /\ Does(th, IF job.status = "blocked" THEN << SetJob("queued", Keep) >> ELSE <<>>)
  /\ UNCHANGED <<store, proc, crashes>>

---------------------------------------------------------------------------
(* Processes *)

\* The process is killed: its threads stop wherever they are.
Crash(p) ==
  /\ "crash" \in Env /\ p \in Fragile /\ crashes < MaxCrashes
  /\ proc[p] # "down"
  /\ proc' = [proc EXCEPT ![p] = "down"]
  /\ script' = [th \in Threads |-> IF Home[th] = p THEN <<>> ELSE script[th]]
  /\ crashes' = crashes + 1
  /\ UNCHANGED store

\* shutdown() sets shuttingDown, then waits for the executions and requests in
\* flight, but not for drainQueue.
Shutdown(p) ==
  /\ "shutdown" \in Env /\ p \in Fragile /\ crashes < MaxCrashes
  /\ proc[p] = "up"
  /\ proc' = [proc EXCEPT ![p] = "stopping"]
  /\ crashes' = crashes + 1
  /\ UNCHANGED <<store, script>>

Stopped(p) ==
  /\ proc[p] = "stopping"
  /\ \A th \in Threads : Home[th] = p => Idle(th) \/ Taking(th)
  /\ proc' = [proc EXCEPT ![p] = "down"]
  /\ script' = [th \in Threads |-> IF Home[th] = p THEN <<>> ELSE script[th]]
  /\ UNCHANGED <<store, crashes>>

\* Variant: the restart puts tasks and job back in the queue, not the run.
BootWithoutRun(p) ==
  /\ proc[p] = "down"
  /\ ~Overlap => \A th \in Threads : Parked(th)
  /\ proc' = [proc EXCEPT ![p] = "up"]
  /\ task' = [t \in Tasks |-> IF task[t] = "running" THEN "queued" ELSE task[t]]
  /\ job' = IF job.status \in {"claimed", "running"}
            THEN [status |-> "queued", runner |-> NoRunner] ELSE job
  /\ UNCHANGED <<run, approvals, granted, questions, script, crashes>>

\* createAppServices ends with restoreActiveRuns: whichever process starts,
\* everything marked running is put back in the queue.
Boot(p) ==
  /\ proc[p] = "down"
  /\ ~Overlap => \A th \in Threads : Parked(th)
  /\ proc' = [proc EXCEPT ![p] = "up"]
  /\ run' = IF run = "running" THEN "queued" ELSE run
  /\ task' = [t \in Tasks |-> IF task[t] = "running" THEN "queued" ELSE task[t]]
  /\ job' = IF job.status \in {"claimed", "running"}
            THEN [status |-> "queued", runner |-> NoRunner] ELSE job
  /\ UNCHANGED <<approvals, granted, questions, script, crashes>>

---------------------------------------------------------------------------
(* The specification *)

\* createRunFromRequest has just written the run, its tasks and its job.
Init ==
  /\ run = "queued"
  /\ task = [t \in Tasks |-> "queued"]
  /\ job = [status |-> "queued", runner |-> NoRunner]
  /\ approvals = <<>>
  /\ granted = {}
  /\ questions = <<>>
  /\ script = [th \in Threads |-> <<>>]
  /\ proc = [p \in Procs |-> "up"]
  /\ crashes = 0

StoreStep(th) ==
  \/ RunWrite(th) \/ TaskWrite(th) \/ JobRead(th) \/ JobWrite(th)
  \/ Bail(th) \/ Failing(th)

ExecStep(th) ==
  \/ ExecReturn(th) \/ ExecNoTaskLeft(th)
  \/ ExecProviderInvalid(th) \/ ExecProviderThrows(th)
  \/ ExecHeld(th) \/ ExecAsks(th) \/ ExecBegins(th) \/ Ask(th)
  \/ WorkDone(th) \/ WorkFails(th) \/ Recheck(th)
  \/ Synthesized(th) \/ SynthesisThrows(th)

AfterStep(th) ==
  \/ Start(th) \/ Decided(th) \/ ExpireWrite(th)
  \/ OpenQuestion(th) \/ ResolveWrite(th) \/ Resolved(th)
  \/ CloseQuestion(th) \/ Closed(th) \/ Replied(th)

\* The steps a thread that has begun something goes on with.
ThreadStep(th) == StoreStep(th) \/ ExecStep(th) \/ AfterStep(th)

RequestStep(th) ==
  \/ Pause(th) \/ Resume(th) \/ Cancel(th) \/ Decide(th) \/ ReportFailure(th)
  \/ Propose(th) \/ Expire(th) \/ AskUser(th) \/ Resolve(th) \/ Reply(th)

ProcStep(p) == Crash(p) \/ Shutdown(p) \/ Stopped(p) \/ Boot(p)

Next ==
  \/ \E th \in Threads :
       ThreadStep(th) \/ Claim(th) \/ WorkProposes(th) \/ RequestStep(th)
  \/ \E p \in Procs : ProcStep(p)

Spec == Init /\ [][Next]_vars

\* The event loops run, the runner's timer fires, a model call ends, and a
\* process that went down is started again.  Nobody has to send a request.
Fairness ==
  /\ \A th \in Threads : WF_vars(ThreadStep(th)) /\ WF_vars(Claim(th))
  /\ \A p \in Procs : WF_vars(Stopped(p)) /\ WF_vars(Boot(p))

FairSpec == Spec /\ Fairness

---------------------------------------------------------------------------
(* Properties *)

\* The shape of the stored records and of what is in flight.
TypeOK ==
  /\ run \in RunStatus
  /\ task \in [Tasks -> TaskStatus]
  /\ job \in [status : JobStatus, runner : RunnerIds \cup {NoRunner}]
  /\ approvals \in Seq([task : Tasks, status : ApprovalStatus])
  /\ granted \subseteq Tasks
  /\ questions \in Seq([open : BOOLEAN, before : RunStatus])
  /\ script \in [Threads -> Seq(Ops)]
  /\ proc \in [Procs -> {"up", "stopping", "down"}]
  /\ crashes \in Nat

Working(th)      == At(th, "work")
WorkingOn(th, t) == Working(th) /\ Arg(th) = t

\* No task that needs an approval is worked on, or counts as done, unless an
\* approval for it has been granted: whatever executeRun read, and however old
\* that is by the time it acts on it.
ApprovalGate ==
  \A t \in NeedsApproval :
    (task[t] \in {"running", "completed"} \/ \E th \in Threads : WorkingOn(th, t))
      => t \in granted

\* The run's tasks are worked on by one thread at a time.
SingleExecution ==
  \A th, u \in Threads : Working(th) /\ Working(u) => th = u

\* A run that counts as completed has all its tasks completed.
CompletedIsWhole ==
  run = "completed" => \A t \in Tasks : task[t] = "completed"

Quiet == /\ \A th \in Threads : Idle(th)
         /\ \A p \in Procs : proc[p] = "up"

\* When nothing is in flight, a run that is not over can still move: no run is
\* left marked running without anybody working on it ...
RunningIsDriven == Quiet => run # "running"

\* ... a queued run has a job that a runner can claim ...
QueuedIsClaimable == Quiet /\ run = "queued" => job.status = "queued"

\* ... and a blocked run has a decision to wait for, and a job that it requeues.
BlockedAwaitsDecision ==
  Quiet /\ run = "blocked" =>
    /\ job.status \in {"blocked", "queued"}
    /\ \E t \in Tasks : IsNext(t) /\ HasApproval(t, "pending")

\* What a restart has to leave behind: whatever is marked running or blocked
\* moves on by itself or by a decision.
StillDriven == RunningIsDriven /\ BlockedAwaitsDecision

\* ... and without a restart nothing queued is out of the runner's reach either.
NothingStranded == StillDriven /\ QueuedIsClaimable

\* A completed task is not undone or done again.
DoneOnce == [][\A t \in Tasks : task[t] = "completed" => task'[t] = "completed"]_vars

Finished == run \in Terminal
OnHold   == run \in {"paused", "awaiting_clarification"}

\* A run that is completed, failed or cancelled never changes again, and one
\* that is paused, or waits for an answer, is not running before it was put
\* back in the queue: also when a write was decided on an older reading.
StatusKept == [][(Finished => run' = run) /\ (OnHold => run' # "running")]_vars

\* The job keeps what a job promises, see JobTable.
Job == INSTANCE JobTable WITH entry <- job
JobFollowsTable == Job!Spec

\* Work that is queued does not stay queued or running for ever.
Settles == run = "queued" ~> run \notin {"queued", "running"}

\* A task blocked for an approval does not stay blocked once it is granted.
ApprovedProceeds ==
  \A t \in NeedsApproval : (task[t] = "blocked" /\ t \in granted) ~> task[t] # "blocked"
============================================================================
