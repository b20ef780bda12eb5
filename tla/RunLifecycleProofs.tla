------------------------ MODULE RunLifecycleProofs ------------------------
(***************************************************************************)
(* What holds of RunLifecycle whatever the number of tasks, of threads and *)
(* of processes, whatever the surroundings do, and whether or not the      *)
(* handlers interleave.                                                    *)
(***************************************************************************)
EXTENDS RunLifecycle, SequenceTheorems, TLAPS

---------------------------------------------------------------------------
(* Scripts *)

\* An access that would begin a gated task or count it as done.
Passes(o) == \/ o.op = "work"
             \/ o.op = "task" /\ o.to \in {"running", "completed"}

\* The accesses that respect the gate when G are the tasks granted so far.
Safe(G) == { o \in Ops : Passes(o) /\ o.arg \in NeedsApproval => o.arg \in G }

\* What an access of each kind carries.
LEMMA OpShape ==
  ASSUME NEW o \in Ops
  PROVE  /\ o.op \in {"run", "open", "resolve"} => o.to \in RunStatus
         /\ o.op = "task" => o.arg \in Tasks /\ o.to \in TaskStatus
         /\ o.op = "job" => o.to \in JobStatus /\ o.runner \in RunnerIds \cup {NoRunner, Keep}
         /\ o.op = "save" => o.to \in JobStatus /\ o.runner \in RunnerIds \cup {NoRunner}
         /\ o.op \in {"ask", "decided", "work", "recheck"} => o.arg \in Tasks
         /\ o.op \in {"exec", "synthesize", "fail"} => o.arg \in Tasks \cup {0}
         /\ o.op = "synthesize" => o.runner \in RunnerIds \cup {NoRunner}
  BY DEF Ops

\* The constructors of accesses yield safe ones.
LEMMA SafeSets ==
  ASSUME NEW G, NEW bail \in BOOLEAN
  PROVE  /\ \A status \in RunStatus : SetRun(status, bail) \in Safe(G)
         /\ \A t \in Tasks, status \in TaskStatus :
              (t \in NeedsApproval /\ status \in {"running", "completed"} => t \in G)
                => SetTask(t, status, bail) \in Safe(G)
  BY DEF Safe, Ops, Passes, SetRun, SetTask, Op, Keep

LEMMA SafeJobs ==
  ASSUME NEW G, NEW status \in JobStatus,
         NEW runner \in RunnerIds \cup {NoRunner, Keep},
         NEW bail \in BOOLEAN, NEW must \in BOOLEAN
  PROVE  /\ Op("job", 0, status, runner, bail, must) \in Safe(G)
         /\ SetJob(status, runner) \in Safe(G)
         /\ MustSetJob(status, runner) \in Safe(G)
         /\ runner # Keep => Op("save", 0, status, runner, bail, must) \in Safe(G)
  BY DEF Safe, Ops, Passes, SetJob, MustSetJob, Op

LEMMA SafeTasks ==
  ASSUME NEW G, NEW t \in Tasks, NEW bail \in BOOLEAN
  PROVE  /\ Then("ask", t, "pending") \in Safe(G)
         /\ \A verdict \in {"approved", "denied"} : Then("decided", t, verdict) \in Safe(G)
         /\ Op("recheck", t, "", Keep, bail, FALSE) \in Safe(G)
         /\ (t \in NeedsApproval => t \in G) => Op("work", t, "", Keep, bail, FALSE) \in Safe(G)
  BY DEF Safe, Ops, Passes, Then, Op, ApprovalStatus

LEMMA SafeExecs ==
  ASSUME NEW G, NEW after \in Tasks \cup {0}
  PROVE  /\ Execute(after) \in Safe(G)
         /\ FailRun(after) \in Safe(G)
         /\ \A runner \in RunnerIds \cup {NoRunner} :
              Op("synthesize", after, "", runner, TRUE, FALSE) \in Safe(G)
  BY DEF Safe, Ops, Passes, Execute, FailRun, Op

LEMMA SafeRest ==
  ASSUME NEW G, NEW n \in Nat, NEW status \in RunStatus
  PROVE  /\ Then("open", 0, status) \in Safe(G)
         /\ Then("resolve", n, status) \in Safe(G)
         /\ Then("close", n, "") \in Safe(G) /\ Then("expire", n, "") \in Safe(G)
         /\ \A kind \in {"start", "resolved", "closed", "replied"} :
              Then(kind, 0, "") \in Safe(G)
  BY DEF Safe, Ops, Passes, Then, Op

\* The tail of a script of safe accesses, and what is put before it.
LEMMA SafeScripts ==
  ASSUME NEW G, NEW s \in Seq(Safe(G)), s # <<>>
  PROVE  /\ Head(s) \in Safe(G) /\ Head(s) \in Ops
         /\ Tail(s) \in Seq(Safe(G))
         /\ \A rest \in Seq(Safe(G)) : rest \o Tail(s) \in Seq(Safe(G))
<1>1. Head(s) \in Safe(G) /\ Tail(s) \in Seq(Safe(G))
  BY HeadTailProperties
<1>2. \A rest \in Seq(Safe(G)) : rest \o Tail(s) \in Seq(Safe(G))
  BY <1>1, ConcatProperties
<1>. QED  BY <1>1, <1>2 DEF Safe

\* Granting more keeps safe accesses safe.
LEMMA SafeGrows ==
  ASSUME NEW G, NEW H, G \subseteq H, NEW s \in Seq(Safe(G))
  PROVE  s \in Seq(Safe(H))
<1>1. Safe(G) \subseteq Safe(H)
  BY DEF Safe
<1>. QED  BY <1>1, SeqMonotonic

\* Short scripts.
LEMMA Tuples ==
  ASSUME NEW S, NEW a \in S
  PROVE  /\ <<a>> \in Seq(S)
         /\ \A b \in S : <<a, b>> \in Seq(S)
         /\ \A b, c \in S : <<a, b, c>> \in Seq(S)
         /\ \A b, c, d \in S : <<a, b, c, d>> \in Seq(S)
  OBVIOUS

---------------------------------------------------------------------------
(* The inductive invariant *)

\* Besides the types: no script, however long ago its handler read the
\* approvals, holds an access that would pass the gate of a task not granted.
GateInv ==
  /\ script \in [Threads -> Seq(Safe(granted))]
  /\ \A i \in DOMAIN approvals :
       approvals[i].status = "approved" => approvals[i].task \in granted
  /\ \A t \in NeedsApproval : task[t] \in {"running", "completed"} => t \in granted

IInv == TypeOK /\ GateInv

LEMMA Initially == Init => IInv
<1> SUFFICES ASSUME Init PROVE IInv
  OBVIOUS
<1>1. Seq({}) \subseteq Seq(Ops) /\ <<>> \in Seq(Ops) /\ <<>> \in Seq(Safe(granted))
  BY EmptySeq
<1>2. TypeOK
  BY <1>1 DEF Init, TypeOK, RunStatus, TaskStatus, JobStatus
<1>3. GateInv
  BY <1>1, TasksAssumption DEF Init, GateInv, Tasks
<1>. QED  BY <1>2, <1>3 DEF IInv

\* A step that changes nothing but one script keeps the invariant when the new
\* script holds safe accesses only.
LEMMA ScriptStep ==
  ASSUME IInv, NEW th \in Threads, NEW rest \in Seq(Safe(granted)),
         Does(th, rest), UNCHANGED <<store, proc, crashes>>
  PROVE  IInv'
<1>1. rest \in Seq(Ops)
  BY SeqMonotonic DEF Safe
<1>2. TypeOK'
  BY <1>1 DEF IInv, TypeOK, Does, store
<1>3. GateInv'
  BY DEF IInv, GateInv, Does, store, Safe
<1>. QED  BY <1>2, <1>3 DEF IInv

\* The next access of a thread that is at one, and what may follow it.
LEMMA NextAccess ==
  ASSUME IInv, NEW th \in Threads, ~Idle(th)
  PROVE  /\ Head(script[th]) \in Safe(granted) /\ Head(script[th]) \in Ops
         /\ Tail(script[th]) \in Seq(Safe(granted))
         /\ \A rest \in Seq(Safe(granted)) : rest \o Tail(script[th]) \in Seq(Safe(granted))
  BY SafeScripts DEF IInv, GateInv, Idle

LEMMA FollowStep ==
  ASSUME IInv, NEW th \in Threads, ~Idle(th), NEW rest \in Seq(Safe(granted)),
         Follow(th, rest), UNCHANGED <<store, proc, crashes>>
  PROVE  IInv'
  BY NextAccess, ScriptStep DEF Follow

\* The scripts left by a step that does not take a grant away.
LEMMA ScriptsKept ==
  ASSUME IInv, NEW th \in Threads, NEW rest \in Seq(Safe(granted')),
         Does(th, rest), granted \subseteq granted'
  PROVE  script' \in [Threads -> Seq(Ops)] /\ script' \in [Threads -> Seq(Safe(granted'))]
<1>1. \A u \in Threads : script[u] \in Seq(Safe(granted'))
  BY SafeGrows DEF IInv, GateInv
<1>2. script' \in [Threads -> Seq(Safe(granted'))]
  BY <1>1 DEF Does, IInv, GateInv
<1>3. \A s \in Seq(Safe(granted')) : s \in Seq(Ops)
  BY SeqMonotonic DEF Safe
<1>. QED  BY <1>2, <1>3

---------------------------------------------------------------------------
(* Every step keeps it *)

LEMMA StoreSteps ==
  ASSUME IInv, NEW th \in Threads, StoreStep(th)
  PROVE  IInv'
<1>0. <<>> \in Seq(Safe(granted))
  BY EmptySeq
<1>1. CASE RunWrite(th)
  <2>1. ~Idle(th) /\ To(th) \in RunStatus
    BY <1>1, NextAccess, OpShape DEF RunWrite, At, To
  <2>2. run' \in RunStatus
    BY <1>1, <2>1 DEF RunWrite, IInv, TypeOK
  <2>3. script' \in [Threads -> Seq(Ops)] /\ script' \in [Threads -> Seq(Safe(granted'))]
    BY <1>1, <1>0, <2>1, NextAccess, ScriptsKept DEF RunWrite, Follow
  <2>. QED  BY <1>1, <2>2, <2>3 DEF RunWrite, IInv, TypeOK, GateInv
<1>2. CASE TaskWrite(th)
  <2>1. /\ ~Idle(th) /\ Arg(th) \in Tasks /\ To(th) \in TaskStatus
        /\ To(th) \in {"running", "completed"} /\ Arg(th) \in NeedsApproval
             => Arg(th) \in granted
    BY <1>2, NextAccess, OpShape DEF TaskWrite, At, To, Arg, Safe, Passes
  <2>2. /\ task' \in [Tasks -> TaskStatus]
        /\ \A t \in NeedsApproval : task'[t] \in {"running", "completed"} => t \in granted
    BY <1>2, <2>1, TasksAssumption DEF TaskWrite, IInv, TypeOK, GateInv
  <2>3. script' \in [Threads -> Seq(Ops)] /\ script' \in [Threads -> Seq(Safe(granted'))]
    BY <1>2, <1>0, <2>1, NextAccess, ScriptsKept DEF TaskWrite, Follow
  <2>. QED  BY <1>2, <2>2, <2>3 DEF TaskWrite, IInv, TypeOK, GateInv
<1>3. CASE JobRead(th)
  <2> DEFINE o    == Head(script[th])
             next == NextJob(o.to, o.runner)
             save == Op("save", 0, next.status, next.runner, FALSE, FALSE)
  <2>1. ~Idle(th) /\ o.to \in JobStatus /\ o.runner \in RunnerIds \cup {NoRunner, Keep}
    BY <1>3, NextAccess, OpShape DEF JobRead, At
  <2>2. next.status \in JobStatus /\ next.runner \in RunnerIds \cup {NoRunner}
    BY <2>1 DEF NextJob, IInv, TypeOK
  <2>3. next.runner # Keep
    BY <2>2, RunnerAssumption DEF NoRunner, Keep
  <2>4. save \in Safe(granted)
    BY <2>2, <2>3, SafeJobs
  <2>5. << save >> \in Seq(Safe(granted))
    BY <2>4, Tuples
  <2>6. Follow(th, << save >>) \/ Follow(th, <<>>) \/ Does(th, <<>>)
    BY <1>3 DEF JobRead
  <2>. QED  BY <1>3, <1>0, <2>1, <2>5, <2>6, FollowStep, ScriptStep DEF JobRead
<1>4. CASE JobWrite(th)
  <2>1. ~Idle(th) /\ job' \in [status : JobStatus, runner : RunnerIds \cup {NoRunner}]
    BY <1>4, NextAccess, OpShape DEF JobWrite, At, To
  <2>2. script' \in [Threads -> Seq(Ops)] /\ script' \in [Threads -> Seq(Safe(granted'))]
    BY <1>4, <1>0, <2>1, NextAccess, ScriptsKept DEF JobWrite, Follow
  <2>. QED  BY <1>4, <2>1, <2>2 DEF JobWrite, IInv, TypeOK, GateInv
<1>5. CASE Bail(th)
  BY <1>0, <1>5, ScriptStep DEF Bail
<1>6. CASE Failing(th)
  <2> DEFINE rest == << SetRun("failed", FALSE), SetJob("failed", Keep) >>
  <2>1. ~Idle(th) /\ Arg(th) \in Tasks \cup {0}
    BY <1>6, NextAccess, OpShape DEF Failing, At, Arg
  <2>2. SetRun("failed", FALSE) \in Safe(granted) /\ SetJob("failed", Keep) \in Safe(granted)
    BY SafeSets, SafeJobs DEF RunStatus, JobStatus
  <2>3. \A t \in Tasks : SetTask(t, "failed", FALSE) \in Safe(granted)
    BY SafeSets DEF TaskStatus
  <2>4. rest \in Seq(Safe(granted))
    BY <2>2, Tuples
  <2>5. \A t \in Tasks : << SetTask(t, "failed", FALSE) >> \o rest \in Seq(Safe(granted))
    <3>1. \A t \in Tasks : << SetTask(t, "failed", FALSE) >> \in Seq(Safe(granted))
      BY <2>3, Tuples
    <3>. QED  BY <3>1, <2>4, ConcatProperties
  <2>6. \E more \in Seq(Safe(granted)) : Follow(th, more)
    BY <1>6, <2>1, <2>4, <2>5 DEF Failing
  <2>. QED  BY <1>6, <2>1, <2>6, FollowStep DEF Failing
<1>. QED  BY <1>1, <1>2, <1>3, <1>4, <1>5, <1>6 DEF StoreStep

\* The accesses that hold a task for a decision are safe.
LEMMA HoldIsSafe ==
  ASSUME IInv, NEW t \in Tasks, NEW bail \in BOOLEAN
  PROVE  Hold(t, bail) \in Seq(Safe(granted))
<1>1. SetTask(t, "blocked", bail) \in Safe(granted)
  BY SafeSets DEF TaskStatus
<1>2. SetRun("blocked", bail) \in Safe(granted)
  BY SafeSets DEF RunStatus
<1>3. SetJob("blocked", job.runner) \in Safe(granted)
  BY SafeJobs DEF JobStatus, IInv, TypeOK
<1>. QED  BY <1>1, <1>2, <1>3, Tuples DEF Hold

\* A rejected executeRun leaves safe accesses.
LEMMA RejectedIsSafe ==
  ASSUME NEW G, NEW after \in Tasks \cup {0}
  PROVE  Rejected(after) \in Seq(Safe(G))
  BY SafeExecs, Tuples, EmptySeq DEF Rejected

LEMMA ExecSteps ==
  ASSUME IInv, NEW th \in Threads, ExecStep(th)
  PROVE  IInv'
<1>0. <<>> \in Seq(Safe(granted))
  BY EmptySeq
<1>1. CASE ExecReturn(th)
  BY <1>0, <1>1, ScriptStep DEF ExecReturn, Executing
<1>2. CASE ExecNoTaskLeft(th)
  <2>1. Arg(th) \in Tasks \cup {0}
    BY <1>2, NextAccess, OpShape DEF ExecNoTaskLeft, Proceeding, Executing, At, Arg
  <2>2. job.runner \in RunnerIds \cup {NoRunner}
    BY DEF IInv, TypeOK
  <2>3. << Op("synthesize", Arg(th), "", job.runner, TRUE, FALSE) >> \in Seq(Safe(granted))
    BY <2>1, <2>2, SafeExecs, Tuples
  <2>. QED  BY <1>2, <2>3, ScriptStep DEF ExecNoTaskLeft, Proceeding, Executing
<1>3. CASE ExecProviderInvalid(th)
  <2>1. PICK t \in Tasks : Does(th, << FailRun(t) >>)
    BY <1>3 DEF ExecProviderInvalid
  <2>2. << FailRun(t) >> \in Seq(Safe(granted))
    BY SafeExecs, Tuples
  <2>. QED  BY <1>3, <2>1, <2>2, ScriptStep DEF ExecProviderInvalid, Proceeding, Executing
<1>4. CASE ExecProviderThrows(th)
  <2>1. Arg(th) \in Tasks \cup {0}
    BY <1>4, NextAccess, OpShape DEF ExecProviderThrows, Proceeding, Executing, At, Arg
  <2>. QED  BY <1>4, <2>1, RejectedIsSafe, ScriptStep
            DEF ExecProviderThrows, Proceeding, Executing
<1>5. CASE ExecHeld(th)
  <2>1. PICK t \in NeedsApproval : Does(th, Hold(t, TRUE)) \/ Does(th, Hold(t, FALSE))
    BY <1>5 DEF ExecHeld
  <2>2. Hold(t, TRUE) \in Seq(Safe(granted)) /\ Hold(t, FALSE) \in Seq(Safe(granted))
    BY HoldIsSafe, TasksAssumption
  <2>. QED  BY <1>5, <2>1, <2>2, ScriptStep DEF ExecHeld, Proceeding, Executing
<1>6. CASE ExecAsks(th)
  <2>1. PICK t \in NeedsApproval : Does(th, << Then("ask", t, "pending") >> \o Hold(t, TRUE))
    BY <1>6 DEF ExecAsks
  <2>2. << Then("ask", t, "pending") >> \in Seq(Safe(granted))
    BY SafeTasks, Tuples, TasksAssumption
  <2>3. << Then("ask", t, "pending") >> \o Hold(t, TRUE) \in Seq(Safe(granted))
    BY <2>2, HoldIsSafe, ConcatProperties, TasksAssumption
  <2>. QED  BY <1>6, <2>1, <2>3, ScriptStep DEF ExecAsks, Proceeding, Executing
<1>7. CASE ExecBegins(th)
  <2> DEFINE begin(t) == << SetRun("running", TRUE), SetTask(t, "running", TRUE),
                            Op("work", t, "", Keep, TRUE, FALSE) >>
  <2>1. PICK t \in Tasks : GateOpen(t) /\ Does(th, begin(t))
    BY <1>7 DEF ExecBegins
  <2>2. ASSUME t \in NeedsApproval PROVE t \in granted
    <3>1. PICK i \in DOMAIN approvals : approvals[i] = [task |-> t, status |-> "approved"]
      BY <2>1, <2>2 DEF GateOpen, HasApproval
    <3>2. approvals[i].status = "approved" /\ approvals[i].task = t
      BY <3>1
    <3>. QED  BY <3>2 DEF IInv, GateInv
  <2>3. SetRun("running", TRUE) \in Safe(granted)
    BY SafeSets DEF RunStatus
  <2>4. SetTask(t, "running", TRUE) \in Safe(granted)
    BY <2>2, SafeSets DEF TaskStatus
  <2>5. Op("work", t, "", Keep, TRUE, FALSE) \in Safe(granted)
    BY <2>2, SafeTasks
  <2>6. begin(t) \in Seq(Safe(granted))
    BY <2>3, <2>4, <2>5, Tuples
  <2>. QED  BY <1>7, <2>1, <2>6, ScriptStep DEF ExecBegins, Proceeding, Executing
<1>8. CASE Ask(th)
  <2>1. ~Idle(th) /\ Arg(th) \in Tasks
    BY <1>8, NextAccess, OpShape DEF Ask, At, Arg
  <2>2. approvals' \in Seq([task : Tasks, status : ApprovalStatus])
    BY <1>8, <2>1 DEF Ask, IInv, TypeOK, ApprovalStatus
  <2>3. \A i \in DOMAIN approvals' :
          approvals'[i].status = "approved" => approvals'[i].task \in granted
    BY <1>8 DEF Ask, IInv, TypeOK, GateInv
  <2>4. script' \in [Threads -> Seq(Ops)] /\ script' \in [Threads -> Seq(Safe(granted'))]
    BY <1>0, <1>8, <2>1, NextAccess, ScriptsKept DEF Ask, Follow
  <2>. QED  BY <1>8, <2>2, <2>3, <2>4 DEF Ask, IInv, TypeOK, GateInv
<1>9. CASE WorkDone(th)
  <2>1. /\ ~Idle(th) /\ Arg(th) \in Tasks
        /\ Arg(th) \in NeedsApproval => Arg(th) \in granted
    BY <1>9, NextAccess, OpShape DEF WorkDone, At, Arg, Safe, Passes
  <2>2. SetTask(Arg(th), "completed", FALSE) \in Safe(granted)
    BY <2>1, SafeSets DEF TaskStatus
  <2>3. Op("recheck", Arg(th), "", Keep, TRUE, FALSE) \in Safe(granted)
    BY <2>1, SafeTasks
  <2>. QED  BY <1>9, <2>2, <2>3, Tuples, ScriptStep DEF WorkDone
<1>10. CASE WorkFails(th)
  <2>1. Arg(th) \in Tasks
    BY <1>10, NextAccess, OpShape DEF WorkFails, At, Arg
  <2>2. << FailRun(Arg(th)) >> \in Seq(Safe(granted))
    BY <2>1, SafeExecs, Tuples
  <2>. QED  BY <1>10, <2>2, ScriptStep DEF WorkFails
<1>11. CASE Recheck(th)
  <2>1. Arg(th) \in Tasks
    BY <1>11, NextAccess, OpShape DEF Recheck, At, Arg
  <2>2. << Execute(Arg(th)) >> \in Seq(Safe(granted))
    BY <2>1, SafeExecs, Tuples
  <2>. QED  BY <1>0, <1>11, <2>2, ScriptStep DEF Recheck
<1>12. CASE Synthesized(th)
  <2> DEFINE runner == Head(script[th]).runner
  <2>1. runner \in RunnerIds \cup {NoRunner}
    BY <1>12, NextAccess, OpShape DEF Synthesized, At
  <2>2. Op("job", 0, "completed", runner, TRUE, FALSE) \in Safe(granted)
    BY <2>1, SafeJobs DEF JobStatus
  <2>3. SetRun("completed", TRUE) \in Safe(granted)
    BY SafeSets DEF RunStatus
  <2>. QED  BY <1>12, <2>2, <2>3, Tuples, ScriptStep DEF Synthesized
<1>13. CASE SynthesisThrows(th)
  <2>1. Arg(th) \in Tasks \cup {0}
    BY <1>13, NextAccess, OpShape DEF SynthesisThrows, At, Arg
  <2>. QED  BY <1>13, <2>1, RejectedIsSafe, ScriptStep DEF SynthesisThrows
<1>. QED  BY <1>1, <1>2, <1>3, <1>4, <1>5, <1>6, <1>7, <1>8, <1>9, <1>10, <1>11,
             <1>12, <1>13 DEF ExecStep

\* Closing a thread keeps the shape of the list.
LEMMA QuestionClosed ==
  ASSUME NEW qs \in Seq([open : BOOLEAN, before : RunStatus]), NEW i
  PROVE  [qs EXCEPT ![i].open = FALSE] \in Seq([open : BOOLEAN, before : RunStatus])
<1>1. CASE i \in 1..Len(qs)
  <2>1. qs[i] \in [open : BOOLEAN, before : RunStatus]
    BY <1>1, ElementOfSeq
  <2>2. [qs[i] EXCEPT !.open = FALSE] \in [open : BOOLEAN, before : RunStatus]
    BY <2>1
  <2>. QED  BY <1>1, <2>2, ExceptSeq
<1>2. CASE i \notin 1..Len(qs)
  <2>1. [qs EXCEPT ![i].open = FALSE] = qs
    BY <1>2, LenProperties
  <2>. QED  BY <2>1
<1>. QED  BY <1>1, <1>2

\* An approval that expires keeps its task and is approved no more.
LEMMA ApprovalExpired ==
  ASSUME NEW as \in Seq([task : Tasks, status : ApprovalStatus]), NEW i
  PROVE  LET after == [as EXCEPT ![i].status = "expired"]
         IN /\ after \in Seq([task : Tasks, status : ApprovalStatus])
            /\ DOMAIN after = DOMAIN as
            /\ \A j \in DOMAIN as : after[j].status = "approved" => after[j] = as[j]
<1> DEFINE after == [as EXCEPT ![i].status = "expired"]
<1>1. CASE i \in 1..Len(as)
  <2>1. as[i] \in [task : Tasks, status : ApprovalStatus]
    BY <1>1, ElementOfSeq
  <2>2. [as[i] EXCEPT !.status = "expired"] \in [task : Tasks, status : ApprovalStatus]
    BY <2>1 DEF ApprovalStatus
  <2>3. after \in Seq([task : Tasks, status : ApprovalStatus])
    <3> HIDE DEF after
    <3> DEFINE late == [as[i] EXCEPT !.status = "expired"]
    <3>1. after = [as EXCEPT ![i] = late]
      BY DEF after
    <3>2. late \in [task : Tasks, status : ApprovalStatus]
      BY <2>2
    <3> HIDE DEF late
    <3>3. [as EXCEPT ![i] = late] \in Seq([task : Tasks, status : ApprovalStatus])
      BY <1>1, <3>2, ExceptSeq
    <3>. QED  BY <3>1, <3>3
  <2>4. after[i].status = "expired"
    BY <1>1, <2>1, LenProperties
  <2>5. \A j \in DOMAIN as : j # i => after[j] = as[j]
    OBVIOUS
  <2>. QED  BY <2>3, <2>4, <2>5
<1>2. CASE i \notin 1..Len(as)
  BY <1>2, LenProperties
<1>. QED  BY <1>1, <1>2

LEMMA AfterSteps ==
  ASSUME IInv, NEW th \in Threads, AfterStep(th)
  PROVE  IInv'
<1>0. <<>> \in Seq(Safe(granted))
  BY EmptySeq
<1>1. CASE Start(th)
  <2>1. SetRun("running", FALSE) \in Safe(granted) /\ Execute(0) \in Safe(granted)
    BY SafeSets, SafeExecs DEF RunStatus
  <2>2. ASSUME RunnerId[Home[th]] \in RunnerIds \cup {NoRunner}
        PROVE  MustSetJob("running", RunnerId[Home[th]]) \in Safe(granted)
    BY <2>2, SafeJobs DEF JobStatus
  <2>3. job = [status |-> "claimed", runner |-> RunnerId[Home[th]]]
          => RunnerId[Home[th]] \in RunnerIds \cup {NoRunner}
    BY DEF IInv, TypeOK
  <2>. QED  BY <1>0, <1>1, <2>1, <2>2, <2>3, Tuples, ScriptStep DEF Start
<1>2. CASE Decided(th)
  <2> DEFINE both == << SetRun("queued", FALSE), SetTask(Arg(th), "queued", FALSE) >>
  <2>1. Arg(th) \in Tasks
    BY <1>2, NextAccess, OpShape DEF Decided, At, Arg
  <2>2. /\ SetRun("queued", FALSE) \in Safe(granted)
        /\ SetTask(Arg(th), "queued", FALSE) \in Safe(granted)
        /\ SetJob("queued", Keep) \in Safe(granted)
        /\ FailRun(Arg(th)) \in Safe(granted)
    BY <2>1, SafeSets, SafeJobs, SafeExecs DEF RunStatus, TaskStatus, JobStatus
  <2>3. /\ both \in Seq(Safe(granted)) /\ << SetJob("queued", Keep) >> \in Seq(Safe(granted))
        /\ << FailRun(Arg(th)) >> \in Seq(Safe(granted))
    BY <2>2, Tuples
  <2>4. /\ both \o << SetJob("queued", Keep) >> \in Seq(Safe(granted))
        /\ both \o <<>> \in Seq(Safe(granted))
    BY <1>0, <2>3, ConcatProperties
  <2>. QED  BY <1>2, <2>3, <2>4, ScriptStep DEF Decided
<1>3. CASE OpenQuestion(th)
  <2>1. ~Idle(th) /\ To(th) \in RunStatus
    BY <1>3, NextAccess, OpShape DEF OpenQuestion, At, To
  <2>2. questions' \in Seq([open : BOOLEAN, before : RunStatus])
    BY <1>3, <2>1 DEF OpenQuestion, IInv, TypeOK
  <2>3. script' \in [Threads -> Seq(Ops)] /\ script' \in [Threads -> Seq(Safe(granted'))]
    BY <1>0, <1>3, <2>1, NextAccess, ScriptsKept DEF OpenQuestion, Follow
  <2>. QED  BY <1>3, <2>2, <2>3 DEF OpenQuestion, IInv, TypeOK, GateInv, RunStatus
<1>4. CASE ResolveWrite(th)
  <2>1. ~Idle(th) /\ To(th) \in RunStatus
    BY <1>4, NextAccess, OpShape DEF ResolveWrite, At, To
  <2>2. questions' \in Seq([open : BOOLEAN, before : RunStatus]) /\ run' \in RunStatus
    BY <1>4, <2>1, QuestionClosed DEF ResolveWrite, IInv, TypeOK
  <2>3. << Then("resolved", 0, "") >> \in Seq(Safe(granted))
    BY SafeRest, Tuples DEF RunStatus
  <2>4. script' \in [Threads -> Seq(Ops)] /\ script' \in [Threads -> Seq(Safe(granted'))]
    BY <1>0, <1>4, <2>1, <2>3, NextAccess, ScriptsKept DEF ResolveWrite, Follow
  <2>. QED  BY <1>4, <2>2, <2>4 DEF ResolveWrite, IInv, TypeOK, GateInv
<1>5. CASE Resolved(th)
  <2>1. << SetJob("queued", Keep) >> \in Seq(Safe(granted))
    BY SafeJobs, Tuples DEF JobStatus
  <2>. QED  BY <1>0, <1>5, <2>1, ScriptStep DEF Resolved
<1>6. CASE CloseQuestion(th)
  <2>1. ~Idle(th)
    BY <1>6 DEF CloseQuestion, At
  <2>2. questions' \in Seq([open : BOOLEAN, before : RunStatus])
    BY <1>6, QuestionClosed DEF CloseQuestion, IInv, TypeOK
  <2>3. << Then("closed", 0, "") >> \in Seq(Safe(granted))
    BY SafeRest, Tuples DEF RunStatus
  <2>4. script' \in [Threads -> Seq(Ops)] /\ script' \in [Threads -> Seq(Safe(granted'))]
    BY <1>6, <2>1, <2>3, NextAccess, ScriptsKept DEF CloseQuestion, Follow
  <2>. QED  BY <1>6, <2>2, <2>4 DEF CloseQuestion, IInv, TypeOK, GateInv
<1>7. CASE Closed(th)
  <2>1. << SetRun("queued", FALSE), Then("replied", 0, "") >> \in Seq(Safe(granted))
    BY SafeSets, SafeRest, Tuples DEF RunStatus
  <2>. QED  BY <1>0, <1>7, <2>1, ScriptStep DEF Closed
<1>8. CASE Replied(th)
  <2>1. << SetJob("queued", Keep) >> \in Seq(Safe(granted))
    BY SafeJobs, Tuples DEF JobStatus
  <2>. QED  BY <1>0, <1>8, <2>1, ScriptStep DEF Replied
<1>9. CASE ExpireWrite(th)
  <2>1. ~Idle(th)
    BY <1>9 DEF ExpireWrite, At
  <2>2. approvals \in Seq([task : Tasks, status : ApprovalStatus])
    BY DEF IInv, TypeOK
  <2>3. /\ approvals' \in Seq([task : Tasks, status : ApprovalStatus])
        /\ \A i \in DOMAIN approvals' :
             approvals'[i].status = "approved" => approvals'[i].task \in granted
    BY <1>9, <2>2, ApprovalExpired DEF ExpireWrite, IInv, GateInv
  <2>4. script' \in [Threads -> Seq(Ops)] /\ script' \in [Threads -> Seq(Safe(granted'))]
    BY <1>0, <1>9, <2>1, NextAccess, ScriptsKept DEF ExpireWrite, Follow
  <2>. QED  BY <1>9, <2>3, <2>4 DEF ExpireWrite, IInv, TypeOK, GateInv
<1>. QED  BY <1>1, <1>2, <1>3, <1>4, <1>5, <1>6, <1>7, <1>8, <1>9 DEF AfterStep

LEMMA RequestSteps ==
  ASSUME IInv, NEW th \in Threads, RequestStep(th)
  PROVE  IInv'
<1>0. <<>> \in Seq(Safe(granted))
  BY EmptySeq
<1>1. \A status \in {"paused", "queued", "cancelled"} :
        << SetRun(status, FALSE) >> \in Seq(Safe(granted))
  BY SafeSets, Tuples DEF RunStatus
<1>2. \A status \in {"paused", "queued", "cancelled"} :
        /\ << SetJob(status, job.runner) >> \in Seq(Safe(granted))
        /\ << SetJob(status, Keep) >> \in Seq(Safe(granted))
  BY SafeJobs, Tuples DEF JobStatus, IInv, TypeOK
<1>3. CASE Pause(th)
  <2>1. /\ << SetRun("paused", FALSE) >> \o << SetJob("paused", job.runner) >> \in Seq(Safe(granted))
        /\ << SetRun("paused", FALSE) >> \o <<>> \in Seq(Safe(granted))
    BY <1>0, <1>1, <1>2, ConcatProperties
  <2>. QED  BY <1>3, <2>1, ScriptStep DEF Pause
<1>4. CASE Resume(th)
  <2>1. /\ << SetRun("queued", FALSE) >> \o << SetJob("queued", Keep) >> \in Seq(Safe(granted))
        /\ << SetRun("queued", FALSE) >> \o <<>> \in Seq(Safe(granted))
    BY <1>0, <1>1, <1>2, ConcatProperties
  <2>. QED  BY <1>4, <2>1, ScriptStep DEF Resume
<1>5. CASE Cancel(th)
  <2>1. /\ << SetRun("cancelled", FALSE) >> \o << SetJob("cancelled", job.runner) >> \in Seq(Safe(granted))
        /\ << SetRun("cancelled", FALSE) >> \o <<>> \in Seq(Safe(granted))
    BY <1>0, <1>1, <1>2, ConcatProperties
  <2>. QED  BY <1>5, <2>1, ScriptStep DEF Cancel
<1>6. CASE Decide(th)
  <2>1. PICK i \in DOMAIN approvals, verdict \in {"approved", "denied"} :
          /\ approvals' = [approvals EXCEPT ![i].status = verdict]
          /\ granted' = IF verdict = "approved" THEN granted \cup {approvals[i].task}
                                                ELSE granted
          /\ Does(th, << Then("decided", approvals[i].task, verdict) >>)
          /\ UNCHANGED <<run, task, job, questions, proc, crashes>>
    BY <1>6 DEF Decide
  <2>2. i \in 1..Len(approvals) /\ approvals[i] \in [task : Tasks, status : ApprovalStatus]
    <3>1. approvals \in Seq([task : Tasks, status : ApprovalStatus])
      BY DEF IInv, TypeOK
    <3>. QED  BY <2>1, <3>1, LenProperties, ElementOfSeq
  <2>3. granted \subseteq granted' /\ granted' \subseteq Tasks
    BY <2>1, <2>2 DEF IInv, TypeOK
  <2>4. approvals' \in Seq([task : Tasks, status : ApprovalStatus])
    <3>1. [approvals[i] EXCEPT !.status = verdict] \in [task : Tasks, status : ApprovalStatus]
      BY <2>2 DEF ApprovalStatus
    <3>. QED  BY <2>1, <2>2, <3>1, ExceptSeq DEF IInv, TypeOK
  <2>5. ASSUME NEW j \in DOMAIN approvals', approvals'[j].status = "approved"
        PROVE  approvals'[j].task \in granted'
    <3>1. j \in DOMAIN approvals /\ approvals'[j].task = approvals[j].task
      BY <2>1, <2>2, <2>5 DEF IInv, TypeOK
    <3>2. CASE j = i
      BY <2>1, <2>2, <2>5, <3>1, <3>2
    <3>3. CASE j # i
      BY <2>1, <2>3, <2>5, <3>1, <3>3 DEF IInv, GateInv
    <3>. QED  BY <3>2, <3>3
  <2>6. << Then("decided", approvals[i].task, verdict) >> \in Seq(Safe(granted'))
    BY <2>2, SafeTasks, Tuples
  <2>7. script' \in [Threads -> Seq(Ops)] /\ script' \in [Threads -> Seq(Safe(granted'))]
    BY <2>1, <2>3, <2>6, ScriptsKept
  <2>8. TypeOK'
    BY <2>1, <2>3, <2>4, <2>7 DEF IInv, TypeOK
  <2>9. GateInv'
    BY <2>1, <2>3, <2>5, <2>7 DEF IInv, GateInv
  <2>. QED  BY <2>8, <2>9 DEF IInv
<1>7. CASE ReportFailure(th)
  <2>1. << FailRun(0) >> \in Seq(Safe(granted))
    BY SafeExecs, Tuples
  <2>. QED  BY <1>7, <2>1, ScriptStep DEF ReportFailure
<1>8. CASE AskUser(th)
  <2>1. << Then("open", 0, run) >> \in Seq(Safe(granted))
    BY SafeRest, Tuples DEF IInv, TypeOK
  <2>. QED  BY <1>8, <2>1, ScriptStep DEF AskUser
<1>9. CASE Resolve(th)
  <2>1. PICK i \in Open : Does(th, << Then("resolve", i, questions[i].before) >>)
    BY <1>9 DEF Resolve
  <2>2. i \in Nat /\ questions[i].before \in RunStatus
    <3>1. questions \in Seq([open : BOOLEAN, before : RunStatus]) /\ i \in DOMAIN questions
      BY DEF IInv, TypeOK, Open
    <3>2. i \in 1..Len(questions) /\ questions[i] \in [open : BOOLEAN, before : RunStatus]
      BY <3>1, LenProperties, ElementOfSeq
    <3>. QED  BY <3>2
  <2>3. << Then("resolve", i, questions[i].before) >> \in Seq(Safe(granted))
    BY <2>2, SafeRest, Tuples
  <2>. QED  BY <1>9, <2>1, <2>3, ScriptStep DEF Resolve
<1>10. CASE Reply(th)
  <2>1. PICK i \in Open : Does(th, << Then("close", i, "") >>)
    BY <1>10 DEF Reply
  <2>2. i \in Nat
    BY LenProperties DEF Open, IInv, TypeOK
  <2>3. << Then("close", i, "") >> \in Seq(Safe(granted))
    BY <2>2, SafeRest, Tuples DEF RunStatus
  <2>. QED  BY <1>10, <2>1, <2>3, ScriptStep DEF Reply
<1>11. CASE Propose(th)
  <2>1. \A t \in Tasks : << Then("ask", t, "pending") >> \in Seq(Safe(granted))
    BY SafeTasks, Tuples
  <2>. QED  BY <1>11, <2>1, ScriptStep DEF Propose
<1>12. CASE Expire(th)
  <2>1. PICK i \in DOMAIN approvals : Does(th, << Then("expire", i, "") >>)
    BY <1>12 DEF Expire
  <2>2. i \in Nat
    <3>1. approvals \in Seq([task : Tasks, status : ApprovalStatus])
      BY DEF IInv, TypeOK
    <3>2. i \in 1..Len(approvals)
      BY <2>1, <3>1, LenProperties
    <3>. QED  BY <3>2
  <2>3. << Then("expire", i, "") >> \in Seq(Safe(granted))
    BY <2>2, SafeRest, Tuples DEF RunStatus
  <2>. QED  BY <1>12, <2>1, <2>3, ScriptStep DEF Expire
<1>. QED  BY <1>3, <1>4, <1>5, <1>6, <1>7, <1>8, <1>9, <1>10, <1>11, <1>12
          DEF RequestStep

\* Scripts that are kept or dropped stay safe.
LEMMA ScriptsDropped ==
  ASSUME IInv, NEW gone,
         script' = [th \in Threads |-> IF Home[th] = gone THEN <<>> ELSE script[th]]
  PROVE  script' \in [Threads -> Seq(Ops)] /\ script' \in [Threads -> Seq(Safe(granted))]
<1>1. <<>> \in Seq(Ops) /\ <<>> \in Seq(Safe(granted))
  BY EmptySeq
<1>. QED  BY <1>1 DEF IInv, TypeOK, GateInv

LEMMA ProcSteps ==
  ASSUME IInv, NEW p \in Procs, ProcStep(p)
  PROVE  IInv'
<1>1. CASE Crash(p)
  <2>1. script' \in [Threads -> Seq(Ops)] /\ script' \in [Threads -> Seq(Safe(granted))]
    BY <1>1, ScriptsDropped DEF Crash
  <2>. QED  BY <1>1, <2>1 DEF Crash, IInv, TypeOK, GateInv, store
<1>2. CASE Shutdown(p)
  BY <1>2 DEF Shutdown, IInv, TypeOK, GateInv, store
<1>3. CASE Stopped(p)
  <2>1. script' \in [Threads -> Seq(Ops)] /\ script' \in [Threads -> Seq(Safe(granted))]
    BY <1>3, ScriptsDropped DEF Stopped
  <2>. QED  BY <1>3, <2>1 DEF Stopped, IInv, TypeOK, GateInv, store
<1>4. CASE Boot(p)
  <2>1. /\ run' \in RunStatus
        /\ job' \in [status : JobStatus, runner : RunnerIds \cup {NoRunner}]
    BY <1>4 DEF Boot, IInv, TypeOK, RunStatus, JobStatus
  <2>2. /\ task' \in [Tasks -> TaskStatus]
        /\ \A t \in NeedsApproval : task'[t] \in {"running", "completed"} => t \in granted
    BY <1>4, TasksAssumption DEF Boot, IInv, TypeOK, GateInv, TaskStatus
  <2>. QED  BY <1>4, <2>1, <2>2 DEF Boot, IInv, TypeOK, GateInv
<1>. QED  BY <1>1, <1>2, <1>3, <1>4 DEF ProcStep

LEMMA OtherSteps ==
  ASSUME IInv, NEW th \in Threads, Claim(th) \/ WorkProposes(th)
  PROVE  IInv'
<1>1. CASE Claim(th)
  <2>1. RunnerId[Home[th]] \in RunnerIds
    BY <1>1 DEF Claim, RunnerIds
  <2>2. MustSetJob("claimed", RunnerId[Home[th]]) \in Safe(granted)
    BY <2>1, SafeJobs DEF JobStatus
  <2>3. Then("start", 0, "") \in Safe(granted)
    BY SafeRest DEF RunStatus
  <2>. QED  BY <1>1, <2>2, <2>3, Tuples, ScriptStep DEF Claim
<1>2. CASE WorkProposes(th)
  <2>1. ~Idle(th) /\ Arg(th) \in Tasks
    BY <1>2, NextAccess, OpShape DEF WorkProposes, At, Arg
  <2>2. << Then("ask", Arg(th), "pending") >> \in Seq(Safe(granted))
    BY <2>1, SafeTasks, Tuples
  <2>3. << Then("ask", Arg(th), "pending") >> \o script[th] \in Seq(Safe(granted))
    BY <2>2, ConcatProperties DEF IInv, GateInv
  <2>. QED  BY <1>2, <2>3, ScriptStep DEF WorkProposes
<1>. QED  BY <1>1, <1>2

LEMMA Stepwise == IInv /\ [Next]_vars => IInv'
<1> SUFFICES ASSUME IInv, [Next]_vars PROVE IInv'
  OBVIOUS
<1>1. CASE UNCHANGED vars
  BY <1>1 DEF vars, IInv, TypeOK, GateInv
<1>2. ASSUME NEW th \in Threads,
             ThreadStep(th) \/ Claim(th) \/ WorkProposes(th) \/ RequestStep(th)
      PROVE  IInv'
  BY <1>2, StoreSteps, ExecSteps, AfterSteps, OtherSteps, RequestSteps DEF ThreadStep
<1>3. ASSUME NEW p \in Procs, ProcStep(p) PROVE IInv'
  BY <1>3, ProcSteps
<1>. QED  BY <1>1, <1>2, <1>3 DEF Next

---------------------------------------------------------------------------
(* Theorems *)

\* In every state the program can reach, the stored records and the accesses
\* in flight have the shapes the code gives them: in particular a job never
\* names a runner that did not claim it.
THEOREM TypeCorrect == Spec => []TypeOK
<1>1. IInv => TypeOK
  BY DEF IInv
<1>. QED  BY Initially, Stepwise, <1>1, PTL DEF Spec

\* executeRun's approval gate holds: however the handlers of any number of
\* processes interleave, crash or decide again, a task that needs an approval
\* is worked on, or counts as completed, only if one was granted.
THEOREM ApprovalGateHolds == Spec => []ApprovalGate
<1>1. ASSUME IInv PROVE ApprovalGate
  <2> SUFFICES ASSUME NEW t \in NeedsApproval,
                      task[t] \in {"running", "completed"}
                        \/ \E th \in Threads : WorkingOn(th, t)
               PROVE  t \in granted
    BY DEF ApprovalGate
  <2>1. CASE task[t] \in {"running", "completed"}
    BY <1>1, <2>1 DEF IInv, GateInv
  <2>2. CASE \E th \in Threads : WorkingOn(th, t)
    BY <1>1, <2>2, NextAccess DEF WorkingOn, Working, At, Arg, Safe, Passes
  <2>. QED  BY <2>1, <2>2
<1>. QED  BY Initially, Stepwise, <1>1, PTL DEF Spec
===========================================================================
